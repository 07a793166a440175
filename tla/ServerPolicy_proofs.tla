------------------------- MODULE ServerPolicy_proofs -------------------------
(***************************************************************************)
(* Whatever the server connector hands on is justified by its              *)
(* configuration.  The lemmas say what each check of handle_server         *)
(* guarantees once it has passed; the theorem carries that across the      *)
(* rate limiter and the request body to the message Relay receives.  Then  *)
(* the purpose decision is shown to agree with its reference definition,   *)
(* which knows nothing of scopes and gates.                                *)
(*                                                                         *)
(* The rate limiter inside the server connector is the limiter that        *)
(* RateLimiter specifies, so what RateLimiter_proofs proves of it alone    *)
(* bounds what Relay sees, for any configuration and any number of         *)
(* requests.  That the limiter is only asked with configured keys also     *)
(* completes the types of the server connector.                            *)
(***************************************************************************)
EXTENDS ServerConnector_proofs, PurposeDecision

(* An identity that verify_peer accepts (tls.rs) belongs to a chain that   *)
(* is valid now and leads to an anchor of the identity's own domain.       *)
LEMMA VerifiedPeerIsAnchored ==
    ASSUME NEW tr, NEW ch, NEW time \in Int, NEW id \in VerifyPeer(tr, ch, time),
           ch.from \in Int, ch.until \in Int
    PROVE  /\ time \in ch.from .. ch.until
           /\ \E a \in tr.anchors :
                a.ca \in ch.issuers /\ (a.trust_domain \in TrustDomain(id) \/ id \in a.dns_identities)
<1>1. ValidAt(ch, time) /\ ch.issuers \cap BoundRoots(tr, id) # {}
  BY DEF VerifyPeer, ChainsTo
<1>2. time \in ch.from .. ch.until
  BY <1>1 DEF ValidAt
<1>3. PICK ca \in ch.issuers : ca \in BoundRoots(tr, id)
  BY <1>1
<1>4. CASE TrustDomain(id) # None
  <2>1. The(TrustDomain(id)) \in TrustDomain(id)
    BY <1>4 DEF The, None
  <2>2. PICK a \in tr.anchors : a.trust_domain = The(TrustDomain(id)) /\ a.ca = ca
    BY <1>3, <1>4 DEF BoundRoots, AnchorsByDomain
  <2>3. QED
    BY <1>2, <1>3, <2>1, <2>2
<1>5. CASE TrustDomain(id) = None
  <2>1. PICK a \in tr.anchors : id \in a.dns_identities /\ a.ca = ca
    BY <1>3, <1>5 DEF BoundRoots, AnchorsByDns
  <2>2. QED
    BY <1>2, <1>3, <2>1
<1>6. QED
  BY <1>4, <1>5

(* A purpose that authorize_server_purpose grants is on the route's list,  *)
(* if the route has one: neither a missing purpose nor a freshness gate    *)
(* the decision point skips lets another through.                          *)
LEMMA PurposeIsListed ==
    ASSUME NEW r, NEW h, NEW es, NEW id, NEW time,
           NEW v \in AuthorizeServerPurpose(r, h, es, id, time),
           v.problem = NoProblem, r.purposes # {}
    PROVE  v.purpose # None /\ v.purpose \subseteq r.purposes
<1> DEFINE stated == The(DataPurposes(h))
           c == PdpContext(stated, h, TrustedScopes(r, es, id), time)
<1>1. /\ ~RepeatedPurpose(h) /\ v = Granted(DataPurposes(h)) /\ DataPurposes(h) # None
      /\ \E d \in PdpDecisions(r, c) : d.kind = "Permit"
  <2>1. GrantSays(v, r, h, TrustedScopes(r, es, id), c)
    BY GrantMeaning
  <2> HIDE DEF c
  <2>2. QED
    BY <2>1 DEF GrantSays
<1>2. GateHolds("Purpose", r, c)
  <2> HIDE DEF c
  <2>1. PICK d \in PdpDecisions(r, c) : d.kind = "Permit"
    BY <1>1
  <2>2. DecisionSays(d, r, c)
    BY DecisionMeaning
  <2>3. QED
    BY <2>1, <2>2 DEF DecisionSays, Gates
<1>3. c.purpose = stated
  BY DEF PdpContext
<1>4. r.purposes \in PurposeConstraints(r)
  BY DEF PurposeConstraints
<1>5. stated \in r.purposes
  BY <1>2, <1>3, <1>4 DEF GateHolds
<1>6. v.purpose = DataPurposes(h)
  BY <1>1, VerdictFields, Zenon
<1>7. QED
  BY <1>1, <1>5, <1>6, OnePurpose DEF Some

-----------------------------------------------------------------------------
\* What makes a request of an identity on a route permissible.
Justified(in, time, id, r, p) ==
    /\ \E c \in in.chain : time \in c.from..c.until /\ \E a \in Config.trust.anchors :
          a.ca \in c.issuers /\ (a.trust_domain \in TrustDomain(id) \/ id \in a.dns_identities)
    /\ \E a \in Config.trust.allowed : Trim(a) = id
    /\ in.method \in r.methods
    /\ \E a \in r.client_identity \cup r.client_identities : Trim(a) = id
    /\ r.purposes # {} => p # None /\ p \subseteq r.purposes

(* The checks of handle_server (proxy.rs:198-237) together justify the     *)
(* request they let through.                                               *)
LEMMA RequestIsJustified ==
    ASSUME NEW in \in Inputs, NEW time \in Int, NEW v \in Authorize(in, time),
           v.problem = NoProblem
    PROVE  \E r \in Range(Config.routes) :
              r.id = v.key[2] /\ Justified(in, time, v.key[1], r, v.purpose)
<1> DEFINE ids == UNION {VerifyPeer(Config.trust, c, time) : c \in in.chain}
           id == The(ids)
           match == FindServerRoute(Config.routes, in.method, in.path, id)
           r == The(match).route
           verdicts == AuthorizeServerPurpose(r, in.headers, Config.trust.entitlements, id, time)
<1>1. \A kind \in {"ClientIdentityMissing", "ClientIdentityDenied", "RouteDenied"} :
          Judgement(Problem(kind)).problem # NoProblem
  BY NamedProblem, Zenon DEF Judgement
<1>2. /\ ids # None /\ Allowlisted(Config.trust, id) /\ match # None
      /\ v \in {[problem |-> w.problem, key |-> <<id, r.id>>, purpose |-> w.purpose] :
                  w \in verdicts}
  BY <1>1 DEF Authorize
<1>3. id \in ids /\ The(match) \in match
  BY <1>2, Zenon DEF The, None
<1>4. PICK c \in in.chain : id \in VerifyPeer(Config.trust, c, time)
  BY <1>3
<1>5. r \in Range(Config.routes) /\ in.method \in r.methods /\ RouteMatchesClientIdentity(r, id)
  BY <1>3, RouteIsAllowed
<1> HIDE DEF ids, id, match, r, verdicts
<1>6. PICK w \in verdicts :
         v = [problem |-> w.problem, key |-> <<id, r.id>>, purpose |-> w.purpose]
  BY <1>2
<1>7. w.problem = NoProblem /\ v.key[1] = id /\ v.key[2] = r.id /\ v.purpose = w.purpose
  BY <1>6
<1>8. r.purposes # {} => w.purpose # None /\ w.purpose \subseteq r.purposes
  BY <1>7, PurposeIsListed DEF verdicts
<1>9. PICK a \in Config.trust.allowed : Trim(a) = id
  BY <1>2 DEF Allowlisted
<1>10. Trim(id) = id
  BY <1>9, PaddedAssumption, Zenon DEF Trim
<1>11. \E b \in r.client_identity \cup r.client_identities : Trim(b) = id
  BY <1>5, <1>10 DEF RouteMatchesClientIdentity
<1>12. c.from \in Int /\ c.until \in Int
  BY ChainAssumption
<1>13. time \in c.from..c.until /\ \E b \in Config.trust.anchors :
          b.ca \in c.issuers /\ (b.trust_domain \in TrustDomain(id) \/ id \in b.dns_identities)
  BY <1>4, <1>12, VerifiedPeerIsAnchored
<1>14. Justified(in, time, id, r, w.purpose)
  BY <1>5, <1>8, <1>9, <1>11, <1>13 DEF Justified
<1>15. QED
  BY <1>5, <1>7, <1>14

-----------------------------------------------------------------------------
\* What is known of a message beyond its authorization.
WellSent(q) ==
    /\ judged[q] \in Nat
    /\ input[q] \subseteq Inputs
    /\ st[q] # "new" => input[q] # None
    /\ \A m \in sent[q] :
        The(input[q]).body = "fits" /\ m.authorization # None /\ m.cookie = FALSE

SendInv == clock \in Nat /\ \A q \in Requests : WellSent(q)

(* A step keeps SendInv if it changes none of its functions for any        *)
(* request, and takes no request back to the start.                        *)
LEMMA QuietKeepsSend ==
    ASSUME SendInv, clock' \in Nat, UNCHANGED <<judged, input, sent>>,
           \A r \in Requests : st'[r] = "new" \/ st[r] # "new" \/ input[r] # None
    PROVE  SendInv'
<1>1. ASSUME NEW r \in Requests, st'[r] # "new" PROVE input[r] # None
  BY <1>1 DEF SendInv, WellSent
<1>2. QED
  BY <1>1 DEF SendInv, WellSent

(* Every message handed to the HTTP client has a complete body behind it,  *)
(* carries the credential of the connector and no cookie of the caller     *)
(* (proxy.rs:243-268).                                                     *)
THEOREM SendInvariant == Spec => []SendInv
<1>1. Init => SendInv
  BY DEF Init, RL!Init, SendInv, WellSent, None
<1>2. HandlerInv /\ SendInv /\ [Next]_vars => SendInv'
  <2> SUFFICES ASSUME HandlerInv, SendInv, [Next]_vars PROVE SendInv'
    OBVIOUS
  <2>0. Shape /\ (\A r \in Requests : RequestInv(r)) /\ clock \in Nat
    BY HandlerInvParts DEF SendInv
  <2>1. ASSUME NEW q \in Requests, NEW in \in Inputs, Arrive(q, in) PROVE SendInv'
    <3>1. sent[q] = None
      BY <2>0, <2>1 DEF Arrive, RequestInv, Unsent
    <3>2. WellSent(q)'
      BY <2>0, <2>1, <3>1 DEF Arrive, SendInv, WellSent, Shape, Some, None
    <3>3. ASSUME NEW r \in Requests \ {q} PROVE WellSent(r)'
      BY <2>0, <2>1 DEF Arrive, SendInv, WellSent, Shape
    <3>4. clock' = clock
      BY <2>1 DEF Arrive, limiter
    <3>5. QED
      BY <2>0, <3>2, <3>3, <3>4 DEF SendInv
  <2>2. ASSUME NEW q \in Requests, Judge(q) PROVE SendInv'
    <3>1. /\ clock' = clock /\ UNCHANGED <<input, sent>> /\ st[q] = "handling"
          /\ judged' = [judged EXCEPT ![q] = clock]
          /\ \A r \in Requests \ {q} : st'[r] = st[r]
      BY <2>0, <2>2 DEF Judge, RL!ReadClock, limiter, Answer, Shape
    <3>2. QED
      BY <2>0, <3>1 DEF SendInv, WellSent, Shape
  <2>3. ASSUME NEW q \in Requests, TakeSlot(q) PROVE SendInv'
    <3>1. /\ clock' = clock /\ UNCHANGED <<judged, input, sent>> /\ st[q] = "limiting"
          /\ \A r \in Requests \ {q} : st'[r] = st[r]
      BY <2>0, <2>3 DEF TakeSlot, RL!Check, request, Answer, Shape
    <3>2. QED
      BY <2>0, <3>1, QuietKeepsSend
  <2>4. ASSUME NEW q \in Requests, BodyArrives(q) PROVE SendInv'
    <3>1. AuthSecret(Config, RouteOf(q)) # None
      BY <2>4, Zenon DEF BodyArrives, AuthProblem, Problem, NoProblem
    <3>2. Message(q).authorization # None /\ Message(q).cookie = FALSE
      BY <3>1 DEF Message
    <3>3. WellSent(q)'
      BY <2>0, <2>4, <3>2 DEF BodyArrives, SendInv, WellSent, Shape, Some
    <3>4. ASSUME NEW r \in Requests \ {q} PROVE WellSent(r)'
      BY <2>0, <2>4 DEF BodyArrives, SendInv, WellSent, Shape
    <3>5. clock' = clock
      BY <2>4 DEF BodyArrives, limiter
    <3>6. QED
      BY <2>0, <3>3, <3>4, <3>5 DEF SendInv
  <2>5. ASSUME NEW q \in Requests, NEW problem, Answer(q, problem), UNCHANGED <<limiter, request>>,
               st[q] # "new"
        PROVE  SendInv'
    <3>1. clock' = clock /\ UNCHANGED <<judged, input, sent>>
          /\ \A r \in Requests \ {q} : st'[r] = st[r]
      BY <2>0, <2>5 DEF Answer, limiter, request, Shape
    <3>2. QED
      BY <2>0, <2>5, <3>1, QuietKeepsSend
  <2>6. ASSUME NEW q \in Requests, Admit(q) \/ RelayReceives(q) \/ RelayAnswers(q) \/ Disconnect(q)
        PROVE  SendInv'
    <3>1. clock' = clock /\ UNCHANGED <<judged, input, sent>>
      BY <2>6 DEF Admit, RelayReceives, RelayAnswers, Disconnect, limiter, request
    <3>2. \A r \in Requests : st'[r] = st[r] \/ st[r] # "new"
      BY <2>0, <2>6, Zenon DEF Admit, RelayReceives, RelayAnswers, Disconnect, Shape, AtAwait
    <3>3. QED
      BY <2>0, <3>1, <3>2, QuietKeepsSend
  <2>7. Tick \/ Finished \/ UNCHANGED vars => SendInv'
    <3>1. ASSUME Tick
          PROVE  clock' \in Nat /\ UNCHANGED <<st, judged, input, sent>>
      <4>1. clock' = clock + 1
        BY <3>1 DEF Tick, RL!Tick
      <4>2. QED
        BY <2>0, <3>1, <4>1 DEF Tick, request
    <3>2. ASSUME Finished \/ UNCHANGED vars
          PROVE  clock' \in Nat /\ UNCHANGED <<st, judged, input, sent>>
      BY <2>0, <3>2 DEF Finished, vars, limiter, request
    <3>3. QED
      BY <3>1, <3>2, QuietKeepsSend
  <2>8. ASSUME NEW q \in Requests, CredentialFails(q) \/ BodyFails(q) PROVE SendInv'
    BY <2>8, <2>5 DEF CredentialFails, BodyFails
  <2>9. ASSUME NEW q \in Requests,
               ResponseRead(q) \/ UpstreamFails(q) \/ UpstreamExpires(q) \/ RequestExpires(q)
        PROVE  SendInv'
    BY <2>9, <2>5 DEF ResponseRead, UpstreamFails, UpstreamExpires, RequestExpires, AtAwait
  <2>10. QED
    BY <2>1, <2>2, <2>3, <2>4, <2>6, <2>7, <2>8, <2>9 DEF Next, Handler, Upstream, Timers
<1>3. QED
  BY <1>1, <1>2, HandlerInvariant, PTL DEF Spec

(* Whatever is on its way to Relay came from an authenticated and          *)
(* allowlisted identity, under a route of that identity, for a purpose the *)
(* route lists, with a complete body, the connector's credential and no    *)
(* caller's cookie (proxy.rs:192-290), for every configuration with unique *)
(* route ids.                                                              *)
THEOREM RelaySeesOnlyAuthorizedHolds == Spec => []RelaySeesOnlyAuthorized
<1>1. HandlerInv /\ SendInv => RelaySeesOnlyAuthorized
  <2> SUFFICES ASSUME HandlerInv, SendInv, NEW q \in Requests, NEW m \in sent[q]
               PROVE  /\ Justified(The(input[q]), judged[q], key[q][1], RouteOf(q), m.purpose)
                      /\ The(input[q]).body = "fits"
                      /\ m.authorization # None /\ ~m.cookie
                      /\ m.client_identity \subseteq {key[q][1]}
    BY Zenon DEF RelaySeesOnlyAuthorized, Justified
  <2>1. WellSent(q) /\ RequestInv(q)
    BY HandlerInvParts DEF SendInv
  <2>2. st[q] # "new"
    BY <2>1 DEF RequestInv, Unsent, None
  <2>3. The(input[q]) \in Inputs /\ judged[q] \in Int
    <3>1. input[q] # {} /\ input[q] \subseteq Inputs /\ judged[q] \in Nat
      BY <2>1, <2>2 DEF WellSent, None
    <3>2. QED
      BY <3>1 DEF The
  <2>4. PICK v \in Authorize(The(input[q]), judged[q]) :
           v.problem = NoProblem /\ key[q] = v.key /\ m.purpose = v.purpose
    BY <2>1 DEF RequestInv, AuthorizedAs
  <2>5. PICK r \in Range(Config.routes) :
           r.id = key[q][2] /\ Justified(The(input[q]), judged[q], key[q][1], r, m.purpose)
    BY <2>3, <2>4, RequestIsJustified
  <2>6. RouteOf(q) = r
    BY <2>5, RouteIdAssumption DEF RouteOf
  <2>7. QED
    BY <2>1, <2>5, <2>6, Zenon DEF WellSent, RequestInv
<1>2. QED
  BY <1>1, HandlerInvariant, SendInvariant, PTL

-----------------------------------------------------------------------------
(* handle_server calls check with the key of an allowlisted identity and a *)
(* configured route only (proxy.rs:210-242).                               *)
LEMMA PermittedKey ==
    ASSUME NEW in, NEW time, NEW v \in Authorize(in, time), v.problem = NoProblem
    PROVE  v.key \in Keys
<1> DEFINE ids == UNION {VerifyPeer(Config.trust, c, time) : c \in in.chain}
           match == FindServerRoute(Config.routes, in.method, in.path, The(ids))
<1>1. \A kind \in {"ClientIdentityMissing", "ClientIdentityDenied", "RouteDenied"} :
          Judgement(Problem(kind)).problem # NoProblem
  BY NamedProblem, Zenon DEF Judgement
<1>2. Allowlisted(Config.trust, The(ids)) /\ match # None
      /\ v.key = <<The(ids), The(match).route.id>>
  BY <1>1 DEF Authorize
<1>3. The(ids) \in {Trim(a) : a \in Config.trust.allowed}
  BY <1>2, Zenon DEF Allowlisted
<1>4. The(match) \in match
  BY <1>2, Zenon DEF The, None
<1>5. \A m \in match : m.route \in Range(Config.routes)
  BY RouteIsAllowed, Zenon
<1>6. The(match).route \in Range(Config.routes)
  BY <1>4, <1>5
<1>7. The(match).route.id \in {r.id : r \in Range(Config.routes)}
  BY <1>6, Zenon
<1> HIDE DEF ids, match
<1>8. QED
  BY <1>2, <1>3, <1>7 DEF Keys

(* The limiter inside the connector behaves as the limiter on its own      *)
(* (proxy.rs:1070): a handler reaches the windows through check only, once *)
(* it has been authorized, and nothing else of a request touches them.     *)
THEOREM ImplementsLimiter == Spec => LimiterSpec
<1>1. Init => RL!Init
  BY DEF Init
<1>2. [Next]_vars => [RL!Next]_(RL!vars)
  <2> SUFFICES ASSUME [Next]_vars PROVE RL!Next \/ UNCHANGED RL!vars
    OBVIOUS
  <2>1. UNCHANGED limiter => UNCHANGED RL!vars
    BY DEF limiter, RL!vars, RL!history
  <2>2. ASSUME NEW q \in Requests, NEW in \in Inputs, Arrive(q, in) PROVE UNCHANGED limiter
    BY <2>2 DEF Arrive
  <2>3. ASSUME NEW q \in Requests, Judge(q) PROVE RL!Next \/ UNCHANGED limiter
    <3>1. PICK v \in Authorize(The(input[q]), clock) :
             IF v.problem = NoProblem THEN RL!ReadClock(q, v.key) ELSE UNCHANGED limiter
      BY <2>3 DEF Judge
    <3>2. v.problem = NoProblem => v.key \in Keys
      BY PermittedKey
    <3>3. QED
      BY <3>1, <3>2 DEF RL!Next
  <2>4. ASSUME NEW q \in Requests, TakeSlot(q) PROVE RL!Next
    BY <2>4 DEF TakeSlot, RL!Next
  <2>5. ASSUME NEW q \in Requests, CredentialFails(q) \/ BodyFails(q) \/ BodyArrives(q)
        PROVE  UNCHANGED limiter
    BY <2>5 DEF CredentialFails, BodyFails, BodyArrives
  <2>6. ASSUME NEW q \in Requests, Admit(q) \/ Upstream(q) \/ Timers(q) \/ Disconnect(q)
        PROVE  UNCHANGED limiter
    BY <2>6, Zenon DEF Admit, Upstream, Timers, Disconnect, RelayReceives, RelayAnswers, ResponseRead,
           UpstreamFails, UpstreamExpires, RequestExpires
  <2>7. Tick => RL!Next
    BY DEF Tick, RL!Next
  <2>8. Finished \/ UNCHANGED vars => UNCHANGED limiter
    BY DEF Finished, vars
  <2>9. QED
    BY <2>1, <2>2, <2>3, <2>4, <2>5, <2>6, <2>7, <2>8 DEF Next, Handler
<1>3. QED
  BY <1>1, <1>2, PTL DEF Spec, LimiterSpec, RL!Spec

-----------------------------------------------------------------------------
\* The requests that hold a slot of a key: past check, and either on their
\* way to the send or already sent.
Passed(q) == st[q] = "body" \/ sent[q] # None
Spenders(k) == {q \in Requests : Passed(q) /\ key[q] = k}

\* Every one of them was admitted.
SlotsInv == \A k \in Keys : Cardinality(Spenders(k)) <= admitted[k]

(* Spenders are requests, so there are finitely many.                      *)
LEMMA SpendersFinite ==
    \A k : IsFiniteSet(Spenders(k)) /\ Cardinality(Spenders(k)) \in Nat
  BY RequestsAssumption, FS_Subset, FS_CardinalityType DEF Spenders

(* A step that lets no request past check keeps the count: a slot that was *)
(* spent on a request that fails later is lost, never returned.            *)
LEMMA NoNewSpender ==
    ASSUME SlotsInv, RL!TypeOK, UNCHANGED admitted,
           \A r \in Requests : Passed(r)' => Passed(r) /\ key'[r] = key[r]
    PROVE  SlotsInv'
<1> SUFFICES ASSUME NEW k \in Keys PROVE Cardinality(Spenders(k)') <= admitted[k]
  BY DEF SlotsInv
<1>1. Spenders(k)' \subseteq Spenders(k)
  BY DEF Spenders
<1>2. Cardinality(Spenders(k)') <= Cardinality(Spenders(k)) /\ Cardinality(Spenders(k)') \in Nat
  BY <1>1, SpendersFinite, FS_Subset, FS_CardinalityType
<1>3. Cardinality(Spenders(k)) <= admitted[k] /\ admitted[k] \in Nat
  BY DEF SlotsInv, RL!TypeOK
<1>4. QED
  BY <1>2, <1>3, SpendersFinite

(* An admission makes room for the one request it lets past check.         *)
LEMMA OneNewSpender ==
    ASSUME SlotsInv, RL!TypeOK, NEW q \in Requests, UNCHANGED key,
           admitted' = [admitted EXCEPT ![key[q]] = @ + 1],
           \A r \in Requests \ {q} : Passed(r)' => Passed(r)
    PROVE  SlotsInv'
<1> SUFFICES ASSUME NEW k \in Keys PROVE Cardinality(Spenders(k)') <= admitted'[k]
  BY DEF SlotsInv
<1>1. Spenders(k)' \subseteq IF key[q] = k THEN Spenders(k) \cup {q} ELSE Spenders(k)
  BY DEF Spenders
<1>2. /\ IsFiniteSet(Spenders(k) \cup {q})
      /\ Cardinality(Spenders(k) \cup {q}) <= Cardinality(Spenders(k)) + 1
      /\ Cardinality(Spenders(k) \cup {q}) \in Nat
  BY SpendersFinite, FS_AddElement, FS_CardinalityType
<1>3. Cardinality(Spenders(k)) <= admitted[k] /\ admitted[k] \in Nat
      /\ admitted'[k] = IF key[q] = k THEN admitted[k] + 1 ELSE admitted[k]
  BY DEF SlotsInv, RL!TypeOK
<1>4. CASE key[q] = k
  <2>1. Cardinality(Spenders(k)') <= Cardinality(Spenders(k) \cup {q})
        /\ Cardinality(Spenders(k)') \in Nat
    BY <1>1, <1>2, <1>4, FS_Subset, FS_CardinalityType
  <2>2. QED
    BY <2>1, <1>2, <1>3, <1>4, SpendersFinite
<1>5. CASE key[q] # k
  <2>1. Cardinality(Spenders(k)') <= Cardinality(Spenders(k))
        /\ Cardinality(Spenders(k)') \in Nat
    BY <1>1, <1>5, SpendersFinite, FS_Subset, FS_CardinalityType
  <2>2. QED
    BY <2>1, <1>3, <1>5, SpendersFinite
<1>6. QED
  BY <1>4, <1>5

(* Judge may give a request a new key, but only before it is past check.   *)
LEMMA SlotsStep == HandlerInv /\ RL!TypeOK /\ SlotsInv /\ [Next]_vars => SlotsInv'
<1> SUFFICES ASSUME HandlerInv, RL!TypeOK, SlotsInv, [Next]_vars PROVE SlotsInv'
  OBVIOUS
<1>0. Shape /\ \A r \in Requests : RequestInv(r)
  BY HandlerInvParts
<1>1. ASSUME NEW q \in Requests, NEW in \in Inputs, Arrive(q, in) PROVE SlotsInv'
  BY <1>1, <1>0, NoNewSpender DEF Arrive, limiter, Passed, Shape
<1>2. ASSUME NEW q \in Requests, Judge(q) PROVE SlotsInv'
  <2>1. UNCHANGED <<admitted, sent>> /\ st[q] = "handling"
    BY <1>2 DEF Judge, RL!ReadClock, RL!history, limiter
  <2>2. ASSUME NEW r \in Requests \ {q} PROVE st'[r] = st[r] /\ key'[r] = key[r]
    <3>1. st'[r] = st[r]
      BY <1>2, <1>0, <2>2, Zenon DEF Judge, Answer, Shape
    <3>2. key'[r] = key[r]
      <4>1. key' = key \/ \E k : key' = [key EXCEPT ![q] = k]
        BY <1>2 DEF Judge, RL!ReadClock, limiter
      <4>2. QED
        BY <4>1, <1>0, <2>2 DEF Shape
    <3>3. QED
      BY <3>1, <3>2
  <2>3. st'[q] \in {"limiting", "done"}
    BY <1>2, <1>0, Zenon DEF Judge, Answer, Shape
  <2>4. sent[q] = None
    BY <2>1, <1>0 DEF RequestInv, Unsent
  <2>5. \A r \in Requests : Passed(r)' => Passed(r) /\ key'[r] = key[r]
    BY <2>1, <2>2, <2>3, <2>4 DEF Passed
  <2>6. QED
    BY <2>1, <2>5, NoNewSpender
<1>3. ASSUME NEW q \in Requests, TakeSlot(q) PROVE SlotsInv'
  <2>1. UNCHANGED <<key, sent>> /\ key[q] \in Keys
        /\ \A r \in Requests \ {q} : st'[r] = st[r]
    BY <1>3, <1>0, Zenon DEF TakeSlot, RL!Check, request, Answer, Shape, RL!TypeOK
  <2>2. CASE admitted'[key[q]] = admitted[key[q]]
    <3>1. UNCHANGED admitted
      BY <1>3, <2>1, <2>2 DEF TakeSlot, RL!Check, RL!TypeOK
    <3>2. st'[q] = "done"
      BY <1>3, <1>0, <2>2, Zenon DEF TakeSlot, Answer, Shape
    <3>3. QED
      BY <3>1, <3>2, <2>1, NoNewSpender DEF Passed
  <2>3. CASE admitted'[key[q]] # admitted[key[q]]
    <3>1. admitted' = [admitted EXCEPT ![key[q]] = @ + 1]
      BY <1>3, <2>1, <2>3, Zenon DEF TakeSlot, RL!Check, RL!TypeOK
    <3>2. QED
      BY <3>1, <2>1, OneNewSpender, Zenon DEF Passed
  <2>4. QED
    BY <2>2, <2>3
<1>4. ASSUME NEW q \in Requests, BodyArrives(q) PROVE SlotsInv'
  BY <1>4, <1>0, NoNewSpender, Zenon DEF BodyArrives, limiter, Passed, Shape
<1>5. ASSUME NEW q \in Requests, NEW problem, Answer(q, problem), UNCHANGED <<limiter, sent>>
      PROVE  SlotsInv'
  BY <1>5, <1>0, NoNewSpender DEF Answer, limiter, Passed, Shape
<1>6. ASSUME NEW q \in Requests, Admit(q) \/ RelayReceives(q) \/ RelayAnswers(q) \/ Disconnect(q)
      PROVE  SlotsInv'
  BY <1>6, <1>0, NoNewSpender, Zenon
     DEF Admit, RelayReceives, RelayAnswers, Disconnect, limiter, request, Passed, Shape
<1>7. Tick \/ Finished \/ UNCHANGED vars => SlotsInv'
  BY NoNewSpender, Zenon DEF Tick, Finished, vars, limiter, request, RL!Tick, RL!history, Passed
<1>8. ASSUME NEW q \in Requests, CredentialFails(q) \/ BodyFails(q) PROVE SlotsInv'
  BY <1>8, <1>5, Zenon DEF CredentialFails, BodyFails, request
<1>9. ASSUME NEW q \in Requests,
             ResponseRead(q) \/ UpstreamFails(q) \/ UpstreamExpires(q) \/ RequestExpires(q)
      PROVE  SlotsInv'
  BY <1>9, <1>5 DEF ResponseRead, UpstreamFails, UpstreamExpires, RequestExpires, request
<1>10. QED
  BY <1>1, <1>2, <1>3, <1>4, <1>6, <1>7, <1>8, <1>9 DEF Next, Handler, Upstream, Timers

-----------------------------------------------------------------------------
\* What TypeOK says about one request.
RequestType(q) ==
    /\ input[q] \subseteq Inputs /\ (input[q] = None <=> st[q] = "new")
    /\ started[q] \in Nat /\ judged[q] \in Nat /\ sentAt[q] \in Nat
    /\ sent[q] \subseteq Messages
    /\ wire[q] \in {"none", "flying", "received"}
    /\ \A e \in log[q] : e.outcome \in Outcomes

\* The inductive invariant behind TypeOK: the free permits never run below
\* zero; HandlerInv has the upper bound.
TypeInv ==
    /\ permits >= 0
    /\ DOMAIN started = Requests /\ DOMAIN sentAt = Requests
    /\ \A q \in Requests : RequestType(q)

(* The message built for an authorized request carries a purpose of the    *)
(* request, a secret of the environment and the allowlisted identity       *)
(* (forwarded_headers, proxy.rs).                                          *)
LEMMA MessageType ==
    ASSUME NEW q \in Requests, st[q] = "body", RequestInv(q), RequestType(q), key[q] \in Keys
    PROVE  Message(q) \in Messages
<1> DEFINE in == The(input[q])
           stated == {Trim(v) : v \in UNION {Range(i.headers.purposes) : i \in Inputs}}
           secrets == {Config.environment[v] : v \in DOMAIN Config.environment}
           names == {Trim(a) : a \in Config.trust.allowed}
<1>1. in \in Inputs
  BY Zenon DEF RequestType, The, None
<1>2. PICK v \in Authorize(in, judged[q]) : v.problem = NoProblem /\ purpose[q] = v.purpose
  BY Zenon DEF RequestInv, AuthorizedAs, Authorized
<1>3. purpose[q] = DataPurposes(in.headers)
  BY <1>2, AuthorizedPurpose
<1>4. DataPurposes(in.headers) \subseteq stated
  <2>1. \A i \in StatedAt(in.headers) : in.headers.purposes[i] \in Range(in.headers.purposes)
    BY DEF StatedAt, Range
  <2>2. QED
    BY <1>1, <2>1, Zenon DEF DataPurposes
<1>5. AuthSecret(Config, RouteOf(q)) \subseteq secrets
  BY Zenon DEF AuthSecret
<1>6. key[q][1] \in names
  BY Zenon DEF Keys
<1>7. (IF RouteOf(q).forward_client_identity THEN Some(key[q][1]) ELSE None) \subseteq names
  BY <1>6 DEF Some, None
<1> HIDE DEF in, stated, secrets, names
<1>8. Message(q) \in [purpose : SUBSET stated, authorization : SUBSET secrets,
                      cookie : BOOLEAN, client_identity : SUBSET names]
  BY <1>3, <1>4, <1>5, <1>7, Zenon DEF Message
<1>9. QED
  BY <1>8, Zenon DEF Messages, stated, secrets, names

(* An answer logs one of the outcomes and changes nothing else TypeOK      *)
(* reads, except to return a permit.                                       *)
LEMMA AnswerKeepsType ==
    ASSUME Shape, PermitInv, TypeInv, NEW q \in Requests, st[q] # "new",
           NEW problem, Answer(q, problem), UNCHANGED <<wire, input, started, sent, sentAt>>,
           judged' = judged \/ (clock \in Nat /\ judged' = [judged EXCEPT ![q] = clock])
    PROVE  TypeInv'
<1>1. permits' >= 0
  BY DEF Answer, TypeInv, PermitInv
<1>2. ASSUME NEW r \in Requests PROVE RequestType(r)'
  <2>1. RequestType(r)
    BY DEF TypeInv
  <2>2. judged'[r] \in Nat
    BY <2>1 DEF RequestType, Shape
  <2>3. \A e \in log'[r] : e.outcome \in Outcomes
    <3>1. log'[r] = log[r] \/ log'[r] = {LogEntry(problem)}
      BY Zenon DEF Answer, Shape, Some
    <3>2. QED
      BY <3>1, <2>1, LogEntryOutcome DEF RequestType
  <2>4. st'[r] = "new" <=> st[r] = "new"
    BY Zenon DEF Answer, Shape
  <2>5. QED
    BY <2>1, <2>2, <2>3, <2>4, Zenon DEF RequestType
<1>3. QED
  BY <1>1, <1>2 DEF TypeInv

(* So does a step of a request that leaves its message and its log alone,  *)
(* if no permit is taken where there is none.                              *)
LEMMA MoveKeepsType ==
    ASSUME Shape, TypeInv, clock \in Nat, permits' >= 0, NEW q \in Requests, st[q] # "new",
           NEW s, s # "new", st' = [st EXCEPT ![q] = s],
           started' = started \/ started' = [started EXCEPT ![q] = clock],
           UNCHANGED <<wire, log, input, judged, sent, sentAt>>
    PROVE  TypeInv'
<1>1. DOMAIN started' = Requests /\ DOMAIN sentAt' = Requests
  BY DEF TypeInv
<1>2. ASSUME NEW r \in Requests PROVE RequestType(r)'
  <2>1. RequestType(r)
    BY DEF TypeInv
  <2>2. started'[r] \in Nat
    BY <2>1 DEF TypeInv, RequestType
  <2>3. st'[r] = "new" <=> st[r] = "new"
    BY DEF Shape
  <2>4. QED
    BY <2>1, <2>2, <2>3 DEF RequestType
<1>3. QED
  BY <1>1, <1>2 DEF TypeInv

(* No step takes the handlers' state out of its type.                      *)
LEMMA TypeStep == HandlerInv /\ RL!TypeOK /\ TypeInv /\ [Next]_vars => TypeInv'
<1> SUFFICES ASSUME HandlerInv, RL!TypeOK, TypeInv, [Next]_vars PROVE TypeInv'
  OBVIOUS
<1>0. Shape /\ PermitInv /\ (\A r \in Requests : RequestInv(r))
      /\ clock \in Nat /\ (\A r \in Requests : key[r] \in Keys)
  BY HandlerInvParts DEF RL!TypeOK
<1>1. ASSUME NEW q \in Requests, NEW in \in Inputs, Arrive(q, in) PROVE TypeInv'
  BY <1>1, <1>0, Zenon DEF Arrive, TypeInv, RequestType, Shape, Some, None
<1>2. ASSUME NEW q \in Requests, Judge(q) PROVE TypeInv'
  <2>1. PICK v \in Authorize(The(input[q]), clock) :
          IF v.problem = NoProblem
          THEN /\ st' = [st EXCEPT ![q] = "limiting"]
               /\ UNCHANGED <<permits, log>>
          ELSE Answer(q, v.problem)
    BY <1>2 DEF Judge
  <2>2. /\ judged' = [judged EXCEPT ![q] = clock]
        /\ UNCHANGED <<wire, input, started, sent, sentAt>> /\ st[q] = "handling"
    BY <1>2 DEF Judge
  <2>3. CASE v.problem = NoProblem
    BY <2>1, <2>2, <2>3, <1>0, Zenon DEF TypeInv, RequestType, Shape
  <2>4. CASE v.problem # NoProblem
    BY <2>1, <2>2, <2>4, <1>0, AnswerKeepsType, Zenon
  <2>5. QED
    BY <2>3, <2>4
<1>3. ASSUME NEW q \in Requests, TakeSlot(q) PROVE TypeInv'
  <2>1. st[q] = "limiting" /\ UNCHANGED <<wire, request>>
        /\ (Answer(q, Problem("RateLimited"))
            \/ (st' = [st EXCEPT ![q] = "body"] /\ UNCHANGED <<permits, log>>))
    BY <1>3 DEF TakeSlot
  <2>2. CASE Answer(q, Problem("RateLimited"))
    BY <2>1, <2>2, <1>0, AnswerKeepsType DEF request
  <2>3. CASE st' = [st EXCEPT ![q] = "body"] /\ UNCHANGED <<permits, log>>
    BY <2>1, <2>3, <1>0, Zenon DEF TypeInv, RequestType, Shape, request
  <2>4. QED
    BY <2>1, <2>2, <2>3
<1>4. ASSUME NEW q \in Requests, BodyArrives(q) PROVE TypeInv'
  <2>1. Message(q) \in Messages
    BY <1>4, <1>0, MessageType, Zenon DEF BodyArrives, TypeInv
  <2>2. QED
    BY <2>1, <1>4, <1>0, Zenon DEF BodyArrives, TypeInv, RequestType, Shape, Some
<1>5. ASSUME NEW q \in Requests, NEW problem, Answer(q, problem), st[q] # "new",
             UNCHANGED <<wire, request>>
      PROVE  TypeInv'
  BY <1>5, <1>0, AnswerKeepsType DEF request
<1>6. ASSUME NEW q \in Requests, Admit(q) PROVE TypeInv'
  <2>1. permits' >= 0
    BY <1>6, <1>0 DEF Admit, PermitInv
  <2>2. QED
    BY <1>6, <1>0, <2>1, MoveKeepsType, Zenon DEF Admit
<1>7. ASSUME NEW q \in Requests, RelayReceives(q) \/ RelayAnswers(q) PROVE TypeInv'
  BY <1>7, <1>0, Zenon DEF RelayReceives, RelayAnswers, request, TypeInv, RequestType, Shape
<1>8. ASSUME NEW q \in Requests, Disconnect(q) PROVE TypeInv'
  <2>1. permits' >= 0
    BY <1>8, <1>0 DEF Disconnect, TypeInv, PermitInv
  <2>2. st[q] # "new"
    BY <1>8 DEF Disconnect, AtAwait
  <2>3. QED
    BY <1>8, <1>0, <2>1, <2>2, MoveKeepsType, Zenon DEF Disconnect, request
<1>9. Tick \/ Finished \/ UNCHANGED vars => TypeInv'
  BY Zenon DEF Tick, Finished, vars, request, TypeInv, RequestType
<1>10. ASSUME NEW q \in Requests, CredentialFails(q) \/ BodyFails(q) PROVE TypeInv'
  BY <1>10, <1>5, Zenon DEF CredentialFails, BodyFails
<1>11. ASSUME NEW q \in Requests,
              ResponseRead(q) \/ UpstreamFails(q) \/ UpstreamExpires(q) \/ RequestExpires(q)
       PROVE  TypeInv'
  BY <1>11, <1>5 DEF ResponseRead, UpstreamFails, UpstreamExpires, RequestExpires, AtAwait
<1>12. QED
  BY <1>1, <1>2, <1>3, <1>4, <1>6, <1>7, <1>8, <1>9, <1>10, <1>11
     DEF Next, Handler, Upstream, Timers

(* The parts of TypeOK.                                                    *)
LEMMA TypeParts == HandlerInv /\ RL!TypeOK /\ TypeInv => TypeOK
<1> SUFFICES ASSUME HandlerInv, RL!TypeOK, TypeInv PROVE TypeOK
  OBVIOUS
<1>1. Shape /\ PermitInv
  BY HandlerInvParts
<1>2. permits \in 0..MaxConcurrent
  <2>1. Cardinality(Holders) \in Nat
    BY RequestsAssumption, FS_Subset, FS_CardinalityType DEF Holders
  <2>2. permits \in Int /\ permits >= 0 /\ permits + Cardinality(Holders) = MaxConcurrent
    BY <1>1, Zenon DEF PermitInv, PermitsConserved, TypeInv
  <2> DEFINE held == Cardinality(Holders)
  <2> HIDE DEF held
  <2>3. QED
    <3>1. held \in Nat /\ permits \in Int /\ permits >= 0 /\ permits + held = MaxConcurrent
      BY <2>1, <2>2, Zenon DEF held
    <3>2. QED
      BY <3>1, ConcurrentAssumption
<1>3. st \in [Requests -> States]
  BY <1>1 DEF Shape
<1>4. \A q \in Requests : RequestType(q)
  BY Zenon DEF TypeInv
<1>5. QED
  BY <1>2, <1>3, <1>4, Zenon DEF TypeOK, RequestType

-----------------------------------------------------------------------------
\* The scopes and the context of the decision under way.
Scopes == TrustedScopes(route, Entitlements, identity)
Stated == The(DataPurposes(headers))
Asked == PdpContext(Stated, headers, Scopes, DecidedAt)

DecisionInv ==
    /\ route \in RouteChoices /\ headers \in HeaderChoices
    /\ \/ verdict = Undecided
       \/ verdict \in AuthorizeServerPurpose(route, headers, Entitlements, identity, DecidedAt)

(* A scope of a context is one of its values (context_scopes).             *)
LEMMA ScopesOfContext ==
    ASSUME NEW context
    PROVE  /\ \A f, v : <<f, v>> \in ContextScopes(context) <=> f \in DOMAIN context /\ v \in context[f]
           /\ \A s \in ContextScopes(context) : s = <<s[1], s[2]>>
  BY DEF ContextScopes

(* With one entitlement per identity, the first is the only one            *)
(* (peer_trusted_context_scopes).                                          *)
LEMMA ScopesOfPeer ==
    ASSUME NEW id
    PROVE  /\ \A f, v : <<f, v>> \in PeerScopes(Entitlements, id) <=>
                 \E i \in DOMAIN Entitlements :
                    /\ Trim(Entitlements[i].client_identity) = id
                    /\ f \in ContextFields /\ v \in Entitlements[i].trusted_context[f]
           /\ \A s \in PeerScopes(Entitlements, id) : s = <<s[1], s[2]>>
<1> DEFINE passing == {i \in DOMAIN Entitlements : Trim(Entitlements[i].client_identity) = id}
           context(i) == Entitlements[i].trusted_context
<1>1. \A i, j \in passing : i = j /\ i <= j
  BY EntitlementAssumption
<1>2. Find(Entitlements, passing) = {Entitlements[i] : i \in passing}
  BY <1>1 DEF Find
<1>3. PeerScopes(Entitlements, id) = UNION {ContextScopes(context(i)) : i \in passing}
  BY <1>2, Zenon DEF PeerScopes
<1>4. \A i \in passing : DOMAIN context(i) = ContextFields
  BY EntitlementAssumption DEF IsContext
<1>5. ASSUME NEW f, NEW v
      PROVE  <<f, v>> \in PeerScopes(Entitlements, id) <=>
                \E i \in passing : f \in ContextFields /\ v \in context(i)[f]
  BY <1>3, <1>4, ScopesOfContext
<1>6. \A s \in PeerScopes(Entitlements, id) : s = <<s[1], s[2]>>
  BY <1>3, ScopesOfContext
<1>7. QED
  BY <1>5, <1>6

(* The scopes of the decision are exactly what is vouched for              *)
(* (trusted_context_scopes).                                               *)
LEMMA ScopesAreVouched ==
    ASSUME DecisionInv
    PROVE  /\ \A f \in ContextFields : \A v : <<f, v>> \in Scopes <=> v \in Vouched(f)
           /\ \A s \in Scopes : s = <<s[1], s[2]>>
<1> DEFINE own == PolicyOf(route).trusted_context
           granting == {i \in DOMAIN Entitlements : Trim(Entitlements[i].client_identity) = identity}
<1>1. DOMAIN own = ContextFields
  BY DecisionAssumption DEF DecisionInv, IsContext
<1>2. \A f, v : <<f, v>> \in ContextScopes(own) <=> f \in ContextFields /\ v \in own[f]
  BY <1>1, ScopesOfContext, Zenon
<1>3. ContextScopes(own) = {} <=> \A f \in ContextFields : own[f] = None
  <2>1. \A s \in ContextScopes(own) : s = <<s[1], s[2]>>
    BY ScopesOfContext
  <2>2. ASSUME ContextScopes(own) = {}, NEW f \in ContextFields PROVE own[f] = None
    <3>1. \A v : v \notin own[f]
      BY <1>2, <2>2
    <3>2. QED
      BY <3>1 DEF None
  <2>3. ASSUME \A f \in ContextFields : own[f] = None, NEW s \in ContextScopes(own) PROVE FALSE
    <3>1. s[1] \in ContextFields /\ s[2] \in own[s[1]]
      BY <1>2, <2>1
    <3>2. QED
      BY <2>3, <3>1 DEF None
  <2>4. QED
    BY <2>2, <2>3
<1>4. \A f \in ContextFields : \A v :
         <<f, v>> \in PeerScopes(Entitlements, identity) <=>
            \E i \in granting : v \in Entitlements[i].trusted_context[f]
  BY ScopesOfPeer, Zenon
<1>5. \A f, v : v \in Vouched(f) <=>
         /\ \E i \in granting : v \in Entitlements[i].trusted_context[f]
         /\ v \in own[f] \/ \A g \in ContextFields : own[g] = None
  BY DEF Vouched
<1>6. Scopes = IF ContextScopes(own) = {} THEN PeerScopes(Entitlements, identity)
               ELSE PeerScopes(Entitlements, identity) \cap ContextScopes(own)
  BY DEF Scopes, TrustedScopes
<1>7. \A s \in Scopes : s = <<s[1], s[2]>>
  BY <1>6, ScopesOfPeer
<1> HIDE DEF own, granting
<1>8. \A f \in ContextFields : \A v : <<f, v>> \in Scopes <=> v \in Vouched(f)
  <2>1. CASE ContextScopes(own) = {}
    BY <1>3, <1>4, <1>5, <1>6, <2>1, Zenon
  <2>2. CASE ContextScopes(own) # {}
    <3>1. ASSUME NEW f \in ContextFields, \A g \in ContextFields : own[g] = None, NEW v PROVE FALSE
      BY <1>3, <2>2, <3>1
    <3>2. QED
      BY <1>2, <1>4, <1>5, <1>6, <2>2, <3>1, Zenon
  <2>3. QED
    BY <2>1, <2>2, Zenon
<1>9. QED
  BY <1>7, <1>8

(* A verified trust header is a proven assertion.                          *)
LEMMA VerifiedIsProven ==
    ASSUME DecisionInv, NEW f \in TextFields
    PROVE  VerifiedTrustHeader(headers, Scopes, f) = Proven(f)
<1>1. f \in ContextFields
  BY DEF ContextFields
<1>2. QED
  BY <1>1, ScopesAreVouched, Zenon DEF VerifiedTrustHeader, TrustHeader, Proven

(* The age limit is the one age that is vouched for, if any: the largest   *)
(* of several never decides (source_observed_age_limit_seconds).           *)
LEMMA AgeLimitIsVouched ==
    ASSUME DecisionInv
    PROVE  /\ AgeLimit(Scopes) = Vouched("age")
           /\ \A a, b \in Vouched("age") : a = b /\ a \in Nat
<1> DEFINE ages == {s[2] : s \in {x \in Scopes : x[1] = "age"}}
<1>1. "age" \in ContextFields
  BY DEF ContextFields
<1>2. \A v : v \in ages <=> <<"age", v>> \in Scopes
  BY ScopesAreVouched
<1>3. ages = Vouched("age")
  BY <1>1, <1>2, ScopesAreVouched, Zenon
<1>4. ASSUME NEW a \in Vouched("age"), NEW b \in Vouched("age") PROVE a = b /\ a \in Nat
  <2>1. PICK i \in DOMAIN Entitlements : /\ Trim(Entitlements[i].client_identity) = identity
                                        /\ a \in Entitlements[i].trusted_context["age"]
    BY DEF Vouched
  <2>2. PICK j \in DOMAIN Entitlements : /\ Trim(Entitlements[j].client_identity) = identity
                                        /\ b \in Entitlements[j].trusted_context["age"]
    BY DEF Vouched
  <2>3. i = j /\ IsContext(Entitlements[i].trusted_context)
    BY <2>1, <2>2, EntitlementAssumption
  <2>4. QED
    BY <2>1, <2>2, <2>3 DEF IsContext
<1>5. CASE ages = {}
  BY <1>3, <1>4, <1>5 DEF AgeLimit, None
<1>6. CASE ages # {}
  <2>1. PICK a \in ages : TRUE
    BY <1>6
  <2>2. a \in Nat /\ ages = {a}
    BY <1>3, <1>4, <2>1
  <2>3. Max(ages) = a
    BY <2>2 DEF Max
  <2>4. QED
    BY <1>3, <1>4, <1>6, <2>2, <2>3, Zenon DEF AgeLimit, Some
<1>7. QED
  BY <1>5, <1>6

(* Evidence within the limit is evidence of a vouched age, unless it does  *)
(* not parse.                                                              *)
LEMMA WithinLimitIsVouched ==
    ASSUME DecisionInv, NEW age \in Int
    PROVE  /\ age \in Nat => (WithinLimit(age, Scopes) <=> VouchedAge(age))
           /\ VouchedAge(age) => age \in Nat
<1>1. WithinLimit(age, Scopes) <=> \E limit \in Vouched("age") : age <= limit
  BY AgeLimitIsVouched DEF WithinLimit
<1>2. VouchedAge(age) <=> \E limit \in Vouched("age") : age \in 0..limit
  BY DEF VouchedAge
<1>3. \A limit \in Vouched("age") : limit \in Nat
  BY AgeLimitIsVouched
<1>4. QED
  BY <1>1, <1>2, <1>3

(* What the connector tells the decision point about the evidence.         *)
LEMMA EvidenceMeaning ==
    ASSUME DecisionInv, ~EvidenceMalformed(headers, Scopes)
    PROVE  /\ headers.age # None => Asked.age = {a \in headers.age : VouchedAge(a)}
           /\ headers.age = None => Asked.age = {DecidedAt - t : t \in Asked.at}
           /\ Asked.at = {t \in headers.at : VouchedAge(DecidedAt - t)}
<1>1. headers.age \cup headers.at \subseteq Nat \cup {Unparsable} /\ DecidedAt \in Nat
  BY DecisionAssumption DEF DecisionInv
<1>2. \A age \in Int : VouchedAge(age) \/ WithinLimit(age, Scopes) => AgeLimit(Scopes) # None
  BY AgeLimitIsVouched DEF VouchedAge, WithinLimit, None
<1>3. AgeLimit(Scopes) # None => headers.age \cup headers.at \subseteq Nat
  BY <1>1 DEF EvidenceMalformed
<1>4. Unparsable \in Int
  BY DEF Unparsable
<1>5. \A a \in headers.age : WithinLimit(a, Scopes) <=> VouchedAge(a)
  BY <1>1, <1>2, <1>3, <1>4, WithinLimitIsVouched
<1>6. \A t \in headers.at : (t <= DecidedAt /\ WithinLimit(DecidedAt - t, Scopes)) <=> VouchedAge(DecidedAt - t)
  <2> SUFFICES ASSUME NEW t \in headers.at
               PROVE  (t <= DecidedAt /\ WithinLimit(DecidedAt - t, Scopes)) <=> VouchedAge(DecidedAt - t)
    OBVIOUS
  <2>1. t \in Int /\ DecidedAt - t \in Int /\ (t <= DecidedAt <=> DecidedAt - t \in Nat)
    BY <1>1, <1>4
  <2>2. QED
    BY <2>1, WithinLimitIsVouched
<1>7. Asked.at = ObservedAt(headers, Scopes, DecidedAt) /\ Asked.age = ObservedAge(headers, Scopes, DecidedAt)
  BY DEF Asked, PdpContext
<1>8. Asked.at = {t \in headers.at : VouchedAge(DecidedAt - t)}
  BY <1>6, <1>7 DEF ObservedAt
<1>9. QED
  BY <1>5, <1>7, <1>8 DEF ObservedAge

(* The freshness gate asks for surely fresh evidence; the decision point   *)
(* can only skip it where the evidence may be fresh.                       *)
LEMMA FreshnessMeaning ==
    ASSUME DecisionInv, ~EvidenceMalformed(headers, Scopes)
    PROVE  /\ GateHolds("SourceFreshness", route, Asked) <=>
                 (PolicyOf(route).max_source_age # None => SurelyFresh)
           /\ (Asked.age = None /\ Asked.at # None) => MaybeFresh
<1> DEFINE max == PolicyOf(route).max_source_age
<1>1. \A a, b \in max : a = b
  BY DecisionAssumption DEF DecisionInv
<1>2. GateHolds("SourceFreshness", route, Asked) <=> \A m \in max : \E a \in Asked.age : a <= m
  BY DEF GateHolds
<1>3. SurelyFresh <=> \E a \in Asked.age : \A m \in max : a <= m
  <2>1. CASE headers.age # None
    BY <2>1, EvidenceMeaning DEF SurelyFresh, FreshBy
  <2>2. CASE headers.age = None
    BY <2>2, EvidenceMeaning DEF SurelyFresh, FreshBy
  <2>3. QED
    BY <2>1, <2>2
<1>4. GateHolds("SourceFreshness", route, Asked) <=> (max # None => SurelyFresh)
  BY <1>1, <1>2, <1>3 DEF None
<1>5. ASSUME Asked.age = None, Asked.at # None PROVE MaybeFresh
  <2>1. PICK t \in Asked.at : TRUE
    BY <1>5 DEF None
  <2>2. t \in headers.at /\ VouchedAge(DecidedAt - t)
    BY <2>1, EvidenceMeaning
  <2>3. headers.age # None
    BY <1>5, <2>1, EvidenceMeaning DEF None
  <2>4. QED
    BY <2>2, <2>3 DEF MaybeFresh
<1>6. QED
  BY <1>4, <1>5

(* Each of the other gates says what the reference says of its condition.  *)
LEMMA GateMeaning ==
    ASSUME DecisionInv
    PROVE  LET p == PolicyOf(route)
           IN  /\ GateHolds("Purpose", route, Asked) <=>
                     \A list \in PurposeConstraints(route) : Stated \in list
               /\ GateHolds("Jurisdiction", route, Asked) <=>
                     (p.permitted_jurisdictions # {} =>
                        Proven("jurisdiction") \cap p.permitted_jurisdictions # {})
               /\ GateHolds("AssuranceAllowedSet", route, Asked) <=>
                     (p.allowed_assurance # {} => Proven("assurance") \cap p.allowed_assurance # {})
               /\ GateHolds("MinimumAssurance", route, Asked) <=>
                     \A m \in p.minimum_assurance : \E v \in Proven("assurance") : <<v, m>> \in AssuranceMeets
               /\ GateHolds("LegalBasisRequired", route, Asked) <=>
                     (p.require_legal_basis => Proven("legal_basis") # {})
               /\ GateHolds("ConsentRequired", route, Asked) <=>
                     (p.require_consent => Proven("consent") # {})
               /\ GateHolds("OdrlTerms", route, Asked) <=> p.unsupported_odrl_terms = {}
<1> DEFINE p == PolicyOf(route)
<1>1. Asked.purpose = Stated
  BY DEF Asked, PdpContext
<1>2. \A f \in TextFields : Asked.trust[f] = Proven(f)
  BY VerifiedIsProven DEF Asked, PdpContext
<1>3. /\ Asked.trust.jurisdiction = Proven("jurisdiction") /\ Asked.trust.assurance = Proven("assurance")
      /\ Asked.trust.legal_basis = Proven("legal_basis") /\ Asked.trust.consent = Proven("consent")
  BY <1>2 DEF TextFields
<1>4. GateHolds("Purpose", route, Asked) <=> \A list \in PurposeConstraints(route) : Stated \in list
  BY <1>1 DEF GateHolds
<1>5. GateHolds("Jurisdiction", route, Asked) <=>
         (p.permitted_jurisdictions # {} => Proven("jurisdiction") \cap p.permitted_jurisdictions # {})
  BY <1>3 DEF GateHolds
<1>6. GateHolds("AssuranceAllowedSet", route, Asked) <=>
         (p.allowed_assurance # {} => Proven("assurance") \cap p.allowed_assurance # {})
  BY <1>3 DEF GateHolds
<1>7. GateHolds("MinimumAssurance", route, Asked) <=>
         \A m \in p.minimum_assurance : \E v \in Proven("assurance") : <<v, m>> \in AssuranceMeets
  BY <1>3 DEF GateHolds
<1>8. GateHolds("LegalBasisRequired", route, Asked) <=> (p.require_legal_basis => Proven("legal_basis") # {})
  BY <1>3 DEF GateHolds, None
<1>9. GateHolds("ConsentRequired", route, Asked) <=> (p.require_consent => Proven("consent") # {})
  BY <1>3 DEF GateHolds, None
<1>10. GateHolds("OdrlTerms", route, Asked) <=> p.unsupported_odrl_terms = {}
  BY DEF GateHolds
<1>11. QED
  BY <1>4, <1>5, <1>6, <1>7, <1>8, <1>9, <1>10, Zenon

(* A verdict, once given, stays the verdict of authorize_server_purpose on *)
(* the request.                                                            *)
LEMMA DecisionInvariant == DecisionSpec => []DecisionInv
<1>1. DecisionInit => DecisionInv
  BY DEF DecisionInit, DecisionInv
<1>2. DecisionInv /\ [Decide]_decisionvars => DecisionInv'
  BY DEF DecisionInv, Decide, decisionvars
<1>3. QED
  BY <1>1, <1>2, PTL DEF DecisionSpec

(* The purpose that counts is one of the stated ones.                      *)
LEMMA StatedIsOne ==
    ASSUME ~RepeatedPurpose(headers), DataPurposes(headers) # None
    PROVE  \E i \in DOMAIN headers.purposes :
              ~IsBlank(headers.purposes[i]) /\ Trim(headers.purposes[i]) = Stated
<1>1. Stated \in DataPurposes(headers)
  BY DEF Stated, The, None
<1>2. QED
  BY <1>1 DEF DataPurposes, StatedAt

(* What a permit of the decision point establishes.                        *)
LEMMA PermitSatisfies ==
    ASSUME DecisionInv, ~RepeatedPurpose(headers), DataPurposes(headers) # None,
           route.require_purpose => PurposeConstraints(route) # {},
           ~EvidenceMalformed(headers, Scopes),
           NEW d \in PdpDecisions(route, Asked), d.kind = "Permit"
    PROVE  Satisfied(MaybeFresh)
<1> DEFINE p == PolicyOf(route)
           lists == {route.purposes, p.permitted_purposes} \ {{}}
<1>1. /\ p.redaction_fields = {}
      /\ \A g \in Gates \ {"SourceFreshness"} : GateHolds(g, route, Asked)
      /\ (Asked.age # None \/ Asked.at = None) => GateHolds("SourceFreshness", route, Asked)
  <2>1. DecisionSays(d, route, Asked)
    BY DecisionMeaning
  <2>2. QED
    BY <2>1, Zenon DEF DecisionSays
<1>2. lists = PurposeConstraints(route)
  BY DEF PurposeConstraints
<1>3. \E i \in DOMAIN headers.purposes :
         ~IsBlank(headers.purposes[i]) /\ \A list \in lists : Trim(headers.purposes[i]) \in list
  <2>1. \A list \in lists : Stated \in list
    BY <1>1, <1>2, GateMeaning, Zenon DEF Gates
  <2>2. QED
    BY <2>1, StatedIsOne
<1>4. p.max_source_age # None => MaybeFresh
  BY <1>1, FreshnessMeaning, Zenon DEF MaybeFresh
<1>5. p.permitted_jurisdictions # {} => Proven("jurisdiction") \cap p.permitted_jurisdictions # {}
  BY <1>1, GateMeaning, Zenon DEF Gates
<1>6. p.allowed_assurance # {} => Proven("assurance") \cap p.allowed_assurance # {}
  BY <1>1, GateMeaning, Zenon DEF Gates
<1>7. \A m \in p.minimum_assurance : \E v \in Proven("assurance") : <<v, m>> \in AssuranceMeets
  BY <1>1, GateMeaning, Zenon DEF Gates
<1>8. p.require_legal_basis => Proven("legal_basis") # {}
  BY <1>1, GateMeaning, Zenon DEF Gates
<1>9. p.require_consent => Proven("consent") # {}
  BY <1>1, GateMeaning, Zenon DEF Gates
<1>10. p.unsupported_odrl_terms = {}
  BY <1>1, GateMeaning, Zenon DEF Gates
<1>11. route.require_purpose => lists # {}
  BY <1>2, Zenon
<1> HIDE DEF p, lists
<1>12. QED
  BY <1>1, <1>3, <1>4, <1>5, <1>6, <1>7, <1>8, <1>9, <1>10, <1>11, Zenon DEF Satisfied, p, lists

(* A permit is justified, for every route policy, entitlement and request. *)
THEOREM PermitIsJustifiedHolds == DecisionSpec => []PermitIsJustified
<1>1. DecisionInv => PermitIsJustified
  <2> SUFFICES ASSUME DecisionInv, verdict.ok
               PROVE  /\ Constrained => Satisfied(MaybeFresh)
                      /\ SinglePurpose
                      /\ verdict.purpose =
                            {Trim(headers.purposes[i]) : i \in DOMAIN headers.purposes} \ {""}
    BY Zenon DEF PermitIsJustified
  <2>1. verdict \in AuthorizeServerPurpose(route, headers, Entitlements, identity, DecidedAt)
    BY VerdictFields, Zenon DEF DecisionInv, Undecided
  <2>2. /\ ~RepeatedPurpose(headers) /\ verdict = Granted(DataPurposes(headers))
        /\ \/ route.purposes = {} /\ ~route.require_purpose /\ route.governed = None
           \/ /\ DataPurposes(headers) # None /\ ~EvidenceMalformed(headers, Scopes)
              /\ route.require_purpose => PurposeConstraints(route) # {}
              /\ \E d \in PdpDecisions(route, Asked) : d.kind = "Permit"
    <3>1. GrantSays(verdict, route, headers, Scopes, Asked)
      BY <2>1, GrantMeaning DEF Scopes, Asked, Stated
    <3>2. QED
      BY <3>1, Zenon DEF GrantSays
  <2>3. Constrained => Satisfied(MaybeFresh)
    BY <2>2, PermitSatisfies, Zenon DEF Constrained
  <2>4. SinglePurpose
    BY <2>2, Zenon DEF SinglePurpose, RepeatedPurpose, StatedAt
  <2>5. DataPurposes(headers) = {Trim(headers.purposes[i]) : i \in DOMAIN headers.purposes} \ {""}
    BY Zenon DEF DataPurposes, StatedAt, IsBlank
  <2>6. QED
    BY <2>2, <2>3, <2>4, <2>5, VerdictFields, Zenon
<1>2. QED
  BY <1>1, DecisionInvariant, PTL

(* A request that satisfies the reference satisfies every gate.            *)
LEMMA SatisfiedHoldsGates ==
    ASSUME DecisionInv, ~RepeatedPurpose(headers), ~EvidenceMalformed(headers, Scopes),
           Satisfied(SurelyFresh), NEW g \in Gates
    PROVE  GateHolds(g, route, Asked)
<1> DEFINE p == PolicyOf(route)
<1>1. PICK i \in DOMAIN headers.purposes : /\ ~IsBlank(headers.purposes[i])
                                          /\ \A list \in PurposeConstraints(route) :
                                                Trim(headers.purposes[i]) \in list
  BY DEF Satisfied, PurposeConstraints
<1>2. DataPurposes(headers) = {Trim(headers.purposes[i])}
  BY <1>1 DEF RepeatedPurpose, DataPurposes, StatedAt
<1>3. Stated = Trim(headers.purposes[i])
  BY <1>2 DEF Stated, The
<1>4. /\ p.permitted_jurisdictions # {} => Proven("jurisdiction") \cap p.permitted_jurisdictions # {}
      /\ p.allowed_assurance # {} => Proven("assurance") \cap p.allowed_assurance # {}
      /\ \A m \in p.minimum_assurance : \E v \in Proven("assurance") : <<v, m>> \in AssuranceMeets
      /\ p.max_source_age # None => SurelyFresh
      /\ p.require_legal_basis => Proven("legal_basis") # {}
      /\ p.require_consent => Proven("consent") # {}
      /\ p.unsupported_odrl_terms = {}
  BY Zenon DEF Satisfied
<1>5. CASE g = "SourceFreshness"
  BY <1>4, <1>5, FreshnessMeaning
<1>6. CASE g = "Purpose"
  BY <1>1, <1>3, <1>6, GateMeaning, Zenon
<1>7. CASE g \in {"Jurisdiction", "AssuranceAllowedSet", "MinimumAssurance"}
  BY <1>4, <1>7, GateMeaning, Zenon
<1>8. CASE g \in {"LegalBasisRequired", "ConsentRequired", "OdrlTerms"}
  BY <1>4, <1>8, GateMeaning, Zenon
<1>9. QED
  BY <1>5, <1>6, <1>7, <1>8 DEF Gates

(* A justified request is permitted, whatever the decision point does with *)
(* timestamps it has to date itself.                                       *)
THEOREM JustifiedIsPermittedHolds == DecisionSpec => []JustifiedIsPermitted
<1>1. DecisionInv => JustifiedIsPermitted
  <2> SUFFICES ASSUME DecisionInv, Decided, ~BadEvidence, SinglePurpose, Satisfied(SurelyFresh)
               PROVE  verdict.ok
    BY DEF JustifiedIsPermitted
  <2>1. verdict \in AuthorizeServerPurpose(route, headers, Entitlements, identity, DecidedAt)
    BY DEF DecisionInv, Decided
  <2>2. ~EvidenceMalformed(headers, Scopes)
    BY DEF BadEvidence, EvidenceMalformed
  <2>3. ~RepeatedPurpose(headers)
    BY DEF SinglePurpose, RepeatedPurpose, StatedAt
  <2>4. DataPurposes(headers) # None
    <3>1. PICK i \in DOMAIN headers.purposes : ~IsBlank(headers.purposes[i])
      BY DEF Satisfied
    <3>2. QED
      BY <3>1 DEF DataPurposes, StatedAt, None
  <2>5. route.require_purpose => PurposeConstraints(route) # {}
    BY DEF Satisfied, PurposeConstraints
  <2>6. ASSUME NEW d \in PdpDecisions(route, Asked) PROVE PdpVerdict(d, Stated).ok
    <3>0. DecisionSays(d, route, Asked)
      BY DecisionMeaning
    <3>1. d.kind \in {"Permit", "PermitWithRedaction", "Deny"}
      BY <3>0 DEF DecisionSays
    <3>2. d.kind # "Deny"
      <4>1. \A g \in Gates : GateHolds(g, route, Asked)
        BY <2>2, <2>3, SatisfiedHoldsGates
      <4>2. QED
        BY <3>0, <4>1 DEF DecisionSays
    <3>3. PolicyOf(route).redaction_fields = {}
      BY DEF Satisfied
    <3>4. d.kind = "Permit"
      BY <3>0, <3>1, <3>2, <3>3 DEF DecisionSays
    <3>5. QED
      BY <3>4, VerdictFields, Zenon DEF PdpVerdict
  <2>7. CASE route.purposes = {} /\ ~route.require_purpose /\ route.governed = None
    <3>1. verdict = Granted(DataPurposes(headers))
      BY <2>1, <2>3, <2>7, Zenon DEF AuthorizeServerPurpose
    <3>2. QED
      BY <3>1, VerdictFields, Zenon
  <2>8. CASE ~(route.purposes = {} /\ ~route.require_purpose /\ route.governed = None)
    <3>1. verdict \in {PdpVerdict(d, Stated) : d \in PdpDecisions(route, Asked)}
      BY <2>1, <2>2, <2>3, <2>4, <2>5, <2>8, Zenon DEF AuthorizeServerPurpose, Scopes, Asked, Stated
    <3>2. QED
      BY <2>6, <3>1
  <2>9. QED
    BY <2>7, <2>8
<1>2. QED
  BY <1>1, DecisionInvariant, PTL

(* A gate that can fail is a gate the audit record has a rule for.         *)
LEMMA FailingGateHasRule ==
    ASSUME NEW r, NEW c, NEW g \in Gates, ~GateHolds(g, r, c)
    PROVE  g \in RuleGates(r)
<1> DEFINE p == PolicyOf(r)
<1>1. CASE g = "Purpose"
  <2>1. PurposeConstraints(r) # {}
    BY <1>1 DEF GateHolds
  <2>2. QED
    BY <1>1, <2>1 DEF RuleGates
<1>2. CASE g = "Jurisdiction"
  <2>1. p.permitted_jurisdictions # {}
    BY <1>2 DEF GateHolds
  <2>2. QED
    BY <1>2, <2>1 DEF RuleGates
<1>3. CASE g = "AssuranceAllowedSet"
  <2>1. p.allowed_assurance # {}
    BY <1>3 DEF GateHolds
  <2>2. QED
    BY <1>3, <2>1 DEF RuleGates
<1>4. CASE g = "MinimumAssurance"
  <2>1. p.minimum_assurance # None
    BY <1>4 DEF GateHolds, None
  <2>2. QED
    BY <1>4, <2>1 DEF RuleGates
<1>5. CASE g = "SourceFreshness"
  <2>1. p.max_source_age # None
    BY <1>5 DEF GateHolds, None
  <2>2. QED
    BY <1>5, <2>1 DEF RuleGates
<1>6. CASE g = "LegalBasisRequired"
  <2>1. p.require_legal_basis
    BY <1>6 DEF GateHolds
  <2>2. QED
    BY <1>6, <2>1 DEF RuleGates
<1>7. CASE g = "ConsentRequired"
  <2>1. p.require_consent
    BY <1>7 DEF GateHolds
  <2>2. QED
    BY <1>7, <2>1 DEF RuleGates
<1>8. CASE g = "OdrlTerms"
  <2>1. p.unsupported_odrl_terms # {}
    BY <1>8 DEF GateHolds
  <2>2. QED
    BY <1>8, <2>1 DEF RuleGates
<1>9. QED
  BY <1>1, <1>2, <1>3, <1>4, <1>5, <1>6, <1>7, <1>8 DEF Gates

(* The connector knows the code of every gate, so none is replaced.        *)
LEMMA GateCodesAreKnown ==
    ASSUME NEW g \in Gates \cup {"Redaction"}
    PROVE  PdpProblemCode(GateCode(g)) = GateCode(g)
<1>1. GateCode(g) \in PdpCodes
  <2>1. CASE g \in {"Purpose", "Jurisdiction", "AssuranceAllowedSet", "MinimumAssurance"}
    BY <2>1 DEF GateCode, PdpCodes
  <2>2. CASE g \in {"SourceFreshness", "LegalBasisRequired", "ConsentRequired"}
    BY <2>2 DEF GateCode, PdpCodes
  <2>3. CASE g \in {"OdrlTerms", "Redaction"}
    BY <2>3 DEF GateCode, PdpCodes
  <2>4. QED
    BY <2>1, <2>2, <2>3 DEF Gates
<1>2. QED
  BY <1>1 DEF PdpProblemCode

(* Every denial of the decision point has a rule in the audit record.      *)
THEOREM DenialsNameTheirRuleHolds == DecisionSpec => []DenialsNameTheirRule
<1>1. DecisionInv => DenialsNameTheirRule
  <2> SUFFICES ASSUME DecisionInv, verdict.problem.kind = "PdpDenied", ~BadEvidence
               PROVE  \E g \in RuleGates(route) : verdict.problem.code = GateCode(g)
    BY DEF DenialsNameTheirRule
  <2>1. verdict # Undecided
    BY VerdictFields, Zenon DEF Undecided
  <2>2. verdict \in AuthorizeServerPurpose(route, headers, Entitlements, identity, DecidedAt)
    BY <2>1 DEF DecisionInv
  <2>3. ~EvidenceMalformed(headers, Scopes)
    BY DEF BadEvidence, EvidenceMalformed
  <2>4. /\ verdict # Refused(Problem("PurposeDenied"))
        /\ verdict # Refused(Problem("PurposeRequired"))
        /\ verdict # Granted(DataPurposes(headers))
    <3>1. Problem("PurposeDenied").kind = "PurposeDenied" /\ Problem("PurposeRequired").kind = "PurposeRequired"
      BY DEF Problem
    <3>2. /\ Refused(Problem("PurposeDenied")).problem = Problem("PurposeDenied")
          /\ Refused(Problem("PurposeRequired")).problem = Problem("PurposeRequired")
          /\ Granted(DataPurposes(headers)).problem.kind = ""
      BY VerdictFields, Zenon
    <3>3. QED
      BY <3>1, <3>2, Zenon
  <2>5. PICK d \in PdpDecisions(route, Asked) : verdict = PdpVerdict(d, Stated)
    <3>1. \/ verdict \in {Refused(Problem("PurposeDenied")), Refused(Problem("PurposeRequired")),
                          Granted(DataPurposes(headers))}
          \/ EvidenceMalformed(headers, Scopes)
          \/ \E d \in PdpDecisions(route, Asked) : verdict = PdpVerdict(d, Stated)
      <4>1. VerdictSays(verdict, route, headers, Scopes, Asked)
        BY <2>2, VerdictMeaning, Zenon DEF Scopes, Asked, Stated
      <4>2. QED
        BY <4>1, Zenon DEF VerdictSays, Stated
    <3>2. QED
      BY <2>3, <2>4, <3>1, Zenon
  <2>6. /\ d.kind \in {"Permit", "PermitWithRedaction", "Deny"}
        /\ d.kind = "Deny" => \E g \in Gates : ~GateHolds(g, route, Asked) /\ d.code = GateCode(g)
        /\ d.kind = "PermitWithRedaction" => PolicyOf(route).redaction_fields # {}
    <3>1. DecisionSays(d, route, Asked)
      BY <2>5, DecisionMeaning
    <3>2. QED
      BY <3>1, Zenon DEF DecisionSays
  <2>7. CASE d.kind = "Permit"
    <3>1. verdict = Granted(Some(Stated))
      BY <2>5, <2>7 DEF PdpVerdict
    <3>2. QED
      BY <3>1, VerdictFields, Zenon
  <2>8. CASE d.kind = "PermitWithRedaction"
    <3>1. verdict = Refused(PdpDenied("UNSUPPORTED_POLICY_TERM"))
      BY <2>5, <2>8 DEF PdpVerdict
    <3>2. verdict.problem.code = "UNSUPPORTED_POLICY_TERM"
      BY <3>1, VerdictFields, Zenon
    <3>3. GateCode("Redaction") = "UNSUPPORTED_POLICY_TERM"
      BY DEF GateCode
    <3>4. "Redaction" \in RuleGates(route)
      BY <2>6, <2>8, Zenon DEF RuleGates
    <3>5. QED
      BY <3>2, <3>3, <3>4
  <2>9. CASE d.kind = "Deny"
    <3>1. PICK g \in Gates : ~GateHolds(g, route, Asked) /\ d.code = GateCode(g)
      BY <2>6, <2>9
    <3>2. verdict = Refused(PdpDenied(PdpProblemCode(d.code)))
      BY <2>5, <2>9 DEF PdpVerdict
    <3>3. verdict.problem.code = PdpProblemCode(d.code)
      BY <3>2, VerdictFields, Zenon
    <3>4. PdpProblemCode(GateCode(g)) = GateCode(g)
      BY GateCodesAreKnown
    <3>5. QED
      BY <3>1, <3>3, <3>4, FailingGateHasRule, Zenon
  <2>10. QED
    BY <2>6, <2>7, <2>8, <2>9, Zenon
<1>2. QED
  BY <1>1, DecisionInvariant, PTL

-----------------------------------------------------------------------------
\* Its log of admissions plays no part here and is left empty.
RLP == INSTANCE RateLimiter_proofs WITH Tasks <- Requests, pc <- limiting, admissions <- {}

(* What RateLimiter_proofs shows of the limiter alone holds of the one     *)
(* inside the connector.                                                   *)
LEMMA LimiterFacts == Spec => [](RLP!RateInv /\ RLP!LongRunRate)
<1>1. RL!Spec => RLP!Spec
  <2>1. RL!Init => RLP!Init
    BY DEF RL!Init, RLP!Init
  <2>2. ASSUME NEW q \in Requests, NEW k \in Keys PROVE RL!ReadClock(q, k) => RLP!ReadClock(q, k)
    BY DEF RL!ReadClock, RLP!ReadClock, RL!history, RLP!history
  <2>3. ASSUME NEW q \in Requests PROVE RL!Check(q) => RLP!Check(q)
    BY DEF RL!Check, RLP!Check, RL!Expired, RLP!Expired, RL!Elapsed, RLP!Elapsed,
           RL!CurrentWindow, RLP!CurrentWindow
  <2>4. RL!Tick => RLP!Tick
    BY DEF RL!Tick, RLP!Tick, RL!history, RLP!history
  <2>5. UNCHANGED RL!vars => UNCHANGED RLP!vars
    BY DEF RL!vars, RLP!vars, RL!history, RLP!history
  <2>6. [RL!Next]_(RL!vars) => [RLP!Next]_(RLP!vars)
    BY <2>2, <2>3, <2>4, <2>5 DEF RL!Next, RLP!Next
  <2>7. QED
    BY <2>1, <2>6, PTL DEF RL!Spec, RLP!Spec
<1>2. RLP!Spec => []RLP!RateInv
  BY RLP!RateInvariant, LimiterAssumption
<1>3. RLP!Spec => []RLP!LongRunRate
  BY RLP!LongRunRateHolds, LimiterAssumption
<1>4. QED
  BY <1>1, <1>2, <1>3, ImplementsLimiter, PTL DEF LimiterSpec

(* The limiter's part of the state keeps its type.                         *)
LEMMA LimiterTyped == RLP!RateInv => RL!TypeOK
  BY DEF RLP!RateInv, RLP!TypeOK, RL!TypeOK, RLP!RateWindow, RL!RateWindow

(* Along every behaviour each request that is past check was admitted.     *)
THEOREM SlotsInvariant == Spec => []SlotsInv
<1>1. Init => SlotsInv
  <2> SUFFICES ASSUME Init, NEW k \in Keys PROVE Cardinality(Spenders(k)) <= admitted[k]
    BY DEF SlotsInv
  <2>1. Spenders(k) = {} /\ admitted[k] = 0
    BY DEF Init, RL!Init, Spenders, Passed, None
  <2>2. QED
    BY <2>1, FS_EmptySet
<1>2. QED
  BY <1>1, SlotsStep, LimiterTyped, LimiterFacts, HandlerInvariant, PTL DEF Spec

(* Relay never sees more requests of an identity on a route than the rate  *)
(* limiter admitted, and no more than Limit for every Window seconds begun *)
(* since the first of them (proxy.rs:238, 1070).                           *)
THEOREM RelayRateBoundedHolds == Spec => []RelayRateBounded
<1>1. RLP!RateInv /\ RLP!LongRunRate /\ SlotsInv => RelayRateBounded
  <2> SUFFICES ASSUME RLP!RateInv, RLP!LongRunRate, SlotsInv, NEW k \in Keys
               PROVE  LET reached == Cardinality({q \in Requests : sent[q] # None /\ key[q] = k})
                      IN  /\ reached <= admitted[k]
                          /\ k \in entries =>
                               reached * Window <= Limit * ((clock - first[k]) + Window)
    BY DEF RelayRateBounded
  <2> DEFINE Reached == {q \in Requests : sent[q] # None /\ key[q] = k}
             n == Cardinality(Reached)
  <2>1. Reached \subseteq Spenders(k)
    BY DEF Spenders, Passed
  <2>2. n \in Nat /\ n <= Cardinality(Spenders(k)) /\ Cardinality(Spenders(k)) \in Nat
    BY <2>1, SpendersFinite, FS_Subset, FS_CardinalityType
  <2>3. admitted[k] \in Nat /\ clock \in Nat /\ first[k] \in Nat
    BY DEF RLP!RateInv, RLP!TypeOK
  <2>4. Cardinality(Spenders(k)) <= admitted[k]
    BY DEF SlotsInv
  <2> HIDE DEF Reached, n
  <2>5. n <= admitted[k]
    BY <2>2, <2>3, <2>4
  <2>6. ASSUME k \in entries PROVE n * Window <= Limit * ((clock - first[k]) + Window)
    <3>1. admitted[k] * Window <= Limit * ((clock - first[k]) + Window)
      BY <2>6 DEF RLP!LongRunRate
    <3>2. n * Window <= admitted[k] * Window
      BY <2>2, <2>3, <2>5, LimiterAssumption, RLP!TimesMonotone
    <3>3. n * Window \in Int /\ admitted[k] * Window \in Int
          /\ Limit * ((clock - first[k]) + Window) \in Int
      BY <2>2, <2>3, LimiterAssumption
    <3>4. QED
      BY <3>1, <3>2, <3>3
  <2>7. QED
    BY <2>5, <2>6 DEF n, Reached
<1>2. QED
  BY <1>1, LimiterFacts, SlotsInvariant, PTL

(* Along every behaviour the handlers' state keeps its type.               *)
THEOREM TypeInvariant == Spec => []TypeInv
<1>1. Init => TypeInv
  BY ConcurrentAssumption DEF Init, TypeInv, RequestType, None
<1>2. QED
  BY <1>1, TypeStep, LimiterTyped, LimiterFacts, HandlerInvariant, PTL DEF Spec

(* Every variable of the server connector keeps its type: in particular    *)
(* the concurrency limit never hands out more permits than it has, and a   *)
(* message carries a purpose, a secret and an identity of its request and  *)
(* configuration only.                                                     *)
THEOREM TypeOKHolds == Spec => []TypeOK
  BY TypeParts, LimiterTyped, LimiterFacts, HandlerInvariant, TypeInvariant, PTL
=============================================================================
