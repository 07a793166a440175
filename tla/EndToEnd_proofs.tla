--------------------------- MODULE EndToEnd_proofs ---------------------------
(***************************************************************************)
(* What holds from the caller to Relay, for any number of requests, any    *)
(* calls and any two configurations: what the caller is told, the permits  *)
(* of the client connector, and how the purpose and the path of a request  *)
(* travel.  Every behaviour of the pair is one of the server connector     *)
(* (PairImplementsServer), so the theorems of ServerConnector_proofs hold  *)
(* in the pair; Routing_proofs has what the two route searches answer.     *)
(***************************************************************************)
EXTENDS ConnectorPair_proofs, ServerConnector_proofs, Routing_proofs

(* A refusal the caller reads, whichever connector gave it, means that     *)
(* Relay has not got the request and will not, unless it is a timeout;     *)
(* success means that Relay has got it.                                    *)
THEOREM CallerIsToldTheTruthHolds == PairSpec => []CallerIsToldTheTruth
<1>1. PairInv /\ HandlerInv /\ LogForm => CallerIsToldTheTruth
  <2>1. SUFFICES ASSUME PairInv, HandlerInv, LogForm, NEW q \in Requests, cst[q] = "done"
                 PROVE  LET p == ProblemTold(q)
                        IN  /\ p = NoProblem => wire[q] = "received"
                            /\ (p # NoProblem /\ p.kind # "RequestTimeout"
                                   /\ AuditOutcome(p) = "denied")
                                  => sent[q] = None /\ wire[q] = "none"
    BY DEF CallerIsToldTheTruth
  <2> DEFINE e == The(clog[q])
             f == The(log[q])
  <2>2. e \in clog[q]
    <3>1. clog[q] # {}
      BY <2>1, Zenon DEF PairInv, None
    <3>2. QED
      BY <3>1 DEF The
  <2>3. /\ e = LogEntry(e.problem)
        /\ e.outcome = "forwarded" => st[q] = "done"
        /\ (e.outcome = "denied" /\ e.problem.kind # "RequestTimeout") => csent[q] = None
    BY <2>1, <2>2, Zenon DEF PairInv
  <2>4. /\ e.outcome = "forwarded" <=> e.problem = NoProblem
        /\ e.problem # NoProblem => e.outcome = AuditOutcome(e.problem)
    <3>1. LogEntry(e.problem).outcome = "forwarded" <=> e.problem = NoProblem
      BY LogEntryOutcome
    <3>2. e.problem # NoProblem => LogEntry(e.problem).outcome = AuditOutcome(e.problem)
      BY DEF LogEntry
    <3>3. QED
      BY <2>3, <3>1, <3>2
  <2>5. CASE e.problem # NoProblem
    <3>1. ProblemTold(q) = e.problem
      BY <2>5 DEF ProblemTold
    <3>2. csent[q] = None => sent[q] = None /\ wire[q] = "none"
      <4>1. csent[q] = None => st[q] = "new"
        BY <2>1, Zenon DEF PairInv
      <4>2. st[q] = "new" => sent[q] = None /\ wire[q] = "none"
        BY <2>1 DEF HandlerInv, Unsent
      <4>3. QED
        BY <4>1, <4>2
    <3>3. QED
      BY <2>3, <2>4, <2>5, <3>1, <3>2
  <2>6. CASE e.problem = NoProblem
    <3>1. ProblemTold(q) = f.problem /\ st[q] = "done"
      BY <2>3, <2>4, <2>6 DEF ProblemTold
    <3>2. f \in log[q]
      BY <2>1, <3>1, Zenon DEF HandlerInv, The, None
    <3>3. f = LogEntry(f.problem)
      BY <2>1, <3>2 DEF LogForm
    <3>4. f.problem = NoProblem => f.outcome = "forwarded"
      BY <3>3, LogEntryOutcome
    <3>5. f.problem # NoProblem => f.outcome = AuditOutcome(f.problem)
      <4>1. f.problem # NoProblem => LogEntry(f.problem).outcome = AuditOutcome(f.problem)
        BY DEF LogEntry
      <4>2. QED
        BY <3>3, <4>1
    <3>6. /\ (f.outcome = "denied" /\ f.problem.kind # "RequestTimeout")
                => sent[q] = None /\ wire[q] = "none"
          /\ f.outcome = "forwarded" => wire[q] = "received"
      BY <2>1, <3>2, Zenon DEF HandlerInv, LogTellsRelay
    <3>7. QED
      BY <3>1, <3>4, <3>5, <3>6, Zenon
  <2>7. QED
    BY <2>5, <2>6
<1>2. QED
  BY <1>1, PairInvariant, PairImplementsServer, HandlerInvariant, LogFormHolds, PTL

-----------------------------------------------------------------------------
\* A handler that starts takes a permit, one that ends gives it back.
MovesWithPermit(q, s) ==
    /\ ClientMovesTo(q, s)
    /\ cpermits' = cpermits + (IF cst[q] \in Client!Held THEN 1 ELSE 0)
                            - (IF s \in Client!Held THEN 1 ELSE 0)

(* Every step of the client connector accounts for its permit.             *)
LEMMA ClientStepsMoveWithPermit ==
    ASSUME NEW q \in Requests, cpermits \in Int, CallerStep(q) \/ ClientStep(q) \/ Reply(q)
    PROVE  \E s : MovesWithPermit(q, s)
<1>1. ASSUME NEW problem, Client!Answer(q, problem), cst[q] \in Client!Held
      PROVE  MovesWithPermit(q, "done")
  BY <1>1 DEF Client!Answer,
           MovesWithPermit, ClientMovesTo, Client!Move, Client!Held, Client!AtAwait
<1>2. CASE CallerStep(q)
  <2>1. MovesWithPermit(q, "queued")
    BY <1>2 DEF CallerStep, Client!Arrive,
           MovesWithPermit, ClientMovesTo, Client!Move, Client!Held, Client!AtAwait
  <2>2. QED
    BY <2>1
<1>3. CASE Reply(q)
  <2>1. MovesWithPermit(q, "reading")
    <3>1. cst[q] = "sending" /\ Client!Move(q, "reading") /\ cpermits' = cpermits
      BY <1>3, Zenon DEF Reply, Client!ServerAnswers
    <3>2. QED
      BY <3>1 DEF MovesWithPermit, ClientMovesTo, Client!Move, Client!Held, Client!AtAwait
  <2>2. QED
    BY <2>1
<1>4. CASE Client!Admit(q)
  <2>1. MovesWithPermit(q, "handling")
    BY <1>4 DEF Client!Admit,
           MovesWithPermit, ClientMovesTo, Client!Move, Client!Held, Client!AtAwait
  <2>2. QED
    BY <2>1
<1>5. CASE Client!Judge(q)
  <2>1. MovesWithPermit(q, "body")
           \/ Client!Answer(q, Client!ClientProblem(Client!The(ccall[q])))
    BY <1>5 DEF Client!Judge, MovesWithPermit, ClientMovesTo, Client!Move, Client!Held, Client!AtAwait
  <2>2. cst[q] \in Client!Held
    BY <1>5, Zenon DEF Client!Judge, Client!Held, Client!AtAwait
  <2>3. QED
    BY <1>1, <2>1, <2>2
<1>6. CASE Client!BodyArrives(q)
  <2>1. MovesWithPermit(q, "sending")
    BY <1>6 DEF Client!BodyArrives,
           MovesWithPermit, ClientMovesTo, Client!Move, Client!Held, Client!AtAwait
  <2>2. QED
    BY <2>1
<1>7. CASE \/ Client!HeaderFails(q) \/ Client!BodyFails(q) \/ Client!ResponseRead(q)
           \/ Client!UpstreamFails(q) \/ Client!UpstreamExpires(q) \/ Client!RequestExpires(q)
  <2>1. cst[q] \in Client!Held /\ \E problem : Client!Answer(q, problem)
    BY <1>7, Zenon DEF Client!HeaderFails, Client!BodyFails, Client!ResponseRead,
                Client!UpstreamFails, Client!UpstreamExpires, Client!RequestExpires,
                Client!Held, Client!AtAwait
  <2>2. QED
    BY <1>1, <2>1
<1>8. CASE Client!Disconnect(q)
  <2>1. MovesWithPermit(q, "dropped")
    BY <1>8 DEF Client!Disconnect,
           MovesWithPermit, ClientMovesTo, Client!Move, Client!Held, Client!AtAwait
  <2>2. QED
    BY <2>1
<1>9. QED
  BY <1>2, <1>3, <1>4, <1>5, <1>6, <1>7, <1>8
     DEF ClientStep, Client!Local, Client!Handler, Client!Timers

(* The holders of permits change with the states of the handlers.          *)
LEMMA ClientHoldersCount ==
    ASSUME PairInv, NEW q \in Requests, NEW s, ClientMovesTo(q, s)
    PROVE  /\ Cardinality(ClientHolders) \in Nat
           /\ Cardinality(ClientHolders') = Cardinality(ClientHolders)
                 + (IF s \in Client!Held THEN 1 ELSE 0) - (IF cst[q] \in Client!Held THEN 1 ELSE 0)
<1>1. /\ ClientHolders' = IF s \in Client!Held THEN ClientHolders \cup {q} ELSE ClientHolders \ {q}
      /\ q \in ClientHolders <=> cst[q] \in Client!Held
  BY Zenon DEF PairInv, ClientHolders, ClientMovesTo
<1>2. IsFiniteSet(ClientHolders) /\ Cardinality(ClientHolders) \in Nat
  BY RequestsAssumption, FS_Subset, FS_CardinalityType, Zenon DEF ClientHolders
<1>3. Cardinality(ClientHolders \cup {q})
        = IF q \in ClientHolders THEN Cardinality(ClientHolders) ELSE Cardinality(ClientHolders) + 1
  BY <1>2, FS_AddElement, Zenon
<1>4. Cardinality(ClientHolders \ {q})
        = IF q \in ClientHolders THEN Cardinality(ClientHolders) - 1 ELSE Cardinality(ClientHolders)
  BY <1>2, FS_RemoveElement
<1>5. QED
  BY <1>1, <1>2, <1>3, <1>4

(* No answer, timeout or disconnect loses or duplicates a concurrency      *)
(* permit of the client connector, whatever the server connector does.     *)
THEOREM ClientPermitsConservedHolds == PairSpec => []ClientPermitsConserved
<1> DEFINE Conserved == cpermits \in Int /\ ClientPermitsConserved
<1>1. PairInit => Conserved
  <2>1. SUFFICES ASSUME PairInit PROVE Conserved
    OBVIOUS
  <2>2. ClientHolders = {} /\ cpermits = ClientConcurrent
    BY <2>1 DEF PairInit, Client!Init, ClientHolders, Client!Held, Client!AtAwait
  <2>3. Cardinality(ClientHolders) = 0
    BY <2>2, FS_EmptySet
  <2>4. QED
    BY <2>2, <2>3, ClientConcurrentAssumption DEF ClientPermitsConserved
<1>2. PairInv /\ Conserved /\ [PairNext]_pairvars => Conserved'
  <2>1. SUFFICES ASSUME PairInv, Conserved, [PairNext]_pairvars PROVE Conserved'
    OBVIOUS
  <2>2. ASSUME UNCHANGED <<cst, cpermits>> PROVE Conserved'
    BY <2>1, <2>2 DEF ClientPermitsConserved, ClientHolders
  <2>3. ASSUME NEW q \in Requests, CallerStep(q) \/ ClientStep(q) \/ Reply(q)
        PROVE  Conserved'
    <3>1. PICK s : MovesWithPermit(q, s)
      BY <2>1, <2>3, ClientStepsMoveWithPermit
    <3>2. /\ Cardinality(ClientHolders) \in Nat
          /\ Cardinality(ClientHolders') = Cardinality(ClientHolders)
                + (IF s \in Client!Held THEN 1 ELSE 0)
                - (IF cst[q] \in Client!Held THEN 1 ELSE 0)
      BY <2>1, <3>1, ClientHoldersCount DEF MovesWithPermit
    <3>3. QED
      BY <2>1, <3>1, <3>2 DEF MovesWithPermit, ClientPermitsConserved
  <2>4. ASSUME NEW q \in Requests, Deliver(q) \/ ServerStep(q) PROVE UNCHANGED <<cst, cpermits>>
    BY <2>4, Zenon DEF Deliver, ServerStep, Client!ServerReceives, cvars
  <2>5. CASE UNCHANGED pairvars \/ PairFinished \/ (Tick /\ UNCHANGED cvars)
    BY <2>2, <2>5 DEF PairFinished, pairvars, cvars
  <2>6. QED
    BY <2>1, <2>2, <2>3, <2>4, <2>5 DEF PairNext
<1>3. QED
  BY <1>1, <1>2, PairInvariant, PTL DEF PairSpec

-----------------------------------------------------------------------------
(* The instance of ClientConnector trims as the server connector does.     *)
LEMMA ClientTrims == \A v : Client!Trim(v) = Trim(v) /\ (Client!IsBlank(v) <=> IsBlank(v))
  BY Zenon DEF Client!Trim, Trim, Client!IsBlank, IsBlank

(* One data-purpose value that is not blank is the purpose; one that is    *)
(* blank, or none, is no purpose.                                          *)
LEMMA OneValue ==
    ASSUME NEW h, NEW v
    PROVE  /\ h.purposes = <<v>> => DataPurposes(h) = {Trim(v)} \ {""}
           /\ h.purposes = <<>> => DataPurposes(h) = {}
<1>1. ASSUME h.purposes = <<v>> PROVE DataPurposes(h) = {Trim(v)} \ {""}
  <2>1. DOMAIN h.purposes = {1} /\ h.purposes[1] = v
    BY <1>1
  <2>2. StatedAt(h) = IF Trim(v) = "" THEN {} ELSE {1}
    BY <2>1, Zenon DEF StatedAt, IsBlank
  <2>3. DataPurposes(h) = IF Trim(v) = "" THEN {} ELSE {Trim(v)}
    BY <2>1, <2>2, Zenon DEF DataPurposes
  <2>4. QED
    BY <2>3, Zenon
<1>2. ASSUME h.purposes = <<>> PROVE DataPurposes(h) = {}
  <2>1. DOMAIN h.purposes = {}
    BY <1>2
  <2>2. QED
    BY <2>1 DEF DataPurposes, StatedAt
<1>3. QED
  BY <1>1, <1>2, Zenon

\* The purpose a call should arrive with.
PurposeOf(c) ==
    LET r == The(Client!ClientRoute(c)).route
    IN  IF r.require_purpose /\ r.purpose_source = Some("StaticRouteDefault")
        THEN {Trim(d) : d \in ClientConfig.data_purpose}
        ELSE {Trim(c.headers.purposes[n]) : n \in DOMAIN c.headers.purposes \cap {1}} \ {""}

(* The data-purpose header of the client connector's message states that   *)
(* purpose (resolve_client_purpose, proxy.rs:294).                         *)
LEMMA MessageStatesPurpose ==
    ASSUME NEW c \in Calls, Sendable(c)
    PROVE  DataPurposes(Client!ClientMessage(c).headers) = PurposeOf(c)
<1> DEFINE r == The(Client!ClientRoute(c)).route
           h == Client!ClientMessage(c).headers
           own == c.headers.purposes
           resolved == Client!ResolveClientPurpose(r, c.headers)
<1>1. /\ Client!The(Client!ClientRoute(c)) = The(Client!ClientRoute(c))
      /\ Client!The(resolved) = The(resolved) /\ Client!None = {}
      /\ Client!Some("ClientProvided") = {"ClientProvided"}
      /\ Client!Some("StaticRouteDefault") = {"StaticRouteDefault"}
      /\ Some("StaticRouteDefault") = {"StaticRouteDefault"}
      /\ Client!Some(own[1]) = {own[1]}
  BY ClientVocabulary, Zenon DEF Some, None
<1>2. h = Client!ForwardedHeaders(c)
  BY DEF Client!ClientMessage
<1>3. h.purposes = IF resolved = {} THEN Client!FirstValue(own) ELSE <<The(resolved)>>
  <2>1. "purposes" \in DOMAIN c.headers
    BY CallsAssumption
  <2>2. QED
    BY <1>1, <1>2, <2>1 DEF Client!ForwardedHeaders
<1>4. r.require_purpose => resolved # {}
  <2>1. Client!Problem("PurposeRequired") # NoProblem
    BY ClientVocabulary, Zenon DEF Problem, NoProblem
  <2>2. Client!Problem("RouteDenied") # NoProblem
    BY ClientVocabulary, Zenon DEF Problem, NoProblem
  <2>3. Client!ClientProblem(c) = NoProblem
    BY DEF Sendable
  <2> HIDE DEF resolved, r
  <2>4. QED
    BY <1>1, <2>1, <2>2, <2>3, Zenon DEF Client!ClientProblem, resolved, r
<1>5. CASE r.require_purpose /\ r.purpose_source = Some("StaticRouteDefault")
  <2>1. resolved = {p \in ClientConfig.data_purpose : ~IsBlank(p)}
    <3>1. {"StaticRouteDefault"} # {"ClientProvided"}
      OBVIOUS
    <3>2. QED
      BY <1>1, <1>5, <3>1, ClientTrims, Zenon DEF Client!ResolveClientPurpose
  <2>2. PICK p \in resolved : TRUE
    BY <1>4, <1>5
  <2>3. ClientConfig.data_purpose = {p} /\ resolved = {p} /\ ~IsBlank(p)
    BY <2>1, <2>2, PurposeAssumption
  <2>4. h.purposes = <<p>>
    BY <1>3, <2>3, Zenon DEF The
  <2>5. DataPurposes(h) = {Trim(p)} \ {""}
    BY <2>4, OneValue, Zenon
  <2>6. PurposeOf(c) = {Trim(p)}
    BY <1>5, <2>3 DEF PurposeOf
  <2>7. QED
    BY <2>3, <2>5, <2>6, Zenon DEF IsBlank
<1>6. CASE ~(r.require_purpose /\ r.purpose_source = Some("StaticRouteDefault"))
  <2>1. resolved = Client!StatedPurpose(c.headers)
    BY <1>1, <1>4, <1>6, Zenon DEF Client!ResolveClientPurpose
  <2>2. PurposeOf(c) = {Trim(own[n]) : n \in DOMAIN own \cap {1}} \ {""}
    BY <1>6, Zenon DEF PurposeOf
  <2>3. CASE own = <<>>
    <3>1. h.purposes = <<>>
      BY <1>1, <1>3, <2>1, <2>3, Zenon DEF Client!StatedPurpose, Client!FirstValue
    <3>2. DOMAIN own = {}
      BY <2>3
    <3>3. PurposeOf(c) = {}
      BY <2>2, <3>2
    <3>4. QED
      BY <3>1, <3>3, OneValue, Zenon
  <2>4. CASE own # <<>>
    <3>1. 1 \in DOMAIN own
      BY <2>4, CallsAssumption
    <3>2. h.purposes = <<own[1]>>
      <4>1. Client!FirstValue(own) = <<own[1]>>
        BY <2>4 DEF Client!FirstValue
      <4>2. resolved = {} \/ resolved = {own[1]}
        BY <1>1, <2>1, <2>4, Zenon DEF Client!StatedPurpose
      <4>3. QED
        BY <1>3, <4>1, <4>2, Zenon DEF The
    <3>3. PurposeOf(c) = {Trim(own[1])} \ {""}
      BY <2>2, <3>1, Zenon
    <3>4. QED
      BY <3>2, <3>3, OneValue, Zenon
  <2>5. QED
    BY <2>3, <2>4
<1>7. QED
  BY <1>5, <1>6

(* The purpose Relay sees is the one stated on the caller's side, across   *)
(* both connectors.                                                        *)
THEOREM PurposeTravelsHolds == PairSpec => []PurposeTravels
<1>1. PairInv /\ HandlerInv => PurposeTravels
  <2> SUFFICES ASSUME PairInv, HandlerInv, NEW q \in Requests, NEW m \in sent[q], NEW c \in ccall[q]
               PROVE  m.purpose = PurposeOf(c)
    BY Zenon DEF PurposeTravels, PurposeOf
  <2>1. st[q] # "new"
    BY DEF HandlerInv, Unsent, None
  <2>2. input[q] # None /\ csent[q] # None
    BY <2>1, Zenon DEF PairInv
  <2>3. The(input[q]) \in input[q] /\ c \in Calls /\ The(ccall[q]) = c
    BY <2>2, Zenon DEF PairInv, The, None
  <2>4. The(input[q]).headers = Client!ClientMessage(c).headers /\ Sendable(c)
    BY <2>2, <2>3, Zenon DEF PairInv, None
  <2>5. PICK v \in Authorize(The(input[q]), judged[q]) : v.problem = NoProblem /\ m.purpose = v.purpose
    <3>1. SentAsAuthorized
      BY DEF HandlerInv
    <3>2. QED
      BY <3>1, Zenon DEF SentAsAuthorized
  <2>6. m.purpose = DataPurposes(The(input[q]).headers)
    BY <2>5, AuthorizedPurpose, Zenon
  <2>7. QED
    BY <2>3, <2>4, <2>6, MessageStatesPurpose, Zenon
<1>2. QED
  BY <1>1, PairInvariant, PairImplementsServer, HandlerInvariant, PTL

-----------------------------------------------------------------------------
(* The route find_server_route answers (routing.rs) has a prefix that      *)
(* matches the path.                                                       *)
LEMMA RouteMatchesPath ==
    ASSUME NEW routes, NEW method, NEW path, NEW id,
           NEW m \in FindServerRoute(routes, method, path, id)
    PROVE  /\ m.route.upstream_prefix # None /\ CanonicalRequestPath(path) # None
           /\ PrefixMatches(The(CanonicalRequestPath(path)), The(ServerPrefix(m.route)))
<1> DEFINE canonical == The(CanonicalRequestPath(path))
           prefix(i) == The(ServerPrefix(routes[i]))
           matching == ServerMatching(routes, method, path, id)
           best == Longest([i \in matching |-> prefix(i)])
<1>1. best \subseteq matching
  BY DEF Longest
<1>2. PICK i \in best : m = [route |-> routes[i], upstream_path |-> canonical]
  BY Zenon DEF FindServerRoute, ServerMatching, ServerConsidered, ServerPrefix, None
<1>3. i \in matching /\ m.route = routes[i]
  BY <1>1, <1>2
<1>4. CanonicalRequestPath(path) # None
  BY Zenon DEF FindServerRoute, None
<1>5. QED
  BY <1>3, <1>4, Zenon DEF ServerMatching, ServerConsidered

(* What handle_server lets through (proxy.rs:198-237) goes by a route      *)
(* whose prefix matches the path of the request.                           *)
LEMMA AuthorizedPath ==
    ASSUME NEW in, NEW time, NEW v \in Authorize(in, time), v.problem = NoProblem
    PROVE  \E r \in Range(Config.routes) :
              /\ r.id = v.key[2] /\ r.upstream_prefix # None
              /\ CanonicalRequestPath(in.path) # None
              /\ PrefixMatches(The(CanonicalRequestPath(in.path)), The(ServerPrefix(r)))
<1> DEFINE ids == UNION {VerifyPeer(Config.trust, c, time) : c \in in.chain}
           match == FindServerRoute(Config.routes, in.method, in.path, The(ids))
<1>1. \A kind \in {"ClientIdentityMissing", "ClientIdentityDenied", "RouteDenied"} :
          Judgement(Problem(kind)).problem # NoProblem
  BY NamedProblem, Zenon DEF Judgement
<1> DEFINE k == <<The(ids), The(match).route.id>>
<1>2. match # None /\ v.key = k
  <2> DEFINE missing == {Judgement(Problem("ClientIdentityMissing"))}
             denied == {Judgement(Problem("ClientIdentityDenied"))}
             unrouted == {Judgement(Problem("RouteDenied"))}
             verdicts == AuthorizeServerPurpose(The(match).route, in.headers,
                                                Config.trust.entitlements, The(ids), time)
             routed == {[problem |-> w.problem, key |-> k, purpose |-> w.purpose] : w \in verdicts}
  <2>1. v \in IF in.chain = None THEN missing
              ELSE IF ids = None \/ ~Allowlisted(Config.trust, The(ids)) THEN denied
              ELSE IF match = None THEN unrouted ELSE routed
    BY Zenon DEF Authorize
  <2>2. v \notin missing \cup denied \cup unrouted
    BY <1>1
  <2> HIDE DEF k, verdicts
  <2>3. v \in routed => v.key = k
    OBVIOUS
  <2> HIDE DEF missing, denied, unrouted, routed, ids, match
  <2>4. QED
    BY <2>1, <2>2, <2>3
<1>3. The(match) \in match
  BY <1>2, Zenon DEF The, None
<1> HIDE DEF ids
<1>4. /\ The(match).route \in Range(Config.routes) /\ The(match).route.upstream_prefix # None
      /\ CanonicalRequestPath(in.path) # None
      /\ PrefixMatches(The(CanonicalRequestPath(in.path)), The(ServerPrefix(The(match).route)))
  BY <1>3, RouteIsAllowed, RouteMatchesPath, Zenon
<1> HIDE DEF match
<1>5. v.key[2] = The(match).route.id
  <2>1. \A a, b : <<a, b>>[2] = b
    OBVIOUS
  <2>2. v.key[2] = k[2]
    BY <1>2, Zenon
  <2>3. k[2] = The(match).route.id
    BY <2>1
  <2>4. QED
    BY <2>2, <2>3
<1>6. QED
  BY <1>4, <1>5, Zenon

(* The instance of ClientConnector has its own copies of the operators of  *)
(* Routing as well, and selects routes as they do.                         *)
LEMMA ClientRouting ==
    ASSUME NEW routes, NEW method, NEW path
    PROVE  Client!FindClientRoute(routes, method, path) = FindClientRoute(routes, method, path)
<1>1. \A p : Client!CanonicalRequestPath(p) = CanonicalRequestPath(p)
  <2>1. \A p : Client!DotSegment(p) <=> DotSegment(p)
    BY Zenon DEF Client!DotSegment, DotSegment, Client!Segments, Segments, Client!Min, Min
  <2>2. \A p, d : Client!EncodedDelimiter(p, d) <=> EncodedDelimiter(p, d)
    <3>1. \A S : Client!Cardinality(S) = Cardinality(S)
      BY Zenon DEF Client!Cardinality, Cardinality
    <3>2. \A p, e : Client!Occurrences(p, e) = Occurrences(p, e)
      BY <3>1 DEF Client!Occurrences, Occurrences
    <3>3. QED
      BY <3>2, Zenon DEF Client!EncodedDelimiter, EncodedDelimiter, Client!Range, Range
  <2>3. \A e : Client!DecodeElement(e) = DecodeElement(e)
    BY Zenon DEF Client!DecodeElement, DecodeElement
  <2>4. QED
    BY <2>1, <2>2, <2>3, ClientVocabulary, Zenon
       DEF Client!CanonicalRequestPath, CanonicalRequestPath, Client!Range, Range
<1>2. /\ \A p, o : Client!PrefixMatches(p, o) <=> PrefixMatches(p, o)
      /\ \A p, l, u : Client!RewritePrefix(p, l, u) = RewritePrefix(p, l, u)
      /\ \A f : Client!Longest(f) = Longest(f)
  BY Zenon DEF Client!PrefixMatches, PrefixMatches, Client!StartsWith, StartsWith,
               Client!EndsInSlash, EndsInSlash, Client!RewritePrefix, RewritePrefix,
               Client!Longest, Longest
<1> DEFINE considered == ClientConsidered(routes, method)
           matching == ClientMatching(routes, method, path)
           whole == The(CanonicalRequestPath(path))
           local(i) == LocalPrefix(routes[i])
           upstream(i) == UpstreamPrefix(routes[i])
           best == Longest([i \in matching |-> The(local(i))])
           match(i) == [route |-> routes[i],
                        upstream_path |-> RewritePrefix(whole, The(local(i)), The(upstream(i)))]
           cwhole == The(Client!CanonicalRequestPath(path))
           clocal(i) == Client!CanonicalRequestPath(The(routes[i].local_prefix))
           cupstream(i) == IF routes[i].upstream_prefix = {} THEN clocal(i)
                           ELSE Client!CanonicalRequestPath(The(routes[i].upstream_prefix))
           cmatching == {i \in considered : Client!PrefixMatches(cwhole, The(clocal(i)))}
           cbest == Client!Longest([i \in cmatching |-> The(clocal(i))])
           cmatch(i) == [route |-> routes[i],
                         upstream_path |-> Client!RewritePrefix(cwhole, The(clocal(i)),
                                                                The(cupstream(i)))]
           decodes == /\ CanonicalRequestPath(path) # {}
                      /\ \A i \in considered : local(i) # {}
                      /\ \A i \in matching : upstream(i) # {}
           cdecodes == /\ Client!CanonicalRequestPath(path) # {}
                       /\ \A i \in considered : clocal(i) # {}
                       /\ \A i \in cmatching : cupstream(i) # {}
<1>3. FindClientRoute(routes, method, path) = IF decodes THEN {match(i) : i \in best} ELSE {}
  BY Zenon DEF FindClientRoute, ClientMatching, ClientConsidered, LocalPrefix, UpstreamPrefix, None
<1>4. Client!FindClientRoute(routes, method, path)
        = IF cdecodes THEN {cmatch(i) : i \in cbest} ELSE {}
  BY Zenon DEF Client!FindClientRoute, ClientConsidered, Client!None, None, Client!The, The
<1>5. cwhole = whole /\ \A i : clocal(i) = local(i) /\ cupstream(i) = upstream(i)
  BY <1>1 DEF LocalPrefix, UpstreamPrefix, None
<1>6. cmatching = matching
  BY <1>2, <1>5, Zenon DEF ClientMatching, LocalPrefix
<1> HIDE DEF considered, matching, cmatching, whole, cwhole, local, clocal, upstream, cupstream
<1>7. cbest = best
  BY <1>2, <1>5, <1>6
<1>8. \A i : cmatch(i) = match(i)
  BY <1>2, <1>5
<1> HIDE DEF match, cmatch, best, cbest
<1>9. cdecodes <=> decodes
  BY <1>1, <1>5, <1>6
<1> HIDE DEF decodes, cdecodes
<1>10. {cmatch(i) : i \in cbest} = {match(i) : i \in best}
  BY <1>7, <1>8, Zenon
<1>11. QED
  BY <1>3, <1>4, <1>9, <1>10, Zenon

(* Taking a sequence at all of its positions leaves it as it is.           *)
LEMMA AtAll ==
    ASSUME NEW S, NEW s \in Seq(S)
    PROVE  Client!At(s, DOMAIN s) = s
<1> DEFINE n == Len(s)
           upto(i) == {j \in 1..n : j <= i}
           nth(k) == CHOOSE i \in 1..n : Client!Cardinality(upto(i)) = k
<1>1. n \in Nat /\ DOMAIN s = 1..n
  OBVIOUS
<1>2. \A X : Client!Cardinality(X) = Cardinality(X)
  BY Zenon DEF Client!Cardinality, Cardinality
<1>3. \A i \in 1..n : Client!Cardinality(upto(i)) = i
  <2> SUFFICES ASSUME NEW i \in 1..n PROVE Client!Cardinality(upto(i)) = i
    OBVIOUS
  <2>1. upto(i) = 1..i
    BY <1>1
  <2>2. Cardinality(1..i) = i
    BY <1>1, FS_Interval
  <2>3. QED
    BY <1>2, <2>1, <2>2, Zenon
<1>4. Client!Cardinality(1..n) = n
  BY <1>1, <1>2, FS_Interval
<1> HIDE DEF upto, n
<1>5. \A k \in 1..n : nth(k) = k
  BY <1>3
<1>6. Client!At(s, 1..n) = [k \in 1..n |-> s[nth(k)]]
  BY <1>4, Zenon DEF Client!At, upto
<1> HIDE DEF nth
<1>7. QED
  BY <1>1, <1>5, <1>6

(* Url::parse only encodes a clean path in which nothing has a meaning of  *)
(* its own in a URL, one character after the other.                        *)
LEMMA UrlOfKeptPath ==
    ASSUME NEW T, NEW path \in Seq(T), path # <<>>, ~DotSegment(path),
           NEW query, Client!UrlKeeps(path, query),
           \A n \in DOMAIN path : /\ DecodeElement(Client!UrlElement(path[n])) = path[n]
                                  /\ Client!UrlElement(path[n]) = "/" <=> path[n] = "/"
    PROVE  Client!BuildUrl(path, query) = [n \in DOMAIN path |-> Client!UrlElement(path[n])]
<1> DEFINE encoded == [n \in DOMAIN path |-> Client!UrlElement(path[n])]
           W == {Client!UrlElement(t) : t \in T}
<1>1. Len(path) \in Nat \ {0} /\ DOMAIN path = 1..Len(path) /\ \A n \in 1..Len(path) : path[n] \in T
  OBVIOUS
<1>2. Client!UrlText(path, query) = path
  <2> DEFINE text == {i \in DOMAIN path :
                 /\ query \/ \E j \in DOMAIN path : i <= j /\ path[j] \notin Client!Blanks
                 /\ path[i] \notin Client!LineBreaks
                 /\ \A j \in 1..i : path[j] \notin {"?", "#"}}
  <2>1. \A i \in DOMAIN path : path[i] \notin Client!LineBreaks /\ path[i] \notin {"?", "#"}
    BY Zenon DEF Client!UrlKeeps, Client!Range
  <2>2. query \/ path[Len(path)] \notin Client!Blanks
    BY Zenon DEF Client!UrlKeeps
  <2>3. \A i \in 1..Len(path) : i <= Len(path) /\ Len(path) \in 1..Len(path) /\ 1..i \subseteq 1..Len(path)
    BY <1>1
  <2>4. text = DOMAIN path
    BY <1>1, <2>1, <2>2, <2>3, Zenon
  <2>5. Client!UrlText(path, query) = Client!At(path, text)
    BY Zenon DEF Client!UrlText
  <2> HIDE DEF text
  <2>6. QED
    BY <2>4, <2>5, AtAll
<1>3. encoded \in Seq(W) /\ DOMAIN encoded = DOMAIN path /\ Len(encoded) = Len(path)
  <2>1. \A n \in 1..Len(path) : Client!UrlElement(path[n]) \in W
    BY <1>1
  <2> HIDE DEF W
  <2>2. QED
    BY <1>1, <2>1
<1> DEFINE decoded == [i \in DOMAIN encoded |-> Client!DecodeElement(encoded[i])]
           slashes == {i \in DOMAIN encoded : encoded[i] = "/"}
           end(i)  == Client!Min({j \in slashes \cup {Len(encoded) + 1} : j > i}) - 1
           dots(n) == {i \in slashes : SubSeq(decoded, i + 1, end(i)) = [k \in 1..n |-> "."]}
           names   == slashes \ (dots(1) \cup dots(2))
           taken   == {i \in names : \E j \in slashes :
                          Client!Cardinality({k \in dots(2) : i < k /\ k <= j})
                            > Client!Cardinality({k \in names : i < k /\ k <= j})}
           gone    == dots(1) \cup dots(2) \cup taken
           kept    == {p \in DOMAIN encoded :
                          \/ ~\E i \in gone : i <= p /\ p <= end(i)
                          \/ p \in dots(1) \cup dots(2) /\ end(p) = Len(encoded)}
<1>4. Client!BuildUrl(path, query) = Client!At(encoded, kept)
  <2>1. Client!BuildUrl(path, query) = Client!UrlResolved(encoded)
    BY <1>2, Zenon DEF Client!BuildUrl
  <2> HIDE DEF encoded
  <2>2. Client!UrlResolved(encoded) = Client!At(encoded, kept)
    BY Zenon DEF Client!UrlResolved
  <2>3. QED
    BY <2>1, <2>2, Zenon
<1>5. decoded = path
  <2>1. \A e : Client!DecodeElement(e) = DecodeElement(e)
    BY Zenon DEF Client!DecodeElement, DecodeElement
  <2>2. \A n \in DOMAIN path : decoded[n] = path[n]
    BY <2>1
  <2> HIDE DEF encoded
  <2>3. QED
    BY <1>1, <1>3, <2>2
<1>6. slashes = {i \in DOMAIN path : path[i] = "/"}
  OBVIOUS
<1>7. dots(1) = {} /\ dots(2) = {}
  <2> DEFINE cuts == {0, Len(path) + 1} \cup {i \in DOMAIN path : path[i] = "/"}
             next(i) == Min({j \in cuts : j > i})
  <2>1. \A i \in slashes : SubSeq(path, i + 1, next(i) - 1) \in Segments(path)
    <3>1. slashes \subseteq cuts \ {Len(path) + 1}
      BY <1>1, <1>6
    <3> HIDE DEF slashes
    <3>2. QED
      BY <3>1, Zenon DEF Segments
  <2>2. \A i \in slashes : end(i) = next(i) - 1
    <3> SUFFICES ASSUME NEW i \in slashes PROVE end(i) = next(i) - 1
      OBVIOUS
    <3>1. \A X : Client!Min(X) = Min(X)
      BY Zenon DEF Client!Min, Min
    <3>2. i \in Nat
      BY <1>1, <1>6
    <3>3. {j \in slashes \cup {Len(encoded) + 1} : j > i} = {j \in cuts : j > i}
      BY <1>1, <1>3, <1>6, <3>2
    <3> HIDE DEF slashes, cuts
    <3>4. QED
      BY <3>1, <3>3
  <2>3. \A i \in slashes : SubSeq(decoded, i + 1, end(i)) \notin {<<".">>, <<".", ".">>}
    <3> HIDE DEF slashes, end, next, decoded
    <3>1. \A i \in slashes : SubSeq(decoded, i + 1, end(i)) \in Segments(path)
      BY <1>5, <2>1, <2>2
    <3>2. QED
      BY <3>1, Zenon DEF DotSegment
  <2>4. [k \in 1..1 |-> "."] = <<".">> /\ [k \in 1..2 |-> "."] = <<".", ".">>
    OBVIOUS
  <2> HIDE DEF slashes, end, decoded
  <2>5. \A i \in slashes : /\ SubSeq(decoded, i + 1, end(i)) # [k \in 1..1 |-> "."]
                           /\ SubSeq(decoded, i + 1, end(i)) # [k \in 1..2 |-> "."]
    BY <2>3, <2>4, Zenon
  <2>6. QED
    BY <2>5, Zenon
<1> HIDE DEF encoded, decoded, slashes, end, dots
<1>8. kept = DOMAIN encoded
  <2>1. taken = {}
    <3> SUFFICES ASSUME NEW i, NEW j
                 PROVE  ~(Client!Cardinality({k \in dots(2) : i < k /\ k <= j})
                            > Client!Cardinality({k \in names : i < k /\ k <= j}))
      BY Zenon
    <3> DEFINE left == {k \in dots(2) : i < k /\ k <= j}
               right == {k \in names : i < k /\ k <= j}
    <3>1. \A X : Client!Cardinality(X) = Cardinality(X)
      BY Zenon DEF Client!Cardinality, Cardinality
    <3>2. left = {}
      BY <1>7, Zenon
    <3>3. right \subseteq 1..Len(path)
      BY <1>1, <1>6
    <3> HIDE DEF left, right
    <3>4. IsFiniteSet(1..Len(path))
      BY <1>1, FS_Interval
    <3>5. Cardinality(right) \in Nat
      BY <3>3, <3>4, FS_Subset, FS_CardinalityType, Zenon
    <3>6. Cardinality(left) = 0
      BY <3>2, FS_EmptySet, Zenon
    <3>7. ~(Client!Cardinality(left) > Client!Cardinality(right))
      BY <3>1, <3>5, <3>6
    <3>8. QED
      BY <3>7 DEF left, right
  <2> HIDE DEF taken, names
  <2>2. QED
    BY <1>7, <2>1, Zenon
<1>9. QED
  BY <1>3, <1>4, <1>8, AtAll DEF encoded

(* The path the client connector rewrites lies under the upstream prefix   *)
(* of its route, and the URL its message is sent to (build_url) is         *)
(* canonicalised to that path if nothing in it means something to a URL.   *)
LEMMA MessageKeepsPath ==
    ASSUME NEW c \in Calls, Client!ClientRoute(c) # None
    PROVE  LET match == The(Client!ClientRoute(c))
           IN  /\ Client!UrlKeeps(match.upstream_path, c.query) =>
                     CanonicalRequestPath(Client!ClientMessage(c).path) = Some(match.upstream_path)
               /\ \A p \in match.route.upstream_prefix :
                     PrefixMatches(match.upstream_path, The(CanonicalRequestPath(p)))
<1> DEFINE routes == ClientConfig.routes
           found == FindClientRoute(routes, c.method, c.path)
           match == The(found)
           up == match.upstream_path
           url == Client!BuildUrl(up, c.query)
           T == {DecodeElement(e) : e \in PathElements}
<1>1. Client!ClientRoute(c) = found
  BY ClientRouting DEF Client!ClientRoute
<1>2. match \in found
  BY <1>1 DEF The, None
<1>3. /\ "/" \in PathElements /\ "/" \notin DOMAIN Decode
      /\ c.path \in Seq(PathElements) /\ routes \in Seq(Range(routes))
  BY PathsAssumption, UrlAssumption DEF PathElements
<1>4. \A i \in DOMAIN routes :
         \A p \in routes[i].local_prefix \cup routes[i].upstream_prefix : p \in Seq(PathElements)
  BY PathsAssumption DEF ClientPrefixes, Range
<1> HIDE DEF routes, match
<1>5. up \in Seq(T) /\ up # <<>> /\ up[1] = "/" /\ ~DotSegment(up)
  <2>1. CleanPath(match.upstream_path, T)
    BY <1>2, <1>3, <1>4, ClientPathIsClean, Zenon
  <2>2. QED
    BY <2>1 DEF CleanPath
<1>6. PICK i \in ClientMatching(routes, c.method, c.path) :
         match.route = routes[i] /\ PrefixMatches(up, The(UpstreamPrefix(routes[i])))
  BY <1>2, <1>3, <1>4, ClientRouteIsMostSpecific, Zenon
<1> HIDE DEF found, up
<1>7. ASSUME Client!UrlKeeps(up, c.query) PROVE CanonicalRequestPath(url) = Some(up)
  <2> DEFINE W == {Client!UrlElement(t) : t \in T}
  <2>1. DOMAIN up = 1..Len(up) /\ Len(up) \in Nat /\ \A n \in 1..Len(up) : up[n] \in T
    BY <1>5
  <2>2. \A n \in DOMAIN up : up[n] \notin {"\\"} \cup DOMAIN Decode \cup Undecodable
    BY <1>7, Zenon DEF Client!UrlKeeps, Client!Range
  <2>3. \A n \in DOMAIN up :
          /\ DecodeElement(Client!UrlElement(up[n])) = up[n]
          /\ Client!UrlElement(up[n]) \notin Undecodable
          /\ Client!UrlElement(up[n]) = "/" <=> up[n] = "/"
          /\ up[n] # "\\"
    BY <2>2, UrlAssumption DEF Client!UrlElement, DecodeElement
  <2>4. url = [n \in DOMAIN up |-> Client!UrlElement(up[n])]
    BY <1>5, <1>7, <2>3, UrlOfKeptPath, Zenon
  <2> HIDE DEF T, url
  <2>5. \A n \in 1..Len(up) : url[n] = Client!UrlElement(up[n]) /\ url[n] \in W
    BY <2>1, <2>4
  <2>6. url \in Seq(W) /\ Len(url) = Len(up)
    BY <2>1, <2>4, <2>5
  <2>7. \A n \in 1..Len(up) :
          /\ DecodeElement(url[n]) = up[n] /\ url[n] \notin Undecodable
          /\ url[n] = "/" <=> up[n] = "/"
          /\ up[n] # "\\"
    BY <2>1, <2>3, <2>5
  <2> HIDE DEF W
  <2>8. QED
    BY <1>5, <2>6, <2>7, UrlDecodesBack
<1>8. Client!ClientMessage(c).path = url
  BY <1>1, ClientVocabulary DEF Client!ClientMessage, match, up
<1>9. ASSUME NEW p \in match.route.upstream_prefix
      PROVE  PrefixMatches(up, The(CanonicalRequestPath(p)))
  <2>1. i \in DOMAIN routes /\ routes[i] \in Range(routes)
    BY DEF ClientMatching, ClientConsidered, Range
  <2>2. \A o \in routes[i].upstream_prefix : o = p
    BY <1>6, <1>9, <2>1, PathsAssumption, Zenon DEF routes
  <2>3. The(routes[i].upstream_prefix) = p /\ routes[i].upstream_prefix # None
    BY <1>6, <1>9, <2>2, Zenon DEF The, None
  <2>4. UpstreamPrefix(routes[i]) = CanonicalRequestPath(p)
    BY <2>3, Zenon DEF UpstreamPrefix
  <2>5. QED
    BY <1>6, <2>4, Zenon
<1>10. QED
  BY <1>1, <1>7, <1>8, <1>9, Zenon DEF match, up

(* A path survives both connectors and the URL between them where nothing  *)
(* in it means something to a URL; what the client connector rewrites lies *)
(* under the prefix of its route in any case, and what goes on to Relay,   *)
(* as the server connector read it, under the prefix of the route there.   *)
THEOREM PathTravelsHolds == PairSpec => []PathTravels
<1>1. PairInv /\ HandlerInv => PathTravels
  <2> SUFFICES ASSUME PairInv, HandlerInv, NEW q \in Requests, NEW in \in input[q]
               PROVE  LET c == The(ccall[q])
                          client == The(Client!ClientRoute(c))
                          received == CanonicalRequestPath(in.path)
                      IN  /\ \A p \in client.route.upstream_prefix :
                                PrefixMatches(client.upstream_path, The(CanonicalRequestPath(p)))
                          /\ Client!UrlKeeps(client.upstream_path, c.query)
                               => received = Some(client.upstream_path)
                          /\ sent[q] # None =>
                                /\ received # None
                                /\ \A p \in RouteOf(q).upstream_prefix :
                                      PrefixMatches(The(received), The(CanonicalRequestPath(p)))
    BY Zenon DEF PathTravels
  <2> DEFINE c == The(ccall[q])
             client == The(Client!ClientRoute(c))
  <2>1. csent[q] # None
    BY Zenon DEF PairInv, None
  <2>2. Sendable(c) /\ in.path = Client!ClientMessage(c).path
    BY <2>1, Zenon DEF PairInv, None
  <2>3. c \in Calls
    <3>1. cst[q] # "new"
      BY <2>1, Zenon DEF PairInv
    <3>2. ccall[q] # {} /\ ccall[q] \subseteq Calls
      BY <3>1, Zenon DEF PairInv, None
    <3>3. QED
      BY <3>2 DEF The
  <2>4. Client!ClientRoute(c) # None
    <3>1. Client!Problem("RouteDenied") # NoProblem /\ Client!None = None
      BY ClientVocabulary, Zenon DEF Problem, NoProblem
    <3>2. QED
      BY <2>2, <3>1, Zenon DEF Sendable, Client!ClientProblem
  <2> HIDE DEF c
  <2>5. /\ Client!UrlKeeps(client.upstream_path, c.query)
              => CanonicalRequestPath(in.path) = Some(client.upstream_path)
        /\ \A p \in client.route.upstream_prefix :
              PrefixMatches(client.upstream_path, The(CanonicalRequestPath(p)))
    BY <2>2, <2>3, <2>4, MessageKeepsPath, Zenon
  <2> HIDE DEF client
  <2>6. ASSUME sent[q] # None
        PROVE  /\ CanonicalRequestPath(in.path) # None
               /\ \A p \in RouteOf(q).upstream_prefix :
                     PrefixMatches(The(CanonicalRequestPath(in.path)), The(CanonicalRequestPath(p)))
    <3>1. PICK m \in sent[q] : TRUE
      BY <2>6 DEF None
    <3>2. SentAsAuthorized
      BY Zenon DEF HandlerInv
    <3>3. PICK v \in Authorize(The(input[q]), judged[q]) : v.problem = NoProblem /\ key[q] = v.key
      BY <3>1, <3>2, Zenon DEF SentAsAuthorized
    <3>4. The(input[q]) \in input[q]
      BY Zenon DEF The
    <3>5. The(input[q]).path = in.path
      BY <2>2, <3>4, Zenon DEF PairInv, c
    <3>6. PICK r \in Range(Config.routes) :
             /\ r.id = key[q][2] /\ r.upstream_prefix # None
             /\ CanonicalRequestPath(in.path) # None
             /\ PrefixMatches(The(CanonicalRequestPath(in.path)), The(ServerPrefix(r)))
      BY <3>3, <3>5, AuthorizedPath, Zenon
    <3>7. RouteOf(q) = r
      BY <3>6, RouteIdAssumption, Zenon DEF RouteOf
    <3>8. ASSUME NEW p \in r.upstream_prefix PROVE The(r.upstream_prefix) = p
      <4>1. \A o \in r.upstream_prefix : o = p
        BY PathsAssumption
      <4>2. QED
        BY <4>1 DEF The
    <3>9. QED
      BY <3>6, <3>7, <3>8, Zenon DEF ServerPrefix
  <2>7. QED
    BY <2>5, <2>6, Zenon DEF client, c
<1>2. QED
  BY <1>1, PairInvariant, PairImplementsServer, HandlerInvariant, PTL
=============================================================================
