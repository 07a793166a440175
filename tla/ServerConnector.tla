--------------------------- MODULE ServerConnector ---------------------------
(***************************************************************************)
(* The life of a request in server mode: the concurrency limit of the      *)
(* router, proxy_handler with its timeout, and handle_server up to the     *)
(* answer of Relay (proxy.rs).                                             *)
(*                                                                         *)
(* A handler runs without interruption from one await to the next.  The    *)
(* awaits are the queue for a concurrency permit, the request body, the    *)
(* send and the response body: only there can the timeout fire or the      *)
(* caller's disconnect drop the handler.  The rate limiter is shared with  *)
(* other threads, so its clock reading and its critical section are steps  *)
(* of their own.  Dropping a handler does not recall bytes that are        *)
(* already on their way to Relay.                                          *)
(***************************************************************************)
EXTENDS PeerTrust, Routing, PurposePolicy, UpstreamAuth

CONSTANTS Requests,        \* the requests of a behaviour, each made once
          Inputs,          \* what a request may look like
          Config,          \* the validated server configuration
          MaxConcurrent,   \* limits.max_concurrent_requests
          RequestTimeout,  \* limits.request_timeout_seconds
          UpstreamTimeout, \* limits.upstream_timeout_seconds
          Limit, Window, MaxTime  \* as in RateLimiter

ASSUME RequestsAssumption == IsFiniteSet(Requests)
ASSUME ConcurrentAssumption == MaxConcurrent \in Nat \ {0}
ASSUME TimeoutAssumption == RequestTimeout \in Nat /\ UpstreamTimeout \in Nat
ASSUME LimiterAssumption == Limit \in Nat \ {0} /\ Window \in Nat \ {0} /\ MaxTime \in Nat
\* Certificates have a period of validity; validate_config refuses a second
\* route with the same id.
ASSUME ChainAssumption ==
    \A in \in Inputs : \A c \in in.chain : c.from \in Int /\ c.until \in Int
ASSUME RouteIdAssumption ==
    \A r, s \in Range(Config.routes) : r.id = s.id => r = s

VARIABLES clock, entries, windows, limiting, now, key, admitted, opened, first,
                    \* the variables of RateLimiter (limiting is its pc)
          st,       \* where each request is
          input,    \* what it looks like, optional until it arrives
          permits,  \* free concurrency permits
          started,  \* when its handler started
          judged,   \* when its handler authorized it
          purpose,  \* its authorized purpose
          sent,     \* the message handed to the HTTP client, optional
          sentAt,   \* when that was
          wire,     \* whether that message has reached Relay
          log       \* its completion log entry, optional

limiter == <<clock, entries, windows, limiting, now, key, admitted, opened, first>>
request == <<input, started, judged, purpose, sent, sentAt>>
vars == <<limiter, st, permits, wire, log, request>>

\* The limiter's key is the pair of identity and route id.
Keys == {Trim(a) : a \in Config.trust.allowed} \X {r.id : r \in Range(Config.routes)}

RL == INSTANCE RateLimiter WITH Tasks <- Requests, pc <- limiting

\* A request waits at an await in these states; it holds a permit in Held.
AtAwait == {"body", "sending", "reading"}
Held    == AtAwait \cup {"handling", "limiting"}
Ended   == {"done", "dropped"}
States  == Held \cup Ended \cup {"new", "queued"}

Outcomes == {"forwarded", "denied", "failed"}

-----------------------------------------------------------------------------
(* handle_server, from the certificate chain to the purpose: the identity, *)
(* route and purpose of a permitted request, or its problem.  A set,       *)
(* because the decision point may report any of several failing gates.     *)
Judgement(problem) == [problem |-> problem, key |-> <<>>, purpose |-> None]

Authorize(in, time) ==
    LET ids == UNION {VerifyPeer(Config.trust, c, time) : c \in in.chain}
        match == FindServerRoute(Config.routes, in.method, in.path, The(ids))
    IN  IF in.chain = None THEN {Judgement(Problem("ClientIdentityMissing"))}
        ELSE IF ids = None \/ ~Allowlisted(Config.trust, The(ids))
        THEN {Judgement(Problem("ClientIdentityDenied"))}
        ELSE IF match = None THEN {Judgement(Problem("RouteDenied"))}
        ELSE {[problem |-> v.problem, key |-> <<The(ids), The(match).route.id>>,
               purpose |-> v.purpose] : v \in
                AuthorizeServerPurpose(The(match).route, in.headers,
                                       Config.trust.entitlements, The(ids), time)}

RouteOf(q) == CHOOSE r \in Range(Config.routes) : r.id = key[q][2]

(* The headers Relay sees.  The strict filter drops the caller's           *)
(* Authorization, Cookie and x-registry-connector- headers; data-purpose   *)
(* is replaced by the authorized value.                                    *)
Message(q) ==
    [purpose         |-> purpose[q],
     authorization   |-> AuthSecret(Config, RouteOf(q)),
     cookie          |-> FALSE,
     client_identity |-> IF RouteOf(q).forward_client_identity
                         THEN Some(key[q][1]) ELSE None]

-----------------------------------------------------------------------------
\* The end of proxy_handler: the log line, the answer, the permit.
Answer(q, problem) ==
    /\ st' = [st EXCEPT ![q] = "done"]
    /\ log' = [log EXCEPT ![q] = Some(LogEntry(problem))]
    /\ permits' = permits + 1

Init ==
    /\ RL!Init
    /\ key = [q \in Requests |-> CHOOSE k \in Keys : TRUE]
    /\ st = [q \in Requests |-> "new"]
    /\ permits = MaxConcurrent
    /\ input = [q \in Requests |-> None]
    /\ purpose = [q \in Requests |-> None]
    /\ sent = [q \in Requests |-> None]
    /\ log = [q \in Requests |-> None]
    /\ started = [q \in Requests |-> 0]
    /\ judged = [q \in Requests |-> 0]
    /\ sentAt = [q \in Requests |-> 0]
    /\ wire = [q \in Requests |-> "none"]

Arrive(q, in) ==
    /\ st[q] = "new"
    /\ st' = [st EXCEPT ![q] = "queued"]
    /\ input' = [input EXCEPT ![q] = Some(in)]
    /\ UNCHANGED <<limiter, permits, wire, log, started, judged, purpose, sent, sentAt>>

\* External: ConcurrencyLimitLayer hands out a permit; proxy_handler starts.
Admit(q) ==
    /\ st[q] = "queued"
    /\ permits > 0
    /\ permits' = permits - 1
    /\ st' = [st EXCEPT ![q] = "handling"]
    /\ started' = [started EXCEPT ![q] = clock]
    /\ UNCHANGED <<limiter, wire, log, input, judged, purpose, sent, sentAt>>

\* Mutated: a refusal of the decision point is only logged.
JudgeLogsOnly(q) ==
    /\ st[q] = "handling"
    /\ judged' = [judged EXCEPT ![q] = clock]
    /\ \E v \in Authorize(The(input[q]), clock) :
          IF v.key # <<>>
          THEN /\ RL!ReadClock(q, v.key)
               /\ st' = [st EXCEPT ![q] = "limiting"]
               /\ purpose' = [purpose EXCEPT ![q] = v.purpose]
               /\ UNCHANGED <<permits, log>>
          ELSE Answer(q, v.problem) /\ UNCHANGED <<limiter, purpose>>
    /\ UNCHANGED <<wire, input, started, sent, sentAt>>

\* Identity, route and purpose; then check reads the clock.
Judge(q) ==
    /\ st[q] = "handling"
    /\ judged' = [judged EXCEPT ![q] = clock]
    /\ \E v \in Authorize(The(input[q]), clock) :
          IF v.problem = NoProblem
          THEN /\ RL!ReadClock(q, v.key)
               /\ st' = [st EXCEPT ![q] = "limiting"]
               /\ purpose' = [purpose EXCEPT ![q] = v.purpose]
               /\ UNCHANGED <<permits, log>>
          ELSE Answer(q, v.problem) /\ UNCHANGED <<limiter, purpose>>
    /\ UNCHANGED <<wire, input, started, sent, sentAt>>

\* Mutated: the answer of the limiter is dropped.
TakeSlotIgnored(q) ==
    /\ st[q] = "limiting"
    /\ RL!Check(q)
    /\ st' = [st EXCEPT ![q] = "body"]
    /\ UNCHANGED <<permits, log, wire, request>>

\* The critical section of check.
TakeSlot(q) ==
    /\ st[q] = "limiting"
    /\ RL!Check(q)
    /\ IF admitted'[key[q]] = admitted[key[q]]
       THEN Answer(q, Problem("RateLimited"))
       ELSE st' = [st EXCEPT ![q] = "body"] /\ UNCHANGED <<permits, log>>
    /\ UNCHANGED <<wire, request>>

\* Mutated: the handler is a task of its own, which a timeout does not stop.
BodyArrivesDetached(q) ==
    /\ st[q] = "body" \/ \E e \in log[q] : e.problem.kind = "RequestTimeout" /\ sent[q] = None
    /\ The(input[q]).body = "fits"
    /\ AuthProblem(Config, RouteOf(q)) = NoProblem
    /\ st' = [st EXCEPT ![q] = IF @ = "body" THEN "sending" ELSE @]
    /\ sent' = [sent EXCEPT ![q] = Some(Message(q))]
    /\ sentAt' = [sentAt EXCEPT ![q] = clock]
    /\ wire' = [wire EXCEPT ![q] = "flying"]
    /\ UNCHANGED <<limiter, permits, log, input, started, judged, purpose>>

\* read_limited_body: a broken body is answered like an oversized one.  A
\* body that stalls never completes.
BodyArrives(q) ==
    /\ st[q] = "body"
    /\ The(input[q]).body = "fits"
    /\ AuthProblem(Config, RouteOf(q)) = NoProblem
    /\ st' = [st EXCEPT ![q] = "sending"]
    /\ sent' = [sent EXCEPT ![q] = Some(Message(q))]
    /\ sentAt' = [sentAt EXCEPT ![q] = clock]
    /\ wire' = [wire EXCEPT ![q] = "flying"]
    /\ UNCHANGED <<limiter, permits, log, input, started, judged, purpose>>

\* A complete body, but the upstream credential is missing or unusable.
CredentialFails(q) ==
    /\ st[q] = "body"
    /\ The(input[q]).body = "fits"
    /\ AuthProblem(Config, RouteOf(q)) # NoProblem
    /\ Answer(q, AuthProblem(Config, RouteOf(q)))
    /\ UNCHANGED <<limiter, wire, request>>

\* Mutated: the body is passed on while its size is still being counted.
BodyFailsStreaming(q) ==
    /\ st[q] = "body"
    /\ The(input[q]).body = "too_large"
    /\ Answer(q, Problem("BodyTooLarge"))
    /\ sent' = [sent EXCEPT ![q] = Some(Message(q))]
    /\ wire' = [wire EXCEPT ![q] = "flying"]
    /\ UNCHANGED <<limiter, input, started, judged, purpose, sentAt>>

BodyFails(q) ==
    /\ st[q] = "body"
    /\ The(input[q]).body = "too_large"
    /\ Answer(q, Problem("BodyTooLarge"))
    /\ UNCHANGED <<limiter, wire, request>>

\* The network delivers, whatever has become of the handler.
RelayReceives(q) ==
    /\ wire[q] = "flying"
    /\ wire' = [wire EXCEPT ![q] = "received"]
    /\ UNCHANGED <<limiter, st, permits, log, request>>

\* send() returns the head of Relay's response.
RelayAnswers(q) ==
    /\ st[q] = "sending"
    /\ wire[q] = "received"
    /\ st' = [st EXCEPT ![q] = "reading"]
    /\ UNCHANGED <<limiter, permits, wire, log, request>>

\* read_bounded returns the whole response body.
ResponseRead(q) ==
    /\ st[q] = "reading"
    /\ Answer(q, NoProblem)
    /\ UNCHANGED <<limiter, wire, request>>

\* A connection error, an oversized response or a broken response body.
UpstreamFails(q) ==
    /\ st[q] \in {"sending", "reading"}
    /\ Answer(q, Problem("UpstreamUnavailable"))
    /\ UNCHANGED <<limiter, wire, request>>

\* The HTTP client's own timeout spans the send and the response body.
UpstreamExpires(q) ==
    /\ st[q] \in {"sending", "reading"}
    /\ clock >= sentAt[q] + UpstreamTimeout
    /\ Answer(q, Problem("UpstreamUnavailable"))
    /\ UNCHANGED <<limiter, wire, request>>

(* tokio::time::timeout polls the handler before its own timer, so once    *)
(* the HTTP client's timeout has passed for certain, that one is reported. *)
RequestExpires(q) ==
    /\ st[q] \in AtAwait
    /\ clock >= started[q] + RequestTimeout
    /\ st[q] # "body" => clock <= sentAt[q] + UpstreamTimeout
    /\ Answer(q, Problem("RequestTimeout"))
    /\ UNCHANGED <<limiter, wire, request>>

\* Mutated: a dropped handler keeps its permit.
DisconnectLeaks(q) ==
    /\ st[q] \in AtAwait \cup {"queued"}
    /\ st' = [st EXCEPT ![q] = "dropped"]
    /\ UNCHANGED <<limiter, permits, wire, log, request>>

\* Mutated: a request that leaves the queue gives back a permit it never had.
DisconnectReturns(q) ==
    /\ st[q] \in AtAwait \cup {"queued"}
    /\ st' = [st EXCEPT ![q] = "dropped"]
    /\ permits' = permits + 1
    /\ UNCHANGED <<limiter, wire, log, request>>

\* Mutated: a dropped request gets its slot of the rate limit back.
DisconnectRefunds(q) ==
    /\ st[q] \in AtAwait
    /\ st' = [st EXCEPT ![q] = "dropped"]
    /\ permits' = permits + 1
    /\ windows' = [windows EXCEPT ![key[q]].count = @ - 1]
    /\ UNCHANGED <<clock, entries, limiting, now, key, admitted, opened, first,
                   wire, log, request>>

\* The caller goes away: the handler is dropped where it waits, with its
\* permit, and nothing is logged.
Disconnect(q) ==
    /\ st[q] \in AtAwait \cup {"queued"}
    /\ st' = [st EXCEPT ![q] = "dropped"]
    /\ permits' = IF st[q] = "queued" THEN permits ELSE permits + 1
    /\ UNCHANGED <<limiter, wire, log, request>>

Tick == RL!Tick /\ UNCHANGED <<st, permits, wire, log, request>>

\* Every request has ended and no message is under way.
Finished ==
    /\ \A q \in Requests : st[q] \in Ended /\ wire[q] # "flying"
    /\ UNCHANGED vars

Handler(q) == Judge(q) \/ TakeSlot(q) \/ CredentialFails(q) \/ BodyFails(q) \/ BodyArrives(q)
Upstream(q) == RelayReceives(q) \/ RelayAnswers(q) \/ ResponseRead(q) \/ UpstreamFails(q)
Timers(q) == UpstreamExpires(q) \/ RequestExpires(q)

Next ==
    \/ \E q \in Requests, in \in Inputs : Arrive(q, in)
    \/ \E q \in Requests : Admit(q) \/ Handler(q) \/ Upstream(q) \/ Timers(q) \/ Disconnect(q)
    \/ Tick
    \/ Finished

Spec == Init /\ [][Next]_vars

\* A handler that waits for nothing goes on: Judge or TakeSlot, the only
\* actions that leave these two states, and always enabled in them.
Proceeds(q) ==
    /\ st[q] \in {"handling", "limiting"}
    /\ \E s \in States : st' = [st EXCEPT ![q] = s]

-----------------------------------------------------------------------------
Messages == [purpose : SUBSET {Trim(v) : v \in UNION {Range(in.headers.purposes) : in \in Inputs}},
             authorization : SUBSET {Config.environment[v] : v \in DOMAIN Config.environment},
             cookie : BOOLEAN,
             client_identity : SUBSET {Trim(a) : a \in Config.trust.allowed}]

TypeOK ==
    /\ RL!TypeOK
    /\ st \in [Requests -> States]
    /\ permits \in 0..MaxConcurrent
    /\ \A q \in Requests :
        /\ input[q] \subseteq Inputs /\ (input[q] = None <=> st[q] = "new")
        /\ started[q] \in Nat /\ judged[q] \in Nat /\ sentAt[q] \in Nat
        /\ sent[q] \subseteq Messages
        /\ wire[q] \in {"none", "flying", "received"}
        /\ \A e \in log[q] : e.outcome \in Outcomes

Holders == {q \in Requests : st[q] \in Held}

(* Every permit of the concurrency limit (proxy.rs:91) is either free or   *)
(* held by exactly one handler: it comes back on every answer, on every    *)
(* timeout and when a handler is dropped at an await.                      *)
PermitsConserved == permits + Cardinality(Holders) = MaxConcurrent

(* A request that is logged as denied has not reached Relay and never      *)
(* will, except by request_timeout, which may strike after the send; a     *)
(* request that is logged as forwarded has reached Relay.                  *)
LogTellsRelay ==
    \A q \in Requests : \A e \in log[q] :
        /\ (e.outcome = "denied" /\ e.problem.kind # "RequestTimeout")
              => sent[q] = None /\ wire[q] = "none"
        /\ e.outcome = "forwarded" => wire[q] = "received"

(* Whatever is on its way to Relay, even after its handler was dropped or  *)
(* timed out, came from an authenticated and allowlisted identity, under a *)
(* route of that identity, for a purpose the route lists, with a complete  *)
(* body; it carries the connector's credential and no caller's cookie, and *)
(* names no identity but the verified one.                                 *)
RelaySeesOnlyAuthorized ==
    \A q \in Requests : \A m \in sent[q] :
        LET in == The(input[q])
            id == key[q][1]
            r == RouteOf(q)
        IN  /\ \E c \in in.chain : judged[q] \in c.from..c.until /\ \E a \in Config.trust.anchors :
                    a.ca \in c.issuers /\ (a.trust_domain \in TrustDomain(id) \/ id \in a.dns_identities)
            /\ \E a \in Config.trust.allowed : Trim(a) = id
            /\ in.method \in r.methods
            /\ \E a \in r.client_identity \cup r.client_identities : Trim(a) = id
            /\ r.purposes # {} => m.purpose # None /\ m.purpose \subseteq r.purposes
            /\ in.body = "fits"
            /\ m.authorization # None /\ ~m.cookie
            /\ m.client_identity \subseteq {id}

(* What is sent is what was authorized: between the decision and the send  *)
(* lie the rate limiter and the request body, and no step of any other     *)
(* request in between can exchange the identity, the route or the purpose  *)
(* a handler was granted (proxy.rs:232-283).                               *)
SentAsAuthorized ==
    \A q \in Requests : \A m \in sent[q] :
        \E v \in Authorize(The(input[q]), judged[q]) :
            /\ v.problem = NoProblem
            /\ key[q] = v.key /\ m.purpose = v.purpose
            /\ m.client_identity \subseteq {v.key[1]}

\* A request before its message is handed to the HTTP client.
Unsent == {"new", "queued", "handling", "limiting", "body"}
\* A request whose permit was granted and is still in use.
Authorized == {"limiting", "body", "sending", "reading"}

(* The inductive invariant behind PermitsConserved, LogTellsRelay,         *)
(* SentAsAuthorized and GateSpec: what each state of a handler says about  *)
(* its message, its log entry and its authorization.                       *)
HandlerInv ==
    /\ st \in [Requests -> States]
    /\ permits \in Int /\ PermitsConserved
    /\ DOMAIN log = Requests /\ DOMAIN sent = Requests /\ DOMAIN wire = Requests
    /\ DOMAIN input = Requests /\ DOMAIN purpose = Requests
    /\ DOMAIN judged = Requests /\ DOMAIN key = Requests
    /\ \A q \in Requests :
        /\ sent[q] = None <=> wire[q] = "none"
        /\ st[q] \in Unsent => sent[q] = None
        /\ st[q] \in {"sending", "reading"} => sent[q] # None
        /\ st[q] = "reading" => wire[q] = "received"
        /\ log[q] # None <=> st[q] = "done"
        /\ st[q] \in Authorized =>
              \E v \in Authorize(The(input[q]), judged[q]) :
                  v.problem = NoProblem /\ key[q] = v.key /\ purpose[q] = v.purpose
    /\ LogTellsRelay
    /\ SentAsAuthorized

(* Relay never sees more requests of an identity on a route than the rate  *)
(* limiter admitted, and so no more than Limit per window begun; slots     *)
(* spent on requests that failed later are never given back.               *)
RelayRateBounded ==
    \A k \in Keys :
        LET reached == Cardinality({q \in Requests : sent[q] # None /\ key[q] = k})
        IN  /\ reached <= admitted[k]
            /\ k \in entries => reached * Window <= Limit * ((clock - first[k]) + Window)

(* A request that was answered or dropped stays so: it is logged at most   *)
(* once, its log entry is final, and nothing is sent on its behalf any     *)
(* more.  A dropped request is never logged.                               *)
EndIsFinal ==
    [][\A q \in Requests : st[q] \in Ended =>
          /\ st'[q] = st[q] /\ log'[q] = log[q] /\ sent'[q] = sent[q]
          /\ (st[q] = "done") <=> (log[q] # None)]_vars

(* The limiter inside the connector behaves as the limiter on its own: no  *)
(* step of a handler touches the windows but through check.                *)
LimiterSpec == RL!Spec

\* The outcome PolicyGate sees: request_timeout is told apart from refusals.
GateOutcome(q) ==
    IF st[q] = "dropped" THEN "dropped"
    ELSE IF log[q] = None THEN "open"
    ELSE IF The(log[q]).problem.kind = "RequestTimeout" THEN "timed_out"
    ELSE The(log[q]).outcome

Gate == INSTANCE PolicyGate WITH
            cleared   <- {q \in Requests : sent[q] # None},
            delivered <- {q \in Requests : wire[q] = "received"},
            outcome   <- [q \in Requests |-> GateOutcome(q)]

(* The connector implements PolicyGate: clearance precedes delivery, no    *)
(* refusal follows a clearance, success implies delivery.                  *)
GateSpec == Gate!Spec

=============================================================================
