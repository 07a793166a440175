---------------------------- MODULE ConnectorPair ----------------------------
(***************************************************************************)
(* A client connector and a server connector between a caller and Relay.   *)
(* The server connector's requests are the messages of the client          *)
(* connector; each side has its own limits, timeouts and log, and either   *)
(* handler may be gone while the other goes on.                            *)
(***************************************************************************)
EXTENDS ServerConnector

CONSTANTS Calls,                     \* what a caller may ask for
          ClientConfig, ClientConcurrent, ClientTimeout, ClientUpstreamTimeout,
          ClientChain,               \* the client connector's certificate chain
          UrlEncode, ValidRequestIds \* as in ClientConnector

VARIABLES cst, ccall, cpermits, cstarted, csent, csentAt, cwire, clog

Client == INSTANCE ClientConnector WITH
    st <- cst, call <- ccall, permits <- cpermits, started <- cstarted,
    sent <- csent, sentAt <- csentAt, wire <- cwire, log <- clog,
    MaxConcurrent <- ClientConcurrent, RequestTimeout <- ClientTimeout,
    UpstreamTimeout <- ClientUpstreamTimeout

(* A message as the server connector gets it.  Its body may get lost on    *)
(* the way, and what the client connector let pass may be beyond the       *)
(* server's limit.                                                         *)
Received(m, body) ==
    [chain |-> Some(ClientChain), method |-> m.method, path |-> m.path, headers |-> m.headers,
     body |-> IF body = "stalls" THEN "stalls"
              ELSE IF m.body = "small" THEN "fits" ELSE "too_large"]

\* What a message of the client connector may turn into is a server input.
ASSUME InputsAssumption ==
    \A c \in Calls, body \in {"arrives", "stalls"} :
        Client!ClientProblem(c) = NoProblem /\ ~Client!Unencodable(c)
            => Received(Client!ClientMessage(c), body) \in Inputs

ASSUME ClientConcurrentAssumption == ClientConcurrent \in Nat \ {0}
\* Header values come in sequence; data_purpose is an optional value.
ASSUME CallsAssumption ==
    \A c \in Calls :
        /\ {"request_id", "purposes"} \subseteq DOMAIN c.headers
        /\ c.headers.purposes \in Seq(Range(c.headers.purposes))
ASSUME PurposeAssumption == \A d, e \in ClientConfig.data_purpose : d = e

\* The elements of the paths and prefixes the client connector handles.
ClientPrefixes == UNION {r.local_prefix \cup r.upstream_prefix : r \in Range(ClientConfig.routes)}
PathElements ==
    {"/"} \cup UNION {Range(c.path) : c \in Calls} \cup UNION {Range(p) : p \in ClientPrefixes}

\* Routes, paths and prefixes come in sequence; a prefix is an optional value.
ASSUME PathsAssumption ==
    /\ ClientConfig.routes \in Seq(Range(ClientConfig.routes))
    /\ \A c \in Calls : c.path \in Seq(PathElements)
    /\ \A p \in ClientPrefixes : p \in Seq(PathElements)
    /\ \A r \in Range(ClientConfig.routes) \cup Range(Config.routes) :
          \A o, p \in r.upstream_prefix : o = p

\* Percent-encoding: the encoding of a character decodes to it, and a slash
\* is neither encoded by the URL parser nor an encoding.
ASSUME UrlAssumption ==
    /\ "/" \notin DOMAIN Decode \cup DOMAIN UrlEncode
    /\ \A c \in DOMAIN UrlEncode :
          LET u == UrlEncode[c]
          IN  u \in DOMAIN Decode \ Undecodable /\ Decode[u] = c

cvars == <<cst, ccall, cpermits, cstarted, csent, csentAt, cwire, clog>>
pairvars == <<vars, cvars>>

-----------------------------------------------------------------------------
PairInit == Init /\ Client!Init

\* A message reaches the server connector through an accepted handshake.
Deliver(q) ==
    /\ Client!ServerReceives(q)
    /\ TlsAccepts(Config.trust, ClientChain, clock)
    /\ \E m \in csent[q], body \in {"arrives", "stalls"} : Arrive(q, Received(m, body))

\* Hyper writes the answer of a finished handler to the connection.
Reply(q) == st[q] = "done" /\ Client!ServerAnswers(q) /\ UNCHANGED vars

CallerStep(q) == \E c \in Calls : Client!Arrive(q, c) /\ UNCHANGED vars
ClientStep(q) == Client!Local(q) /\ UNCHANGED vars
ServerStep(q) ==
    /\ Admit(q) \/ Handler(q) \/ Upstream(q) \/ Timers(q) \/ Disconnect(q)
    /\ UNCHANGED cvars

PairFinished ==
    /\ \A q \in Requests : cst[q] \in Ended /\ st[q] \in Ended \cup {"new"}
    /\ UNCHANGED pairvars

PairNext ==
    \/ \E q \in Requests : CallerStep(q) \/ ClientStep(q) \/ Deliver(q) \/ Reply(q) \/ ServerStep(q)
    \/ Tick /\ UNCHANGED cvars
    \/ PairFinished

PairSpec == PairInit /\ [][PairNext]_pairvars

\* Judge is the only step of a client handler that waits for nothing.
ClientProceeds(q) ==
    /\ cst[q] = "handling"
    /\ \E s \in {"body", "done"} : cst' = [cst EXCEPT ![q] = s]

(* In each connector the runtime polls a ready handler, timers fire, and   *)
(* the semaphore of the concurrency limit is first come, first served, so  *)
(* a request that finds a permit free again and again gets one.  Nothing   *)
(* is assumed of the caller, the network between the connectors, or Relay. *)
PairFairness ==
    \A q \in Requests :
        /\ SF_pairvars(Admit(q) /\ UNCHANGED cvars)
        /\ WF_st(Proceeds(q))
        /\ WF_pairvars(Timers(q) /\ UNCHANGED cvars)
        /\ SF_pairvars(Client!Admit(q) /\ UNCHANGED vars)
        /\ WF_cst(ClientProceeds(q))
        /\ WF_pairvars(Client!Timers(q) /\ UNCHANGED vars)
FairPairSpec == PairSpec /\ PairFairness

-----------------------------------------------------------------------------
\* What a client handler sends, and whether it gets that far.
Sendable(c) == Client!ClientProblem(c) = NoProblem /\ ~Client!Unencodable(c)

(* The inductive invariant of the pair: what the state of a request at the *)
(* client connector says about its message, its log entry and the server   *)
(* connector.  The server connector's part is HandlerInv.                  *)
PairInv ==
    /\ cst \in [Requests -> Client!States] /\ st \in [Requests -> States]
    /\ DOMAIN clog = Requests /\ DOMAIN csent = Requests
    /\ DOMAIN cwire = Requests /\ DOMAIN ccall = Requests /\ DOMAIN input = Requests
    /\ \A q \in Requests :
        /\ ccall[q] \subseteq Calls /\ (ccall[q] = None <=> cst[q] = "new")
        /\ \A c, d \in ccall[q] : c = d
        /\ cst[q] = "body" => Client!ClientProblem(The(ccall[q])) = NoProblem
        /\ csent[q] = None <=> cwire[q] = "none"
        /\ cst[q] \in {"new", "queued", "handling", "body"} => csent[q] = None
        /\ cst[q] \in {"sending", "reading"} => csent[q] # None
        /\ \A m \in csent[q] : m = Client!ClientMessage(The(ccall[q])) /\ Sendable(The(ccall[q]))
        /\ \A in \in input[q] : in.headers = Client!ClientMessage(The(ccall[q])).headers
        /\ \A in \in input[q] : in.path = Client!ClientMessage(The(ccall[q])).path
        /\ input[q] # None => csent[q] # None
        /\ input[q] = None <=> st[q] = "new"
        /\ cwire[q] = "received" <=> st[q] # "new"
        /\ cst[q] = "reading" => st[q] = "done"
        /\ clog[q] # None <=> cst[q] = "done"
        /\ \A e \in clog[q] :
            /\ e = LogEntry(e.problem)
            /\ e.outcome = "forwarded" => st[q] = "done"
            /\ (e.outcome = "denied" /\ e.problem.kind # "RequestTimeout") => csent[q] = None

\* The problem the caller reads in the answer: the client connector's own,
\* or that of the server connector it passes on.
ProblemTold(q) ==
    IF The(clog[q]).problem # NoProblem THEN The(clog[q]).problem ELSE The(log[q]).problem

(* The caller sees one answer and not which connector gave it.  Unless it  *)
(* is a timeout, a refusal means that Relay has not got the request and    *)
(* will not; success means that Relay has got it.                          *)
CallerIsToldTheTruth ==
    \A q \in Requests : cst[q] = "done" =>
        LET p == ProblemTold(q)
        IN  /\ p = NoProblem => wire[q] = "received"
            /\ (p # NoProblem /\ p.kind # "RequestTimeout" /\ AuditOutcome(p) = "denied")
                  => sent[q] = None /\ wire[q] = "none"

(* The log lines of the two connectors about one request can be joined:    *)
(* request_id accepts at the server connector what the client connector    *)
(* logged, whether the caller's id was usable or not (proxy.rs:1038).      *)
LogsShareRequestId ==
    \A q \in Requests : \A in \in input[q] :
        Client!RequestId(in.headers.request_id, "server")
            = Client!RequestId(The(ccall[q]).headers.request_id, "client")

(* The purpose Relay sees is the one stated on the caller's side: the      *)
(* configured default on a route that uses it, whatever the caller's own   *)
(* headers say, and otherwise the caller's first value (proxy.rs:294).     *)
PurposeTravels ==
    \A q \in Requests : \A m \in sent[q], c \in ccall[q] :
        LET route == The(Client!ClientRoute(c)).route
        IN  m.purpose = IF route.require_purpose /\ route.purpose_source = Some("StaticRouteDefault")
                        THEN {Trim(d) : d \in ClientConfig.data_purpose}
                        ELSE {Trim(c.headers.purposes[n]) : n \in DOMAIN c.headers.purposes \cap {1}} \ {""}

(* Between the two route searches (routing.rs) lies a URL parser           *)
(* (proxy.rs:1093).  The path the client connector rewrote is under the    *)
(* upstream prefix of its route.  Where nothing in it has a meaning of its *)
(* own in a URL, the server connector decides on that very path, whatever  *)
(* is encoded on the way; the code does not check that, and for other      *)
(* paths nothing is said of how the two paths relate.  In any case the     *)
(* server connector passes a request on under the prefix of its own route, *)
(* judged by the path it received.                                         *)
PathTravels ==
    \A q \in Requests : \A in \in input[q] :
        LET c == The(ccall[q])
            client == The(Client!ClientRoute(c))
            received == CanonicalRequestPath(in.path)
        IN  /\ \A p \in client.route.upstream_prefix :
                  PrefixMatches(client.upstream_path, The(CanonicalRequestPath(p)))
            /\ Client!UrlKeeps(client.upstream_path, c.query) => received = Some(client.upstream_path)
            /\ sent[q] # None =>
                  /\ received # None
                  /\ \A p \in RouteOf(q).upstream_prefix :
                        PrefixMatches(The(received), The(CanonicalRequestPath(p)))

ClientHolders == {q \in Requests : cst[q] \in Client!Held}

(* Permits of the client connector come back on every answer, timeout and  *)
(* disconnect, also while the server connector still works on the request. *)
ClientPermitsConserved == cpermits + Cardinality(ClientHolders) = ClientConcurrent

(* The client connector is a policy gate towards the server connector, as  *)
(* the server connector is one towards Relay.                              *)
ClientGateSpec == Client!Gate!Spec

(* No request waits for ever on either side: the timeouts of each          *)
(* connector end its handlers although the other one, the network, the     *)
(* caller and Relay may be silent, and a permit that is freed goes to a    *)
(* request that waits for one.                                             *)
BothSidesEnd ==
    \A q \in Requests :
        /\ cst[q] = "queued" ~> cst[q] \in Ended
        /\ st[q] = "queued" ~> st[q] \in Ended
=============================================================================
