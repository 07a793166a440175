--------------------------- MODULE ClientConnector ---------------------------
(***************************************************************************)
(* The life of a request in client mode: the concurrency limit of the      *)
(* router, proxy_handler with its timeout, and handle_client up to the     *)
(* answer of the server connector (proxy.rs).  The awaits are those of     *)
(* ServerConnector; there is no peer to authenticate and no rate limit.    *)
(*                                                                         *)
(* A call is a record: method, path, query (whether it has one), headers   *)
(* as in PurposePolicy with cookie and the optional request_id, and body   *)
(* ("small", "large", "huge" or "stalls"; only a huge one is beyond this   *)
(* connector's limit).  A request id is a pair of its origin and its text. *)
(***************************************************************************)
EXTENDS Routing, PurposePolicy

CONSTANTS Requests,
          ClientConfig,     \* [routes, data_purpose, connector_id, unencodable]
          MaxConcurrent, RequestTimeout, UpstreamTimeout,
          UrlEncode,        \* function: character a URL cannot hold -> its encoding
          ValidRequestIds   \* texts valid_request_id accepts

VARIABLES clock,
          st,       \* where each request is
          call,     \* what the caller sent, optional until it arrives
          permits,  \* free concurrency permits
          started,  \* when its handler started
          sent,     \* the message handed to the HTTP client, optional
          sentAt,   \* when that was
          wire,     \* whether it has reached the server connector
          log       \* its completion log entry, optional

request == <<call, started, sent, sentAt>>
clientvars == <<st, permits, wire, log, request>>

AtAwait == {"body", "sending", "reading"}
Held    == AtAwait \cup {"handling"}
Ended   == {"done", "dropped"}
States  == Held \cup Ended \cup {"new", "queued"}

-----------------------------------------------------------------------------
ValidRequestId(id) == id[1] = "ulid" \/ id[2] \in ValidRequestIds

\* request_id, of either connector: the caller's if it is usable.
RequestId(header, side) ==
    IF \E id \in header : ValidRequestId(id)
    THEN CHOOSE id \in header : ValidRequestId(id)
    ELSE <<"ulid", side>>

\* The first data-purpose value as it was sent, unless it is blank.
StatedPurpose(headers) ==
    IF headers.purposes = <<>> \/ IsBlank(headers.purposes[1]) THEN None
    ELSE Some(headers.purposes[1])

\* Mutated: the caller's header goes before the static default.
ResolveClientPurposeCallerFirst(route, headers) ==
    IF StatedPurpose(headers) # None THEN StatedPurpose(headers)
    ELSE {p \in ClientConfig.data_purpose : ~IsBlank(p)}

\* The purpose to send, None where the handler answers PurposeRequired or
\* leaves the caller's headers alone.
ResolveClientPurpose(route, headers) ==
    IF ~route.require_purpose \/ route.purpose_source = Some("ClientProvided")
    THEN StatedPurpose(headers)
    ELSE IF route.purpose_source = Some("StaticRouteDefault")
    THEN {p \in ClientConfig.data_purpose : ~IsBlank(p)}
    ELSE None

ClientRoute(c) == FindClientRoute(ClientConfig.routes, c.method, c.path)

ClientProblem(c) ==
    IF ClientRoute(c) = None THEN Problem("RouteDenied")
    ELSE IF /\ The(ClientRoute(c)).route.require_purpose
            /\ ResolveClientPurpose(The(ClientRoute(c)).route, c.headers) = None
    THEN Problem("PurposeRequired")
    ELSE NoProblem

\* The elements of s at some of its positions.
At(s, positions) ==
    LET nth(k) == CHOOSE i \in positions : Cardinality({j \in positions : j <= i}) = k
    IN  [k \in 1..Cardinality(positions) |-> s[nth(k)]]

\* The blank stands for the other control characters as well.
LineBreaks == {"\t", "\n", "\r"}
Blanks == LineBreaks \cup {" "}

(* External: what Url::parse takes for the path.  It cuts blanks off the   *)
(* end of the whole text, skips tabs and line breaks, and begins a query   *)
(* or a fragment at the first question mark or hash.                       *)
UrlText(path, query) ==
    At(path, {i \in DOMAIN path :
                 /\ query \/ \E j \in DOMAIN path : i <= j /\ path[j] \notin Blanks
                 /\ path[i] \notin LineBreaks
                 /\ \A j \in 1..i : path[j] \notin {"?", "#"}})

\* External: it encodes what a URL cannot hold and leaves percent signs alone.
UrlElement(c) ==
    IF c = "\\" THEN "/" ELSE IF c \in DOMAIN UrlEncode THEN UrlEncode[c] ELSE c

(* External: it then resolves dot segments, also those with encoded dots.  *)
(* A segment goes together with the slash before it, and two dots take the *)
(* last segment along that is still there.                                 *)
UrlResolved(text) ==
    LET decoded == [i \in DOMAIN text |-> DecodeElement(text[i])]
        slashes == {i \in DOMAIN text : text[i] = "/"}
        end(i)  == Min({j \in slashes \cup {Len(text) + 1} : j > i}) - 1
        dots(n) == {i \in slashes : SubSeq(decoded, i + 1, end(i)) = [k \in 1..n |-> "."]}
        names   == slashes \ (dots(1) \cup dots(2))
        taken   == {i \in names : \E j \in slashes :
                       Cardinality({k \in dots(2) : i < k /\ k <= j})
                         > Cardinality({k \in names : i < k /\ k <= j})}
        gone    == dots(1) \cup dots(2) \cup taken
    IN  At(text, {p \in DOMAIN text :
                     \/ ~\E i \in gone : i <= p /\ p <= end(i)
                     \/ p \in dots(1) \cup dots(2) /\ end(p) = Len(text)})

(* build_url, as far as the path of the URL it parses.  It does not fail:  *)
(* the base is a URL and the path starts with a slash.                     *)
BuildUrl(path, query) ==
    LET text == UrlText(path, query)
    IN  UrlResolved([i \in DOMAIN text |-> UrlElement(text[i])])

\* Nothing in a decoded path has a meaning of its own in a URL: no percent
\* sign, and nothing that the parser skips, cuts off or turns into a slash.
UrlKeeps(path, query) ==
    /\ Range(path) \cap ({"?", "#", "\\"} \cup LineBreaks \cup DOMAIN Decode \cup Undecodable) = {}
    /\ query \/ path[Len(path)] \notin Blanks

\* Mutated: the caller's request id is passed on as it is.
ForwardedIdRaw(c) == c.headers.request_id

ForwardedId(c) == Some(RequestId(c.headers.request_id, "client"))

FirstValue(values) == IF values = <<>> THEN <<>> ELSE <<values[1]>>

(* filtered_headers drops a Cookie the route does not allow.  A resolved   *)
(* purpose replaces every value of the caller's header; of a header left   *)
(* alone, send_upstream passes on the first value only.                    *)
ForwardedHeaders(c) ==
    LET route == The(ClientRoute(c)).route
        resolved == ResolveClientPurpose(route, c.headers)
    IN  [c.headers EXCEPT
            !.purposes = IF resolved = None THEN FirstValue(@) ELSE <<The(resolved)>>,
            !.cookie = @ /\ route.allow_forward_cookie,
            !.request_id = ForwardedId(c)]

\* The request the server connector gets.
ClientMessage(c) ==
    [method |-> c.method, path |-> BuildUrl(The(ClientRoute(c)).upstream_path, c.query),
     headers |-> ForwardedHeaders(c), body |-> c.body]

\* header_value rejects a connector id or purpose from the configuration.
Unencodable(c) ==
    (ClientConfig.connector_id \cup Range(ForwardedHeaders(c).purposes))
        \cap ClientConfig.unencodable # {}

-----------------------------------------------------------------------------
Move(q, state) == st' = [st EXCEPT ![q] = state]

\* The end of proxy_handler: the log line, the answer, the permit.
Answer(q, problem) ==
    /\ Move(q, "done")
    /\ log' = [log EXCEPT ![q] = Some(LogEntry(problem))]
    /\ permits' = permits + 1
    /\ UNCHANGED <<wire, request>>

Init ==
    /\ st = [q \in Requests |-> "new"]
    /\ permits = MaxConcurrent
    /\ call = [q \in Requests |-> None]
    /\ sent = [q \in Requests |-> None]
    /\ log = [q \in Requests |-> None]
    /\ wire = [q \in Requests |-> "none"]
    /\ started = [q \in Requests |-> 0]
    /\ sentAt = [q \in Requests |-> 0]

Arrive(q, c) ==
    /\ st[q] = "new"
    /\ Move(q, "queued")
    /\ call' = [call EXCEPT ![q] = Some(c)]
    /\ UNCHANGED <<permits, wire, log, started, sent, sentAt>>

\* External: ConcurrencyLimitLayer hands out a permit; proxy_handler starts.
Admit(q) ==
    /\ st[q] = "queued" /\ permits > 0
    /\ permits' = permits - 1
    /\ Move(q, "handling")
    /\ started' = [started EXCEPT ![q] = clock]
    /\ UNCHANGED <<wire, log, call, sent, sentAt>>

\* Route and purpose, without an await.
Judge(q) ==
    /\ st[q] = "handling"
    /\ IF ClientProblem(The(call[q])) = NoProblem
       THEN Move(q, "body") /\ UNCHANGED <<permits, log, wire, request>>
       ELSE Answer(q, ClientProblem(The(call[q])))

\* read_limited_body, the URL and the headers, and the send.
BodyArrives(q) ==
    /\ st[q] = "body"
    /\ The(call[q]).body \in {"small", "large"} /\ ~Unencodable(The(call[q]))
    /\ Move(q, "sending")
    /\ sent' = [sent EXCEPT ![q] = Some(ClientMessage(The(call[q])))]
    /\ sentAt' = [sentAt EXCEPT ![q] = clock]
    /\ wire' = [wire EXCEPT ![q] = "flying"]
    /\ UNCHANGED <<permits, log, call, started>>

HeaderFails(q) ==
    /\ st[q] = "body"
    /\ The(call[q]).body \in {"small", "large"} /\ Unencodable(The(call[q]))
    /\ Answer(q, Problem("ConfigInvalid"))

\* Mutated: the body is passed on while its size is still being counted.
BodyFailsStreaming(q) ==
    /\ st[q] = "body" /\ The(call[q]).body = "huge"
    /\ Move(q, "done")
    /\ log' = [log EXCEPT ![q] = Some(LogEntry(Problem("BodyTooLarge")))]
    /\ sent' = [sent EXCEPT ![q] = Some(ClientMessage(The(call[q])))]
    /\ wire' = [wire EXCEPT ![q] = "flying"]
    /\ permits' = permits + 1
    /\ UNCHANGED <<call, started, sentAt>>

BodyFails(q) ==
    /\ st[q] = "body" /\ The(call[q]).body = "huge"
    /\ Answer(q, Problem("BodyTooLarge"))

\* The network delivers, whatever has become of the handler.
ServerReceives(q) ==
    /\ wire[q] = "flying"
    /\ wire' = [wire EXCEPT ![q] = "received"]
    /\ UNCHANGED <<st, permits, log, request>>

\* send returns the head of the server connector's response.
ServerAnswers(q) ==
    /\ st[q] = "sending" /\ wire[q] = "received"
    /\ Move(q, "reading")
    /\ UNCHANGED <<permits, wire, log, request>>

ResponseRead(q) == st[q] = "reading" /\ Answer(q, NoProblem)

\* A refused or broken connection, or a response read_bounded rejects.
UpstreamFails(q) ==
    /\ st[q] \in {"sending", "reading"}
    /\ Answer(q, Problem("UpstreamUnavailable"))

UpstreamExpires(q) ==
    /\ st[q] \in {"sending", "reading"}
    /\ clock >= sentAt[q] + UpstreamTimeout
    /\ Answer(q, Problem("UpstreamUnavailable"))

\* Mutated: only the send runs under the timeout.
RequestExpiresLate(q) ==
    /\ st[q] \in {"sending", "reading"}
    /\ clock >= started[q] + RequestTimeout
    /\ Answer(q, Problem("RequestTimeout"))

RequestExpires(q) ==
    /\ st[q] \in AtAwait
    /\ clock >= started[q] + RequestTimeout
    /\ st[q] # "body" => clock <= sentAt[q] + UpstreamTimeout
    /\ Answer(q, Problem("RequestTimeout"))

\* Mutated: a dropped handler keeps its permit.
DisconnectLeaks(q) ==
    /\ st[q] \in AtAwait \cup {"queued"}
    /\ Move(q, "dropped")
    /\ UNCHANGED <<permits, wire, log, request>>

\* The caller goes away, and nothing is logged.
Disconnect(q) ==
    /\ st[q] \in AtAwait \cup {"queued"}
    /\ Move(q, "dropped")
    /\ permits' = IF st[q] = "queued" THEN permits ELSE permits + 1
    /\ UNCHANGED <<wire, log, request>>

\* The steps of the connector and its callers on their own.
Handler(q) == Judge(q) \/ BodyArrives(q) \/ HeaderFails(q) \/ BodyFails(q) \/ ResponseRead(q)
Timers(q) == UpstreamExpires(q) \/ RequestExpires(q)
Local(q) == Admit(q) \/ Handler(q) \/ Timers(q) \/ UpstreamFails(q) \/ Disconnect(q)

-----------------------------------------------------------------------------
\* What the gate of PolicyGate shows of a request.
GateOutcome(q) ==
    IF st[q] = "dropped" THEN "dropped"
    ELSE IF log[q] = None THEN "open"
    ELSE IF The(log[q]).problem.kind = "RequestTimeout" THEN "timed_out"
    ELSE The(log[q]).outcome

Gate == INSTANCE PolicyGate WITH
    cleared   <- {q \in Requests : sent[q] # None},
    delivered <- {q \in Requests : wire[q] = "received"},
    outcome   <- [q \in Requests |-> GateOutcome(q)]
=============================================================================
