# A TLA+ model of the registry trust connector

The registry trust connector is a pair of policy proxies. The **client
connector** runs beside an application, matches its requests to routes and
passes them on over mutual TLS. The **server connector** runs in front of Relay:
it authenticates the peer, matches the route, authorizes the data purpose,
applies a rate limit, injects the upstream credential and forwards the request.

This directory models both connectors, alone and together, and the way a process
gets from its configuration file to its listener: TLA+ modules, TLC instances
for them, and TLAPS proofs of the properties that matter most. Source lines are
given for `src/` of the repository; `PROJECT.json` maps each definition to its
lines.

## Inventory

| Part | Code | Module | State |
| --- | --- | --- | --- |
| Request handling, server mode | `proxy.rs` `proxy_handler`, `handle_server`, `send_upstream`, `upstream_auth_header` | `ServerConnector`, `UpstreamAuth`, abstractly `PolicyGate` | checked, safety proved |
| Request handling, client mode | `proxy.rs` `handle_client`, `resolve_client_purpose`, `request_id`, `build_url` | `ClientConnector`, composed in `ConnectorPair`, abstractly `PolicyGate` | checked, safety proved |
| Rate limiter | `proxy.rs` `RequestRateLimiter` | `RateLimiter`, with a log of admissions `RateLimiterLog` | checked, proved |
| Purpose and trust context | `proxy.rs` `authorize_server_purpose` and helpers | `PurposePolicy`, one decision `PurposeDecision` | checked, proved |
| Policy hash and its cache | `proxy.rs` `route_purpose_policy_hash`, `config.rs` `PolicyHashCache` | `PolicyHash` | checked, proved |
| Routing | `routing.rs` | `Routing`, one search `RouteSearch` | checked, proved |
| Peer trust | `tls.rs`, `identity.rs` | `PeerTrust`, one connection `PeerConnection` | checked, proved |
| Listener, server mode | `main.rs` `run_server` | `AcceptLoop` | checked, safety proved |
| Configuration validation | `config.rs` `validate_config` and helpers | `ConfigValidation` | checked, what a start relies on proved |
| Certificate and key files | `identity.rs`, `tls.rs` | `Certificates` | checked, what a start relies on proved |
| Process start, `validate` command | `main.rs`, `proxy.rs` constructors | `Startup` | checked, proved but for one property |
| Problem vocabulary | `errors.rs` | `Problems` | what the logs and the properties tell apart |
| Text values (trimming, blank values) | used everywhere | `Text` | what `str::trim` does |

Libraries that are not in the repository are modelled from how the code uses
them and marked external in the map: the decision point
(`registry_platform_pdp`), the certificate verifier (rustls), the concurrency
limit (tower), the connection driver (hyper), the HTTP client (reqwest), the URL
parser (url).

## How the parts fit together

    Startup               configuration file -> validation -> TLS, state, listener
        |-- ConfigValidation -- Certificates
        v
    ConnectorPair         caller -> client connector -> server connector -> Relay
        |-- ClientConnector  INSTANCEd as Client --- PolicyGate
        `-- ServerConnector  EXTENDed ---------------- PolicyGate
              |-- PeerTrust       identity of the peer, bound to its trust domain
              |-- Routing         the route of identity, method and path
              |-- PurposePolicy   the authorized purpose, or a problem
              |     `-- PolicyHash   the hash recorded with the decision
              |-- UpstreamAuth    the credential for Relay
              |-- RateLimiter     INSTANCEd as RL: its variables are the connector's
              `-- Problems, Text
    AcceptLoop            one permit per connection, timers, keep_alive(false)

    RateLimiterLog        RateLimiter with a log of its admissions
    PurposeDecision       one request meets PurposePolicy, beside a reference
    PeerConnection        one connection meets PeerTrust, beside a reference
    RouteSearch           one path meets a route table, beside a reference

`PeerTrust`, `Routing`, `PurposePolicy`, `UpstreamAuth`, `Certificates` and
`ConfigValidation` are operators without state: the code they model is pure,
given the configuration, the files and a clock reading. Both connectors share
one clock in `ConnectorPair`; each has its own permits, timers, wire and log.
`AcceptLoop` is composed with the server connector by argument only: it assumes
that the router answers every request (fairness of `Answered`), which is part of
`BothSidesEnd`. `Startup` and the connectors share the operators: what
validation promises is stated in terms of what `BoundRoots`, `AuthorizeServerPurpose`
and `LeafValid` will answer at run time.

Conventions. An optional value is a set with at most one element (`None`,
`Some`, `The`). A text is opaque but for trimming: the constant `Padded` maps a
padded spelling to the trimmed one, so code that forgets to trim differs from
code that trims. Names follow the source where TLA+ allows it. An operator whose
comment begins with "Mutated" is a plausible mistake in the definition below it;
`PROJECT.json` names the property that catches it. It takes no part in the
specification.

## The modules

**RateLimiter.** `check` is two steps of a task. `ReadClock` is
`Instant::now()`; `Check` is the critical section. Other tasks run in between,
so a task may enter with a reading older than the window it finds. `Elapsed`
saturates at zero, as `duration_since` does. `admitted`, `opened` and `first`
are history variables. `RateLimiterLog` adds one more, the log of admissions
that counting over an interval needs.

**PurposePolicy.** `AuthorizeServerPurpose` answers the *set* of possible
verdicts: the order in which the decision point looks at its gates is not known,
so any failing gate may be the one reported. If the context has a timestamp but
no usable age, it is also unknown whether the library dates the evidence itself,
so the freshness gate may go either way. A trust scope is a pair of a field and a
value. The gates for requested fact, disclosure, source binding and route
identity always hold, because the connector supplies both sides, and those for
relationship and credential format are given no constraint; they are left out.
`PurposeDecision` lets one request of some client meet one route, and defines,
without scopes and gates, what a permit should mean (`Satisfied`).

**PolicyHash.** `Material` is the text that is hashed, character by character
where it matters: a text may itself contain what the separators and the field
names look like, and each value carries its length. SHA-256 is taken as
injective. `Fields` lists the names and values in the order they are pushed, and
`Written` turns the list into characters, a length before each value.
`WellFormed` is what `validate_config` leaves of a route. A task builds its
material (`BuildMaterial`) before it takes the lock
of the route's one-entry cache (`GetOrCompute`). `Restart` brings another route
under the same id and an empty cache, while the records of decisions stay. The
entitlements take part in decisions and not in the hash; `Restart` keeps them, so
`SameHashSameDecision` is about one list of entitlements.

**Routing.** A path is a sequence of elements, in which an encoded character is
one element; `Decode` gives the character it stands for. A literal percent sign
left by decoding `%25` is not an element, so a second decoding of the path is
out of the model. `RouteSearch` runs the searches of both connectors for one path
and one route table. Its reference knows no string prefixes: it cuts a path into
segments (`SegmentSeq`), calls a path acceptable by what decoding does to its
segments, and says that a prefix covers a path when its segments are the path's
first ones.

**PeerTrust.** A certificate chain is a record of its names, validity, key usage,
fingerprint and the authorities it leads to. `TlsAccepts` is the handshake, which
trusts the union of all anchors. `VerifyPeer` runs for every request.
`PeerConnection` is one connection: a handshake, then requests as time passes.

**ServerConnector.** One request goes through

    new -> queued -> handling -> limiting -> body -> sending -> reading -> done
                                                                   (or dropped)

A handler runs without interruption from one await to the next. `Judge` is
everything from the certificate chain to the clock reading of `check`;
`TakeSlot` is the critical section; `BodyArrives` is everything from the complete
body to the hand-over to the HTTP client, `CredentialFails` the same path when
the upstream credential is missing or cannot stand in a header. A timeout or a
disconnect strikes only at an await: waiting for the body, for the response or
for its body, and, for a disconnect, in the queue. What was handed to the HTTP
client may reach Relay later, even after the handler is gone. Decisions worth
knowing:

- The permit pool of `ConcurrencyLimitLayer` is taken to be one pool for all
  connections and paths. It lies outside the request timeout, so queueing is
  untimed.
- `tokio::time::timeout` polls the handler before its own timer. Once the HTTP
  client's timeout has certainly passed, that one is reported; in the same clock
  unit either may be.
- A caller that goes away drops the handler where it waits; no completion log is
  written.
- An input without a certificate chain is included: the router's interface
  allows it, although the TLS configuration demands a certificate.
- Left out: an identity or request id that is not a valid header value, a URL
  that does not parse, and the missing optional sections of the configuration,
  which `validate_config` excludes. `RouteOf` relies on unique route ids
  (`config.rs:411`), which is the assumption `RouteIdAssumption`.

**ClientConnector.** The same life without `limiting`. `Judge` is the request id,
the route and the purpose; `BodyArrives` builds the message: the rewritten path
as it comes out of the URL again, the filtered headers, the purpose and the
request id; `HeaderFails` is a purpose or id that cannot stand in
a header. A request id is a pair of origin and text, so that a fresh ULID differs
from whatever a caller sends. `build_url` (`proxy.rs:1093`) puts the decoded path
into a text and parses that as a URL. The parser is external and modelled by what
it does to a path: it cuts trailing blanks when no query follows, skips tabs and
line breaks, ends the path at a question mark or hash (`UrlText`), turns
backslashes into slashes, encodes what a URL cannot hold, leaves percent signs
alone (`UrlElement`) and resolves dot segments, encoded ones too (`UrlResolved`).
`UrlKeeps` describes the paths that contain nothing of the kind; the code does
not check it. The caller's `Authorization` header is not among
the headers of the model: the server connector drops it in any case.

**ConnectorPair.** `Deliver` joins the client connector's network step to the
arrival at the server connector, through a handshake the trust anchors accept at
that moment; the body may stall on the way, and what the client connector let
pass may be beyond the server's limit. `Reply` carries the answer back. In
between each side times out, is disconnected and answers on its own: a caller may
be told `request_timeout` while the server connector still sends to Relay.

**PolicyGate.** The abstract specification: a request is cleared before it is
delivered, refused instead of cleared, successful only after delivery, and its
outcome is final. A timeout is an outcome of its own, since it may follow a
clearance although the log says "denied". Both connectors implement it.

**AcceptLoop.** The loop takes a permit, accepts, and hands the permit to the
connection's task. Time is left out: a timer is an action that may fire while it
runs. After the handshake hyper waits for the first bytes to tell HTTP/1 from
HTTP/2. The router's answer (`Answered`) and the end of its transfer
(`ResponseSent`) are two steps: the second waits for a peer that reads, and no
timer runs then. `header_read_timeout` and `keep_alive(false)` concern HTTP/1 only.

**Certificates, ConfigValidation.** The file system is a function from paths to
files; a file has certificates, a key, and says whether it parses and is private.
`ValidateConfig` is the union of the error sets of the checks, one operator per
helper of `config.rs`; an error is a section and a field, without its wording.

**Startup.** `HashConfig`, `Load`, `Validate`, `Warn`, `BuildServerTls`,
`BuildServerState`, `BuildClient` and `Bind` are the steps of a process;
`HashConfig` is only taken by `validate --format json`, which reads the file
twice. `MissingVariableIsAnError` asks for some error where the report lists a
missing variable; the error need not name it. `EditConfig`, `RotateFile` and `Tick` are the world around it and may
happen between any two steps. The product of days and seconds in the expiry
warning wraps at 2^64, as in a release build; a debug build would panic there.

## What TLC checks

| Run | Instance | Distinct states | Shows |
| --- | --- | --- | --- |
| `rate_limiter` | 2 tasks, 2 keys, limit 2, window 2, clock to 3 | 551,415 | rate and burst bounds, no overlapping windows, no refusal without cause or for the traffic of another key |
| `purpose_policy` | every policy of one or two gates, 3 purpose lists, 4 route allowlists, 450 header sets, 3 identities, of which 2 have entitlements, with an age above and below the policy's maximum | 3,350,406 | permits are justified and justified requests permitted; denials name a rule |
| `policy_hash` | 2 tasks, routes that differ in one place each or only in how texts run together, 1 restart | 8,126 | the recorded hash is the deciding route's own; equal hashes mean equal verdicts |
| `routing` | all paths up to 5 elements of 8, a slash, a backslash and a dot among the encoded ones, all pairs of 5 prefixes, 2 upstream prefixes | 468,100 | agreement with a reference on segments; the most specific route wins; the rewrite stays under its prefix |
| `peer_trust` | 2 anchor layouts, chains with up to 2 of 6 names, clock to 2 | 168,984 | the identity is bound to its domain at the time of the request; the rightful peer is known |
| `server_connector` | 2 requests of every shape, 1 permit, limit 1, clock to 3 | 47,377 | all safety properties, the refinements of `PolicyGate` and of `RateLimiter` |
| `accept_loop` | 4 connections (2 HTTP/2), 2 permits | 3,268 | permits conserved; every connection is accepted unless peers hold every permit where no timer runs |
| `startup` | every single edit of a server and a client configuration, all pairs of edits that pass and a third one that may undo another, broken files and environments, all commands; one change of a file at any step, clock to 2 | 1,047,226 | what a configuration that passes guarantees, exactly what it leaves open, and that a failure to start is explained and an expiry announced |
| `pair` | 1 request of every shape through both connectors, clock to 2 | 13,912 | what the caller is told, joined logs, purpose and path on the way, the client connector as a gate |
| `pair_liveness` | 2 requests of 3 shapes, 1 permit on each side, a default purpose that cannot be sent | 42,257 | permits conserved; the handlers of both sides end |
| `purpose_docs`, `server_docs` | as above | | two statements of the documentation that the code does not follow |

**Bounds.** Two window lengths of clock let a window be opened, filled, expired
and replaced, with stale readings from the window before. Two tasks let a
stale reading meet a fresh one. Two policy gates show how gates combine;
the code never relates three. Five elements of path hold two prefixes, a boundary
and a rest. In `server_connector` two requests contend for one permit and one
slot of the rate limit; the clock runs past both timeouts, past the window, and
past the expiry of the certificate. In `policy_hash` a cache of one entry
needs two tasks and one restart to hold an entry that is not the reader's own. In
the pair the client's upstream timeout is longer than its request timeout and
than those of the server, so that every order of the four timers occurs. In
`pair_liveness`, a request that the client connector has given up may still hold
the server connector's only permit when the next one arrives.
`startup` has one edit for each check that can fail; checks are independent
unless an edit is part of a combination, and the combinations are the places
where two sections of a configuration refer to each other. A day has 2 seconds
and a 64-bit number 3 bits, so that the product in the expiry warning wraps.

**Termination.** The pure modules judge one request and stop, so their instances
do not check deadlock; nor do `peer_trust`, whose clock ends, and `policy_hash`,
whose restarts do. All others check it, with explicit steps (`Finished`,
`PairFinished`, `Idle`, `Over`) for the ends they may reach.

**Fairness.** `BothSidesEnd` assumes, in each connector, that the runtime polls a
ready handler, that timers fire, and that the semaphore serves first come, first
served (strong fairness of `Admit`). Nothing is assumed of the other connector,
of callers, of the network or of Relay. `Proceeds` stands for `Judge` and
`TakeSlot`, the only actions that leave `handling` and `limiting`, and
`ClientProceeds` for the client connector's `Judge`; the safety runs, which check
deadlock, show that none gets stuck. The timeouts and the clock bound of the run
are 0: the clock unit is then coarser than the timeouts, and a timer may fire at
any await.
`EveryConnectionIsServed` assumes that the handshake and header timers fire, that
the router answers, and that accept does not fail for ever. Nothing is assumed of
peers: they may send nothing, stop reading, or never close. The property
therefore leaves out the behaviours in which, from some point on, peers hold
every permit in states without a timer (`UpToPeer`): before the first bytes,
while a response is being written, and on HTTP/2 connections.

**Disagreements with the documentation.** `docs/security-model.md:54` promises
`connector.purpose_denied` for a purpose outside the route's list; the code
answers the decision point's own code. `docs/configuration-reference.md:171`
lists `allow_forward_cookie` for server mode, where the code never reads it.

**What validation leaves open.** `RefusingRouteIsExplained` lists, completely for
the instance, why a route of a server that passed validation may refuse every
request. One reason is a DNS identity written with surrounding blanks both among
the allowed identities and at its anchor: validation compares the two as written
(`config.rs:712`), the running server trims one of them (`proxy.rs:219`,
`tls.rs:81`), and no certificate is ever bound. `docs/get-started.md:49` can be
read as saying that validation excludes this.

## What TLAPS proves

The theorems hold for every value of the constants, under the named assumptions
in the modules. TLC evaluates them on the instances. They are:

- limits, windows and permits are positive and timeouts natural, which
  `validate_config` enforces or an unsigned type implies; there are finitely many
  requests and connections;
- route ids are unique (`RouteIdAssumption`, `config.rs:411`) and no two
  entitlements are for the same identity (`EntitlementAssumption`): validation
  refuses both;
- a certificate has a period of validity, and its fingerprint is written in lower
  case, as `sha256_hex` does (`ChainAssumption`, `PeerAssumption`);
- a trusted context has at most one age, and ages, timestamps and maximal ages
  are unsigned or, in a header, do not parse (`DecisionAssumption`);
- header values come in sequence, and the client's `data_purpose` is optional
  (`CallsAssumption`, `PurposeAssumption`);
- a padded text is never the result of trimming, and the empty text has no
  padding (`PaddedAssumption`): `str::trim` leaves nothing to trim;
- different texts have different characters, different numbers are written
  differently, and lengths and ages are bounded as a 64-bit number is
  (`TextsAssumption`); routes are as validation leaves them, so that an optional
  prefix or policy text that is given is not empty, and an identity that was
  authorized is not blank (`RoutesAssumption`);
- paths and prefixes are sequences, and a prefix is optional
  (`PathsAssumption`);
- a slash is an element of paths and not an encoded character, and every prefix of
  a route table decodes (`SearchAssumption`): `validate_route_prefix` refuses any
  other;
- percent-encoding is what it is: the encoding of a character decodes to it, and a
  slash is neither encoded nor an encoding (`UrlAssumption`);
- what the client connector sends is among the inputs of the server connector
  (`InputsAssumption`), so that the composition restricts nothing;
- the numbers of a configuration and the dates in its files are integers
  (`StartupAssumption`).

**RateLimiter_proofs.** `RateInv` is the inductive invariant. `LongRunRate` is
not inductive: it relates admissions to the clock, and what links the two is the
number of windows opened. `RateInv` says that each window but the current one
took at most `Limit` admissions, that the n-th window starts at least n - 1
windows after the first, and that no reading lies in the future. From it follow
`LongRunRateHolds` and, step by step, `WindowsNeverOverlapHolds`.
`LogInv` adds that the log agrees with the count of every window and that the
windows of a key lie `Window` seconds apart. An interval of `Window` seconds then
meets two windows at most, of `Limit` admissions each (`TwoWindows`,
`BurstAtMostTwiceHolds`), and a full window that refuses a request holds the
`Limit` admissions that justify it (`RefusalJustifiedHolds`).

**ServerConnector_proofs.** `HandlerInv` says what each state of a handler
implies about its message, its log entry and its authorization. A request that
waits for its body has an authorization that produced its key and purpose; this
is what makes `SentAsAuthorized` inductive across the awaits. A request
that has not been handed over has no message; this makes `LogTellsRelay`
inductive. Each action touches one request, so the proof splits into one
statement per request (`RequestInv`), the permit count (`PermitInv`) and the
shape of the functions. Results: `HandlerInvariant`, `LogFormHolds`,
`PermitsConservedHolds`, `LogTellsRelayHolds`, `SentAsAuthorizedHolds`,
`EndIsFinalHolds`, and `ImplementsGate`, the refinement of `PolicyGate`, in which
an answer maps to `Succeed`, `Refuse` or `GiveUp` and every quiet step to a
stutter.
The last part says what a grant of `authorize_server_purpose` tells about the
request (`GrantMeaning`, `AuthorizedPurpose`).

**Routing_proofs.** `LongestMeaning` says what the search for the
longest prefix keeps, `CanonicalMeaning` what decoding yields. The theorems
`ServerRouteIsMostSpecific` and `ClientRouteIsMostSpecific` hold for every path
and every route table, valid or not: a route is found exactly when the path and
the prefixes decode and one matches; of two matching prefixes one begins with the
other, and the longer is chosen, among equal ones the first; the client
connector's path lies under the upstream prefix. `ClientPathIsClean` adds that the
rewritten path starts with a slash and has no dot segment. The rewrite joins a
prefix to the rest of the path, so a dot segment could arise where they meet;
`RewriteHasNoDots` shows, from where the segments of the joined path begin and
end, that each one is a segment of the prefix or of the path. `CanonicalIsClean`
says that a path without dot segments and encoded delimiters decodes to itself
once more, and `UrlDecodesBack` that a URL whose elements decode one by one to the
characters of a clean path is accepted as that path.

The second part is about the reference of `RouteSearch`. Positions are counted
off (`RankGrows`, `NthOfRank`), each segment begins where the one before it ended
(`SegmentsFollow`), and so two paths have their first segments in common exactly
when they agree up to the end of the last of them (`SegmentsCompare`). From this
follow `CoversMeaning`, covering is `prefix_matches`, and with the number of
slashes (`EndsAreSlashes`) `AcceptableMeaning`, acceptable is what
`canonical_request_path` answers. `RewriteKeepsNames` follows the segment names
through the join of the rewrite, where a slash may be doubled or left out.
`ServerSearch` and `ClientSearch` put these together for one table and one path.
`SearchInv` only says that the answers are those of the two searches, so
`RoutedWhenCoveredHolds`, `MostSpecificRouteWinsHolds` and
`RewriteLandsUnderUpstreamHolds` rest on the lemmas. No induction over paths is
needed: where one would be natural, the proofs take the least of a set of
positions (`LeastElement`).

**ServerPolicy_proofs.** One lemma for each check of `handle_server` says what
its success guarantees: `VerifiedPeerIsAnchored` (a valid chain to an anchor of
the identity's own domain), `RouteIsAllowed` (a configured route with this method
and identity), `PurposeIsListed` (a purpose on the route's list, whichever gates
the decision point looks at). `RequestIsJustified` combines them. `SendInv` adds
what is known at the hand-over, the complete body and the credential. With
`HandlerInv`, which carries the authorization across the awaits, they give
`RelaySeesOnlyAuthorizedHolds`.

Another part compares the purpose decision with its reference, for any
policies, headers and entitlements. `ScopesAreVouched` says what the intersection
of scopes in `trusted_context_scopes` amounts to, `EvidenceMeaning` and
`FreshnessMeaning` what becomes of age and timestamp headers, `GateMeaning` when
each gate holds. `DecisionInv` only says that a verdict is one the code can give,
so the theorems rest on those lemmas: `PermitIsJustifiedHolds` (no gate lets more
through than `Satisfied`), `JustifiedIsPermittedHolds` (nor less) and
`DenialsNameTheirRuleHolds`.

The rest is about the rate limiter inside the connector. `PermittedKey`
shows that `check` is only called with an allowlisted identity and a configured
route; `ImplementsLimiter` is the refinement of `RateLimiter`. The theorems of
`RateLimiter_proofs` are then instantiated. `SlotsInv`, by counting, says that
the requests past `check` are at most as many as were admitted: `TakeSlot` adds
one to both sides, a later failure only takes away from the left. From both
follows `RelayRateBoundedHolds`. `TypeInv` completes the types of the server
connector, for which the invariants above and the refinement are needed: a
message carries a purpose of its request, a secret of the environment and an
allowlisted identity (`TypeOKHolds`).

**PolicyHash_proofs.** `CacheInv` says that material under way is the current
route's and that a cached hash belongs to the cached material: `CacheInvariant`,
`RecordedHashIsOwnHolds`. `SameHashSameDecisionHolds` needs in addition that the
hashed text can be read in one way only (`FieldsAreRead`): where two lists of
fields are written alike up to a field, both texts show the same name and length
next, and with them the same value. `SameFieldsSameDeciding` goes from equal
fields to equal settings: each setting has a name of its own, but for
`client_identity`, which the one and the many share, as they do when a route is
matched. `SameDecidingDecideAlike` says that a decision depends on those settings
only. Together they are `SameMaterialDecideAlike`. Inductions are over the
naturals or over finite sets (`SetInduction`), with the property given as a set.

**ConnectorPair_proofs.** `PairInv` relates, for one request, the state at the
client connector to its call, its message, its log entry and the state at the
server connector; for instance, a client handler that reads an answer implies
that the server handler has finished, and the headers and the path the server
connector got are those made from the call. `PairImplementsServer` shows that
every step of the pair is a step or a stutter of `ServerConnector`, so all
theorems about the server connector hold of it in the pair.
`ImplementsClientGate` is the refinement of `PolicyGate` by the client connector;
there `Deliver` of the pair is what delivers, and success is sound because a
server handler that has finished was given the message.
`LogsShareRequestIdHolds` follows from the headers of the message.

**EndToEnd_proofs.** The theorems that need both connectors. With
`PairImplementsServer`, `HandlerInv` and `LogFormHolds` give
`CallerIsToldTheTruthHolds`. `ClientPermitsConservedHolds` counts permits as for
the server. `PurposeTravelsHolds` follows from the headers of the message, what
trimming does to them on each side, and `AuthorizedPurpose`. `PathTravelsHolds`
joins the two connectors' routing: `ClientRouting` carries the route theorems
over to the client connector's instance and puts the rewritten path under the
upstream prefix. `UrlOfKeptPath` says that the URL parser changes a path within
`UrlKeeps` only by encoding characters: nothing is skipped or cut off, and there
is no dot segment to resolve, since the rewrite leaves none. `MessageKeepsPath`
concludes that the server connector decodes that very path. What goes on to
Relay, whatever the path, is under the prefix of the server's route by
`AuthorizedPath`.

**Process_proofs.** For `Startup`, `StartInv` is the inductive invariant. What
validation establishes is not preserved as it stands, because files may be
rotated and the configuration edited between any two steps. It splits into what a
rotation puts in question (`StillValid`, `Outlives`), which holds as long as
`seen` is set, the time of the validation that a rotation clears, and what it
does not (`Anchored`). `FailuresExplained` is the list of reasons for which a
process that passed validation may still stop. One lemma per step shows that each
keeps the invariant; `MarginIsExact` says when the wrapping product in the expiry
warning is the true one. `ValidatedStarts` leaves five causes: a taken address, a
Unix socket address, a limit beyond what a semaphore takes, a server's trust
anchor that passes validation and that `RootCertStore::add` refuses
(`tls.rs:151`), and the content of a client's trust bundle, which validation does
not read. Results: `ValidatedStartsHolds`,
`AllowedIdentitiesAreAnchoredHolds`, `MissingVariableIsAnErrorHolds`,
`NoSilentExpiryHolds`.

For `AcceptLoop` the invariant joins the types to `ConnectionPermits`; the
lemma `MoveCounts` says how the number of owners changes when one connection
changes its state. Results: `TypeOKHolds`, `ConnectionPermitsHold`.

For `PeerConnection`, `PeerInv` says that the recorded identity is what
`verify_peer` answered when the request was judged, not when the connection was
opened, and that an open connection has passed the handshake. With
`ExtractedName` (which name of the leaf is chosen), `BoundIsAnchored` and
`DenylistMeaning` it gives `PeerIsBoundHolds` and the action property
`RightfulPeerIsKnownHolds`.

**Only model-checked.**

- `BothSidesEnd` and `EveryConnectionIsServed`: liveness under fairness is out of
  the prover's reach.
- `RefusingRouteIsExplained`: it asks whether any of the instance's own probe
  requests gets through a route, so it is a statement about the instance.

## Not modelled

- **The configuration file format**: struct definitions, defaults and serde
  attributes. Parsing is external; a configuration is the record it yields.
- **Argument parsing and the layout of reports**: sequential input and output
  without state.
- **Log redaction**: keyed hashes of log lines and the subscriber setup are
  cryptography and output. `Startup` has how the audit key is obtained.
- **Titles and wording of problems**; `Problems` has kinds, statuses, outcomes
  and stages.
- **PEM and DER parsing**: `Certificates` starts from what a file holds.
- **URLs beyond the path of a request between the connectors.** `BuildUrl` models
  what `Url::parse` does to a path. Only `PathTravels` depends on it, and outside
  `UrlKeeps` it claims nothing of how the path the client connector rewrote and
  the path the server connector received relate; the parser may change such a
  path. The server connector builds the URL for Relay with the same function from
  the path it decided on. That URL is not part of its `Message`, so no property
  is about the path Relay reads.
- **The content of queries**: a call has one or not.
- **The two reads of `validate --format json`** (`main.rs:153`) are both
  modelled and may see different files; no document says which one the reported
  hash describes, so no property is stated.
- **Debug builds**, in which an overflowing product panics, and panics in
  libraries.
