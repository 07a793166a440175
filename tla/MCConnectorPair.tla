--------------------------- MODULE MCConnectorPair ---------------------------
(***************************************************************************)
(* Model-checking instance of ConnectorPair: a client configuration with   *)
(* one route for each source of the purpose, and a server configuration    *)
(* with a route that lists purposes and one that does not.                 *)
(***************************************************************************)
EXTENDS ConnectorPair, SequencesExt

MCPadded == (" ops" :> "ops") @@ (" " :> "")
MCDecode == ("%20" :> " " @@ "%3F" :> "?" @@ "%25" :> "%")
MCUrlEncode == (" " :> "%20")
MCSpiffeDomain == ("spiffe://d1/x" :> "d1")
MCLowerCase == ("AB" :> "ab")

ServerRoute == [id |-> "r1", methods |-> {"GET"}, upstream_prefix |-> Some(<<"/", "a">>),
                client_identity |-> Some("spiffe://d1/x"), client_identities |-> {},
                require_purpose |-> TRUE, purposes |-> {"ops"}, governed |-> None,
                auth_env |-> Some("T"), forward_client_identity |-> TRUE,
                allow_forward_cookie |-> FALSE]

MCConfig ==
    [trust |-> [anchors |-> {[ca |-> "ca1", trust_domain |-> "d1", dns_identities |-> {}]},
                allow_dns |-> FALSE, denied |-> {}, allowed |-> {"spiffe://d1/x"},
                entitlements |-> <<>>],
     routes |-> <<ServerRoute,
                  [ServerRoute EXCEPT !.id = "r2", !.upstream_prefix = Some(<<"/", "b">>),
                                      !.purposes = {}, !.require_purpose = FALSE]>>,
     default_auth_env |-> None, environment |-> ("T" :> "secret"),
     scheme |-> "Bearer", unencodable |-> {}]

Chain == [sans |-> <<[type |-> "uri", value |-> "spiffe://d1/x"]>>, from |-> 0, until |-> 1,
          client_auth |-> TRUE, fingerprint |-> "ab", issuers |-> {"ca1"}]

\* The local prefixes are /s, /o, /f and /d.
Static == [id |-> "static", methods |-> {"GET"}, local_prefix |-> Some(<<"/", "s">>),
           upstream_prefix |-> Some(<<"/", "a", "/">>), require_purpose |-> TRUE,
           purpose_source |-> Some("StaticRouteDefault"), allow_forward_cookie |-> FALSE]
Own    == [Static EXCEPT !.id = "own", !.local_prefix = Some(<<"/", "o", "/">>),
                         !.purpose_source = Some("ClientProvided"), !.allow_forward_cookie = TRUE]
Free   == [Static EXCEPT !.id = "free", !.local_prefix = Some(<<"/", "f", "/">>),
                         !.upstream_prefix = Some(<<"/", "b">>),
                         !.require_purpose = FALSE, !.purpose_source = None]
Denied == [Static EXCEPT !.id = "denied", !.local_prefix = Some(<<"/", "d">>),
                         !.purpose_source = None]

MCClientConfig == [routes |-> <<Static, Own, Free, Denied>>, data_purpose |-> Some(" ops"),
                   connector_id |-> Some("c"), unencodable |-> {}]
\* The default purpose cannot be a header value, which validation lets pass.
MCClientConfigOdd == [MCClientConfig EXCEPT !.data_purpose = Some("odd"), !.unencodable = {"odd"}]

OwnCall == [method |-> "GET", path |-> <<"/", "o", "/", "%20", "x">>, query |-> FALSE,
            headers |-> [purposes |-> <<" ops", "ads">>, age |-> None, at |-> None,
                         jurisdiction |-> None, assurance |-> None, legal_basis |-> None,
                         consent |-> None, cookie |-> TRUE, request_id |-> Some(<<"given", "i1">>)],
            body |-> "small"]
StaticCall == [OwnCall EXCEPT !.path = <<"/", "s">>, !.headers.purposes = <<"ads">>,
                              !.headers.request_id = None]
FreeCall   == [OwnCall EXCEPT !.path = <<"/", "f", "/", "x">>, !.headers.purposes = <<" ", "ads">>,
                              !.headers.request_id = Some(<<"given", "not an id">>)]
Stated     == [FreeCall EXCEPT !.headers.purposes = <<"ads">>]
Silent     == [FreeCall EXCEPT !.headers.purposes = <<>>]
Unlisted   == [OwnCall EXCEPT !.headers.purposes = <<"ads">>]
Blank      == [OwnCall EXCEPT !.headers.purposes = <<" ">>]
DeniedCall == [OwnCall EXCEPT !.path = <<"/", "d">>]
Elsewhere  == [OwnCall EXCEPT !.path = <<"/", "x">>]
Unmatched  == [StaticCall EXCEPT !.method = "PUT"]
Large      == [OwnCall EXCEPT !.body = "large"]
Huge       == [OwnCall EXCEPT !.body = "huge"]
Stalling   == [OwnCall EXCEPT !.body = "stalls"]

\* Names with characters that mean something to a URL parser.
Question   == [OwnCall EXCEPT !.path = <<"/", "o", "/", "x", "%3F">>]
Percent    == [OwnCall EXCEPT !.path = <<"/", "o", "/", "x", "%25">>]
Trailing   == [OwnCall EXCEPT !.path = <<"/", "o", "/", "%20">>]
Queried    == [Trailing EXCEPT !.query = TRUE]

AllCalls == {OwnCall, StaticCall, FreeCall, Stated, Silent, Unlisted, Blank, DeniedCall,
             Elsewhere, Unmatched, Large, Huge, Stalling, Question, Percent, Trailing, Queried}
BusyCalls == {OwnCall, StaticCall, FreeCall}

MCInputs(calls) ==
    {Received(Client!ClientMessage(c), body) :
        c \in {d \in calls : Client!ClientProblem(d) = NoProblem}, body \in {"arrives", "stalls"}}
AllInputs == MCInputs(AllCalls)

\* The same for BusyCalls, written out because TLC evaluates it often.
OwnMessage == [OwnCall EXCEPT !.path = <<"/", "a", "/", "%20", "x">>, !.headers.purposes = <<" ops">>]
StaticMessage == [StaticCall EXCEPT !.path = <<"/", "a", "/">>, !.headers.purposes = <<" ops">>,
                                    !.headers.cookie = FALSE,
                                    !.headers.request_id = Some(<<"ulid", "client">>)]
FreeMessage == [FreeCall EXCEPT !.path = <<"/", "b", "/", "x">>, !.headers.purposes = <<" ">>,
                                !.headers.cookie = FALSE,
                                !.headers.request_id = Some(<<"ulid", "client">>)]
BusyInputs == {Received(m, body) : m \in {OwnMessage, StaticMessage, FreeMessage},
                                   body \in {"arrives", "stalls"}}
=============================================================================
