-------------------------- MODULE MCServerConnector --------------------------
(***************************************************************************)
(* Model-checking instance of ServerConnector: one client, two routes and  *)
(* one request shape for each way through handle_server.                   *)
(***************************************************************************)
EXTENDS ServerConnector, SequencesExt

Symmetry == Permutations(Requests)

MCPadded == (" ops" :> "ops")
MCDecode == ("%61" :> "a")
MCSpiffeDomain == ("spiffe://d1/x" :> "d1")
MCLowerCase == ("AB" :> "ab")

Route == [id |-> "r1", methods |-> {"GET"}, upstream_prefix |-> Some(<<"/", "a">>),
          client_identity |-> Some("spiffe://d1/x"), client_identities |-> {},
          require_purpose |-> TRUE, purposes |-> {"ops"}, governed |-> None,
          auth_env |-> Some("T"), forward_client_identity |-> TRUE,
          allow_forward_cookie |-> TRUE]
\* No credential is named for this route, which validation lets pass.
RouteWithoutAuth == [Route EXCEPT !.id = "r2", !.upstream_prefix = Some(<<"/", "b">>),
                                  !.purposes = {}, !.require_purpose = FALSE,
                                  !.auth_env = None]

MCConfig ==
    [trust |-> [anchors |-> {[ca |-> "ca1", trust_domain |-> "d1", dns_identities |-> {}],
                             [ca |-> "ca2", trust_domain |-> "d2", dns_identities |-> {}]},
                allow_dns |-> FALSE, denied |-> {}, allowed |-> {"spiffe://d1/x"},
                entitlements |-> <<>>],
     routes |-> <<Route, RouteWithoutAuth>>,
     default_auth_env |-> None, environment |-> ("T" :> "secret"),
     scheme |-> "Bearer", unencodable |-> {}]

Chain == [sans |-> <<[type |-> "uri", value |-> "spiffe://d1/x"]>>, from |-> 0, until |-> 2,
          client_auth |-> TRUE, fingerprint |-> "ab", issuers |-> {"ca1"}]

Good == [chain |-> Some(Chain), method |-> "GET", path |-> <<"/", "%61">>,
         headers |-> [purposes |-> <<" ops">>, age |-> None, at |-> None,
                      jurisdiction |-> None, assurance |-> None,
                      legal_basis |-> None, consent |-> None, cookie |-> TRUE],
         body |-> "fits"]
TooLarge  == [Good EXCEPT !.body = "too_large"]
Stalling  == [Good EXCEPT !.body = "stalls"]
Anonymous == [Good EXCEPT !.chain = None]
Foreign   == [Good EXCEPT !.chain = Some([Chain EXCEPT !.issuers = {"ca2"}])]
Elsewhere == [Good EXCEPT !.path = <<"/", "c">>]
Unstated  == [Good EXCEPT !.headers.purposes = <<>>]
Unlisted  == [Good EXCEPT !.headers.purposes = <<"ads">>]
NoAuth    == [Good EXCEPT !.path = <<"/", "b">>]

AllInputs == {Good, TooLarge, Stalling, Anonymous, Foreign, Elsewhere, Unstated, Unlisted, NoAuth}
BusyInputs == {Good, Stalling, Unlisted}

(* docs/configuration-reference.md:171: allow_forward_cookie applies to    *)
(* client and server mode and lets a caller's Cookie pass.                 *)
AllowedCookieIsForwarded ==
    \A q \in Requests : \A msg \in sent[q] :
        (RouteOf(q).allow_forward_cookie /\ The(input[q]).headers.cookie) => msg.cookie
=============================================================================
