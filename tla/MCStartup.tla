------------------------------ MODULE MCStartup ------------------------------
(***************************************************************************)
(* Model-checking instance of Startup: a valid server configuration and a  *)
(* valid client configuration, every edit of one place in them that some   *)
(* check is about, and pairs of the edits that work together.              *)
(***************************************************************************)
EXTENDS Startup, SequencesExt

MCPadded == (" " :> "" @@ " ops" :> "ops" @@ " ZZ" :> "ZZ" @@ " h" :> "h"
             @@ "spiffe://d1/x " :> "spiffe://d1/x")
MCDecode == ("%61" :> "a")
MCSpiffeDomain == ("spiffe://d1/x" :> "d1" @@ "spiffe://d1/x " :> "d1" @@ "spiffe://d3/y" :> "d3")
MCLowerCase == ("TE" :> "te")
MCAssuranceMeets == {}

Leaf(key, usage, until) == [key |-> key, from |-> 0, until |-> until, usages |-> {usage},
                            ca |-> None, signs |-> None, anchor |-> TRUE]
Ca == [key |-> "c", from |-> 0, until |-> 9, usages |-> {}, ca |-> Some(TRUE), signs |-> None,
       anchor |-> TRUE]
RefusedCa == [Ca EXCEPT !.anchor = FALSE]
CertFile(certs) == [certs |-> certs, key |-> None, parses |-> TRUE, private |-> FALSE]
KeyFile(key) == [certs |-> <<>>, key |-> Some(key), parses |-> TRUE, private |-> TRUE]
Garbage == [certs |-> <<>>, key |-> None, parses |-> FALSE, private |-> TRUE]
BaseFiles == ("s.crt" :> CertFile(<<Leaf("s", "ServerAuth", 4)>>) @@ "s.key" :> KeyFile("s")
              @@ "c.crt" :> CertFile(<<Leaf("c", "ClientAuth", 4)>>) @@ "c.key" :> KeyFile("c")
              @@ "ca1" :> CertFile(<<Ca>>) @@ "ca2" :> CertFile(<<Ca>>)
              @@ "bundle" :> CertFile(<<Ca>>))
BaseEnv == ("T" :> "token" @@ "A" :> "long audit secret")

-----------------------------------------------------------------------------
Context == [EmptyContext EXCEPT !.jurisdiction = Some("ZZ"), !.consent = Some("yes")]
Governed == [EmptyPolicy EXCEPT !.permitted_jurisdictions = {"ZZ"}, !.require_consent = TRUE]
R1 == [id |-> "r1", methods |-> {"GET"}, local_prefix |-> Some(<<"/", "a">>),
       upstream_prefix |-> Some(<<"/", "a">>), client_identity |-> Some("spiffe://d1/x"),
       client_identities |-> {}, require_purpose |-> TRUE, purpose_source |-> None,
       purposes |-> {"ops"}, governed |-> None, auth_env |-> Some("T")]
R2 == [R1 EXCEPT !.id = "r2", !.upstream_prefix = Some(<<"/", "b">>), !.client_identity = None,
                 !.client_identities = {"h"}, !.purposes = {}, !.require_purpose = FALSE,
                 !.governed = Some(Governed)]
Base == [listen |-> [tcp |-> TRUE, loopback |-> TRUE], allow_non_loopback |-> FALSE,
         server |-> None, client_identity |-> None, server_identity |-> None,
         client_trust |-> None, upstream |-> None, allow_dns |-> TRUE,
         data_purpose |-> None, audit_env |-> Some("A"), allow_unkeyed |-> FALSE,
         limits |-> [f \in PositiveLimits |-> 1], expiry_warning_days |-> 1,
         routes |-> <<R1, R2>>]
ServerBase ==
    [Base EXCEPT
        !.server_identity = Some([cert |-> "s.crt", key |-> "s.key"]),
        !.client_trust = Some(
            [anchors |-> {[ca |-> "ca1", trust_domain |-> "d1", dns_identities |-> {}],
                          [ca |-> "ca2", trust_domain |-> "d2", dns_identities |-> {"h"}]},
             allowed |-> {"spiffe://d1/x", "h"}, denied |-> {},
             entitlements |-> <<[client_identity |-> "h", trusted_context |-> Context]>>]),
        !.upstream = Some([root_path |-> TRUE, default_auth_env |-> None,
                           auth_header_name |-> "authorization", scheme |-> "Bearer"])]
ClientBase ==
    [Base EXCEPT !.server = Some([https |-> TRUE, root_path |-> TRUE, trust_bundle |-> "bundle"]),
                 !.client_identity = Some([cert |-> "c.crt", key |-> "c.key"]),
                 !.data_purpose = Some("ops"),
                 !.routes = <<[R1 EXCEPT !.purpose_source = Some("StaticRouteDefault")]>>]

-----------------------------------------------------------------------------
\* Records inside optional sections are edited through these.
Trust(c) == The(c.client_trust)
WithTrust(c, t) == [c EXCEPT !.client_trust = Some(t)]
WithUpstream(c, u) == [c EXCEPT !.upstream = Some(u)]
WithPolicy(c, p) == [c EXCEPT !.routes[2].governed = Some(p)]
Policy2(c) == IF c.routes[2].governed = None THEN EmptyPolicy ELSE The(c.routes[2].governed)

\* Edits that pass validation, or decide about each other.
ServingEdits == {"unnamed_credential", "default_credential", "bad_scheme", "padded_purpose",
    "no_purposes", "disjoint_purposes", "redaction", "odrl_term", "padded_jurisdiction",
    "no_entitlement", "other_context", "shadowing", "shared_prefix", "padded_dns",
    "padded_spiffe", "both_identities", "undecodable_prefix", "ungoverned", "no_dns"}
RefusedEdits == {"no_server_identity", "no_client_trust", "no_upstream", "no_routes", "zero_limit",
    "no_audit", "blank_audit", "duplicate_id", "no_methods", "blank_purpose", "missing_variable",
    "missing_default", "unlisted_identity", "no_gate", "duplicate_entitlement",
    "unlisted_entitlement", "empty_entitlement", "hop_by_hop", "private_header", "upstream_path",
    "blank_domain", "missing_anchor", "no_anchors", "fingerprint", "foreign_domain",
    "no_identities", "stale_age"}
OtherEdits == {"unix", "huge_requests", "huge_connections", "negative_days", "many_days",
               "wrapping_days"}

EditServing(e, c) ==
    CASE e = "unnamed_credential" -> [c EXCEPT !.routes[1].auth_env = None]
      [] e = "default_credential" -> WithUpstream(c, [The(c.upstream) EXCEPT !.default_auth_env = Some("T")])
      [] e = "bad_scheme" -> WithUpstream(c, [The(c.upstream) EXCEPT !.scheme = "a\nb"])
      [] e = "padded_purpose" -> [c EXCEPT !.routes[1].purposes = {" ops"}]
      [] e = "no_purposes" -> [c EXCEPT !.routes[1].purposes = {}]
      [] e = "disjoint_purposes" ->
           [c EXCEPT !.routes[1].governed = Some([EmptyPolicy EXCEPT !.permitted_purposes = {"ads"}])]
      [] e = "redaction" -> WithPolicy(c, [Policy2(c) EXCEPT !.redaction_fields = {"name"}])
      [] e = "odrl_term" -> WithPolicy(c, [Policy2(c) EXCEPT !.unsupported_odrl_terms = {"count"}])
      [] e = "padded_jurisdiction" -> WithPolicy(c, [Policy2(c) EXCEPT !.permitted_jurisdictions = {" ZZ"}])
      [] e = "no_entitlement" -> WithTrust(c, [Trust(c) EXCEPT !.entitlements = <<>>])
      [] e = "other_context" ->
           WithPolicy(c, [Policy2(c) EXCEPT !.trusted_context.consent = Some("other")])
      [] e = "shadowing" -> [c EXCEPT !.routes = <<R1, [R2 EXCEPT !.upstream_prefix = R1.upstream_prefix,
                                                  !.client_identities = {"spiffe://d1/x"}]>>]
      [] e = "shared_prefix" -> [c EXCEPT !.routes[2].upstream_prefix = Some(<<"/", "%61">>)]
      [] e = "padded_dns" -> WithTrust(c, [Trust(c) EXCEPT !.allowed = {"spiffe://d1/x", " h"},
                                   !.anchors = {[a EXCEPT !.dns_identities = {" h"}] : a \in Trust(c).anchors}])
      [] e = "padded_spiffe" -> WithTrust(c, [Trust(c) EXCEPT !.allowed = {"spiffe://d1/x ", "h"}])
      [] e = "both_identities" -> [c EXCEPT !.routes[2].client_identity = Some("spiffe://d1/x ")]
      [] e = "undecodable_prefix" -> [c EXCEPT !.routes[2].upstream_prefix = Some(<<"/", "%zz">>)]
      [] e = "ungoverned" -> [c EXCEPT !.routes[2].governed = None]
      [] e = "no_dns" -> [c EXCEPT !.allow_dns = FALSE]
EditRefused(e, c) ==
    CASE e = "no_server_identity" -> [c EXCEPT !.server_identity = None]
      [] e = "no_client_trust" -> [c EXCEPT !.client_trust = None]
      [] e = "no_upstream" -> [c EXCEPT !.upstream = None]
      [] e = "no_routes" -> [c EXCEPT !.routes = <<>>]
      [] e = "zero_limit" -> [c EXCEPT !.limits["request_timeout_seconds"] = 0]
      [] e = "no_audit" -> [c EXCEPT !.audit_env = None]
      [] e = "blank_audit" -> [c EXCEPT !.audit_env = Some(" ")]
      [] e = "duplicate_id" -> [c EXCEPT !.routes[2].id = "r1"]
      [] e = "no_methods" -> [c EXCEPT !.routes[1].methods = {}]
      [] e = "blank_purpose" -> [c EXCEPT !.routes[1].purposes = {" ", "ops"}]
      [] e = "missing_variable" -> [c EXCEPT !.routes[2].auth_env = Some("M")]
      [] e = "missing_default" -> WithUpstream(c, [The(c.upstream) EXCEPT !.default_auth_env = Some("M")])
      [] e = "unlisted_identity" -> [c EXCEPT !.routes[1].client_identities = {"z"}]
      [] e = "no_gate" -> WithPolicy(c, EmptyPolicy)
      [] e = "stale_age" -> WithPolicy(c, [Policy2(c) EXCEPT !.max_source_age = Some(0)])
      [] e = "duplicate_entitlement" ->
           WithTrust(c, [Trust(c) EXCEPT !.entitlements = @ \o <<[@[1] EXCEPT !.client_identity = " h"]>>])
      [] e = "unlisted_entitlement" ->
           WithTrust(c, [Trust(c) EXCEPT !.entitlements[1].client_identity = "z"])
      [] e = "empty_entitlement" ->
           WithTrust(c, [Trust(c) EXCEPT !.entitlements[1].trusted_context = EmptyContext])
      [] e = "hop_by_hop" -> WithUpstream(c, [The(c.upstream) EXCEPT !.auth_header_name = "TE"])
      [] e = "private_header" ->
           WithUpstream(c, [The(c.upstream) EXCEPT !.auth_header_name = "x-registry-connector-id"])
      [] e = "upstream_path" -> WithUpstream(c, [The(c.upstream) EXCEPT !.root_path = FALSE])
      [] e = "blank_domain" ->
           WithTrust(c, [Trust(c) EXCEPT !.anchors = {[a EXCEPT !.trust_domain = " "] : a \in @}])
      [] e = "missing_anchor" -> WithTrust(c, [Trust(c) EXCEPT !.anchors = {[a EXCEPT !.ca = "ca3"] : a \in @}])
      [] e = "no_anchors" -> WithTrust(c, [Trust(c) EXCEPT !.anchors = {}])
      [] e = "fingerprint" -> WithTrust(c, [Trust(c) EXCEPT !.denied = {"xyz"}])
      [] e = "foreign_domain" -> WithTrust(c, [Trust(c) EXCEPT !.allowed = @ \cup {"spiffe://d3/y"}])
      [] e = "no_identities" -> [c EXCEPT !.routes[1].client_identity = None]

EditOther(e, c) ==
    CASE e = "unix" -> [c EXCEPT !.listen.tcp = FALSE]
      [] e = "huge_requests" -> [c EXCEPT !.limits["max_concurrent_requests"] = MaxPermits + 1]
      [] e = "huge_connections" -> [c EXCEPT !.limits["max_concurrent_connections"] = MaxPermits + 1]
      [] e = "negative_days" -> [c EXCEPT !.expiry_warning_days = -1]
      [] e = "many_days" -> [c EXCEPT !.expiry_warning_days = 2]
      [] e = "wrapping_days" -> [c EXCEPT !.expiry_warning_days = 4]

ClientEdits == {"no_server", "http", "server_path", "no_bundle", "no_client_identity", "open_listen",
                "no_default_purpose", "no_local_prefix", "server_key", "server_cert"}
EditClient(e, c) ==
    CASE e = "no_server" -> [c EXCEPT !.server = None]
      [] e = "http" -> [c EXCEPT !.server = Some([The(@) EXCEPT !.https = FALSE])]
      [] e = "server_path" -> [c EXCEPT !.server = Some([The(@) EXCEPT !.root_path = FALSE])]
      [] e = "no_bundle" -> [c EXCEPT !.server = Some([The(@) EXCEPT !.trust_bundle = ""])]
      [] e = "no_client_identity" -> [c EXCEPT !.client_identity = None]
      [] e = "open_listen" -> [c EXCEPT !.listen.loopback = FALSE]
      [] e = "no_default_purpose" -> [c EXCEPT !.data_purpose = Some(" ")]
      [] e = "no_local_prefix" -> [c EXCEPT !.routes[1].local_prefix = None]
      [] e = "server_key" -> [c EXCEPT !.client_identity = Some([The(@) EXCEPT !.key = "s.key"])]
      [] e = "server_cert" -> [c EXCEPT !.client_identity = Some([cert |-> "s.crt", key |-> "s.key"])]

File(c) == [readable |-> TRUE, config |-> Some(c)]
Unreadable == {[readable |-> FALSE, config |-> None], [readable |-> TRUE, config |-> None]}
Served1 == {EditServing(e, ServerBase) : e \in ServingEdits}
Served2 == {EditServing(e, c) : e \in ServingEdits, c \in Served1}
\* A third edit that may undo, or be undone by, what two others did.
Served3 == {EditServing(e, c) : e \in {"default_credential", "other_context", "ungoverned"}, c \in Served2}
Refused1 == {EditRefused(e, c) : e \in RefusedEdits, c \in {ServerBase}}
Others == {EditOther(e, c) : e \in OtherEdits, c \in {ServerBase, ClientBase}}
Clients == {EditClient(e, ClientBase) : e \in ClientEdits}
Combined == [ServerBase EXCEPT !.server = ClientBase.server, !.client_identity = ClientBase.client_identity]
Singles == {ServerBase, ClientBase, Combined} \cup Served1 \cup Refused1 \cup Others \cup Clients

BrokenFiles ==
    {[BaseFiles EXCEPT !["ca2"] = f] : f \in
        {Garbage, CertFile(<<>>), CertFile(<<Ca, Ca>>), CertFile(<<[Ca EXCEPT !.ca = Some(FALSE)]>>),
         CertFile(<<[Ca EXCEPT !.signs = Some(FALSE)]>>), CertFile(<<RefusedCa>>)}}
    \cup {[BaseFiles EXCEPT !["s.crt"] = f] : f \in
        {CertFile(<<>>), CertFile(<<Leaf("s", "ClientAuth", 4)>>), CertFile(<<Leaf("s", "ServerAuth", -1)>>)}}
    \cup {[BaseFiles EXCEPT !["s.key"].private = FALSE], [BaseFiles EXCEPT !["s.key"] = KeyFile("c")],
          [BaseFiles EXCEPT !["bundle"] = Garbage], [BaseFiles EXCEPT !["bundle"] = CertFile(<<>>)],
          [BaseFiles EXCEPT !["bundle"] = CertFile(<<Ca, RefusedCa>>)]}
MCWorlds ==
    {[files |-> f, env |-> BaseEnv] : f \in {BaseFiles} \cup BrokenFiles}
    \cup {[files |-> BaseFiles, env |-> e] : e \in
           {("T" :> "token"), ("A" :> "long audit secret"), [BaseEnv EXCEPT !["T"] = " "],
            [BaseEnv EXCEPT !["T"] = "a\nb"], [BaseEnv EXCEPT !["A"] = "short"]}}

Run(name) == [name |-> name, mode |-> None, require_env |-> FALSE, json |-> FALSE]
MCCommands == {Run("server"), Run("client")}
    \cup [name : {"validate"}, mode : {None, Some("server")}, require_env : BOOLEAN, json : BOOLEAN]
MCRotated == {CertFile(<<Leaf("s", "ServerAuth", 8)>>), KeyFile("n"), CertFile(<<Ca>>), Garbage}
Case(cmd, d, w) == [command |-> cmd, disk |-> d, files |-> w.files, env |-> w.env]
BaseWorld == [files |-> BaseFiles, env |-> BaseEnv]
\* Every single edit under every command, broken files and environments under
\* the unedited configurations, and up to three edits for the server command.
AllCases ==
    {Case(cmd, d, BaseWorld) : cmd \in MCCommands, d \in {File(c) : c \in Singles} \cup Unreadable}
    \cup {Case(cmd, File(c), w) : cmd \in MCCommands, w \in MCWorlds,
                                 c \in {ServerBase, ClientBase, EditRefused("missing_default", ServerBase)}}
    \cup {Case(Run("server"), File(c), BaseWorld) : c \in Served2 \cup Served3}
\* What another process may leave in place of the configuration file.
EditedFiles == {File(c) : c \in {ServerBase, ClientBase, EditOther("many_days", ServerBase)}} \cup Unreadable
-----------------------------------------------------------------------------
\* A request with every proof this instance knows of.
Proofs(purpose) == [purposes |-> <<purpose>>, jurisdiction |-> Some("ZZ"), consent |-> Some("yes"),
                    legal_basis |-> None, assurance |-> None, age |-> None, at |-> None]

\* Some client the route names can get some request through the connector.
Serves(i) ==
    LET route == config.routes[i]
        trust == ServerTrust(config)
    IN  /\ AuthProblem(RuntimeConfig(config, env), route) = NoProblem
        /\ \E id \in RouteClientIdentities(route), m \in route.methods, p \in {"ops", "ads"} :
              /\ BoundRoots(trust, id) # {}
              /\ \E match \in FindServerRoute(config.routes, m, The(route.upstream_prefix), id) :
                    match.route = route
              /\ \E v \in AuthorizeServerPurpose(route, Proofs(p), trust.entitlements, id, 0) : v.ok

NoCredential(route) == route.auth_env = None /\ The(config.upstream).default_auth_env = None

\* No purpose a client can state: a header value is trimmed, a list is not.
NoPurpose(route) ==
    LET lists == {route.purposes, PolicyOf(route).permitted_purposes} \ {{}}
    IN  IF lists = {} THEN route.require_purpose
        ELSE ~\E p \in UNION lists : Trim(p) = p /\ \A list \in lists : p \in list

NeverPermits(policy) == policy.redaction_fields # {} \/ policy.unsupported_odrl_terms # {}

\* What the client's entitlement grants and the route does not rule out.
Provable(route, id, field) ==
    LET grants == {e.trusted_context[field] : e \in
                    {x \in ToSet(Trust(config).entitlements) : Trim(x.client_identity) = id}}
        own == PolicyOf(route).trusted_context
    IN  {v \in UNION grants : Trim(v) = v /\ (own = EmptyContext \/ v \in own[field])}

Unprovable(route, id) ==
    \/ PolicyOf(route).require_consent /\ Provable(route, id, "consent") = {}
    \/ /\ PolicyOf(route).permitted_jurisdictions # {}
       /\ PolicyOf(route).permitted_jurisdictions \cap Provable(route, id, "jurisdiction") = {}

\* An earlier route takes the client's requests under the same prefix.
Shadowed(i, id) ==
    \E j \in 1..(i - 1) :
        /\ CanonicalRequestPath(The(config.routes[j].upstream_prefix))
              = CanonicalRequestPath(The(config.routes[i].upstream_prefix))
        /\ id \in RouteClientIdentities(config.routes[j])

BoundOnlyPadded(id) == TrustDomain(id) = None /\ id \notin UNION {a.dns_identities : a \in Trust(config).anchors}

(* What validation leaves open, completely: a route of a listening server  *)
(* refuses every request exactly when no credential is named for it, its   *)
(* scheme cannot stand in a header, no purpose satisfies its lists, its    *)
(* policy never permits, or each of its clients is shadowed by an earlier  *)
(* route, is bound to an anchor in padded spelling only, or has no         *)
(* entitlement that can prove what the policy asks for.                    *)
RefusingRouteIsExplained ==
    (phase = "listening" /\ Mode = "server") =>
        \A i \in DOMAIN config.routes :
            LET route == config.routes[i]
            IN  Serves(i) <=> ~(\/ NoCredential(route)
                                \/ The(config.upstream).scheme \in Malformed
                                \/ NoPurpose(route)
                                \/ NeverPermits(PolicyOf(route))
                                \/ \A id \in RouteClientIdentities(route) :
                                      Shadowed(i, id) \/ BoundOnlyPadded(id) \/ Unprovable(route, id))
=============================================================================
