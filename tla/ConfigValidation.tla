-------------------------- MODULE ConfigValidation --------------------------
(***************************************************************************)
(* validate_config and its helpers (config.rs).  Every operator answers    *)
(* the set of errors it reports; an error is a pair of a section and a     *)
(* field, its wording is left out.  world is what validation looks at      *)
(* beside the configuration: the files, the environment variables and the  *)
(* time.  A configuration has the fields of ConnectorConfig; text values   *)
(* are those of Text, lists whose order has no effect are sets.            *)
(***************************************************************************)
EXTENDS Certificates, PeerTrust, Routing, PurposePolicy, UpstreamAuth

CONSTANTS Malformed,     \* texts that are no header name, header value or fingerprint
          PrivateNames,  \* header names that start with x-registry-connector-
          AuditSecrets   \* values AuditKeyHasher::from_env accepts

Err(section, field, wrong) == IF wrong THEN {<<section, field>>} ELSE {}
Errs(section, fields) == {section} \X fields

AnyBlank(values) == \E v \in values : IsBlank(v)
AnyText(values) == \E v \in values : ~IsBlank(v)

PositiveLimits ==
    {"upstream_timeout_seconds", "request_timeout_seconds", "tls_handshake_timeout_seconds",
     "http1_header_read_timeout_seconds", "max_concurrent_requests",
     "max_concurrent_connections", "max_requests_per_identity_per_minute"}

-----------------------------------------------------------------------------
ValidateTrustedContextFields(context) ==
    Errs("trusted_context", {f \in TextFields : AnyBlank(context[f])})
        \cup Err("trusted_context", "age", 0 \in context.age)

TrustedContextHasAssertion(context) ==
    (\E f \in TextFields : AnyText(context[f])) \/ \E age \in context.age : age > 0

PolicyTexts == {"permitted_purposes", "permitted_jurisdictions", "allowed_assurance",
                "minimum_assurance", "redaction_fields", "unsupported_odrl_terms"}

GovernedRoutePolicyHasGate(policy) ==
    \/ \E f \in PolicyTexts : AnyText(policy[f])
    \/ \E age \in policy.max_source_age : age > 0
    \/ policy.require_legal_basis
    \/ policy.require_consent

ValidateGovernedRoutePolicy(policy) ==
    Err("governed_policy", "gate", ~GovernedRoutePolicyHasGate(policy))
        \cup Errs("governed_policy", {f \in PolicyTexts : AnyBlank(policy[f])})
        \cup Err("governed_policy", "max_source_age", 0 \in policy.max_source_age)
        \cup ValidateTrustedContextFields(policy.trusted_context)

\* Mutated: any text will do for a prefix.
PrefixErrorEmptyOnly(field, prefix) == Err("route", field, prefix = Some(<<>>))

\* collect_prefix_error: an empty, relative or undecodable prefix.
PrefixError(field, prefix) ==
    Err("route", field, \E p \in prefix : CanonicalRequestPath(p) = None)

ValidateRoute(routes, i) ==
    LET route == routes[i]
    IN  UNION {Err("route", "id", IsBlank(route.id) \/ \E j \in 1..(i - 1) : routes[j].id = route.id),
               Err("route", "methods", route.methods = {}),
               PrefixError("local_prefix", route.local_prefix),
               PrefixError("upstream_prefix", route.upstream_prefix),
               Err("route", "purposes", AnyBlank(route.purposes)),
               Err("route", "client_identities", AnyBlank(route.client_identities)),
               UNION {ValidateGovernedRoutePolicy(p) : p \in route.governed}}

ValidateCommon(config) ==
    UNION {Err("config", "routes", config.routes = <<>>),
           Errs("limits", {f \in PositiveLimits : config.limits[f] = 0}),
           Err("audit", "hash_secret_env",
               IF config.audit_env = None THEN ~config.allow_unkeyed
               ELSE AnyBlank(config.audit_env)),
           UNION {ValidateRoute(config.routes, i) : i \in DOMAIN config.routes}}

-----------------------------------------------------------------------------
\* An empty path names no file.
RequireFile(files, field, path) == Err("file", field, path \notin DOMAIN files)

ValidatePrivateKeyPermissions(files, path) ==
    Err("file", "permissions", path \in DOMAIN files /\ ~files[path].private)

ValidateIdentityFiles(identity, usage, world) ==
    UNION {RequireFile(world.files, "cert", identity.cert),
           RequireFile(world.files, "key", identity.key),
           ValidatePrivateKeyPermissions(world.files, identity.key),
           Err("identity", usage,
               /\ {identity.cert, identity.key} \subseteq DOMAIN world.files
               /\ ~LeafValid(world.files, identity, usage, world.now))}

\* External: AuditKeyHasher::from_env.
AuditKeyFrom(env, variable) == variable \in DOMAIN env /\ env[variable] \in AuditSecrets

RequireAuditHashEnv(config, env) ==
    Err("env", "audit", \E v \in config.audit_env : ~AuditKeyFrom(env, v))

-----------------------------------------------------------------------------
ValidateClientRoute(config, route) ==
    UNION {Err("client_route", "local_prefix", route.local_prefix \in {None, Some(<<>>)}),
           Err("client_route", "upstream_prefix", route.upstream_prefix \in {None, Some(<<>>)}),
           Err("client_route", "purpose_source",
               /\ route.require_purpose
               /\ route.purpose_source = Some("StaticRouteDefault")
               /\ ~AnyText(config.data_purpose))}

\* The first missing section ends the search for further errors.
ValidateClient(config, require_env, world) ==
    Err("config", "listen", ~config.listen.loopback /\ ~config.allow_non_loopback)
        \cup
    IF config.server = None THEN {<<"config", "server">>}
    ELSE LET server == The(config.server)
         IN  (UNION {Err("server", "scheme", ~server.https),
                     Err("server", "path", ~server.root_path),
                     RequireFile(world.files, "trust_bundle", server.trust_bundle)})
                 \cup
             IF config.client_identity = None THEN {<<"config", "client_identity">>}
             ELSE UNION {ValidateIdentityFiles(The(config.client_identity), "ClientAuth", world),
                         UNION {ValidateClientRoute(config, r) : r \in Range(config.routes)},
                         IF require_env THEN RequireAuditHashEnv(config, world.env) ELSE {}}

-----------------------------------------------------------------------------
RouteClientIdentities(route) ==
    {Trim(i) : i \in route.client_identity \cup route.client_identities} \ {""}

\* A blank identity skips the other checks of its entitlement.
ValidateTrustContextEntitlement(trust, i) ==
    LET identity(j) == Trim(trust.entitlements[j].client_identity)
        context == trust.entitlements[i].trusted_context
    IN  IF identity(i) = "" THEN {<<"entitlement", "client_identity">>}
        ELSE UNION {Err("entitlement", "duplicate", \E j \in 1..(i - 1) : identity(j) = identity(i)),
                    Err("entitlement", "allowed_identities", ~Allowlisted(trust, identity(i))),
                    Err("entitlement", "assertion", ~TrustedContextHasAssertion(context)),
                    ValidateTrustedContextFields(context)}

ValidateTrustAnchor(anchor, world) ==
    UNION {RequireFile(world.files, "ca", anchor.ca),
           Err("anchor", "trust_domain", IsBlank(anchor.trust_domain)),
           Err("anchor", "dns_identities", AnyBlank(anchor.dns_identities)),
           Err("anchor", "ca", ~CaValid(world.files, anchor.ca, world.now))}

\* Mutated: any anchor binds a SPIFFE identity.
ValidateAllowedIdentityAnyDomain(identity, config) ==
    Err("client_trust", "dns", TrustDomain(identity) = None /\ ~config.allow_dns)

\* The identity as it is written has to be bound to an anchor.
ValidateAllowedIdentity(identity, config) ==
    LET anchors == The(config.client_trust).anchors
        domains == {d \in {a.trust_domain : a \in anchors} : ~IsBlank(d)}
        dns     == UNION {a.dns_identities : a \in anchors}
    IN  IF IsBlank(identity) THEN {<<"client_trust", "blank">>}
        ELSE IF TrustDomain(identity) # None
        THEN Err("client_trust", "trust_domain", TrustDomain(identity) \cap domains = {})
        ELSE IF ~config.allow_dns THEN {<<"client_trust", "dns_disabled">>}
        ELSE Err("client_trust", "dns_identity", identity \notin dns)

ValidateClientTrust(config, world) ==
    LET trust == The(config.client_trust)
    IN  UNION {Err("client_trust", "allowed_identities", trust.allowed = {}),
               Err("client_trust", "trust_anchors", trust.anchors = {}),
               Err("client_trust", "fingerprints", trust.denied \cap Malformed # {}),
               UNION {ValidateTrustContextEntitlement(trust, i) : i \in DOMAIN trust.entitlements},
               UNION {ValidateTrustAnchor(a, world) : a \in trust.anchors},
               UNION {ValidateAllowedIdentity(i, config) : i \in trust.allowed}}

IsHopByHopHeader(name) ==
    name \in {"connection", "keep-alive", "proxy-authenticate", "proxy-authorization", "te",
              "trailer", "transfer-encoding", "upgrade"}

\* HeaderName::from_bytes answers the name in lower case.
ValidateUpstreamAuthHeaderName(name) ==
    IF name \in Malformed THEN {<<"upstream", "auth_header_name">>}
    ELSE Err("upstream", "hop_by_hop", IsHopByHopHeader(Lower(name)))
            \cup Err("upstream", "private", Lower(name) \in PrivateNames)

NamedVariables(config) ==
    (UNION {u.default_auth_env : u \in config.upstream})
        \cup UNION {r.auth_env : r \in Range(config.routes)}

\* Mutated: the default variable alone is looked up.
RequireUpstreamEnvDefault(config, env) ==
    Err("env", "upstream", \E v \in The(config.upstream).default_auth_env : v \notin DOMAIN env)

RequireUpstreamEnv(config, env) ==
    Err("env", "upstream", \E v \in NamedVariables(config) :
            v \notin DOMAIN env \/ IsBlank(env[v]) \/ env[v] \in Malformed)

ValidateUpstream(config, require_env, env) ==
    LET upstream == The(config.upstream)
    IN  UNION {Err("upstream", "path", ~upstream.root_path),
               ValidateUpstreamAuthHeaderName(upstream.auth_header_name),
               Err("upstream", "auth_env", AnyBlank(NamedVariables(config))),
               IF require_env
               THEN RequireAuditHashEnv(config, env) \cup RequireUpstreamEnv(config, env)
               ELSE {}}

ValidateServerRoute(route, trust) ==
    UNION {Err("server_route", "upstream_prefix", route.upstream_prefix \in {None, Some(<<>>)}),
           Err("server_route", "client_identity", RouteClientIdentities(route) = {}),
           Err("server_route", "allowed_identities",
               \E i \in RouteClientIdentities(route) : ~Allowlisted(trust, i))}

ValidateServer(config, require_env, world) ==
    IF config.server_identity = None THEN {<<"config", "server_identity">>}
    ELSE ValidateIdentityFiles(The(config.server_identity), "ServerAuth", world)
            \cup
         IF config.client_trust = None THEN {<<"config", "client_trust">>}
         ELSE ValidateClientTrust(config, world)
                 \cup
              IF config.upstream = None THEN {<<"config", "upstream">>}
              ELSE ValidateUpstream(config, require_env, world.env)
                      \cup UNION {ValidateServerRoute(r, The(config.client_trust)) :
                                    r \in Range(config.routes)}

ValidateConfig(config, mode, require_env, world) ==
    ValidateCommon(config)
        \cup (IF mode = "client" THEN ValidateClient(config, require_env, world)
              ELSE ValidateServer(config, require_env, world))

-----------------------------------------------------------------------------
\* What a running server connector works with (ServerTrustPolicy::from_config,
\* upstream_auth_header).
ServerTrust(config) ==
    LET trust == The(config.client_trust)
    IN  [anchors |-> trust.anchors, allow_dns |-> config.allow_dns, denied |-> trust.denied,
         allowed |-> trust.allowed, entitlements |-> trust.entitlements]

RuntimeConfig(config, env) ==
    [trust |-> ServerTrust(config), routes |-> config.routes,
     default_auth_env |-> The(config.upstream).default_auth_env, environment |-> env,
     scheme |-> The(config.upstream).scheme, unencodable |-> Malformed]
=============================================================================
