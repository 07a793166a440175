---------------------------- MODULE UpstreamAuth ----------------------------
(***************************************************************************)
(* The credential the server connector presents to Relay                   *)
(* (upstream_auth_header, proxy.rs).  config is the runtime view of a      *)
(* configuration: default_auth_env, the environment as a function from     *)
(* variables to values, the auth scheme, and the texts that cannot stand   *)
(* in a header.                                                            *)
(***************************************************************************)
EXTENDS Problems, Text

\* The route's variable first, then the default one.
AuthVariable(config, route) ==
    IF route.auth_env # None THEN route.auth_env ELSE config.default_auth_env

AuthSecret(config, route) ==
    {s \in {config.environment[v] :
              v \in AuthVariable(config, route) \cap DOMAIN config.environment} : ~IsBlank(s)}

\* A blank scheme is left out; any other is put before the secret.
AuthProblem(config, route) ==
    LET secret == AuthSecret(config, route)
        parts  == secret \cup (IF IsBlank(config.scheme) THEN {} ELSE {config.scheme})
    IN  IF secret = None THEN Problem("UpstreamAuthMissing")
        ELSE IF parts \cap config.unencodable # {} THEN Problem("ConfigInvalid")
        ELSE NoProblem
=============================================================================
