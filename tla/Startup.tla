------------------------------- MODULE Startup -------------------------------
(***************************************************************************)
(* A process from its command line to its listener or its exit (main.rs):  *)
(* loading and validating the configuration, the expiry warning, building  *)
(* the TLS configuration and the state of the proxy, and binding.  The     *)
(* validate command stops after validation, with a report in JSON format.  *)
(*                                                                         *)
(* The files belong to others: the configuration may be edited and         *)
(* certificates rotated between any two steps, and time passes.            *)
(***************************************************************************)
EXTENDS ConfigValidation

CONSTANTS Cases,          \* initial situations: [command, disk, files, env] with
                          \*   command = [name, mode, require_env, json]
                          \*   disk = [readable, config]
          Edited,         \* configuration files an edit may leave
          Rotated,        \* what a replaced file may hold
          SecondsPerDay,  \* 86400
          U64,            \* 2^64, where the product of seconds wraps
          MaxPermits,     \* the most a tokio semaphore takes
          MaxEdits, MaxTime

\* Times of certificates and the days of the warning are integers.
DatedFile(file) == file.certs # <<>> => file.certs[1].until \in Int
CountedDays(document) == \A c \in document.config : c.expiry_warning_days \in Int

ASSUME StartupAssumption ==
    /\ SecondsPerDay \in Nat /\ U64 \in Nat \ {0}
    /\ \A c \in Cases :
          /\ c.command.name \in {"server", "client", "validate"}
          /\ CountedDays(c.disk)
          /\ \A path \in DOMAIN c.files : DatedFile(c.files[path])
    /\ \A document \in Edited : CountedDays(document)
    /\ \A file \in Rotated : DatedFile(file)

VARIABLES command, env,   \* fixed for the life of the process
          disk, files,    \* the configuration file and the other files
          clock,
          edits,          \* how often disk or files have changed
          phase,
          raw,            \* what was hashed for the report, optional
          loaded,         \* the configuration in memory, optional
          seen,           \* when validation saw the files, None if they changed since
          warned,         \* the expiry warning was given
          why,            \* the step that failed
          report          \* the JSON report, optional

outside == <<disk, files, clock, edits, seen>>
process == <<command, env, phase, raw, loaded, warned, why, report>>
vars == <<outside, process>>

config == The(loaded)
World == [files |-> files, env |-> env, now |-> clock]

DetectMode(c) ==
    IF c.server_identity # None \/ c.client_trust # None \/ c.upstream # None
    THEN "server" ELSE "client"

Mode == IF command.name # "validate" THEN command.name
        ELSE IF command.mode # None THEN The(command.mode)
        ELSE DetectMode(config)

\* Only the server command insists on its environment.
RequireEnv == IF command.name = "validate" THEN command.require_env
              ELSE command.name = "server"

Fail(step) == phase' = "failed" /\ why' = step
Reach(next) == phase' = next /\ UNCHANGED why

-----------------------------------------------------------------------------
Init ==
    /\ \E c \in Cases :
          command = c.command /\ disk = c.disk /\ files = c.files /\ env = c.env
    /\ clock = 0 /\ edits = 0
    /\ phase = "start" /\ why = ""
    /\ raw = None /\ loaded = None /\ report = None
    /\ seen = None /\ warned = FALSE

\* run_validate_json reads the file once for its hash ...
HashConfig ==
    /\ phase = "start" /\ command.name = "validate" /\ command.json
    /\ raw' = IF disk.readable THEN Some(disk) ELSE None
    /\ Reach("hashed")
    /\ UNCHANGED <<command, env, loaded, warned, report, outside>>

\* required_env_report: a variable that is set counts as present.
RequiredEnv(c) ==
    [v \in c.audit_env \cup NamedVariables(c) |->
        IF v \in DOMAIN env THEN "present" ELSE "missing"]

Report(c, errors) ==
    [hash |-> raw, errors |-> errors,
     required_env |-> IF c = None THEN <<>> ELSE RequiredEnv(The(c))]

\* The file has to be readable, and YAML of a known shape.
ReadConfig == IF disk.readable THEN disk.config ELSE None

\* ... and load reads it again.
Load ==
    /\ phase = (IF command.name = "validate" /\ command.json THEN "hashed" ELSE "start")
    /\ loaded' = ReadConfig
    /\ IF loaded' # None
       THEN Reach("loaded") /\ UNCHANGED report
       ELSE /\ Fail("load")
            /\ report' = IF command.json THEN Some(Report(None, {<<"config", "load">>})) ELSE None
    /\ UNCHANGED <<command, env, raw, warned, outside>>

\* What validate_or_error joins into its message.
Errors == ValidateConfig(config, Mode, RequireEnv, World)

\* validate_or_error, or the diagnostics of the report.
Validate ==
    /\ phase = "loaded"
    /\ LET errors == Errors
       IN  /\ IF errors # {} THEN Fail("validate")
              ELSE Reach(IF command.name = "validate" THEN "done" ELSE "valid")
           /\ report' = IF command.json THEN Some(Report(loaded, errors)) ELSE None
    /\ seen' = Some(clock)
    /\ UNCHANGED <<command, env, raw, loaded, warned, disk, files, clock, edits>>

-----------------------------------------------------------------------------
\* expiry_warning_days in seconds, as an unsigned 64-bit product.
Threshold(days) == (Max({days, 0}) * SecondsPerDay) % U64

OwnIdentity == IF Mode = "server" THEN config.server_identity ELSE config.client_identity

\* warn_certificate_expiry; a file that no longer loads is passed over.
Warn ==
    /\ phase = "valid"
    /\ warned' = \E i \in OwnIdentity : \E until \in NotAfter(files, i.cert) :
                    ExpiresWithin(until, Threshold(config.expiry_warning_days), clock)
    /\ Reach("warned")
    /\ UNCHANGED <<command, env, raw, loaded, report, outside>>

IdentityLoads ==
    \E certs \in LoadCerts(files, The(OwnIdentity).cert) :
    \E key \in LoadPrivateKey(files, The(OwnIdentity).key) : KeyMatches(certs, key)

AnchorPaths == {a.ca : a \in The(config.client_trust).anchors}

\* External: WebPkiClientVerifier refuses an empty root store.
ServerConfigBuilds == IdentityLoads /\ AnchorPaths # {} /\ RootsLoad(files, AnchorPaths)

\* read_ca_pem and the roots of the client; an empty trust bundle is accepted.
TrustBundleLoads ==
    \E certs \in LoadCerts(files, The(config.server).trust_bundle) : AddToRoots(certs)

\* reqwest_mtls_client
MtlsClientBuilds == IdentityLoads /\ TrustBundleLoads

\* run_server up to the TLS configuration.
BuildServerTls ==
    /\ phase = "warned" /\ Mode = "server"
    /\ IF ~config.listen.tcp THEN Fail("listen")
       ELSE IF ~ServerConfigBuilds THEN Fail("tls")
       ELSE Reach("identity")
    /\ UNCHANGED <<command, env, raw, loaded, warned, report, outside>>

AuditKeyHasherBuilds ==
    IF config.audit_env # None THEN AuditKeyFrom(env, The(config.audit_env))
    ELSE config.allow_unkeyed

\* External: Semaphore::new panics above its maximum.
TooMany(limit) == config.limits[limit] > MaxPermits

\* ProxyState::server reads the anchors once more and takes the audit key.
BuildServerState ==
    /\ phase = "identity"
    /\ IF ~RootsLoad(files, AnchorPaths) THEN Fail("trust")
       ELSE IF ~AuditKeyHasherBuilds THEN Fail("audit")
       ELSE IF TooMany("max_concurrent_requests") THEN Fail("permits")
       ELSE Reach("state")
    /\ UNCHANGED <<command, env, raw, loaded, warned, report, outside>>

\* run_client up to the router.
BuildClient ==
    /\ phase = "warned" /\ Mode = "client"
    /\ IF ~MtlsClientBuilds THEN Fail("tls")
       ELSE IF ~config.listen.tcp THEN Fail("listen")
       ELSE IF TooMany("max_concurrent_requests") THEN Fail("permits")
       ELSE Reach("state")
    /\ UNCHANGED <<command, env, raw, loaded, warned, report, outside>>

\* The address may be taken; the connection permits come after it.
Bind ==
    /\ phase = "state"
    /\ \/ Fail("bind")
       \/ IF Mode = "server" /\ TooMany("max_concurrent_connections")
          THEN Fail("permits") ELSE Reach("listening")
    /\ UNCHANGED <<command, env, raw, loaded, warned, report, outside>>

-----------------------------------------------------------------------------
Ended == {"listening", "done", "failed"}
Over == phase \in Ended /\ UNCHANGED vars

\* An edit after loading is never read.
EditConfig ==
    /\ phase \in {"start", "hashed"} /\ edits < MaxEdits
    /\ disk' \in Edited \ {disk}
    /\ edits' = edits + 1
    /\ UNCHANGED <<files, clock, seen, process>>

RotateFile(path) ==
    /\ phase \notin Ended /\ edits < MaxEdits
    /\ \E f \in Rotated : files' = [files EXCEPT ![path] = f]
    /\ edits' = edits + 1
    /\ seen' = None
    /\ UNCHANGED <<disk, clock, process>>

Tick ==
    /\ phase \notin Ended /\ clock < MaxTime
    /\ clock' = clock + 1
    /\ UNCHANGED <<disk, files, edits, seen, process>>

Next ==
    \/ HashConfig \/ Load \/ Validate \/ Warn
    \/ BuildServerTls \/ BuildServerState \/ BuildClient \/ Bind
    \/ Over \/ EditConfig \/ Tick
    \/ \E path \in DOMAIN files : RotateFile(path)

Spec == Init /\ [][Next]_vars
-----------------------------------------------------------------------------
\* Some trust anchor loads, and the root store refuses it.
AnchorRefused ==
    \E path \in AnchorPaths : \E certs \in LoadCerts(files, path) : ~AddToRoots(certs)

(* What validate_config leaves open of what run_server and run_client      *)
(* need: a process that passed validation, and whose files are still those *)
(* validation saw, only fails to listen for a Unix socket address, a taken *)
(* address, a limit beyond what a semaphore takes, a server's trust anchor *)
(* that passes validate_ca_certificate and that roots.add refuses          *)
(* (tls.rs:151), or a client's trust bundle, whose content validation does *)
(* not look at.  The anchors, read once more for the proxy state, do not   *)
(* fail there.                                                             *)
ValidatedStarts ==
    (phase = "failed" /\ seen # None /\ why # "validate") =>
        \/ why = "bind"
        \/ why = "listen" /\ ~config.listen.tcp
        \/ why = "permits" /\ \E limit \in PositiveLimits : TooMany(limit)
        \/ why = "tls" /\ Mode = "server" /\ AnchorRefused
        \/ why = "tls" /\ Mode = "client" /\ ~TrustBundleLoads

(* A server that listens can recognise whom it allows: every allowed       *)
(* identity written without padding has an anchor that verify_peer will    *)
(* bind it to.                                                             *)
AllowedIdentitiesAreAnchored ==
    (phase = "listening" /\ Mode = "server") =>
        \A i \in The(config.client_trust).allowed :
            Trim(i) = i => BoundRoots(ServerTrust(config), i) # {}

(* The two parts of the JSON report agree: with --require-env, a variable  *)
(* the report of a server configuration lists as missing is also an error. *)
MissingVariableIsAnError ==
    \A r \in report :
        (loaded # None /\ Mode = "server" /\ RequireEnv
           /\ \E v \in DOMAIN r.required_env : r.required_env[v] = "missing")
        => r.errors # {} /\ phase = "failed"

(* No silent expiry: a process that listens without having warned has a    *)
(* certificate that outlives its validation by more than                   *)
(* expiry_warning_days, as long as their seconds fit 64 bits.              *)
NoSilentExpiry ==
    LET margin == Max({config.expiry_warning_days, 0}) * SecondsPerDay
    IN  (phase = "listening" /\ ~warned /\ margin < U64) =>
            \A t \in seen : \A until \in NotAfter(files, The(OwnIdentity).cert) :
                until > t + margin
=============================================================================
