--------------------------- MODULE Process_proofs ---------------------------
(***************************************************************************)
(* Proofs about a process: how it starts, how it listens and how it knows  *)
(* its peers.                                                              *)
(*                                                                         *)
(* Startup: for every configuration, file system, environment and command, *)
(* and any sequence of edits and rotations on the way.  What validation    *)
(* establishes splits into what later rotations of files can undo, which   *)
(* holds as long as seen is set, and what they cannot.                     *)
(*                                                                         *)
(* AcceptLoop: the accept loop and the connection tasks never lose or      *)
(* multiply a connection permit, for any number of connections.            *)
(*                                                                         *)
(* PeerConnection: the peer of a connection agrees with its reference,     *)
(* which knows nothing of the order in which names are looked at.          *)
(***************************************************************************)
EXTENDS Startup, AcceptLoop, PeerConnection, FiniteSetTheorems, TLAPS

\* Phases a process only reaches with a configuration that passed validation.
Started == {"valid", "warned", "identity", "state", "listening"}
PastWarning == Started \ {"valid"}

WorldAt(time) == [files |-> files, env |-> env, now |-> time]

Margin == Max({config.expiry_warning_days, 0}) * SecondsPerDay

\* Why each step of a process that passed validation may fail.
FailuresExplained ==
    (phase = "failed" /\ seen # None /\ why \notin {"load", "validate"}) =>
        \/ why = "bind"
        \/ why = "listen" /\ ~config.listen.tcp
        \/ why = "permits" /\ \E limit \in PositiveLimits : TooMany(limit)
        \/ why = "tls" /\ Mode = "server" /\ AnchorRefused
        \/ why = "tls" /\ Mode = "client" /\ ~TrustBundleLoads

Dated ==
    /\ clock \in Nat /\ \A t \in seen : t \in Nat /\ t <= clock
    /\ CountedDays(disk) /\ \A c \in loaded : c.expiry_warning_days \in Int
    /\ \A path \in DOMAIN files : DatedFile(files[path])

\* The order of the phases.
Ordered ==
    /\ phase \in {"start", "hashed", "loaded"} => seen = None /\ report = None
    /\ (phase = "failed" /\ why = "load") => seen = None
    /\ phase \in Started \cup {"loaded"} => loaded # None
    /\ command.name \in {"server", "client", "validate"}
    /\ phase \in Started => command.name # "validate"
    /\ phase = "identity" => Mode = "server"

\* What a rotation of the files would put in question.
StillValid ==
    /\ phase \in Started => \A t \in seen : ValidateConfig(config, Mode, RequireEnv, WorldAt(t)) = {}
    /\ (phase = "identity" /\ seen # None) => RootsLoad(files, AnchorPaths)

\* What it would not.
Anchored ==
    (phase \in Started /\ Mode = "server") =>
        \A i \in The(config.client_trust).allowed : ValidateAllowedIdentity(i, config) = {}

Outlives ==
    (phase \in PastWarning /\ ~warned /\ Margin < U64) =>
        \A t \in seen : \A until \in NotAfter(files, The(OwnIdentity).cert) : until > t + Margin

\* The inductive invariant.
StartInv ==
    /\ Dated /\ Ordered /\ StillValid /\ Anchored /\ Outlives
    /\ FailuresExplained /\ MissingVariableIsAnError

-----------------------------------------------------------------------------
(* Validation without errors has no error in either of its parts.          *)
LEMMA NoErrors ==
    ASSUME NEW section, NEW field, NEW wrong
    PROVE  Err(section, field, wrong) = {} <=> ~wrong
  BY Zenon DEF Err

(* What a server configuration without errors has (validate_server,        *)
(* config.rs:641).                                                         *)
LEMMA ServerSections ==
    ASSUME NEW c, NEW require_env, NEW w, ValidateConfig(c, "server", require_env, w) = {}
    PROVE  /\ c.server_identity # None /\ c.client_trust # None /\ c.upstream # None
           /\ ValidateCommon(c) = {}
           /\ ValidateIdentityFiles(The(c.server_identity), "ServerAuth", w) = {}
           /\ ValidateClientTrust(c, w) = {}
           /\ ValidateUpstream(c, require_env, w.env) = {}
<1>1. ValidateCommon(c) = {} /\ ValidateServer(c, require_env, w) = {}
  BY DEF ValidateConfig
<1>2. c.server_identity # None
  BY <1>1, Zenon DEF ValidateServer
<1>3. c.client_trust # None
  BY <1>1, <1>2, Zenon DEF ValidateServer
<1>4. c.upstream # None
  BY <1>1, <1>2, <1>3, Zenon DEF ValidateServer
<1>5. QED
  BY <1>1, <1>2, <1>3, <1>4, Zenon DEF ValidateServer

(* The same for a client configuration (validate_client, config.rs:582).   *)
LEMMA ClientSections ==
    ASSUME NEW c, NEW require_env, NEW w, ValidateConfig(c, "client", require_env, w) = {}
    PROVE  /\ c.client_identity # None /\ ValidateCommon(c) = {}
           /\ ValidateIdentityFiles(The(c.client_identity), "ClientAuth", w) = {}
<1>1. ValidateCommon(c) = {} /\ ValidateClient(c, require_env, w) = {}
  BY DEF ValidateConfig
<1>2. c.server # None
  BY <1>1, Zenon DEF ValidateClient
<1>3. c.client_identity # None
  BY <1>1, <1>2, Zenon DEF ValidateClient
<1>4. QED
  BY <1>1, <1>2, <1>3, Zenon DEF ValidateClient

(* An identity validation accepts loads (tls.rs:97, identity.rs).          *)
LEMMA ValidIdentityLoads ==
    ASSUME NEW identity, NEW usage, NEW w, ValidateIdentityFiles(identity, usage, w) = {}
    PROVE  \E certs \in LoadCerts(w.files, identity.cert) :
           \E key \in LoadPrivateKey(w.files, identity.key) : KeyMatches(certs, key)
<1>1. identity.cert \in DOMAIN w.files /\ identity.key \in DOMAIN w.files
  BY NoErrors, Zenon DEF ValidateIdentityFiles, RequireFile
<1>2. LeafValid(w.files, identity, usage, w.now)
  BY <1>1, NoErrors, Zenon DEF ValidateIdentityFiles
<1>3. QED
  BY <1>2 DEF LeafValid

(* Anchors validation accepts load (load_single_ca_cert), and only the     *)
(* root store may still refuse them.                                       *)
LEMMA ValidAnchorsLoad ==
    ASSUME NEW c, NEW w, ValidateClientTrust(c, w) = {}
    PROVE  LET paths == {a.ca : a \in The(c.client_trust).anchors}
           IN  /\ paths # {}
               /\ \/ RootsLoad(w.files, paths)
                  \/ \E path \in paths : \E certs \in LoadCerts(w.files, path) : ~AddToRoots(certs)
<1> DEFINE anchors == The(c.client_trust).anchors
<1>1. anchors # {}
  <2>1. Err("client_trust", "trust_anchors", anchors = {}) \subseteq ValidateClientTrust(c, w)
    BY Zenon DEF ValidateClientTrust
  <2>2. QED
    BY <2>1, Zenon DEF Err
<1>2. ASSUME NEW a \in anchors
      PROVE  \E certs \in LoadCerts(w.files, a.ca) : Len(certs) = 1
  <2>1. ValidateTrustAnchor(a, w) = {}
    BY <1>2 DEF ValidateClientTrust
  <2>2. CaValid(w.files, a.ca, w.now)
    BY <2>1, NoErrors, Zenon DEF ValidateTrustAnchor
  <2>3. QED
    BY <2>2, Zenon DEF CaValid
<1>3. QED
  BY <1>1, <1>2, Zenon DEF RootsLoad

(* The audit key of a validated server can be taken: without one the       *)
(* configuration allows that, and a named one is in the environment.       *)
LEMMA ValidAuditKey ==
    ASSUME NEW c, NEW w, ValidateConfig(c, "server", TRUE, w) = {}
    PROVE  IF c.audit_env # None THEN AuditKeyFrom(w.env, The(c.audit_env)) ELSE c.allow_unkeyed
<1>1. CASE c.audit_env = None
  <2>1. ValidateCommon(c) = {}
    BY ServerSections, Zenon
  <2>2. QED
    BY <1>1, <2>1, NoErrors, Zenon DEF ValidateCommon
<1>2. CASE c.audit_env # None
  <2>1. ValidateUpstream(c, TRUE, w.env) = {}
    BY ServerSections, Zenon
  <2>2. RequireAuditHashEnv(c, w.env) = {}
    BY <2>1, Zenon DEF ValidateUpstream
  <2>3. The(c.audit_env) \in c.audit_env
    BY <1>2 DEF The, None
  <2>4. QED
    BY <1>2, <2>2, <2>3, NoErrors, Zenon DEF RequireAuditHashEnv
<1>3. QED
  BY <1>1, <1>2

(* With --require-env every variable a server configuration names is set.  *)
LEMMA ValidVariables ==
    ASSUME NEW c, NEW w, ValidateConfig(c, "server", TRUE, w) = {}
    PROVE  \A v \in c.audit_env \cup NamedVariables(c) : v \in DOMAIN w.env
<1>1. ValidateUpstream(c, TRUE, w.env) = {}
  BY ServerSections, Zenon
<1>2. RequireAuditHashEnv(c, w.env) = {} /\ RequireUpstreamEnv(c, w.env) = {}
  BY <1>1, Zenon DEF ValidateUpstream
<1>3. \A v \in c.audit_env : AuditKeyFrom(w.env, v)
  BY <1>2, NoErrors, Zenon DEF RequireAuditHashEnv
<1>4. \A v \in NamedVariables(c) : v \in DOMAIN w.env
  BY <1>2, NoErrors, Zenon DEF RequireUpstreamEnv
<1>5. QED
  BY <1>3, <1>4 DEF AuditKeyFrom

(* An allowed identity validation accepts has an anchor that verify_peer   *)
(* binds it to, as ServerTrustPolicy holds the anchors.                    *)
LEMMA ValidIdentityIsAnchored ==
    ASSUME NEW c, NEW i, ValidateAllowedIdentity(i, c) = {}
    PROVE  BoundRoots(ServerTrust(c), i) # {}
<1> DEFINE anchors == The(c.client_trust).anchors
<1>1. ServerTrust(c).anchors = anchors /\ ServerTrust(c).allow_dns = c.allow_dns
  BY DEF ServerTrust
<1>2. ~IsBlank(i)
  BY Zenon DEF ValidateAllowedIdentity
<1>3. CASE TrustDomain(i) # None
  <2>1. PICK d \in TrustDomain(i) : \E a \in anchors : a.trust_domain = d
    BY <1>2, <1>3, NoErrors, Zenon DEF ValidateAllowedIdentity
  <2>2. TrustDomain(i) = {d}
    BY <2>1, Zenon DEF TrustDomain, None
  <2>3. The(TrustDomain(i)) = d
    BY <2>2 DEF The
  <2>4. QED
    BY <1>1, <1>3, <2>1, <2>3, Zenon DEF BoundRoots, AnchorsByDomain
<1>4. CASE TrustDomain(i) = None
  <2>1. c.allow_dns
    BY <1>2, <1>4, Zenon DEF ValidateAllowedIdentity
  <2>2. \E a \in anchors : i \in a.dns_identities
    BY <1>2, <1>4, <2>1, NoErrors, Zenon DEF ValidateAllowedIdentity
  <2>3. QED
    BY <1>1, <1>4, <2>1, <2>2, Zenon DEF BoundRoots, AnchorsByDns
<1>5. QED
  BY <1>3, <1>4

(* The warning margin is a number of seconds, and below 2^64 the product   *)
(* does not wrap (config.rs:346).                                          *)
LEMMA MarginIsExact ==
    ASSUME NEW days \in Int
    PROVE  LET margin == Max({days, 0}) * SecondsPerDay
           IN  margin \in Nat /\ (margin < U64 => Threshold(days) = margin)
<1>1. Max({days, 0}) \in Nat
  BY DEF Max
<1>2. Max({days, 0}) * SecondsPerDay \in Nat
  BY <1>1, StartupAssumption
<1>3. \A n \in Nat, m \in Nat \ {0} : n < m => n % m = n
  OBVIOUS
<1>4. QED
  BY <1>2, <1>3, StartupAssumption DEF Threshold

(* The end of validity that certificate_summary reads is a time.           *)
LEMMA NotAfterIsDated ==
    ASSUME NEW fs, \A p \in DOMAIN fs : DatedFile(fs[p]), NEW path,
           NEW until \in NotAfter(fs, path)
    PROVE  until \in Int
<1>1. PICK p \in DOMAIN fs : fs[p].certs # <<>> /\ until = fs[p].certs[1].until
  BY DEF NotAfter, LoadCerts, Parsed
<1>2. QED
  BY <1>1 DEF DatedFile

-----------------------------------------------------------------------------
(* What depends on the configuration in memory, the command, the           *)
(* environment and the files alone stays as long as these do.              *)
LEMMA SameProcess ==
    ASSUME UNCHANGED <<command, env, loaded>>
    PROVE  /\ UNCHANGED <<config, Mode, RequireEnv, OwnIdentity, Margin>>
           /\ \A limit : TooMany(limit)' = TooMany(limit)
           /\ files' = files =>
                 /\ UNCHANGED <<TrustBundleLoads, AnchorRefused, RootsLoad(files, AnchorPaths)>>
                 /\ \A t : WorldAt(t)' = WorldAt(t)
<1>1. config' = config
  BY DEF config
<1>2. Mode' = Mode
  BY <1>1 DEF Mode
<1>3. RequireEnv' = RequireEnv /\ OwnIdentity' = OwnIdentity /\ Margin' = Margin
  BY <1>1, <1>2 DEF RequireEnv, OwnIdentity, Margin
<1>4. \A limit : TooMany(limit)' = TooMany(limit)
  BY <1>1 DEF TooMany
<1>5. AnchorPaths' = AnchorPaths
  BY <1>1 DEF AnchorPaths
<1>6. ASSUME files' = files
      PROVE  /\ UNCHANGED <<TrustBundleLoads, AnchorRefused, RootsLoad(files, AnchorPaths)>>
             /\ \A t : WorldAt(t)' = WorldAt(t)
  BY <1>1, <1>5, <1>6 DEF TrustBundleLoads, AnchorRefused, WorldAt
<1>7. QED
  BY <1>1, <1>2, <1>3, <1>4, <1>6

(* A step of the process that leaves the files and what it knows alone     *)
(* and goes on to a later phase keeps the invariant; it still has to       *)
(* explain a failure.                                                      *)
LEMMA LaterPhase ==
    ASSUME StartInv, UNCHANGED <<command, env, loaded, raw, report, disk, files, clock, edits, seen>>,
           phase \in Started, phase' \in PastWarning \cup {"failed"},
           phase' = "identity" => Mode = "server" /\ (seen # None => RootsLoad(files, AnchorPaths)),
           phase' = "failed" => why' # "load" /\ why' # "validate",
           Outlives', FailuresExplained'
    PROVE  StartInv'
<1> USE SameProcess
<1>1. Dated'
  BY Zenon DEF StartInv, Dated, CountedDays
<1>2. Ordered'
  BY DEF StartInv, Ordered, Started, PastWarning
<1>3. StillValid'
  BY DEF StartInv, StillValid, Started, PastWarning
<1>4. Anchored'
  BY Zenon DEF StartInv, Anchored, Started, PastWarning
<1>5. MissingVariableIsAnError'
  BY Zenon DEF StartInv, MissingVariableIsAnError, Started
<1>6. QED
  BY <1>1, <1>2, <1>3, <1>4, <1>5 DEF StartInv

(* Validation is as strict as run_server but for the root store: with the  *)
(* files it saw, the audit key can be taken, and the TLS configuration can *)
(* be built unless the store refuses a trust anchor.                       *)
LEMMA ValidServerBuilds ==
    ASSUME StartInv, phase \in Started, Mode = "server", seen # None
    PROVE  (ServerConfigBuilds \/ AnchorRefused) /\ AuditKeyHasherBuilds
<1>1. PICK t \in seen : ValidateConfig(config, "server", RequireEnv, WorldAt(t)) = {}
  BY DEF StartInv, StillValid, None
<1>2. RequireEnv = TRUE
  <2>1. command.name # "validate"
    BY DEF StartInv, Ordered
  <2>2. command.name = "server"
    BY <2>1 DEF Mode
  <2>3. QED
    BY <2>2 DEF RequireEnv
<1>3. WorldAt(t).files = files /\ WorldAt(t).env = env
  BY DEF WorldAt
<1>4. IdentityLoads
  <2>1. ValidateIdentityFiles(The(config.server_identity), "ServerAuth", WorldAt(t)) = {}
    BY <1>1, ServerSections, Zenon
  <2>2. OwnIdentity = config.server_identity
    BY DEF OwnIdentity
  <2>3. QED
    BY <1>3, <2>1, <2>2, ValidIdentityLoads DEF IdentityLoads
<1>5. AnchorPaths # {} /\ (RootsLoad(files, AnchorPaths) \/ AnchorRefused)
  <2>1. ValidateClientTrust(config, WorldAt(t)) = {}
    BY <1>1, ServerSections, Zenon
  <2>2. QED
    BY <1>3, <2>1, ValidAnchorsLoad, Zenon DEF AnchorPaths, AnchorRefused
<1>6. AuditKeyHasherBuilds
  BY <1>1, <1>2, <1>3, ValidAuditKey, Zenon DEF AuditKeyHasherBuilds
<1>7. QED
  BY <1>4, <1>5, <1>6 DEF ServerConfigBuilds

(* The same for run_client, but for the content of the trust bundle.       *)
LEMMA ValidClientBuilds ==
    ASSUME StartInv, phase \in Started, Mode = "client", seen # None
    PROVE  IdentityLoads
<1>1. PICK t \in seen : ValidateConfig(config, "client", RequireEnv, WorldAt(t)) = {}
  BY DEF StartInv, StillValid, None
<1>2. ValidateIdentityFiles(The(config.client_identity), "ClientAuth", WorldAt(t)) = {}
  BY <1>1, ClientSections, Zenon
<1>3. WorldAt(t).files = files /\ OwnIdentity = config.client_identity
  BY DEF WorldAt, OwnIdentity
<1>4. QED
  BY <1>2, <1>3, ValidIdentityLoads DEF IdentityLoads

(* A validated process has an identity of its own.                         *)
LEMMA ValidHasIdentity ==
    ASSUME NEW require_env, NEW w, ValidateConfig(config, Mode, require_env, w) = {},
           Mode \in {"server", "client"}
    PROVE  OwnIdentity # None
<1>1. CASE Mode = "server"
  BY <1>1, ServerSections, Zenon DEF OwnIdentity
<1>2. CASE Mode = "client"
  BY <1>2, ClientSections, Zenon DEF OwnIdentity
<1>3. QED
  BY <1>1, <1>2

-----------------------------------------------------------------------------
(* load sees the file at one moment; a failure to load is reported before  *)
(* anything was validated.                                                 *)
LEMMA LoadKeepsInv == ASSUME StartInv, Load PROVE StartInv'
<1>1. /\ phase \in {"start", "hashed"} /\ loaded' = ReadConfig
      /\ UNCHANGED <<command, env, raw, warned, disk, files, clock, edits, seen>>
  BY DEF Load, outside
<1>2. seen = None /\ report = None
  BY <1>1 DEF StartInv, Ordered
<1>3. \/ phase' = "loaded" /\ loaded' # None /\ report' = report
      \/ phase' = "failed" /\ why' = "load" /\ loaded' = None
  BY DEF Load, Fail, Reach
<1>4. Dated'
  BY <1>1 DEF StartInv, Dated, CountedDays, ReadConfig, None
<1>5. Ordered'
  BY <1>1, <1>2, <1>3 DEF StartInv, Ordered, Started
<1>6. StillValid' /\ Anchored' /\ Outlives' /\ FailuresExplained'
  BY <1>3, Zenon DEF StillValid, Anchored, Outlives, FailuresExplained, Started, PastWarning
<1>7. MissingVariableIsAnError'
  BY <1>2, <1>3 DEF MissingVariableIsAnError, None
<1>8. QED
  BY <1>4, <1>5, <1>6, <1>7 DEF StartInv

(* The variables the report lists as missing are variables validation      *)
(* looks for: with --require-env a configuration without errors misses     *)
(* none.                                                                   *)
LEMMA NothingMissing ==
    ASSUME Mode = "server", RequireEnv, Errors = {}
    PROVE  \A v \in DOMAIN RequiredEnv(config) : RequiredEnv(config)[v] # "missing"
<1>1. ValidateConfig(config, "server", TRUE, World) = {}
  <2>1. CASE RequireEnv = TRUE
    BY <2>1, Zenon DEF Errors
  <2>2. CASE RequireEnv # TRUE
    BY <2>2
  <2>3. QED
    BY <2>1, <2>2, Zenon
<1>2. World.env = env
  BY DEF World
<1>3. \A v \in config.audit_env \cup NamedVariables(config) : v \in DOMAIN env
  BY <1>1, <1>2, ValidVariables, Zenon
<1>4. QED
  BY <1>3 DEF RequiredEnv

(* Validation sees the files of the moment, and its report agrees with its *)
(* verdict.                                                                *)
LEMMA ValidateKeepsInv == ASSUME StartInv, Validate PROVE StartInv'
<1>1. /\ phase = "loaded" /\ seen' = Some(clock)
      /\ UNCHANGED <<command, env, raw, loaded, warned, disk, files, clock, edits>>
      /\ report' = (IF command.json THEN Some(Report(loaded, Errors)) ELSE None)
  BY DEF Validate
<1>2. \/ phase' = "failed" /\ why' = "validate" /\ Errors # {}
      \/ phase' \in {"done", "valid"} /\ Errors = {}
  BY DEF Validate, Fail, Reach
<1>3. phase' = "valid" => command.name # "validate"
  BY DEF Validate, Fail, Reach
<1>4. loaded # None
  BY <1>1 DEF StartInv, Ordered
<1>5. Dated'
  BY <1>1 DEF StartInv, Dated, CountedDays, Some
<1>6. Ordered'
  BY <1>1, <1>2, <1>3, <1>4 DEF StartInv, Ordered, Started
<1>7. UNCHANGED <<config, Mode, RequireEnv>> /\ \A t : WorldAt(t)' = WorldAt(t)
  BY <1>1, SameProcess
<1>8. World = WorldAt(clock)
  BY DEF World, WorldAt
<1>9. StillValid'
  BY <1>1, <1>2, <1>7, <1>8 DEF StillValid, Started, Some, Errors
<1>10. Anchored'
  <2> SUFFICES ASSUME phase' = "valid", Mode = "server"
               PROVE  \A i \in The(config.client_trust).allowed : ValidateAllowedIdentity(i, config) = {}
    BY <1>2, <1>7 DEF Anchored, Started
  <2>1. ValidateConfig(config, "server", RequireEnv, World) = {}
    BY <1>2 DEF Errors
  <2>2. ValidateClientTrust(config, World) = {}
    BY <2>1, ServerSections, Zenon
  <2>3. QED
    BY <2>2, Zenon DEF ValidateClientTrust
<1>11. Outlives' /\ FailuresExplained'
  BY <1>2 DEF Outlives, FailuresExplained, Started, PastWarning
<1>12. MissingVariableIsAnError'
  <2> SUFFICES ASSUME NEW r \in report', Mode = "server", RequireEnv,
                      \E v \in DOMAIN r.required_env : r.required_env[v] = "missing"
               PROVE  r.errors # {} /\ phase' = "failed"
    BY <1>7 DEF MissingVariableIsAnError
  <2>1. r = Report(loaded, Errors)
    BY <1>1 DEF Some, None
  <2>2. r.errors = Errors /\ r.required_env = RequiredEnv(config)
    BY <1>4, <2>1 DEF Report, config
  <2>3. Errors # {}
    BY <2>2, NothingMissing
  <2>4. QED
    BY <1>2, <2>2, <2>3
<1>13. QED
  BY <1>5, <1>6, <1>9, <1>10, <1>11, <1>12 DEF StartInv

(* The warning is decided at or after validation, so what it lets pass in  *)
(* silence outlives validation by the margin.                              *)
LEMMA WarnKeepsInv == ASSUME StartInv, Warn PROVE StartInv'
<1>1. /\ phase = "valid" /\ phase' = "warned"
      /\ UNCHANGED <<command, env, raw, loaded, report, disk, files, clock, edits, seen>>
  BY DEF Warn, Reach, outside
<1>2. UNCHANGED <<config, Mode, OwnIdentity, Margin>>
  BY <1>1, SameProcess
<1>3. Outlives'
  <2> SUFFICES ASSUME ~warned', Margin < U64, NEW t \in seen,
                      NEW until \in NotAfter(files, The(OwnIdentity).cert)
               PROVE  until > t + Margin
    BY <1>1, <1>2 DEF Outlives
  <2>1. ValidateConfig(config, Mode, RequireEnv, WorldAt(t)) = {}
    BY <1>1 DEF StartInv, StillValid, Started
  <2>2. Mode \in {"server", "client"}
    BY <1>1, Zenon DEF StartInv, Ordered, Started, Mode
  <2>3. The(OwnIdentity) \in OwnIdentity
    BY <2>1, <2>2, ValidHasIdentity DEF The, None
  <2>4. ~ExpiresWithin(until, Threshold(config.expiry_warning_days), clock)
    BY <2>3 DEF Warn
  <2>5. config \in loaded
    BY <1>1 DEF StartInv, Ordered, Started, config, The, None
  <2>6. Margin \in Nat /\ Threshold(config.expiry_warning_days) = Margin
    BY <2>5, MarginIsExact DEF StartInv, Dated, Margin
  <2>7. until \in Int
    BY NotAfterIsDated DEF StartInv, Dated
  <2>8. t \in Nat /\ clock \in Nat /\ t <= clock
    BY DEF StartInv, Dated
  <2>9. until - clock > Margin
    BY <2>4, <2>6, <2>7, <2>8 DEF ExpiresWithin
  <2>10. QED
    BY <2>6, <2>7, <2>8, <2>9
<1>4. FailuresExplained'
  BY <1>1 DEF FailuresExplained
<1>5. QED
  BY <1>1, <1>3, <1>4, LaterPhase DEF Started, PastWarning

(* Once the warning is past, neither it nor what it was about changes.     *)
LEMMA OutlivesStays ==
    ASSUME StartInv, phase \in PastWarning, UNCHANGED <<command, env, loaded, warned, files, seen>>
    PROVE  Outlives'
<1>1. UNCHANGED <<OwnIdentity, Margin>>
  BY SameProcess
<1>2. QED
  BY <1>1 DEF StartInv, Outlives

(* run_server up to the TLS configuration fails for its listen address or  *)
(* a refused trust anchor only, if the files are those validation saw.     *)
LEMMA BuildServerTlsKeepsInv == ASSUME StartInv, BuildServerTls PROVE StartInv'
<1>1. /\ phase = "warned" /\ Mode = "server"
      /\ UNCHANGED <<command, env, raw, loaded, warned, report, disk, files, clock, edits, seen>>
  BY DEF BuildServerTls, outside
<1>2. \/ phase' = "failed" /\ why' = "listen" /\ ~config.listen.tcp
      \/ phase' = "failed" /\ why' = "tls" /\ ~ServerConfigBuilds
      \/ phase' = "identity" /\ RootsLoad(files, AnchorPaths)
  BY DEF BuildServerTls, Fail, Reach, ServerConfigBuilds
<1>3. seen # None => ServerConfigBuilds \/ AnchorRefused
  BY <1>1, ValidServerBuilds DEF Started
<1>4. UNCHANGED <<config, Mode, AnchorRefused>>
  BY <1>1, SameProcess
<1>5. FailuresExplained'
  BY <1>1, <1>2, <1>3, <1>4 DEF FailuresExplained
<1>6. Outlives'
  BY <1>1, OutlivesStays DEF Started, PastWarning
<1>7. phase' \in PastWarning \cup {"failed"} /\ phase \in Started
  BY <1>1, <1>2 DEF Started, PastWarning
<1>8. /\ phase' = "failed" => why' # "load" /\ why' # "validate"
      /\ phase' = "identity" => RootsLoad(files, AnchorPaths)
  BY <1>2
<1>9. QED
  BY <1>1, <1>5, <1>6, <1>7, <1>8, LaterPhase

(* ProxyState::server then fails for a limit only.                         *)
LEMMA BuildServerStateKeepsInv == ASSUME StartInv, BuildServerState PROVE StartInv'
<1>1. /\ phase = "identity"
      /\ UNCHANGED <<command, env, raw, loaded, warned, report, disk, files, clock, edits, seen>>
  BY DEF BuildServerState, outside
<1>2. \/ phase' = "failed" /\ why' = "trust" /\ ~RootsLoad(files, AnchorPaths)
      \/ phase' = "failed" /\ why' = "audit" /\ ~AuditKeyHasherBuilds
      \/ phase' = "failed" /\ why' = "permits" /\ TooMany("max_concurrent_requests")
      \/ phase' = "state"
  BY DEF BuildServerState, Fail, Reach
<1>3. Mode = "server"
  BY <1>1 DEF StartInv, Ordered
<1>4. seen # None => RootsLoad(files, AnchorPaths) /\ AuditKeyHasherBuilds
  BY <1>1, <1>3, ValidServerBuilds DEF Started, StartInv, StillValid
<1>5. \A limit : TooMany(limit)' = TooMany(limit)
  BY <1>1, SameProcess
<1>6. FailuresExplained'
  BY <1>1, <1>2, <1>4, <1>5 DEF FailuresExplained, PositiveLimits
<1>7. Outlives'
  BY <1>1, OutlivesStays DEF Started, PastWarning
<1>8. phase' \in PastWarning \cup {"failed"} /\ phase \in Started
  BY <1>1, <1>2 DEF Started, PastWarning
<1>9. (phase' = "failed" => why' # "load" /\ why' # "validate") /\ phase' # "identity"
  BY <1>2
<1>10. QED
  BY <1>1, <1>6, <1>7, <1>8, <1>9, LaterPhase

(* run_client fails for its listen address, a limit or its trust bundle.   *)
LEMMA BuildClientKeepsInv == ASSUME StartInv, BuildClient PROVE StartInv'
<1>1. /\ phase = "warned" /\ Mode = "client"
      /\ UNCHANGED <<command, env, raw, loaded, warned, report, disk, files, clock, edits, seen>>
  BY DEF BuildClient, outside
<1>2. \/ phase' = "failed" /\ why' = "tls" /\ ~MtlsClientBuilds
      \/ phase' = "failed" /\ why' = "listen" /\ ~config.listen.tcp
      \/ phase' = "failed" /\ why' = "permits" /\ TooMany("max_concurrent_requests")
      \/ phase' = "state"
  BY DEF BuildClient, Fail, Reach
<1>3. seen # None => IdentityLoads
  BY <1>1, ValidClientBuilds DEF Started
<1>4. /\ UNCHANGED <<config, Mode, TrustBundleLoads>>
      /\ \A limit : TooMany(limit)' = TooMany(limit)
  BY <1>1, SameProcess
<1>5. FailuresExplained'
  BY <1>1, <1>2, <1>3, <1>4 DEF FailuresExplained, PositiveLimits, MtlsClientBuilds
<1>6. Outlives'
  BY <1>1, OutlivesStays DEF Started, PastWarning
<1>7. phase' \in PastWarning \cup {"failed"} /\ phase \in Started
  BY <1>1, <1>2 DEF Started, PastWarning
<1>8. (phase' = "failed" => why' # "load" /\ why' # "validate") /\ phase' # "identity"
  BY <1>2
<1>9. QED
  BY <1>1, <1>5, <1>6, <1>7, <1>8, LaterPhase

(* Binding fails for the address or for a limit.                           *)
LEMMA BindKeepsInv == ASSUME StartInv, Bind PROVE StartInv'
<1>1. /\ phase = "state"
      /\ UNCHANGED <<command, env, raw, loaded, warned, report, disk, files, clock, edits, seen>>
  BY DEF Bind, outside
<1>2. \/ phase' = "failed" /\ why' = "bind"
      \/ phase' = "failed" /\ why' = "permits" /\ TooMany("max_concurrent_connections")
      \/ phase' = "listening"
  BY DEF Bind, Fail, Reach
<1>3. \A limit : TooMany(limit)' = TooMany(limit)
  BY <1>1, SameProcess
<1>4. FailuresExplained'
  BY <1>2, <1>3 DEF FailuresExplained, PositiveLimits
<1>5. Outlives'
  BY <1>1, OutlivesStays DEF Started, PastWarning
<1>6. phase' \in PastWarning \cup {"failed"} /\ phase \in Started
  BY <1>1, <1>2 DEF Started, PastWarning
<1>7. (phase' = "failed" => why' # "load" /\ why' # "validate") /\ phase' # "identity"
  BY <1>2
<1>8. QED
  BY <1>1, <1>4, <1>5, <1>6, <1>7, LaterPhase

(* The hash of the configuration file is taken before anything is loaded.  *)
LEMMA HashConfigKeepsInv == ASSUME StartInv, HashConfig PROVE StartInv'
<1>1. /\ phase = "start" /\ phase' = "hashed"
      /\ UNCHANGED <<command, env, loaded, warned, why, report, disk, files, clock, edits, seen>>
  BY DEF HashConfig, Reach, outside
<1>2. Dated'
  BY <1>1 DEF StartInv, Dated, CountedDays
<1>3. Ordered'
  BY <1>1 DEF StartInv, Ordered, Started
<1>4. StillValid' /\ Anchored' /\ Outlives' /\ FailuresExplained'
  BY <1>1, Zenon DEF StillValid, Anchored, Outlives, FailuresExplained, Started, PastWarning
<1>5. MissingVariableIsAnError'
  BY <1>1 DEF StartInv, Ordered, MissingVariableIsAnError, None
<1>6. QED
  BY <1>2, <1>3, <1>4, <1>5 DEF StartInv

(* A rotation leaves what validation said of the configuration itself and  *)
(* withdraws what it said of the files.                                    *)
LEMMA RotateFileKeepsInv == ASSUME StartInv, NEW path \in DOMAIN files, RotateFile(path) PROVE StartInv'
<1>1. /\ phase \notin Ended /\ seen' = None
      /\ UNCHANGED <<command, env, phase, raw, loaded, warned, why, report, disk, clock>>
  BY DEF RotateFile, process
<1>2. PICK f \in Rotated : files' = [files EXCEPT ![path] = f]
  BY Zenon DEF RotateFile
<1>3. UNCHANGED <<config, Mode, RequireEnv>>
  BY <1>1, SameProcess
<1>4. Dated'
  <2>1. \A p \in DOMAIN files' : DatedFile(files'[p])
    BY <1>2, StartupAssumption DEF StartInv, Dated
  <2>2. QED
    BY <1>1, <2>1 DEF StartInv, Dated, CountedDays, None
<1>5. Ordered'
  BY <1>1, <1>3 DEF StartInv, Ordered
<1>6. StillValid' /\ Outlives' /\ FailuresExplained'
  BY <1>1 DEF StillValid, Outlives, FailuresExplained, None
<1>7. Anchored'
  BY <1>1, <1>3, Zenon DEF StartInv, Anchored
<1>8. MissingVariableIsAnError'
  BY <1>1, <1>3 DEF StartInv, MissingVariableIsAnError
<1>9. QED
  BY <1>4, <1>5, <1>6, <1>7, <1>8 DEF StartInv

(* Time, an edit of a file that is never read again, and nothing at all.   *)
LEMMA OutsideKeepsInv ==
    ASSUME StartInv, UNCHANGED process, UNCHANGED <<files, seen>>, CountedDays(disk)',
           clock' = clock \/ clock' = clock + 1
    PROVE  StartInv'
<1>1. UNCHANGED <<command, env, phase, raw, loaded, warned, why, report>>
  BY DEF process
<1>2. /\ UNCHANGED <<config, Mode, RequireEnv, OwnIdentity, Margin, TrustBundleLoads>>
      /\ UNCHANGED <<AnchorRefused, RootsLoad(files, AnchorPaths)>>
      /\ \A limit : TooMany(limit)' = TooMany(limit)
      /\ \A t : WorldAt(t)' = WorldAt(t)
  BY <1>1, SameProcess
<1>3. Dated'
  BY <1>1 DEF StartInv, Dated
<1>4. Ordered'
  BY <1>1, <1>2 DEF StartInv, Ordered
<1>5. StillValid'
  BY <1>1, <1>2 DEF StartInv, StillValid
<1>6. Anchored'
  BY <1>1, <1>2, Zenon DEF StartInv, Anchored
<1>7. Outlives'
  BY <1>1, <1>2 DEF StartInv, Outlives
<1>8. FailuresExplained'
  BY <1>1, <1>2 DEF StartInv, FailuresExplained
<1>9. MissingVariableIsAnError'
  BY <1>1, <1>2, Zenon DEF StartInv, MissingVariableIsAnError
<1>10. QED
  BY <1>3, <1>4, <1>5, <1>6, <1>7, <1>8, <1>9 DEF StartInv

-----------------------------------------------------------------------------
(* Every step of a process and of the world around it keeps StartInv.      *)
THEOREM StartInvariant == Spec => []StartInv
<1>1. Init => StartInv
  <2> SUFFICES ASSUME Init PROVE StartInv
    OBVIOUS
  <2>1. PICK c \in Cases : command = c.command /\ disk = c.disk /\ files = c.files /\ env = c.env
    BY Zenon DEF Init
  <2>2. Dated
    BY <2>1, StartupAssumption, Zenon DEF Init, Dated, None
  <2>3. Ordered
    BY <2>1, StartupAssumption, Zenon DEF Init, Ordered, Started
  <2>4. StillValid /\ Anchored /\ Outlives /\ FailuresExplained
    BY Zenon DEF Init, StillValid, Anchored, Outlives, FailuresExplained, Started, PastWarning
  <2>5. MissingVariableIsAnError
    BY Zenon DEF Init, MissingVariableIsAnError, None
  <2>6. QED
    BY <2>2, <2>3, <2>4, <2>5 DEF StartInv
<1>2. StartInv /\ [Next]_vars => StartInv'
  <2> SUFFICES ASSUME StartInv, [Next]_vars PROVE StartInv'
    OBVIOUS
  <2>1. CountedDays(disk)
    BY DEF StartInv, Dated
  <2>2. CASE UNCHANGED vars
    BY <2>1, <2>2, OutsideKeepsInv DEF vars, outside, CountedDays
  <2>3. CASE EditConfig
    <3>1. disk' \in Edited
      BY <2>3 DEF EditConfig
    <3>2. CountedDays(disk)'
      BY <3>1, StartupAssumption DEF CountedDays
    <3>3. QED
      BY <2>3, <3>2, OutsideKeepsInv DEF EditConfig
  <2>4. CASE Tick
    BY <2>1, <2>4, OutsideKeepsInv DEF Tick, CountedDays
  <2>5. CASE Over
    BY <2>2, <2>5 DEF Over
  <2>6. QED
    BY <2>2, <2>3, <2>4, <2>5, HashConfigKeepsInv, LoadKeepsInv, ValidateKeepsInv, WarnKeepsInv,
       BuildServerTlsKeepsInv, BuildServerStateKeepsInv, BuildClientKeepsInv, BindKeepsInv,
       RotateFileKeepsInv DEF Next
<1>3. QED
  BY <1>1, <1>2, PTL DEF Spec

(* Validation is as strict as starting but for the causes the property     *)
(* lists, for every configuration, mode and set of files (config.rs:328,   *)
(* tls.rs:94, main.rs:235).                                                *)
THEOREM ValidatedStartsHolds == Spec => []ValidatedStarts
<1>1. StartInv => ValidatedStarts
  BY DEF StartInv, Ordered, FailuresExplained, ValidatedStarts
<1>2. QED
  BY <1>1, StartInvariant, PTL

(* Whatever files are rotated between validation and listening, each       *)
(* allowed identity written without padding can be bound to an anchor.     *)
THEOREM AllowedIdentitiesAreAnchoredHolds == Spec => []AllowedIdentitiesAreAnchored
<1>1. StartInv => AllowedIdentitiesAreAnchored
  BY ValidIdentityIsAnchored, Zenon DEF StartInv, Anchored, AllowedIdentitiesAreAnchored, Started
<1>2. QED
  BY <1>1, StartInvariant, PTL

(* The report of the validate command never lists a missing variable next  *)
(* to a clean bill, although its two parts are computed apart.             *)
THEOREM MissingVariableIsAnErrorHolds == Spec => []MissingVariableIsAnError
<1>1. StartInv => MissingVariableIsAnError
  BY DEF StartInv
<1>2. QED
  BY <1>1, StartInvariant, PTL

(* A process that listens in silence has a certificate that outlives its   *)
(* validation by the margin, whatever the number of days.                  *)
THEOREM NoSilentExpiryHolds == Spec => []NoSilentExpiry
<1>1. StartInv => NoSilentExpiry
  BY DEF StartInv, Outlives, NoSilentExpiry, Margin, Started, PastWarning
<1>2. QED
  BY <1>1, StartInvariant, PTL

-----------------------------------------------------------------------------
\* The upper bound of permits rests on the conservation law and the law on
\* the types, so the two are proved together.
PermitInv == TypeOK /\ ConnectionPermits

(* Any set of connections is finite and can be counted.                    *)
LEMMA ConnsCount ==
    ASSUME NEW S \in SUBSET Conns
    PROVE  IsFiniteSet(S) /\ Cardinality(S) \in Nat
  BY ConnsAssumption, FS_Subset, FS_CardinalityType

(* A connection whose task starts adds one live connection, one whose task *)
(* ends takes one away, and any other move leaves their number alone.      *)
LEMMA MoveCounts ==
    ASSUME TypeOK, NEW c \in Conns, NEW from, NEW to, Move(c, from, to)
    PROVE  Cardinality(Owners') = Cardinality(Owners)
              + (IF to \in Owning THEN 1 ELSE 0)
              - (IF conn[c] \in Owning THEN 1 ELSE 0)
<1>1. /\ Owners' = IF to \in Owning THEN Owners \cup {c} ELSE Owners \ {c}
      /\ c \in Owners <=> conn[c] \in Owning
  BY DEF TypeOK, Move, Owners
<1>2. IsFiniteSet(Owners) /\ Cardinality(Owners) \in Nat
  BY ConnsCount DEF Owners
<1>3. Cardinality(Owners \cup {c}) = IF c \in Owners THEN Cardinality(Owners)
                                      ELSE Cardinality(Owners) + 1
  BY <1>2, FS_AddElement, Zenon
<1>4. Cardinality(Owners \ {c}) = IF c \in Owners THEN Cardinality(Owners) - 1
                                   ELSE Cardinality(Owners)
  BY <1>2, FS_RemoveElement
<1>5. QED
  BY <1>1, <1>2, <1>3, <1>4

(* The end of a connection's task, for whatever reason, gives its permit   *)
(* back (main.rs:269, 273 and 307).                                        *)
LEMMA CloseKeepsInv ==
    ASSUME PermitInv, NEW c \in Conns, NEW from \in SUBSET Owning, Close(c, from)
    PROVE  PermitInv'
<1>1. Cardinality(Owners') = Cardinality(Owners) - 1
  <2>1. conn[c] \in Owning /\ "closed" \notin Owning
    BY Zenon DEF Close, Move, Owning
  <2>2. Cardinality(Owners) \in Nat
    BY ConnsCount DEF Owners
  <2>3. QED
    BY <2>1, <2>2, MoveCounts DEF PermitInv, Close
<1>2. Cardinality(Owners) \in Nat /\ Cardinality(Owners') \in Nat
  BY ConnsCount DEF Owners
<1>3. ConnectionPermits' /\ permits' \in 0..MaxConnections
  BY <1>1, <1>2, MaxConnectionsAssumption
  DEF PermitInv, TypeOK, ConnectionPermits, Close
<1>4. conn' \in [Conns -> Owning \cup {"new", "backlog", "closed"}]
  BY DEF PermitInv, TypeOK, Close, Move
<1>5. QED
  BY <1>3, <1>4 DEF PermitInv, TypeOK, Close

(* A task that goes from one await to the next keeps its permit.           *)
LEMMA StepKeepsInv ==
    ASSUME PermitInv, NEW c \in Conns, NEW from, NEW to \in Owning \cup {"backlog"},
           Move(c, from, to), conn[c] \in Owning <=> to \in Owning,
           UNCHANGED <<loop, permits>>, backlog' \in Seq(Conns)
    PROVE  PermitInv'
<1>1. Cardinality(Owners') = Cardinality(Owners)
  <2>1. Cardinality(Owners) \in Nat
    BY ConnsCount DEF Owners
  <2>2. QED
    BY <2>1, MoveCounts DEF PermitInv
<1>2. conn' \in [Conns -> Owning \cup {"new", "backlog", "closed"}]
  BY DEF PermitInv, TypeOK, Move
<1>3. QED
  BY <1>1, <1>2 DEF PermitInv, TypeOK, ConnectionPermits

(* The accept loop keeps the invariant: the permit it takes in acquire is  *)
(* dropped on an accept error and otherwise goes to the new task.          *)
LEMMA ListenerKeepsInv ==
    ASSUME PermitInv, Listener
    PROVE  PermitInv'
<1>1. Cardinality(Owners) \in Nat
  BY ConnsCount DEF Owners
<1>2. CASE Acquire \/ AcceptError \/ BackoffEnds
  <2>1. Owners' = Owners
    BY <1>2 DEF Acquire, AcceptError, BackoffEnds, Owners
  <2>2. QED
    BY <1>1, <1>2, <2>1, MaxConnectionsAssumption
    DEF PermitInv, TypeOK, ConnectionPermits, Acquire, AcceptError, BackoffEnds
<1>3. CASE Accept
  <2>1. Head(backlog) \in Conns /\ Tail(backlog) \in Seq(Conns)
    BY <1>3 DEF Accept, PermitInv, TypeOK
  <2>2. Cardinality(Owners') = Cardinality(Owners) + 1
    <3>1. conn[Head(backlog)] \notin Owning /\ "handshake" \in Owning
      BY <1>3 DEF Accept, Move, Owning
    <3>2. QED
      BY <1>1, <1>3, <2>1, <3>1, MoveCounts DEF Accept, PermitInv
  <2>3. conn' \in [Conns -> Owning \cup {"new", "backlog", "closed"}]
    BY <1>3, <2>1 DEF Accept, PermitInv, TypeOK, Move, Owning
  <2>4. QED
    BY <1>1, <1>3, <2>1, <2>2, <2>3 DEF Accept, PermitInv, TypeOK, ConnectionPermits
<1>4. QED
  BY <1>2, <1>3 DEF Listener

(* Every step of the listener and of the connection tasks (run_server)     *)
(* keeps the permits conserved and within their range.                     *)
THEOREM PermitInvariant == AcceptSpec => []PermitInv
<1>1. AcceptInit => PermitInv
  <2>1. SUFFICES ASSUME AcceptInit PROVE PermitInv
    OBVIOUS
  <2>2. Owners = {}
    BY <2>1 DEF AcceptInit, Owners, Owning
  <2>3. Cardinality(Owners) = 0
    BY <2>2, FS_EmptySet
  <2>4. QED
    BY <2>1, <2>3, MaxConnectionsAssumption DEF AcceptInit, PermitInv, TypeOK, ConnectionPermits
<1>2. PermitInv /\ [AcceptNext]_avars => PermitInv'
  <2>1. SUFFICES ASSUME PermitInv, [AcceptNext]_avars PROVE PermitInv'
    OBVIOUS
  <2>2. CASE Listener
    BY <2>1, <2>2, ListenerKeepsInv
  <2>3. ASSUME NEW c \in Conns, Connect(c) PROVE PermitInv'
    <3>1. "backlog" \notin Owning /\ conn[c] \notin Owning
      BY <2>3 DEF Connect, Move, Owning
    <3>2. Append(backlog, c) \in Seq(Conns)
      BY <2>1 DEF PermitInv, TypeOK
    <3>3. QED
      BY <2>1, <2>3, <3>1, <3>2, StepKeepsInv DEF Connect
  <2>4. ASSUME NEW c \in Conns,
               HandshakeFails(c) \/ HandshakeTimesOut(c) \/ ResponseSent(c)
                  \/ HeadersTimeOut(c) \/ PeerCloses(c)
        PROVE  PermitInv'
    <3>1. PICK from \in SUBSET Owning : Close(c, from)
      BY <2>4 DEF HandshakeFails, HandshakeTimesOut, ResponseSent, HeadersTimeOut,
                  PeerCloses, Owning, UpToPeer
    <3>2. QED
      BY <2>1, <3>1, CloseKeepsInv
  <2>5. ASSUME NEW c \in Conns,
               HandshakeSucceeds(c) \/ FirstBytes(c) \/ RequestArrives(c) \/ Answered(c)
        PROVE  PermitInv'
    <3>1. PICK from \in SUBSET Owning, to \in Owning :
            Move(c, from, to) /\ conn[c] \in Owning /\ UNCHANGED <<loop, permits, backlog>>
      BY <2>5, Zenon DEF HandshakeSucceeds, FirstBytes, RequestArrives, Answered, Move, Owning
    <3>2. QED
      BY <2>1, <3>1, StepKeepsInv DEF PermitInv, TypeOK
  <2>6. CASE Idle \/ UNCHANGED avars
    BY <2>1, <2>6, Zenon DEF Idle, avars, PermitInv, TypeOK, ConnectionPermits, Owners
  <2>7. QED
    BY <2>1, <2>2, <2>3, <2>4, <2>5, <2>6 DEF AcceptNext, Task
<1>3. QED
  BY <1>1, <1>2, PTL DEF AcceptSpec

(* The permits, the loop and every connection keep their types.            *)
THEOREM TypeOKHolds == AcceptSpec => []TypeOK
  BY PermitInvariant, PTL DEF PermitInv

(* No connection permit is ever lost or given back twice, so there are     *)
(* never more than MaxConnections live connections (main.rs:242).          *)
THEOREM ConnectionPermitsHold == AcceptSpec => []ConnectionPermits
  BY PermitInvariant, PTL DEF PermitInv

-----------------------------------------------------------------------------
(* A set of positions that is not empty has a first one.                   *)
LEMMA FirstPosition ==
    ASSUME NEW S \in SUBSET Nat, S # {}
    PROVE  \E x \in S : \A y \in S : x <= y
<1> DEFINE R == {ss \in Nat \X Nat : ss[1] < ss[2]}
<1>1. IsWellFoundedOn(R, Nat)
  BY NatLessThanWellFounded DEF OpToRel
<1>2. \A x, y \in Nat : y < x => <<y, x>> \in R
  OBVIOUS
<1> HIDE DEF R
<1>3. PICK x \in S : \A y \in S : <<y, x>> \notin R
  BY <1>1, WFMin, Zenon
<1>4. ASSUME NEW y \in S PROVE x <= y
  <2>1. x \in Nat /\ y \in Nat
    OBVIOUS
  <2>2. ~(y < x)
    BY <1>2, <1>3, <2>1, Zenon
  <2>3. QED
    BY <2>1, <2>2
<1>5. QED
  BY <1>4

(* Iterator::find answers an element that passes, and answers one whenever *)
(* some element passes.                                                    *)
LEMMA FindMeaning ==
    ASSUME NEW s, NEW passing \in SUBSET Nat
    PROVE  /\ \A v \in Find(s, passing) : \E i \in passing : v = s[i]
           /\ passing # {} => Find(s, passing) # {}
<1>1. \A v \in Find(s, passing) : \E i \in passing : v = s[i]
  BY DEF Find
<1>2. ASSUME passing # {} PROVE Find(s, passing) # {}
  <2>1. PICK x \in passing : \A y \in passing : x <= y
    BY <1>2, FirstPosition
  <2>2. s[x] \in Find(s, passing)
    BY <2>1 DEF Find
  <2>3. QED
    BY <2>2
<1>3. QED
  BY <1>1, <1>2

\* What holds of a connection at every moment.
PeerInv ==
    /\ trust \in TrustChoices /\ chain \in ChainChoices
    /\ hour \in Nat /\ asked \in Nat /\ open \in BOOLEAN
    /\ open => chain.client_auth /\ chain.from <= hour
    /\ \A id \in peer : id \in VerifyPeer(trust, chain, asked) /\ Allowlisted(trust, id)

(* The identity of the last request stays what verify_peer answered when   *)
(* it was judged, and an open connection has passed the handshake.         *)
THEOREM PeerInvariant == PeerSpec => []PeerInv
<1>1. PeerInit => PeerInv
  <2> SUFFICES ASSUME PeerInit PROVE PeerInv
    OBVIOUS
  <2>1. trust \in TrustChoices /\ chain \in ChainChoices /\ hour \in Nat /\ asked \in Nat
    BY DEF PeerInit
  <2>2. open \in BOOLEAN /\ ~open
    BY Zenon DEF PeerInit
  <2>3. peer = {}
    BY DEF PeerInit, None
  <2>4. QED
    BY <2>1, <2>2, <2>3 DEF PeerInv
<1>2. PeerInv /\ [PeerNext]_peervars => PeerInv'
  <2> SUFFICES ASSUME PeerInv, [PeerNext]_peervars PROVE PeerInv'
    OBVIOUS
  <2>1. chain.from \in Int
    BY PeerAssumption DEF PeerInv
  <2>2. CASE Handshake
    <3>1. ChainsTo({a.ca : a \in trust.anchors}, chain, hour)
      BY <2>2 DEF Handshake, TlsAccepts
    <3>2. chain.client_auth /\ chain.from <= hour
      BY <3>1 DEF ChainsTo, ValidAt
    <3>3. QED
      BY <2>2, <3>2 DEF Handshake, PeerInv
  <2>3. CASE AskAsPeer
    BY <2>3 DEF AskAsPeer, PeerInv
  <2>4. CASE PassHour
    BY <2>1, <2>4 DEF PassHour, PeerInv
  <2>5. CASE UNCHANGED peervars
    BY <2>5 DEF peervars, PeerInv
  <2>6. QED
    BY <2>2, <2>3, <2>4, <2>5 DEF PeerNext
<1>3. QED
  BY <1>1, <1>2, PTL DEF PeerSpec

(* extract_peer_identity_from_der answers a SPIFFE name when the leaf has  *)
(* one, and otherwise at most a DNS name (identity.rs:185).                *)
LEMMA ExtractedName ==
    ASSUME PeerInv, NEW time
    PROVE  LET ids == ExtractPeerIdentity(chain, trust.allow_dns, time)
           IN  /\ ids # {} => ValidAt(chain, time) /\ chain.client_auth
               /\ \A id \in ids : IF SpiffeNames # {} THEN id \in SpiffeNames ELSE id \in LeafNames("dns")
               /\ SpiffeNames # {} /\ ValidAt(chain, time) /\ chain.client_auth => ids # {}
<1> DEFINE at(type) == {i \in DOMAIN chain.sans : chain.sans[i].type = type}
           spiffeAt == {i \in at("uri") : chain.sans[i].value \in DOMAIN SpiffeDomain}
           uri == Find(chain.sans, spiffeAt)
           dns == Find(chain.sans, at("dns"))
           ids == ExtractPeerIdentity(chain, trust.allow_dns, time)
<1>1. spiffeAt \in SUBSET Nat /\ at("dns") \in SUBSET Nat
  BY PeerAssumption DEF PeerInv
<1>2. SpiffeNames = {chain.sans[i].value : i \in spiffeAt}
  BY DEF SpiffeNames, LeafNames
<1>3. LeafNames("dns") = {chain.sans[i].value : i \in at("dns")}
  BY DEF LeafNames
<1>4. ids = IF ~ValidAt(chain, time) \/ ~chain.client_auth THEN None
            ELSE IF uri # None \/ ~trust.allow_dns THEN {n.value : n \in uri}
            ELSE {n.value : n \in dns}
  BY DEF ExtractPeerIdentity
<1> HIDE DEF at, spiffeAt, ids
<1>5. /\ \A n \in uri : n.value \in SpiffeNames
      /\ SpiffeNames # {} => uri # {}
  <2>1. /\ \A n \in uri : \E i \in spiffeAt : n = chain.sans[i]
        /\ spiffeAt # {} => uri # {}
    BY <1>1, FindMeaning
  <2> HIDE DEF uri
  <2>2. QED
    BY <1>2, <2>1
<1>6. \A n \in dns : n.value \in LeafNames("dns")
  BY <1>1, <1>3, FindMeaning
<1> HIDE DEF uri, dns
<1>7. ids # {} => ValidAt(chain, time) /\ chain.client_auth
  BY <1>4 DEF None
<1>8. ASSUME NEW id \in ids
      PROVE  IF SpiffeNames # {} THEN id \in SpiffeNames ELSE id \in LeafNames("dns")
  BY <1>4, <1>5, <1>6, <1>8 DEF None
<1>9. SpiffeNames # {} /\ ValidAt(chain, time) /\ chain.client_auth => ids # {}
  BY <1>4, <1>5 DEF None
<1>10. QED
  BY <1>7, <1>8, <1>9 DEF ids

(* The roots verify_peer binds an identity to lead to an anchor of its own *)
(* domain, and to every one of them (tls.rs:70-90).                        *)
LEMMA BoundIsAnchored ==
    ASSUME NEW id
    PROVE  chain.issuers \cap BoundRoots(trust, id) # {} <=> AnchoredFor(id)
<1>1. CASE id \in DOMAIN SpiffeDomain /\ SpiffeDomain[id] # ""
  <2>1. TrustDomain(id) = {SpiffeDomain[id]}
    BY <1>1, Zenon DEF TrustDomain
  <2>2. BoundRoots(trust, id) = {a.ca : a \in {x \in trust.anchors : x.trust_domain = SpiffeDomain[id]}}
    BY <2>1 DEF BoundRoots, AnchorsByDomain, The, None
  <2>3. QED
    BY <1>1, <2>2, Zenon DEF AnchoredFor
<1>2. CASE ~(id \in DOMAIN SpiffeDomain /\ SpiffeDomain[id] # "")
  <2>1. TrustDomain(id) = {}
    BY <1>2, Zenon DEF TrustDomain, None
  <2>2. BoundRoots(trust, id) = IF trust.allow_dns
                                THEN {a.ca : a \in {x \in trust.anchors : id \in x.dns_identities}}
                                ELSE {}
    BY <2>1 DEF BoundRoots, AnchorsByDns, None
  <2>3. QED
    BY <1>2, <2>2, Zenon DEF AnchoredFor
<1>3. QED
  BY <1>1, <1>2, Zenon

(* The denylist is compared without regard to case (tls.rs:39-46).         *)
LEMMA DenylistMeaning ==
    ASSUME PeerInv
    PROVE  ~Denylisted(trust, chain) <=> NotDenied
<1>1. chain.fingerprint \notin DOMAIN LowerCase
  BY PeerAssumption DEF PeerInv
<1>2. ASSUME NEW f \in trust.denied
      PROVE  Lower(f) # chain.fingerprint <=>
                f # chain.fingerprint /\ (f \in DOMAIN LowerCase => LowerCase[f] # chain.fingerprint)
  BY <1>1 DEF Lower
<1>3. QED
  BY <1>2 DEF Denylisted, NotDenied

(* Requests are attributed to bound identities only, for every set of      *)
(* anchors, every chain and every moment.                                  *)
THEOREM PeerIsBoundHolds == PeerSpec => []PeerIsBound
<1>1. PeerInv => PeerIsBound
  <2> SUFFICES ASSUME PeerInv, NEW id \in peer
               PROVE  /\ AnchoredFor(id) /\ NotDenied
                      /\ \E a \in trust.allowed : Trim(a) = id
                      /\ asked \in chain.from..chain.until
                      /\ IF SpiffeNames # {} THEN id \in SpiffeNames ELSE id \in LeafNames("dns")
    BY DEF PeerIsBound
  <2>1. /\ id \in ExtractPeerIdentity(chain, trust.allow_dns, asked)
        /\ ~Denylisted(trust, chain) /\ ChainsTo(BoundRoots(trust, id), chain, asked)
    BY DEF PeerInv, VerifyPeer
  <2>2. AnchoredFor(id)
    BY <2>1, BoundIsAnchored, Zenon DEF ChainsTo
  <2>3. NotDenied
    BY <2>1, DenylistMeaning
  <2>4. \E a \in trust.allowed : Trim(a) = id
    BY DEF PeerInv, Allowlisted
  <2>5. asked \in chain.from..chain.until
    <3>1. chain.from <= asked /\ asked <= chain.until
      BY <2>1 DEF ChainsTo, ValidAt
    <3>2. chain.from \in Int /\ chain.until \in Int /\ asked \in Int
      BY PeerAssumption DEF PeerInv
    <3>3. QED
      BY <3>1, <3>2
  <2>6. IF SpiffeNames # {} THEN id \in SpiffeNames ELSE id \in LeafNames("dns")
    BY <2>1, ExtractedName
  <2>7. QED
    BY <2>2, <2>3, <2>4, <2>5, <2>6
<1>2. QED
  BY <1>1, PeerInvariant, PTL

(* A rightful peer is never turned away while its certificate is valid.    *)
THEOREM RightfulPeerIsKnownHolds == PeerSpec => RightfulPeerIsKnown
<1>1. ASSUME PeerInv, NEW id \in SpiffeNames, AskAsPeer, SpiffeNames = {id}, AnchoredFor(id),
             NotDenied, Allowlisted(trust, id), hour <= chain.until
      PROVE  peer' = Some(id)
  <2>1. ValidAt(chain, hour) /\ chain.client_auth
    BY <1>1 DEF PeerInv, AskAsPeer, ValidAt
  <2>2. ExtractPeerIdentity(chain, trust.allow_dns, hour) = {id}
    BY <1>1, <2>1, ExtractedName
  <2>3. ChainsTo(BoundRoots(trust, id), chain, hour)
    BY <1>1, <2>1, BoundIsAnchored, Zenon DEF ChainsTo
  <2>4. ~Denylisted(trust, chain)
    BY <1>1, DenylistMeaning
  <2>5. VerifyPeer(trust, chain, hour) = {id}
    BY <2>2, <2>3, <2>4 DEF VerifyPeer
  <2>6. QED
    BY <1>1, <2>5 DEF AskAsPeer, Some
<1>2. PeerInv =>
        [\A id \in SpiffeNames :
            (/\ AskAsPeer /\ SpiffeNames = {id} /\ AnchoredFor(id) /\ NotDenied
             /\ Allowlisted(trust, id) /\ hour <= chain.until) => peer' = Some(id)]_peervars
  BY <1>1
<1>3. QED
  BY <1>2, PeerInvariant, PTL DEF RightfulPeerIsKnown
=============================================================================
