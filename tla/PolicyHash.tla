----------------------------- MODULE PolicyHash -----------------------------
(***************************************************************************)
(* The policy hash that goes on record with every decision                 *)
(* (route_purpose_policy_hash, proxy.rs) and its cache in the route        *)
(* (PolicyHashCache, config.rs).  Requests of one process share the cache  *)
(* of a route; a restarted process may have another route under the same   *)
(* id and starts with an empty cache, while the records stay.              *)
(*                                                                         *)
(* The material of the hash is a sequence of characters, written one field *)
(* after the other.  A text is one character unless Spelling says how it   *)
(* is spelled, so that a text may hold what the separators and names of    *)
(* the material look like.  SHA-256 is taken as injective: a hash is the   *)
(* material it was computed from.                                          *)
(***************************************************************************)
EXTENDS PurposePolicy, TLC

CONSTANTS Tasks,         \* request handlers that authorize a purpose
          Routes,        \* the routes a process may be configured with
          Entitlements,  \* the peers' entitlements
          Probes,        \* requests to compare routes by: [identity, headers, now]
          Texts,         \* the texts of the routes, and what numbers are written as
          Characters,    \* what texts, prefixes and the material are written in
          Spelling,      \* function: text -> sequence of characters
          MaxNumber,     \* the largest length or age, u64::MAX in the code
          MaxRestarts    \* bound on restarts

VARIABLES route,     \* the configured route
          cache,     \* its cached [material, hash], optional
          material,  \* the material a task has built, optional
          records,   \* the decisions on record: [hash, route]
          restarts

vars == <<route, cache, material, records, restarts>>

Routing == INSTANCE Routing WITH Decode <- <<>>, Undecodable <- {}

Spell(v) == IF v \in DOMAIN Spelling THEN Spelling[v] ELSE <<v>>
OrEmpty(option) == IF option = None THEN "" ELSE The(option)
NumberOrEmpty(option) == IF option = None THEN "" ELSE ToString(The(option))
TrueOrFalse(b) == IF b THEN "true" ELSE "false"

FieldNames ==
    {"schema", "route_id", "client_identity", "local_prefix", "upstream_prefix",
     "require_purpose", "method", "purpose", "governed_policy",
     "governed_minimum_assurance", "governed_max_source_age_seconds",
     "governed_require_legal_basis", "governed_require_consent",
     "governed_permitted_purpose", "governed_permitted_jurisdiction",
     "governed_allowed_assurance", "governed_redaction_field",
     "governed_unsupported_odrl_term", "trusted_jurisdiction",
     "trusted_asserted_assurance", "trusted_legal_basis_ref", "trusted_consent_ref",
     "trusted_source_observed_age_seconds"}

Numbers == 0..MaxNumber
Given == Texts \ {""}
Options(S) == {None} \cup {Some(v) : v \in S}

Contexts ==
    [jurisdiction : Options(Given), assurance : Options(Given), legal_basis : Options(Given),
     consent : Options(Given), age : Options(Numbers)]
Policies ==
    [permitted_purposes : SUBSET Texts, permitted_jurisdictions : SUBSET Texts,
     allowed_assurance : SUBSET Texts, minimum_assurance : Options(Given),
     max_source_age : Options(Numbers), require_legal_basis : BOOLEAN,
     require_consent : BOOLEAN, redaction_fields : SUBSET Texts,
     unsupported_odrl_terms : SUBSET Texts, trusted_context : Contexts]

\* What validate_config leaves of a route: an optional prefix or policy text
\* that is given is not empty.
WellFormed(r) ==
    /\ r.id \in Texts /\ r.require_purpose \in BOOLEAN
    /\ r.client_identity \in Options(Texts)
    /\ {r.client_identities, r.methods, r.purposes} \subseteq SUBSET Texts
    /\ \A o \in {r.local_prefix, r.upstream_prefix} : \A p \in o :
          o = Some(p) /\ p \in Seq(Characters) \ {<<>>} /\ Len(p) \in Numbers
    /\ \A p \in r.governed : r.governed = Some(p) /\ p \in Policies

\* Different texts have different characters, and different numbers are
\* written differently.
ASSUME TextsAssumption ==
    /\ MaxNumber \in Nat
    /\ IsFiniteSet(Texts)
    /\ {"", "true", "false", "route-purpose-policy-v3"} \subseteq Texts
    /\ \A v \in Texts :
          Trim(v) \in Texts /\ Spell(v) \in Seq(Characters) /\ Len(Spell(v)) \in Numbers
    /\ \A v, w \in Texts : Spell(v) = Spell(w) => v = w
    /\ FieldNames \cup {":", "\n"} \subseteq Characters
    /\ \A n \in Numbers : ToString(n) \in Given \cap Characters
    /\ \A m, n \in Numbers : ToString(m) = ToString(n) => m = n

\* An authorized peer has an identity that is not blank.
ASSUME RoutesAssumption ==
    /\ \A r \in Routes : WellFormed(r)
    /\ \A q \in Probes : Trim(q.identity) # ""

-----------------------------------------------------------------------------
\* Mutated: fields are separated but not measured.
PushCharactersUnmeasured(name, characters) == <<name, ":">> \o characters \o <<"\n">>

\* push_hash_field: the length before the value keeps fields apart.
PushCharacters(name, characters) ==
    <<name, ":", ToString(Len(characters)), ":">> \o characters \o <<"\n">>

\* The fields of the material, pairs of a name and the characters of the
\* value, in the order they are pushed.
Field(name, characters) == <<<<name, characters>>>>
HashField(name, value) == Field(name, Spell(value))

\* One field per value of a BTreeSet, in an order that depends on the set alone.
Sorted(values) == CHOOSE f \in [1..Cardinality(values) -> values] : IsInjective(f)
HashFields(name, values) ==
    LET sorted == Sorted(values)
    IN  [i \in DOMAIN sorted |-> <<name, Spell(sorted[i])>>]

GovernedFields(p) ==
    LET context == p.trusted_context
    IN  HashField("governed_policy", "true")
          \o HashField("governed_minimum_assurance", OrEmpty(p.minimum_assurance))
          \o HashField("governed_max_source_age_seconds", NumberOrEmpty(p.max_source_age))
          \o HashField("governed_require_legal_basis", TrueOrFalse(p.require_legal_basis))
          \o HashField("governed_require_consent", TrueOrFalse(p.require_consent))
          \o HashFields("governed_permitted_purpose", p.permitted_purposes)
          \o HashFields("governed_permitted_jurisdiction", p.permitted_jurisdictions)
          \o HashFields("governed_allowed_assurance", p.allowed_assurance)
          \o HashFields("governed_redaction_field", p.redaction_fields)
          \o HashFields("governed_unsupported_odrl_term", p.unsupported_odrl_terms)
          \o HashField("trusted_jurisdiction", OrEmpty(context.jurisdiction))
          \o HashField("trusted_asserted_assurance", OrEmpty(context.assurance))
          \o HashField("trusted_legal_basis_ref", OrEmpty(context.legal_basis))
          \o HashField("trusted_consent_ref", OrEmpty(context.consent))
          \o HashField("trusted_source_observed_age_seconds", NumberOrEmpty(context.age))

\* Prefixes are character sequences; the identities are trimmed.
RouteFields(r) ==
    LET identities == {Trim(i) : i \in r.client_identities} \ {""}
        prefix(option) == IF option = None THEN <<>> ELSE The(option)
    IN  HashField("schema", "route-purpose-policy-v3")
          \o HashField("route_id", r.id)
          \o HashField("client_identity", Trim(OrEmpty(r.client_identity)))
          \o HashFields("client_identity", identities)
          \o Field("local_prefix", prefix(r.local_prefix))
          \o Field("upstream_prefix", prefix(r.upstream_prefix))
          \o HashField("require_purpose", TrueOrFalse(r.require_purpose))
          \o HashFields("method", r.methods)
          \o HashFields("purpose", r.purposes)

Fields(r) ==
    RouteFields(r) \o
    IF r.governed = None THEN <<>> ELSE GovernedFields(The(r.governed))

\* Every field is appended to what the fields before it have written.
Written(fields) ==
    LET written[i \in 0..Len(fields)] ==
            IF i = 0 THEN <<>>
            ELSE written[i - 1] \o PushCharacters(fields[i][1], fields[i][2])
    IN  written[Len(fields)]

\* The material of route_purpose_policy_hash.
Material(r) == Written(Fields(r))

Sha256(m) == m

-----------------------------------------------------------------------------
Init ==
    /\ route \in Routes
    /\ cache = None
    /\ material = [t \in Tasks |-> None]
    /\ records = {}
    /\ restarts = 0

\* authorize_server_purpose answers without a hash in the other cases.
AsksDecisionPoint(r) ==
    \/ PurposeConstraints(r) # {}
    \/ r.governed # None /\ ~r.require_purpose

\* A task builds the material before it takes the lock of the cache.
BuildMaterial(t) ==
    /\ AsksDecisionPoint(route)
    /\ material[t] = None
    /\ material' = [material EXCEPT ![t] = Some(Material(route))]
    /\ UNCHANGED <<route, cache, records, restarts>>

\* Mutated: the entry is stored before its hash is known.
ComputedEarly(m) == [material |-> m, hash |-> <<>>]

Computed(m) == [material |-> m, hash |-> Sha256(m)]

\* The entry to use: a cached one counts for its own material only.
Entry(m) == IF \E c \in cache : c.material = m THEN The(cache) ELSE Computed(m)

(* get_or_compute under the lock, and the decision made with its result.   *)
GetOrCompute(t) ==
    \E m \in material[t] :
        /\ cache' = Some(Entry(m))
        /\ records' = records \cup {[hash |-> Entry(m).hash, route |-> route]}
        /\ material' = [material EXCEPT ![t] = None]
        /\ UNCHANGED <<route, restarts>>

\* A new process, perhaps with an edited route; a parsed or cloned route has
\* an empty cache, and the requests of the old process are gone.
Restart ==
    /\ restarts < MaxRestarts
    /\ restarts' = restarts + 1
    /\ route' \in Routes
    /\ cache' = None
    /\ material' = [t \in Tasks |-> None]
    /\ UNCHANGED records

Next == Restart \/ \E t \in Tasks : BuildMaterial(t) \/ GetOrCompute(t)

Spec == Init /\ [][Next]_vars

-----------------------------------------------------------------------------
(* The hash on record with a decision is the hash of the route that made   *)
(* it, although the tasks of a process share one cache entry and material  *)
(* is built before the lock is taken (config.rs:238).                      *)
RecordedHashIsOwn == \A d \in records : d.hash = Sha256(Material(d.route))

\* Routes a request cannot tell apart: they match the same requests and give
\* each of them the same verdicts.
DecideAlike(r, s) ==
    /\ r.methods = s.methods /\ r.upstream_prefix = s.upstream_prefix
    /\ \A q \in Probes :
          /\ Routing!RouteMatchesClientIdentity(r, q.identity)
                = Routing!RouteMatchesClientIdentity(s, q.identity)
          /\ AuthorizeServerPurpose(r, q.headers, Entitlements, q.identity, q.now)
                = AuthorizeServerPurpose(s, q.headers, Entitlements, q.identity, q.now)

(* An auditor may compare hashes: two decisions recorded under the same    *)
(* policy hash, in one process or across an edited configuration, were     *)
(* made by routes that match the same requests and give every one of them  *)
(* the same verdicts.  It needs every deciding field in the material, a    *)
(* length before each value, and a cache that answers for its own material *)
(* (proxy.rs:784).                                                         *)
SameHashSameDecision ==
    \A a, b \in records : a.hash = b.hash => DecideAlike(a.route, b.route)

(* The inductive invariant behind it: material under way is the current    *)
(* route's, and what is cached belongs together.                           *)
CacheInv ==
    /\ RecordedHashIsOwn
    /\ \A c, d \in cache : c = d /\ c.hash = Sha256(c.material)
    /\ material \in [Tasks -> {None, Some(Material(route))}]

(* Every decision on record was made by a route of some configuration.     *)
RoutesInv == route \in Routes /\ \A d \in records : d.route \in Routes
=============================================================================
