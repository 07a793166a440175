---------------------------- MODULE PurposePolicy ----------------------------
(***************************************************************************)
(* Purpose authorization in server mode (authorize_server_purpose and its  *)
(* helpers in proxy.rs).  The decision point itself (registry_platform_pdp)*)
(* is a library outside the repository: PdpDecisions is modelled from the  *)
(* inputs the connector gives it and the answers the tests expect.  The    *)
(* order in which it evaluates gates is unknown, so it is a set of         *)
(* possible decisions.                                                     *)
(*                                                                         *)
(* A trust scope registry:trust:field:value is the pair <<field, value>>.  *)
(* Headers are records: purposes is the sequence of data-purpose values,   *)
(* every other field is the optional first value of its trust header.      *)
(***************************************************************************)
EXTENDS Problems, Sequences, FiniteSetsExt, Text

CONSTANT AssuranceMeets  \* pairs <<asserted, minimum>> the decision point accepts

Unparsable == -1         \* a header value u64::parse rejects
TextFields == {"jurisdiction", "assurance", "legal_basis", "consent"}

Granted(purpose) == [ok |-> TRUE,  purpose |-> purpose, problem |-> NoProblem]
Refused(problem) == [ok |-> FALSE, purpose |-> None,    problem |-> problem]

\* GovernedTrustedContextConfig::default and GovernedRoutePolicyConfig::default
EmptyContext ==
    [jurisdiction |-> None, assurance |-> None, legal_basis |-> None,
     consent |-> None, age |-> None]
EmptyPolicy ==
    [permitted_purposes |-> {}, permitted_jurisdictions |-> {},
     allowed_assurance |-> {}, minimum_assurance |-> None,
     max_source_age |-> None, require_legal_basis |-> FALSE,
     require_consent |-> FALSE, redaction_fields |-> {},
     unsupported_odrl_terms |-> {},
     trusted_context |-> EmptyContext]

PolicyOf(route) ==
    IF route.governed = None THEN EmptyPolicy ELSE The(route.governed)

-----------------------------------------------------------------------------
\* Where the headers state a purpose: the data-purpose values that are not blank.
StatedAt(headers) == {i \in DOMAIN headers.purposes : ~IsBlank(headers.purposes[i])}

DataPurposes(headers) == {Trim(headers.purposes[i]) : i \in StatedAt(headers)}

\* single_data_purpose refuses a second value, even an equal one.
RepeatedPurpose(headers) == \E i, j \in StatedAt(headers) : i # j

TrustHeader(headers, field) == {Trim(v) : v \in headers[field]} \ {""}

VerifiedTrustHeader(headers, scopes, field) ==
    {v \in TrustHeader(headers, field) : <<field, v>> \in scopes}

ContextScopes(context) ==
    UNION {{<<f, v>> : v \in context[f]} : f \in DOMAIN context}

\* The first entitlement of the identity wins.
PeerScopes(entitlements, identity) ==
    UNION {ContextScopes(e.trusted_context) :
              e \in Find(entitlements, {i \in DOMAIN entitlements :
                                          Trim(entitlements[i].client_identity) = identity})}

\* Mutated: a route that lists its own assertions no longer needs the peer's.
TrustedScopesUnion(route, entitlements, identity) ==
    PeerScopes(entitlements, identity)
        \cup ContextScopes(PolicyOf(route).trusted_context)

\* Mutated: a route without an allowlist of its own trusts nothing.
TrustedScopesStrict(route, entitlements, identity) ==
    PeerScopes(entitlements, identity)
        \cap ContextScopes(PolicyOf(route).trusted_context)

\* An empty route allowlist leaves the peer's grants as they are.
TrustedScopes(route, entitlements, identity) ==
    LET peer == PeerScopes(entitlements, identity)
        own  == ContextScopes(PolicyOf(route).trusted_context)
    IN  IF own = {} THEN peer ELSE peer \cap own

-----------------------------------------------------------------------------
\* source_observed_age_limit_seconds: the largest granted age, if any.
AgeLimit(scopes) ==
    LET ages == {s[2] : s \in {x \in scopes : x[1] = "age"}}
    IN  IF ages = {} THEN None ELSE Some(Max(ages))

WithinLimit(age, scopes) == \E limit \in AgeLimit(scopes) : age <= limit

\* An unparsable value is only looked at when an age has been granted.
EvidenceMalformed(headers, scopes) ==
    /\ AgeLimit(scopes) # None
    /\ Unparsable \in headers.age \cup headers.at

ObservedAt(headers, scopes, now) ==
    {t \in headers.at : t <= now /\ WithinLimit(now - t, scopes)}

\* The age header, when present, hides the timestamp header.
ObservedAge(headers, scopes, now) ==
    IF headers.age # None
    THEN {a \in headers.age : WithinLimit(a, scopes)}
    ELSE {now - t : t \in ObservedAt(headers, scopes, now)}

\* request_pdp_context, for parsable evidence.
PdpContext(purpose, headers, scopes, now) ==
    [purpose |-> purpose,
     trust   |-> [f \in TextFields |-> VerifiedTrustHeader(headers, scopes, f)],
     at      |-> ObservedAt(headers, scopes, now),
     age     |-> ObservedAge(headers, scopes, now)]

-----------------------------------------------------------------------------
\* purpose_constraints: the non-empty lists, each of which must hold the purpose.
PurposeConstraints(route) ==
    {route.purposes, PolicyOf(route).permitted_purposes} \ {{}}

\* Mutated: a purpose list of the governed policy alone has no rule.
RuleGatesOfRoute(route) ==
    LET p == PolicyOf(route)
        on(gate, condition) == IF condition THEN {gate} ELSE {}
    IN  UNION {on("Purpose", route.purposes # {}),
               on("Jurisdiction", p.permitted_jurisdictions # {}),
               on("AssuranceAllowedSet", p.allowed_assurance # {}),
               on("MinimumAssurance", p.minimum_assurance # None),
               on("SourceFreshness", p.max_source_age # None),
               on("LegalBasisRequired", p.require_legal_basis),
               on("ConsentRequired", p.require_consent),
               on("OdrlTerms", p.unsupported_odrl_terms # {}),
               on("Redaction", p.redaction_fields # {})}

\* route_pdp_rule_ids_by_gate: the gates the audit record has a rule for.
RuleGates(route) ==
    LET p == PolicyOf(route)
        on(gate, condition) == IF condition THEN {gate} ELSE {}
    IN  UNION {on("Purpose", PurposeConstraints(route) # {}),
               on("Jurisdiction", p.permitted_jurisdictions # {}),
               on("AssuranceAllowedSet", p.allowed_assurance # {}),
               on("MinimumAssurance", p.minimum_assurance # None),
               on("SourceFreshness", p.max_source_age # None),
               on("LegalBasisRequired", p.require_legal_basis),
               on("ConsentRequired", p.require_consent),
               on("OdrlTerms", p.unsupported_odrl_terms # {}),
               on("Redaction", p.redaction_fields # {})}

Gates == {"Purpose", "Jurisdiction", "AssuranceAllowedSet", "MinimumAssurance",
          "SourceFreshness", "LegalBasisRequired", "ConsentRequired", "OdrlTerms"}

\* External: what each gate demands of the context; a gate left
\* unconfigured demands nothing.
GateHolds(gate, route, context) ==
    LET p == PolicyOf(route)
    IN  CASE gate = "Purpose" ->
               \A list \in PurposeConstraints(route) : context.purpose \in list
          [] gate = "Jurisdiction" ->
               \/ p.permitted_jurisdictions = {}
               \/ context.trust.jurisdiction \cap p.permitted_jurisdictions # {}
          [] gate = "AssuranceAllowedSet" ->
               \/ p.allowed_assurance = {}
               \/ context.trust.assurance \cap p.allowed_assurance # {}
          [] gate = "MinimumAssurance" ->
               \A m \in p.minimum_assurance :
                  \E a \in context.trust.assurance : <<a, m>> \in AssuranceMeets
          [] gate = "SourceFreshness" ->
               \A m \in p.max_source_age : \E a \in context.age : a <= m
          [] gate = "LegalBasisRequired" ->
               p.require_legal_basis => context.trust.legal_basis # None
          [] gate = "ConsentRequired" ->
               p.require_consent => context.trust.consent # None
          [] gate = "OdrlTerms" -> p.unsupported_odrl_terms = {}

\* External: the stable problem code of a gate.
GateCode(gate) ==
    CASE gate = "Purpose" -> "PURPOSE_NOT_PERMITTED"
      [] gate = "Jurisdiction" -> "JURISDICTION_NOT_PERMITTED"
      [] gate \in {"AssuranceAllowedSet", "MinimumAssurance"} -> "ASSURANCE_INSUFFICIENT"
      [] gate = "SourceFreshness" -> "EVIDENCE_STALE"
      [] gate = "LegalBasisRequired" -> "LEGAL_BASIS_REQUIRED"
      [] gate = "ConsentRequired" -> "CONSENT_REQUIRED"
      [] gate \in {"OdrlTerms", "Redaction"} -> "UNSUPPORTED_POLICY_TERM"

(* External: pdp_decide.  Any failing gate may be the one reported.  With  *)
(* a timestamp but no usable age in the context it is unknown whether the  *)
(* library dates the evidence itself, so the freshness gate may go either  *)
(* way.                                                                    *)
PdpDecisions(route, context) ==
    LET failing == {g \in Gates : ~GateHolds(g, route, context)}
        undated == context.age = None /\ context.at # None
        decide(failed) ==
            IF failed # {}
            THEN {[kind |-> "Deny", code |-> GateCode(g)] : g \in failed}
            ELSE IF PolicyOf(route).redaction_fields # {}
                 THEN {[kind |-> "PermitWithRedaction", code |-> ""]}
                 ELSE {[kind |-> "Permit", code |-> ""]}
    IN  decide(failing)
          \cup (IF undated THEN decide(failing \ {"SourceFreshness"}) ELSE {})

PdpProblemCode(code) == IF code \in PdpCodes THEN code ELSE "PURPOSE_NOT_PERMITTED"

\* The connector cannot rewrite payloads: a redaction is a refusal.
PdpVerdict(decision, purpose) ==
    CASE decision.kind = "Permit" -> Granted(Some(purpose))
      [] decision.kind = "PermitWithRedaction" ->
           Refused(PdpDenied("UNSUPPORTED_POLICY_TERM"))
      [] decision.kind = "Deny" -> Refused(PdpDenied(PdpProblemCode(decision.code)))

\* The possible verdicts of authorize_server_purpose.
AuthorizeServerPurpose(route, headers, entitlements, identity, now) ==
    LET stated == DataPurposes(headers)
        purpose == The(stated)
        scopes == TrustedScopes(route, entitlements, identity)
    IN  IF RepeatedPurpose(headers) THEN {Refused(Problem("PurposeDenied"))}
        ELSE IF route.purposes = {} /\ ~route.require_purpose /\ route.governed = None
        THEN {Granted(stated)}
        ELSE IF stated = None THEN {Refused(Problem("PurposeRequired"))}
        ELSE IF route.require_purpose /\ PurposeConstraints(route) = {}
        THEN {Refused(Problem("PurposeDenied"))}
        ELSE IF EvidenceMalformed(headers, scopes)
        THEN {Refused(PdpDenied("EVIDENCE_STALE"))}
        ELSE {PdpVerdict(d, purpose) : d \in
                PdpDecisions(route, PdpContext(purpose, headers, scopes, now))}
=============================================================================
