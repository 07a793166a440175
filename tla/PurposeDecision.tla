--------------------------- MODULE PurposeDecision ---------------------------
(***************************************************************************)
(* One request and its verdict: a request of some client meets a route of  *)
(* the configuration, and authorize_server_purpose decides.  The reference *)
(* definitions say, without the scopes and gates of the code, what a       *)
(* permit should mean.                                                     *)
(***************************************************************************)
EXTENDS PurposePolicy

CONSTANTS RouteChoices,   \* the routes a request may meet
          HeaderChoices,  \* the headers it may carry
          Clients,        \* the identities it may come from
          Entitlements,   \* client_trust.trust_context_entitlements
          DecidedAt       \* the time of the decision

ContextFields == TextFields \cup {"age"}

\* A trusted context has at most one age, an unsigned integer.
IsContext(context) ==
    /\ DOMAIN context = ContextFields
    /\ \A a, b \in context.age : a = b /\ a \in Nat

\* validate_config refuses a second entitlement for the same identity.
ASSUME EntitlementAssumption ==
    /\ \A i \in DOMAIN Entitlements : IsContext(Entitlements[i].trusted_context)
    /\ \A i, j \in DOMAIN Entitlements :
          Trim(Entitlements[i].client_identity) = Trim(Entitlements[j].client_identity) => i = j
    /\ DOMAIN Entitlements \subseteq Nat
ASSUME DecisionAssumption ==
    /\ DecidedAt \in Nat
    /\ \A r \in RouteChoices :
          /\ IsContext(PolicyOf(r).trusted_context)
          /\ \A a, b \in PolicyOf(r).max_source_age : a = b /\ a \in Nat
    /\ \A h \in HeaderChoices : h.age \cup h.at \subseteq Nat \cup {Unparsable}

VARIABLES route, headers, identity, verdict

decisionvars == <<route, headers, identity, verdict>>

Undecided == Refused(NoProblem)

DecisionInit ==
    /\ route \in RouteChoices
    /\ headers \in HeaderChoices
    /\ identity \in Clients
    /\ verdict = Undecided

Decide ==
    /\ verdict = Undecided
    /\ verdict' \in AuthorizeServerPurpose(route, headers, Entitlements, identity, DecidedAt)
    /\ UNCHANGED <<route, headers, identity>>

DecisionSpec == DecisionInit /\ [][Decide]_decisionvars

-----------------------------------------------------------------------------
\* Reference: what the client's entitlement grants, and the route's own list
\* does not rule out.
Vouched(field) ==
    LET own == PolicyOf(route).trusted_context
        grants == {Entitlements[i].trusted_context[field] : i \in
                     {j \in DOMAIN Entitlements : Trim(Entitlements[j].client_identity) = identity}}
    IN  {v \in UNION grants : v \in own[field] \/ \A f \in ContextFields : own[f] = None}

\* Reference: the values the request states and someone vouches for.
Proven(field) == ({Trim(raw) : raw \in headers[field]} \ {""}) \cap Vouched(field)

\* Reference: no older than a vouched age, nor than the route's maximum.
VouchedAge(age) == \E limit \in Vouched("age") : age \in 0..limit
FreshBy(age) == VouchedAge(age) /\ \A m \in PolicyOf(route).max_source_age : age <= m

\* Reference: the age header, when present, hides the timestamp; a timestamp
\* next to an age beyond the vouched one is left to the decision point.
SurelyFresh == IF headers.age # None THEN \E a \in headers.age : FreshBy(a)
                                     ELSE \E t \in headers.at : FreshBy(DecidedAt - t)
MaybeFresh == \/ SurelyFresh
              \/ headers.age # None /\ \E t \in headers.at : VouchedAge(DecidedAt - t)

\* Reference: every configured condition of the route holds for the request.
Satisfied(fresh) ==
    LET p == PolicyOf(route)
        lists == {route.purposes, p.permitted_purposes} \ {{}}
    IN  /\ \E i \in DOMAIN headers.purposes :
              ~IsBlank(headers.purposes[i]) /\ \A list \in lists : Trim(headers.purposes[i]) \in list
        /\ route.require_purpose => lists # {}
        /\ p.permitted_jurisdictions # {} => Proven("jurisdiction") \cap p.permitted_jurisdictions # {}
        /\ p.allowed_assurance # {} => Proven("assurance") \cap p.allowed_assurance # {}
        /\ \A m \in p.minimum_assurance : \E v \in Proven("assurance") : <<v, m>> \in AssuranceMeets
        /\ p.max_source_age # None => fresh
        /\ p.require_legal_basis => Proven("legal_basis") # {}
        /\ p.require_consent => Proven("consent") # {}
        /\ p.redaction_fields = {} /\ p.unsupported_odrl_terms = {}

\* A route with neither purposes nor a policy lets any one purpose through.
Constrained == route.purposes # {} \/ route.require_purpose \/ route.governed # None

\* Reference: one data-purpose value at most is more than white space.
SinglePurpose ==
    \A i, j \in DOMAIN headers.purposes :
        ~IsBlank(headers.purposes[i]) /\ ~IsBlank(headers.purposes[j]) => i = j

Decided == verdict # Undecided
BadEvidence == Unparsable \in headers.age \cup headers.at

(* A permit (proxy.rs:409) is only given to a request that carries at most *)
(* one purpose, every configured list holds it, and every trust assertion  *)
(* a gate relied on is both in the request and vouched for by the peer's   *)
(* entitlement and the route's allowlist; the purpose passed on is that    *)
(* one.                                                                    *)
PermitIsJustified ==
    verdict.ok =>
        /\ Constrained => Satisfied(MaybeFresh)
        /\ SinglePurpose
        /\ verdict.purpose =
              {Trim(headers.purposes[i]) : i \in DOMAIN headers.purposes} \ {""}

(* A request that meets every condition the route configures, with         *)
(* well-formed evidence headers and a single purpose, is never refused:    *)
(* padding of header values, blank headers, an empty route allowlist and   *)
(* the age and timestamp alternatives do not cost a request its permit.    *)
JustifiedIsPermitted ==
    (Decided /\ ~BadEvidence /\ SinglePurpose /\ Satisfied(SurelyFresh)) => verdict.ok

(* Every denial of the decision point is for a gate the audit record names *)
(* a rule for (rule_ids_by_gate, proxy.rs:453); evidence that does not     *)
(* parse is refused before the decision point is asked.                    *)
DenialsNameTheirRule ==
    (verdict.problem.kind = "PdpDenied" /\ ~BadEvidence) =>
        \E g \in RuleGates(route) : verdict.problem.code = GateCode(g)

(* docs/security-model.md:54-55: a purpose outside the route list returns  *)
(* connector.purpose_denied.                                               *)
PurposeOutsideListIsPurposeDenied ==
    \A i \in DOMAIN headers.purposes :
        (/\ Decided /\ ~IsBlank(headers.purposes[i]) /\ route.purposes # {}
         /\ Trim(headers.purposes[i]) \notin route.purposes)
            => verdict = Refused(Problem("PurposeDenied"))
=============================================================================
