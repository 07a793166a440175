--------------------------- MODULE MCPurposePolicy ---------------------------
(***************************************************************************)
(* Model-checking instance of PurposeDecision: every small request against *)
(* every small valid route policy.  One entitlement grants a higher age    *)
(* than the policy's maximum, one a lower: evidence may be vouched for and *)
(* too old, or young enough and not vouched for.                           *)
(***************************************************************************)
EXTENDS PurposeDecision, SequencesExt

MCPadded == (" ZZ" :> "ZZ" @@ " ops" :> "ops" @@ " " :> "")
MCAssuranceMeets == {<<"high", "high">>, <<"high", "low">>, <<"low", "low">>}

FullContext == [jurisdiction |-> Some("ZZ"), assurance |-> Some("high"),
                legal_basis |-> Some("law"), consent |-> Some("yes"), age |-> Some(3)]
MCEntitlements == <<[client_identity |-> "a", trusted_context |-> FullContext],
                    [client_identity |-> "c", trusted_context |-> [FullContext EXCEPT !.age = Some(1)]]>>
Contexts == {EmptyContext, FullContext,
             [FullContext EXCEPT !.age = Some(1), !.consent = None],
             [EmptyContext EXCEPT !.jurisdiction = Some("YY")]}

\* A policy with the given gates on.
PolicyWith(gates, context) ==
    [permitted_purposes |-> IF "Purpose" \in gates THEN {"ops"} ELSE {},
     permitted_jurisdictions |-> IF "Jurisdiction" \in gates THEN {"ZZ"} ELSE {},
     allowed_assurance |-> IF "AssuranceAllowedSet" \in gates THEN {"high"} ELSE {},
     minimum_assurance |-> IF "MinimumAssurance" \in gates THEN Some("low") ELSE None,
     max_source_age |-> IF "SourceFreshness" \in gates THEN Some(2) ELSE None,
     require_legal_basis |-> "LegalBasisRequired" \in gates,
     require_consent |-> "ConsentRequired" \in gates,
     redaction_fields |-> IF "Redaction" \in gates THEN {"name"} ELSE {},
     unsupported_odrl_terms |-> IF "OdrlTerms" \in gates THEN {"count"} ELSE {},
     trusted_context |-> context]

SomeGates == LET all == Gates \cup {"Redaction"} IN kSubset(1, all) \cup kSubset(2, all)

\* validate_config wants at least one gate; two show how gates combine.
Policies == {PolicyWith(g, c) : g \in SomeGates, c \in Contexts}

Routes == [purposes : {{}, {"ops"}, {"ops", "stats"}},
           require_purpose : BOOLEAN,
           governed : {None} \cup {Some(p) : p \in Policies}]

PurposeHeaders == {<<>>, <<" ">>, <<" ", " ops">>, <<"stats">>, <<"ads">>, <<"ops", "ops">>}
\* All text headers present with granted values, absent, or foreign.
TextHeaders == {[f \in TextFields |-> None],
                [jurisdiction |-> Some(" ZZ"), assurance |-> Some("high"),
                 legal_basis |-> Some("law"), consent |-> Some("yes")],
                [jurisdiction |-> Some("YY"), assurance |-> Some("low"),
                 legal_basis |-> Some(" "), consent |-> Some("no")]}
Headers == {t @@ [purposes |-> p, age |-> a, at |-> at] :
              t \in TextHeaders, p \in PurposeHeaders,
              a \in {None, Some(Unparsable), Some(2), Some(3), Some(4)},
              at \in {None, Some(Unparsable), Some(4), Some(2), Some(6)}}
=============================================================================
