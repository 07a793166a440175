---------------------------- MODULE MCPolicyHash ----------------------------
(***************************************************************************)
(* Model-checking instance of PolicyHash: a governed route, every edit of  *)
(* one of its fields, and texts that spell a separator and a field name.   *)
(***************************************************************************)
EXTENDS PolicyHash

MCPadded == (" a" :> "a" @@ " ops" :> "ops")
MCAssuranceMeets == {<<"high", "high">>, <<"high", "low">>, <<"low", "low">>}
Joint(name) == "ops\n" \o name \o ":ads"
JointSpelling(name) == <<"ops", "\n", name, ":", "ads">>
MCSpelling == ("" :> <<>>) @@ (Joint("purpose") :> JointSpelling("purpose"))
              @@ (Joint("governed_permitted_purpose") :> JointSpelling("governed_permitted_purpose"))

MCCharacters == STRING
MCTexts ==
    {"", "true", "false", "route-purpose-policy-v3", "r", "GET", "POST", "a", " a", "b",
     "ops", " ops", "ads", Joint("purpose"), Joint("governed_permitted_purpose"),
     "ZZ", "YY", "low", "high", "law", "yes", "name", "count"}
    \cup {ToString(n) : n \in 0..5}

Context == [EmptyContext EXCEPT !.jurisdiction = Some("ZZ"), !.assurance = Some("low"),
                                !.legal_basis = Some("law"), !.consent = Some("yes"),
                                !.age = Some(3)]
Policy == [EmptyPolicy EXCEPT !.permitted_purposes = {"ops", "ads"},
                              !.permitted_jurisdictions = {"ZZ"},
                              !.trusted_context = Context]
Base == [id |-> "r", methods |-> {"GET"}, local_prefix |-> None,
         upstream_prefix |-> Some(<<"/", "a">>), client_identity |-> Some("a"),
         client_identities |-> {}, require_purpose |-> TRUE, purposes |-> {"ops", "ads"},
         governed |-> Some(Policy)]

MCPolicies ==
    {Policy,
     [Policy EXCEPT !.permitted_purposes = {"ops"}],
     [Policy EXCEPT !.permitted_purposes = {Joint("governed_permitted_purpose")}],
     [Policy EXCEPT !.permitted_jurisdictions = {}],
     [Policy EXCEPT !.permitted_jurisdictions = {"YY"}],
     [Policy EXCEPT !.allowed_assurance = {"high"}],
     [Policy EXCEPT !.allowed_assurance = {"low"}],
     [Policy EXCEPT !.minimum_assurance = Some("high")],
     [Policy EXCEPT !.minimum_assurance = Some("low")],
     [Policy EXCEPT !.max_source_age = Some(1)],
     [Policy EXCEPT !.max_source_age = Some(3)],
     [Policy EXCEPT !.require_legal_basis = TRUE],
     [Policy EXCEPT !.require_consent = TRUE],
     [Policy EXCEPT !.redaction_fields = {"name"}],
     [Policy EXCEPT !.unsupported_odrl_terms = {"count"}]}
    \cup {[Policy EXCEPT !.require_consent = TRUE, !.trusted_context[f] = None] :
            f \in DOMAIN Context}

MCRoutes ==
    {[Base EXCEPT !.governed = Some(p)] : p \in MCPolicies}
    \cup {[Base EXCEPT !.governed = None],
          [Base EXCEPT !.purposes = {"ops"}],
          [Base EXCEPT !.purposes = {" ops", "ads"}],
          [Base EXCEPT !.purposes = {Joint("purpose")}],
          [Base EXCEPT !.purposes = {}],
          [Base EXCEPT !.governed = None, !.purposes = {}],
          [Base EXCEPT !.governed = None, !.purposes = {}, !.require_purpose = FALSE],
          [Base EXCEPT !.methods = {"GET", "POST"}],
          [Base EXCEPT !.client_identity = Some(" a")],
          [Base EXCEPT !.client_identity = None, !.client_identities = {"a", "b"}],
          [Base EXCEPT !.client_identities = {"b"}],
          [Base EXCEPT !.upstream_prefix = Some(<<"/", "b">>)],
          [Base EXCEPT !.upstream_prefix = None, !.local_prefix = Some(<<"/", "a">>)]}

MCProbes ==
    {[identity |-> i, now |-> 0,
      headers |-> [jurisdiction |-> j, assurance |-> Some("low"), legal_basis |-> l,
                   consent |-> c, age |-> Some(2), at |-> None, purposes |-> <<p>>]] :
        i \in {"a", "b"}, j \in {None, Some("ZZ")}, l \in {None, Some("law")},
        c \in {None, Some("yes")}, p \in {"ops", "ads"}}
MCEntitlements == <<[client_identity |-> "a", trusted_context |-> Context]>>
=============================================================================
