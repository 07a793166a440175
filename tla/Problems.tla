------------------------------ MODULE Problems ------------------------------
(***************************************************************************)
(* ConnectorProblem (errors.rs): every way a request can be refused or     *)
(* fail, the HTTP status it is answered with and the outcome and stage     *)
(* written to the completion log.  A problem is a kind and, for PdpDenied, *)
(* the stable code of the decision point.                                  *)
(***************************************************************************)
EXTENDS Integers

\* The codes of registry_platform_pdp that pdp_problem_code knows.
PdpCodes == {"CONTEXT_REQUIRED", "PURPOSE_NOT_PERMITTED", "ASSURANCE_INSUFFICIENT",
             "EVIDENCE_STALE", "LEGAL_BASIS_REQUIRED", "CONSENT_REQUIRED",
             "JURISDICTION_NOT_PERMITTED", "RELATIONSHIP_NOT_PERMITTED",
             "REQUESTED_FACT_NOT_PERMITTED", "DISCLOSURE_NOT_PERMITTED",
             "CREDENTIAL_FORMAT_NOT_PERMITTED", "SOURCE_BINDING_NOT_PERMITTED",
             "ROUTE_IDENTITY_NOT_PERMITTED", "CHECKED_SCOPE_REQUIRED",
             "UNSUPPORTED_POLICY_TERM", "POLICY_REQUIRED", "POLICY_ID_REQUIRED",
             "POLICY_HASH_INVALID"}

IdentityKinds == {"ClientIdentityMissing", "ClientIdentityDenied"}
PurposeKinds  == {"PurposeRequired", "PurposeDenied"}
FailureKinds  == {"ConfigInvalid", "UpstreamAuthMissing", "UpstreamUnavailable"}
OtherKinds    == {"RouteDenied", "BodyTooLarge", "RequestTimeout", "RateLimited"}
PlainKinds    == IdentityKinds \cup PurposeKinds \cup FailureKinds \cup OtherKinds

Problem(kind) == [kind |-> kind, code |-> ""]
NoProblem == Problem("")
PdpDenied(code) == [kind |-> "PdpDenied", code |-> code]
ConnectorProblem == {Problem(k) : k \in PlainKinds} \cup {PdpDenied(c) : c \in PdpCodes}

Status(p) ==
    CASE p.kind \in {"ConfigInvalid", "UpstreamAuthMissing"} -> 500
      [] p.kind = "UpstreamUnavailable"                      -> 502
      [] p.kind = "ClientIdentityMissing"                    -> 401
      [] p.kind = "PurposeRequired"                          -> 400
      [] p.kind = "BodyTooLarge"                             -> 413
      [] p.kind = "RequestTimeout"                           -> 408
      [] p.kind = "RateLimited"                              -> 429
      [] p.kind \in {"ClientIdentityDenied", "RouteDenied",
                     "PurposeDenied", "PdpDenied"}           -> 403

\* Mutated: only an internal error counts as a failure.
AuditOutcomeInternalOnly(p) == IF Status(p) = 500 THEN "failed" ELSE "denied"

AuditOutcome(p) == IF Status(p) >= 500 THEN "failed" ELSE "denied"

\* "" where the code answers None.
DenialStage(p) ==
    CASE p.kind \in IdentityKinds    -> "identity"
      [] p.kind \in PurposeKinds     -> "purpose"
      [] p.kind \in FailureKinds     -> ""
      [] p.kind = "RouteDenied"      -> "route"
      [] p.kind = "PdpDenied"        -> "pdp"
      [] p.kind = "BodyTooLarge"     -> "request_body"
      [] p.kind = "RequestTimeout"   -> "request_timeout"
      [] p.kind = "RateLimited"      -> "rate_limit"

(* What proxy_handler writes to the completion log; no problem means the   *)
(* upstream answered.                                                      *)
LogEntry(problem) ==
    IF problem = NoProblem
    THEN [outcome |-> "forwarded", problem |-> problem, stage |-> ""]
    ELSE [outcome |-> AuditOutcome(problem), problem |-> problem,
          stage |-> DenialStage(problem)]
=============================================================================
