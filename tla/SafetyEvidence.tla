---------------------------- MODULE SafetyEvidence ----------------------------
(***************************************************************************)
(* What a package's safety rests on before it is executed: the static      *)
(* screening of its source (validation/security_screening.py and           *)
(* security_signatures.py), the review receipt of models/safety.py, the    *)
(* capability checklist of models/pre_execution_safety.py, and their       *)
(* assessment at the moment of execution                                   *)
(* (evaluation/pre_execution_safety.py).                                   *)
(*                                                                         *)
(* A candidate stands for its content, since content digests tell contents *)
(* apart; a file is the indicators [code, category] its text shows and     *)
(* whether it is a script.  A digest is the artifact it is taken of.       *)
(***************************************************************************)
EXTENDS Evaluation

CONSTANTS
    MaxAge,         \* max_age_seconds: how old a review may be
    LongestAge      \* the longest a host may choose

ASSUME AgeAssumption == MaxAge \in Nat /\ LongestAge \in Nat

(* What safety evidence may be refused for. *)
SafetyCodes ==
    {"package_safety_evidence_required", "invalid_safety_freshness_policy", "provider_request_blocked",
     "invalid_package_safety_evidence", "package_safety_evidence_predates_build", "package_safety_review_required",
     "package_safety_evidence_future", "package_safety_evidence_stale", "invalid_security_source",
     "security_source_changed", "security_screening_mismatch"}

ASSUME SafetyAssumption == None \notin SafetyCodes

Files(c) == c.files

-----------------------------------------------------------------------------
(* Screening *)

(* Content taken in from outside beside a secret or an external write. *)
Composed(codes) ==
    /\ "untrusted_external_content_acquisition" \in codes
    /\ codes \cap {"hardcoded_secret_literal", "external_write_capability"} # {}

SourceIndicators(file) ==
    file.indicators \cup
        IF Composed({i.code : i \in file.indicators})
        THEN {[code |-> "composed_capability_risk", category |-> "external_service"]} ELSE {}

(* One finding for a code, at every path that shows it. *)
ScreenFindings(c) ==
    LET seen(p) == SourceIndicators(Files(c)[p])
    IN  {[code |-> i.code, category |-> i.category, refs |-> {p \in DOMAIN Files(c) : i \in seen(p)}] :
            i \in UNION {seen(p) : p \in DOMAIN Files(c)}}

Screening(c) ==
    [candidate |-> c, sensors |-> <<"sdk-static-signature-v1">>, paths |-> DOMAIN Files(c), findings |-> ScreenFindings(c),
     status |-> IF ScreenFindings(c) = {} THEN "pass" ELSE "needs_review"]

(* SecurityScreeningResult: the sensor's findings are all warnings. *)
ScreeningValid(s) ==
    /\ s.paths # {}
    /\ s.status = "pass" => s.findings = {}
    /\ s.status = "needs_review" => s.findings # {}
    /\ Cardinality({f.code : f \in s.findings}) = Cardinality(s.findings)

(* The capture must be the built package, file by file. *)
ScreenRefusal(tree, package) ==
    When(package.status # "built", "invalid_security_source")
    \o When(tree # package.candidate \/ ~tree.valid, "security_source_changed")

-----------------------------------------------------------------------------
(* The review: [candidate, input, digest, method, status, observed,        *)
(* evidence, findings, blockers, blocker], where evidence maps ids to what *)
(* they are the digest of.                                                 *)

IssueShape(r) ==
    /\ r.blocker # None /\ r.blockers # <<>> /\ r.blockers[1] = r.blocker

SafetyReceiptValid(r) ==
    /\ IsInjective(r.blockers)
    /\ \A f \in r.findings : f.ids # {} /\ f.ids \subseteq DOMAIN r.evidence
    /\ \A b \in ToSet(r.blockers) : b.refs \subseteq DOMAIN r.evidence
    /\ CASE r.status = "not_reviewed" ->
              DOMAIN r.evidence = {} /\ r.findings = {} /\ r.blocker = None /\ r.blockers = <<>>
         [] r.status = "reviewed_no_issue" ->
              DOMAIN r.evidence # {} /\ r.findings = {} /\ r.blocker = None /\ r.blockers = <<>>
         [] r.status = "issue_found" ->
              /\ DOMAIN r.evidence # {} /\ \E f \in r.findings : f.severity # "info"
              /\ IssueShape(r)
         [] OTHER -> r.findings = {} /\ IssueShape(r)

BindsPackage(safety, package) ==
    /\ package.status = "built"
    /\ safety.input = package.id /\ safety.candidate = package.candidate /\ safety.digest = package.digest

(* ProviderExecutionRequest.validate_against_package_safety_evidence *)
RequestBinds(request, safety) ==
    /\ request.safety = safety /\ request.candidate = safety.candidate
    /\ request.status = "prepared" => safety.status = "reviewed_no_issue"

SafetyChecks ==
    {"content_and_injection", "secrets_and_privacy", "filesystem_and_subprocess",
     "network_and_external_writes", "dependencies_and_binaries", "tools_and_privileges"}

RequiredChecks(screening, package) ==
    LET categories == {f.category : f \in screening.findings}
        codes      == {f.code : f \in screening.findings}
        scripts    == \E p \in DOMAIN Files(package.candidate) : Files(package.candidate)[p].script
        needed(check) ==
            CASE check = "network_and_external_writes" -> "external_service" \in categories
              [] check = "dependencies_and_binaries"   -> "dependency" \in categories \/ scripts
              [] check = "filesystem_and_subprocess"   ->
                    \/ "unsafe_path" \in categories \/ scripts
                    \/ codes \cap {"executable_source_capability", "pipe_to_shell_download"} # {}
              [] check = "tools_and_privileges"        ->
                    "mcp_auth" \in categories \/ "system_service_modification" \in codes
              [] OTHER -> TRUE
    IN  {check \in SafetyChecks : needed(check)}

(* Each outcome cites supplied evidence, and what applies was reviewed. *)
ReviewBinds(e) ==
    /\ DOMAIN e.checklist = SafetyChecks
    /\ {"static-screening", "capability-checklist"} \subseteq DOMAIN e.safety.evidence
    /\ e.safety.evidence["static-screening"] = e.screening
    /\ e.safety.evidence["capability-checklist"] = e.checklist
    /\ \A check \in SafetyChecks :
          /\ e.checklist[check].ids # {} /\ e.checklist[check].ids \subseteq DOMAIN e.safety.evidence
          /\ check \in RequiredChecks(e.screening, e.package) => e.checklist[check].status = "reviewed_no_issue"

(* PreExecutionSafetyEvidence *)
EvidenceValid(e) ==
    /\ SafetyReceiptValid(e.safety) /\ ScreeningValid(e.screening)
    /\ BindsPackage(e.safety, e.package)
    /\ e.screening.candidate = e.package.candidate
    /\ e.screening.paths = DOMAIN Files(e.package.candidate)
    /\ e.screening.sensors = <<"sdk-static-signature-v1">> /\ e.screening.status # "blocked"
    /\ ReviewBinds(e)

-----------------------------------------------------------------------------
ReviewRecency(safety, now) ==
    When(safety.status # "reviewed_no_issue" \/ safety.method = "metadata", "package_safety_review_required")
    \o When(safety.observed > now, "package_safety_evidence_future")
    \o When(now > safety.observed + MaxAge, "package_safety_evidence_stale")

(* Defect: the supplied screening is believed. *)
BoundRefusalsTrusted(e, now, tree) ==
    When(e.safety.observed < e.package.finished, "package_safety_evidence_predates_build")
    \o ReviewRecency(e.safety, now)

(* Of evidence that is valid: age, and the source as it is now. *)
BoundRefusals(e, now, tree) ==
    When(e.safety.observed < e.package.finished, "package_safety_evidence_predates_build")
    \o ReviewRecency(e.safety, now)
    \o ScreenRefusal(tree, e.package)
    \o When(tree = e.package.candidate /\ Screening(tree) # e.screening, "security_screening_mismatch")

(* assess_pre_execution_safety: the blocker, or None. *)
AssessPreExecutionSafety(request, e, now, tree) ==
    IF e = None THEN "package_safety_evidence_required"
    ELSE IF MaxAge \notin 1..LongestAge THEN "invalid_safety_freshness_policy"
    ELSE IF request.status # "prepared" THEN "provider_request_blocked"
    ELSE IF ~EvidenceValid(e) \/ ~RequestBinds(request, e.safety) THEN "invalid_package_safety_evidence"
    ELSE FirstOf(BoundRefusals(e, now, tree))
=============================================================================
