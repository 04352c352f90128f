------------------------------- MODULE Scorers -------------------------------
(***************************************************************************)
(* Declared and calibrated scorers: assess_scorer_quality                  *)
(* (evaluation/scorer_quality.py), assess_scorer_calibration               *)
(* (evaluation/scorer_calibration.py) and models/scorer_quality.py.        *)
(*                                                                         *)
(* Scores and thresholds are integers of 0..Scale.  A package carries its  *)
(* scorer declaration and its calibration bundle, None when absent; a      *)
(* field that is not what it should be is None as well.                    *)
(***************************************************************************)
EXTENDS ContentReview, Integers, SequencesExt

CONSTANTS Scale, Samples    \* one; rationale samples a judge needs (three)

ScorerTypes == {"deterministic", "llm_judge", "hybrid", "external_tessl"}
JudgeTypes  == ScorerTypes \ {"deterministic"}
Contest     == "short_correct_vs_verbose_wrong"
Probes == {"obvious_correct", "obvious_wrong", Contest, "rubric_copying_rejected",
           "skill_name_mention_not_enough", "evidence_lane_overclaim_rejected"}

Threshold(value)          == value # None /\ value \in 1..Scale
Label(score, threshold)   == IF score >= threshold THEN "pass" ELSE "fail"

(* _expected_outcome: label, score and direction agree with the probe. *)
ExpectedOutcome(case, threshold) ==
    /\ case.score # None => case.score \in 0..Scale
    /\ IF case.probe = Contest
       THEN /\ case.direction = "short_correct_wins"
            /\ (case.label = None) = (case.score = None) /\ case.label \in {None, "fail"}
            /\ case.score # None => threshold # None /\ case.score < threshold
       ELSE /\ case.probe \in Probes /\ case.direction = None
            /\ ~(case.score = None /\ case.label = None)
            /\ LET expected == IF case.probe = "obvious_correct" THEN "pass" ELSE "fail"
               IN  /\ case.label \in {None, expected}
                   /\ case.score # None => threshold # None /\ Label(case.score, threshold) = expected

JudgeFindings(s) ==
    LET judge == s.type \in JudgeTypes
    IN  If(judge /\ s.parameters = None, "judge_parameters_versioned")
        \cup If(judge /\ ~s.audited, "rationale_audit_required")
        \cup If(judge /\ s.samples < Samples, "rationale_audit_sampled")

ProbeFindings(s) ==
    LET known == {c.probe : c \in ToSet(s.cases)} \cap Probes
    IN  IF s.cases = <<>> THEN {"calibration_cases_present"}
        ELSE If(~IsInjective([i \in DOMAIN s.cases |-> s.cases[i].id]), "duplicate_calibration_case")
             \cup If(\E c \in ToSet(s.cases) : c.probe \notin Probes, "invalid_calibration_case")
             \cup If(\E c \in ToSet(s.cases) : ~ExpectedOutcome(c, s.threshold), "calibration_expected_outcomes")
             \cup If(known # Probes, "calibration_probe_coverage")

(* _strict_metadata *)
ScorerFindings(s) ==
    s.defects
    \cup If(s.id = None, "invalid_scorer_id") \cup If(s.version = None, "invalid_scorer_version_or_digest")
    \cup If(s.type \notin ScorerTypes, "invalid_scorer_type")
    \cup If(~Threshold(s.threshold), "invalid_pass_threshold")
    \cup If(~s.checks_first, "deterministic_checks_first")
    \cup JudgeFindings(s) \cup ProbeFindings(s)

AssessScorerQuality(package) ==
    LET s        == Content[package].scorer
        readable == Content[package].valid /\ s # None
        findings == Validation(package).findings
                    \cup If(Content[package].valid /\ s = None, "scorer_quality_declared")
                    \cup (IF readable THEN ScorerFindings(s) ELSE Clean)
    IN  [candidate |-> CandidateOf(package), status |-> StatusOf(findings), findings |-> findings,
         scorer_id |-> IF readable THEN s.id ELSE None, version |-> IF readable THEN s.version ELSE None,
         parameters |-> IF readable THEN s.parameters ELSE None,
         threshold |-> IF readable /\ Threshold(s.threshold) THEN s.threshold ELSE None,
         probes |-> IF readable THEN Len(s.cases) ELSE 0]

(* ScorerQualityReceipt *)
ScorerQualityValid(r) ==
    IF r.status = "pass"
    THEN /\ r.candidate # None /\ r.findings = Clean /\ r.probes >= 6
         /\ r.scorer_id # None /\ r.version # None /\ r.threshold # None
    ELSE r.findings # Clean

-----------------------------------------------------------------------------
(* Calibration: a bundle [defects, id, version, prompt, threshold, split,  *)
(* parameters, limits, rows], its rows [id, expected, predicted, score,    *)
(* path, raw], raw the artifact [id, predicted, score, scorer_id] or None. *)

Labels == {"pass", "fail"}
LimitFields == {"minimum_examples", "minimum_true_positives", "minimum_true_negatives",
                "max_false_positives", "max_false_negatives"}
Minimum(field) == IF field \in {"max_false_positives", "max_false_negatives"} THEN 0 ELSE 1
LimitSound(limits, field) == limits[field] # None /\ limits[field] >= Minimum(field)

BundleFindings(b) ==
    b.defects
    \cup If(b.split # "held_out", "calibration_split_held_out")
    \cup If(b.id = None, "scorer_id_present") \cup If(b.version = None, "scorer_version_or_digest_present")
    \cup If(b.prompt = None, "prompt_version_present")
    \cup If(~Threshold(b.threshold), "threshold_valid")
    \cup If(b.parameters = None, "judge_parameters_present")
    \cup {f \in LimitFields : ~LimitSound(b.limits, f)}

RowFindings(row) ==
    If(row.id = None \/ row.path = None \/ row.expected \notin Labels \/ row.predicted \notin Labels
       \/ row.score = None \/ row.score \notin 0..Scale, "calibration_example_shape")

ArtifactFindings(row, b) ==
    If(row.score # None /\ b.threshold # None /\ row.predicted # Label(row.score, b.threshold),
       "score_threshold_consistent")
    \cup IF row.raw = None THEN {"raw_artifacts_present"}
         ELSE If(row.raw.score = None
                 \/ <<row.raw.id, row.raw.predicted, row.raw.score>> # <<row.id, row.predicted, row.score>>
                 \/ row.raw.scorer_id # b.id, "raw_artifacts_match_examples")

Matched(rows, expected, predicted) ==
    Cardinality({i \in DOMAIN rows : rows[i].expected = expected /\ rows[i].predicted = predicted})
Matrix(rows) ==
    [tp |-> Matched(rows, "pass", "pass"), tn |-> Matched(rows, "fail", "fail"),
     fp |-> Matched(rows, "fail", "pass"), fn |-> Matched(rows, "pass", "fail")]

(* A rate is a fraction; it is absent over nothing. *)
Ratio(n, d)  == IF d = 0 THEN None ELSE <<n, d>>
Metrics(m)   ==
    [tpr |-> Ratio(m.tp, m.tp + m.fn), tnr |-> Ratio(m.tn, m.tn + m.fp),
     precision |-> Ratio(m.tp, m.tp + m.fp), accuracy |-> Ratio(m.tp + m.tn, m.tp + m.tn + m.fp + m.fn)]

(* One test of a row stands for many: identities and artifacts are unique. *)
Repeated(values) == \E i, j \in DOMAIN values : i # j /\ values[i] # None /\ values[i] = values[j]
Duplicated(rows) ==
    \/ Repeated([i \in DOMAIN rows |-> rows[i].id])
    \/ Repeated([i \in DOMAIN rows |-> rows[i].path])

Measured(rows, m) ==
    [minimum_examples |-> Len(rows), minimum_true_positives |-> m.tp, minimum_true_negatives |-> m.tn,
     max_false_positives |-> m.fp, max_false_negatives |-> m.fn]
LimitMet(measured, limits, field) ==
    IF Minimum(field) = 0 THEN measured[field] <= limits[field] ELSE measured[field] >= limits[field]

(* Defect: a bundle with duplicated rows is measured as it is. *)
RowsFindingsUnchecked(b) ==
    UNION {RowFindings(r) \cup ArtifactFindings(r, b) : r \in ToSet(b.rows)}

RowsFindings(b) ==
    IF Duplicated(b.rows) THEN {"duplicate_calibration_example"}
    ELSE UNION {RowFindings(r) \cup ArtifactFindings(r, b) : r \in ToSet(b.rows)}

(* _coverage_findings: each limit that is one is met. *)
LimitCodes ==
    [minimum_examples |-> "held_out_example_count", minimum_true_positives |-> "true_positive_coverage",
     minimum_true_negatives |-> "true_negative_coverage", max_false_positives |-> "false_positive_limit",
     max_false_negatives |-> "false_negative_limit"]
LimitFindings(b) ==
    LET measured == Measured(b.rows, Matrix(b.rows))
    IN  {LimitCodes[f] : f \in {g \in LimitFields : b.limits[g] # None /\ ~LimitMet(measured, b.limits, g)}}

AppliedPolicy(b) ==
    IF Threshold(b.threshold) /\ \A f \in LimitFields : LimitSound(b.limits, f)
    THEN [threshold |-> b.threshold, limits |-> b.limits] ELSE None

NoBundle ==
    [defects |-> {"calibration_bundle_parse"}, id |-> None, version |-> None, prompt |-> None, threshold |-> None,
     split |-> None, parameters |-> None, rows |-> <<>>,
     limits |-> [f \in LimitFields |-> Minimum(f)]]

(* The bundle is about the scorer that the package declares by then. *)
DeclarationJoin(b, package, later) ==
    LET declared == AssessScorerQuality(later)
    IN  IF \/ declared.status # "pass" \/ declared.candidate # CandidateOf(package)
           \/ <<b.id, b.version, b.threshold>> # <<declared.scorer_id, declared.version, declared.threshold>>
        THEN {"scorer_identity_mismatch"}
        ELSE If(declared.parameters # None /\ b.parameters # declared.parameters, "judge_parameters_mismatch")

AssessScorerCalibration(package, later) ==
    LET b        == IF Content[package].valid /\ Content[package].bundle # None THEN Content[package].bundle ELSE NoBundle
        findings == Validation(package).findings
                    \cup (IF Content[package].valid THEN BundleFindings(b) \cup RowsFindings(b) ELSE Clean)
                    \cup LimitFindings(b)
                    \cup (IF Content[package].valid THEN DeclarationJoin(b, package, later) ELSE Clean)
    IN  [candidate |-> CandidateOf(package), status |-> StatusOf(findings), findings |-> findings,
         scorer_id |-> b.id, version |-> b.version, prompt |-> b.prompt, parameters |-> b.parameters,
         examples |-> Len(b.rows), policy |-> AppliedPolicy(b),
         matrix |-> Matrix(b.rows), metrics |-> Metrics(Matrix(b.rows))]

(* ScorerCalibrationReceipt *)
CalibrationValid(r) ==
    IF r.status = "pass"
    THEN /\ r.candidate # None /\ r.findings = Clean /\ r.examples > 0
         /\ r.policy # None /\ r.parameters # None
         /\ r.scorer_id # None /\ r.version # None /\ r.prompt # None
         /\ LET m == r.matrix IN
               /\ r.examples = m.tp + m.tn + m.fp + m.fn
               /\ r.examples >= r.policy.limits.minimum_examples
               /\ m.tp >= r.policy.limits.minimum_true_positives
               /\ m.tn >= r.policy.limits.minimum_true_negatives
               /\ m.fp <= r.policy.limits.max_false_positives
               /\ m.fn <= r.policy.limits.max_false_negatives
               /\ r.metrics = [tpr |-> <<m.tp, m.tp + m.fn>>, tnr |-> <<m.tn, m.tn + m.fp>>,
                               precision |-> <<m.tp, m.tp + m.fp>>,
                               accuracy |-> <<m.tp + m.tn, r.examples>>]
    ELSE r.findings # Clean
=============================================================================
