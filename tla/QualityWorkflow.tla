--------------------------- MODULE QualityWorkflow ---------------------------
(***************************************************************************)
(* check_local_quality (evaluation/quality_workflow.py) and the result of  *)
(* models/quality_workflow.py: the stages run in order over directories    *)
(* that may be edited between any two of them, each receipt is about the   *)
(* requested candidate or stops the workflow, and both directories are     *)
(* captured once more at the end.                                          *)
(*                                                                         *)
(* A call is [request, baseline_root, assessment, adapter]; a request is   *)
(* [intent, candidate, intake, required, plan, mode, update_baseline], its *)
(* policy the files it requires.  An observed review is ReviewWorker.      *)
(***************************************************************************)
EXTENDS ReviewWorker, Intake, Scenarios, Scorers

CONSTANTS
    Raised,             \* what a check ends with whose stage raises
    Calls, Baselines,   \* the calls made, what the baseline may hold
    Subjects            \* calls of the gates alone: [first, later, plan], of a package that may change

List(s) == s \in Seq(ToSet(s))

(* What is parsed is a list where the code has a list, a limit is an       *)
(* integer or absent, only the known checks are confirmed, and what is     *)
(* named, called and declared is there.  A directory keeps its name.       *)
ASSUME QualityAssumption ==
    /\ Packages \cup Baselines \subseteq DOMAIN Content /\ None \notin Reviewers
    /\ \A p, q \in Packages : Content[p].name = Content[q].name
    /\ \A p, q \in Baselines : Content[p].name = Content[q].name
    /\ \A c \in Calls :
           /\ c.request # None /\ c.request.plan # None
           /\ c.request.intake.checks \subseteq Checks
    /\ \A s \in Subjects : {s.first, s.later} \subseteq DOMAIN Content
    /\ \A plan \in {c.request.plan : c \in Calls} \cup {s.plan : s \in Subjects} :
           List(plan.gaps) /\ \A m \in ToSet(plan.mappings) : List(m.gaps)
    /\ \A p \in DOMAIN Content :
           LET evals  == Loaded(Content[p].evals)
               scorer == Content[p].scorer
               bundle == Content[p].bundle
           IN  /\ List(evals.cases)
               /\ \A s \in ToSet(evals.sets) :
                      /\ List(s.cases)
                      /\ s.groups # None => /\ List(s.groups.ids)
                                            /\ s.groups.sound => None \notin ToSet(s.groups.ids)
               /\ scorer # None => List(scorer.cases)
               /\ bundle # None => List(bundle.rows) /\ \A f \in LimitFields : bundle.limits[f] \in Int \cup {None}

VARIABLES
    call,      \* the arguments of the call
    base,      \* what a capture of the baseline directory sees
    phase,     \* request, stages, review or done
    stages,    \* the stages so far: sequence of [name, receipt]
    checked    \* the result, Cancelled, Raised, or None

workflow == <<call, base, phase, stages, checked>>
review   == <<pc, bound, documents, process, time, seen, cancels, execution>>

request == call.request

StageNames ==
    <<"baseline", "intake", "validate", "scenario-coverage", "scorer-quality", "scorer-calibration", "content-review">>
Expected(r) == IF r.intent = "update" THEN StageNames ELSE Tail(StageNames)

(* LocalCheckRequestV2 to V4: the inputs bind one candidate. *)
RequestValid(r) ==
    /\ r.intake.current /\ PlanValid(r.plan) /\ r.plan.candidate = r.candidate
    /\ (r.intent = "update") = (r.update_baseline # None)
    /\ r.update_baseline # None => Content[r.update_baseline].name = Content[r.candidate].name
    /\ r.intake.saved # None => (r.intake.saved = r.candidate /\ r.intent = "external-check")

Selected(r, name) == IF name = "baseline" THEN r.update_baseline ELSE r.candidate

Passed(stage) ==
    CASE stage.name = "intake"            -> Admitted(stage.receipt)
      [] stage.name = "scenario-coverage" -> stage.receipt.status = "pass" /\ stage.receipt.complete
      [] OTHER                            -> stage.receipt.status = "pass"

Applied(r, s) == IF \E x \in ToSet(s) : x.name = "intake" THEN r.required ELSE None

Deterministic == {"intake", "validate", "scenario-coverage", "scorer-quality", "scorer-calibration"}

(* _deterministic_stages: the receipt of a stage that finds the package    *)
(* first as p, then as later and as last.                                  *)
StageReceipt(name, r, p, later, last) ==
    CASE name = "intake"             -> IntakeSkillPackage(p, r.intake, r.required)
      [] name = "validate"           -> ValidationUnder(r.required, p)
      [] name = "scenario-coverage"  -> AssessScenarioCoverage(p, later, last, r.plan.scenario_set_id, r.plan)
      [] name = "scorer-quality"     -> AssessScorerQuality(p)
      [] name = "scorer-calibration" -> AssessScorerCalibration(p, later)

(* _blocked *)
Blocked(r, s, stage, why) ==
    [status |-> "blocked", request |-> r, applied |-> IF r = None THEN None ELSE Applied(r, s),
     stages |-> s, final |-> None, baseline_final |-> None, blocked_stage |-> stage, blocker |-> why]

Answer(result) == phase' = "done" /\ checked' = result

(* _record: stop at a changed candidate or an incomplete stage. *)
Record(name, receipt) ==
    LET stage == [name |-> name, receipt |-> receipt]
        s     == Append(stages, stage)
    IN  /\ stages' = s
        /\ IF receipt.candidate # Selected(request, name)
           THEN Answer(Blocked(request, s, "candidate_changed", "quality_candidate_changed"))
           ELSE IF ~Passed(stage) THEN Answer(Blocked(request, s, name, "quality_stage_incomplete"))
           ELSE phase' = "stages" /\ UNCHANGED checked
        /\ UNCHANGED <<call, base>>

AtStage(name) == phase = "stages" /\ Len(stages) < Len(Expected(request)) /\ Expected(request)[Len(stages) + 1] = name

-----------------------------------------------------------------------------
(* The request is revalidated, and has a baseline exactly for an update. *)
Accept ==
    /\ phase = "request"
    /\ IF ~RequestValid(request)
       THEN Answer(Blocked(None, <<>>, "request", "invalid_quality_request"))
       ELSE IF request.intent = "update" /\ ~call.baseline_root
       THEN Answer(Blocked(request, <<>>, "baseline", "quality_input_missing"))
       ELSE IF request.intent # "update" /\ call.baseline_root
       THEN Answer(Blocked(None, <<>>, "request", "unexpected_quality_baseline"))
       ELSE phase' = "stages" /\ UNCHANGED checked
    /\ UNCHANGED <<world, review, call, base, stages>>

CheckBaseline ==
    /\ AtStage("baseline")
    /\ Record("baseline", Validation(base))
    /\ UNCHANGED <<world, review>>

(* The stage that assesses the scenarios raises, and nothing catches it. *)
ScenariosRaise == AtStage("scenario-coverage") /\ Raises(tree, request.plan.scenario_set_id, "v2")

StageRaises ==
    /\ ScenariosRaise /\ Answer(Raised)
    /\ UNCHANGED <<world, review, call, base, stages>>

(* One deterministic stage; one that reads the package more than once may  *)
(* see it changed, and put back, in between.                               *)
CheckStage ==
    /\ \E name \in Deterministic, later, last \in Packages :
           /\ AtStage(name) /\ ~ScenariosRaise
           /\ \E receipt \in {StageReceipt(name, request, tree, later, last)} : Record(name, receipt)
    /\ UNCHANGED <<world, review>>

(* Supplied and observed content are separate lanes. *)
MissingReview ==
    /\ AtStage("content-review")
    /\ IF request.mode = "observed" THEN ~call.adapter \/ call.assessment # None ELSE call.adapter
    /\ Answer(Blocked(request, stages, "content-review", "quality_input_missing"))
    /\ UNCHANGED <<world, review, call, base, stages>>

ReviewSupplied ==
    /\ AtStage("content-review") /\ request.mode = "supplied" /\ ~call.adapter
    /\ Record("content-review", AssessContentReview(Validation(tree), call.assessment))
    /\ UNCHANGED <<world, review>>

StartReview ==
    /\ AtStage("content-review") /\ request.mode = "observed" /\ call.adapter /\ call.assessment = None
    /\ phase' = "review"
    /\ UNCHANGED <<world, review, call, base, stages, checked>>

ReviewReturns ==
    /\ phase = "review" /\ pc = "done"
    /\ IF execution = Cancelled THEN Answer(Cancelled) /\ UNCHANGED <<call, base, stages>>
                                  ELSE Record("content-review", execution)
    /\ UNCHANGED <<world, review>>

Captured(r, current, baseline) ==
    /\ current.status = "pass" /\ current.candidate = r.candidate
    /\ r.update_baseline # None => baseline.status = "pass" /\ baseline.candidate = r.update_baseline

(* Defect: what passed every stage is not looked at again. *)
FinalTrusted ==
    /\ phase = "stages" /\ Len(stages) = Len(Expected(request))
    /\ LET current  == ValidationUnder(request.required, request.candidate)
           baseline == IF request.update_baseline = None THEN None ELSE Validation(base)
       IN  Answer([status |-> "local_checks_passed", request |-> request, applied |-> request.required,
                   stages |-> stages, final |-> current, baseline_final |-> baseline,
                   blocked_stage |-> None, blocker |-> None])
    /\ UNCHANGED <<world, review, call, base, stages>>

(* _final_result *)
Final ==
    /\ phase = "stages" /\ Len(stages) = Len(Expected(request))
    /\ LET current   == ValidationUnder(request.required, tree)
           baseline  == IF request.update_baseline = None THEN None ELSE Validation(base)
           unchanged == Captured(request, current, baseline)
       IN  Answer([status |-> IF unchanged THEN "local_checks_passed" ELSE "blocked",
                   request |-> request, applied |-> request.required, stages |-> stages,
                   final |-> current, baseline_final |-> baseline,
                   blocked_stage |-> IF unchanged THEN None ELSE "final-capture",
                   blocker |-> IF unchanged THEN None ELSE "quality_final_capture_changed"])
    /\ UNCHANGED <<world, review, call, base, stages>>

EditBaseline ==
    /\ edits < MaxEdits
    /\ base' \in Baselines \ {base}
    /\ edits' = edits + 1
    /\ UNCHANGED <<tree, review, call, phase, stages, checked>>

WorkflowInit ==
    /\ Init /\ base \in Baselines /\ call \in Calls
    /\ phase = "request" /\ stages = <<>> /\ checked = None

Orchestration ==
    \/ Accept \/ CheckBaseline \/ MissingReview \/ ReviewSupplied
    \/ StartReview \/ ReviewReturns \/ Final
Reviewing == phase = "review" /\ Parent /\ UNCHANGED workflow
Finished  == phase = "done" /\ UNCHANGED <<vars, workflow>>

(* What is edited after the answer is not followed. *)
Edits == phase # "done" /\ (EditBaseline \/ (Edit /\ UNCHANGED workflow))

WorkflowNext ==
    \/ Orchestration \/ CheckStage \/ StageRaises \/ Reviewing \/ Edits \/ Finished
    \/ /\ WorkerStarts \/ Worker \/ WorkerEnds \/ Cancel \/ StartupPasses \/ ReviewPasses
       /\ UNCHANGED workflow

(* The event loop goes on, a stage is a function that returns, time        *)
(* passes, and SIGKILL works; the worker owes nothing.                     *)
WorkflowFairness ==
    /\ WF_<<vars, workflow>>(Orchestration)
    /\ []<>(\A name \in Deterministic : ~AtStage(name))
    /\ WF_<<vars, workflow>>(Reviewing)
    /\ WF_<<vars, workflow>>(WorkerStarts /\ UNCHANGED workflow)
    /\ WF_<<vars, workflow>>(StartupPasses /\ UNCHANGED workflow)
    /\ WF_<<vars, workflow>>(ReviewPasses /\ UNCHANGED workflow)
    /\ WF_<<vars, workflow>>(Killed /\ UNCHANGED workflow)

WorkflowSpec == WorkflowInit /\ [][WorkflowNext]_<<vars, workflow>> /\ WorkflowFairness

-----------------------------------------------------------------------------
(* LocalCheckResultV2: what a result must show for itself. *)

Mismatches(r) == {i \in DOMAIN r.stages : r.stages[i].receipt.candidate # Selected(r.request, r.stages[i].name)}
Receipts(r)   == [name \in {r.stages[i].name : i \in DOMAIN r.stages} |->
                     (CHOOSE x \in ToSet(r.stages) : x.name = name).receipt]

(* A passing calibration is about the declared scorer. *)
CalibrationMatches(calibration, declaration) ==
    calibration.status = "pass" =>
        /\ <<calibration.scorer_id, calibration.version>> = <<declaration.scorer_id, declaration.version>>
        /\ calibration.policy # None /\ calibration.policy.threshold = declaration.threshold
        /\ declaration.parameters # None => calibration.parameters = declaration.parameters

(* A passing review is about the captured files. *)
ReviewMatches(receipt, observed, capture) ==
    LET reviewed == IF observed THEN receipt.review ELSE receipt
    IN  receipt.status = "pass" =>
            /\ reviewed # None /\ reviewed.assessment # None
            /\ Reviewed(reviewed.assessment) = Referenced(capture.files)
            /\ EvidenceFits(reviewed.assessment, capture.files)

(* _policy_matches_capture: a passing capture lists the required files. *)
PolicyMatches(required, capture) == capture.status = "pass" => required \subseteq DOMAIN capture.files

StageBound(r, i) ==
    LET stage   == r.stages[i]
        receipt == stage.receipt
        agrees  == i \notin Mismatches(r)
    IN  /\ agrees \/ (r.blocked_stage = "candidate_changed" /\ i = Len(r.stages))
        /\ i < Len(r.stages) => Passed(stage)
        /\ stage.name = "intake" =>
               receipt.context = r.request.intake /\ (agrees => PolicyMatches(r.request.required, receipt.validation))
        /\ stage.name = "validate" => (agrees => PolicyMatches(r.request.required, receipt))
        /\ stage.name = "scenario-coverage" => receipt.plan = r.request.plan
        /\ (stage.name = "scorer-calibration" /\ agrees) =>
               CalibrationMatches(receipt, Receipts(r)["scorer-quality"])
        /\ (stage.name = "content-review" /\ agrees) =>
               ReviewMatches(receipt, r.request.mode = "observed", Receipts(r)["validate"])

AllPassed(r) == Len(r.stages) = Len(Expected(r.request)) /\ \A i \in DOMAIN r.stages : Passed(r.stages[i])
CapturesPassed(r) == r.final # None /\ Captured(r.request, r.final, r.baseline_final)

(* Captures of one candidate list the same files, and are the same when    *)
(* both pass.                                                              *)
Agree(first, second) ==
    (first # None /\ second # None /\ first.candidate = second.candidate) =>
        first.files = second.files /\ (first.status = "pass" /\ second.status = "pass" => first = second)

(* A last capture is of the directory that was selected. *)
SameSource(capture, selected) == capture # None => Content[capture.candidate].name = Content[selected].name

BlockerFits(r) ==
    CASE r.blocked_stage = "candidate_changed" ->
             r.blocker = "quality_candidate_changed" /\ Mismatches(r) = {Len(r.stages)}
      [] r.blocked_stage = "final-capture" ->
             r.blocker = "quality_final_capture_changed" /\ r.final # None /\ ~CapturesPassed(r)
      [] r.blocker = "quality_input_missing" ->
             /\ r.blocked_stage \in {"baseline", "content-review"}
             /\ Len(r.stages) < Len(Expected(r.request))
             /\ r.blocked_stage = Expected(r.request)[Len(r.stages) + 1]
             /\ \A i \in DOMAIN r.stages : Passed(r.stages[i])
      [] OTHER ->
             /\ r.stages # <<>> /\ r.blocked_stage = Last(r.stages).name
             /\ ~Passed(Last(r.stages)) /\ r.blocker = "quality_stage_incomplete"

ResultValid(r) ==
    IF r.request = None
    THEN /\ r.status = "blocked" /\ r.stages = <<>> /\ r.blocked_stage = "request" /\ r.applied = None
         /\ r.final = None /\ r.baseline_final = None
         /\ r.blocker \in {"invalid_quality_request", "unexpected_quality_baseline", "invalid_quality_input"}
    ELSE /\ Len(r.stages) <= Len(Expected(r.request))
         /\ \A i \in DOMAIN r.stages : r.stages[i].name = Expected(r.request)[i] /\ StageBound(r, i)
         /\ r.applied = Applied(r.request, r.stages)
         /\ (r.final # None \/ r.baseline_final # None) => AllPassed(r) /\ r.blocked_stage # "candidate_changed"
         /\ r.request.intent # "update" => r.baseline_final = None
         /\ (r.request.intent = "update" /\ r.final # None) => r.baseline_final # None
         /\ SameSource(r.final, r.request.candidate) /\ SameSource(r.baseline_final, r.request.update_baseline)
         /\ (r.final # None /\ r.final.candidate = r.request.candidate) => PolicyMatches(r.request.required, r.final)
         /\ {"intake", "validate"} \subseteq DOMAIN Receipts(r) => Agree(Receipts(r)["intake"].validation, Receipts(r)["validate"])
         /\ "validate" \in DOMAIN Receipts(r) => Agree(Receipts(r)["validate"], r.final)
         /\ "baseline" \in DOMAIN Receipts(r) => Agree(Receipts(r)["baseline"], r.baseline_final)
         /\ IF r.status = "local_checks_passed"
            THEN r.blocker = None /\ r.blocked_stage = None /\ AllPassed(r) /\ CapturesPassed(r)
            ELSE r.blocker # None /\ r.blocked_stage # None /\ BlockerFits(r)

-----------------------------------------------------------------------------
(* What a passing check claims, of the package its last capture saw:       *)
(* the candidate was admitted, its ten release cases are sound, distinct   *)
(* and cover every claim, its held-out rows agree with the threshold it    *)
(* declares and stay within their limits, and a clear review covers its    *)
(* references.                                                             *)
ScenariosProved(package, plan) ==
    LET active == ActiveIds(package, plan.scenario_set_id)
        Case(id) == CaseNamed(Content[package].evals.cases, id)
    IN  /\ Len(active) = 10 /\ Cardinality(ToSet(active)) = 10
        /\ \A id \in ToSet(active) : Case(id).release /\ CaseFindings(Case(id)) = Clean
        /\ \E id \in ToSet(active) : Case(id).category \in {"pressure", "regression"}
        /\ \E id \in ToSet(active) : Case(id).category \in {"negative", "edge"}
        /\ \A c \in ToSet(plan.claims) :
               \E m \in ToSet(plan.mappings) : m.claim = c /\ m.cases # <<>> /\ ToSet(m.cases) \subseteq ToSet(active)

ScoresProved(package) ==
    LET b == Content[package].bundle
        right(e, p) == {i \in DOMAIN b.rows : b.rows[i].expected = e /\ b.rows[i].predicted = p}
    IN  /\ b.id = Content[package].scorer.id /\ b.version = Content[package].scorer.version
        /\ b.threshold = Content[package].scorer.threshold /\ b.split = "held_out"
        /\ \A r \in ToSet(b.rows) : r.predicted = Label(r.score, b.threshold) /\ r.raw # None /\ r.raw.score = r.score
        /\ \A i, j \in DOMAIN b.rows : i # j => b.rows[i].id # b.rows[j].id /\ b.rows[i].path # b.rows[j].path
        /\ right("pass", "pass") # {} /\ right("fail", "fail") # {}
        /\ Cardinality(right("fail", "pass")) <= b.limits.max_false_positives
        /\ Cardinality(right("pass", "fail")) <= b.limits.max_false_negatives
        /\ {c.probe : c \in ToSet(Content[package].scorer.cases)} = Probes

LocalPass == phase = "done" /\ checked \notin {Cancelled, Raised} /\ checked.status = "local_checks_passed"

QualityEarned ==
    LocalPass =>
        /\ tree = request.candidate /\ Content[tree].valid /\ request.required \subseteq DOMAIN Content[tree].files
        /\ request.intent = "update" => base = request.update_baseline /\ Content[base].valid
        /\ request.intake.checks = Checks
        /\ ScenariosProved(tree, request.plan) /\ request.plan.gaps = <<>>
        /\ ScoresProved(tree)
        /\ LET a == IF request.mode = "observed" THEN returned.assessment ELSE call.assessment
           IN  /\ a.candidate = tree /\ Reviewed(a) = Referenced(Content[tree].files) /\ EvidenceFits(a, Content[tree].files)
               /\ \A item \in a.items : item.status = "clear"

(* What passes was earned: the review, and the whole check.                *)
ChecksEarned == ReviewEarned /\ QualityEarned

(* Every answer satisfies its contract, the receipts it retains included,  *)
(* so that no answer is lost to the validation of the result.              *)
ReceiptValid(stage) ==
    CASE stage.name = "intake"             -> IntakeReceiptValid(stage.receipt)
      [] stage.name = "scenario-coverage"  -> CoverageValid(stage.receipt)
      [] stage.name = "scorer-quality"     -> ScorerQualityValid(stage.receipt)
      [] stage.name = "scorer-calibration" -> CalibrationValid(stage.receipt)
      [] stage.name = "content-review" /\ request.mode = "observed" -> ExecutionValid(stage.receipt)
      [] stage.name = "content-review" /\ request.mode = "supplied" -> ReviewResultValid(stage.receipt)
      [] OTHER                             -> (stage.receipt.status = "pass") = (stage.receipt.findings = Clean)

(* The one kind of document that costs an answer: its release sets have    *)
(* malformed groups, or one of its patterns cannot be compiled.            *)
EvalsMalformed(package) ==
    LET document == Loaded(Content[package].evals)
    IN  \/ \E s \in ToSet(document.sets) : s.groups # None /\ ~s.groups.sound
        \/ \E case \in ToSet(document.cases) : \E a \in case.acceptance : a.verdict = "raises"

QualityAnswers ==
    phase = "done" =>
        \/ checked = Cancelled
        \/ checked = Raised /\ EvalsMalformed(tree)
        \/ ResultValid(checked) /\ \A s \in ToSet(checked.stages) : ReceiptValid(s)

(* Each gate answers with a receipt that its contract accepts, whatever    *)
(* the documents hold but for what makes the assessment of the scenarios   *)
(* raise, and what it passes is proved by them.                            *)
GatesHonest ==
    \A s \in Subjects :
        LET coverage    == AssessScenarioCoverage(s.first, s.later, s.first, s.plan.scenario_set_id, s.plan)
            calibration == AssessScorerCalibration(s.first, s.later)
        IN  /\ IF Raises(s.first, s.plan.scenario_set_id, "v2") THEN EvalsMalformed(s.first)
               ELSE CoverageValid(coverage) /\ (coverage.complete => ScenariosProved(s.first, s.plan))
            /\ CalibrationValid(calibration) /\ (calibration.status = "pass" => ScoresProved(s.first))
            /\ ScorerQualityValid(AssessScorerQuality(s.first))
            /\ \A selected \in {s.plan.scenario_set_id, None} :
                   IF Raises(s.first, selected, "v1") THEN EvalsMalformed(s.first)
                   ELSE QualityReceiptValid(AssessScenarioQuality(s.first, selected, "v1"), "v1")

(* Each answer, of a check or of a gate, keeps its contract.               *)
AnswersHonest == QualityAnswers /\ GatesHonest

(* The check ends whatever the worker does, and the worker ends with it    *)
(* whatever it ignores.                                                    *)
QualityEnds == <>[](phase = "done" /\ worker \in {"none", "gone"})
=============================================================================
