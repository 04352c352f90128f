------------------------------ MODULE MCScoring ------------------------------
(* Four machines for TLC, one chosen at the start: a live evaluation with  *)
(* its judge, a lane of evaluations under a budget, an evaluation with     *)
(* evidence supplied beforehand, and the scoring of supplied observations. *)
EXTENDS MCSupplied, MatchedLane

CONSTANT Submissions    \* sets of cases, with the observations, scorers and probes supplied

ASSUME SubmissionAssumption == \A s \in Submissions : Acceptable(s.set, s.observations, s.scorer)

VARIABLES
    machine,
    submission      \* what evaluate_scenario_set was given, and its receipts

allVars  == <<machine, caseVars, laneVars, suppliedVars, submission>>

Limits(p, j, e, c) == [provider |-> p, judge |-> j, elapsed |-> e, cost |-> c]

(* Callbacks that just suffice, that do not, and a cost bound; a time      *)
(* limit that is met early, late, and never.                               *)
MCBudgets ==
    {Limits(4, 4, e, FALSE) : e \in 1..3}
      \cup {Limits(5, 4, 2, FALSE), Limits(4, 3, 2, FALSE), Limits(4, 4, 2, TRUE)}

(* Both versions are handed the same observations. *)
Submit ==
    LET s == submission.given
    IN  /\ ~submission.scored
        /\ submission' = [given |-> s, scored |-> TRUE,
                          v1 |-> EvaluateScenarioSet(s.set, s.observations, s.scorer, s.probes),
                          v2 |-> EvaluateScenarioSetV2(s.set, s.observations, s.scorer, s.probes)]

OfCase(A)     == machine = "case" /\ A /\ UNCHANGED <<machine, laneVars, suppliedVars, submission>>
OfLane(A)     == machine = "lane" /\ A /\ UNCHANGED <<machine, caseVars, suppliedVars, submission>>
OfSupplied(A) == machine = "supplied" /\ A /\ UNCHANGED <<machine, caseVars, laneVars, submission>>
OfScorer(A)   == machine = "scorer" /\ A /\ UNCHANGED <<machine, caseVars, laneVars, suppliedVars>>

MCInit ==
    /\ CaseInit /\ LaneInit /\ SuppliedInit
    /\ machine \in {"case", "lane", "supplied", "scorer"}
    /\ submission \in
          IF machine = "scorer" THEN {[given |-> s, scored |-> FALSE] : s \in Submissions} ELSE {[scored |-> FALSE]}
    /\ machine # "supplied" => tree = Broken /\ wanted = [case |-> "greet", mode |-> "smoke"]
    /\ machine # "lane" => budget = Limits(4, 4, 2, FALSE)
MCNext ==
    \/ OfCase(CaseNext) \/ OfLane(LaneNext) \/ OfSupplied(SuppliedNext)
    \/ OfScorer(Submit) \/ OfScorer(submission.scored /\ UNCHANGED submission)

(* The fairness of CaseSpec and of LaneSpec, for the machine that runs.    *)
MCSpec ==
    /\ MCInit /\ [][MCNext]_allVars
    /\ WF_allVars(OfCase(Evaluation)) /\ WF_allVars(OfCase(Loop))
    /\ WF_allVars(OfCase(JudgeTimer)) /\ WF_allVars(OfCase(TidyTimer))
    /\ WF_allVars(OfCase(CallReturns))
    /\ WF_allVars(OfLane(Lane)) /\ WF_allVars(OfLane(TrialGoes))

(* An evaluation and a lane end with a receipt or an exception, whatever   *)
(* the judge, its cleanup and the host's callbacks do.  (The other two     *)
(* machines take a bounded number of steps.)                               *)
RunsEnd ==
    <>(\/ machine = "case" /\ pc = "done"
       \/ machine = "lane" /\ lanePc = "done"
       \/ machine \in {"supplied", "scorer"})

(* A score follows from the observations, in either version of the         *)
(* contract, and the two agree (evaluation/deterministic.py and            *)
(* deterministic_v2.py).                                                   *)
SubmissionScored ==
    submission.scored =>
        LET s == submission.given
        IN  /\ EvaluationReceiptValid(submission.v1) /\ EvaluationReceiptV2Valid(submission.v2)
            /\ ScoreEarnedBy(submission.v1, s.set, s.observations, s.scorer, s.probes)
            /\ ScoreEarnedBy(submission.v2, s.set, s.observations, s.scorer, s.probes)
            /\ VersionsAgree(submission.v1, submission.v2, s.set, s.observations)

(* The property of SuppliedCase, and the receipts of an evaluation with    *)
(* supplied evidence and of a scoring, which pass their own validation.    *)
SuppliedEarned == AnswerEarned /\ AnswerValid /\ SubmissionScored
=============================================================================
