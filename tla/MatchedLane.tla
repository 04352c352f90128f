----------------------------- MODULE MatchedLane -----------------------------
(***************************************************************************)
(* One lane of a matched comparison: evaluation.matched_execution and the  *)
(* receipt of models.matched_execution.  Every case is tried against the   *)
(* baseline and the candidate plugin, one evaluation after the other; a    *)
(* budget of callbacks and time is shared by all of them, and a guard      *)
(* captures the plugin's source again around every callback.               *)
(*                                                                         *)
(* An evaluation is that of SelectedCase, seen from the two callbacks the  *)
(* lane wraps: it may fail at any time, asks the judge after the provider  *)
(* has answered, scores after the judge has answered, and when it fails    *)
(* leaves callbacks behind that end later.                                 *)
(***************************************************************************)
EXTENDS Naturals

CONSTANTS
    Nothing,
    Pairs,        \* case trials, at least one: each is one baseline and one candidate
    Budgets,      \* the budgets a lane may declare: [provider, judge, elapsed, cost]
    MaxTime,      \* bound: readings of the clock
    MaxEdits      \* bound: changes of a plugin's source

Variants == {"baseline", "candidate"}
Sources  == {"bound", "changed", "unsafe"}

GuardCodes  == {"matched_plugin_source_changed", "matched_plugin_safety_changed"}
BudgetCodes == {"matched_time_budget_exhausted", "matched_provider_budget_exhausted",
                "matched_judge_budget_exhausted"}
InputCodes  == {"invalid_matched_execution", "matched_cost_budget_unavailable",
                "matched_run_budget_insufficient", "matched_plugin_safety_evidence_required",
                "matched_plugin_safety_rejected"}
ExecutionCodes == GuardCodes \cup BudgetCodes \cup {"matched_execution_incomplete"}

(* A lane has cases, its limits are numbers, and no code means no reason. *)
LaneConstants ==
    /\ Pairs \in Nat \ {0}
    /\ Budgets \subseteq [provider : Nat, judge : Nat, elapsed : Nat, cost : BOOLEAN]
    /\ Nothing \notin InputCodes \cup ExecutionCodes
ASSUME LaneAssumption == LaneConstants

VARIABLES
    lanePc,       \* where execute_matched_lane is
    trial,        \* evaluations done
    pairs,        \* pairs recorded
    provider,     \* the provider callback of this trial
    laneJudge,    \* its judge callback
    budget,       \* the declared limits
    counts,       \* callbacks attempted
    budgetCode,   \* why the budget refused first, if it did
    guardCode,    \* why the guard in use refused first
    elapsed,      \* elapsed_seconds as finish() last returned it
    clock,        \* time since the budget was made
    source,       \* history of the environment: each plugin's directory
    edits,        \* and how often it changed
    receipt

trialVars == <<provider, laneJudge>>
codes     == <<budgetCode, guardCode>>
world     == <<clock, source, edits>>
laneVars  == <<lanePc, trial, pairs, trialVars, budget, counts, codes, elapsed, world, receipt>>

(* The plugin of the trial in progress. *)
Variant == IF trial % 2 = 0 THEN "baseline" ELSE "candidate"

Returns(r) ==
    /\ lanePc' = "done"
    /\ receipt' = r

-----------------------------------------------------------------------------
(* Admission of the whole batch, before any host property is read. *)

Rejected(bound, code) ==
    [bound |-> bound, calibrated |-> FALSE, pairs |-> 0, provider |-> 0, judge |-> 0,
     elapsed |-> 0, code |-> code]

(* The callbacks must suffice for two trials of every case. *)
Insufficient == budget.provider < 2 * Pairs \/ budget.judge < 2 * Pairs

PreflightRefuses ==
    /\ lanePc = "preflight"
    /\ \/ \E b \in BOOLEAN : Returns(Rejected(b, "invalid_matched_execution"))
       \/ budget.cost /\ Returns(Rejected(TRUE, "matched_cost_budget_unavailable"))
       \/ ~budget.cost /\ Insufficient /\ Returns(Rejected(TRUE, "matched_run_budget_insufficient"))
       \/ /\ ~budget.cost /\ ~Insufficient
          /\ \E code \in {"matched_plugin_safety_evidence_required", "matched_plugin_safety_rejected"} :
                Returns(Rejected(TRUE, code))
    /\ UNCHANGED <<trial, pairs, trialVars, budget, counts, codes, elapsed, world>>

Preflight ==
    /\ lanePc = "preflight"
    /\ ~budget.cost /\ ~Insufficient
    /\ lanePc' = "trial"
    /\ clock' = 0
    /\ UNCHANGED <<trial, pairs, trialVars, budget, counts, codes, elapsed, source, edits, receipt>>

-----------------------------------------------------------------------------
(* The guard and the budget. *)

(* Defect: the reason of the assessment itself is reported. *)
RefusalRaw(v) == IF source[v] = "bound" THEN Nothing ELSE source[v]

(* _PluginGuard.check: what is wrong with a plugin's source now. *)
Refusal(v) ==
    CASE source[v] = "changed" -> "matched_plugin_source_changed"
      [] source[v] = "unsafe"  -> "matched_plugin_safety_changed"
      [] OTHER -> Nothing

(* _RuntimeBudget.finish, also the first check of begin. *)
Expired == clock >= budget.elapsed

Overdue == IF Expired THEN "matched_time_budget_exhausted" ELSE Nothing

(* begin: why one more callback of a kind is not attempted. *)
Exhausted(kind) ==
    CASE Expired -> "matched_time_budget_exhausted"
      [] ~Expired /\ counts[kind] >= budget[kind] ->
             IF kind = "provider" THEN "matched_provider_budget_exhausted"
             ELSE "matched_judge_budget_exhausted"
      [] OTHER -> Nothing

(* Each keeps its first reason. *)
First(old, new) == IF old = Nothing THEN new ELSE old

(* The guard is asked before the budget. *)
Passed(v, limit) == Refusal(v) = Nothing /\ limit = Nothing

Asks(v, limit) ==
    /\ guardCode' = First(guardCode, Refusal(v))
    /\ budgetCode' = First(budgetCode, IF Refusal(v) = Nothing THEN limit ELSE Nothing)

-----------------------------------------------------------------------------
(* One trial. *)

(* A guard of its own, asked at once. *)
TrialStarts ==
    /\ lanePc = "trial"
    /\ guardCode' = Refusal(Variant)
    /\ lanePc' = IF Refusal(Variant) = Nothing THEN "provider" ELSE "stop"
    /\ provider' = "none" /\ laneJudge' = "none"
    /\ UNCHANGED <<trial, pairs, budget, counts, budgetCode, elapsed, world, receipt>>

(* _MatchedProvider.complete or stream up to the host's callback. *)
ProviderBegins ==
    /\ lanePc = "provider" /\ provider = "none"
    /\ Asks(Variant, Exhausted("provider"))
    /\ IF Passed(Variant, Exhausted("provider"))
       THEN provider' = "active" /\ counts' = [counts EXCEPT !.provider = @ + 1]
       ELSE provider' = "failed" /\ UNCHANGED counts
    /\ UNCHANGED <<lanePc, trial, pairs, laneJudge, budget, elapsed, world, receipt>>

(* The callback answers, also when nobody waits for it any more; a refused *)
(* pull ends a stream in the same way.                                     *)
ProviderEnds ==
    /\ lanePc # "done" /\ provider = "active"
    /\ Asks(Variant, Overdue)
    /\ provider' = IF Passed(Variant, Overdue) THEN "ok" ELSE "failed"
    /\ UNCHANGED <<lanePc, trial, pairs, laneJudge, budget, counts, elapsed, world, receipt>>

(* Or raises; nothing is checked. *)
ProviderRaises ==
    /\ lanePc # "done" /\ provider = "active"
    /\ provider' = "failed"
    /\ UNCHANGED <<lanePc, trial, pairs, laneJudge, budget, counts, codes, elapsed, world, receipt>>

EvaluationJudges ==
    /\ lanePc = "provider" /\ provider = "ok"
    /\ lanePc' = "judge"
    /\ UNCHANGED <<trial, pairs, trialVars, budget, counts, codes, elapsed, world, receipt>>

JudgeBegins ==
    /\ lanePc = "judge" /\ laneJudge = "none"
    /\ Asks(Variant, Exhausted("judge"))
    /\ IF Passed(Variant, Exhausted("judge"))
       THEN laneJudge' = "active" /\ counts' = [counts EXCEPT !.judge = @ + 1]
       ELSE laneJudge' = "failed" /\ UNCHANGED counts
    /\ UNCHANGED <<lanePc, trial, pairs, provider, budget, elapsed, world, receipt>>

JudgeEnds ==
    /\ lanePc # "done" /\ laneJudge = "active"
    /\ Asks(Variant, Overdue)
    /\ laneJudge' = IF Passed(Variant, Overdue) THEN "ok" ELSE "failed"
    /\ UNCHANGED <<lanePc, trial, pairs, provider, budget, counts, elapsed, world, receipt>>

JudgeRaises ==
    /\ lanePc # "done" /\ laneJudge = "active"
    /\ laneJudge' = "failed"
    /\ UNCHANGED <<lanePc, trial, pairs, provider, budget, counts, codes, elapsed, world, receipt>>

(* The request is matched with the plugin, and the adapters' properties    *)
(* are read, behind the guard too.                                         *)
PropertyRefused ==
    /\ lanePc \in {"provider", "judge"}
    /\ Refusal(Variant) # Nothing
    /\ guardCode' = First(guardCode, Refusal(Variant))
    /\ lanePc' = "stop"
    /\ UNCHANGED <<trial, pairs, trialVars, budget, counts, budgetCode, elapsed, world, receipt>>

(* A deadline, a failed callback, a changed adapter, refused evidence: the *)
(* evaluation raises ContractError, or comes back blocked; then the guard  *)
(* and the budget are asked all the same, and may have the first reason.   *)
EvaluationFails ==
    /\ lanePc \in {"provider", "judge"}
    /\ UNCHANGED codes \/ Asks(Variant, Overdue)
    /\ lanePc' = "stop"
    /\ UNCHANGED <<trial, pairs, trialVars, budget, counts, elapsed, world, receipt>>

EvaluationScores ==
    /\ lanePc = "judge" /\ laneJudge = "ok"
    /\ lanePc' = "check"
    /\ UNCHANGED <<trial, pairs, trialVars, budget, counts, codes, elapsed, world, receipt>>

(* The guard and the budget again. *)
TrialEnds ==
    /\ lanePc = "check"
    /\ Asks(Variant, Overdue)
    /\ IF Passed(Variant, Overdue)
       THEN /\ elapsed' = clock
            /\ trial' = trial + 1
            /\ lanePc' = IF Variant = "baseline" THEN "trial" ELSE "pair"
       ELSE lanePc' = "stop" /\ UNCHANGED <<elapsed, trial>>
    /\ UNCHANGED <<pairs, trialVars, budget, counts, world, receipt>>

-----------------------------------------------------------------------------
(* Both trials of a case are done: each source once more, then the pair.   *)

PairChecksBaseline ==
    /\ lanePc = "pair"
    /\ guardCode' = Refusal("baseline")
    /\ lanePc' = IF Refusal("baseline") = Nothing THEN "record" ELSE "stop"
    /\ UNCHANGED <<trial, pairs, trialVars, budget, counts, budgetCode, elapsed, world, receipt>>

(* The pair is appended, and the next case or trial begins. *)
Records ==
    /\ pairs' = pairs + 1
    /\ elapsed' = clock
    /\ lanePc' = IF trial < 2 * Pairs THEN "trial" ELSE "complete"

Stops == lanePc' = "stop" /\ UNCHANGED <<pairs, elapsed>>

(* Defect: the candidate's source is not looked at again. *)
PairRecordsUnguarded ==
    /\ lanePc = "record"
    /\ budgetCode' = First(budgetCode, Overdue)
    /\ IF Overdue = Nothing THEN Records ELSE Stops
    /\ UNCHANGED <<trial, trialVars, budget, counts, guardCode, world, receipt>>

(* Defect: the clock is not read again. *)
PairRecordsLate ==
    /\ lanePc = "record"
    /\ guardCode' = Refusal("candidate")
    /\ IF Refusal("candidate") = Nothing THEN Records ELSE Stops
    /\ UNCHANGED <<trial, trialVars, budget, counts, budgetCode, world, receipt>>

(* The candidate has a guard of its own. *)
PairRecords ==
    /\ lanePc = "record"
    /\ guardCode' = Refusal("candidate")
    /\ budgetCode' = First(budgetCode, IF Refusal("candidate") = Nothing THEN Overdue ELSE Nothing)
    /\ IF Passed("candidate", Overdue) THEN Records ELSE Stops
    /\ UNCHANGED <<trial, trialVars, budget, counts, world, receipt>>

-----------------------------------------------------------------------------
(* The receipt. *)

Receipt(code, seconds) ==
    [bound |-> TRUE, calibrated |-> TRUE, pairs |-> pairs,
     provider |-> counts.provider, judge |-> counts.judge,
     elapsed |-> seconds, code |-> code]

(* Defect: a blocked lane reports the time of its last success. *)
LaneBlocksStale ==
    /\ lanePc = "stop"
    /\ Returns(Receipt(First(First(budgetCode, guardCode), "matched_execution_incomplete"), elapsed))
    /\ UNCHANGED <<trial, pairs, trialVars, budget, counts, codes, elapsed, world>>

(* The budget's reason comes before the guard's. *)
LaneBlocks ==
    /\ lanePc = "stop"
    /\ Returns(Receipt(First(First(budgetCode, guardCode), "matched_execution_incomplete"), clock))
    /\ UNCHANGED <<trial, pairs, trialVars, budget, counts, codes, elapsed, world>>

(* A completed lane reports the time its last pair was recorded at. *)
LaneCompletes ==
    /\ lanePc = "complete"
    /\ Returns(Receipt(Nothing, elapsed))
    /\ UNCHANGED <<trial, pairs, trialVars, budget, counts, codes, elapsed, world>>

(* CancelledError is nobody's failure here: it leaves without a receipt.   *)
LaneCancelled ==
    /\ lanePc \in {"provider", "judge", "stop"}
    /\ Returns(Nothing)
    /\ UNCHANGED <<trial, pairs, trialVars, budget, counts, codes, elapsed, world>>

-----------------------------------------------------------------------------
(* Time passes, and somebody works on the plugins. *)

Tick ==
    /\ lanePc \notin {"preflight", "done"}
    /\ clock < MaxTime
    /\ clock' = clock + 1
    /\ UNCHANGED <<lanePc, trial, pairs, trialVars, budget, counts, codes, elapsed, source, edits, receipt>>

SourceEdited ==
    /\ lanePc \notin {"preflight", "done"}
    /\ edits < MaxEdits
    /\ edits' = edits + 1
    /\ \E v \in Variants, s \in Sources :
          s # source[v] /\ source' = [source EXCEPT ![v] = s]
    /\ UNCHANGED <<lanePc, trial, pairs, trialVars, budget, counts, codes, elapsed, clock, receipt>>

Stopped == lanePc = "done" /\ UNCHANGED laneVars

-----------------------------------------------------------------------------
LaneInit ==
    /\ lanePc = "preflight"
    /\ trial = 0 /\ pairs = 0
    /\ provider = "none" /\ laneJudge = "none"
    /\ budget \in Budgets
    /\ counts = [provider |-> 0, judge |-> 0]
    /\ budgetCode = Nothing /\ guardCode = Nothing
    /\ elapsed = 0 /\ clock = 0
    /\ source = [v \in Variants |-> "bound"]
    /\ edits = 0
    /\ receipt = Nothing

Lane ==
    \/ PreflightRefuses \/ Preflight \/ TrialStarts \/ TrialEnds
    \/ PairChecksBaseline \/ PairRecords \/ LaneBlocks \/ LaneCompletes

TrialGoes ==
    \/ ProviderBegins \/ EvaluationJudges \/ JudgeBegins
    \/ PropertyRefused \/ EvaluationFails \/ EvaluationScores

HostAnswers == ProviderEnds \/ ProviderRaises \/ JudgeEnds \/ JudgeRaises

LaneNext == Lane \/ TrialGoes \/ HostAnswers \/ LaneCancelled \/ Tick \/ SourceEdited \/ Stopped

(* The lane goes on, and an evaluation ends (SelectedCase: EvaluationEnds) *)
(* whatever the host's callbacks do.                                       *)
LaneSpec == LaneInit /\ [][LaneNext]_laneVars /\ WF_laneVars(Lane) /\ WF_laneVars(TrialGoes)

-----------------------------------------------------------------------------
(* MatchedExecutionReceipt validates itself. *)
CoverageValid(r) ==
    /\ 2 * r.pairs <= r.judge /\ r.judge <= r.provider
    /\ r.provider <= 2 * r.pairs + 2
    /\ r.provider = 2 * r.pairs + 2 => r.judge >= 2 * r.pairs + 1
    /\ r.pairs <= Pairs /\ r.provider <= 2 * Pairs
    /\ ~r.calibrated => r.provider = 0
    /\ ~r.bound => r.code # Nothing /\ r.pairs = 0 /\ r.provider = 0 /\ ~r.calibrated

BudgetValid(r) ==
    /\ r.provider <= budget.provider /\ r.judge <= budget.judge
    /\ r.code = "matched_cost_budget_unavailable" => budget.cost
    /\ budget.cost => r.code \in {"matched_cost_budget_unavailable", "invalid_matched_execution"}
    /\ r.code = "matched_run_budget_insufficient" => Insufficient
    /\ r.code = "matched_time_budget_exhausted" => r.elapsed >= budget.elapsed
    /\ r.code = Nothing => r.elapsed < budget.elapsed
    /\ r.code = "matched_provider_budget_exhausted" => r.provider = budget.provider
    /\ r.code = "matched_judge_budget_exhausted" => r.judge = budget.judge

StatusValid(r) ==
    /\ r.code = Nothing => r.bound /\ r.calibrated /\ r.pairs = Pairs /\ r.judge = 2 * Pairs
    /\ r.code \in InputCodes =>
           r.pairs = 0 /\ ~r.calibrated /\ r.provider = 0 /\ r.elapsed = 0
    /\ r.code \in ExecutionCodes => r.bound /\ r.calibrated /\ r.pairs # Pairs

(* The receipt that a lane builds passes its own validation: the counts,   *)
(* the pairs, the time and the reason, each taken at another moment, agree *)
(* with each other, with the budget, and with an ordered prefix of trials. *)
ReceiptValid ==
    receipt # Nothing =>
        /\ CoverageValid(receipt)
        /\ receipt.bound => BudgetValid(receipt)
        /\ StatusValid(receipt)

(* "Stop the callback": past the time limit no callback is attempted, and  *)
(* nothing that was observed is recorded.                                  *)
NothingAfterExpiry == [][Expired /\ lanePc # "preflight" => UNCHANGED <<counts, pairs>>]_laneVars

(* Where the source of a variant is not looked at any more. *)
PastLastCheck(v) ==
    lanePc \in {"done", "complete"} \/ (v = "baseline" /\ lanePc = "record" /\ trial = 2 * Pairs)

Completed == lanePc = "done" /\ receipt # Nothing /\ receipt.code = Nothing

(* "Recapture complete plugin source and safety at each private callback   *)
(* boundary": a change that lasts is noticed.  A lane does not complete    *)
(* over it, at whatever moment before the last check it was made.          *)
EditsNoticed ==
    \A v \in Variants :
        (~PastLastCheck(v) /\ source[v] # "bound")
            ~> (source[v] = "bound" \/ (lanePc = "done" /\ ~Completed))

(* A lane ends, whatever the host's callbacks do. *)
LaneEnds == <>(lanePc = "done")
=============================================================================
