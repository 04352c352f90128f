------------------------ MODULE LiveEvaluationProofs ------------------------
(***************************************************************************)
(* What a live evaluation of a selected case promises, for any number of   *)
(* cancellations and every behaviour of provider, judge and cleanup; and   *)
(* what a matched lane of such evaluations promises, for any number of     *)
(* cases, any budget and any number of edits; and what a score of supplied *)
(* observations says, and one of supplied evidence, for any of them and    *)
(* any contents of the package, replaced at any moment.                    *)
(*                                                                         *)
(* None of the properties is inductive.  CaseInv says what is known at     *)
(* each suspension point of an evaluation; tasks that were given up may    *)
(* still move, so that it says of each task what can no longer change.     *)
(* LaneInv counts the callbacks of the trial in progress against the       *)
(* trials and the pairs that are done.  SuppliedInv says what was read     *)
(* again, and what was cleared, when evidence is supplied.                 *)
(***************************************************************************)
EXTENDS MCScoring, TLAPS, SequenceTheorems, FiniteSetTheorems

-----------------------------------------------------------------------------
(* One evaluation.                                                         *)

CaseTyped ==
    /\ pc \in {"admit", "call", "judge", "tidy", "convert", "done"}
    /\ call \in {"idle", "running", "ended"}
    /\ busy \in BOOLEAN /\ cancelled \in BOOLEAN /\ raising \in BOOLEAN
    /\ cancelReq \in BOOLEAN /\ judgeStop \in BOOLEAN /\ tidyStop \in BOOLEAN
    /\ cancels \in Nat
    /\ failure \in Failures \cup {Absent}
    /\ result \in Results \cup {Absent}
    /\ judge \in Tasks /\ tidy \in Tasks /\ judgeReq \in Requests

(* The provider call: not yet begun, running, or over; and once the judge  *)
(* was asked, it was usable and its adapter has been let go for good.      *)
Called ==
    /\ pc = "admit" => call = "idle" /\ ~busy
    /\ pc = "call" => call = "running"
    /\ pc \in {"admit", "call"} <=> call # "ended" /\ pc # "done"
    /\ pc \in {"admit", "call"} => judge = "none"
    /\ judge # "none" => call = "ended" /\ Released(ending) /\ callReq = "asked" /\ ~busy

(* The judge's two hooks. *)
Hooked ==
    /\ judge = "none" => tidy = "none" /\ ~judgeStop
    /\ tidy = "none" => ~tidyStop
    /\ pc = "judge" => judge \in {"scheduled", "active", "done"} /\ ~judgeStop /\ tidy = "none"
    /\ pc \in {"tidy", "convert"} => judge # "none"
    /\ pc = "tidy" =>
           /\ tidy \in {"scheduled", "active", "done"} /\ ~tidyStop
           /\ ~raising /\ failure = Absent => judge = "done" /\ ~judgeStop
    /\ pc = "convert" =>
           judge = "done" /\ ~judgeStop /\ tidy = "done" /\ ~tidyStop /\ tidied = "answer" /\ judgeReq = "asked"
    /\ pc = "done" => judge = "none" \/ tidyStop \/ tidy = "done"

(* A cancellation is pending, or on its way through the call or the        *)
(* cleanup, and nothing else looks like one.                               *)
Cancelling ==
    /\ cancels > 0 /\ pc # "done" =>
           cancelReq \/ (pc = "call" /\ cancelled) \/ (pc = "tidy" /\ raising)
    /\ pc # "tidy" /\ pc # "done" => ~raising
    /\ cancelReq \/ cancelled \/ raising => cancels > 0

CaseInv ==
    /\ CaseTyped /\ Called /\ Hooked /\ Cancelling
    /\ pc # "done" => result = Absent
    /\ ScoreEarned /\ CancellationFaithful

(* The evaluation begins at its admission, and nothing was started. *)
LEMMA CaseInvInit == CaseInit => CaseInv
  <1> SUFFICES ASSUME CaseInit PROVE CaseInv
    OBVIOUS
  <1> USE DEF CaseInit, CallInit, FreshHooks
  <1>1. CaseTyped  BY DEF CaseTyped, Tasks, Requests
  <1>2. Called /\ Hooked /\ Cancelling  BY DEF Called, Hooked, Cancelling
  <1>3. result # "scored" /\ pc # "done"  BY CaseAssumption DEF Results
  <1>4. QED  BY <1>1, <1>2, <1>3 DEF CaseInv, ScoreEarned, CancellationFaithful

(* Every step of the evaluation, of its hooks, of the host and of the      *)
(* caller keeps the invariant: one step of the proof per action.           *)
LEMMA CaseInvNext == CaseInv /\ [CaseNext]_caseVars => CaseInv'
  <1> SUFFICES ASSUME CaseInv, [CaseNext]_caseVars PROVE CaseInv'
    OBVIOUS
  <1> USE CaseAssumption, NoHow DEF CaseInv, CaseTyped, Called, Hooked, Cancelling, ScoreEarned, CancellationFaithful,
       Usable, Released, Idle, Requests, Results, Tasks, Failures, Answers, callVars, flow, caller, requests, judging, tidying
  <1>1. CASE Refuse  BY <1>1 DEF Refuse, Return
  <1>2. CASE Admit  BY <1>2 DEF Admit, Begins
  <1>3. CASE AdmitCancelled  BY <1>3 DEF AdmitCancelled, Return
  <1>4. CASE CallCancelled  BY <1>4 DEF CallCancelled, IsCancelled
  <1>5. CASE JudgeReturns
    <2>1. JudgeFailure \in Failures \cup {Absent}  BY DEF JudgeFailure
    <2>2. raising' = FALSE /\ failure' = JudgeFailure /\ pc' = "tidy" /\ tidy' = "scheduled"
      BY <1>5 DEF JudgeReturns, Tidy
    <2>3. CaseTyped'  BY <1>5, <2>1, <2>2 DEF JudgeReturns, Tidy
    <2>4. Called' /\ Hooked'  BY <1>5, <2>2 DEF JudgeReturns, Tidy
    <2>5. Cancelling'  BY <1>5, <2>2 DEF JudgeReturns, Tidy
    <2>6. result' = Absent /\ pc' # "done"  BY <1>5 DEF JudgeReturns, Tidy
    <2>7. QED  BY <2>3, <2>4, <2>5, <2>6
  <1>6. CASE JudgeExpires
    <2>2. raising' = FALSE /\ failure' \in Failures /\ pc' = "tidy" /\ tidy' = "scheduled"
      BY <1>6 DEF JudgeExpires, Tidy
    <2>3. CaseTyped'  BY <1>6, <2>2 DEF JudgeExpires, Tidy
    <2>4. Called' /\ Hooked'  BY <1>6, <2>2 DEF JudgeExpires, Tidy
    <2>5. Cancelling'  BY <1>6, <2>2 DEF JudgeExpires, Tidy
    <2>6. result' = Absent /\ pc' # "done"  BY <1>6 DEF JudgeExpires, Tidy
    <2>7. QED  BY <2>3, <2>4, <2>5, <2>6
  <1>7. CASE JudgeCancelled
    <2>2. raising' = TRUE /\ failure' = Absent /\ pc' = "tidy" /\ tidy' = "scheduled"
      BY <1>7 DEF JudgeCancelled, Tidy
    <2>3. CaseTyped'  BY <1>7, <2>2 DEF JudgeCancelled, Tidy
    <2>4. Called' /\ Hooked'  BY <1>7, <2>2 DEF JudgeCancelled, Tidy
    <2>5. Cancelling'  BY <1>7, <2>2 DEF JudgeCancelled, Tidy
    <2>6. result' = Absent /\ pc' # "done"  BY <1>7 DEF JudgeCancelled, Tidy
    <2>7. QED  BY <2>3, <2>4, <2>5, <2>6
  <1>8. CASE TidyReturns
    <2>1. TidyFailure \in Failures \cup {Absent} /\ (TidyFailure = Absent => failure = Absent /\ tidied = "answer")
      BY DEF TidyFailure
    <2>2. CASE raising
      BY <1>8, <2>1, <2>2 DEF TidyReturns, AfterTidy, Return
    <2>3. CASE ~raising /\ ("mutated" \in {callReq, judgeReq} \/ TidyFailure # Absent)
      BY <1>8, <2>1, <2>3 DEF TidyReturns, AfterTidy, Return
    <2>4. CASE ~raising /\ ~("mutated" \in {callReq, judgeReq} \/ TidyFailure # Absent)
      BY <1>8, <2>1, <2>4 DEF TidyReturns, AfterTidy, Return
    <2>5. QED  BY <2>2, <2>3, <2>4
  <1>9. CASE TidyExpires  BY <1>9 DEF TidyExpires, AfterTidy, Return
  <1>10. CASE TidyCancelled
    <2>1. CaseTyped'  BY <1>10 DEF TidyCancelled, Return
    <2>2. Called' /\ Hooked'  BY <1>10 DEF TidyCancelled, Return
    <2>3. Cancelling' /\ ScoreEarned' /\ CancellationFaithful'  BY <1>10 DEF TidyCancelled, Return
    <2>4. pc' = "done"  BY <1>10 DEF TidyCancelled, Return
    <2>5. QED  BY <2>1, <2>2, <2>3, <2>4
  <1>11. CASE Convert  BY <1>11 DEF Convert, Return
  <1>12. CASE ConvertCancelled  BY <1>12 DEF ConvertCancelled, Return
  <1>13. CASE CallReturns
    <2>1. PICK h \in Hows, c \in BOOLEAN :
              /\ EndsAs([how |-> h, cleanup |-> c])
              /\ \/ Usable([how |-> h, cleanup |-> c]) /\ pc' = "judge" /\ judge' = "scheduled" /\ UNCHANGED result
                 \/ h # "cancelled" /\ Return("blocked") /\ UNCHANGED judge
                 \/ h = "cancelled" /\ Return("cancelled") /\ UNCHANGED judge
      BY <1>13 DEF CallReturns
    <2>2. /\ ending'.how = h /\ ending'.cleanup = c /\ call' = "ended" /\ call = "running"
          /\ cancelled => h \in Exceptions
          /\ (h = "completed" /\ c) => ~busy
          /\ UNCHANGED <<cancelled, busy>>
      BY <2>1 DEF EndsAs
    <2>3. pc = "call" /\ ~cancelReq /\ UNCHANGED <<raising, failure, cancelReq, cancels, callReq, judgeReq, tidy, tidyStop, judgeStop>>
      BY <1>13 DEF CallReturns
    <2>4. CASE Usable([how |-> h, cleanup |-> c]) /\ pc' = "judge" /\ judge' = "scheduled" /\ UNCHANGED result
      <3>1. h = "completed" /\ c /\ callReq = "asked" /\ ~cancelled
        BY <2>2, <2>4 DEF Exceptions
      <3>2. QED  BY <2>2, <2>3, <2>4, <3>1
    <2>5. CASE h # "cancelled" /\ Return("blocked") /\ UNCHANGED judge
      BY <2>2, <2>3, <2>5 DEF Return, Exceptions
    <2>6. CASE h = "cancelled" /\ Return("cancelled") /\ UNCHANGED judge
      BY <2>2, <2>3, <2>6 DEF Return, Exceptions
    <2>7. QED  BY <2>1, <2>4, <2>5, <2>6
  <1>14. CASE JudgeStarts  BY <1>14 DEF JudgeStarts
  <1>15. CASE JudgeDropped  BY <1>15 DEF JudgeDropped
  <1>16. CASE TidyStarts  BY <1>16 DEF TidyStarts
  <1>17. CASE TidyDropped  BY <1>17 DEF TidyDropped
  <1>18. CASE JudgeTimer  BY <1>18 DEF JudgeTimer
  <1>19. CASE TidyTimer  BY <1>19 DEF TidyTimer
  <1>20. CASE CallWorks  BY <1>20 DEF CallWorks, Works
  <1>21. CASE AdapterMutates  BY <1>21 DEF AdapterMutates
  <1>22. CASE CallLetsGo  BY <1>22 DEF CallLetsGo, LetsGo
  <1>23. CASE JudgeAnswers  BY <1>23 DEF JudgeAnswers
  <1>24. CASE JudgeMutates  BY <1>24 DEF JudgeMutates
  <1>25. CASE TidyAnswers  BY <1>25 DEF TidyAnswers
  <1>26. CASE CallerCancels  BY <1>26 DEF CallerCancels
  <1>27. CASE Quiet \/ UNCHANGED caseVars  BY <1>27 DEF Quiet, caseVars
  <1>28. QED
    BY <1>1, <1>2, <1>3, <1>4, <1>5, <1>6, <1>7, <1>8, <1>9, <1>10, <1>11, <1>12, <1>13, <1>14, <1>15, <1>16, <1>17, <1>18, <1>19, <1>20, <1>21, <1>22, <1>23, <1>24, <1>25, <1>26, <1>27 DEF CaseNext, Evaluation, Loop, Timers, Host
-----------------------------------------------------------------------------
(* The invariant holds of every evaluation, scheduled however.             *)
THEOREM CaseInvariance == CaseSpec => []CaseInv
  <1>1. QED  BY CaseInvInit, CaseInvNext, PTL DEF CaseSpec

(* _execute_selected_case_with_judge scores a case only on usable output   *)
(* of a provider that was let go, an answer the judge gave in time, a      *)
(* cleanup that succeeded and the request that was asked.                  *)
THEOREM ScoresEarned == CaseSpec => []ScoreEarned
  <1>1. CaseInv => ScoreEarned  BY DEF CaseInv
  <1>2. QED  BY <1>1, CaseInvariance, PTL

(* _judge_once: the judge is asked only when the provider was let go, and  *)
(* whoever asked it calls its cleanup hook before the evaluation ends.     *)
THEOREM JudgesHandled == CaseSpec => []JudgeHandled
  <1>1. CaseInv => JudgeHandled
    BY DEF CaseInv, Called, Hooked, JudgeHandled
  <1>2. QED  BY <1>1, CaseInvariance, PTL

(* A cancellation of the evaluation is delivered as CancelledError, at     *)
(* whatever suspension it meets, and none is made up by the judge.         *)
THEOREM CancellationsFaithful == CaseSpec => []CancellationFaithful
  <1>1. CaseInv => CancellationFaithful  BY DEF CaseInv
  <1>2. QED  BY <1>1, CaseInvariance, PTL

-----------------------------------------------------------------------------
(* One lane.                                                               *)

(* Where a lane can be, and what a callback of a trial can be. *)
Places    == {"preflight", "trial", "provider", "judge", "check", "pair", "record", "stop", "complete", "done"}
Callbacks == {"none", "active", "ok", "failed"}

Typed ==
    /\ lanePc \in Places
    /\ trial \in Nat /\ pairs \in Nat
    /\ provider \in Callbacks /\ laneJudge \in Callbacks
    /\ budget \in Budgets
    /\ counts \in [provider : Nat, judge : Nat]
    /\ budgetCode \in BudgetCodes \cup {Nothing} /\ guardCode \in GuardCodes \cup {Nothing}
    /\ elapsed \in Nat /\ clock \in Nat

(* Both counts of callbacks are the trials done, but in a trial.           *)
Even == counts.provider = trial /\ counts.judge = trial
Ahead(n) == n = trial \/ n = trial + 1

(* How many pairs the trials done amount to. *)
Paired ==
    /\ lanePc \in {"trial", "provider", "judge", "check"} =>
           trial < 2 * Pairs /\ (trial = 2 * pairs \/ trial = 2 * pairs + 1)
    /\ lanePc \in {"pair", "record"} => trial <= 2 * Pairs /\ trial = 2 * pairs + 2
    /\ lanePc = "complete" => trial = 2 * pairs /\ pairs = Pairs
    /\ lanePc = "stop" =>
         \/ trial < 2 * Pairs /\ (trial = 2 * pairs \/ trial = 2 * pairs + 1)
         \/ trial <= 2 * Pairs /\ trial = 2 * pairs + 2 /\ Even

(* How far the callbacks of the trial in progress are ahead of it. *)
Counted ==
    /\ lanePc \in {"trial", "pair", "record", "complete"} => Even
    /\ lanePc = "preflight" => Even /\ trial = 0 /\ pairs = 0 /\ clock = 0
    /\ lanePc = "provider" =>
         /\ counts.judge = trial /\ laneJudge = "none" /\ Ahead(counts.provider)
         /\ provider = "none" => counts.provider = trial
         /\ provider \in {"active", "ok"} => counts.provider = trial + 1
    /\ lanePc = "judge" =>
         /\ counts.provider = trial + 1 /\ Ahead(counts.judge)
         /\ laneJudge = "none" => counts.judge = trial
         /\ laneJudge \in {"active", "ok"} => counts.judge = trial + 1
    /\ lanePc = "check" => counts.provider = trial + 1 /\ counts.judge = trial + 1
    /\ lanePc = "stop" =>
         Ahead(counts.provider) /\ Ahead(counts.judge) /\ counts.judge <= counts.provider

(* A reason of the budget that was true stays true. *)
CodeTrue(code) ==
    /\ code = "matched_time_budget_exhausted" => Expired
    /\ code = "matched_provider_budget_exhausted" => counts.provider = budget.provider
    /\ code = "matched_judge_budget_exhausted" => counts.judge = budget.judge

Budgeted ==
    /\ lanePc \notin {"preflight", "done"} => ~budget.cost
    /\ counts.provider <= budget.provider /\ counts.judge <= budget.judge
    /\ CodeTrue(budgetCode)
    /\ lanePc = "complete" => elapsed < budget.elapsed

LaneInv == Typed /\ Paired /\ Counted /\ Budgeted /\ ReceiptValid

-----------------------------------------------------------------------------
(* The limits of a lane are numbers. *)
LEMMA LimitsAreNumbers ==
  ASSUME LaneConstants, Typed
  PROVE  /\ Pairs \in Nat /\ Pairs > 0
         /\ budget.provider \in Nat /\ budget.judge \in Nat /\ budget.elapsed \in Nat
         /\ budget.cost \in BOOLEAN
         /\ counts.provider \in Nat /\ counts.judge \in Nat
  <1>1. budget \in [provider : Nat, judge : Nat, elapsed : Nat, cost : BOOLEAN]
    BY DEF LaneConstants, Typed
  <1>2. counts \in [provider : Nat, judge : Nat]  BY DEF Typed
  <1>3. Pairs \in Nat /\ Pairs # 0  BY DEF LaneConstants
  <1>4. QED  BY <1>1, <1>2, <1>3

(* No code is Absent, and the three kinds of codes differ. *)
LEMMA Codes ==
  ASSUME LaneConstants
  PROVE  /\ \A code \in InputCodes \cup ExecutionCodes : code # Nothing
         /\ GuardCodes \cup BudgetCodes \subseteq ExecutionCodes
         /\ \A code \in ExecutionCodes : code \notin InputCodes
  BY DEF LaneConstants, ExecutionCodes, InputCodes, GuardCodes, BudgetCodes

(* What the guard and the budget may say, and that they say it truly.      *)
LEMMA Refusals ==
  ASSUME LaneConstants, Typed
  PROVE  /\ \A v : Refusal(v) \in GuardCodes \cup {Nothing}
         /\ Overdue \in BudgetCodes \cup {Nothing} /\ CodeTrue(Overdue) /\ CodeTrue(Nothing)
         /\ Overdue = Nothing => ~Expired
  <1>1. \A v : Refusal(v) \in GuardCodes \cup {Nothing}  BY DEF Refusal, GuardCodes
  <1>2. \A code \in BudgetCodes : code # Nothing  BY Codes
  <1>3. CodeTrue(Nothing)  BY <1>2 DEF CodeTrue, BudgetCodes
  <1>4. Overdue \in BudgetCodes \cup {Nothing}  BY DEF Overdue, BudgetCodes
  <1>5. CASE Expired
    <2>1. Overdue = "matched_time_budget_exhausted"  BY <1>5 DEF Overdue
    <2>2. CodeTrue(Overdue)  BY <1>5, <2>1 DEF CodeTrue
    <2>3. Overdue # Nothing  BY <1>2, <2>1 DEF BudgetCodes
    <2>4. QED  BY <1>1, <1>3, <1>4, <2>2, <2>3
  <1>6. CASE ~Expired
    <2>1. Overdue = Nothing  BY <1>6 DEF Overdue
    <2>2. QED  BY <1>1, <1>3, <1>4, <1>6, <2>1
  <1>7. QED  BY <1>5, <1>6

(* One more callback of a kind is attempted before the time limit and      *)
(* below the limit of its kind.                                            *)
LEMMA Exhaustion ==
  ASSUME LaneConstants, Typed, counts.provider <= budget.provider, counts.judge <= budget.judge,
         NEW kind \in {"provider", "judge"}
  PROVE  /\ Exhausted(kind) \in BudgetCodes \cup {Nothing} /\ CodeTrue(Exhausted(kind))
         /\ Exhausted(kind) = Nothing => ~Expired /\ counts[kind] < budget[kind]
  <1>1. \A code \in BudgetCodes : code # Nothing  BY Codes
  <1>2. counts[kind] \in Nat /\ budget[kind] \in Nat /\ counts[kind] <= budget[kind]
    <2>1. CASE kind = "provider"  BY <2>1, LimitsAreNumbers
    <2>2. CASE kind = "judge"  BY <2>2, LimitsAreNumbers
    <2>3. QED  BY <2>1, <2>2
  <1>3. CASE Expired
    <2>1. Exhausted(kind) = "matched_time_budget_exhausted"  BY <1>3 DEF Exhausted
    <2>2. QED  BY <1>1, <1>3, <2>1 DEF CodeTrue, BudgetCodes
  <1>4. CASE ~Expired /\ counts[kind] >= budget[kind]
    <2>1. Exhausted(kind) = IF kind = "provider" THEN "matched_provider_budget_exhausted"
                            ELSE "matched_judge_budget_exhausted"
      BY <1>4 DEF Exhausted
    <2>2. counts[kind] = budget[kind]  BY <1>2, <1>4
    <2>3. CASE kind = "provider"
      <3>1. Exhausted(kind) = "matched_provider_budget_exhausted"  BY <2>1, <2>3
      <3>2. QED  BY <1>1, <2>2, <2>3, <3>1 DEF CodeTrue, BudgetCodes
    <2>4. CASE kind = "judge"
      <3>1. Exhausted(kind) = "matched_judge_budget_exhausted"  BY <2>1, <2>4
      <3>2. QED  BY <1>1, <2>2, <2>4, <3>1 DEF CodeTrue, BudgetCodes
    <2>5. QED  BY <2>3, <2>4
  <1>5. CASE ~Expired /\ ~(counts[kind] >= budget[kind])
    <2>1. Exhausted(kind) = Nothing  BY <1>5 DEF Exhausted
    <2>2. CodeTrue(Nothing)  BY Refusals
    <2>3. counts[kind] < budget[kind]  BY <1>2, <1>5
    <2>4. QED  BY <1>5, <2>1, <2>2, <2>3
  <1>6. QED  BY <1>3, <1>4, <1>5

(* Asking adds true reasons and drops none. *)
LEMMA AskedTruly ==
  ASSUME LaneConstants, Typed, CodeTrue(budgetCode), NEW v,
         NEW limit \in BudgetCodes \cup {Nothing}, CodeTrue(limit), Asks(v, limit)
  PROVE  /\ budgetCode' \in BudgetCodes \cup {Nothing} /\ guardCode' \in GuardCodes \cup {Nothing}
         /\ CodeTrue(budgetCode')
  <1>1. Refusal(v) \in GuardCodes \cup {Nothing} /\ CodeTrue(Nothing)  BY Refusals
  <1>2. guardCode' \in {guardCode, Refusal(v)}  BY DEF Asks, First
  <1>3. budgetCode' \in {budgetCode, limit, Nothing}  BY DEF Asks, First
  <1>4. QED  BY <1>1, <1>2, <1>3 DEF Typed

(* A reason that is true now is true after a step that takes no callback   *)
(* back and in which time goes on.                                         *)
LEMMA TruthStays ==
  ASSUME LaneConstants, Typed, Typed', CodeTrue(budgetCode'), UNCHANGED <<budget, counts>>, clock' >= clock
  PROVE  CodeTrue(budgetCode)'
  <1>1. Expired => Expired'  BY LimitsAreNumbers DEF Expired, Typed
  <1>2. QED  BY <1>1 DEF CodeTrue

(* A receipt that was given stays as it is. *)
LEMMA ReceiptStays == ASSUME ReceiptValid, UNCHANGED <<budget, receipt>> PROVE ReceiptValid'
  BY DEF ReceiptValid, CoverageValid, BudgetValid, StatusValid, Insufficient

-----------------------------------------------------------------------------
(* What leaves the lane where it is: a callback that ends, time and edits. *)
LEMMA Beside ==
  ASSUME LaneConstants, LaneInv, UNCHANGED <<lanePc, trial, pairs, budget, counts, elapsed, receipt>>,
         provider' = provider \/ (provider = "active" /\ provider' \in {"ok", "failed"}),
         laneJudge' = laneJudge \/ (laneJudge = "active" /\ laneJudge' \in {"ok", "failed"}),
         budgetCode' \in BudgetCodes \cup {Nothing}, guardCode' \in GuardCodes \cup {Nothing},
         CodeTrue(budgetCode'), clock' \in Nat, clock' >= clock, lanePc = "preflight" => clock' = clock
  PROVE  LaneInv'
  <1>1. Typed /\ Paired /\ Counted /\ Budgeted /\ ReceiptValid  BY DEF LaneInv
  <1>2. Typed'  BY <1>1 DEF Typed, Callbacks
  <1>3. Paired'  BY <1>1 DEF Paired, Even
  <1>4. Counted'  BY <1>1 DEF Counted, Even, Ahead
  <1>5. CodeTrue(budgetCode)'  BY <1>1, <1>2, TruthStays
  <1>6. Budgeted'  BY <1>1, <1>5 DEF Budgeted
  <1>7. ReceiptValid'  BY <1>1, ReceiptStays
  <1>8. QED  BY <1>2, <1>3, <1>4, <1>6, <1>7 DEF LaneInv

(* A lane may stop anywhere in its trials and at the end of a pair. *)
LEMMA Stopping ==
  ASSUME LaneConstants, LaneInv, UNCHANGED <<trial, pairs, budget, counts, elapsed, clock, receipt>>,
         lanePc \in {"trial", "provider", "judge", "check", "pair", "record"}, lanePc' = "stop",
         provider' \in Callbacks, laneJudge' \in Callbacks,
         budgetCode' \in BudgetCodes \cup {Nothing}, guardCode' \in GuardCodes \cup {Nothing},
         CodeTrue(budgetCode')
  PROVE  LaneInv'
  <1>1. Typed /\ Paired /\ Counted /\ Budgeted /\ ReceiptValid  BY DEF LaneInv
  <1>2. Typed'  BY <1>1 DEF Typed, Places
  <1>3. counts.provider \in Nat /\ counts.judge \in Nat /\ trial \in Nat  BY <1>1, LimitsAreNumbers DEF Typed
  <1>4. Even' <=> Even  BY DEF Even
  <1>5. Paired'  BY <1>1, <1>4 DEF Paired, Counted
  <1>6. Ahead(counts.provider)' /\ Ahead(counts.judge)' /\ counts'.judge <= counts'.provider
    BY <1>1, <1>3 DEF Counted, Even, Ahead
  <1>7. Counted'  BY <1>6 DEF Counted
  <1>8. CodeTrue(budgetCode)'  BY <1>1, <1>2, TruthStays DEF Typed
  <1>9. Budgeted'  BY <1>1, <1>8 DEF Budgeted
  <1>10. ReceiptValid'  BY <1>1, ReceiptStays
  <1>11. QED  BY <1>2, <1>5, <1>7, <1>9, <1>10 DEF LaneInv

(* Or go on to another place without a callback more. *)
LEMMA GoingOn ==
  ASSUME LaneConstants, LaneInv, UNCHANGED <<budget, counts, clock, receipt>>,
         lanePc' \in Places, trial' \in Nat, pairs' \in Nat, elapsed' \in Nat,
         lanePc \notin {"preflight", "done"}, lanePc' = "complete" => elapsed' < budget.elapsed,
         provider' \in Callbacks, laneJudge' \in Callbacks,
         budgetCode' \in BudgetCodes \cup {Nothing}, guardCode' \in GuardCodes \cup {Nothing},
         CodeTrue(budgetCode'), Paired', Counted'
  PROVE  LaneInv'
  <1>1. Typed /\ Paired /\ Counted /\ Budgeted /\ ReceiptValid  BY DEF LaneInv
  <1>2. Typed'  BY <1>1 DEF Typed
  <1>3. CodeTrue(budgetCode)'  BY <1>1, <1>2, TruthStays DEF Typed
  <1>4. Budgeted'  BY <1>1, <1>3 DEF Budgeted
  <1>5. ReceiptValid'  BY <1>1, ReceiptStays
  <1>6. QED  BY <1>2, <1>3, <1>4, <1>5 DEF LaneInv

(* Codes that stay were typed and true. *)
LEMMA SameCodes ==
  ASSUME LaneConstants, LaneInv, UNCHANGED budgetCode
  PROVE  budgetCode' \in BudgetCodes \cup {Nothing} /\ CodeTrue(budgetCode')
  BY DEF LaneInv, Typed, Budgeted

(* A guard that is asked alone. *)
LEMMA GuardAsked ==
  ASSUME LaneConstants, LaneInv, NEW v,
         guardCode' = Refusal(v) \/ guardCode' = First(guardCode, Refusal(v))
  PROVE  guardCode' \in GuardCodes \cup {Nothing}
  BY Refusals DEF LaneInv, Typed, First

-----------------------------------------------------------------------------
(* The baseline is tried at even trials, and the candidate at odd ones. *)
LEMMA Parity ==
  ASSUME NEW n \in Nat
  PROVE  (2 * n) % 2 = 0 /\ (2 * n + 1) % 2 = 1
  OBVIOUS

(* The pair is complete after the candidate's trial. *)
LEMMA Variants2 ==
  ASSUME Typed, trial = 2 * pairs \/ trial = 2 * pairs + 1
  PROVE  (Variant = "baseline" => trial = 2 * pairs) /\ (Variant # "baseline" => trial = 2 * pairs + 1)
  BY Parity DEF Variant, Typed

(* A trial that begins finds the counts of those that are done.            *)
LEMMA TrialStartsInv == ASSUME LaneConstants, LaneInv, TrialStarts PROVE LaneInv'
  <1>1. Typed /\ Paired /\ Counted /\ Budgeted  BY DEF LaneInv
  <1>2. /\ lanePc = "trial" /\ provider' = "none" /\ laneJudge' = "none"
        /\ UNCHANGED <<trial, pairs, budget, counts, budgetCode, elapsed, clock, receipt>>
        /\ provider' \in Callbacks /\ laneJudge' \in Callbacks
    BY DEF TrialStarts, world, Callbacks
  <1>3. guardCode' \in GuardCodes \cup {Nothing}  BY GuardAsked DEF TrialStarts
  <1>4. budgetCode' \in BudgetCodes \cup {Nothing} /\ CodeTrue(budgetCode')  BY <1>2, SameCodes
  <1>5. CASE lanePc' = "stop"  BY <1>2, <1>3, <1>4, <1>5, Stopping
  <1>6. CASE lanePc' = "provider"
    <2>1. Paired'  BY <1>1, <1>2, <1>6 DEF Paired, Typed
    <2>2. Counted'  BY <1>1, <1>2, <1>6 DEF Counted, Even, Ahead
    <2>3. QED  BY <1>1, <1>2, <1>3, <1>4, <1>6, <2>1, <2>2, GoingOn DEF Typed, Places
  <1>7. QED  BY <1>5, <1>6 DEF TrialStarts

(* The two callbacks begin: one more is counted when guard and budget let  *)
(* it pass.                                                                *)
LEMMA ProviderBeginsInv == ASSUME LaneConstants, LaneInv, ProviderBegins PROVE LaneInv'
  <1>1. Typed /\ Paired /\ Counted /\ Budgeted /\ ReceiptValid  BY DEF LaneInv
  <1> DEFINE limit == Exhausted("provider")
  <1>2. /\ lanePc = "provider" /\ provider = "none" /\ Asks(Variant, limit)
        /\ UNCHANGED <<lanePc, trial, pairs, laneJudge, budget, elapsed, clock, receipt>>
    BY DEF ProviderBegins, world
  <1>3. /\ limit \in BudgetCodes \cup {Nothing} /\ CodeTrue(limit)
        /\ limit = Nothing => ~Expired /\ counts.provider < budget.provider
    BY <1>1, Exhaustion DEF Budgeted
  <1>4. /\ budgetCode' \in BudgetCodes \cup {Nothing} /\ guardCode' \in GuardCodes \cup {Nothing}
        /\ CodeTrue(budgetCode')
    BY <1>1, <1>2, <1>3, AskedTruly DEF Budgeted
  <1> HIDE DEF limit
  <1>5. CASE ~Passed(Variant, limit)
    <2>1. provider' = "failed" /\ UNCHANGED counts  BY <1>5 DEF ProviderBegins, limit
    <2>2. Paired'  BY <1>1, <1>2, <2>1 DEF Paired
    <2>3. Counted'  BY <1>1, <1>2, <2>1 DEF Counted, Ahead
    <2>4. provider' \in Callbacks /\ laneJudge' \in Callbacks  BY <1>1, <1>2, <2>1 DEF Typed, Callbacks
    <2>5. QED  BY <1>1, <1>2, <1>4, <2>1, <2>2, <2>3, <2>4, GoingOn DEF Typed, Places
  <1>6. CASE Passed(Variant, limit)
    <2>1. provider' = "active" /\ counts' = [counts EXCEPT !.provider = @ + 1]
      BY <1>6 DEF ProviderBegins, limit
    <2>2. counts.provider \in Nat /\ counts.judge \in Nat /\ trial \in Nat
          /\ budget.provider \in Nat /\ budget.judge \in Nat
      BY <1>1, LimitsAreNumbers DEF Typed
    <2>3. counts'.provider = counts.provider + 1 /\ counts'.judge = counts.judge
          /\ counts' \in [provider : Nat, judge : Nat]
      BY <1>1, <2>1, <2>2 DEF Typed
    <2>4. limit = Nothing /\ budgetCode' = budgetCode
      <3>1. limit = Nothing /\ Refusal(Variant) = Nothing  BY <1>6 DEF Passed
      <3>2. QED  BY <1>2, <3>1 DEF Asks, First
    <2>5. counts.provider < budget.provider /\ ~Expired  BY <1>3, <2>4
    <2>6. Typed'  BY <1>1, <1>2, <1>4, <2>1, <2>3 DEF Typed, Callbacks
    <2>7. Paired'  BY <1>1, <1>2 DEF Paired
    <2>8. Counted'
      <3>1. counts.judge = trial /\ laneJudge = "none" /\ counts.provider = trial
        BY <1>1, <1>2 DEF Counted
      <3>2. QED  BY <1>2, <2>1, <2>2, <2>3, <3>1 DEF Counted, Ahead
    <2>9. CodeTrue(budgetCode)'
      <3>1. budgetCode # "matched_provider_budget_exhausted" /\ budgetCode # "matched_time_budget_exhausted"
        BY <1>1, <2>2, <2>5 DEF Budgeted, CodeTrue
      <3>2. QED  BY <1>1, <1>2, <2>3, <2>4, <3>1 DEF Budgeted, CodeTrue
    <2>10. Budgeted'  BY <1>1, <1>2, <2>2, <2>3, <2>5, <2>9 DEF Budgeted
    <2>11. ReceiptValid'  BY <1>1, <1>2, ReceiptStays
    <2>12. QED  BY <2>6, <2>7, <2>8, <2>10, <2>11 DEF LaneInv
  <1>7. QED  BY <1>5, <1>6

(* The judge is the second callback of its trial.                          *)
LEMMA JudgeBeginsInv == ASSUME LaneConstants, LaneInv, JudgeBegins PROVE LaneInv'
  <1>1. Typed /\ Paired /\ Counted /\ Budgeted /\ ReceiptValid  BY DEF LaneInv
  <1> DEFINE limit == Exhausted("judge")
  <1>2. /\ lanePc = "judge" /\ laneJudge = "none" /\ Asks(Variant, limit)
        /\ UNCHANGED <<lanePc, trial, pairs, provider, budget, elapsed, clock, receipt>>
    BY DEF JudgeBegins, world
  <1>3. /\ limit \in BudgetCodes \cup {Nothing} /\ CodeTrue(limit)
        /\ limit = Nothing => ~Expired /\ counts.judge < budget.judge
    BY <1>1, Exhaustion DEF Budgeted
  <1>4. /\ budgetCode' \in BudgetCodes \cup {Nothing} /\ guardCode' \in GuardCodes \cup {Nothing}
        /\ CodeTrue(budgetCode')
    BY <1>1, <1>2, <1>3, AskedTruly DEF Budgeted
  <1> HIDE DEF limit
  <1>5. CASE ~Passed(Variant, limit)
    <2>1. laneJudge' = "failed" /\ UNCHANGED counts  BY <1>5 DEF JudgeBegins, limit
    <2>2. Paired'  BY <1>1, <1>2, <2>1 DEF Paired
    <2>3. Counted'  BY <1>1, <1>2, <2>1 DEF Counted, Ahead
    <2>4. provider' \in Callbacks /\ laneJudge' \in Callbacks  BY <1>1, <1>2, <2>1 DEF Typed, Callbacks
    <2>5. QED  BY <1>1, <1>2, <1>4, <2>1, <2>2, <2>3, <2>4, GoingOn DEF Typed, Places
  <1>6. CASE Passed(Variant, limit)
    <2>1. laneJudge' = "active" /\ counts' = [counts EXCEPT !.judge = @ + 1]
      BY <1>6 DEF JudgeBegins, limit
    <2>2. counts.provider \in Nat /\ counts.judge \in Nat /\ trial \in Nat
          /\ budget.provider \in Nat /\ budget.judge \in Nat
      BY <1>1, LimitsAreNumbers DEF Typed
    <2>3. counts'.judge = counts.judge + 1 /\ counts'.provider = counts.provider
          /\ counts' \in [provider : Nat, judge : Nat]
      BY <1>1, <2>1, <2>2 DEF Typed
    <2>4. limit = Nothing /\ budgetCode' = budgetCode
      <3>1. limit = Nothing /\ Refusal(Variant) = Nothing  BY <1>6 DEF Passed
      <3>2. QED  BY <1>2, <3>1 DEF Asks, First
    <2>5. counts.judge < budget.judge /\ ~Expired  BY <1>3, <2>4
    <2>6. Typed'  BY <1>1, <1>2, <1>4, <2>1, <2>3 DEF Typed, Callbacks
    <2>7. Paired'  BY <1>1, <1>2 DEF Paired
    <2>8. Counted'
      <3>1. counts.judge = trial /\ counts.provider = trial + 1
        BY <1>1, <1>2 DEF Counted
      <3>2. QED  BY <1>2, <2>1, <2>2, <2>3, <3>1 DEF Counted, Ahead
    <2>9. CodeTrue(budgetCode)'
      <3>1. budgetCode # "matched_judge_budget_exhausted" /\ budgetCode # "matched_time_budget_exhausted"
        BY <1>1, <2>2, <2>5 DEF Budgeted, CodeTrue
      <3>2. QED  BY <1>1, <1>2, <2>3, <2>4, <3>1 DEF Budgeted, CodeTrue
    <2>10. Budgeted'  BY <1>1, <1>2, <2>2, <2>3, <2>5, <2>9 DEF Budgeted
    <2>11. ReceiptValid'  BY <1>1, <1>2, ReceiptStays
    <2>12. QED  BY <2>6, <2>7, <2>8, <2>10, <2>11 DEF LaneInv
  <1>7. QED  BY <1>5, <1>6

(* The callbacks end, in time or not, or raise. *)
LEMMA HostInv == ASSUME LaneConstants, LaneInv, HostAnswers PROVE LaneInv'
  <1>1. Typed /\ Budgeted  BY DEF LaneInv
  <1>2. CodeTrue(budgetCode) /\ clock \in Nat  BY <1>1 DEF Budgeted, Typed
  <1>3. Overdue \in BudgetCodes \cup {Nothing} /\ CodeTrue(Overdue)  BY <1>1, Refusals
  <1>4. CASE ProviderEnds
    <2>1. /\ provider = "active" /\ provider' \in {"ok", "failed"} /\ Asks(Variant, Overdue)
          /\ UNCHANGED <<lanePc, trial, pairs, laneJudge, budget, counts, elapsed, clock, receipt>>
      BY <1>4 DEF ProviderEnds, world
    <2>2. QED  BY <1>1, <1>2, <1>3, <2>1, AskedTruly, Beside
  <1>5. CASE JudgeEnds
    <2>1. /\ laneJudge = "active" /\ laneJudge' \in {"ok", "failed"} /\ Asks(Variant, Overdue)
          /\ UNCHANGED <<lanePc, trial, pairs, provider, budget, counts, elapsed, clock, receipt>>
      BY <1>5 DEF JudgeEnds, world
    <2>2. QED  BY <1>1, <1>2, <1>3, <2>1, AskedTruly, Beside
  <1>6. CASE ProviderRaises
    <2>1. /\ provider = "active" /\ provider' \in {"ok", "failed"} /\ UNCHANGED codes
          /\ UNCHANGED <<lanePc, trial, pairs, laneJudge, budget, counts, elapsed, clock, receipt>>
      BY <1>6 DEF ProviderRaises, world
    <2>2. QED  BY <1>1, <1>2, <2>1, Beside DEF codes, Typed
  <1>7. CASE JudgeRaises
    <2>1. /\ laneJudge = "active" /\ laneJudge' \in {"ok", "failed"} /\ UNCHANGED codes
          /\ UNCHANGED <<lanePc, trial, pairs, provider, budget, counts, elapsed, clock, receipt>>
      BY <1>7 DEF JudgeRaises, world
    <2>2. QED  BY <1>1, <1>2, <2>1, Beside DEF codes, Typed
  <1>8. QED  BY <1>4, <1>5, <1>6, <1>7 DEF HostAnswers

(* Time passes, and the plugins change. *)
LEMMA WorldInv == ASSUME LaneConstants, LaneInv, Tick \/ SourceEdited \/ UNCHANGED laneVars PROVE LaneInv'
  <1>1. Typed /\ Budgeted  BY DEF LaneInv
  <1>2. CodeTrue(budgetCode) /\ clock \in Nat  BY <1>1 DEF Budgeted, Typed
  <1>3. /\ UNCHANGED <<lanePc, trial, pairs, provider, laneJudge, budget, counts, budgetCode, guardCode, elapsed, receipt>>
        /\ clock' \in {clock, clock + 1} /\ (lanePc = "preflight" => clock' = clock)
    BY DEF Tick, SourceEdited, laneVars, trialVars, codes, world
  <1>4. QED  BY <1>1, <1>2, <1>3, Beside DEF Typed

(* The evaluation asks its judge, scores, or fails. *)
LEMMA EvaluationInv ==
  ASSUME LaneConstants, LaneInv,
         EvaluationJudges \/ PropertyRefused \/ EvaluationFails \/ EvaluationScores
  PROVE  LaneInv'
  <1>1. Typed /\ Paired /\ Counted /\ Budgeted  BY DEF LaneInv
  <1>2. UNCHANGED <<trial, pairs, provider, laneJudge, budget, counts, elapsed, clock, receipt>>
    BY DEF EvaluationJudges, PropertyRefused, EvaluationFails, EvaluationScores, trialVars, world
  <1>3. /\ budgetCode' \in BudgetCodes \cup {Nothing} /\ CodeTrue(budgetCode')
        /\ guardCode' \in GuardCodes \cup {Nothing}
    <2>1. CASE PropertyRefused
      <3>1. UNCHANGED <<budget, counts, clock, budgetCode>>  BY <2>1 DEF PropertyRefused, world
      <3>2. QED  BY <2>1, <3>1, SameCodes, GuardAsked DEF PropertyRefused
    <2>2. CASE UNCHANGED codes
      <3>1. UNCHANGED <<budget, counts, clock, budgetCode>> /\ guardCode' = guardCode  BY <1>2, <2>2 DEF codes
      <3>2. QED  BY <1>1, <3>1, SameCodes DEF Typed
    <2>3. CASE Asks(Variant, Overdue)
      <3>1. CodeTrue(budgetCode) /\ clock \in Nat  BY <1>1 DEF Budgeted, Typed
      <3>2. Overdue \in BudgetCodes \cup {Nothing} /\ CodeTrue(Overdue)  BY <1>1, Refusals
      <3>3. QED  BY <1>1, <1>2, <2>3, <3>1, <3>2, AskedTruly
    <2>4. QED  BY <2>1, <2>2, <2>3 DEF EvaluationJudges, EvaluationFails, EvaluationScores
  <1>4. guardCode' \in GuardCodes \cup {Nothing}  BY <1>3
  <1>5. provider' \in Callbacks /\ laneJudge' \in Callbacks  BY <1>1, <1>2 DEF Typed
  <1>6. CASE PropertyRefused \/ EvaluationFails
    <2>1. lanePc \in {"provider", "judge"} /\ lanePc' = "stop"  BY <1>6 DEF PropertyRefused, EvaluationFails
    <2>2. QED  BY <1>2, <1>3, <1>4, <1>5, <2>1, Stopping
  <1>7. CASE EvaluationJudges \/ EvaluationScores
    <2>1. \/ lanePc = "provider" /\ provider = "ok" /\ lanePc' = "judge"
          \/ lanePc = "judge" /\ laneJudge = "ok" /\ lanePc' = "check"
      BY <1>7 DEF EvaluationJudges, EvaluationScores
    <2>2. Paired'  BY <1>1, <1>2, <2>1 DEF Paired
    <2>3. Counted'  BY <1>1, <1>2, <2>1 DEF Counted, Ahead
    <2>4. QED  BY <1>1, <1>2, <1>3, <1>4, <1>5, <2>1, <2>2, <2>3, GoingOn DEF Typed, Places
  <1>8. QED  BY <1>6, <1>7

(* A trial ends before the time limit, or the lane stops. *)
LEMMA TrialEndsInv == ASSUME LaneConstants, LaneInv, TrialEnds PROVE LaneInv'
  <1>1. Typed /\ Paired /\ Counted /\ Budgeted  BY DEF LaneInv
  <1>2. /\ lanePc = "check" /\ Asks(Variant, Overdue)
        /\ UNCHANGED <<pairs, provider, laneJudge, budget, counts, clock, receipt>>
    BY DEF TrialEnds, trialVars, world
  <1>3. Overdue \in BudgetCodes \cup {Nothing} /\ CodeTrue(Overdue) /\ CodeTrue(budgetCode)
    BY <1>1, Refusals DEF Budgeted
  <1>4. /\ budgetCode' \in BudgetCodes \cup {Nothing} /\ guardCode' \in GuardCodes \cup {Nothing}
        /\ CodeTrue(budgetCode')
    BY <1>1, <1>2, <1>3, AskedTruly
  <1>5. provider' \in Callbacks /\ laneJudge' \in Callbacks  BY <1>1, <1>2 DEF Typed
  <1>6. CASE ~Passed(Variant, Overdue)
    <2>1. lanePc' = "stop" /\ UNCHANGED <<elapsed, trial>>  BY <1>6 DEF TrialEnds
    <2>2. QED  BY <1>2, <1>4, <1>5, <2>1, Stopping
  <1>7. CASE Passed(Variant, Overdue)
    <2>1. /\ elapsed' = clock /\ trial' = trial + 1
          /\ lanePc' = IF Variant = "baseline" THEN "trial" ELSE "pair"
      BY <1>7 DEF TrialEnds
    <2>2. /\ trial < 2 * Pairs /\ (trial = 2 * pairs \/ trial = 2 * pairs + 1)
          /\ counts.provider = trial + 1 /\ counts.judge = trial + 1
          /\ trial \in Nat /\ pairs \in Nat /\ clock \in Nat /\ Pairs \in Nat
      BY <1>1, <1>2, LimitsAreNumbers DEF Paired, Counted, Typed
    <2>3. \/ lanePc' = "trial" /\ trial = 2 * pairs
          \/ lanePc' = "pair" /\ trial = 2 * pairs + 1
      BY <1>1, <2>1, <2>2, Variants2
    <2>4. Paired'
      <3>1. CASE lanePc' = "trial" /\ trial = 2 * pairs
        BY <1>2, <2>1, <2>2, <3>1 DEF Paired
      <3>2. CASE lanePc' = "pair" /\ trial = 2 * pairs + 1
        BY <1>2, <2>1, <2>2, <3>2 DEF Paired
      <3>3. QED  BY <2>3, <3>1, <3>2
    <2>5. Counted'  BY <1>2, <2>1, <2>2, <2>3 DEF Counted, Even
    <2>6. QED
      BY <1>2, <1>4, <1>5, <2>1, <2>2, <2>3, <2>4, <2>5, GoingOn DEF Places
  <1>8. QED  BY <1>6, <1>7

(* A pair is recorded before the time limit and over both sources, or the  *)
(* lane stops.                                                             *)
LEMMA PairInv == ASSUME LaneConstants, LaneInv, PairChecksBaseline \/ PairRecords PROVE LaneInv'
  <1>1. Typed /\ Paired /\ Counted /\ Budgeted  BY DEF LaneInv
  <1>2. UNCHANGED <<trial, provider, laneJudge, budget, counts, clock, receipt>>
    BY DEF PairChecksBaseline, PairRecords, trialVars, world
  <1>3. guardCode' \in GuardCodes \cup {Nothing}  BY GuardAsked DEF PairChecksBaseline, PairRecords
  <1>4. provider' \in Callbacks /\ laneJudge' \in Callbacks  BY <1>1, <1>2 DEF Typed
  <1>5. CASE PairChecksBaseline
    <2>1. /\ lanePc = "pair" /\ lanePc' \in {"record", "stop"} /\ UNCHANGED <<pairs, elapsed, budgetCode>>
      BY <1>5 DEF PairChecksBaseline
    <2>2. budgetCode' \in BudgetCodes \cup {Nothing} /\ CodeTrue(budgetCode')  BY <2>1, SameCodes
    <2>3. CASE lanePc' = "stop"  BY <1>2, <1>3, <1>4, <2>1, <2>2, <2>3, Stopping
    <2>4. CASE lanePc' = "record"
      <3>1. Paired'  BY <1>1, <1>2, <2>1, <2>4 DEF Paired
      <3>2. Counted'  BY <1>1, <1>2, <2>1, <2>4 DEF Counted, Even
      <3>3. QED  BY <1>1, <1>2, <1>3, <1>4, <2>1, <2>2, <2>4, <3>1, <3>2, GoingOn DEF Typed, Places
    <2>5. QED  BY <2>1, <2>3, <2>4
  <1>6. CASE PairRecords
    <2>1. /\ lanePc = "record"
          /\ budgetCode' = First(budgetCode, IF Refusal("candidate") = Nothing THEN Overdue ELSE Nothing)
      BY <1>6 DEF PairRecords
    <2>2. /\ Overdue \in BudgetCodes \cup {Nothing} /\ CodeTrue(Overdue) /\ CodeTrue(budgetCode)
          /\ CodeTrue(Nothing) /\ (Overdue = Nothing => ~Expired)
      BY <1>1, Refusals DEF Budgeted
    <2>3. budgetCode' \in {budgetCode, Overdue, Nothing}  BY <2>1 DEF First
    <2>4. budgetCode' \in BudgetCodes \cup {Nothing} /\ CodeTrue(budgetCode')
      BY <1>1, <2>2, <2>3 DEF Typed
    <2>5. CASE ~Passed("candidate", Overdue)
      <3>1. lanePc' = "stop" /\ UNCHANGED <<pairs, elapsed>>  BY <1>6, <2>5 DEF PairRecords, Stops
      <3>2. QED  BY <1>2, <1>3, <1>4, <2>1, <2>4, <3>1, Stopping
    <2>6. CASE Passed("candidate", Overdue)
      <3>1. /\ pairs' = pairs + 1 /\ elapsed' = clock
            /\ lanePc' = IF trial < 2 * Pairs THEN "trial" ELSE "complete"
        BY <1>6, <2>6 DEF PairRecords, Records
      <3>2. /\ trial <= 2 * Pairs /\ trial = 2 * pairs + 2 /\ Even
            /\ trial \in Nat /\ pairs \in Nat /\ clock \in Nat /\ Pairs \in Nat /\ budget.elapsed \in Nat
        BY <1>1, <2>1, LimitsAreNumbers DEF Paired, Counted, Typed
      <3>3. clock < budget.elapsed  BY <2>2, <2>6, <3>2 DEF Passed, Expired
      <3>4. \/ lanePc' = "trial" /\ trial < 2 * Pairs
            \/ lanePc' = "complete" /\ trial = 2 * Pairs
        BY <3>1, <3>2
      <3>5. Paired'  BY <1>2, <3>1, <3>2, <3>4 DEF Paired
      <3>6. Counted'  BY <1>2, <3>2, <3>4 DEF Counted, Even
      <3>7. QED  BY <1>2, <1>3, <1>4, <2>1, <2>4, <3>1, <3>2, <3>3, <3>4, <3>5, <3>6, GoingOn DEF Places
    <2>7. QED  BY <2>5, <2>6
  <1>7. QED  BY <1>5, <1>6

-----------------------------------------------------------------------------
(* Once a lane is done, only its receipt is of interest. *)
LEMMA Done ==
  ASSUME LaneConstants, LaneInv, lanePc' = "done", ReceiptValid',
         UNCHANGED <<trial, pairs, provider, laneJudge, budget, counts, budgetCode, guardCode, elapsed, clock>>
  PROVE  LaneInv'
  <1>1. Typed /\ Budgeted  BY DEF LaneInv
  <1>2. Typed'  BY <1>1 DEF Typed, Places
  <1>3. Paired' /\ Counted'  BY DEF Paired, Counted
  <1>4. CodeTrue(budgetCode)'  BY <1>1, <1>2, TruthStays DEF Typed, Budgeted
  <1>5. Budgeted'  BY <1>1, <1>4 DEF Budgeted
  <1>6. QED  BY <1>2, <1>3, <1>5 DEF LaneInv

(* A lane that is refused before it starts. *)
LEMMA PreflightInv == ASSUME LaneConstants, LaneInv, PreflightRefuses \/ Preflight PROVE LaneInv'
  <1>1. Typed /\ Paired /\ Counted /\ Budgeted /\ ReceiptValid  BY DEF LaneInv
  <1>2. UNCHANGED <<trial, pairs, provider, laneJudge, budget, counts, budgetCode, guardCode, elapsed>>
        /\ lanePc = "preflight"
    BY DEF PreflightRefuses, Preflight, trialVars, codes
  <1>3. Pairs \in Nat /\ Pairs > 0 /\ budget.provider \in Nat /\ budget.judge \in Nat /\ budget.elapsed \in Nat
    BY <1>1, LimitsAreNumbers
  <1>4. CASE PreflightRefuses
    <2>1. lanePc' = "done" /\ clock' = clock  BY <1>4 DEF PreflightRefuses, Returns, world
    <2>2. PICK b \in BOOLEAN, code \in InputCodes :
            /\ receipt' = Rejected(b, code)
            /\ ~b => code = "invalid_matched_execution"
            /\ code # "invalid_matched_execution" =>
                 (code = "matched_cost_budget_unavailable" <=> budget.cost)
            /\ code = "matched_run_budget_insufficient" => Insufficient
      BY <1>4 DEF PreflightRefuses, Returns, InputCodes
    <2>3. code # Nothing /\ code \notin ExecutionCodes  BY Codes
    <2>4. /\ receipt'.bound = b /\ receipt'.calibrated = FALSE /\ receipt'.pairs = 0
          /\ receipt'.provider = 0 /\ receipt'.judge = 0 /\ receipt'.elapsed = 0 /\ receipt'.code = code
      BY <2>2 DEF Rejected
    <2>5. CoverageValid(receipt)'
      BY <1>3, <2>2, <2>3, <2>4 DEF CoverageValid
    <2>6. StatusValid(receipt)'  BY <2>3, <2>4 DEF StatusValid
    <2>7. b => BudgetValid(receipt)'
      <3>1. code \notin BudgetCodes  BY <2>3 DEF ExecutionCodes
      <3>2. Insufficient' <=> Insufficient  BY <1>2 DEF Insufficient
      <3>3. budget' = budget  BY <1>2
      <3>4. code \in {"matched_cost_budget_unavailable", "invalid_matched_execution"} \/ ~budget.cost
        BY <2>2
      <3>5. QED
        BY <1>3, <2>2, <2>3, <2>4, <3>1, <3>2, <3>3, <3>4 DEF BudgetValid, BudgetCodes
    <2>8. ReceiptValid'  BY <2>4, <2>5, <2>6, <2>7 DEF ReceiptValid
    <2>9. QED  BY <1>2, <2>1, <2>8, Done
  <1>5. CASE Preflight
    <2>1. lanePc' = "trial" /\ clock' = 0 /\ ~budget.cost /\ receipt' = receipt  BY <1>5 DEF Preflight
    <2>3. Even /\ trial = 0 /\ pairs = 0 /\ clock = 0  BY <1>1, <1>2 DEF Counted
    <2>4. Typed'  BY <1>1, <1>2, <2>1 DEF Typed, Places
    <2>5. Paired'  BY <1>2, <1>3, <2>1, <2>3 DEF Paired
    <2>6. Counted'  BY <1>2, <2>1, <2>3 DEF Counted, Even
    <2>7. ReceiptValid'  BY <1>1, <1>2, <2>1, ReceiptStays
    <2>8. Budgeted'
      <3>1. CodeTrue(budgetCode)'  BY <1>1, <1>2, <2>1, <2>3 DEF Budgeted, CodeTrue, Expired
      <3>2. QED  BY <1>1, <1>2, <2>1, <3>1 DEF Budgeted
    <2>9. QED  BY <2>4, <2>5, <2>6, <2>7, <2>8 DEF LaneInv
  <1>6. QED  BY <1>4, <1>5

(* A lane that stops reports the pairs it recorded, the callbacks it       *)
(* attempted and a reason that is true at the time it reports.             *)
LEMMA LaneBlocksInv == ASSUME LaneConstants, LaneInv, LaneBlocks PROVE LaneInv'
  <1>1. Typed /\ Paired /\ Counted /\ Budgeted  BY DEF LaneInv
  <1> DEFINE code == First(First(budgetCode, guardCode), "matched_execution_incomplete")
  <1>2. /\ lanePc = "stop" /\ lanePc' = "done" /\ receipt' = Receipt(code, clock)
        /\ UNCHANGED <<trial, pairs, provider, laneJudge, budget, counts, budgetCode, guardCode, elapsed, clock>>
    BY DEF LaneBlocks, Returns, trialVars, codes, world
  <1>3. code \in ExecutionCodes /\ (code \in BudgetCodes => code = budgetCode)
    <2>1. budgetCode \in BudgetCodes \cup {Nothing} /\ guardCode \in GuardCodes \cup {Nothing}
      BY <1>1 DEF Typed
    <2>2. code \in {budgetCode, guardCode, "matched_execution_incomplete"} /\ code # Nothing
      <3>1. "matched_execution_incomplete" # Nothing  BY Codes DEF ExecutionCodes
      <3>2. QED  BY <3>1 DEF First
    <2>3. code \in ExecutionCodes  BY <2>1, <2>2 DEF ExecutionCodes
    <2>4. (code \in GuardCodes \cup {"matched_execution_incomplete"}) => code \notin BudgetCodes
      BY DEF GuardCodes, BudgetCodes
    <2>5. QED  BY <2>1, <2>2, <2>3, <2>4
  <1> HIDE DEF code
  <1>4. /\ receipt'.bound = TRUE /\ receipt'.calibrated = TRUE /\ receipt'.pairs = pairs
        /\ receipt'.provider = counts.provider /\ receipt'.judge = counts.judge
        /\ receipt'.elapsed = clock /\ receipt'.code = code
    BY <1>2 DEF Receipt
  <1>5. code # Nothing /\ code \notin InputCodes  BY <1>3, Codes
  <1>6. /\ counts.provider \in Nat /\ counts.judge \in Nat /\ trial \in Nat /\ pairs \in Nat
        /\ Pairs \in Nat /\ Pairs > 0
    BY <1>1, LimitsAreNumbers DEF Typed
  <1>7. /\ Ahead(counts.provider) /\ Ahead(counts.judge) /\ counts.judge <= counts.provider
        /\ \/ trial < 2 * Pairs /\ (trial = 2 * pairs \/ trial = 2 * pairs + 1)
           \/ trial <= 2 * Pairs /\ trial = 2 * pairs + 2 /\ Even
    BY <1>1, <1>2 DEF Paired, Counted
  <1>8. /\ 2 * pairs <= counts.judge /\ counts.provider <= 2 * pairs + 2
        /\ (counts.provider = 2 * pairs + 2 => counts.judge >= 2 * pairs + 1)
        /\ pairs < Pairs /\ counts.provider <= 2 * Pairs
    BY <1>6, <1>7 DEF Ahead, Even
  <1>9. CoverageValid(receipt)'
    BY <1>4, <1>6, <1>7, <1>8 DEF CoverageValid
  <1>10. StatusValid(receipt)'  BY <1>4, <1>5, <1>6, <1>8 DEF StatusValid
  <1>11. BudgetValid(receipt)'
    <2>1. ~budget.cost /\ counts.provider <= budget.provider /\ counts.judge <= budget.judge
          /\ CodeTrue(budgetCode)
      BY <1>1, <1>2 DEF Budgeted
    <2>2. /\ code = "matched_time_budget_exhausted" => clock >= budget.elapsed
          /\ code = "matched_provider_budget_exhausted" => counts.provider = budget.provider
          /\ code = "matched_judge_budget_exhausted" => counts.judge = budget.judge
      BY <1>3, <2>1 DEF CodeTrue, Expired, BudgetCodes
    <2>3. code # "matched_cost_budget_unavailable" /\ code # "matched_run_budget_insufficient"
      BY <1>5 DEF InputCodes
    <2>4. budget' = budget  BY <1>2
    <2>5. QED  BY <1>4, <1>5, <2>1, <2>2, <2>3, <2>4 DEF BudgetValid
  <1>12. ReceiptValid'  BY <1>9, <1>10, <1>11 DEF ReceiptValid
  <1>13. QED  BY <1>2, <1>12, Done

(* A lane that completes recorded every pair, each before the time limit. *)
LEMMA LaneCompletesInv == ASSUME LaneConstants, LaneInv, LaneCompletes PROVE LaneInv'
  <1>1. Typed /\ Paired /\ Counted /\ Budgeted  BY DEF LaneInv
  <1>2. /\ lanePc = "complete" /\ lanePc' = "done" /\ receipt' = Receipt(Nothing, elapsed)
        /\ UNCHANGED <<trial, pairs, provider, laneJudge, budget, counts, budgetCode, guardCode, elapsed, clock>>
    BY DEF LaneCompletes, Returns, trialVars, codes, world
  <1>3. /\ receipt'.bound = TRUE /\ receipt'.calibrated = TRUE /\ receipt'.pairs = pairs
        /\ receipt'.provider = counts.provider /\ receipt'.judge = counts.judge
        /\ receipt'.elapsed = elapsed /\ receipt'.code = Nothing
    BY <1>2 DEF Receipt
  <1>4. Nothing \notin InputCodes \cup ExecutionCodes  BY DEF LaneConstants
  <1>5. /\ trial = 2 * pairs /\ pairs = Pairs /\ counts.provider = trial /\ counts.judge = trial
        /\ pairs \in Nat /\ Pairs > 0
    BY <1>1, <1>2, LimitsAreNumbers DEF Paired, Counted, Even, Typed
  <1>6. CoverageValid(receipt)'  BY <1>3, <1>5 DEF CoverageValid
  <1>7. StatusValid(receipt)'  BY <1>3, <1>4, <1>5 DEF StatusValid
  <1>8. BudgetValid(receipt)'
    <2>1. ~budget.cost /\ counts.provider <= budget.provider /\ counts.judge <= budget.judge
          /\ elapsed < budget.elapsed
      BY <1>1, <1>2 DEF Budgeted
    <2>2. budget' = budget  BY <1>2
    <2>3. Nothing \notin BudgetCodes /\ Nothing # "matched_cost_budget_unavailable" /\ Nothing # "matched_run_budget_insufficient"
      BY <1>4 DEF ExecutionCodes, InputCodes
    <2>4. QED  BY <1>3, <2>1, <2>2, <2>3 DEF BudgetValid, BudgetCodes
  <1>9. ReceiptValid'  BY <1>6, <1>7, <1>8 DEF ReceiptValid
  <1>10. QED  BY <1>2, <1>9, Done

-----------------------------------------------------------------------------
(* The invariant of a lane. *)
LEMMA LaneInitially == ASSUME LaneConstants, LaneInit PROVE LaneInv
  <1>1. budget \in [provider : Nat, judge : Nat, elapsed : Nat, cost : BOOLEAN]
    BY DEF LaneInit, LaneConstants
  <1>2. counts = [provider |-> 0, judge |-> 0]  BY DEF LaneInit
  <1>3. counts.provider = 0 /\ counts.judge = 0 /\ counts \in [provider : Nat, judge : Nat]  BY <1>2
  <1>4. Typed  BY <1>3 DEF LaneInit, Typed, Places, Callbacks
  <1>5. CodeTrue(budgetCode)  BY <1>4, Refusals DEF LaneInit
  <1>6. Paired /\ Counted  BY <1>3 DEF LaneInit, Paired, Counted, Even
  <1>7. Budgeted  BY <1>1, <1>3, <1>5 DEF LaneInit, Budgeted
  <1>8. ReceiptValid  BY DEF LaneInit, ReceiptValid
  <1>9. QED  BY <1>4, <1>6, <1>7, <1>8 DEF LaneInv

(* Every step of a lane keeps LaneInv, action by action.                   *)
LEMMA LaneStep == ASSUME LaneConstants, LaneInv, [LaneNext]_laneVars PROVE LaneInv'
  <1>1. CASE Lane
    BY <1>1, PreflightInv, TrialStartsInv, TrialEndsInv, PairInv, LaneBlocksInv, LaneCompletesInv DEF Lane
  <1>2. CASE TrialGoes
    BY <1>2, ProviderBeginsInv, JudgeBeginsInv, EvaluationInv DEF TrialGoes
  <1>3. CASE HostAnswers  BY <1>3, HostInv
  <1>4. CASE Tick \/ SourceEdited \/ Stopped \/ UNCHANGED laneVars  BY <1>4, WorldInv DEF Stopped
  <1>5. CASE LaneCancelled
    <2>1. /\ lanePc' = "done" /\ receipt' = Nothing
          /\ UNCHANGED <<trial, pairs, provider, laneJudge, budget, counts, budgetCode, guardCode, elapsed, clock>>
      BY <1>5 DEF LaneCancelled, Returns, trialVars, codes, world
    <2>2. ReceiptValid'  BY <2>1 DEF ReceiptValid
    <2>3. QED  BY <2>1, <2>2, Done
  <1>6. QED  BY <1>1, <1>2, <1>3, <1>4, <1>5 DEF LaneNext

(* LaneInv holds of every lane (run_matched_lane).                         *)
THEOREM LaneInvariance == LaneSpec => []LaneInv
  <1>1. LaneInit => LaneInv  BY LaneAssumption, LaneInitially
  <1>2. LaneInv /\ [LaneNext]_laneVars => LaneInv'  BY LaneAssumption, LaneStep
  <1>3. QED  BY <1>1, <1>2, PTL DEF LaneSpec

(* The receipt of a lane passes the validation of MatchedExecutionReceipt, *)
(* for any number of cases, any limits, and whatever the host's callbacks, *)
(* late answers, edits and the clock do.                                   *)
THEOREM ReceiptsValid == LaneSpec => []ReceiptValid
  <1>1. LaneInv => ReceiptValid  BY DEF LaneInv
  <1>2. QED  BY <1>1, LaneInvariance, PTL

(* A step that counts a callback or records a pair has read a clock that   *)
(* is before the time limit.                                               *)
LEMMA CountsInTime ==
  ASSUME LaneConstants, LaneInv, [LaneNext]_laneVars, Expired, lanePc # "preflight"
  PROVE  UNCHANGED <<counts, pairs>>
  <1>1. Typed /\ Budgeted  BY DEF LaneInv
  <1>2. CASE ProviderBegins
    <2>1. Exhausted("provider") # Nothing  BY <1>1, Exhaustion DEF Budgeted
    <2>2. QED  BY <1>2, <2>1 DEF ProviderBegins, Passed
  <1>3. CASE JudgeBegins
    <2>1. Exhausted("judge") # Nothing  BY <1>1, Exhaustion DEF Budgeted
    <2>2. QED  BY <1>3, <2>1 DEF JudgeBegins, Passed
  <1>4. CASE PairRecords
    <2>1. Overdue # Nothing  BY <1>1, Refusals
    <2>2. QED  BY <1>4, <2>1 DEF PairRecords, Passed, Stops
  <1>5. CASE PreflightRefuses \/ Preflight \/ TrialStarts \/ TrialEnds \/ PairChecksBaseline \/ LaneBlocks
             \/ LaneCompletes \/ LaneCancelled
    BY <1>5 DEF PreflightRefuses, Preflight, TrialStarts, TrialEnds, PairChecksBaseline, LaneBlocks,
       LaneCompletes, LaneCancelled
  <1>6. CASE EvaluationJudges \/ PropertyRefused \/ EvaluationFails \/ EvaluationScores
    BY <1>6 DEF EvaluationJudges, PropertyRefused, EvaluationFails, EvaluationScores
  <1>7. CASE HostAnswers  BY <1>7 DEF HostAnswers, ProviderEnds, ProviderRaises, JudgeEnds, JudgeRaises
  <1>8. CASE Tick \/ SourceEdited \/ Stopped \/ UNCHANGED laneVars
    BY <1>8 DEF Tick, SourceEdited, Stopped, laneVars
  <1>9. QED  BY <1>2, <1>3, <1>4, <1>5, <1>6, <1>7, <1>8 DEF LaneNext, Lane, TrialGoes

(* Past the time limit no callback is attempted and nothing is recorded.   *)
THEOREM ExpiryIsFinal == LaneSpec => NothingAfterExpiry
  <1>1. LaneInv /\ [LaneNext]_laneVars => [Expired /\ lanePc # "preflight" => UNCHANGED <<counts, pairs>>]_laneVars
    BY LaneAssumption, CountsInTime
  <1>2. QED  BY <1>1, LaneInvariance, PTL DEF LaneSpec, NothingAfterExpiry

-----------------------------------------------------------------------------
(* Scoring: the refusals, of which each has a code.                        *)

(* A list of refusals that grows. *)
LEMMA MoreRefusals ==
    ASSUME NEW S, NEW refusals \in Seq(S), NEW more \in Seq(S)
    PROVE  /\ refusals \o more \in Seq(S)
           /\ refusals \o more = <<>> <=> refusals = <<>> /\ more = <<>>
           /\ more = <<>> => refusals \o more = refusals
           /\ refusals # <<>> => (refusals \o more)[1] = refusals[1]
<1>1. Len(refusals) \in Nat /\ Len(more) \in Nat /\ refusals \o more \in Seq(S) /\ Len(refusals \o more) = Len(refusals) + Len(more)
  BY ConcatProperties, LenProperties
<1>2. /\ refusals = <<>> <=> Len(refusals) = 0
      /\ more = <<>> <=> Len(more) = 0
      /\ refusals \o more = <<>> <=> Len(refusals \o more) = 0
  BY <1>1, EmptySeq
<1>3. refusals # <<>> => (refusals \o more)[1] = refusals[1]
  <2>1. ASSUME refusals # <<>> PROVE (refusals \o more)[1] = refusals[1]
    <3>1. 1 \in 1..Len(refusals \o more) /\ 1 <= Len(refusals)
      BY <1>1, <1>2, <2>1
    <3> QED BY <3>1, ConcatProperties
  <2> QED BY <2>1
<1>4. more = <<>> => refusals \o more = refusals
  BY ConcatEmptySeq
<1> QED BY <1>1, <1>2, <1>3, <1>4

(* A condition that does not apply adds no refusal.                        *)
LEMMA FirstRefusal ==
    ASSUME NEW S, NEW condition \in BOOLEAN, NEW code \in S
    PROVE  When(condition, code) \in Seq(S) /\ (When(condition, code) = <<>> <=> ~condition)
  BY DEF When

(* A refusal is the first of those that apply, and has a code.             *)
LEMMA RefusalNamed ==
    ASSUME NEW S, NEW refusals \in Seq(S), refusals # <<>>
    PROVE  FirstOf(refusals) \in S /\ FirstOf(refusals) = refusals[1]
  BY DEF FirstOf

(* A scorer that is not refused is of the candidate and deterministic; one *)
(* of another candidate is refused for that.                               *)
LEMMA ScorerRefused ==
    ASSUME NEW set, NEW scorer, NEW probes
    PROVE  /\ ScorerRefusals(set, scorer, probes) \in Seq(EvaluationCodes)
           /\ ScorerRefusals(set, scorer, probes) = <<>> =>
                 scorer.candidate = set.candidate /\ scorer.type = "deterministic"
           /\ scorer.candidate # set.candidate =>
                 /\ ScorerRefusals(set, scorer, probes) # <<>>
                 /\ FirstOf(ScorerRefusals(set, scorer, probes)) = "scorer_candidate_mismatch"
<1> DEFINE ax == When(scorer.candidate # set.candidate, "scorer_candidate_mismatch")
           bx == When(scorer.type # "deterministic", "provider_adapter_required")
           b == ax \o bx
           cx == When("blank" \in ToSet(probes), "invalid_calibration_probe")
           c == b \o cx
           dx == When(~IsInjective(probes), "duplicate_calibration_probe")
           d == c \o dx
           ex == When(~(ToSet(probes) \subseteq ToSet(scorer.probes)), "unknown_calibration_probe")
           e == d \o ex
<1>a. ax \in Seq(EvaluationCodes) /\ (ax = <<>> <=> scorer.candidate = set.candidate)
  BY FirstRefusal DEF EvaluationCodes
<1>b. bx \in Seq(EvaluationCodes) /\ (bx = <<>> <=> scorer.type = "deterministic")
  BY FirstRefusal DEF EvaluationCodes
<1>c. cx \in Seq(EvaluationCodes) /\ (cx = <<>> <=> "blank" \notin ToSet(probes))
  BY DEF When, EvaluationCodes
<1>d. dx \in Seq(EvaluationCodes) /\ (dx = <<>> <=> IsInjective(probes))
  BY FirstRefusal DEF EvaluationCodes, IsInjective
<1>e. ex \in Seq(EvaluationCodes) /\ (ex = <<>> <=> ToSet(probes) \subseteq ToSet(scorer.probes))
  BY FirstRefusal DEF EvaluationCodes
<1> HIDE DEF ax, bx, cx, dx, ex
<1>1. /\ b \in Seq(EvaluationCodes) /\ (b = <<>> <=> ax = <<>> /\ bx = <<>>)
      /\ ax # <<>> => b[1] = ax[1]
  BY <1>a, <1>b, MoreRefusals
<1>2. /\ c \in Seq(EvaluationCodes) /\ (c = <<>> <=> b = <<>> /\ cx = <<>>)
      /\ b # <<>> => c[1] = b[1]
  <2> HIDE DEF b
  <2> QED BY <1>1, <1>c, MoreRefusals
<1>3. /\ d \in Seq(EvaluationCodes) /\ (d = <<>> <=> c = <<>> /\ dx = <<>>)
      /\ c # <<>> => d[1] = c[1]
  <2> HIDE DEF c
  <2> QED BY <1>2, <1>d, MoreRefusals
<1>4. /\ e \in Seq(EvaluationCodes) /\ (e = <<>> <=> d = <<>> /\ ex = <<>>)
      /\ d # <<>> => e[1] = d[1]
  <2> HIDE DEF d
  <2> QED BY <1>3, <1>e, MoreRefusals
<1>5. scorer.candidate # set.candidate => ax # <<>> /\ ax[1] = "scorer_candidate_mismatch"
  BY DEF ax, When
<1>6. ScorerRefusals(set, scorer, probes) = e
  BY DEF ScorerRefusals, ax, bx, cx, dx, ex
<1>7. scorer.candidate # set.candidate => e # <<>> /\ e[1] = "scorer_candidate_mismatch"
  BY <1>1, <1>2, <1>3, <1>4, <1>5
<1> HIDE DEF e
<1> QED BY <1>1, <1>2, <1>3, <1>4, <1>6, <1>7, <1>a, <1>b, RefusalNamed

(* Observations that are not refused are those of the cases, one for each. *)
LEMMA ObservationRefused ==
    ASSUME NEW set, NEW scorer, NEW probes, NEW observations
    PROVE  /\ ObservationRefusals(set, scorer, probes, observations) \in Seq(EvaluationCodes)
           /\ ObservationRefusals(set, scorer, probes, observations) = <<>> =>
                 /\ scorer.calibrated => ToSet(probes) = ToSet(scorer.probes)
                 /\ IsInjective(Observed(observations))
                 /\ ToSet(Observed(observations)) = ToSet(CaseIds(set.cases))
                 /\ \A o \in ToSet(observations) : o.candidate = set.candidate /\ o.set = set.id
<1> DEFINE ax == When(scorer.calibrated /\ ToSet(probes) # ToSet(scorer.probes), "calibration_incomplete")
           bx == When(~IsInjective(Observed(observations)), "duplicate_observation")
           b == ax \o bx
           cx == When(ToSet(Observed(observations)) # ToSet(CaseIds(set.cases)), "observation_set_mismatch")
           c == b \o cx
           dx == When(\E o \in ToSet(observations) : o.candidate # set.candidate \/ o.set # set.id, "observation_identity_mismatch")
           d == c \o dx
<1>a. ax \in Seq(EvaluationCodes) /\ (ax = <<>> <=> (scorer.calibrated => ToSet(probes) = ToSet(scorer.probes)))
  BY FirstRefusal DEF EvaluationCodes
<1>b. bx \in Seq(EvaluationCodes) /\ (bx = <<>> <=> IsInjective(Observed(observations)))
  BY FirstRefusal DEF EvaluationCodes, IsInjective
<1>c. cx \in Seq(EvaluationCodes) /\ (cx = <<>> <=> ToSet(Observed(observations)) = ToSet(CaseIds(set.cases)))
  BY FirstRefusal DEF EvaluationCodes
<1>d. dx \in Seq(EvaluationCodes) /\ (dx = <<>> <=> \A o \in ToSet(observations) : o.candidate = set.candidate /\ o.set = set.id)
  BY FirstRefusal DEF EvaluationCodes
<1> HIDE DEF ax, bx, cx, dx
<1>1. /\ b \in Seq(EvaluationCodes) /\ (b = <<>> <=> ax = <<>> /\ bx = <<>>)
      /\ ax # <<>> => b[1] = ax[1]
  BY <1>a, <1>b, MoreRefusals
<1>2. /\ c \in Seq(EvaluationCodes) /\ (c = <<>> <=> b = <<>> /\ cx = <<>>)
      /\ b # <<>> => c[1] = b[1]
  <2> HIDE DEF b
  <2> QED BY <1>1, <1>c, MoreRefusals
<1>3. /\ d \in Seq(EvaluationCodes) /\ (d = <<>> <=> c = <<>> /\ dx = <<>>)
      /\ c # <<>> => d[1] = c[1]
  <2> HIDE DEF c
  <2> QED BY <1>2, <1>d, MoreRefusals
<1>6. ObservationRefusals(set, scorer, probes, observations) = d
  BY DEF ObservationRefusals, ax, bx, cx, dx
<1> HIDE DEF d
<1> QED BY <1>1, <1>2, <1>3, <1>6, <1>a, <1>b, <1>c, <1>d-----------------------------------------------------------------------------
(* Each case is observed once.                                             *)
ObservedOnce(set, observations) ==
    /\ IsInjective(Observed(observations))
    /\ ToSet(Observed(observations)) = ToSet(CaseIds(set.cases))

(* The observation of a case is the one that names it.                     *)
LEMMA EachIsObserved ==
    ASSUME NEW set, NEW observations, ObservedOnce(set, observations)
    PROVE  /\ \A i \in DOMAIN set.cases :
                 /\ ObservationOf(observations, set.cases[i].id) \in ToSet(observations)
                 /\ ObservationOf(observations, set.cases[i].id).case = set.cases[i].id
           /\ \A o \in ToSet(observations) :
                 o.case \in ToSet(CaseIds(set.cases)) /\ o = ObservationOf(observations, o.case)
<1>1. /\ \A o \in ToSet(observations) : \E i \in DOMAIN observations : o = observations[i]
      /\ \A i \in DOMAIN observations : observations[i] \in ToSet(observations)
  BY DEF ToSet
<1>2. ToSet(Observed(observations)) = {observations[i].case : i \in DOMAIN observations}
  BY DEF ToSet, Observed
<1>3. ToSet(CaseIds(set.cases)) = {set.cases[i].id : i \in DOMAIN set.cases}
  BY DEF ToSet, CaseIds
<1>4. \A i, j \in DOMAIN observations : observations[i].case = observations[j].case => i = j
  BY DEF ObservedOnce, Observed, IsInjective
<1>5. ASSUME NEW i \in DOMAIN set.cases
      PROVE  /\ ObservationOf(observations, set.cases[i].id) \in ToSet(observations)
             /\ ObservationOf(observations, set.cases[i].id).case = set.cases[i].id
  <2>1. set.cases[i].id \in {observations[j].case : j \in DOMAIN observations}
    BY <1>2, <1>3 DEF ObservedOnce
  <2>2. \E o \in ToSet(observations) : o.case = set.cases[i].id
    BY <1>1, <2>1
  <2> QED BY <2>2 DEF ObservationOf
<1>6. ASSUME NEW o \in ToSet(observations)
      PROVE  o.case \in ToSet(CaseIds(set.cases)) /\ o = ObservationOf(observations, o.case)
  <2>1. PICK j \in DOMAIN observations : o = observations[j]
    BY <1>1
  <2>2. o.case \in ToSet(CaseIds(set.cases))
    BY <1>2, <2>1 DEF ObservedOnce
  <2>3. ObservationOf(observations, o.case) \in ToSet(observations) /\ ObservationOf(observations, o.case).case = o.case
    BY DEF ObservationOf
  <2>4. PICK k \in DOMAIN observations : ObservationOf(observations, o.case) = observations[k]
    BY <1>1, <2>3
  <2>5. k = j
    BY <1>4, <2>1, <2>3, <2>4
  <2> QED BY <2>1, <2>2, <2>4, <2>5
<1> QED BY <1>5, <1>6

(* An injective list has as many members as entries.                       *)
LEMMA AsManyAsImages ==
    ASSUME NEW positions, IsFiniteSet(positions), NEW f, DOMAIN f = positions, IsInjective(f)
    PROVE  Cardinality({f[i] : i \in positions}) = Cardinality(positions)
<1> DEFINE images == {f[i] : i \in positions}
           image  == [i \in positions |-> f[i]]
<1>1. image \in [positions -> images]
  OBVIOUS
<1>2. IsInjective(image)
  BY DEF IsInjective
<1>3. \A t \in images : \E i \in positions : image[i] = t
  OBVIOUS
<1>4. image \in Bijection(positions, images)
  BY <1>1, <1>2, <1>3 DEF Bijection, Injection, Surjection
<1>5. ExistsBijection(positions, images)
  BY <1>4 DEF ExistsBijection
<1> QED BY <1>5, FS_Bijection

(* There are as many observations as cases.                                *)
LEMMA AsManyObservations ==
    ASSUME NEW set, NEW observations, NEW scorer, Acceptable(set, observations, scorer), ObservedOnce(set, observations)
    PROVE  Len(observations) = Len(set.cases)
<1>1. /\ DOMAIN observations = 1..Len(observations) /\ Len(observations) \in Nat
      /\ DOMAIN set.cases = 1..Len(set.cases) /\ Len(set.cases) \in Nat
  BY LenProperties DEF Acceptable, Listed
<1>2. IsInjective(CaseIds(set.cases)) /\ IsInjective(Observed(observations))
  BY DEF Acceptable, ScenarioSetValid, ObservedOnce
<1>3. DOMAIN CaseIds(set.cases) = DOMAIN set.cases /\ DOMAIN Observed(observations) = DOMAIN observations
  BY DEF CaseIds, Observed
<1>4. \A n \in Nat : IsFiniteSet(1..n) /\ Cardinality(1..n) = n
  BY FS_Interval
<1>5. Cardinality({CaseIds(set.cases)[i] : i \in 1..Len(set.cases)}) = Len(set.cases)
  BY <1>1, <1>2, <1>3, <1>4, AsManyAsImages
<1>6. Cardinality({Observed(observations)[i] : i \in 1..Len(observations)}) = Len(observations)
  BY <1>1, <1>2, <1>3, <1>4, AsManyAsImages
<1>7. /\ {CaseIds(set.cases)[i] : i \in 1..Len(set.cases)} = ToSet(CaseIds(set.cases))
      /\ {Observed(observations)[i] : i \in 1..Len(observations)} = ToSet(Observed(observations))
  BY <1>1, <1>3 DEF ToSet
<1> QED BY <1>5, <1>6, <1>7 DEF ObservedOnce

-----------------------------------------------------------------------------
(* The result of a case.                                                   *)
Fits(r, case, o) ==
    /\ r.case = o.case /\ r.candidate = o.candidate /\ r.set = o.set /\ r.provider = o.provider
    /\ CaseResultValid(r)
    /\ r.status \in {"pass", "fail", "blocked"}
    /\ r.status # "blocked" => o.status = "completed" /\ (r.status = "pass" <=> Shown(case, o))

(* What is known of a blocked case, and of one that was decided.           *)
LEMMA BlockedFits ==
    ASSUME NEW case, NEW o, NEW code, code # None
    PROVE  Fits(BlockedCase(o, code), case, o) /\ DigestsAgree(BlockedCase(o, code))
  BY DEF Fits, BlockedCase, CaseResult, CaseResultValid, Failed, DigestsAgree

(* A case that was decided passes exactly if its observation shows it.     *)
LEMMA DecidedFits ==
    ASSUME NEW case, NEW o, NEW missing, NEW expected, NEW mismatch \in BOOLEAN,
           o.status = "completed", o.output # None,
           missing = {} /\ ~mismatch <=>
              IF case.oracle = "exact_match" THEN o.output = case.expected ELSE case.signals \subseteq o.signals
    PROVE  Fits(DecidedCase(o, missing, Forbidden(case, o), expected, mismatch), case, o)
<1> DEFINE r == DecidedCase(o, missing, Forbidden(case, o), expected, mismatch)
<1>1. /\ r.case = o.case /\ r.candidate = o.candidate /\ r.set = o.set /\ r.provider = o.provider
      /\ r.missing = missing /\ r.forbidden = Forbidden(case, o) /\ r.mismatch = mismatch
      /\ r.blocker = None /\ r.output = o.output
      /\ r.status = IF missing # {} \/ Forbidden(case, o) # {} \/ mismatch THEN "fail" ELSE "pass"
  BY DEF DecidedCase, CaseResult
<1> HIDE DEF r
<1>2. r.status = "pass" <=> Shown(case, o)
  BY <1>1 DEF Shown, Forbidden
<1>3. CaseResultValid(r)
  BY <1>1 DEF CaseResultValid, Failed
<1> QED BY <1>1, <1>2, <1>3 DEF Fits, r

(* What version 1 says of a case (_evaluate_case, deterministic.py).       *)
LEMMA CaseEvaluated ==
    ASSUME NEW case, NEW o, ObservationValid(o), o.status \in {"completed", "blocked"}
    PROVE  Fits(EvaluateCase(case, o), case, o)
<1>1. CASE o.status = "blocked"
  BY <1>1, BlockedFits DEF EvaluateCase, ObservationValid
<1>2. CASE o.status = "completed" /\ case.oracle # "expected_signal"
  BY <1>2, BlockedFits, EvaluationAssumption DEF EvaluateCase, EvaluationCodes
<1>3. CASE o.status = "completed" /\ case.oracle = "expected_signal"
  <2>1. Missing(case, o) = {} /\ ~FALSE <=> case.signals \subseteq o.signals
    BY DEF Missing
  <2>2. EvaluateCase(case, o) = DecidedCase(o, Missing(case, o), Forbidden(case, o), None, FALSE)
    BY <1>3 DEF EvaluateCase
  <2> QED BY <1>3, <2>1, <2>2, DecidedFits DEF ObservationValid
<1> QED BY <1>1, <1>2, <1>3

(* What version 2 says of a case (_evaluate_case, deterministic_v2.py).    *)
LEMMA CaseEvaluatedV2 ==
    ASSUME NEW case, NEW o, ObservationValid(o), o.status \in {"completed", "blocked"}, ExpectationValid(case)
    PROVE  Fits(EvaluateCaseV2(case, o), case, o) /\ DigestsAgree(EvaluateCaseV2(case, o))
<1> DEFINE exact == case.oracle = "exact_match"
           refused == When(case.oracle = "structured", "unsupported_oracle")
                      \o When(exact /\ case.expected = None, "exact_match_digest_required")
<1>1. CASE o.status = "blocked"
  BY <1>1, BlockedFits DEF EvaluateCaseV2, ObservationValid
<1>2. refused \in Seq(EvaluationCodes) /\ (refused = <<>> <=> case.oracle # "structured" /\ ~(exact /\ case.expected = None))
  <2>1. /\ When(case.oracle = "structured", "unsupported_oracle") \in Seq(EvaluationCodes)
        /\ When(case.oracle = "structured", "unsupported_oracle") = <<>> <=> case.oracle # "structured"
    BY FirstRefusal DEF EvaluationCodes
  <2>2. /\ When(exact /\ case.expected = None, "exact_match_digest_required") \in Seq(EvaluationCodes)
        /\ When(exact /\ case.expected = None, "exact_match_digest_required") = <<>> <=> ~(exact /\ case.expected = None)
    BY FirstRefusal DEF EvaluationCodes
  <2> QED BY <2>1, <2>2, MoreRefusals
<1>3. CASE o.status = "completed" /\ refused # <<>>
  <2>1. EvaluateCaseV2(case, o) = BlockedCase(o, FirstOf(refused))
    BY <1>3 DEF EvaluateCaseV2
  <2>2. FirstOf(refused) \in EvaluationCodes
    BY <1>2, <1>3, RefusalNamed
  <2> QED BY <2>1, <2>2, BlockedFits, EvaluationAssumption
<1>4. CASE o.status = "completed" /\ refused = <<>>
  <2> DEFINE missing == IF exact THEN {} ELSE Missing(case, o)
             mismatch == exact /\ o.output # case.expected
             r == DecidedCase(o, missing, Forbidden(case, o), case.expected, mismatch)
  <2>1. EvaluateCaseV2(case, o) = r
    BY <1>4 DEF EvaluateCaseV2
  <2>2. missing = {} /\ ~mismatch <=>
            IF case.oracle = "exact_match" THEN o.output = case.expected ELSE case.signals \subseteq o.signals
    BY DEF Missing
  <2>3. mismatch \in BOOLEAN /\ o.output # None
    BY <1>4 DEF ObservationValid
  <2>4. Fits(r, case, o)
    <3> HIDE DEF missing, mismatch
    <3> QED BY <1>4, <2>2, <2>3, DecidedFits
  <2>5. r.mismatch = mismatch /\ r.expected = case.expected /\ r.output = o.output
    BY DEF DecidedCase, CaseResult
  <2>6. exact => case.expected # None
    BY <1>2, <1>4
  <2>7. ~exact => case.expected = None
    BY DEF ExpectationValid
  <2>8. DigestsAgree(r)
    <3> HIDE DEF r
    <3> QED BY <2>5, <2>6, <2>7 DEF DigestsAgree
  <2> QED BY <2>1, <2>4, <2>8
<1> HIDE DEF refused
<1> QED BY <1>1, <1>3, <1>4

(* Where a case expects signals, the versions evaluate it alike.           *)
LEMMA CasesAgree ==
    ASSUME NEW case, NEW o, case.oracle = "expected_signal", ExpectationValid(case), o.status \in {"completed", "blocked"}
    PROVE  EvaluateCaseV2(case, o) = EvaluateCase(case, o)
<1>1. CASE o.status = "blocked"
  BY <1>1 DEF EvaluateCaseV2, EvaluateCase
<1>2. CASE o.status = "completed"
  <2>1. When(case.oracle = "structured", "unsupported_oracle")
        \o When(case.oracle = "exact_match" /\ case.expected = None, "exact_match_digest_required") = <<>>
    BY DEF When
  <2>2. case.expected = None
    BY DEF ExpectationValid
  <2>3. EvaluateCaseV2(case, o) = DecidedCase(o, Missing(case, o), Forbidden(case, o), None, FALSE)
    BY <1>2, <2>1, <2>2 DEF EvaluateCaseV2
  <2> QED BY <1>2, <2>3 DEF EvaluateCase
<1> QED BY <1>1, <1>2

-----------------------------------------------------------------------------
(* The receipt of a scoring.                                               *)

(* What holds when nothing was refused.                                    *)
Admitted(set, observations, scorer, probes) ==
    /\ ObservedOnce(set, observations)
    /\ scorer.candidate = set.candidate /\ scorer.type = "deterministic"
    /\ scorer.calibrated => ToSet(probes) = ToSet(scorer.probes)
    /\ \A o \in ToSet(observations) : o.candidate = set.candidate /\ o.set = set.id

(* The results are those of the cases, in their order.                     *)
Evaluated(results, set, observations) ==
    /\ DOMAIN results = DOMAIN set.cases /\ results \in Seq(ToSet(results))
    /\ \A i \in DOMAIN set.cases : Fits(results[i], set.cases[i], ObservationOf(observations, set.cases[i].id))

(* The results that pass are as many as the cases that are shown.          *)
LEMMA PassedAsShown ==
    ASSUME NEW set, NEW observations, NEW scorer, NEW results, Acceptable(set, observations, scorer),
           ObservedOnce(set, observations), Evaluated(results, set, observations),
           \A i \in DOMAIN results : results[i].status # "blocked"
    PROVE  Cardinality({c \in ToSet(set.cases) : \E o \in ToSet(observations) : o.case = c.id /\ Shown(c, o)})
              = Cardinality(PassedCases(results))
<1> DEFINE passed == {c \in ToSet(set.cases) : \E o \in ToSet(observations) : o.case = c.id /\ Shown(c, o)}
           cases  == [i \in PassedCases(results) |-> set.cases[i]]
<1>1. /\ PassedCases(results) \subseteq DOMAIN set.cases
      /\ ToSet(set.cases) = {set.cases[i] : i \in DOMAIN set.cases}
  BY DEF PassedCases, Evaluated, ToSet
<1>2. IsFiniteSet(PassedCases(results))
  <2>1. DOMAIN set.cases = 1..Len(set.cases) /\ Len(set.cases) \in Nat
    BY LenProperties DEF Acceptable, Listed
  <2>2. \A n \in Nat : IsFiniteSet(1..n)
    BY FS_Interval
  <2> QED BY <1>1, <2>1, <2>2, FS_Subset
<1>3. \A i, j \in DOMAIN set.cases : set.cases[i].id = set.cases[j].id => i = j
  BY DEF Acceptable, ScenarioSetValid, IsInjective, CaseIds
<1>4. IsInjective(cases)
  BY <1>1, <1>3 DEF IsInjective
<1>5. \A i \in DOMAIN set.cases :
         /\ ObservationOf(observations, set.cases[i].id) \in ToSet(observations)
         /\ ObservationOf(observations, set.cases[i].id).case = set.cases[i].id
         /\ \A o \in ToSet(observations) : o.case = set.cases[i].id => o = ObservationOf(observations, set.cases[i].id)
  BY EachIsObserved
<1>6. \A i \in DOMAIN set.cases : i \in PassedCases(results) <=> set.cases[i] \in passed
  <2> TAKE i \in DOMAIN set.cases
  <2>1. i \in PassedCases(results) <=> Shown(set.cases[i], ObservationOf(observations, set.cases[i].id))
    BY DEF PassedCases, Evaluated, Fits
  <2>2. set.cases[i] \in passed <=> Shown(set.cases[i], ObservationOf(observations, set.cases[i].id))
    BY <1>1, <1>5
  <2> QED BY <2>1, <2>2
<1>7. {cases[i] : i \in PassedCases(results)} = passed
  BY <1>1, <1>6
<1> HIDE DEF cases, passed
<1>8. DOMAIN cases = PassedCases(results)
  BY DEF cases
<1>9. Cardinality({cases[i] : i \in PassedCases(results)}) = Cardinality(PassedCases(results))
  BY <1>2, <1>4, <1>8, AsManyAsImages
<1> QED BY <1>7, <1>9 DEF passed

(* There is one result for each case, of the candidate and the set.        *)
LEMMA ResultsDistinct ==
    ASSUME NEW set, NEW observations, NEW scorer, NEW probes, NEW results, Acceptable(set, observations, scorer),
           Admitted(set, observations, scorer, probes), Evaluated(results, set, observations)
    PROVE  /\ IsInjective([i \in DOMAIN results |-> results[i].case])
           /\ \A x \in ToSet(results) : x.candidate = set.candidate /\ x.set = set.id /\ CaseResultValid(x)
           /\ results # <<>> /\ Len(results) = Len(set.cases)
<1>1. \A i, j \in DOMAIN set.cases : set.cases[i].id = set.cases[j].id => i = j
  BY DEF Acceptable, ScenarioSetValid, IsInjective, CaseIds
<1>2. \A i \in DOMAIN set.cases :
         /\ ObservationOf(observations, set.cases[i].id) \in ToSet(observations)
         /\ ObservationOf(observations, set.cases[i].id).case = set.cases[i].id
  BY EachIsObserved DEF Admitted
<1>3. \A i \in DOMAIN results :
         /\ i \in DOMAIN set.cases /\ results[i].case = set.cases[i].id
         /\ results[i].candidate = set.candidate /\ results[i].set = set.id /\ CaseResultValid(results[i])
  BY <1>2 DEF Admitted, Evaluated, Fits
<1>4. IsInjective([i \in DOMAIN results |-> results[i].case])
  BY <1>1, <1>3 DEF IsInjective
<1>5. \A x \in ToSet(results) : x.candidate = set.candidate /\ x.set = set.id /\ CaseResultValid(x)
  BY <1>3 DEF ToSet
<1>6. results # <<>> /\ Len(results) = Len(set.cases)
  <2>1. set.cases # <<>>
    BY DEF Acceptable, ScenarioSetValid
  <2>2. DOMAIN results = 1..Len(results) /\ Len(results) \in Nat /\ DOMAIN set.cases = 1..Len(set.cases) /\ Len(set.cases) \in Nat
    BY LenProperties DEF Acceptable, Listed, Evaluated
  <2>3. Len(results) = Len(set.cases)
    <3>1. 1..Len(results) = 1..Len(set.cases)
      BY <2>2 DEF Evaluated
    <3>2. \A m, n \in Nat : 1..m = 1..n => m = n
      OBVIOUS
    <3> QED BY <2>2, <3>1, <3>2
  <2>4. Len(set.cases) # 0
    BY <2>1, EmptySeq DEF Acceptable, Listed
  <2> QED BY <2>2, <2>3, <2>4
<1> QED BY <1>4, <1>5, <1>6

(* A refusal is a receipt that its contract accepts.                       *)
LEMMA RefusedShape ==
    ASSUME NEW set, NEW scorer, NEW code, NEW who, NEW results, NEW completed,
           code # None, scorer.candidate # set.candidate => code = "scorer_candidate_mismatch",
           IsInjective([i \in DOMAIN results |-> results[i].case]),
           \A x \in ToSet(results) : x.candidate = set.candidate /\ x.set = set.id /\ CaseResultValid(x),
           completed \subseteq DOMAIN scorer.probes
    PROVE  ReceiptShape(Refused(set, scorer, code, who, results, completed))
  BY DEF ReceiptShape, Refused

(* A score that is reached is a receipt that its contract accepts, and is  *)
(* earned by the observations.                                             *)
LEMMA ScoredWell ==
    ASSUME NEW set, NEW observations, NEW scorer, NEW probes, NEW results, NEW who,
           Acceptable(set, observations, scorer),
           Admitted(set, observations, scorer, probes), Evaluated(results, set, observations)
    PROVE  LET r == Scored(set, scorer, who, results, CompletedProbes(scorer, probes))
           IN  /\ ReceiptShape(r) /\ ScoreEarnedBy(r, set, observations, scorer, probes)
               /\ r.provider = who /\ r.results = results
<1> DEFINE completed == CompletedProbes(scorer, probes)
           r == Scored(set, scorer, who, results, completed)
<1>1. /\ IsInjective([i \in DOMAIN results |-> results[i].case])
      /\ \A x \in ToSet(results) : x.candidate = set.candidate /\ x.set = set.id /\ CaseResultValid(x)
      /\ results # <<>> /\ Len(results) = Len(set.cases)
  BY ResultsDistinct
<1>2. completed \subseteq DOMAIN scorer.probes /\ (scorer.calibrated => completed = DOMAIN scorer.probes)
  BY DEF Admitted, CompletedProbes, ToSet
<1> HIDE DEF completed
<1>3. CASE \E i \in DOMAIN results : results[i].status = "blocked"
  <2>1. r = Refused(set, scorer, "scenario_blocked", who, results, completed)
    BY <1>3 DEF Scored
  <2>2. ReceiptShape(Refused(set, scorer, "scenario_blocked", who, results, completed))
    BY <1>1, <1>2, RefusedShape, EvaluationAssumption DEF EvaluationCodes, Admitted
  <2>3. r.status = "blocked" /\ r.provider = who /\ r.results = results
    BY <2>1 DEF Refused
  <2> QED BY <2>1, <2>2, <2>3 DEF ScoreEarnedBy, completed
<1>4. CASE \A i \in DOMAIN results : results[i].status # "blocked"
  <2>1. r = [candidate |-> set.candidate, set |-> set.id, provider |-> who, scorer |-> scorer,
             status |-> IF Meets(ScoreOf(results), scorer.threshold) THEN "pass" ELSE "fail",
             score |-> ScoreOf(results), results |-> results, probes |-> completed, blocker |-> None]
    BY <1>4 DEF Scored
  <2>2. /\ r.candidate = set.candidate /\ r.set = set.id /\ r.scorer = scorer /\ r.results = results
        /\ r.probes = completed /\ r.blocker = None /\ r.score = ScoreOf(results) /\ r.provider = who
        /\ r.status = IF Meets(r.score, r.scorer.threshold) THEN "pass" ELSE "fail"
    BY <2>1
  <2> HIDE DEF r
  <2>3. \A x \in ToSet(results) : x.status # "blocked"
    BY <1>4 DEF ToSet
  <2>4. ReceiptShape(r)
    BY <1>1, <1>2, <2>2, <2>3 DEF ReceiptShape, Admitted
  <2> DEFINE passed == {c \in ToSet(set.cases) : \E o \in ToSet(observations) : o.case = c.id /\ Shown(c, o)}
  <2>5. ScoreOf(results) = <<Cardinality(passed), Len(set.cases)>>
    <3>1. Cardinality(passed) = Cardinality(PassedCases(results))
      BY <1>4, PassedAsShown DEF Admitted
    <3> HIDE DEF passed
    <3> QED BY <1>1, <3>1 DEF ScoreOf
  <2>6. (r.status = "pass") = Meets(<<Cardinality(passed), Len(set.cases)>>, scorer.threshold)
    <3> HIDE DEF passed
    <3> QED BY <2>2, <2>5 DEF Meets
  <2>7. Len(observations) = Len(set.cases)
    BY AsManyObservations DEF Admitted
  <2>8. \A o \in ToSet(observations) :
           /\ o.status = "completed" /\ o.candidate = set.candidate /\ o.set = set.id
           /\ o.case \in ToSet(CaseIds(set.cases))
    <3> TAKE o \in ToSet(observations)
    <3>1. o.case \in ToSet(CaseIds(set.cases)) /\ o = ObservationOf(observations, o.case)
      BY EachIsObserved DEF Admitted
    <3>2. PICK i \in DOMAIN set.cases : o.case = set.cases[i].id
      BY <3>1 DEF ToSet, CaseIds
    <3>3. o.status = "completed"
      BY <1>4, <3>1, <3>2 DEF Evaluated, Fits
    <3> QED BY <3>1, <3>3 DEF Admitted
  <2>9. ScoreEarnedBy(r, set, observations, scorer, probes)
    BY <2>6, <2>7, <2>8 DEF ScoreEarnedBy, Admitted
  <2> QED BY <2>2, <2>4, <2>9 DEF r, completed
<1> QED BY <1>3, <1>4

(* The results of either version are those of the cases; where each        *)
(* expects signals they are equal.                                         *)
LEMMA EvaluatedByCase ==
    ASSUME NEW set, NEW observations, NEW scorer, Acceptable(set, observations, scorer), ObservedOnce(set, observations)
    PROVE  LET o(i) == ObservationOf(observations, set.cases[i].id)
               v1   == [i \in DOMAIN set.cases |-> EvaluateCase(set.cases[i], o(i))]
               v2   == [i \in DOMAIN set.cases |-> EvaluateCaseV2(set.cases[i], o(i))]
           IN  /\ Evaluated(v1, set, observations) /\ Evaluated(v2, set, observations)
               /\ \A x \in ToSet(v2) : DigestsAgree(x) /\ x.provider \in Providers(observations)
               /\ (\A i \in DOMAIN set.cases : set.cases[i].oracle = "expected_signal") => v1 = v2
<1> DEFINE o(i) == ObservationOf(observations, set.cases[i].id)
           v1   == [i \in DOMAIN set.cases |-> EvaluateCase(set.cases[i], o(i))]
           v2   == [i \in DOMAIN set.cases |-> EvaluateCaseV2(set.cases[i], o(i))]
<1>1. \A i \in DOMAIN set.cases :
         /\ o(i) \in ToSet(observations)
         /\ ObservationValid(o(i)) /\ o(i).status \in {"completed", "blocked"} /\ ExpectationValid(set.cases[i])
  BY EachIsObserved DEF Acceptable, ToSet
<1>2. DOMAIN set.cases = 1..Len(set.cases) /\ Len(set.cases) \in Nat
  BY LenProperties DEF Acceptable, Listed
<1>3. \A i \in DOMAIN set.cases :
         /\ Fits(EvaluateCase(set.cases[i], o(i)), set.cases[i], o(i))
         /\ Fits(EvaluateCaseV2(set.cases[i], o(i)), set.cases[i], o(i)) /\ DigestsAgree(EvaluateCaseV2(set.cases[i], o(i)))
  BY <1>1, CaseEvaluated, CaseEvaluatedV2
<1>4. \A f : DOMAIN f = 1..Len(set.cases) /\ (f = [i \in DOMAIN f |-> f[i]]) => f \in Seq(ToSet(f))
  BY <1>2, SeqDef DEF ToSet
<1>5. v1 \in Seq(ToSet(v1)) /\ v2 \in Seq(ToSet(v2))
  <2>1. DOMAIN v1 = 1..Len(set.cases) /\ v1 = [i \in DOMAIN v1 |-> v1[i]]
    BY <1>2
  <2>2. DOMAIN v2 = 1..Len(set.cases) /\ v2 = [i \in DOMAIN v2 |-> v2[i]]
    BY <1>2
  <2> HIDE DEF v1, v2
  <2> QED BY <2>1, <2>2, <1>4
<1>6. Evaluated(v1, set, observations) /\ Evaluated(v2, set, observations)
  BY <1>3, <1>5 DEF Evaluated
<1>7. \A x \in ToSet(v2) : DigestsAgree(x) /\ x.provider \in Providers(observations)
  <2> TAKE x \in ToSet(v2)
  <2>1. PICK i \in DOMAIN set.cases : x = EvaluateCaseV2(set.cases[i], o(i))
    BY DEF ToSet
  <2>2. x.provider = o(i).provider /\ DigestsAgree(x)
    BY <1>3, <2>1 DEF Fits
  <2> QED BY <1>1, <2>2 DEF Providers
<1>8. ASSUME \A i \in DOMAIN set.cases : set.cases[i].oracle = "expected_signal"
      PROVE  v1 = v2
  <2>1. \A i \in DOMAIN set.cases : EvaluateCaseV2(set.cases[i], o(i)) = EvaluateCase(set.cases[i], o(i))
    BY <1>1, <1>8, CasesAgree
  <2> QED BY <2>1
<1> QED BY <1>6, <1>7, <1>8

(* Either version of the evaluation yields a receipt that is valid and a   *)
(* score that the observations earn.                                       *)
LEMMA ReceiptsWell ==
    ASSUME NEW set, NEW observations, NEW scorer, NEW probes, Acceptable(set, observations, scorer)
    PROVE  LET v1 == EvaluateScenarioSet(set, observations, scorer, probes)
               v2 == EvaluateScenarioSetV2(set, observations, scorer, probes)
           IN  /\ EvaluationReceiptValid(v1) /\ EvaluationReceiptV2Valid(v2)
               /\ ScoreEarnedBy(v1, set, observations, scorer, probes)
               /\ ScoreEarnedBy(v2, set, observations, scorer, probes)
               /\ VersionsAgree(v1, v2, set, observations)
<1> DEFINE v1 == EvaluateScenarioSet(set, observations, scorer, probes)
           v2 == EvaluateScenarioSetV2(set, observations, scorer, probes)
           early == ScorerRefusals(set, scorer, probes)
           late  == ObservationRefusals(set, scorer, probes, observations)
           other == When(Cardinality(Providers(observations)) # 1, "provider_identity_mismatch")
           late2 == late \o other
           completed == CompletedProbes(scorer, probes)
           results1 == [i \in DOMAIN set.cases |->
                           EvaluateCase(set.cases[i], ObservationOf(observations, set.cases[i].id))]
           results2 == [i \in DOMAIN set.cases |->
                           EvaluateCaseV2(set.cases[i], ObservationOf(observations, set.cases[i].id))]
<1>1. v1 = IF early # <<>> THEN Refused(set, scorer, FirstOf(early), None, <<>>, {})
           ELSE IF late # <<>> THEN Refused(set, scorer, FirstOf(late), None, <<>>, completed)
           ELSE Scored(set, scorer, None, results1, completed)
  BY DEF EvaluateScenarioSet
<1>2. v2 = IF early # <<>> THEN Refused(set, scorer, FirstOf(early), None, <<>>, {})
           ELSE IF late2 # <<>> THEN Refused(set, scorer, FirstOf(late2), None, <<>>, completed)
           ELSE Scored(set, scorer, observations[1].provider, results2, completed)
  BY DEF EvaluateScenarioSetV2
<1>3. /\ early \in Seq(EvaluationCodes)
      /\ early = <<>> => scorer.candidate = set.candidate /\ scorer.type = "deterministic"
      /\ scorer.candidate # set.candidate => early # <<>> /\ FirstOf(early) = "scorer_candidate_mismatch"
  BY ScorerRefused
<1>4. late \in Seq(EvaluationCodes) /\ (early = <<>> /\ late = <<>> => Admitted(set, observations, scorer, probes))
  BY <1>3, ObservationRefused DEF Admitted, ObservedOnce
<1>5. /\ other \in Seq(EvaluationCodes)
      /\ other = <<>> <=> Cardinality(Providers(observations)) = 1
  BY FirstRefusal DEF EvaluationCodes
<1> HIDE DEF early, late, other
<1>6. /\ late2 \in Seq(EvaluationCodes)
      /\ late2 = <<>> <=> late = <<>> /\ other = <<>>
      /\ other = <<>> => late2 = late
  BY <1>4, <1>5, MoreRefusals
<1> HIDE DEF late2
<1>7. early = <<>> /\ late = <<>> =>
         /\ Evaluated(results1, set, observations) /\ Evaluated(results2, set, observations)
         /\ \A x \in ToSet(results2) : DigestsAgree(x) /\ x.provider \in Providers(observations)
         /\ (\A i \in DOMAIN set.cases : set.cases[i].oracle = "expected_signal") => results1 = results2
  <2> SUFFICES ASSUME early = <<>>, late = <<>>
               PROVE  /\ Evaluated(results1, set, observations) /\ Evaluated(results2, set, observations)
                      /\ \A x \in ToSet(results2) : DigestsAgree(x) /\ x.provider \in Providers(observations)
                      /\ (\A i \in DOMAIN set.cases : set.cases[i].oracle = "expected_signal") => results1 = results2
    OBVIOUS
  <2>1. ObservedOnce(set, observations)
    BY <1>4 DEF Admitted
  <2> QED BY <2>1, EvaluatedByCase
<1> HIDE DEF results1, results2
<1>8. completed \subseteq DOMAIN scorer.probes
  BY DEF CompletedProbes
<1> HIDE DEF completed
<1>9. ASSUME NEW refusals \in Seq(EvaluationCodes), refusals # <<>>, NEW done, done \subseteq DOMAIN scorer.probes,
             scorer.candidate # set.candidate => FirstOf(refusals) = "scorer_candidate_mismatch"
      PROVE  LET r == Refused(set, scorer, FirstOf(refusals), None, <<>>, done)
             IN  /\ EvaluationReceiptValid(r) /\ EvaluationReceiptV2Valid(r)
                 /\ ScoreEarnedBy(r, set, observations, scorer, probes)
  <2> DEFINE r == Refused(set, scorer, FirstOf(refusals), None, <<>>, done)
  <2>1. FirstOf(refusals) # None
    BY <1>9, RefusalNamed, EvaluationAssumption
  <2>2. ToSet(<<>>) = {} /\ IsInjective([i \in DOMAIN <<>> |-> <<>>[i].case])
    BY DEF ToSet, IsInjective
  <2>3. ReceiptShape(r)
    BY <1>9, <2>1, <2>2, RefusedShape
  <2>4. r.status = "blocked" /\ r.results = <<>>
    BY DEF Refused
  <2> HIDE DEF r
  <2>5. EvaluationReceiptValid(r) /\ EvaluationReceiptV2Valid(r)
    BY <2>2, <2>3, <2>4 DEF EvaluationReceiptValid, EvaluationReceiptV2Valid
  <2>6. ScoreEarnedBy(r, set, observations, scorer, probes)
    BY <2>4 DEF ScoreEarnedBy
  <2> QED BY <2>5, <2>6 DEF r
<1>10. EvaluationReceiptValid(v1) /\ ScoreEarnedBy(v1, set, observations, scorer, probes)
  <2>1. CASE early # <<>>
    BY <1>1, <1>3, <1>9, <2>1
  <2>2. CASE early = <<>> /\ late # <<>>
    BY <1>1, <1>3, <1>4, <1>8, <1>9, <2>2
  <2>3. CASE early = <<>> /\ late = <<>>
    <3>1. v1 = Scored(set, scorer, None, results1, CompletedProbes(scorer, probes))
      BY <1>1, <2>3 DEF completed
    <3> HIDE DEF v1
    <3>2. ReceiptShape(v1) /\ ScoreEarnedBy(v1, set, observations, scorer, probes)
      BY <1>4, <1>7, <2>3, <3>1, ScoredWell
    <3> QED BY <3>2 DEF EvaluationReceiptValid
  <2> QED BY <2>1, <2>2, <2>3
<1>11. early = <<>> /\ late2 = <<>> =>
          observations[1].provider # None /\ \A p \in Providers(observations) : p = observations[1].provider
  <2> SUFFICES ASSUME early = <<>>, late2 = <<>>
               PROVE  observations[1].provider # None /\ \A p \in Providers(observations) : p = observations[1].provider
    OBVIOUS
  <2>1. Len(observations) = Len(set.cases) /\ Len(set.cases) \in Nat /\ Len(set.cases) # 0
    <3>1. Len(observations) = Len(set.cases)
      BY <1>4, <1>6, AsManyObservations DEF Admitted
    <3>2. Len(set.cases) \in Nat /\ Len(set.cases) # 0
      BY LenProperties, EmptySeq DEF Acceptable, ScenarioSetValid, Listed
    <3> QED BY <3>1, <3>2
  <2>2. DOMAIN observations = 1..Len(observations)
    BY LenProperties DEF Acceptable, Listed
  <2>3. observations[1] \in ToSet(observations)
    BY <2>1, <2>2 DEF ToSet
  <2>4. Cardinality(Providers(observations)) = 1
    BY <1>5, <1>6
  <2>5. IsFiniteSet(Providers(observations))
    <3>1. Providers(observations) = {observations[i].provider : i \in DOMAIN observations}
      BY DEF Providers, ToSet
    <3>2. IsFiniteSet(DOMAIN observations)
      <4>1. \A n \in Nat : IsFiniteSet(1..n)
        BY FS_Interval
      <4> QED BY <2>1, <2>2, <4>1
    <3> DEFINE image == [i \in DOMAIN observations |-> observations[i].provider]
    <3>3. image \in Surjection(DOMAIN observations, Providers(observations))
      BY <3>1 DEF Surjection
    <3> HIDE DEF image
    <3> QED BY <3>2, <3>3, FS_Surjection
  <2>6. PICK p : Providers(observations) = {p}
    BY <2>4, <2>5, FS_Singleton
  <2> QED BY <2>3, <2>6 DEF Providers, Acceptable
<1>12. EvaluationReceiptV2Valid(v2) /\ ScoreEarnedBy(v2, set, observations, scorer, probes)
  <2>1. CASE early # <<>>
    BY <1>2, <1>3, <1>9, <2>1
  <2>2. CASE early = <<>> /\ late2 # <<>>
    BY <1>2, <1>3, <1>6, <1>8, <1>9, <2>2
  <2>3. CASE early = <<>> /\ late2 = <<>>
    <3>1. v2 = Scored(set, scorer, observations[1].provider, results2, CompletedProbes(scorer, probes))
      BY <1>2, <2>3 DEF completed
    <3> HIDE DEF v2
    <3>2. /\ ReceiptShape(v2) /\ ScoreEarnedBy(v2, set, observations, scorer, probes)
          /\ v2.provider = observations[1].provider /\ v2.results = results2
      BY <1>4, <1>6, <1>7, <2>3, <3>1, ScoredWell
    <3> QED BY <1>6, <1>7, <1>11, <2>3, <3>2 DEF EvaluationReceiptV2Valid
  <2> QED BY <2>1, <2>2, <2>3
<1>13. VersionsAgree(v1, v2, set, observations)
  <2> SUFFICES ASSUME Cardinality(Providers(observations)) = 1,
                      \A i \in DOMAIN set.cases : set.cases[i].oracle = "expected_signal"
               PROVE  v1 = [v2 EXCEPT !.provider = None]
    BY DEF VersionsAgree
  <2>1. late2 = late
    BY <1>5, <1>6
  <2>b. \A code, done : Refused(set, scorer, code, None, <<>>, done)
                            = [Refused(set, scorer, code, None, <<>>, done) EXCEPT !.provider = None]
    BY DEF Refused
  <2>2. CASE early # <<>>
    <3>1. v1 = Refused(set, scorer, FirstOf(early), None, <<>>, {}) /\ v2 = v1
      BY <1>1, <1>2, <2>2
    <3> HIDE DEF v1, v2
    <3> QED BY <2>b, <3>1
  <2>3. CASE early = <<>> /\ late # <<>>
    BY <1>1, <1>2, <2>1, <2>3 DEF Refused
  <2>4. CASE early = <<>> /\ late = <<>>
    <3>1. results1 = results2
      BY <1>7, <2>4
    <3>2. /\ v1 = Scored(set, scorer, None, results2, completed)
          /\ v2 = Scored(set, scorer, observations[1].provider, results2, completed)
      BY <1>1, <1>2, <2>1, <2>4, <3>1
    <3> HIDE DEF v1, v2
    <3>3. \A p : Scored(set, scorer, None, results2, completed)
                    = [Scored(set, scorer, p, results2, completed) EXCEPT !.provider = None]
      BY DEF Scored, Refused
    <3> QED BY <3>2, <3>3
  <2> QED BY <2>2, <2>3, <2>4
<1> QED BY <1>10, <1>12, <1>13

-----------------------------------------------------------------------------
(* A selected case with supplied evidence.                                 *)

LoadedFrom(d, c) == c \in Contents /\ Loads(c, wanted) /\ d = Definition(c, wanted)

(* The output shows a case's signals exactly if the evidence finds all     *)
(* that is semantic, and the text holds what it must.                      *)
LEMMA SignalsShown ==
    ASSUME NEW case, NEW text, NEW satisfied \in SUBSET Signals(Semantic(case))
    PROVE  Signals(Semantic(case)) \cup Signals(Deterministic(case))
              \subseteq satisfied \cup DeterministicSignals(text, Deterministic(case))
           <=> /\ satisfied = Signals(Semantic(case))
               /\ \A a \in ToSet(case.acceptance) :
                     a.type \in DeterministicTypes => ((a.value \in text) = (a.type = "contains"))
<1> DEFINE as == case.acceptance
           Held(a) == (a.value \in text) = (a.type = "contains")
           Of(i) == [id |-> <<i>>, type |-> as[i].type, value |-> as[i].value]
<1>a. \A a : a \in Deterministic(case) <=> \E i \in DOMAIN as : as[i].type \in DeterministicTypes /\ a = Of(i)
  <2>1. \A i \in DOMAIN as : \A a : a \in DeterministicOf(as[i], i) <=> as[i].type \in DeterministicTypes /\ a = Of(i)
    BY DEF DeterministicOf
  <2>2. \A a : a \in Deterministic(case) <=> \E i \in DOMAIN as : a \in DeterministicOf(as[i], i)
    BY DEF Deterministic
  <2> HIDE DEF Of
  <2> QED BY <2>1, <2>2
<1>b. \A i : Of(i).id = <<i>> /\ Of(i).type = as[i].type /\ Of(i).value = as[i].value
  OBVIOUS
<1> HIDE DEF Of
<1>1. \A x : x \in Signals(Deterministic(case)) <=>
               \E i \in DOMAIN as : as[i].type \in DeterministicTypes /\ x = <<i>>
  <2>1. \A x : x \in Signals(Deterministic(case)) <=> \E a \in Deterministic(case) : x = a.id
    BY DEF Signals
  <2> TAKE x
  <2>2. ASSUME x \in Signals(Deterministic(case))
        PROVE  \E i \in DOMAIN as : as[i].type \in DeterministicTypes /\ x = <<i>>
    <3>1. PICK a \in Deterministic(case) : x = a.id
      BY <2>1, <2>2
    <3>2. PICK i \in DOMAIN as : as[i].type \in DeterministicTypes /\ a = Of(i)
      BY <1>a
    <3> QED BY <1>b, <3>1, <3>2
  <2>3. ASSUME NEW i \in DOMAIN as, as[i].type \in DeterministicTypes, x = <<i>>
        PROVE  x \in Signals(Deterministic(case))
    <3>1. Of(i) \in Deterministic(case)
      BY <1>a, <2>3
    <3> QED BY <1>b, <2>1, <2>3, <3>1
  <2> QED BY <2>2, <2>3
<1>2. \A x : x \in DeterministicSignals(text, Deterministic(case)) <=>
               \E i \in DOMAIN as : as[i].type \in DeterministicTypes /\ x = <<i>> /\ Held(as[i])
  <2>1. \A x : x \in DeterministicSignals(text, Deterministic(case)) <=>
                 \E a \in Deterministic(case) : Held(a) /\ x = a.id
    BY DEF DeterministicSignals, Signals
  <2>2. \A i : Held(Of(i)) <=> Held(as[i])
    BY <1>b
  <2> HIDE DEF Held
  <2> TAKE x
  <2>3. ASSUME x \in DeterministicSignals(text, Deterministic(case))
        PROVE  \E i \in DOMAIN as : as[i].type \in DeterministicTypes /\ x = <<i>> /\ Held(as[i])
    <3>1. PICK a \in Deterministic(case) : Held(a) /\ x = a.id
      BY <2>1, <2>3
    <3>2. PICK i \in DOMAIN as : as[i].type \in DeterministicTypes /\ a = Of(i)
      BY <1>a
    <3> QED BY <1>b, <2>2, <3>1, <3>2
  <2>4. ASSUME NEW i \in DOMAIN as, as[i].type \in DeterministicTypes, x = <<i>>, Held(as[i])
        PROVE  x \in DeterministicSignals(text, Deterministic(case))
    <3>1. Of(i) \in Deterministic(case) /\ Held(Of(i))
      BY <1>a, <2>2, <2>4
    <3> QED BY <1>b, <2>1, <2>4, <3>1
  <2> QED BY <2>3, <2>4
<1>3. \A x \in Signals(Semantic(case)) :
         \E i \in DOMAIN as : as[i].type \in SemanticTypes /\ (x = <<i>> \/ \E y : x = <<i, y>>)
  BY DEF Signals, Semantic, SemanticOf, SemanticTypes
<1>4. \A x \in Signals(Semantic(case)) : x \notin Signals(Deterministic(case))
  <2> SUFFICES ASSUME NEW x \in Signals(Semantic(case)), x \in Signals(Deterministic(case)) PROVE FALSE
    OBVIOUS
  <2>1. PICK i \in DOMAIN as : as[i].type \in SemanticTypes /\ (x = <<i>> \/ \E y : x = <<i, y>>)
    BY <1>3
  <2>2. PICK j \in DOMAIN as : as[j].type \in DeterministicTypes /\ x = <<j>>
    BY <1>1
  <2>3. x = <<i>>
    <3>1. \A y : <<i, y>> # <<j>>
      OBVIOUS
    <3> QED BY <2>1, <2>2, <3>1
  <2>4. i = j
    BY <2>2, <2>3
  <2> QED BY <2>1, <2>2, <2>4 DEF SemanticTypes, DeterministicTypes
<1>5. \A i \in DOMAIN as : as[i].type \in DeterministicTypes =>
         (<<i>> \in DeterministicSignals(text, Deterministic(case)) <=> Held(as[i]))
  <2> TAKE i \in DOMAIN as
  <2> HAVE as[i].type \in DeterministicTypes
  <2>1. \A j : <<i>> = <<j>> => i = j
    OBVIOUS
  <2> QED BY <1>2, <2>1
<1>6. Signals(Deterministic(case)) \subseteq DeterministicSignals(text, Deterministic(case))
      <=> \A i \in DOMAIN as : as[i].type \in DeterministicTypes => Held(as[i])
  BY <1>1, <1>5
<1>7. DeterministicSignals(text, Deterministic(case)) \subseteq Signals(Deterministic(case))
  BY <1>1, <1>2
<1>8. (\A i \in DOMAIN as : as[i].type \in DeterministicTypes => Held(as[i]))
      <=> \A a \in ToSet(as) : a.type \in DeterministicTypes => Held(a)
  BY DEF ToSet
<1> HIDE DEF Held, as
<1> QED BY <1>4, <1>6, <1>7, <1>8 DEF Held, as

(* A definition asks for something, so that it can be scored.              *)
LEMMA DefinitionScorable ==
    ASSUME NEW d, NEW c, wanted \in [case : Cases, mode : Modes], LoadedFrom(d, c)
    PROVE  /\ d.case.signals # {} /\ d.case.oracle = "expected_signal" /\ d.case.expected = None
           /\ d.candidate = c
           /\ \A a \in Handed(d) : AskShaped(a)
<1> DEFINE case == CaseOf(c, wanted.case)
           first == case.acceptance[1]
<1>1. /\ d.candidate = c /\ d.case.oracle = "expected_signal" /\ d.case.expected = None
      /\ d.case.signals = Signals(Semantic(case)) \cup Signals(Deterministic(case))
  BY DEF LoadedFrom, Definition
<1>2. /\ Listed(case.acceptance) /\ \A a \in ToSet(case.acceptance) : Listed(a.requirements)
      /\ \A a \in Handed(d) : AskShaped(a)
  BY SuppliedAssumption DEF LoadedFrom
<1>3. case.acceptance # <<>> /\ \A a \in ToSet(case.acceptance) : AssertionSound(a)
  BY DEF LoadedFrom, Loads, CaseSound
<1> HIDE DEF case
<1>4. 1 \in DOMAIN case.acceptance /\ first \in ToSet(case.acceptance)
  <2>1. Len(case.acceptance) \in Nat /\ Len(case.acceptance) # 0 /\ DOMAIN case.acceptance = 1..Len(case.acceptance)
    BY <1>2, <1>3, LenProperties, EmptySeq DEF Listed
  <2> QED BY <2>1 DEF ToSet
<1>5. CASE first.type \in DeterministicTypes
  <2>1. [id |-> <<1>>, type |-> first.type, value |-> first.value] \in Deterministic(case)
    BY <1>4, <1>5 DEF Deterministic, DeterministicOf
  <2> QED BY <1>1, <1>2, <2>1 DEF Signals
<1>6. CASE first.type = "semantic_requirements"
  <2>1. first.requirements # <<>> /\ Listed(first.requirements)
    BY <1>2, <1>3, <1>4, <1>6 DEF AssertionSound
  <2>2. 1 \in DOMAIN first.requirements
    BY <2>1, LenProperties, EmptySeq DEF Listed
  <2>3. first.requirements[1] \in ToSet(first.requirements)
    BY <2>2 DEF ToSet
  <2>4. SemanticOf(first, 1) # {}
    <3>1. SemanticOf(first, 1) = {[id |-> <<1, r.id>>, type |-> first.type, all |-> r.all, any |-> r.any] :
                                     r \in ToSet(first.requirements)}
      BY <1>6 DEF SemanticOf
    <3>2. \E x : x \in {[id |-> <<1, r.id>>, type |-> first.type, all |-> r.all, any |-> r.any] :
                             r \in ToSet(first.requirements)}
      BY <2>3
    <3> QED BY <3>1, <3>2
  <2>5. PICK s \in SemanticOf(first, 1) : TRUE
    BY <2>4
  <2>6. s \in Semantic(case)
    BY <1>4, <2>5 DEF Semantic
  <2> QED BY <1>1, <1>2, <2>6 DEF Signals
<1>7. CASE first.type \in SemanticTypes \ {"semantic_requirements"}
  <2>1. [id |-> <<1>>, type |-> first.type, all |-> <<first.value>>, any |-> <<>>] \in SemanticOf(first, 1)
    BY <1>7 DEF SemanticOf
  <2>2. [id |-> <<1>>, type |-> first.type, all |-> <<first.value>>, any |-> <<>>] \in Semantic(case)
    BY <1>4, <2>1 DEF Semantic
  <2> QED BY <1>1, <1>2, <2>2 DEF Signals
<1>8. \/ first.type \in DeterministicTypes \/ first.type = "semantic_requirements"
      \/ first.type \in SemanticTypes \ {"semantic_requirements"}
  BY <1>3, <1>4 DEF AssertionSound
<1> QED BY <1>1, <1>2, <1>5, <1>6, <1>7, <1>8

(* The score of the one observation.                                       *)
LEMMA OneScored ==
    ASSUME NEW o, NEW c, wanted \in [case : Cases, mode : Modes], LoadedFrom(definition, c),
           ObservationValid(o), o.provider # None, o.status \in {"completed", "blocked"}
    PROVE  /\ EvaluationReceiptV2Valid(Score(o)) /\ Score(o).candidate = c
           /\ Score(o).status # "blocked" => o.status = "completed" /\ (Score(o).status = "pass" <=> Shown(definition.case, o))
<1> DEFINE set == ScenarioSetOf(definition)
           scorer == ScorerOf(definition)
<1>1. /\ definition.case.signals # {} /\ definition.case.oracle = "expected_signal" /\ definition.case.expected = None
      /\ definition.candidate = c
  BY DefinitionScorable
<1>2. set.cases = <<definition.case>> /\ set.candidate = c /\ set.release = FALSE
  BY <1>1 DEF ScenarioSetOf
<1>3. scorer.calibrated = FALSE /\ scorer.type = "deterministic" /\ scorer.probes = <<>> /\ scorer.threshold = <<1, 1>>
  BY DEF ScorerOf
<1> HIDE DEF set, scorer
<1>4. ToSet(<<o>>) = {o} /\ ToSet(set.cases) = {definition.case}
  BY <1>2 DEF ToSet
<1>5. Acceptable(set, <<o>>, scorer)
  <2>1. Listed(set.cases) /\ Listed(<<o>>)
    BY <1>2, <1>4 DEF Listed
  <2>2. ScenarioSetValid(set)
    BY <1>1, <1>2 DEF ScenarioSetValid, IsInjective, CaseIds
  <2>3. ScorerValid(scorer)
    BY <1>3 DEF ScorerValid, IsInjective
  <2> QED BY <1>1, <1>4, <2>1, <2>2, <2>3 DEF Acceptable, ExpectationValid
<1>6. EvaluationReceiptV2Valid(Score(o)) /\ ScoreEarnedBy(Score(o), set, <<o>>, scorer, <<>>)
  <2>1. Score(o) = EvaluateScenarioSetV2(set, <<o>>, scorer, <<>>)
    BY DEF Score, set, scorer
  <2> QED BY <1>5, <2>1, ReceiptsWell
<1>7. Score(o).candidate = c
  <2>1. \A code, who, results, completed :
           /\ Refused(set, scorer, code, who, results, completed).candidate = set.candidate
           /\ Scored(set, scorer, who, results, completed).candidate = set.candidate
    BY DEF Refused, Scored
  <2>2. Score(o) = EvaluateScenarioSetV2(set, <<o>>, scorer, <<>>)
    BY DEF Score, set, scorer
  <2> QED BY <1>2, <2>1, <2>2 DEF EvaluateScenarioSetV2
<1>8. ASSUME Score(o).status # "blocked"
      PROVE  o.status = "completed" /\ (Score(o).status = "pass" <=> Shown(definition.case, o))
  <2> DEFINE passed == {x \in ToSet(set.cases) : \E p \in ToSet(<<o>>) : p.case = x.id /\ Shown(x, p)}
  <2>1. /\ o.status = "completed" /\ o.case \in ToSet(CaseIds(set.cases))
        /\ (Score(o).status = "pass") = Meets(<<Cardinality(passed), Len(set.cases)>>, scorer.threshold)
    BY <1>4, <1>6, <1>8 DEF ScoreEarnedBy
  <2>2. o.case = definition.case.id
    BY <1>2, <2>1 DEF ToSet, CaseIds
  <2>3. passed = IF Shown(definition.case, o) THEN {definition.case} ELSE {}
    BY <1>4, <2>2
  <2>4. Cardinality(passed) = IF Shown(definition.case, o) THEN 1 ELSE 0
    <3> HIDE DEF passed
    <3>1. Cardinality({definition.case}) = 1
      BY FS_Singleton
    <3> QED BY <2>3, <3>1, FS_EmptySet
  <2>5. Meets(<<Cardinality(passed), Len(set.cases)>>, scorer.threshold) <=> Shown(definition.case, o)
    <3> HIDE DEF passed
    <3> QED BY <1>2, <1>3, <2>4 DEF Meets
  <2> QED BY <2>1, <2>5
<1> QED BY <1>6, <1>7, <1>8

-----------------------------------------------------------------------------
(* The assessment of safety.                                               *)

(* What is known of evidence that was not refused.                         *)
Assures(request, e, at, content) ==
    /\ request.safety = e.safety /\ request.candidate = e.safety.candidate /\ content = e.safety.candidate
    /\ e.safety.status = "reviewed_no_issue"
    /\ at \in e.safety.observed..(e.safety.observed + MaxAge)
    /\ \A p \in DOMAIN Files(content) : \A i \in Files(content)[p].indicators :
          i.category = "external_service" =>
              e.safety.evidence["capability-checklist"]["network_and_external_writes"].status = "reviewed_no_issue"

(* Evidence that is not refused is in time and of the source that lies there. *)
LEMMA BoundRefused ==
    ASSUME NEW e, NEW at \in Nat, NEW content, e.safety.observed \in Nat
    PROVE  /\ BoundRefusals(e, at, content) \in Seq(SafetyCodes)
           /\ BoundRefusals(e, at, content) = <<>> =>
                 /\ e.safety.status = "reviewed_no_issue"
                 /\ ~(e.safety.observed > at) /\ ~(at > e.safety.observed + MaxAge)
                 /\ content = e.package.candidate /\ Screening(content) = e.screening
<1> DEFINE ax == When(e.safety.observed < e.package.finished, "package_safety_evidence_predates_build")
           r1 == When(e.safety.status # "reviewed_no_issue" \/ e.safety.method = "metadata", "package_safety_review_required")
           r2 == When(e.safety.observed > at, "package_safety_evidence_future")
           r3 == When(at > e.safety.observed + MaxAge, "package_safety_evidence_stale")
           r12 == r1 \o r2
           bx == r12 \o r3
           s1 == When(e.package.status # "built", "invalid_security_source")
           s2 == When(content # e.package.candidate \/ ~content.valid, "security_source_changed")
           cx == s1 \o s2
           dx == When(content = e.package.candidate /\ Screening(content) # e.screening, "security_screening_mismatch")
           b == ax \o bx
           c == b \o cx
           d == c \o dx
<1>a. ax \in Seq(SafetyCodes)
  <2>1. ax = <<"package_safety_evidence_predates_build">> \/ ax = <<>>
    BY Zenon DEF When
  <2>2. /\ <<"package_safety_evidence_predates_build">> \in Seq(SafetyCodes) /\ <<"package_safety_evidence_predates_build">> # <<>>
        /\ <<>> \in Seq(SafetyCodes)
    BY DEF SafetyCodes
  <2> HIDE DEF ax
  <2> QED BY <2>1, <2>2
<1>b. r1 \in Seq(SafetyCodes) /\ (r1 = <<>> => e.safety.status = "reviewed_no_issue")
  BY FirstRefusal DEF SafetyCodes
<1>c. r2 \in Seq(SafetyCodes) /\ (r2 = <<>> => ~(e.safety.observed > at))
  <2>1. r2 = <<"package_safety_evidence_future">> \/ (r2 = <<>> /\ ~(e.safety.observed > at))
    BY Zenon DEF When
  <2>2. /\ <<"package_safety_evidence_future">> \in Seq(SafetyCodes) /\ <<"package_safety_evidence_future">> # <<>>
        /\ <<>> \in Seq(SafetyCodes)
    BY DEF SafetyCodes
  <2>3. r2 = <<>> => ~(e.safety.observed > at)
    BY Zenon, <2>2 DEF When
  <2> DEFINE over == e.safety.observed > at
  <2> HIDE DEF r2, over
  <2>4. r2 \in Seq(SafetyCodes)
    BY <2>1, <2>2 DEF over
  <2> QED BY <2>3, <2>4
<1>d. r3 \in Seq(SafetyCodes) /\ (r3 = <<>> => ~(at > e.safety.observed + MaxAge))
  <2>1. r3 = <<"package_safety_evidence_stale">> \/ (r3 = <<>> /\ ~(at > e.safety.observed + MaxAge))
    BY Zenon DEF When
  <2>2. /\ <<"package_safety_evidence_stale">> \in Seq(SafetyCodes) /\ <<"package_safety_evidence_stale">> # <<>>
        /\ <<>> \in Seq(SafetyCodes)
    BY DEF SafetyCodes
  <2>3. r3 = <<>> => ~(at > e.safety.observed + MaxAge)
    BY Zenon, <2>2 DEF When
  <2> DEFINE over == at > e.safety.observed + MaxAge
  <2> HIDE DEF r3, over
  <2>4. r3 \in Seq(SafetyCodes)
    BY <2>1, <2>2 DEF over
  <2> QED BY <2>3, <2>4
<1>e. s1 \in Seq(SafetyCodes)
  BY FirstRefusal DEF SafetyCodes
<1>f. s2 \in Seq(SafetyCodes) /\ (s2 = <<>> => content = e.package.candidate)
  BY FirstRefusal DEF SafetyCodes
<1>g. dx \in Seq(SafetyCodes) /\ (dx = <<>> => ~(content = e.package.candidate /\ Screening(content) # e.screening))
  BY FirstRefusal DEF SafetyCodes
<1>0. BoundRefusals(e, at, content) = d
  BY DEF BoundRefusals, ReviewRecency, ScreenRefusal
<1> HIDE DEF ax, r1, r2, r3, s1, s2, dx
<1>1. r12 \in Seq(SafetyCodes) /\ (r12 = <<>> <=> r1 = <<>> /\ r2 = <<>>)
  BY <1>b, <1>c, MoreRefusals
<1>2. cx \in Seq(SafetyCodes) /\ (cx = <<>> <=> s1 = <<>> /\ s2 = <<>>)
  BY <1>e, <1>f, MoreRefusals
<1> HIDE DEF r12, cx
<1>3. bx \in Seq(SafetyCodes) /\ (bx = <<>> <=> r12 = <<>> /\ r3 = <<>>)
  BY <1>1, <1>d, MoreRefusals
<1> HIDE DEF bx
<1>4. b \in Seq(SafetyCodes) /\ (b = <<>> <=> ax = <<>> /\ bx = <<>>)
  BY <1>a, <1>3, MoreRefusals
<1> HIDE DEF b
<1>5. c \in Seq(SafetyCodes) /\ (c = <<>> <=> b = <<>> /\ cx = <<>>)
  BY <1>4, <1>2, MoreRefusals
<1> HIDE DEF c
<1>6. d \in Seq(SafetyCodes) /\ (d = <<>> <=> c = <<>> /\ dx = <<>>)
  BY <1>5, <1>g, MoreRefusals
<1> HIDE DEF d
<1> QED BY <1>0, <1>1, <1>2, <1>3, <1>4, <1>5, <1>6, <1>b, <1>c, <1>d, <1>f, <1>g

(* What an assessment without a blocker says of the source it saw.         *)
LEMMA SafetyAssessed ==
    ASSUME NEW request, NEW e, NEW at \in Nat, NEW content, e # None => e.safety.observed \in Nat,
           AssessPreExecutionSafety(request, e, at, content) = None
    PROVE  e # None /\ Assures(request, e, at, content)
<1>1. None \notin SafetyCodes
  BY SafetyAssumption
<1>2. /\ e # None /\ EvidenceValid(e) /\ RequestBinds(request, e.safety) /\ request.status = "prepared"
      /\ FirstOf(BoundRefusals(e, at, content)) = None
  BY <1>1 DEF AssessPreExecutionSafety, SafetyCodes
<1>3. BoundRefusals(e, at, content) = <<>>
  <2>1. BoundRefusals(e, at, content) \in Seq(SafetyCodes)
    BY <1>2, BoundRefused
  <2> QED BY <1>1, <1>2, <2>1, RefusalNamed
<1>4. /\ e.safety.status = "reviewed_no_issue"
      /\ ~(e.safety.observed > at) /\ ~(at > e.safety.observed + MaxAge)
      /\ content = e.package.candidate /\ Screening(content) = e.screening
  BY <1>2, <1>3, BoundRefused
<1>5. e.safety.candidate = e.package.candidate /\ ReviewBinds(e)
  BY <1>2 DEF EvidenceValid, BindsPackage
<1>6. at \in e.safety.observed..(e.safety.observed + MaxAge)
  BY <1>2, <1>4, AgeAssumption
<1>7. ASSUME NEW p \in DOMAIN Files(content), NEW i \in Files(content)[p].indicators, i.category = "external_service"
      PROVE  e.safety.evidence["capability-checklist"]["network_and_external_writes"].status = "reviewed_no_issue"
  <2>1. i \in SourceIndicators(Files(content)[p])
    BY DEF SourceIndicators
  <2>2. PICK f \in ScreenFindings(content) : f.category = "external_service"
    <3> DEFINE indicators == UNION {SourceIndicators(Files(content)[q]) : q \in DOMAIN Files(content)}
               finding(j) == [code |-> j.code, category |-> j.category,
                              refs |-> {q \in DOMAIN Files(content) : j \in SourceIndicators(Files(content)[q])}]
    <3>1. i \in indicators
      BY <2>1
    <3>2. ScreenFindings(content) = {finding(j) : j \in indicators}
      BY DEF ScreenFindings
    <3>3. finding(i).category = "external_service"
      BY <1>7
    <3> HIDE DEF finding, indicators
    <3> QED BY <3>1, <3>2, <3>3
  <2>3. f \in e.screening.findings
    BY <1>4 DEF Screening
  <2>4. "network_and_external_writes" \in RequiredChecks(e.screening, e.package)
    <3>1. "external_service" \in {g.category : g \in e.screening.findings}
      BY <2>2, <2>3
    <3>2. "network_and_external_writes" \in SafetyChecks
      BY DEF SafetyChecks
    <3> QED BY <3>1, <3>2 DEF RequiredChecks
  <2>5. "network_and_external_writes" \in SafetyChecks
    BY DEF SafetyChecks
  <2> QED BY <1>5, <2>4, <2>5 DEF ReviewBinds
<1> QED BY <1>2, <1>4, <1>5, <1>6, <1>7 DEF Assures, RequestBinds

-----------------------------------------------------------------------------
(* What is known at each step of the execution.                            *)
SuppliedSteps ==
    /\ now \in Nat /\ tree \in Contents /\ wanted \in [case : Cases, mode : Modes]
    /\ purpose \in {"load", "revalidate", "context"}
    /\ purpose = "load" => step \in {"validate", "evals", "ask", "raised"}
    /\ answer # None => step = "done"
    /\ step # "validate" => seen \in Contents

InHand ==
    /\ step = "ask" \/ purpose # "load" => LoadedFrom(definition, definition.candidate)
    /\ purpose # "load" => ask \in Handed(definition)

Requested ==
    /\ ask.request.candidate = definition.candidate /\ ask.request.input.prompt = definition.case.prompt

Cleared ==
    /\ step \in {"scan", "screen", "call"} => purpose # "load" /\ seen = definition.candidate
    /\ step \in {"screen", "call"} => Requested
    /\ step = "call" =>
          /\ screened.tree = definition.candidate
          /\ Assures(ask.request, ask.safety, screened.at, screened.tree)

SuppliedInv == SuppliedSteps /\ InHand /\ Cleared /\ AnswerEarned /\ AnswerValid

(* A blocked receipt says nothing of the content, and passes validation.   *)
LEMMA BlockedNow ==
    ASSUME SuppliedInv, purpose # "load", NEW code, code # None \/ ~Public(code), Blocks(code)
    PROVE  step' = "done" /\ AnswerEarned' /\ AnswerValid'
<1> DEFINE o == BlockedObservation(definition, ask.request, code, ask.request.provider)
<1>1. step' = "done" /\ answer' = Score(o)
  BY DEF Blocks, Delivers
<1>2. LoadedFrom(definition, definition.candidate) /\ wanted \in [case : Cases, mode : Modes] /\ ask \in Handed(definition)
  BY DEF SuppliedInv, SuppliedSteps, InHand
<1>3. ask.request.provider # None
  BY <1>2, DefinitionScorable DEF AskShaped
<1>4. "private_provider_blocker_code" # None
  BY SuppliedAssumption DEF RefusalCodes
<1>5. /\ o.provider # None /\ o.status = "blocked" /\ o.blocker # None /\ o.output = None /\ o.signals = {} /\ o.commands = {}
  BY <1>3, <1>4 DEF BlockedObservation, Observation
<1> HIDE DEF o
<1>6. ObservationValid(o)
  BY <1>5 DEF ObservationValid
<1>7. EvaluationReceiptV2Valid(Score(o)) /\ (Score(o).status = "blocked")
  BY <1>2, <1>5, <1>6, OneScored
<1>8. AnswerValid'
  <2>1. EvaluationReceiptV2Valid(answer')
    BY <1>1, <1>7
  <2> QED BY <2>1 DEF AnswerValid
<1>9. AnswerEarned'
  BY <1>1, <1>7 DEF AnswerEarned
<1> QED BY <1>1, <1>8, <1>9

(* Nothing was answered: what is promised of an answer holds.              *)
LEMMA Unanswered ==
    ASSUME answer' = None
    PROVE  AnswerEarned' /\ AnswerValid'
  BY DEF AnswerEarned, AnswerValid, Answered

(* A request that is admitted is for the content in hand and its prompt.   *)
LEMMA AdmitsOrBlocks ==
    ASSUME SuppliedInv, purpose # "load", answer = None, NEW matches, matches => ask.payload.prompt = definition.case.prompt,
           Admits(matches)
    PROVE  /\ AnswerEarned' /\ AnswerValid'
           /\ step' = "done" \/ (step' = "screen" /\ answer' = None /\ Requested)
<1>1. CASE ~RequestMatches(matches) /\ Blocks("selected_case_request_mismatch")
  <2>1. "selected_case_request_mismatch" # None
    BY SuppliedAssumption DEF RefusalCodes
  <2> QED BY <1>1, <2>1, BlockedNow
<1>2. CASE RequestMatches(matches) /\ ask.request.status = "blocked" /\ Blocks(ask.request.blocker)
  <2>1. ask.request.blocker # None
    BY <1>2, DefinitionScorable DEF SuppliedInv, SuppliedSteps, InHand, AskShaped
  <2> QED BY <1>2, <2>1, BlockedNow
<1>3. CASE RequestMatches(matches) /\ ask.request.status = "prepared" /\ step' = "screen" /\ UNCHANGED answer
  BY <1>3, Unanswered DEF RequestMatches, Requested
<1> QED BY <1>1, <1>2, <1>3 DEF Admits

(* SuppliedInv holds when the case is about to be loaded.                  *)
LEMMA SuppliedStarts ==
    ASSUME SuppliedInit
    PROVE  SuppliedInv
<1>1. SuppliedSteps /\ InHand /\ Cleared
  BY DEF SuppliedInit, SuppliedSteps, InHand, Cleared
<1>2. AnswerEarned /\ AnswerValid
  BY DEF SuppliedInit, AnswerEarned, AnswerValid, Answered
<1> QED BY <1>1, <1>2 DEF SuppliedInv

(* What the actions have in common: the execution is not over.             *)
LEMMA NotYet ==
    ASSUME SuppliedInv, step # "done"
    PROVE  answer = None
  BY DEF SuppliedInv, SuppliedSteps

(* Each action keeps SuppliedInv.  A validation leaves what is in hand.    *)
LEMMA ValidateKeeps ==
    ASSUME SuppliedInv, Validate
    PROVE  SuppliedInv'
<1>1. answer = None /\ step = "validate"
  BY NotYet DEF Validate
<1>2. step' \in {"evals", "raised", "done"} /\ (step' = "done" => purpose = "context")
  BY DEF Validate, Raises, Blocks, Delivers
<1>3. AnswerEarned' /\ AnswerValid' /\ (answer' # None => step' = "done")
  <2>1. CASE UNCHANGED answer
    BY <1>1, <2>1, Unanswered
  <2>2. CASE purpose = "context" /\ Blocks("selected_case_request_mismatch")
    <3>1. "selected_case_request_mismatch" # None
      BY SuppliedAssumption DEF RefusalCodes
    <3> QED BY <2>2, <3>1, BlockedNow
  <2> QED BY <2>1, <2>2 DEF Validate, Raises
<1>4. SuppliedSteps'
  BY <1>2, <1>3 DEF SuppliedInv, SuppliedSteps, Validate
<1>5. InHand'
  BY <1>2 DEF SuppliedInv, InHand, Validate, LoadedFrom
<1>6. Cleared'
  BY <1>2 DEF Cleared
<1> QED BY <1>3, <1>4, <1>5, <1>6 DEF SuppliedInv

(* What is loaded is the definition of the content that was validated.     *)
LEMMA LoadedKeeps ==
    ASSUME SuppliedInv, Loaded
    PROVE  SuppliedInv'
<1>1. answer = None
  BY NotYet DEF Loaded
<1>2. step' \in {"ask", "raised"} /\ answer' = None /\ purpose' = "load"
  BY <1>1 DEF Loaded, Raises
<1>3. SuppliedSteps'
  BY <1>2 DEF SuppliedInv, SuppliedSteps, Loaded
<1>4. InHand'
  <2>1. CASE step' = "ask"
    <3>1. Loads(seen, wanted) /\ definition' = Definition(seen, wanted) /\ seen \in Contents
      BY <2>1 DEF Loaded, Captured, Raises, SuppliedInv, SuppliedSteps
    <3>2. definition'.candidate = seen
      BY <3>1 DEF Definition
    <3> QED BY <1>2, <3>1, <3>2 DEF InHand, LoadedFrom, Loaded
  <2> QED BY <1>2, <2>1 DEF InHand
<1>5. Cleared'
  BY <1>2 DEF Cleared
<1> QED BY <1>2, <1>3, <1>4, <1>5, Unanswered DEF SuppliedInv

(* The host hands over something that goes with the definition.            *)
LEMMA HostAsksKeeps ==
    ASSUME SuppliedInv, HostAsks
    PROVE  SuppliedInv'
<1>1. answer = None
  BY NotYet DEF HostAsks
<1>2. SuppliedSteps' /\ answer' = None
  BY <1>1 DEF SuppliedInv, SuppliedSteps, HostAsks
<1>3. InHand'
  BY DEF SuppliedInv, InHand, HostAsks, LoadedFrom
<1>4. Cleared'
  BY DEF HostAsks, Cleared
<1> QED BY <1>2, <1>3, <1>4, Unanswered DEF SuppliedInv

(* What was loaded again is what is in hand.                               *)
LEMMA Reloaded ==
    ASSUME SuppliedInv, purpose # "load", Reloads
    PROVE  seen = definition.candidate
  BY DEF Reloads, Definition

(* A request without documents is admitted of what was reloaded.           *)
LEMMA RevalidatedKeeps ==
    ASSUME SuppliedInv, Revalidated
    PROVE  SuppliedInv'
<1>1. answer = None /\ purpose = "revalidate" /\ step = "evals"
  BY NotYet DEF Revalidated
<1> DEFINE matches == ask.payload.documents = None /\ ask.payload.prompt = definition.case.prompt
<1>2. CASE Raises /\ UNCHANGED purpose
  <2>1. step' = "raised" /\ answer' = None /\ purpose' = purpose
    BY <1>1, <1>2 DEF Raises
  <2>2. SuppliedSteps' /\ InHand' /\ Cleared'
    BY <1>1, <2>1 DEF SuppliedInv, SuppliedSteps, InHand, Cleared, Revalidated, LoadedFrom
  <2> QED BY <2>1, <2>2, Unanswered DEF SuppliedInv
<1>3. CASE Reloads /\ step' = "validate" /\ purpose' = "context" /\ UNCHANGED answer
  <2>1. answer' = None
    BY <1>1, <1>3
  <2>2. SuppliedSteps' /\ InHand' /\ Cleared'
    BY <1>1, <1>3, <2>1 DEF SuppliedInv, SuppliedSteps, InHand, Cleared, Revalidated, LoadedFrom
  <2> QED BY <2>1, <2>2, Unanswered DEF SuppliedInv
<1>4. CASE Reloads /\ Admits(matches) /\ UNCHANGED purpose
  <2>1. seen = definition.candidate
    BY <1>1, <1>4, Reloaded
  <2>2. /\ AnswerEarned' /\ AnswerValid'
        /\ step' = "done" \/ (step' = "screen" /\ answer' = None /\ Requested)
    BY <1>1, <1>4, AdmitsOrBlocks
  <2>3. SuppliedSteps' /\ InHand'
    BY <1>1, <1>4, <2>2 DEF SuppliedInv, SuppliedSteps, InHand, Revalidated, LoadedFrom
  <2>4. Cleared'
    BY <1>1, <1>4, <2>1, <2>2 DEF Cleared, Requested, Revalidated
  <2> QED BY <2>2, <2>3, <2>4 DEF SuppliedInv
<1> QED BY <1>2, <1>3, <1>4 DEF Revalidated

(* For a context the definition is reloaded once more.                     *)
LEMMA ContextLoadedKeeps ==
    ASSUME SuppliedInv, ContextLoaded
    PROVE  SuppliedInv'
<1>1. answer = None /\ purpose = "context" /\ step = "evals"
  BY NotYet DEF ContextLoaded
<1>2. CASE Reloads /\ step' = "scan" /\ UNCHANGED answer
  <2>1. seen = definition.candidate /\ answer' = None
    BY <1>1, <1>2, Reloaded
  <2>2. SuppliedSteps' /\ InHand' /\ Cleared'
    BY <1>1, <1>2, <2>1 DEF SuppliedInv, SuppliedSteps, InHand, Cleared, ContextLoaded, LoadedFrom
  <2> QED BY <2>1, <2>2, Unanswered DEF SuppliedInv
<1>3. CASE Blocks("selected_case_request_mismatch")
  <2>1. "selected_case_request_mismatch" # None
    BY SuppliedAssumption DEF RefusalCodes
  <2>2. step' = "done" /\ AnswerEarned' /\ AnswerValid'
    BY <1>1, <1>3, <2>1, BlockedNow
  <2>3. SuppliedSteps' /\ InHand' /\ Cleared'
    BY <1>1, <2>2 DEF SuppliedInv, SuppliedSteps, InHand, Cleared, ContextLoaded, LoadedFrom
  <2> QED BY <2>2, <2>3 DEF SuppliedInv
<1> QED BY <1>2, <1>3 DEF ContextLoaded

(* A request with documents is admitted of what was scanned.               *)
LEMMA ContextScannedKeeps ==
    ASSUME SuppliedInv, ContextScanned
    PROVE  SuppliedInv'
<1>1. answer = None /\ step = "scan" /\ purpose # "load" /\ seen = definition.candidate
  BY NotYet DEF ContextScanned, SuppliedInv, Cleared
<1> DEFINE matches == /\ tree = definition.candidate
                      /\ SelectionSound(ask.payload.documents)
                      /\ ask.payload.prompt = definition.case.prompt
                      /\ ask.payload.candidate = definition.candidate
<1>2. Admits(matches)
  BY DEF ContextScanned
<1>3. /\ AnswerEarned' /\ AnswerValid'
      /\ step' = "done" \/ (step' = "screen" /\ answer' = None /\ Requested)
  BY <1>1, <1>2, AdmitsOrBlocks
<1>4. SuppliedSteps' /\ InHand'
  BY <1>1, <1>3 DEF SuppliedInv, SuppliedSteps, InHand, ContextScanned, LoadedFrom
<1>5. Cleared'
  BY <1>1, <1>3 DEF Cleared, Requested, ContextScanned
<1> QED BY <1>3, <1>4, <1>5 DEF SuppliedInv

(* What is cleared is the source that lies there, which is the one in hand. *)
LEMMA ScreenKeeps ==
    ASSUME SuppliedInv, Screen
    PROVE  SuppliedInv'
<1> DEFINE blocker == AssessPreExecutionSafety(ask.request, ask.safety, now, tree)
           refused == Supplied(ask.evidence)
<1>1. /\ answer = None /\ step = "screen" /\ purpose # "load" /\ seen = definition.candidate /\ Requested
      /\ ask \in Handed(definition) /\ now \in Nat
  BY NotYet DEF Screen, SuppliedInv, SuppliedSteps, InHand, Cleared
<1>2. screened' = [tree |-> tree, at |-> now]
      /\ \/ blocker # None /\ Blocks(blocker)
         \/ blocker = None /\ refused # <<>> /\ Blocks(Head(refused))
         \/ blocker = None /\ refused = <<>> /\ step' = "call" /\ UNCHANGED answer
  BY DEF Screen
<1>3. refused \in Seq(RefusalCodes)
  <2> DEFINE e == ask.evidence
             ax == When(~JudgeEvidenceValid(e), "invalid_judge_evidence")
             bx == When(~EvidenceNames(definition, ask.request, e), "selected_case_identity_mismatch")
             cx == When(~e.cited, "judge_result_ref_required")
             b  == ax \o bx
  <2>1. CASE ~ask.adapter \/ e = None
    <3>1. refused = <<"provider_adapter_required">>
      BY <2>1 DEF Supplied
    <3>2. <<"provider_adapter_required">> \in Seq(RefusalCodes)
      BY DEF RefusalCodes
    <3> QED BY <3>1, <3>2
  <2>2. CASE ~(~ask.adapter \/ e = None)
    <3>1. ax \in Seq(RefusalCodes) /\ bx \in Seq(RefusalCodes) /\ cx \in Seq(RefusalCodes)
      <4>1. /\ ax = <<"invalid_judge_evidence">> \/ ax = <<>>
            /\ bx = <<"selected_case_identity_mismatch">> \/ bx = <<>>
            /\ cx = <<"judge_result_ref_required">> \/ cx = <<>>
        BY Zenon DEF When
      <4> HIDE DEF ax, bx, cx
      <4>2. /\ <<"invalid_judge_evidence">> \in Seq(RefusalCodes) /\ <<"selected_case_identity_mismatch">> \in Seq(RefusalCodes)
            /\ <<"judge_result_ref_required">> \in Seq(RefusalCodes) /\ <<>> \in Seq(RefusalCodes)
        BY DEF RefusalCodes
      <4> QED BY <4>1, <4>2
    <3>2. refused = b \o cx
      BY <2>2 DEF Supplied
    <3> HIDE DEF ax, bx, cx
    <3>3. b \in Seq(RefusalCodes)
      BY <3>1, MoreRefusals
    <3> HIDE DEF b
    <3> QED BY <3>1, <3>2, <3>3, MoreRefusals
  <2> QED BY <2>1, <2>2
<1> HIDE DEF blocker, refused
<1>4. ASSUME NEW code, code # None, Blocks(code)
      PROVE  SuppliedInv'
  <2>1. step' = "done" /\ AnswerEarned' /\ AnswerValid'
    BY <1>1, <1>4, BlockedNow
  <2>2. SuppliedSteps' /\ InHand' /\ Cleared'
    BY <1>1, <2>1 DEF SuppliedInv, SuppliedSteps, InHand, Cleared, Screen, LoadedFrom
  <2> QED BY <2>1, <2>2 DEF SuppliedInv
<1>5. CASE blocker # None /\ Blocks(blocker)
  BY <1>4, <1>5
<1>6. CASE refused # <<>> /\ Blocks(Head(refused))
  <2>1. Head(refused) \in RefusalCodes
    BY <1>3, <1>6
  <2>2. Head(refused) # None
    BY <2>1, SuppliedAssumption
  <2> QED BY <1>4, <1>6, <2>2
<1>7. CASE blocker = None /\ refused = <<>> /\ step' = "call" /\ UNCHANGED answer
  <2>1. ask.safety # None => ask.safety.safety.observed \in Nat
    BY <1>1, DefinitionScorable DEF SuppliedInv, SuppliedSteps, InHand, AskShaped
  <2>2. Assures(ask.request, ask.safety, now, tree)
    BY <1>1, <1>7, <2>1, SafetyAssessed DEF blocker
  <2>3. tree = definition.candidate
    BY <1>1, <2>2 DEF Assures, Requested
  <2>4. SuppliedSteps' /\ InHand'
    BY <1>1, <1>7 DEF SuppliedInv, SuppliedSteps, InHand, Screen, LoadedFrom
  <2>5. /\ screened'.tree = tree /\ screened'.at = now /\ ask' = ask /\ definition' = definition /\ seen' = seen /\ purpose' = purpose
    BY <1>2 DEF Screen
  <2>6. Cleared'
    <3>1. Requested'
      BY <1>1, <2>5 DEF Requested
    <3>2. Assures(ask.request, ask.safety, screened.at, screened.tree)'
      BY <2>2, <2>5 DEF Assures
    <3> QED BY <1>1, <2>3, <2>5, <3>1, <3>2 DEF Cleared
  <2> QED BY <1>1, <1>7, <2>4, <2>6, Unanswered DEF SuppliedInv
<1> QED BY <1>2, <1>5, <1>6, <1>7

(* Evidence that is not refused is about the text and the assertions.      *)
LEMMA EvidenceRefused ==
    ASSUME NEW d, NEW request, NEW e, NEW text
    PROVE  /\ EvidenceRefusal(d, request, e, text) \in Seq(RefusalCodes)
           /\ EvidenceRefusal(d, request, e, text) = <<>> =>
                 e.output = text /\ ToSet(e.satisfied) \subseteq Signals(d.semantic)
<1> DEFINE ax == When(~EvidenceNames(d, request, e) \/ e.output # text, "selected_case_identity_mismatch")
           bx == When(~(ToSet(e.satisfied) \subseteq Signals(d.semantic)), "missing_semantic_evidence")
           cx == When(~e.cited, "judge_result_ref_required")
           b == ax \o bx
           c == b \o cx
<1>a. ax \in Seq(RefusalCodes) /\ (ax = <<>> => e.output = text)
  BY FirstRefusal DEF RefusalCodes
<1>b. bx \in Seq(RefusalCodes) /\ (bx = <<>> => ToSet(e.satisfied) \subseteq Signals(d.semantic))
  BY FirstRefusal DEF RefusalCodes
<1>c. cx \in Seq(RefusalCodes)
  <2>1. cx = <<"judge_result_ref_required">> \/ cx = <<>>
    BY Zenon DEF When
  <2>2. <<"judge_result_ref_required">> \in Seq(RefusalCodes) /\ <<>> \in Seq(RefusalCodes)
    BY DEF RefusalCodes
  <2> HIDE DEF cx
  <2> QED BY <2>1, <2>2
<1>0. EvidenceRefusal(d, request, e, text) = c
  BY DEF EvidenceRefusal
<1> HIDE DEF ax, bx, cx
<1>1. b \in Seq(RefusalCodes) /\ (b = <<>> <=> ax = <<>> /\ bx = <<>>)
  BY <1>a, <1>b, MoreRefusals
<1> HIDE DEF b
<1>2. c \in Seq(RefusalCodes) /\ (c = <<>> <=> b = <<>> /\ cx = <<>>)
  BY <1>1, <1>c, MoreRefusals
<1> HIDE DEF c
<1> QED BY <1>0, <1>1, <1>2, <1>a, <1>b

(* An observation that the evidence and the text together make: valid, and *)
(* of a text that shows what the case wants exactly if both found it.      *)
LEMMA ObservationValidated ==
    ASSUME NEW text \in Texts, wanted \in [case : Cases, mode : Modes],
           LoadedFrom(definition, definition.candidate), ask \in Handed(definition)
    PROVE  LET o == ValidatedObservation(definition, ask.request, ask.evidence, text)
               case == CaseOf(definition.candidate, wanted.case)
           IN  /\ ObservationValid(o) /\ o.provider # None /\ o.status \in {"completed", "blocked"}
               /\ o.status = "completed" =>
                     /\ ask.evidence.output = text
                     /\ Shown(definition.case, o)
                        <=> /\ ToSet(ask.evidence.satisfied) = Signals(Semantic(case))
                            /\ \A a \in ToSet(case.acceptance) :
                                  a.type \in DeterministicTypes => ((a.value \in text) = (a.type = "contains"))
                            /\ case.forbidden \cap text = {}
<1> DEFINE e == ask.evidence
           o == ValidatedObservation(definition, ask.request, e, text)
           case == CaseOf(definition.candidate, wanted.case)
           refusal == EvidenceRefusal(definition, ask.request, e, text)
<1>1. ask.request.provider # None
  BY DefinitionScorable DEF AskShaped
<1>2. None \notin RefusalCodes /\ text # None
  BY SuppliedAssumption
<1>3. CASE refusal # <<>>
  <2>1. FirstOf(refusal) # None
    BY <1>2, <1>3, EvidenceRefused, RefusalNamed
  <2>2. o = BlockedObservation(definition, ask.request, FirstOf(refusal), e.judge)
    BY <1>3 DEF ValidatedObservation
  <2>3. /\ o.provider = ask.request.provider /\ o.status = "blocked" /\ o.blocker # None /\ o.output = None
        /\ o.signals = {} /\ o.commands = {}
    <3>1. "private_provider_blocker_code" # None
      BY <1>2 DEF RefusalCodes
    <3> HIDE DEF refusal
    <3> QED BY <2>1, <2>2, <3>1 DEF BlockedObservation, Observation
  <2> HIDE DEF o
  <2>4. ObservationValid(o)
    BY <2>3 DEF ObservationValid
  <2>5. o.provider # None /\ o.status \in {"completed", "blocked"} /\ o.status # "completed"
    BY <1>1, <2>3
  <2> QED BY <2>4, <2>5 DEF o, e
<1>4. CASE refusal = <<>>
  <2>1. e.output = text /\ ToSet(e.satisfied) \subseteq Signals(definition.semantic)
    BY <1>4, EvidenceRefused
  <2>2. /\ o.provider = ask.request.provider /\ o.status = "completed" /\ o.blocker = None /\ o.output = text
        /\ o.signals = ToSet(e.satisfied) \cup DeterministicSignals(text, definition.deterministic)
        /\ o.commands = ObservedCommands(text, definition.case.forbidden)
    BY <1>4 DEF ValidatedObservation, Observation
  <2>3. /\ definition.semantic = Semantic(case) /\ definition.deterministic = Deterministic(case)
        /\ definition.case.signals = Signals(Semantic(case)) \cup Signals(Deterministic(case))
        /\ definition.case.forbidden = case.forbidden /\ definition.case.oracle = "expected_signal"
    BY DEF LoadedFrom, Definition
  <2> HIDE DEF o, case, e
  <2>4. ObservationValid(o) /\ o.provider # None
    BY <1>1, <1>2, <2>2 DEF ObservationValid
  <2>5. definition.case.signals \subseteq o.signals
        <=> /\ ToSet(e.satisfied) = Signals(Semantic(case))
            /\ \A a \in ToSet(case.acceptance) :
                  a.type \in DeterministicTypes => ((a.value \in text) = (a.type = "contains"))
    <3>1. ToSet(e.satisfied) \in SUBSET Signals(Semantic(case))
      BY <2>1, <2>3
    <3>2. Signals(Semantic(case)) \cup Signals(Deterministic(case))
             \subseteq ToSet(e.satisfied) \cup DeterministicSignals(text, Deterministic(case))
          <=> /\ ToSet(e.satisfied) = Signals(Semantic(case))
              /\ \A a \in ToSet(case.acceptance) :
                    a.type \in DeterministicTypes => ((a.value \in text) = (a.type = "contains"))
      BY <3>1, SignalsShown
    <3> QED BY <2>2, <2>3, <3>2
  <2>6. o.commands \cap definition.case.forbidden = {} <=> case.forbidden \cap text = {}
    BY <2>2, <2>3 DEF ObservedCommands
  <2>7. Shown(definition.case, o) <=> /\ definition.case.signals \subseteq o.signals
                                      /\ o.commands \cap definition.case.forbidden = {}
    BY <2>3 DEF Shown
  <2>8. Shown(definition.case, o)
        <=> /\ ToSet(e.satisfied) = Signals(Semantic(case))
            /\ \A a \in ToSet(case.acceptance) :
                  a.type \in DeterministicTypes => ((a.value \in text) = (a.type = "contains"))
            /\ case.forbidden \cap text = {}
    BY <2>5, <2>6, <2>7
  <2> QED BY <2>1, <2>2, <2>4, <2>8 DEF o, case, e
<1> QED BY <1>3, <1>4

(* An answer is scored of what was reloaded and cleared.                   *)
LEMMA CallAnswersKeeps ==
    ASSUME SuppliedInv, CallAnswers
    PROVE  SuppliedInv'
<1>1. /\ answer = None /\ step = "call" /\ purpose # "load" /\ seen = definition.candidate /\ Requested
      /\ LoadedFrom(definition, definition.candidate) /\ ask \in Handed(definition)
      /\ wanted \in [case : Cases, mode : Modes]
      /\ screened.tree = definition.candidate
      /\ Assures(ask.request, ask.safety, screened.at, screened.tree)
  BY NotYet DEF CallAnswers, SuppliedInv, SuppliedSteps, InHand, Cleared
<1>2. PICK text \in Texts, refs \in BOOLEAN :
         /\ output' = text
         /\ IF refs THEN Delivers(ValidatedObservation(definition, ask.request, ask.evidence, text))
            ELSE Blocks("private_provider_evidence_ref")
  BY DEF CallAnswers
<1>3. UNCHANGED <<purpose, wanted, tree, seen, definition, ask, screened, replacements, now>>
  BY DEF CallAnswers
<1>4. step' = "done" /\ AnswerEarned' /\ AnswerValid'
  <2>1. CASE ~refs
    <3>1. "private_provider_evidence_ref" # None
      BY SuppliedAssumption DEF RefusalCodes
    <3> QED BY <1>1, <1>2, <2>1, <3>1, BlockedNow
  <2>2. CASE refs
    <3> DEFINE o == ValidatedObservation(definition, ask.request, ask.evidence, text)
               c == definition.candidate
               case == CaseOf(c, wanted.case)
               safety == ask.safety.safety
    <3>1. step' = "done" /\ answer' = Score(o)
      BY <1>2, <2>2 DEF Delivers
    <3>2. /\ ObservationValid(o) /\ o.provider # None /\ o.status \in {"completed", "blocked"}
          /\ o.status = "completed" =>
                /\ ask.evidence.output = text
                /\ Shown(definition.case, o)
                   <=> /\ ToSet(ask.evidence.satisfied) = Signals(Semantic(case))
                       /\ \A a \in ToSet(case.acceptance) :
                             a.type \in DeterministicTypes => ((a.value \in text) = (a.type = "contains"))
                       /\ case.forbidden \cap text = {}
      BY <1>1, ObservationValidated
    <3> HIDE DEF o
    <3>3. /\ EvaluationReceiptV2Valid(Score(o)) /\ Score(o).candidate = c
          /\ Score(o).status # "blocked" => o.status = "completed" /\ (Score(o).status = "pass" <=> Shown(definition.case, o))
      BY <1>1, <3>2, OneScored
    <3>4. AnswerValid'
      <4>1. EvaluationReceiptV2Valid(answer')
        BY <3>1, <3>3
      <4> QED BY <4>1 DEF AnswerValid
    <3>5. /\ safety.candidate = c /\ safety.status = "reviewed_no_issue"
          /\ screened.at \in safety.observed..(safety.observed + MaxAge)
          /\ \A p \in DOMAIN Files(c) : \A i \in Files(c)[p].indicators :
                i.category = "external_service" =>
                    safety.evidence["capability-checklist"]["network_and_external_writes"].status = "reviewed_no_issue"
      BY <1>1 DEF Assures
    <3>6. ask.request.input.prompt = case.prompt
      BY <1>1 DEF Requested, LoadedFrom, Definition
    <3>7. ASSUME answer'.status # "blocked"
          PROVE  /\ ask.evidence.output = output'
                 /\ (answer'.status = "pass") =
                       /\ ToSet(ask.evidence.satisfied) = Signals(Semantic(case))
                       /\ \A a \in ToSet(case.acceptance) :
                             a.type \in DeterministicTypes => ((a.value \in output') = (a.type = "contains"))
                       /\ case.forbidden \cap output' = {}
      BY <1>2, <3>1, <3>2, <3>3, <3>7
    <3>8. /\ answer'.candidate = c /\ wanted' = wanted /\ ask' = ask /\ screened' = screened /\ seen' = c
      BY <1>1, <1>3, <3>1, <3>3
    <3>9. AnswerEarned'
      <4> HIDE DEF c
      <4> SUFFICES ASSUME answer' # None, answer'.status # "blocked"
                   PROVE  AnswerEarned'
        BY DEF AnswerEarned, Answered
      <4> QED BY <1>1, <3>5, <3>6, <3>7, <3>8 DEF AnswerEarned, c
    <3> QED BY <3>1, <3>4, <3>9
  <2> QED BY <2>1, <2>2
<1>5. SuppliedSteps' /\ InHand' /\ Cleared'
  BY <1>1, <1>3, <1>4 DEF SuppliedInv, SuppliedSteps, InHand, Cleared, LoadedFrom
<1> QED BY <1>4, <1>5 DEF SuppliedInv

(* A call that fails is blocked, or raises.                                *)
LEMMA CallFailsKeeps ==
    ASSUME SuppliedInv, CallFails
    PROVE  SuppliedInv'
<1>1. answer = None /\ step = "call" /\ purpose # "load"
  BY NotYet DEF CallFails, SuppliedInv, Cleared
<1>2. UNCHANGED <<purpose, wanted, tree, seen, definition, ask, screened, output, replacements, now>>
  BY DEF CallFails
<1>3. CASE \E code \in {"provider_failed", "invalid_provider_failure", "provider_output_too_large"} \cup Private : Blocks(code)
  <2>1. PICK code \in {"provider_failed", "invalid_provider_failure", "provider_output_too_large"} \cup Private : Blocks(code)
    BY <1>3
  <2>2. code # None \/ ~Public(code)
    BY SuppliedAssumption DEF RefusalCodes, Public
  <2>3. step' = "done" /\ AnswerEarned' /\ AnswerValid'
    BY <1>1, <2>1, <2>2, BlockedNow
  <2>4. SuppliedSteps' /\ InHand' /\ Cleared'
    BY <1>1, <1>2, <2>3 DEF SuppliedInv, SuppliedSteps, InHand, Cleared, LoadedFrom
  <2> QED BY <2>3, <2>4 DEF SuppliedInv
<1>4. CASE Raises
  <2>1. step' = "raised" /\ answer' = None
    BY <1>1, <1>4 DEF Raises
  <2>2. SuppliedSteps' /\ InHand' /\ Cleared'
    BY <1>1, <1>2, <2>1 DEF SuppliedInv, SuppliedSteps, InHand, Cleared, LoadedFrom
  <2> QED BY <2>1, <2>2, Unanswered DEF SuppliedInv
<1> QED BY <1>3, <1>4 DEF CallFails

(* Another process changes nothing that was read.                          *)
LEMMA ReplaceKeeps ==
    ASSUME SuppliedInv, Replace
    PROVE  SuppliedInv'
<1>1. answer = None /\ answer' = None
  BY NotYet DEF Replace, Over
<1>2. SuppliedSteps' /\ InHand' /\ Cleared'
  BY <1>1 DEF SuppliedInv, SuppliedSteps, InHand, Cleared, LoadedFrom, Requested, Assures, Replace
<1> QED BY <1>1, <1>2, Unanswered DEF SuppliedInv

(* Time changes nothing that was read.                                     *)
LEMMA TicksKeeps ==
    ASSUME SuppliedInv, Ticks
    PROVE  SuppliedInv'
<1>1. answer = None /\ answer' = None
  BY NotYet DEF Ticks, Over
<1>2. SuppliedSteps' /\ InHand' /\ Cleared'
  BY <1>1 DEF SuppliedInv, SuppliedSteps, InHand, Cleared, LoadedFrom, Requested, Assures, Ticks
<1> QED BY <1>1, <1>2, Unanswered DEF SuppliedInv

(* The steps of the other machines leave this one alone.                   *)
LEMMA SuppliedRests ==
    ASSUME SuppliedInv, UNCHANGED suppliedVars
    PROVE  SuppliedInv'
<1>1. SuppliedSteps' /\ InHand' /\ Cleared'
  BY DEF SuppliedInv, SuppliedSteps, InHand, Cleared, LoadedFrom, Requested, Assures, suppliedVars
<1>2. AnswerEarned' /\ AnswerValid'
  BY DEF SuppliedInv, AnswerEarned, AnswerValid, Answered, suppliedVars
<1> QED BY <1>1, <1>2 DEF SuppliedInv

(* Every step keeps SuppliedInv.                                           *)
LEMMA SuppliedKeeps ==
    ASSUME SuppliedInv, SuppliedNext
    PROVE  SuppliedInv'
  BY ValidateKeeps, LoadedKeeps, HostAsksKeeps, RevalidatedKeeps, ContextLoadedKeeps, ContextScannedKeeps, ScreenKeeps,
     CallAnswersKeeps, CallFailsKeeps, ReplaceKeeps, TicksKeeps, SuppliedRests DEF SuppliedNext, Executes, Settled

-----------------------------------------------------------------------------
(* The scoring of observations that were handed over.                      *)
GivenInv ==
    /\ machine = "scorer" => submission.given \in Submissions
    /\ SubmissionScored

(* What is submitted is scored as it earned.                               *)
LEMMA SubmitKeeps ==
    ASSUME machine = "scorer", GivenInv, Submit, machine' = machine
    PROVE  GivenInv'
<1> DEFINE s == submission.given
           v1 == EvaluateScenarioSet(s.set, s.observations, s.scorer, s.probes)
           v2 == EvaluateScenarioSetV2(s.set, s.observations, s.scorer, s.probes)
<1>1. s \in Submissions /\ submission' = [given |-> s, scored |-> TRUE, v1 |-> v1, v2 |-> v2]
  BY DEF GivenInv, Submit
<1>2. Acceptable(s.set, s.observations, s.scorer)
  BY <1>1, SubmissionAssumption
<1>3. /\ EvaluationReceiptValid(v1) /\ EvaluationReceiptV2Valid(v2)
      /\ ScoreEarnedBy(v1, s.set, s.observations, s.scorer, s.probes)
      /\ ScoreEarnedBy(v2, s.set, s.observations, s.scorer, s.probes)
      /\ VersionsAgree(v1, v2, s.set, s.observations)
  BY <1>2, ReceiptsWell
<1> HIDE DEF v1, v2, s
<1>4. submission'.given = s /\ submission'.v1 = v1 /\ submission'.v2 = v2
  BY <1>1
<1>5. SubmissionScored'
  BY <1>3, <1>4 DEF SubmissionScored
<1> QED BY <1>1, <1>4, <1>5 DEF GivenInv

(* Whatever case, package, evidence and provider: a score is of the        *)
(* content that was screened, reviewed and loaded, passes exactly if the   *)
(* output shows what the case wants, and its receipt passes validation.    *)
THEOREM SuppliedIsEarned == MCSpec => []SuppliedEarned
<1>1. MCInit => SuppliedInv /\ GivenInv
  <2> SUFFICES ASSUME MCInit PROVE SuppliedInv /\ GivenInv
    OBVIOUS
  <2>1. SuppliedInv
    BY SuppliedStarts DEF MCInit
  <2>2. ~submission.scored /\ (machine = "scorer" => submission.given \in Submissions)
    BY DEF MCInit
  <2> QED BY <2>1, <2>2 DEF GivenInv, SubmissionScored
<1>2. SuppliedInv /\ GivenInv /\ [MCNext]_allVars => SuppliedInv' /\ GivenInv'
  <2> SUFFICES ASSUME SuppliedInv, GivenInv, [MCNext]_allVars
               PROVE  SuppliedInv' /\ GivenInv'
    OBVIOUS
  <2>1. CASE UNCHANGED <<machine, submission>> /\ (SuppliedNext \/ UNCHANGED suppliedVars)
    <3>1. SuppliedInv'
      BY <2>1, SuppliedKeeps, SuppliedRests
    <3>2. GivenInv'
      BY <2>1 DEF GivenInv, SubmissionScored
    <3> QED BY <3>1, <3>2
  <2>2. CASE machine = "scorer" /\ Submit /\ UNCHANGED <<machine, suppliedVars>>
    BY <2>2, SubmitKeeps, SuppliedRests
  <2>3. OfScorer(submission.scored /\ UNCHANGED submission) => UNCHANGED <<machine, submission, suppliedVars>>
    BY DEF OfScorer
  <2> QED BY <2>1, <2>2, <2>3 DEF MCNext, OfCase, OfLane, OfSupplied, OfScorer, allVars
<1>3. SuppliedInv /\ GivenInv => SuppliedEarned
  BY DEF SuppliedInv, GivenInv, SuppliedEarned
<1> QED BY <1>1, <1>2, <1>3, PTL DEF MCSpec
=============================================================================
