---------------------------- MODULE SelectedCase ----------------------------
(***************************************************************************)
(* One live evaluation of a selected case:                                 *)
(* evaluation.live_selected_case._execute_selected_case_with_judge.  The   *)
(* provider is called once, its output is judged once, the judge is torn   *)
(* down, and only then is the case scored.                                 *)
(*                                                                         *)
(* The provider call is the one of BoundedCall.  The judge's two hooks run *)
(* as tasks of their own under _bounded_judge_wait: at a deadline, or when *)
(* the caller cancels, the hook is cancelled and not awaited, so that it   *)
(* may answer later or run on.  An action is what a task does between two  *)
(* suspension points.                                                      *)
(***************************************************************************)
EXTENDS BoundedCall

CONSTANT MaxCancels      \* bound: cancellations by the caller

VARIABLES
    pc,          \* suspension point of the evaluation
    raising,     \* a CancelledError waits for the finally clause
    failure,     \* what _judge_once has to report
    result,      \* how the evaluation ended
    cancelReq,   \* a cancellation not yet delivered
    cancels,     \* history: cancellations of the evaluation
    callReq,     \* the request as the provider call holds it
    judgeReq,    \* the request as the judge holds it
    judge,       \* the judge hook's task
    verdict,     \* how the hook ended
    judgeStop,   \* it has been cancelled
    judgeTimer,  \* its deadline has passed
    tidy,        \* the task of the judge's cleanup hook
    tidied,      \* how that hook ended
    tidyStop,    \* it has been cancelled
    tidyTimer    \* its deadline has passed

flow     == <<pc, raising, failure, result>>
caller   == <<cancelReq, cancels>>
requests == <<callReq, judgeReq>>
judging  == <<judge, verdict, judgeStop, judgeTimer>>
tidying  == <<tidy, tidied, tidyStop, tidyTimer>>
caseVars == <<callVars, flow, caller, requests, judging, tidying>>

Requests == {"asked", "mutated"}
Tasks    == {"none", "scheduled", "active", "dropped", "done"}

(* What a hook may do in the end: return what it should or something else, *)
(* or raise.  A host's own TimeoutError and CancelledError are told apart. *)
Answers == {"answer", "junk", "error", "timeout", "cancelled"}
Results == {"scored", "blocked", "contract", "cancelled"}
Failures == {"judge_timeout", "judge_execution_failed", "judge_cleanup_timeout", "judge_cleanup_failed"}

ASSUME CaseAssumption ==
    /\ MaxCancels \in Nat
    /\ Absent \notin Answers \cup Results \cup Failures

Return(r) ==
    /\ pc' = "done"
    /\ result' = r

-----------------------------------------------------------------------------
(* Admission.  Definition and request are validated again, the request     *)
(* must bind the case, be prepared and safe, both adapters must be there.  *)

Refuse ==
    /\ pc = "admit" /\ ~cancelReq
    /\ \E r \in {"contract", "blocked"} : Return(r)
    /\ UNCHANGED <<callVars, raising, failure, caller, requests, judging, tidying>>

AdmitCancelled ==
    /\ pc = "admit" /\ cancelReq
    /\ cancelReq' = FALSE
    /\ Return("cancelled")
    /\ UNCHANGED <<callVars, raising, failure, cancels, requests, judging, tidying>>

Admit ==
    /\ pc = "admit" /\ ~cancelReq
    /\ Begins
    /\ pc' = "call"
    /\ UNCHANGED <<raising, failure, result, caller, requests, judging, tidying>>

-----------------------------------------------------------------------------
(* The provider call. *)

CallWorks ==
    /\ pc = "call"
    /\ Works
    /\ UNCHANGED <<flow, caller, requests, judging, tidying>>

(* The call's own copy of the request reaches the adapter. *)
AdapterMutates ==
    /\ busy /\ callReq = "asked"
    /\ callReq' = "mutated"
    /\ UNCHANGED <<callVars, flow, caller, judgeReq, judging, tidying>>

CallCancelled ==
    /\ pc = "call" /\ cancelReq
    /\ cancelReq' = FALSE
    /\ IsCancelled
    /\ UNCHANGED <<flow, cancels, requests, judging, tidying>>

(* The result binds the request that was asked, the adapter is let go, and *)
(* there is output.                                                        *)
Usable(e) == Released(e) /\ callReq = "asked"

(* A ContractError becomes a blocked receipt, CancelledError passes, and   *)
(* every other result is blocked unless it is usable and its evidence      *)
(* references are public.                                                  *)
CallReturns ==
    /\ pc = "call" /\ ~cancelReq
    /\ \E h \in Hows, c \in BOOLEAN :
          LET e == [how |-> h, cleanup |-> c] IN
          /\ EndsAs(e)
          /\ \/ Usable(e) /\ pc' = "judge" /\ judge' = "scheduled" /\ UNCHANGED result
             \/ h # "cancelled" /\ Return("blocked") /\ UNCHANGED judge
             \/ h = "cancelled" /\ Return("cancelled") /\ UNCHANGED judge
    /\ UNCHANGED <<raising, failure, caller, requests, verdict, judgeStop, judgeTimer, tidying>>

CallLetsGo ==
    /\ LetsGo
    /\ UNCHANGED <<flow, caller, requests, judging, tidying>>

-----------------------------------------------------------------------------
(* The judge's hooks, as tasks.  A task that is cancelled before its first *)
(* step may never run.                                                     *)

JudgeStarts ==
    /\ judge = "scheduled"
    /\ judge' = "active"
    /\ UNCHANGED <<callVars, flow, caller, requests, verdict, judgeStop, judgeTimer, tidying>>

JudgeDropped ==
    /\ judge = "scheduled" /\ judgeStop
    /\ judge' = "dropped"
    /\ UNCHANGED <<callVars, flow, caller, requests, verdict, judgeStop, judgeTimer, tidying>>

JudgeAnswers ==
    /\ judge = "active"
    /\ judge' = "done"
    /\ verdict' \in Answers
    /\ UNCHANGED <<callVars, flow, caller, requests, judgeStop, judgeTimer, tidying>>

(* A fresh copy of the request is the judge's. *)
JudgeMutates ==
    /\ judge = "active" /\ judgeReq = "asked"
    /\ judgeReq' = "mutated"
    /\ UNCHANGED <<callVars, flow, caller, callReq, judging, tidying>>

TidyStarts ==
    /\ tidy = "scheduled"
    /\ tidy' = "active"
    /\ UNCHANGED <<callVars, flow, caller, requests, judging, tidied, tidyStop, tidyTimer>>

TidyDropped ==
    /\ tidy = "scheduled" /\ tidyStop
    /\ tidy' = "dropped"
    /\ UNCHANGED <<callVars, flow, caller, requests, judging, tidied, tidyStop, tidyTimer>>

TidyAnswers ==
    /\ tidy = "active"
    /\ tidy' = "done"
    /\ tidied' \in Answers
    /\ UNCHANGED <<callVars, flow, caller, requests, judging, tidyStop, tidyTimer>>

-----------------------------------------------------------------------------
(* _judge_once: wait for the judge, then in any case for its cleanup. *)

Tidy(f, r) ==
    /\ pc' = "tidy"
    /\ tidy' = "scheduled"
    /\ failure' = f
    /\ raising' = r
    /\ UNCHANGED <<result, tidied, tidyStop, tidyTimer>>

JudgeFailure ==
    CASE verdict = "timeout" -> "judge_timeout"
      [] verdict \in {"error", "cancelled"} -> "judge_execution_failed"
      [] OTHER -> Absent

(* The hook's own CancelledError is a failure, not a cancellation. *)
JudgeReturns ==
    /\ pc = "judge" /\ ~cancelReq
    /\ judge = "done"
    /\ Tidy(JudgeFailure, FALSE)
    /\ UNCHANGED <<callVars, caller, requests, judging>>

(* Defect: what the hook returns after its cancellation counts. *)
JudgeExpiresOpen ==
    /\ pc = "judge" /\ ~cancelReq
    /\ judgeTimer
    /\ judgeStop' = TRUE
    /\ Tidy(Absent, FALSE)
    /\ UNCHANGED <<callVars, caller, requests, judge, verdict, judgeTimer>>

(* Defect: the cancelled hook is awaited. *)
JudgeExpiresDrained ==
    /\ pc = "judge" /\ ~cancelReq
    /\ judgeTimer /\ judge = "done"
    /\ judgeStop' = TRUE
    /\ Tidy("judge_timeout", FALSE)
    /\ UNCHANGED <<callVars, caller, requests, judge, verdict, judgeTimer>>

(* The deadline, also when an answer is on its way. *)
JudgeExpires ==
    /\ pc = "judge" /\ ~cancelReq
    /\ judgeTimer
    /\ judgeStop' = TRUE
    /\ Tidy("judge_timeout", FALSE)
    /\ UNCHANGED <<callVars, caller, requests, judge, verdict, judgeTimer>>

(* Defect: the cancellation leaves without the finally clause. *)
JudgeAbandoned ==
    /\ pc = "judge" /\ cancelReq
    /\ cancelReq' = FALSE
    /\ judgeStop' = TRUE
    /\ Return("cancelled")
    /\ UNCHANGED <<callVars, raising, failure, cancels, requests, judge, verdict,
                   judgeTimer, tidying>>

JudgeCancelled ==
    /\ pc = "judge" /\ cancelReq
    /\ cancelReq' = FALSE
    /\ judgeStop' = TRUE
    /\ Tidy(Absent, TRUE)
    /\ UNCHANGED <<callVars, cancels, requests, judge, verdict, judgeTimer>>

(* After the cleanup: the CancelledError goes on, or the copies of the     *)
(* request are compared and the evidence converted.                        *)
AfterTidy(f) ==
    /\ failure' = f
    /\ UNCHANGED raising
    /\ IF raising THEN Return("cancelled")
       ELSE IF "mutated" \in {callReq, judgeReq} \/ f # Absent THEN Return("blocked")
       ELSE pc' = "convert" /\ UNCHANGED result

(* The first failure is kept. *)
TidyFailure ==
    IF failure # Absent THEN failure
    ELSE CASE tidied = "answer" -> Absent
           [] tidied = "timeout" -> "judge_cleanup_timeout"
           [] OTHER -> "judge_cleanup_failed"

TidyReturns ==
    /\ pc = "tidy" /\ ~cancelReq
    /\ tidy = "done"
    /\ AfterTidy(TidyFailure)
    /\ UNCHANGED <<callVars, caller, requests, judging, tidying>>

(* Defect: a cancelled evaluation goes on when its cleanup times out. *)
TidyExpiresOpen ==
    /\ pc = "tidy" /\ ~cancelReq
    /\ tidyTimer
    /\ tidyStop' = TRUE
    /\ failure' = "judge_cleanup_timeout"
    /\ UNCHANGED raising
    /\ Return("blocked")
    /\ UNCHANGED <<callVars, caller, requests, judging, tidy, tidied, tidyTimer>>

TidyExpires ==
    /\ pc = "tidy" /\ ~cancelReq
    /\ tidyTimer
    /\ tidyStop' = TRUE
    /\ AfterTidy(IF failure = Absent THEN "judge_cleanup_timeout" ELSE failure)
    /\ UNCHANGED <<callVars, caller, requests, judging, tidy, tidied, tidyTimer>>

TidyCancelled ==
    /\ pc = "tidy" /\ cancelReq
    /\ cancelReq' = FALSE
    /\ tidyStop' = TRUE
    /\ Return("cancelled")
    /\ UNCHANGED <<callVars, raising, failure, cancels, requests, judging, tidy, tidied, tidyTimer>>

(* The evidence is validated, must name the bound judge and the actual     *)
(* output, and only then decides the score.                                *)
Convert ==
    /\ pc = "convert" /\ ~cancelReq
    /\ \/ verdict = "answer" /\ Return("scored")
       \/ Return("blocked")
    /\ UNCHANGED <<callVars, raising, failure, caller, requests, judging, tidying>>

ConvertCancelled ==
    /\ pc = "convert" /\ cancelReq
    /\ cancelReq' = FALSE
    /\ Return("cancelled")
    /\ UNCHANGED <<callVars, raising, failure, cancels, requests, judging, tidying>>

-----------------------------------------------------------------------------
(* Deadlines, counted from the first step of the wait; and the caller. *)

JudgeTimer ==
    /\ pc = "judge" /\ judge # "scheduled" /\ ~judgeTimer
    /\ judgeTimer' = TRUE
    /\ UNCHANGED <<callVars, flow, caller, requests, judge, verdict, judgeStop, tidying>>

TidyTimer ==
    /\ pc = "tidy" /\ tidy # "scheduled" /\ ~tidyTimer
    /\ tidyTimer' = TRUE
    /\ UNCHANGED <<callVars, flow, caller, requests, judging, tidy, tidied, tidyStop>>

CallerCancels ==
    /\ pc # "done" /\ ~cancelReq
    /\ cancels < MaxCancels
    /\ cancelReq' = TRUE
    /\ cancels' = cancels + 1
    /\ UNCHANGED <<callVars, flow, requests, judging, tidying>>

(* The evaluation is over and nothing that it started is left running. *)
Idle == ~busy /\ {judge, tidy} \cap {"scheduled", "active"} = {}

Quiet ==
    /\ pc = "done" /\ Idle
    /\ UNCHANGED caseVars

-----------------------------------------------------------------------------
FreshHooks ==
    /\ pc = "admit" /\ raising = FALSE /\ failure = Absent /\ result = Absent
    /\ callReq = "asked" /\ judgeReq = "asked"
    /\ judge = "none" /\ verdict = Absent /\ judgeStop = FALSE /\ judgeTimer = FALSE
    /\ tidy = "none" /\ tidied = Absent /\ tidyStop = FALSE /\ tidyTimer = FALSE

CaseInit ==
    /\ CallInit /\ call = "idle"
    /\ FreshHooks
    /\ cancelReq = FALSE /\ cancels = 0

Evaluation ==
    \/ Refuse \/ Admit \/ AdmitCancelled
    \/ CallCancelled
    \/ JudgeReturns \/ JudgeExpires \/ JudgeCancelled
    \/ TidyReturns \/ TidyExpires \/ TidyCancelled
    \/ Convert \/ ConvertCancelled

Loop   == JudgeStarts \/ JudgeDropped \/ TidyStarts \/ TidyDropped
Timers == JudgeTimer \/ TidyTimer
Host   == CallWorks \/ AdapterMutates \/ CallLetsGo \/ JudgeAnswers \/ JudgeMutates \/ TidyAnswers

CaseNext == Evaluation \/ CallReturns \/ Loop \/ Timers \/ Host \/ CallerCancels \/ Quiet

(* The event loop resumes what can go on, timers fire, and the provider    *)
(* call returns (ProviderCall: ReceiptBounded).  The host's hooks need not. *)
CaseSpec ==
    /\ CaseInit /\ [][CaseNext]_caseVars
    /\ WF_caseVars(Evaluation) /\ WF_caseVars(Loop)
    /\ WF_caseVars(JudgeTimer) /\ WF_caseVars(TidyTimer)
    /\ WF_caseVars(CallReturns)

-----------------------------------------------------------------------------
(* A score is earned: it rests on output of an adapter that was let go, on *)
(* an answer the judge gave in time, on a cleanup that returned None, and    *)
(* on the request that was asked; and nothing is left running.             *)
ScoreEarned ==
    result = "scored" =>
        /\ Usable(ending) /\ Released(ending)
        /\ judge = "done" /\ verdict = "answer" /\ ~judgeStop
        /\ tidy = "done" /\ tidied = "answer" /\ ~tidyStop
        /\ judgeReq = "asked"
        /\ Idle

(* The judge is asked once the provider is let go, which it stays; and it  *)
(* is owed a cleanup: whoever asked the judge calls its cleanup too,       *)
(* however the judgment ended; only a cancellation that meets the cleanup  *)
(* itself may prevent it.                                                  *)
JudgeHandled ==
    /\ judge # "none" => ~busy
    /\ (pc = "done" /\ judge \in {"active", "done"} /\ ~tidyStop) =>
           tidy \in {"active", "done"}

(* "Each invoked adapter receives the existing bounded single-call         *)
(* cleanup": the judge, too, whenever its caller cancels.                  *)
InvokedIsCleaned ==
    (pc = "done" /\ judge \in {"active", "done"}) => tidy \in {"active", "done"}

(* Cancellation is neither lost nor invented.  An evaluation that was      *)
(* cancelled ends with CancelledError, but for a ContractError of the      *)
(* provider call; and one that was not, never does on the judge's account. *)
CancellationFaithful ==
    pc = "done" =>
        /\ cancels > 0 => result = "cancelled" \/ (cancelled /\ ending.how = "contract")
        /\ result = "cancelled" => cancels > 0 \/ ending.how = "cancelled"

(* The receipt is bounded, whatever the judge and its cleanup do. *)
EvaluationEnds == <>(pc = "done")
=============================================================================
