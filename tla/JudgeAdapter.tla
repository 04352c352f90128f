---------------------------- MODULE JudgeAdapter ----------------------------
(***************************************************************************)
(* CodexJudgeAdapter around one native process: the assessment is the task *)
(* that JudgeSupervisor describes, and the host calls the cleanup hook of  *)
(* the adapter at any moment, also while the assessment is cancelled,      *)
(* times out or tears its process down.                                    *)
(***************************************************************************)
EXTENDS JudgeSupervisor

VARIABLE cleanup         \* the cleanup hook: none, waiting, ok or failed

adapterVars == <<vars, cleanup>>

AdapterInit == Init /\ cleanup = "none"

(* _cleanup_error: what the assessment recorded of its teardown, from the  *)
(* details of a ContractError or the note of a CancelledError.             *)
CleanupError == failure # None

(* cleanup() after its wait: an assessment that failed, or that recorded a *)
(* teardown failure, is reported.                                          *)
Judged == IF CleanupError \/ result \notin {"ok", "cancelled"} THEN "failed" ELSE "ok"

(* Defect: the assessment is cancelled also when it already was. *)
CleanupCancelsAgain ==
    /\ cleanup = "none"
    /\ pc \notin {"done", "dead"}
    /\ cleanup' = "waiting"
    /\ cancelReq' = TRUE
    /\ cancels' = IF cancels = 0 THEN 1 ELSE cancels
    /\ UNCHANGED <<parent, pipes, sup, threads, procs>>

(* cleanup() up to its wait: cancel the assessment unless it is being      *)
(* cancelled.                                                              *)
CleanupCancels ==
    /\ cleanup = "none"
    /\ pc \notin {"done", "dead"}
    /\ cleanup' = "waiting"
    /\ IF cancels = 0
       THEN cancelReq' = TRUE /\ cancels' = 1
       ELSE UNCHANGED caller
    /\ UNCHANGED <<parent, pipes, sup, threads, procs>>

(* cleanup() of an adapter whose assessment is over. *)
CleanupIdle ==
    /\ cleanup = "none"
    /\ pc = "done"
    /\ cleanup' = IF CleanupError THEN "failed" ELSE "ok"
    /\ UNCHANGED vars

CleanupReturns ==
    /\ cleanup = "waiting"
    /\ pc = "done"
    /\ cleanup' = Judged
    /\ UNCHANGED vars

(* The six seconds are over. *)
CleanupExpires ==
    /\ cleanup = "waiting"
    /\ pc # "done"
    /\ cleanup' = "failed"
    /\ UNCHANGED vars

(* task.cancelling() also counts the cancellation by which a deadline of   *)
(* the assessment is being delivered: the hook then leaves it alone.       *)
CleanupPasses ==
    /\ cleanup = "none"
    /\ cleanup' = "waiting"
    /\ ExchangeExpires \/ DrainExpires \/ (LaunchFails /\ result' = "timeout")

CleanupStep == CleanupCancels \/ CleanupPasses \/ CleanupIdle \/ CleanupReturns \/ CleanupExpires

AdapterNext == (Next /\ UNCHANGED cleanup) \/ CleanupStep

AdapterSpec == AdapterInit /\ [][AdapterNext]_adapterVars

(* The scheduling the judge process alone is given; the hook is owed none. *)
AdapterFairSpec ==
    AdapterSpec /\ WF_vars(Parent) /\ WF_vars(Main) /\ WF_vars(Reader)

-----------------------------------------------------------------------------
(* "Cancelling the cleanup waiter does not cancel resource teardown        *)
(* again": once a cancellation, the caller's or the hook's, has ended the  *)
(* exchange, a cleanup that succeeds has let the teardown run to its end,  *)
(* and found the supervisor's return code as it should be.  A caller that  *)
(* cancels twice cuts the wait itself.                                     *)
TeardownNotCut ==
    (cleanup = "ok" /\ primary = "cancelled" /\ cancels = 1) =>
        (group = {} /\ sup = "killed") \/ Undercut

(* "it does not report success while that work remains active": nothing    *)
(* of an owned process group is alive when the cleanup hook has succeeded. *)
CleanupMeansStopped ==
    (cleanup = "ok" /\ primary # None) => group = {} /\ ~Alive
=============================================================================
