---------------------------- MODULE ProviderCall ----------------------------
(***************************************************************************)
(* One bounded call of an injected text-provider adapter:                  *)
(* skills_sdk.providers.call.execute_provider_call with the scheduler of   *)
(* AsyncioProviderCallClock.                                               *)
(*                                                                         *)
(* Four asyncio tasks share one event loop: the call itself (pc), the      *)
(* operation that runs the adapter under the overall deadline (op), the    *)
(* stream pull under the idle deadline (pull), and the shielded teardown   *)
(* (cl).  An action is what a task does between two suspension points, a   *)
(* timer that fires, the adapter finishing something it was asked to do,   *)
(* or the caller cancelling the call.  The adapter may take for ever, and  *)
(* may go on working after it has been cancelled.                          *)
(***************************************************************************)
EXTENDS Naturals, Sequences, Functions

CONSTANTS
    Modes,            \* the modes of the adapters: "complete", "stream"
    MaxEvents,        \* limits.events
    MaxBuffer,        \* limits.buffered_events
    MaxChunk,         \* limits.chunk_bytes
    MaxOutput,        \* limits.output_bytes
    Items,            \* what a pull may deliver
    HookSwallows,     \* the modes whose hook may return after a cancellation
    CleanupEnds,      \* how the adapter's cleanup may end
    MaxCancels,       \* bound: cancellations by the caller
    None

(* A chunk of some size, a terminal, or something unsupported: one of      *)
(* them, or a batch of any length.                                         *)
Event == [kind : {"chunk", "terminal", "junk"}, bytes : Nat]
Item  == {i \in [batch : BOOLEAN, events : Seq(Event)] : ~i.batch => Len(i.events) = 1}

(* ProviderCallLimits.__post_init__ *)
Limits ==
    /\ MaxEvents \in Nat \ {0}
    /\ MaxBuffer \in Nat
    /\ MaxChunk \in Nat \ {0}
    /\ MaxOutput \in Nat \ {0}

ASSUME LimitAssumption ==
    /\ Limits
    /\ Modes \subseteq {"complete", "stream"}
    /\ Items \subseteq Item
    /\ HookSwallows \subseteq Modes
    /\ CleanupEnds \subseteq {"ok", "error", "cancelled", "contract"}
    /\ MaxCancels \in Nat

(* How the run ends: the four terminal statuses, and the exceptions that   *)
(* leave execute_provider_call.                                            *)
Statuses   == {"completed", "failed", "blocked", "indeterminate"}
Exceptions == {"contract", "cancelled"}
Verdicts   == Statuses \cup Exceptions

(* What a pull may raise instead of delivering an item. *)
Raised == [raises : Verdicts \ {"completed"}]

ASSUME NoneAssumption == None \notin Verdicts \cup {"ok", "error"}

VARIABLES
    pc,          \* suspension point of execute_provider_call
    verdict,     \* terminal or exception of the run
    outcome,     \* how the call ended, and its cleanup_succeeded
    cancelReq,   \* a cancellation not yet delivered to the call
    cancels,     \* history: cancellations of a call that was running
    mode,        \* descriptor.mode of the bound adapter
    op,          \* the operation task
    opCancel,    \* its cancellation
    opTimer,     \* the overall deadline has passed
    runner,      \* suspension point of _run_complete or _run_stream
    ending,      \* how the runner ended
    pull,        \* the pull task
    pullTimer,   \* the idle deadline of this pull has passed
    item,        \* what the pull delivered or raised
    stream,      \* _StreamState: events, total_bytes, max_buffered_events
    cl,          \* the teardown task
    clPending,   \* the tasks it waits for
    clHook,      \* the adapter's cleanup
    clTimer,     \* its deadline has passed
    clResult,    \* how the teardown task ended
    waitTimer    \* the receipt's wait for the teardown has expired

call     == <<pc, verdict, outcome, cancelReq, cancels, waitTimer>>
work     == <<mode, op, opCancel, opTimer, runner, ending, pull, pullTimer, item, stream>>
teardown == <<cl, clPending, clHook, clTimer, clResult>>
vars     == <<call, work, teardown>>

TaskStates == {"none", "active", "done"}

-----------------------------------------------------------------------------
(* Consumption of what one pull delivered: pure checks, in the order of    *)
(* _run_stream, _consume_events and _consume_chunk.                        *)

BytesUpTo(ev, n) ==
    SumFunctionOnSet([i \in DOMAIN ev |-> ev[i].bytes], 1..n)

(* An empty or oversized batch, or any batch when buffering is off. *)
BatchRefused(it) ==
    it.batch /\ (it.events = <<>> \/ Len(it.events) > MaxBuffer)

EventAccepted(s, ev, i) ==
    /\ s.events + i <= MaxEvents
    /\ ev[i].kind # "junk"
    /\ ev[i].kind = "terminal" => i = Len(ev)
    /\ ev[i].bytes <= MaxChunk
    /\ s.total + BytesUpTo(ev, i) <= MaxOutput

ItemRefused(s, it) ==
    BatchRefused(it) \/ \E i \in 1..Len(it.events) : ~EventAccepted(s, it.events, i)

Terminates(it) ==
    \E i \in 1..Len(it.events) : it.events[i].kind = "terminal"

Consumed(s, it) ==
    [events   |-> s.events + Len(it.events),
     total    |-> s.total + BytesUpTo(it.events, Len(it.events)),
     buffered |-> IF it.batch /\ Len(it.events) > s.buffered
                  THEN Len(it.events) ELSE s.buffered]

-----------------------------------------------------------------------------
(* The operation task and the adapter hooks it runs. *)

EndRunner(v) ==
    /\ runner' = "ended"
    /\ ending' = v
    /\ op' = "done"

(* The next turn of the loop of _run_stream: pull, or stop at the limit. *)
NextPull ==
    IF stream'.events < MaxEvents
    THEN /\ runner' = "pull"
         /\ pull' = "active"
         /\ pullTimer' = FALSE
         /\ UNCHANGED <<op, ending>>
    ELSE /\ EndRunner("contract")
         /\ UNCHANGED <<pull, pullTimer>>

(* The selected hook returns.  A complete text is validated; a stream must *)
(* be an async iterator.  After a cancellation only a hook that suppresses *)
(* it gets here; an operation that was cancelled drops the text.           *)
HookReturns ==
    /\ runner = "hook"
    /\ opCancel = "requested" => mode \in HookSwallows
    /\ opCancel' = IF opCancel = "requested" THEN "delivered" ELSE opCancel
    /\ \/ /\ mode = "complete"
          /\ EndRunner("completed") /\ stream' = [stream EXCEPT !.events = 1]
          /\ UNCHANGED <<pull, pullTimer>>
       \/ /\ mode = "stream"
          /\ stream' = stream
          /\ NextPull
       \/ /\ EndRunner("contract")
          /\ UNCHANGED <<stream, pull, pullTimer>>
    /\ UNCHANGED <<call, mode, opTimer, item, teardown>>

(* It raises: an adapter failure of one of the three statuses, a timeout   *)
(* of its own (failed), anything else (indeterminate), a ContractError, or *)
(* a CancelledError, its own or the one it was sent.                       *)
HookRaises ==
    /\ runner = "hook"
    /\ \E v \in Verdicts \ {"completed"} :
          /\ opCancel = "requested" => v = "cancelled"
          /\ EndRunner(v)
    /\ UNCHANGED <<call, mode, opCancel, opTimer, pull, pullTimer, item, stream, teardown>>

(* The adapter answers a pull, which may have been cancelled since. *)
PullAnswers ==
    /\ pull = "active"
    /\ pull' = "done"
    /\ IF runner = "pull"
       THEN \E i \in Items \cup Raised : item' = i
       ELSE UNCHANGED item             \* nobody is waiting any more
    /\ UNCHANGED <<call, mode, op, opCancel, opTimer, runner, ending, pullTimer, stream, teardown>>

(* The runner resumes with the answer.  The end of the stream is one of    *)
(* the contract failures.                                                  *)
PullReturns ==
    /\ runner = "pull"
    /\ opCancel # "requested"
    /\ pull = "done"
    /\ IF item \in Raised
       THEN EndRunner(item.raises) /\ UNCHANGED <<stream, pull, pullTimer>>
       ELSE IF ItemRefused(stream, item)
       THEN EndRunner("contract") /\ UNCHANGED <<stream, pull, pullTimer>>
       ELSE /\ stream' = Consumed(stream, item)
            /\ IF Terminates(item)
               THEN EndRunner("completed") /\ UNCHANGED <<pull, pullTimer>>
               ELSE NextPull
    /\ item' = None
    /\ UNCHANGED <<call, mode, opCancel, opTimer, teardown>>

(* wait_for of the pull: its task is cancelled, not awaited. *)
PullExpires ==
    /\ runner = "pull"
    /\ opCancel # "requested"
    /\ pullTimer
    /\ pull = "active"
    /\ EndRunner("failed")
    /\ UNCHANGED <<call, mode, opCancel, opTimer, pull, pullTimer, item, stream, teardown>>

(* The cancelled operation resumes in the wait for a pull: the pull is     *)
(* cancelled in turn, and again not awaited.                               *)
RunnerCancelled ==
    /\ runner = "pull"
    /\ opCancel = "requested"
    /\ opCancel' = "delivered"
    /\ EndRunner("cancelled")
    /\ UNCHANGED <<call, mode, opTimer, pull, pullTimer, item, stream, teardown>>

-----------------------------------------------------------------------------
(* execute_provider_call. *)

(* finally: _cleanup up to its first suspension.  The teardown task will   *)
(* wait for the tasks of this call that are not done at this moment.       *)
Unfinished == (IF op = "active" THEN {"op"} ELSE {})
                \cup (IF pull = "active" THEN {"pull"} ELSE {})

BeginCleanup(v) ==
    /\ verdict' = v
    /\ pc' = "waiting"
    /\ cl' = "waiting"
    /\ clPending' = Unfinished
    /\ UNCHANGED <<clHook, clTimer, clResult>>

Return(how, succeeded) ==
    /\ pc' = "done"
    /\ outcome' = [how |-> how, cleanup |-> succeeded]

(* Validation of limits, request, input, clock and adapter: nothing has    *)
(* been started, so nothing is cleaned up.                                 *)
Bind ==
    /\ pc = "bind"
    /\ ~cancelReq
    /\ \/ pc' = "clock" /\ UNCHANGED outcome
       \/ Return("contract", FALSE)
    /\ UNCHANGED <<verdict, cancelReq, cancels, waitTimer, work, teardown>>

BindCancelled ==
    /\ pc = "bind"
    /\ cancelReq
    /\ cancelReq' = FALSE
    /\ Return("cancelled", FALSE)
    /\ UNCHANGED <<verdict, cancels, waitTimer, work, teardown>>

(* The clock is read and the capability checked; then the operation starts. *)
ReadClock ==
    /\ pc = "clock"
    /\ ~cancelReq
    /\ \/ /\ pc' = "running"
          /\ op' = "active"
          /\ runner' = "hook"
          /\ UNCHANGED <<verdict, teardown>>
       \/ \E v \in {"blocked", "contract"} :
             BeginCleanup(v) /\ UNCHANGED <<op, runner>>
    /\ UNCHANGED <<outcome, cancelReq, cancels, waitTimer, mode, opCancel, opTimer,
                   ending, pull, pullTimer, item, stream>>

(* wait_for of the operation: done when the waiter wakes, or cancelled.    *)
(* What it answers travels through several tasks before the call resumes.  *)
RunReturns ==
    /\ pc = "running"
    /\ ~cancelReq
    /\ op = "done"
    /\ pc' = "settled"
    /\ verdict' = ending
    /\ UNCHANGED <<outcome, cancelReq, cancels, waitTimer, work, teardown>>

RunExpires ==
    /\ pc = "running"
    /\ ~cancelReq
    /\ opTimer
    /\ op = "active"
    /\ opCancel' = "requested"
    /\ pc' = "settled"
    /\ verdict' = "failed"
    /\ UNCHANGED <<outcome, cancelReq, cancels, waitTimer, mode, op, opTimer, runner,
                   ending, pull, pullTimer, item, stream, teardown>>

(* Defect: the operation is asked once more before its output is dropped. *)
SettleLate ==
    /\ pc = "settled"
    /\ ~cancelReq
    /\ BeginCleanup(IF op = "done" THEN ending ELSE verdict)
    /\ UNCHANGED <<outcome, cancelReq, cancels, waitTimer, work>>

Settle ==
    /\ pc = "settled"
    /\ ~cancelReq
    /\ BeginCleanup(verdict)
    /\ UNCHANGED <<outcome, cancelReq, cancels, waitTimer, work>>

(* A cancellation is delivered at the suspension point, and passed on to   *)
(* the operation.                                                          *)
RunCancelled ==
    /\ pc \in {"clock", "running", "settled"}
    /\ cancelReq
    /\ cancelReq' = FALSE
    /\ BeginCleanup("cancelled")
    /\ opCancel' = IF op = "active" /\ pc = "running" THEN "requested" ELSE opCancel
    /\ UNCHANGED <<outcome, cancels, waitTimer, mode, op, opTimer, runner, ending,
                   pull, pullTimer, item, stream>>

(* The receipt's wait for the teardown.  An exception that is in flight    *)
(* continues after the finally clause, unless _cleanup itself raises.      *)
AfterCleanup(succeeded) ==
    IF verdict \in Exceptions
    THEN Return(verdict, FALSE)
    ELSE /\ pc' = "finish"
         /\ outcome' = [how |-> None, cleanup |-> succeeded]

CleanupReturns ==
    /\ pc = "waiting"
    /\ ~cancelReq
    /\ cl = "done"
    /\ IF clResult = "contract"
       THEN Return("contract", FALSE)
       ELSE AfterCleanup(clResult = "ok")
    /\ UNCHANGED <<verdict, cancelReq, cancels, waitTimer, work, teardown>>

(* Defect: an expired wait counts as a teardown that succeeded. *)
CleanupExpiresClean ==
    /\ pc = "waiting"
    /\ ~cancelReq
    /\ waitTimer
    /\ cl # "done"
    /\ AfterCleanup(TRUE)
    /\ UNCHANGED <<verdict, cancelReq, cancels, waitTimer, work, teardown>>

CleanupExpires ==
    /\ pc = "waiting"
    /\ ~cancelReq
    /\ waitTimer
    /\ cl # "done"
    /\ AfterCleanup(FALSE)
    /\ UNCHANGED <<verdict, cancelReq, cancels, waitTimer, work, teardown>>

(* Defect: the teardown task is not shielded. *)
CleanupUnshielded ==
    /\ pc \in {"waiting", "finish"}
    /\ cancelReq
    /\ cancelReq' = FALSE
    /\ Return("cancelled", FALSE)
    /\ cl' = "done"
    /\ clResult' = "cancelled"
    /\ UNCHANGED <<verdict, cancels, waitTimer, work, clPending, clHook, clTimer>>

(* The shield keeps the teardown task alive. *)
CleanupCancelled ==
    /\ pc \in {"waiting", "finish"}
    /\ cancelReq
    /\ cancelReq' = FALSE
    /\ Return("cancelled", FALSE)
    /\ UNCHANGED <<verdict, cancels, waitTimer, work, teardown>>

(* The clock is read again and the result validated. *)
Finish ==
    /\ pc = "finish"
    /\ ~cancelReq
    /\ \/ Return(verdict, outcome.cleanup)
       \/ Return("contract", FALSE)
    /\ UNCHANGED <<verdict, cancelReq, cancels, waitTimer, work, teardown>>

-----------------------------------------------------------------------------
(* The teardown task of _cleanup. *)

Finished(t) == IF t = "op" THEN op = "done" ELSE pull = "done"

(* Defect: the teardown does not wait for what is still draining. *)
CallCleanupAtOnce ==
    /\ cl = "waiting"
    /\ cl' = "calling"
    /\ clHook' = "active"
    /\ UNCHANGED <<call, work, clPending, clTimer, clResult>>

(* Everything in the snapshot is done: call the adapter's cleanup. *)
CallCleanup ==
    /\ cl = "waiting"
    /\ \A t \in clPending : Finished(t)
    /\ cl' = "calling"
    /\ clHook' = "active"
    /\ UNCHANGED <<call, work, clPending, clTimer, clResult>>

(* The cleanup hook ends.  Its answer counts unless its own deadline came  *)
(* first; one that is neither None nor awaitable breaks the contract.      *)
CleanupEnded ==
    /\ clHook = "active"
    /\ clHook' = "done"
    /\ IF cl = "calling"
       THEN cl' = "done" /\ clResult' \in CleanupEnds
       ELSE UNCHANGED <<cl, clResult>>
    /\ UNCHANGED <<call, work, clPending, clTimer>>

CleanupHookExpires ==
    /\ cl = "calling"
    /\ clTimer
    /\ cl' = "done"
    /\ clResult' = "error"
    /\ UNCHANGED <<call, work, clPending, clHook, clTimer>>

-----------------------------------------------------------------------------
(* Timers fire, in any order, once what they bound has started. *)

OverallTimer ==
    /\ pc = "running" /\ ~opTimer
    /\ opTimer' = TRUE
    /\ UNCHANGED <<call, mode, op, opCancel, runner, ending, pull, pullTimer, item,
                   stream, teardown>>

IdleTimer ==
    /\ runner = "pull" /\ ~pullTimer
    /\ pullTimer' = TRUE
    /\ UNCHANGED <<call, mode, op, opCancel, opTimer, runner, ending, pull, item,
                   stream, teardown>>

CleanupTimer ==
    /\ cl = "calling" /\ ~clTimer
    /\ clTimer' = TRUE
    /\ UNCHANGED <<call, work, cl, clPending, clHook, clResult>>

ReceiptTimer ==
    /\ pc = "waiting" /\ ~waitTimer
    /\ waitTimer' = TRUE
    /\ UNCHANGED <<pc, verdict, outcome, cancelReq, cancels, work, teardown>>

(* The caller cancels the call, possibly again while it cleans up. *)
CallerCancels ==
    /\ pc # "done"
    /\ ~cancelReq
    /\ cancels < MaxCancels
    /\ cancelReq' = TRUE
    /\ cancels' = cancels + 1
    /\ UNCHANGED <<pc, verdict, outcome, waitTimer, work, teardown>>

(* The receipt has been returned and nothing of the call is left running. *)
Quiet ==
    /\ pc = "done"
    /\ op # "active" /\ pull # "active" /\ clHook # "active"
    /\ cl \in {"none", "done"}
    /\ UNCHANGED vars

-----------------------------------------------------------------------------
Init ==
    /\ pc = "bind"
    /\ verdict = None
    /\ outcome = [how |-> None, cleanup |-> FALSE]
    /\ cancelReq = FALSE
    /\ cancels = 0
    /\ mode \in Modes
    /\ op = "none" /\ opCancel = "none" /\ opTimer = FALSE
    /\ runner = "none" /\ ending = None
    /\ pull = "none" /\ pullTimer = FALSE /\ item = None
    /\ stream = [events |-> 0, total |-> 0, buffered |-> 0]
    /\ cl = "none" /\ clPending = {} /\ clHook = "none"
    /\ clTimer = FALSE /\ clResult = None
    /\ waitTimer = FALSE

CallStep ==
    \/ Bind \/ BindCancelled \/ ReadClock \/ RunReturns \/ RunExpires
    \/ RunCancelled \/ Settle \/ CleanupReturns \/ CleanupExpires
    \/ CleanupCancelled \/ Finish

RunnerStep == PullReturns \/ PullExpires \/ RunnerCancelled
TeardownStep == CallCleanup \/ CleanupHookExpires
AdapterStep == HookReturns \/ HookRaises \/ PullAnswers \/ CleanupEnded
TimerStep == OverallTimer \/ IdleTimer \/ CleanupTimer \/ ReceiptTimer

Next ==
    \/ CallStep \/ RunnerStep \/ TeardownStep \/ AdapterStep \/ TimerStep
    \/ CallerCancels
    \/ Quiet

Spec == Init /\ [][Next]_vars

(* The event loop resumes every task that can go on, and timers fire.  The *)
(* adapter need not do anything.                                           *)
LoopFairness ==
    /\ WF_vars(CallStep) /\ WF_vars(RunnerStep) /\ WF_vars(TeardownStep)
    /\ WF_vars(OverallTimer) /\ WF_vars(IdleTimer)
    /\ WF_vars(CleanupTimer) /\ WF_vars(ReceiptTimer)
LoopSpec == Spec /\ LoopFairness

(* An adapter that lets go in the end, however late. *)
AdapterDrains ==
    /\ WF_vars(HookReturns \/ HookRaises)
    /\ WF_vars(PullAnswers)
    /\ WF_vars(CleanupEnded)

-----------------------------------------------------------------------------
(* "must never race an adapter operation still draining": the adapter's    *)
(* cleanup is not running while its selected hook or a pull is.            *)
AdapterBusy == runner = "hook" \/ pull = "active"
CleanupNeverRaces == clHook = "active" => ~AdapterBusy

(* Output of work that was told to stop is not accepted, and the call      *)
(* never reports another end than the one its run had.                     *)
LateOutputRejected ==
    (pc = "done" /\ outcome.how = "completed") =>
        /\ opCancel = "none"
        /\ op = "done" /\ ending = "completed"
        /\ pull # "active"

(* What was consumed is within the limits at every moment, and a completed *)
(* call consumed at least one event.                                       *)
WithinLimits ==
    /\ stream.events <= MaxEvents
    /\ stream.total <= MaxOutput
    /\ stream.buffered <= MaxBuffer
    /\ ending = "completed" => stream.events >= 1
(* Output is what the run produced in time and within its limits.          *)
OutputEarned == LateOutputRejected /\ WithinLimits

(* "Cancellation remains cancellation": whatever the cleanup hook does.    *)
CancellationRemains ==
    (pc = "done" /\ cancels > 0) => outcome.how = "cancelled"

(* The receipt is bounded: whatever the adapter does or does not do, the   *)
(* call ends.                                                              *)
ReceiptBounded == <>(pc = "done")

(* The teardown that was scheduled is performed by an adapter that lets    *)
(* go, also long after the receipt was returned.                           *)
TeardownHappens == AdapterDrains => ((cl = "waiting") ~> (clHook = "done"))

(* Every call ends, and what it started. *)
CallsEnd == ReceiptBounded /\ TeardownHappens

-----------------------------------------------------------------------------
(* The tasks are an implementation of the bounded call: something of it is *)
(* running while a task or a hook is, or a teardown still has to come.     *)
Promised == INSTANCE BoundedCall WITH
    Absent    <- None,
    call      <- IF pc = "done" THEN "ended" ELSE "running",
    ending    <- IF pc = "done" THEN outcome ELSE [how |-> None, cleanup |-> FALSE],
    cancelled <- cancels > 0,
    busy      <- \/ op = "active" \/ AdapterBusy
                 \/ cl \in {"waiting", "calling"} \/ clHook = "active"

(* What callers of execute_provider_call rely on: completed output with a  *)
(* successful cleanup leaves nothing running, a cancelled call returns no  *)
(* result, and once the call is over nothing of it starts again.           *)
KeepsPromise == Promised!CallSpec
=============================================================================
