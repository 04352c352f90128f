------------------------- MODULE ProviderCallProofs -------------------------
(***************************************************************************)
(* The four tasks of a bounded provider call, for every limit, item,       *)
(* adapter and number of cancellations.                                    *)
(*                                                                         *)
(* The invariant goes by the suspension points: what each task knows of    *)
(* the others there, which cancellation is still owed, and which end of    *)
(* the run the receipt may report.  The adapter, told to stop or not, may  *)
(* do anything in between.                                                 *)
(***************************************************************************)
EXTENDS ProviderCall, TLAPS

CallTyped ==
    /\ pc \in {"bind", "clock", "running", "settled", "waiting", "finish", "done"}
    /\ verdict \in Verdicts \cup {None}
    /\ outcome.how \in Verdicts \cup {None} /\ outcome.cleanup \in BOOLEAN
    /\ cancelReq \in BOOLEAN /\ cancels \in Nat
    /\ mode \in {"complete", "stream"}
    /\ op \in TaskStates /\ opCancel \in {"none", "requested", "delivered"}
    /\ runner \in {"none", "hook", "pull", "ended"} /\ ending \in Verdicts \cup {None}
    /\ pull \in TaskStates
    /\ cl \in {"none", "waiting", "calling", "done"} /\ clPending \in SUBSET {"op", "pull"}
    /\ clHook \in TaskStates /\ clResult \in {"ok", "error", "cancelled", "contract", None}

(* The operation: its runner, its pull, what they have consumed. *)
Operated ==
    /\ op = "none" <=> runner = "none"
    /\ op = "done" <=> runner = "ended"
    /\ ending # None <=> runner = "ended"
    /\ runner = "none" => pull = "none" /\ opCancel = "none"
    /\ runner = "hook" => pull = "none"
    /\ runner = "pull" => pull \in {"active", "done"}
    /\ runner = "pull" /\ pull = "done" => item \in Items \cup Raised
    /\ ending = "completed" => pull # "active"

(* stream.total is only known to be within its limit. *)
Consuming ==
    /\ stream = [events |-> stream.events, total |-> stream.total, buffered |-> stream.buffered]
    /\ stream.events \in Nat /\ stream.buffered \in Nat
    /\ WithinLimits

(* The call: what it has started, and how it may end. *)
Proceeding ==
    /\ pc \in {"bind", "clock"} => op = "none"
    /\ pc = "running" => op # "none" /\ opCancel = "none"
    /\ pc = "settled" /\ op = "active" => opCancel # "none"
    /\ pc \in {"bind", "clock", "running", "settled"} => cl = "none"
    /\ pc \in {"waiting", "finish"} => cl # "none"
    /\ pc \in {"settled", "waiting", "finish"} => verdict # None
    /\ pc = "finish" => verdict \notin Exceptions
    /\ verdict = "completed" => ending = "completed" /\ opCancel = "none"
    /\ pc \in {"bind", "clock", "running"} => verdict = None
    /\ pc = "done" => outcome.how # None /\ (outcome.how \in Exceptions \/ outcome.how = verdict)
    /\ pc # "done" => outcome.how = None
    /\ pc \in {"bind", "clock", "running", "settled", "waiting"} => ~outcome.cleanup
    /\ outcome.cleanup => clResult = "ok"

(* The teardown: its hook, and what its answer is worth. *)
TearingDown ==
    /\ cl \in {"none", "waiting"} => clHook = "none"
    /\ cl = "calling" => clHook = "active"
    /\ cl = "done" => clHook \in {"active", "done"}
    /\ clResult # None => cl = "done"
    /\ clResult = "ok" => clHook = "done"
    /\ cl # "none" /\ op = "active" => opCancel # "none"
    /\ cl = "waiting" /\ op = "active" => "op" \in clPending
    /\ cl \in {"calling", "done"} => op # "active"

(* A cancellation is pending, or the call ends with an exception. *)
Cancelled ==
    /\ cancels > 0 /\ pc \notin {"waiting", "done"} => cancelReq
    /\ cancels > 0 /\ pc = "waiting" => cancelReq \/ verdict = "cancelled"
    /\ cancels > 0 /\ pc = "done" => outcome.how \in Exceptions

CallInv == CallTyped /\ Operated /\ Consuming /\ Proceeding /\ TearingDown /\ Cancelled

(* With a stream hook that obeys its cancellation no pull begins after the *)
(* snapshot was taken.                                                     *)
Drained ==
    /\ pc = "settled" /\ op = "active" => opCancel = "requested"
    /\ cl # "none" /\ op = "active" => opCancel = "requested"
    /\ cl = "waiting" /\ pull = "active" => "pull" \in clPending
    /\ cl \in {"calling", "done"} => pull # "active"

(* None is no verdict and no answer. *)
LEMMA NoneElse ==
    /\ None \notin Verdicts /\ None # "ok" /\ None # "completed"
    /\ "completed" \in Verdicts /\ "cancelled" \in Exceptions /\ "contract" \in Exceptions
    /\ Exceptions \subseteq Verdicts /\ "completed" \notin Exceptions
    /\ "failed" \in Verdicts /\ "blocked" \in Verdicts /\ "cancelled" \in Verdicts /\ "contract" \in Verdicts
    /\ "failed" \notin Exceptions /\ "blocked" \notin Exceptions
    /\ None \notin {"ok", "error", "cancelled", "contract"}
  BY NoneAssumption DEF NoneAssumption, Verdicts, Statuses, Exceptions

LEMMA CallInvInit == Init => CallInv
  <1> SUFFICES ASSUME Init PROVE CallInv
    OBVIOUS
  <1> USE NoneElse, LimitAssumption DEF Init, LimitAssumption, Limits
  <1>1. CallTyped  BY DEF CallTyped, TaskStates
  <1>2. Operated  BY DEF Operated
  <1>3. Consuming  BY DEF Consuming, WithinLimits
  <1>4. Proceeding /\ TearingDown /\ Cancelled  BY DEF Proceeding, TearingDown, Cancelled
  <1>5. QED  BY <1>1, <1>2, <1>3, <1>4 DEF CallInv

(* The call is over. *)
LEMMA Returned ==
  ASSUME NEW h, NEW s \in BOOLEAN, Return(h, s)
  PROVE  pc' = "done" /\ outcome'.how = h /\ outcome'.cleanup \in BOOLEAN /\ (outcome'.cleanup <=> s)
  <1>1. pc' = "done" /\ outcome'.how = h /\ outcome'.cleanup = s
    <2>1. ASSUME NEW x, outcome' = [how |-> h, cleanup |-> x] PROVE outcome'.how = h /\ outcome'.cleanup = x
      BY <2>1
    <2>2. QED  BY <2>1 DEF Return
  <1>2. QED  BY <1>1

(* The snapshot of the teardown. *)
LEMMA Snapshot ==
  ASSUME NEW v, BeginCleanup(v)
  PROVE  /\ verdict' = v /\ pc' = "waiting" /\ cl' = "waiting" /\ UNCHANGED <<clHook, clTimer, clResult>>
         /\ clPending' \in SUBSET {"op", "pull"}
         /\ op = "active" => "op" \in clPending'
         /\ pull = "active" => "pull" \in clPending'
  <1>1. /\ Unfinished \in SUBSET {"op", "pull"}
        /\ op = "active" => "op" \in Unfinished
        /\ pull = "active" => "pull" \in Unfinished
    BY DEF Unfinished
  <1>2. QED  BY <1>1 DEF BeginCleanup

(* What becomes of the call when its wait for the teardown is over. *)
LEMMA AfterIt ==
  ASSUME NEW s \in BOOLEAN, AfterCleanup(s)
  PROVE  \/ /\ verdict \in Exceptions /\ pc' = "done"
            /\ outcome'.how = verdict /\ outcome'.cleanup \in BOOLEAN /\ ~outcome'.cleanup
         \/ /\ verdict \notin Exceptions /\ pc' = "finish"
            /\ outcome'.how = None /\ outcome'.cleanup \in BOOLEAN /\ (outcome'.cleanup => s)
  <1>1. CASE verdict \in Exceptions
    <2>1. Return(verdict, FALSE)  BY <1>1 DEF AfterCleanup
    <2>2. QED  BY <1>1, <2>1, Returned
  <1>2. CASE verdict \notin Exceptions
    <2>1. ASSUME NEW x, outcome' = [how |-> None, cleanup |-> x] PROVE outcome'.how = None /\ outcome'.cleanup = x
      BY <2>1
    <2>2. pc' = "finish" /\ outcome'.how = None /\ outcome'.cleanup = s  BY <1>2, <2>1 DEF AfterCleanup
    <2>3. QED  BY <1>2, <2>2
  <1>3. QED  BY <1>1, <1>2

(* What execute_provider_call itself does leaves the runner alone. *)
LEMMA CallKeeps == CallInv /\ CallStep => CallInv'
  <1> SUFFICES ASSUME CallInv, CallStep PROVE CallInv'
    OBVIOUS
  <1> USE NoneElse DEF CallInv, call, work, teardown
  <1>1. CASE Bind
    <2>0. \/ pc' = "clock" /\ UNCHANGED outcome
          \/ pc' = "done" /\ outcome'.how = "contract" /\ outcome'.cleanup \in BOOLEAN /\ ~outcome'.cleanup
      BY <1>1, Returned DEF Bind
    <2>1. CallTyped'  BY <1>1, <2>0 DEF Bind, CallTyped, TaskStates
    <2>2. Operated'  BY <1>1, <2>0 DEF Bind, Operated, Proceeding
    <2>3. Consuming'  BY <1>1, <2>0 DEF Bind, Consuming, WithinLimits
    <2>4. Proceeding'  BY <1>1, <2>0 DEF Bind, Proceeding, CallTyped, Operated
    <2>5. TearingDown'  BY <1>1, <2>0 DEF Bind, TearingDown, Proceeding, CallTyped
    <2>6. Cancelled'  BY <1>1, <2>0 DEF Bind, Cancelled, Proceeding, CallTyped
    <2>7. QED  BY <2>1, <2>2, <2>3, <2>4, <2>5, <2>6
  <1>2. CASE BindCancelled
    <2>0. pc' = "done" /\ outcome'.how = "cancelled" /\ outcome'.cleanup \in BOOLEAN /\ ~outcome'.cleanup
      BY <1>2, Returned DEF BindCancelled
    <2>a. cancelReq' \in BOOLEAN  BY <1>2 DEF BindCancelled
    <2>1. CallTyped'
      <3>2. outcome'.how \in Verdicts \cup {None} /\ verdict' \in Verdicts \cup {None} /\ outcome'.cleanup \in BOOLEAN
        BY <1>2, <2>0 DEF BindCancelled, CallTyped
      <3>3. QED  BY <1>2, <2>0, <2>a, <3>2 DEF BindCancelled, CallTyped, TaskStates
    <2>2. Operated'  BY <1>2, <2>0 DEF BindCancelled, Operated, Proceeding
    <2>3. Consuming'  BY <1>2, <2>0 DEF BindCancelled, Consuming, WithinLimits
    <2>4. Proceeding'  BY <1>2, <2>0 DEF BindCancelled, Proceeding, CallTyped, Operated
    <2>5. TearingDown'  BY <1>2, <2>0 DEF BindCancelled, TearingDown, Proceeding, CallTyped
    <2>6. Cancelled'  BY <1>2, <2>0 DEF BindCancelled, Cancelled, Proceeding, CallTyped
    <2>7. QED  BY <2>1, <2>2, <2>3, <2>4, <2>5, <2>6
  <1>3. CASE ReadClock
    <2>0. \/ /\ pc' = "running" /\ op' = "active" /\ runner' = "hook"
             /\ UNCHANGED <<verdict, cl, clPending, clHook, clTimer, clResult>>
          \/ /\ verdict' \in {"blocked", "contract"} /\ pc' = "waiting" /\ cl' = "waiting"
             /\ clPending' \in SUBSET {"op", "pull"}
             /\ UNCHANGED <<op, runner, clHook, clTimer, clResult>>
      BY <1>3, Snapshot DEF ReadClock
    <2>1. CallTyped'
      <3>1. verdict' \in Verdicts \cup {None}  BY <1>3, <2>0 DEF CallTyped
      <3>2. UNCHANGED <<outcome, cancelReq, cancels, mode, opCancel, ending, pull, clHook, clResult>>
        BY <1>3, <2>0 DEF ReadClock
      <3>3. pc' \in {"running", "waiting"} /\ op' \in TaskStates /\ runner' \in {"none", "hook", "pull", "ended"}
        BY <2>0 DEF CallTyped, TaskStates
      <3>4. cl' \in {"none", "waiting", "calling", "done"} /\ clPending' \in SUBSET {"op", "pull"}
        BY <2>0 DEF CallTyped
      <3>5. QED  BY <3>1, <3>2, <3>3, <3>4 DEF CallTyped
    <2>2. Operated'  BY <1>3, <2>0 DEF ReadClock, Operated, Proceeding
    <2>3. Consuming'  BY <1>3, <2>0 DEF ReadClock, Consuming, WithinLimits
    <2>4. Proceeding'  BY <1>3, <2>0 DEF ReadClock, Proceeding, CallTyped, Operated
    <2>5. TearingDown'  BY <1>3, <2>0 DEF ReadClock, TearingDown, Proceeding, CallTyped
    <2>6. Cancelled'  BY <1>3, <2>0 DEF ReadClock, Cancelled, Proceeding, CallTyped
    <2>7. QED  BY <2>1, <2>2, <2>3, <2>4, <2>5, <2>6
  <1>4. CASE RunReturns
    <2>1. CallTyped'  BY <1>4 DEF RunReturns, CallTyped, TaskStates
    <2>2. Operated'  BY <1>4 DEF RunReturns, Operated, Proceeding
    <2>3. Consuming'  BY <1>4 DEF RunReturns, Consuming, WithinLimits
    <2>4. Proceeding'  BY <1>4 DEF RunReturns, Proceeding, CallTyped, Operated
    <2>5. TearingDown'  BY <1>4 DEF RunReturns, TearingDown, Proceeding, CallTyped
    <2>6. Cancelled'  BY <1>4 DEF RunReturns, Cancelled, Proceeding, CallTyped
    <2>7. QED  BY <2>1, <2>2, <2>3, <2>4, <2>5, <2>6
  <1>5. CASE RunExpires
    <2>1. CallTyped'  BY <1>5 DEF RunExpires, CallTyped, TaskStates
    <2>2. Operated'  BY <1>5 DEF RunExpires, Operated, Proceeding
    <2>3. Consuming'  BY <1>5 DEF RunExpires, Consuming, WithinLimits
    <2>4. Proceeding'  BY <1>5 DEF RunExpires, Proceeding, CallTyped, Operated
    <2>5. TearingDown'  BY <1>5 DEF RunExpires, TearingDown, Proceeding, CallTyped
    <2>6. Cancelled'  BY <1>5 DEF RunExpires, Cancelled, Proceeding, CallTyped
    <2>7. QED  BY <2>1, <2>2, <2>3, <2>4, <2>5, <2>6
  <1>6. CASE RunCancelled
    <2>0. /\ verdict' = "cancelled" /\ pc' = "waiting" /\ cl' = "waiting" /\ UNCHANGED <<clHook, clTimer, clResult>>
          /\ clPending' \in SUBSET {"op", "pull"}
          /\ op = "active" => "op" \in clPending'
      BY <1>6, Snapshot DEF RunCancelled
    <2>a. cancelReq' \in BOOLEAN  BY <1>6 DEF RunCancelled
    <2>1. CallTyped'
      <3>2. outcome'.how \in Verdicts \cup {None} /\ verdict' \in Verdicts \cup {None} /\ outcome'.cleanup \in BOOLEAN
        BY <1>6, <2>0 DEF RunCancelled, CallTyped
      <3>3. QED  BY <1>6, <2>0, <2>a, <3>2 DEF RunCancelled, CallTyped, TaskStates
    <2>2. Operated'  BY <1>6, <2>0 DEF RunCancelled, Operated, Proceeding
    <2>3. Consuming'  BY <1>6, <2>0 DEF RunCancelled, Consuming, WithinLimits
    <2>4. Proceeding'  BY <1>6, <2>0 DEF RunCancelled, Proceeding, CallTyped, Operated
    <2>5. TearingDown'  BY <1>6, <2>0 DEF RunCancelled, TearingDown, Proceeding, CallTyped
    <2>6. Cancelled'  BY <1>6, <2>0 DEF RunCancelled, Cancelled, Proceeding, CallTyped
    <2>7. QED  BY <2>1, <2>2, <2>3, <2>4, <2>5, <2>6
  <1>7. CASE Settle
    <2>0. /\ verdict' = verdict /\ pc' = "waiting" /\ cl' = "waiting" /\ UNCHANGED <<clHook, clTimer, clResult>>
          /\ clPending' \in SUBSET {"op", "pull"}
          /\ op = "active" => "op" \in clPending'
      BY <1>7, Snapshot DEF Settle
    <2>1. CallTyped'  BY <1>7, <2>0 DEF Settle, CallTyped, TaskStates
    <2>2. Operated'  BY <1>7, <2>0 DEF Settle, Operated, Proceeding
    <2>3. Consuming'  BY <1>7, <2>0 DEF Settle, Consuming, WithinLimits
    <2>4. Proceeding'  BY <1>7, <2>0 DEF Settle, Proceeding, CallTyped, Operated
    <2>5. TearingDown'  BY <1>7, <2>0 DEF Settle, TearingDown, Proceeding, CallTyped
    <2>6. Cancelled'  BY <1>7, <2>0 DEF Settle, Cancelled, Proceeding, CallTyped
    <2>7. QED  BY <2>1, <2>2, <2>3, <2>4, <2>5, <2>6
  <1>8. CASE CleanupReturns
    <2>0. \/ clResult = "contract" /\ pc' = "done" /\ outcome'.how = "contract" /\ outcome'.cleanup \in BOOLEAN /\ ~outcome'.cleanup
          \/ /\ verdict \in Exceptions /\ pc' = "done"
             /\ outcome'.how = verdict /\ outcome'.cleanup \in BOOLEAN /\ ~outcome'.cleanup
          \/ /\ verdict \notin Exceptions /\ pc' = "finish"
             /\ outcome'.how = None /\ outcome'.cleanup \in BOOLEAN /\ (outcome'.cleanup => clResult = "ok")
      <3>1. CASE clResult = "contract"  BY <1>8, <3>1, Returned DEF CleanupReturns
      <3>2. CASE clResult # "contract"
        <4>1. AfterCleanup(clResult = "ok") /\ (clResult = "ok") \in BOOLEAN  BY <1>8, <3>2 DEF CleanupReturns
        <4>2. QED  BY <4>1, AfterIt
      <3>3. QED  BY <3>1, <3>2
    <2>1. CallTyped'  BY <1>8, <2>0 DEF CleanupReturns, CallTyped, TaskStates
    <2>2. Operated'  BY <1>8, <2>0 DEF CleanupReturns, Operated, Proceeding
    <2>3. Consuming'  BY <1>8, <2>0 DEF CleanupReturns, Consuming, WithinLimits
    <2>4. Proceeding'  BY <1>8, <2>0 DEF CleanupReturns, Proceeding, CallTyped, Operated
    <2>5. TearingDown'  BY <1>8, <2>0 DEF CleanupReturns, TearingDown, Proceeding, CallTyped
    <2>6. Cancelled'  BY <1>8, <2>0 DEF CleanupReturns, Cancelled, Proceeding, CallTyped
    <2>7. QED  BY <2>1, <2>2, <2>3, <2>4, <2>5, <2>6
  <1>9. CASE CleanupExpires
    <2>0. \/ /\ verdict \in Exceptions /\ pc' = "done"
             /\ outcome'.how = verdict /\ outcome'.cleanup \in BOOLEAN /\ ~outcome'.cleanup
          \/ /\ verdict \notin Exceptions /\ pc' = "finish"
             /\ outcome'.how = None /\ outcome'.cleanup \in BOOLEAN /\ ~outcome'.cleanup
      BY <1>9, AfterIt DEF CleanupExpires
    <2>1. CallTyped'  BY <1>9, <2>0 DEF CleanupExpires, CallTyped, TaskStates
    <2>2. Operated'  BY <1>9, <2>0 DEF CleanupExpires, Operated, Proceeding
    <2>3. Consuming'  BY <1>9, <2>0 DEF CleanupExpires, Consuming, WithinLimits
    <2>4. Proceeding'  BY <1>9, <2>0 DEF CleanupExpires, Proceeding, CallTyped, Operated
    <2>5. TearingDown'  BY <1>9, <2>0 DEF CleanupExpires, TearingDown, Proceeding, CallTyped
    <2>6. Cancelled'  BY <1>9, <2>0 DEF CleanupExpires, Cancelled, Proceeding, CallTyped
    <2>7. QED  BY <2>1, <2>2, <2>3, <2>4, <2>5, <2>6
  <1>10. CASE CleanupCancelled
    <2>0. pc' = "done" /\ outcome'.how = "cancelled" /\ outcome'.cleanup \in BOOLEAN /\ ~outcome'.cleanup
      BY <1>10, Returned DEF CleanupCancelled
    <2>a. cancelReq' \in BOOLEAN  BY <1>10 DEF CleanupCancelled
    <2>1. CallTyped'
      <3>2. outcome'.how \in Verdicts \cup {None} /\ verdict' \in Verdicts \cup {None} /\ outcome'.cleanup \in BOOLEAN
        BY <1>10, <2>0 DEF CleanupCancelled, CallTyped
      <3>3. QED  BY <1>10, <2>0, <2>a, <3>2 DEF CleanupCancelled, CallTyped, TaskStates
    <2>2. Operated'  BY <1>10, <2>0 DEF CleanupCancelled, Operated, Proceeding
    <2>3. Consuming'  BY <1>10, <2>0 DEF CleanupCancelled, Consuming, WithinLimits
    <2>4. Proceeding'  BY <1>10, <2>0 DEF CleanupCancelled, Proceeding, CallTyped, Operated
    <2>5. TearingDown'  BY <1>10, <2>0 DEF CleanupCancelled, TearingDown, Proceeding, CallTyped
    <2>6. Cancelled'  BY <1>10, <2>0 DEF CleanupCancelled, Cancelled, Proceeding, CallTyped
    <2>7. QED  BY <2>1, <2>2, <2>3, <2>4, <2>5, <2>6
  <1>11. CASE Finish
    <2>0. /\ pc' = "done" /\ outcome'.cleanup \in BOOLEAN
          /\ \/ outcome'.how = verdict /\ (outcome'.cleanup => outcome.cleanup)
             \/ outcome'.how = "contract" /\ ~outcome'.cleanup
      <3>1. Return(verdict, outcome.cleanup) \/ Return("contract", FALSE)  BY <1>11 DEF Finish
      <3>2. outcome.cleanup \in BOOLEAN  BY DEF CallTyped
      <3>3. CASE Return(verdict, outcome.cleanup)  BY <3>2, <3>3, Returned
      <3>4. CASE Return("contract", FALSE)  BY <3>4, Returned
      <3>5. QED  BY <3>1, <3>3, <3>4
    <2>1. CallTyped'  BY <1>11, <2>0 DEF Finish, CallTyped, TaskStates
    <2>2. Operated'  BY <1>11, <2>0 DEF Finish, Operated, Proceeding
    <2>3. Consuming'  BY <1>11, <2>0 DEF Finish, Consuming, WithinLimits
    <2>4. Proceeding'  BY <1>11, <2>0 DEF Finish, Proceeding, CallTyped, Operated
    <2>5. TearingDown'  BY <1>11, <2>0 DEF Finish, TearingDown, Proceeding, CallTyped
    <2>6. Cancelled'  BY <1>11, <2>0 DEF Finish, Cancelled, Proceeding, CallTyped
    <2>7. QED  BY <2>1, <2>2, <2>3, <2>4, <2>5, <2>6
  <1>12. QED  BY <1>1, <1>2, <1>3, <1>4, <1>5, <1>6, <1>7, <1>8, <1>9, <1>10, <1>11 DEF CallStep

-----------------------------------------------------------------------------
(* An item that is not refused leaves the counters within their limits,    *)
(* and counts at least one event.                                          *)
LEMMA Consumption ==
  ASSUME Consuming, NEW it \in Items, ~ItemRefused(stream, it), stream' = Consumed(stream, it)
  PROVE  /\ stream' = [events |-> stream'.events, total |-> stream'.total, buffered |-> stream'.buffered]
         /\ stream'.events \in Nat /\ stream'.events >= 1 /\ stream'.events <= MaxEvents
         /\ stream'.total <= MaxOutput
         /\ stream'.buffered \in Nat /\ stream'.buffered <= MaxBuffer
  <1> DEFINE n == Len(it.events)
  <1>1. it.batch \in BOOLEAN /\ it.events \in Seq(Event) /\ (~it.batch => n = 1)
    BY LimitAssumption DEF LimitAssumption, Item
  <1>2. n \in Nat /\ (it.events # <<>> => n >= 1)  BY <1>1
  <1>3. it.batch => it.events # <<>> /\ n <= MaxBuffer
    BY <1>1, <1>2, LimitAssumption DEF ItemRefused, BatchRefused, LimitAssumption, Limits
  <1>4. n >= 1 /\ n \in 1..n
    <2>1. it.batch => n >= 1  BY <1>2, <1>3
    <2>2. ~it.batch => n >= 1
      <3> HIDE DEF n
      <3>1. QED  BY <1>1
    <2>3. n >= 1  BY <2>1, <2>2
    <2>4. QED  BY <1>2, <2>3
  <1>5. EventAccepted(stream, it.events, n)  BY <1>4 DEF ItemRefused
  <1>6. /\ stream'.events = stream.events + n
        /\ stream'.total = stream.total + BytesUpTo(it.events, n)
        /\ stream'.buffered = IF it.batch /\ n > stream.buffered THEN n ELSE stream.buffered
        /\ stream' = [events |-> stream'.events, total |-> stream'.total, buffered |-> stream'.buffered]
    BY DEF Consumed
  <1>7. stream'.events <= MaxEvents /\ stream'.total <= MaxOutput  BY <1>5, <1>6 DEF EventAccepted
  <1>8. stream'.buffered \in Nat /\ stream'.buffered <= MaxBuffer
    BY <1>2, <1>3, <1>6 DEF Consuming, WithinLimits
  <1>9. stream'.events \in Nat /\ stream'.events >= 1  BY <1>2, <1>4, <1>6 DEF Consuming
  <1>10. QED  BY <1>6, <1>7, <1>8, <1>9

(* The runner ends, or waits for its next pull: what every step of it and  *)
(* every answer of the hook comes to.                                      *)
Moved ==
    /\ runner \in {"hook", "pull"}
    /\ opCancel' = opCancel \/ (opCancel = "requested" /\ opCancel' = "delivered")
    /\ \/ /\ runner' = "ended" /\ op' = "done" /\ pull' = pull /\ ending' \in Verdicts
          /\ ending' = "completed" => pull # "active"
       \/ runner' = "pull" /\ pull' = "active" /\ UNCHANGED <<op, ending>>
    /\ UNCHANGED <<pc, verdict, outcome, cancelReq, cancels, mode, cl, clPending, clHook, clResult>>
    /\ Consuming'

(* Another pull is begun below the event limit only. *)
LEMMA Pulling ==
  ASSUME NextPull
  PROVE  \/ runner' = "pull" /\ pull' = "active" /\ UNCHANGED <<op, ending>>
         \/ runner' = "ended" /\ op' = "done" /\ ending' = "contract" /\ pull' = pull
  BY DEF NextPull, EndRunner

(* The hook returns text or an iterator, or something else. *)
LEMMA HookMoves == CallInv /\ HookReturns => Moved
  <1> SUFFICES ASSUME CallInv, HookReturns PROVE Moved
    OBVIOUS
  <1> USE NoneElse DEF CallInv, call, teardown
  <1>1. pull = "none" /\ runner = "hook" /\ ending = None  BY DEF HookReturns, Operated
  <1>2. opCancel' = opCancel \/ (opCancel = "requested" /\ opCancel' = "delivered")  BY DEF HookReturns
  <1>3. UNCHANGED <<pc, verdict, outcome, cancelReq, cancels, mode, cl, clPending, clHook, clResult>>
    BY DEF HookReturns
  <1>4. CASE EndRunner("completed") /\ stream' = [stream EXCEPT !.events = 1] /\ UNCHANGED <<pull, pullTimer>>
    <2>1. /\ stream' = [events |-> stream'.events, total |-> stream'.total, buffered |-> stream'.buffered]
          /\ stream'.events = 1 /\ stream'.total = stream.total /\ stream'.buffered = stream.buffered
      <3>1. stream' = [events |-> 1, total |-> stream.total, buffered |-> stream.buffered]
        BY <1>4 DEF Consuming
      <3>2. QED  BY <3>1
    <2>2. Consuming'
      BY <2>1, LimitAssumption DEF Consuming, WithinLimits, LimitAssumption, Limits
    <2>3. QED  BY <1>1, <1>2, <1>3, <1>4, <2>2 DEF Moved, EndRunner
  <1>5. CASE stream' = stream /\ NextPull
    <2>1. Consuming'  BY <1>1, <1>5, Pulling DEF Consuming, WithinLimits
    <2>2. QED  BY <1>1, <1>2, <1>3, <1>5, <2>1, Pulling DEF Moved
  <1>6. CASE EndRunner("contract") /\ UNCHANGED <<stream, pull, pullTimer>>
    <2>1. Consuming'  BY <1>6 DEF Consuming, WithinLimits, EndRunner
    <2>2. QED  BY <1>1, <1>2, <1>3, <1>6, <2>1 DEF Moved, EndRunner
  <1>7. QED  BY <1>4, <1>5, <1>6 DEF HookReturns

(* It raises, a pull expires, or the operation is cancelled while it waits *)
(* for a pull: nothing was consumed.                                       *)
LEMMA EndMoves == CallInv /\ (HookRaises \/ PullExpires \/ RunnerCancelled) => Moved
  <1> SUFFICES ASSUME CallInv, HookRaises \/ PullExpires \/ RunnerCancelled PROVE Moved
    OBVIOUS
  <1> USE NoneElse DEF CallInv, call, teardown
  <1>1. UNCHANGED <<pc, verdict, outcome, cancelReq, cancels, mode, cl, clPending, clHook, clResult, stream, pull>>
    BY DEF HookRaises, PullExpires, RunnerCancelled
  <1>2. opCancel' = opCancel \/ (opCancel = "requested" /\ opCancel' = "delivered")
    BY DEF HookRaises, PullExpires, RunnerCancelled
  <1>3. runner \in {"hook", "pull"}  BY DEF HookRaises, PullExpires, RunnerCancelled
  <1>4. \E v \in Verdicts \ {"completed"} : EndRunner(v)
    <2>1. CASE HookRaises  BY <2>1 DEF HookRaises
    <2>2. CASE PullExpires
      <3>1. EndRunner("failed") /\ "failed" \in Verdicts \ {"completed"}  BY <2>2 DEF PullExpires
      <3>2. QED  BY <3>1
    <2>3. CASE RunnerCancelled
      <3>1. EndRunner("cancelled") /\ "cancelled" \in Verdicts \ {"completed"}  BY <2>3 DEF RunnerCancelled
      <3>2. QED  BY <3>1
    <2>4. QED  BY <2>1, <2>2, <2>3
  <1>5. runner' = "ended" /\ op' = "done" /\ ending' \in Verdicts /\ ending' # "completed"
    BY <1>4 DEF EndRunner
  <1>6. Consuming'  BY <1>1, <1>5 DEF Consuming, WithinLimits
  <1>7. QED  BY <1>1, <1>2, <1>3, <1>5, <1>6 DEF Moved

(* A pull has answered: with an exception, a refused or an accepted item.  *)
LEMMA PullMoves == CallInv /\ PullReturns => Moved
  <1> SUFFICES ASSUME CallInv, PullReturns PROVE Moved
    OBVIOUS
  <1> USE NoneElse DEF CallInv, call, teardown
  <1>1. runner = "pull" /\ pull = "done" /\ item \in Items \cup Raised  BY DEF PullReturns, Operated
  <1>2. UNCHANGED <<pc, verdict, outcome, cancelReq, cancels, mode, opCancel, cl, clPending, clHook, clResult>>
    BY DEF PullReturns
  <1>3. CASE item \in Raised
    <2>1. item.raises \in Verdicts /\ item.raises # "completed"  BY <1>3 DEF Raised
    <2>2. EndRunner(item.raises) /\ UNCHANGED <<stream, pull>>  BY <1>3 DEF PullReturns
    <2>3. Consuming'  BY <2>1, <2>2 DEF Consuming, WithinLimits, EndRunner
    <2>4. QED  BY <1>1, <1>2, <2>1, <2>2, <2>3 DEF Moved, EndRunner
  <1>4. CASE item \notin Raised /\ ItemRefused(stream, item)
    <2>1. EndRunner("contract") /\ UNCHANGED <<stream, pull>>  BY <1>4 DEF PullReturns
    <2>2. Consuming'  BY <2>1 DEF Consuming, WithinLimits, EndRunner
    <2>3. QED  BY <1>1, <1>2, <2>1, <2>2 DEF Moved, EndRunner
  <1>5. CASE item \notin Raised /\ ~ItemRefused(stream, item)
    <2>1. item \in Items /\ stream' = Consumed(stream, item)  BY <1>1, <1>5 DEF PullReturns
    <2>2. Consuming'  BY <1>5, <2>1, Consumption DEF Consuming, WithinLimits
    <2>3. (EndRunner("completed") /\ UNCHANGED pull) \/ NextPull  BY <1>5 DEF PullReturns
    <2>4. QED  BY <1>1, <1>2, <2>2, <2>3, Pulling DEF Moved, EndRunner
  <1>6. QED  BY <1>3, <1>4, <1>5

(* Whatever the runner does, the other tasks find it as they expect it. *)
LEMMA MovedKeeps == CallInv /\ Moved => CallInv'
  <1> SUFFICES ASSUME CallInv, Moved PROVE CallInv'
    OBVIOUS
  <1> USE NoneElse DEF CallInv
  <1>1. op = "active" /\ ending = None  BY DEF Moved, Operated, CallTyped, TaskStates
  <1>2. CallTyped'  BY DEF Moved, CallTyped, TaskStates
  <1>3. Operated'  BY <1>1 DEF Moved, Operated, CallTyped
  <1>4. Consuming'  BY DEF Moved
  <1>5. Proceeding'  BY <1>1 DEF Moved, Proceeding, CallTyped
  <1>6. TearingDown'  BY <1>1 DEF Moved, TearingDown, CallTyped
  <1>7. Cancelled'  BY DEF Moved, Cancelled
  <1>8. QED  BY <1>2, <1>3, <1>4, <1>5, <1>6, <1>7

(* The adapter answers a pull, of a runner that may have stopped waiting.  *)
LEMMA AnswerKeeps == CallInv /\ PullAnswers => CallInv'
  <1> SUFFICES ASSUME CallInv, PullAnswers PROVE CallInv'
    OBVIOUS
  <1> USE NoneElse DEF CallInv, call, teardown
  <1>1. pull = "active" /\ pull' = "done" /\ (runner = "pull" => item' \in Items \cup Raised)
    BY DEF PullAnswers
  <1>2. UNCHANGED <<pc, verdict, outcome, cancelReq, cancels, mode, op, opCancel, runner, ending, stream,
                    cl, clPending, clHook, clResult>>
    BY DEF PullAnswers
  <1>3. CallTyped'  BY <1>1, <1>2 DEF CallTyped, TaskStates
  <1>4. Operated'  BY <1>1, <1>2 DEF Operated, CallTyped
  <1>5. Consuming'  BY <1>2 DEF Consuming, WithinLimits
  <1>6. Proceeding' /\ TearingDown' /\ Cancelled'  BY <1>2 DEF Proceeding, TearingDown, Cancelled
  <1>7. QED  BY <1>3, <1>4, <1>5, <1>6

(* The teardown and the hook it runs, whose answer may come too late.      *)
LEMMA TeardownKeeps == CallInv /\ (TeardownStep \/ CleanupEnded) => CallInv'
  <1> SUFFICES ASSUME CallInv, TeardownStep \/ CleanupEnded PROVE CallInv'
    OBVIOUS
  <1> USE NoneElse DEF CallInv, call, work
  <1>1. UNCHANGED <<pc, verdict, outcome, cancelReq, cancels, mode, op, opCancel, runner, ending, stream,
                    pull, item, clPending>>
    BY DEF TeardownStep, CallCleanup, CleanupHookExpires, CleanupEnded
  <1>2. \/ /\ cl = "waiting" /\ cl' = "calling" /\ clHook' = "active" /\ clResult' = clResult
           /\ "op" \in clPending => op = "done"
        \/ /\ cl = "calling" /\ cl' = "done" /\ clHook' = clHook /\ clResult' = "error"
        \/ /\ clHook = "active" /\ clHook' = "done"
           /\ \/ cl = "calling" /\ cl' = "done" /\ clResult' \in {"ok", "error", "cancelled", "contract"}
              \/ cl # "calling" /\ UNCHANGED <<cl, clResult>>
    <2>1. CASE CallCleanup  BY <2>1 DEF CallCleanup, Finished
    <2>2. CASE CleanupHookExpires  BY <2>2 DEF CleanupHookExpires
    <2>3. CASE CleanupEnded  BY <2>3, LimitAssumption DEF CleanupEnded, LimitAssumption
    <2>4. QED  BY <2>1, <2>2, <2>3 DEF TeardownStep
  <1>3. CallTyped'  BY <1>1, <1>2 DEF CallTyped, TaskStates
  <1>4. Operated' /\ Consuming'  BY <1>1 DEF Operated, Consuming, WithinLimits
  <1>5. Proceeding'  BY <1>1, <1>2 DEF Proceeding, TearingDown, CallTyped
  <1>6. TearingDown'  BY <1>1, <1>2 DEF TearingDown, CallTyped, TaskStates
  <1>7. Cancelled'  BY <1>1 DEF Cancelled
  <1>8. QED  BY <1>3, <1>4, <1>5, <1>6, <1>7

(* A timer that fires changes nothing else.                                *)
LEMMA TimersKeep == CallInv /\ (TimerStep \/ Quiet) => CallInv'
  <1> SUFFICES ASSUME CallInv, TimerStep \/ Quiet PROVE CallInv'
    OBVIOUS
  <1>1. UNCHANGED <<pc, verdict, outcome, cancelReq, cancels, mode, op, opCancel, runner, ending, stream,
                    pull, item, cl, clPending, clHook, clResult>>
    BY DEF TimerStep, OverallTimer, IdleTimer, CleanupTimer, ReceiptTimer, Quiet, vars, call, work, teardown
  <1>2. QED
    BY <1>1 DEF CallInv, CallTyped, Operated, Consuming, WithinLimits, Proceeding, TearingDown, Cancelled

(* A cancellation is owed to the call until it is delivered.               *)
LEMMA CancelKeeps == CallInv /\ CallerCancels => CallInv'
  <1> SUFFICES ASSUME CallInv, CallerCancels PROVE CallInv'
    OBVIOUS
  <1> USE DEF CallInv, work, teardown
  <1>1. pc # "done" /\ cancelReq' /\ cancels' = cancels + 1
    BY DEF CallerCancels
  <1>2. UNCHANGED <<pc, verdict, outcome, mode, op, opCancel, runner, ending, stream,
                    pull, item, cl, clPending, clHook, clResult>>
    BY DEF CallerCancels
  <1>3. cancelReq' \in BOOLEAN /\ cancels' \in Nat  BY <1>1 DEF CallerCancels, CallTyped
  <1>4. CallTyped'  BY <1>2, <1>3 DEF CallTyped
  <1>5. Operated' /\ Consuming' /\ Proceeding' /\ TearingDown'
    BY <1>2 DEF Operated, Consuming, WithinLimits, Proceeding, TearingDown
  <1>6. Cancelled'  BY <1>1, <1>2 DEF Cancelled
  <1>7. QED  BY <1>4, <1>5, <1>6

LEMMA CallInvNext == CallInv /\ [Next]_vars => CallInv'
  <1> SUFFICES ASSUME CallInv, [Next]_vars PROVE CallInv'
    OBVIOUS
  <1>1. CASE CallStep  BY <1>1, CallKeeps
  <1>2. CASE RunnerStep  BY <1>2, EndMoves, PullMoves, MovedKeeps DEF RunnerStep
  <1>3. CASE TeardownStep  BY <1>3, TeardownKeeps
  <1>4. CASE AdapterStep
    BY <1>4, HookMoves, EndMoves, MovedKeeps, AnswerKeeps, TeardownKeeps DEF AdapterStep
  <1>5. CASE TimerStep \/ Quiet  BY <1>5, TimersKeep
  <1>6. CASE CallerCancels  BY <1>6, CancelKeeps
  <1>7. CASE UNCHANGED vars
    BY <1>7 DEF vars, call, work, teardown,
                CallInv, CallTyped, Operated, Consuming, WithinLimits, Proceeding, TearingDown, Cancelled
  <1>8. QED  BY <1>1, <1>2, <1>3, <1>4, <1>5, <1>6, <1>7 DEF Next

(* At every suspension point of the call, its operation, its pull and its  *)
(* teardown, the four tasks are as the next step of each expects them.     *)
THEOREM Invariance == Spec => []CallInv
  BY CallInvInit, CallInvNext, PTL DEF Spec

(* Completed output is that of an operation that was never told to stop    *)
(* and of no pull still running, and every count is within its limit:      *)
(* whatever the adapter delivers, when, and however it takes being         *)
(* cancelled.                                                              *)
THEOREM OutputIsEarned == Spec => []OutputEarned
  <1>1. CallInv => OutputEarned
    <2> SUFFICES ASSUME CallInv PROVE LateOutputRejected /\ WithinLimits
      BY DEF OutputEarned
    <2>1. WithinLimits  BY DEF CallInv, Consuming
    <2>2. ASSUME pc = "done", outcome.how = "completed"
          PROVE  opCancel = "none" /\ op = "done" /\ ending = "completed" /\ pull # "active"
      <3>1. ending = "completed" /\ opCancel = "none"  BY <2>2, NoneElse DEF CallInv, Proceeding
      <3>2. QED  BY <3>1, NoneElse DEF CallInv, Operated
    <2>3. QED  BY <2>1, <2>2 DEF LateOutputRejected
  <1>2. QED  BY <1>1, Invariance, PTL

-----------------------------------------------------------------------------
(* Only a hook that suppresses its cancellation lets a runner go on after  *)
(* it was told to stop, and then it goes on to a pull in stream mode only. *)
LEMMA ToldToStop ==
  ASSUME "stream" \notin HookSwallows, CallInv, RunnerStep \/ HookReturns \/ HookRaises, opCancel = "requested"
  PROVE  runner' = "ended"
  <1>1. CASE RunnerStep
    BY <1>1 DEF RunnerStep, PullReturns, PullExpires, RunnerCancelled, EndRunner
  <1>2. CASE HookReturns
    <2>1. mode # "stream"  BY <1>2 DEF HookReturns
    <2>2. QED  BY <1>2, <2>1 DEF HookReturns, EndRunner
  <1>3. CASE HookRaises  BY <1>3 DEF HookRaises, EndRunner
  <1>4. QED  BY <1>1, <1>2, <1>3

LEMMA DrainedNext ==
  ASSUME "stream" \notin HookSwallows, CallInv, Drained, [Next]_vars
  PROVE  Drained'
  <1> USE DEF CallInv, call, work, teardown
  <1>1. CASE CallStep
    <2> SUFFICES ASSUME CallStep PROVE Drained'
      BY <1>1
    <2>1. CASE Bind \/ BindCancelled
      BY <2>1 DEF Bind, BindCancelled, Return, Drained, Proceeding
    <2>2. CASE ReadClock
      <3>1. pc = "clock" /\ op = "none" /\ cl = "none" /\ pull = "none" /\ UNCHANGED <<opCancel, pull>>
        BY <2>2 DEF ReadClock, Proceeding, Operated
      <3>2. \/ pc' = "running" /\ cl' = cl
            \/ pc' = "waiting" /\ cl' = "waiting" /\ op' = op
        BY <2>2, Snapshot DEF ReadClock
      <3>3. QED  BY <3>1, <3>2 DEF Drained
    <2>3. CASE RunReturns \/ RunExpires
      BY <2>3 DEF RunReturns, RunExpires, Drained, Proceeding
    <2>4. CASE RunCancelled
      <3>1. pc' = "waiting" /\ cl' = "waiting" /\ (pull = "active" => "pull" \in clPending')
        BY <2>4, Snapshot DEF RunCancelled
      <3>2. UNCHANGED <<op, pull>> /\ (op = "active" => opCancel' = "requested")
        BY <2>4 DEF RunCancelled, Drained, Proceeding
      <3>3. QED  BY <3>1, <3>2 DEF Drained
    <2>5. CASE Settle
      <3>1. pc' = "waiting" /\ cl' = "waiting" /\ (pull = "active" => "pull" \in clPending')
        BY <2>5, Snapshot DEF Settle
      <3>2. UNCHANGED <<op, pull, opCancel>> /\ (op = "active" => opCancel = "requested")
        BY <2>5 DEF Settle, Drained
      <3>3. QED  BY <3>1, <3>2 DEF Drained
    <2>6. CASE CleanupReturns \/ CleanupExpires \/ CleanupCancelled \/ Finish
      <3>1. UNCHANGED <<op, opCancel, pull, cl, clPending>> /\ pc \in {"waiting", "finish"} /\ pc' \in {"done", "finish"}
        BY <2>6 DEF CleanupReturns, CleanupExpires, CleanupCancelled, Finish, AfterCleanup, Return
      <3>2. QED  BY <3>1 DEF Drained
    <2>7. QED  BY <2>1, <2>2, <2>3, <2>4, <2>5, <2>6 DEF CallStep
  <1>2. CASE RunnerStep \/ HookReturns \/ HookRaises
    <2>1. Moved  BY <1>2, HookMoves, EndMoves, PullMoves DEF RunnerStep
    <2>2. op = "active"  BY <2>1 DEF Moved, Operated, CallTyped, TaskStates
    <2>3. CASE opCancel = "requested"
      <3>1. runner' = "ended"  BY <1>2, <2>3, ToldToStop
      <3>2. op' = "done" /\ pull' = pull /\ UNCHANGED <<pc, cl, clPending>>  BY <2>1, <3>1 DEF Moved
      <3>3. QED  BY <3>2 DEF Drained
    <2>4. CASE opCancel # "requested"
      <3>1. cl = "none" /\ pc # "settled"  BY <2>2, <2>4 DEF Drained
      <3>2. UNCHANGED <<pc, cl>>  BY <2>1 DEF Moved
      <3>3. QED  BY <3>1, <3>2 DEF Drained
    <2>5. QED  BY <2>3, <2>4
  <1>3. CASE TeardownStep
    BY <1>3 DEF TeardownStep, CallCleanup, CleanupHookExpires, Finished, Drained
  <1>4. CASE PullAnswers \/ CleanupEnded
    BY <1>4 DEF PullAnswers, CleanupEnded, Drained, TearingDown
  <1>5. CASE TimerStep \/ CallerCancels \/ Quiet \/ UNCHANGED vars
    BY <1>5 DEF TimerStep, OverallTimer, IdleTimer, CleanupTimer, ReceiptTimer, CallerCancels, Quiet, vars, Drained
  <1>6. QED  BY <1>1, <1>2, <1>3, <1>4, <1>5 DEF Next, AdapterStep

(* The adapter's cleanup hook never runs while its selected hook or a pull *)
(* does, for any adapter whose stream hook obeys its cancellation: a       *)
(* completing hook may ignore it as long as it likes.  (One that opens a   *)
(* stream after it was cancelled breaks it: run provider_race.)            *)
THEOREM CleanupRacesNothing ==
  ASSUME "stream" \notin HookSwallows
  PROVE  Spec => []CleanupNeverRaces
  <1>1. Init => Drained  BY DEF Init, Drained
  <1>2. CallInv /\ Drained /\ [Next]_vars => Drained'  BY DrainedNext
  <1>3. CallInv /\ Drained => CleanupNeverRaces
    <2> SUFFICES ASSUME CallInv, Drained, clHook = "active" PROVE runner # "hook" /\ pull # "active"
      BY DEF CleanupNeverRaces, AdapterBusy
    <2>1. cl \in {"calling", "done"}  BY DEF CallInv, TearingDown, CallTyped
    <2>2. op # "active" /\ pull # "active"  BY <2>1 DEF CallInv, TearingDown, Drained
    <2>3. runner # "hook"  BY <2>2 DEF CallInv, Operated, CallTyped, TaskStates
    <2>4. QED  BY <2>2, <2>3
  <1>4. QED  BY <1>1, <1>2, <1>3, Invariance, PTL DEF Spec

-----------------------------------------------------------------------------
(* What of the call the promise is about is still running. *)
Busy == op = "active" \/ AdapterBusy \/ cl \in {"waiting", "calling"} \/ clHook = "active"

(* A step that is not the caller's or the call's is of a task or hook that *)
(* was running.                                                            *)
LEMMA TaskSteps ==
  ASSUME CallInv, RunnerStep \/ TeardownStep \/ AdapterStep
  PROVE  Busy /\ UNCHANGED <<pc, outcome, cancels>>
  <1> USE DEF CallInv, call, work, teardown
  <1>1. CASE RunnerStep \/ HookReturns \/ HookRaises
    <2>1. Moved  BY <1>1, HookMoves, EndMoves, PullMoves DEF RunnerStep
    <2>2. op = "active"  BY <2>1 DEF Moved, Operated, CallTyped, TaskStates
    <2>3. QED  BY <2>1, <2>2 DEF Moved, Busy
  <1>2. CASE TeardownStep
    BY <1>2 DEF TeardownStep, CallCleanup, CleanupHookExpires, Busy
  <1>3. CASE PullAnswers \/ CleanupEnded
    BY <1>3 DEF PullAnswers, CleanupEnded, Busy, AdapterBusy
  <1>4. QED  BY <1>1, <1>2, <1>3 DEF AdapterStep

(* The call ends in one step, with nothing else happening in it. *)
LEMMA CallEnds ==
  ASSUME CallInv, CallStep
  PROVE  /\ pc # "done" /\ cancels' = cancels
         /\ pc' = "done" => /\ UNCHANGED <<op, runner, pull, cl, clHook>>
                            /\ \E h, s : s \in BOOLEAN /\ outcome' = [how |-> h, cleanup |-> s]
  <1> USE DEF call, work, teardown
  <1>1. pc # "done" /\ cancels' = cancels
    BY DEF CallStep, Bind, BindCancelled, ReadClock, RunReturns, RunExpires, RunCancelled, Settle,
           CleanupReturns, CleanupExpires, CleanupCancelled, Finish
  <1>2. ASSUME pc' = "done"
        PROVE  Bind \/ BindCancelled \/ CleanupReturns \/ CleanupExpires \/ CleanupCancelled \/ Finish
    BY <1>2 DEF CallStep, ReadClock, RunReturns, RunExpires, RunCancelled, Settle, BeginCleanup
  <1>3. ASSUME pc' = "done" PROVE UNCHANGED <<op, runner, pull, cl, clHook>>
    BY <1>2, <1>3 DEF Bind, BindCancelled, CleanupReturns, CleanupExpires, CleanupCancelled, Finish
  <1>4. ASSUME NEW s \in BOOLEAN, AfterCleanup(s), pc' = "done" PROVE Return(verdict, FALSE)
    BY <1>4 DEF AfterCleanup
  <1>5. ASSUME pc' = "done" PROVE \E h, s : s \in BOOLEAN /\ Return(h, s)
    <2>1. CASE Bind \/ BindCancelled \/ CleanupCancelled
      BY <1>5, <2>1 DEF Bind, BindCancelled, CleanupCancelled
    <2>2. CASE CleanupReturns
      BY <1>4, <1>5, <2>2 DEF CleanupReturns
    <2>3. CASE CleanupExpires
      BY <1>4, <1>5, <2>3 DEF CleanupExpires
    <2>4. CASE Finish
      <3>1. outcome.cleanup \in BOOLEAN  BY DEF CallInv, CallTyped
      <3>2. QED  BY <2>4, <3>1 DEF Finish
    <2>5. QED  BY <1>2, <1>5, <2>1, <2>2, <2>3, <2>4
  <1>6. QED  BY <1>1, <1>3, <1>5 DEF Return

(* A result that may be used leaves nothing running, and a cancelled call  *)
(* has none.                                                               *)
EndAllowed ==
    pc = "done" =>
        /\ outcome.how \in Verdicts
        /\ cancels > 0 => outcome.how \in Exceptions
        /\ outcome.how = "completed" /\ outcome.cleanup => ~Busy

LEMMA EndKept == CallInv => EndAllowed
  <1> SUFFICES ASSUME CallInv, pc = "done"
               PROVE  /\ outcome.how \in Verdicts
                      /\ cancels > 0 => outcome.how \in Exceptions
                      /\ outcome.how = "completed" /\ outcome.cleanup => ~Busy
    BY DEF EndAllowed
  <1>1. outcome.how \in Verdicts /\ (cancels > 0 => outcome.how \in Exceptions)
    BY DEF CallInv, CallTyped, Proceeding, Cancelled
  <1>2. ASSUME outcome.how = "completed", outcome.cleanup PROVE ~Busy
    <2>1. verdict = "completed" /\ ending = "completed" /\ clResult = "ok"
      BY <1>2, NoneElse DEF CallInv, Proceeding
    <2>2. cl = "done" /\ clHook = "done"  BY <2>1, NoneElse DEF CallInv, TearingDown
    <2>3. runner = "ended" /\ op = "done" /\ pull # "active"  BY <2>1, NoneElse DEF CallInv, Operated
    <2>4. QED  BY <2>2, <2>3 DEF Busy, AdapterBusy
  <1>3. QED  BY <1>1, <1>2

(* The tasks implement the bounded call: it ends once, completed output    *)
(* with a successful cleanup leaves nothing of the call running, a         *)
(* cancelled call returns no result, and once the call is over its work    *)
(* can only cease, for every adapter, deadline and cancellation.           *)
THEOREM PromiseKept == Spec => KeepsPromise
  <1> USE DEF Promised!callVars
  <1>1. Init => Promised!CallInit
    <2> SUFFICES ASSUME Init PROVE Promised!CallInit
      OBVIOUS
    <2>1. pc # "done" /\ ~(cancels > 0) /\ ~Busy  BY DEF Init, Busy, AdapterBusy
    <2>2. QED  BY <2>1 DEF Promised!CallInit, Promised!Ongoing, Busy
  <1>2. (CallInv => EndAllowed)'  BY EndKept, PTL
  <1>3. CallInv /\ CallInv' /\ [Next]_vars => [Promised!CallNext]_(Promised!callVars)
    <2> SUFFICES ASSUME CallInv, CallInv', [Next]_vars PROVE [Promised!CallNext]_(Promised!callVars)
      OBVIOUS
    <2>1. CASE pc # "done" /\ pc' # "done" /\ cancels' = cancels
      <3>1. CASE Busy' <=> Busy  BY <2>1, <3>1 DEF Busy
      <3>2. CASE Busy' <=> ~Busy
        <4>1. Promised!Works  BY <2>1, <3>2 DEF Promised!Works, Busy
        <4>2. QED  BY <4>1 DEF Promised!CallNext
      <3>3. QED  BY <3>1, <3>2
    <2>2. CASE CallStep /\ pc' = "done"
      <3>1. PICK h, s : s \in BOOLEAN /\ outcome' = [how |-> h, cleanup |-> s]  BY <2>2, CallEnds
      <3>2. outcome'.how = h /\ outcome'.cleanup = s  BY <3>1
      <3>3. h \in Promised!Hows /\ (cancels' > 0 => h \in Promised!Exceptions) /\ (h = "completed" /\ s => ~Busy')
        BY <1>2, <2>2, <3>2
        DEF EndAllowed, Verdicts, Statuses, Exceptions, Promised!Hows, Promised!Statuses, Promised!Exceptions
      <3>4. pc # "done" /\ cancels' = cancels /\ (Busy' <=> Busy)
        BY <2>2, CallEnds DEF Busy, AdapterBusy
      <3>5. Promised!EndsAs([how |-> h, cleanup |-> s])
        BY <2>2, <3>1, <3>3, <3>4 DEF Promised!EndsAs, Promised!Released, Busy
      <3>6. QED  BY <3>1, <3>3, <3>5 DEF Promised!CallNext
    <2>3. CASE CallerCancels
      <3>1. pc # "done" /\ pc' = pc /\ cancels' > 0 /\ (Busy' <=> Busy)
        BY <2>3 DEF CallerCancels, work, teardown, Busy, AdapterBusy, CallInv, CallTyped
      <3>2. Promised!IsCancelled  BY <3>1 DEF Promised!IsCancelled, Busy
      <3>3. QED  BY <3>2 DEF Promised!CallNext
    <2>4. CASE pc = "done" /\ UNCHANGED <<pc, outcome, cancels>> /\ (Busy' => Busy)
      <3>1. CASE Busy' <=> Busy  BY <2>4, <3>1 DEF Busy
      <3>2. CASE Busy /\ ~Busy'
        <4>1. Promised!LetsGo  BY <2>4, <3>2 DEF Promised!LetsGo, Busy
        <4>2. QED  BY <4>1 DEF Promised!CallNext
      <3>3. QED  BY <2>4, <3>1, <3>2
    <2>5. CASE RunnerStep \/ TeardownStep \/ AdapterStep
      BY <2>1, <2>4, <2>5, TaskSteps
    <2>6. CASE TimerStep \/ Quiet \/ UNCHANGED vars
      <3>1. UNCHANGED <<pc, outcome, cancels, op, runner, pull, cl, clHook>>
        BY <2>6 DEF TimerStep, OverallTimer, IdleTimer, CleanupTimer, ReceiptTimer, Quiet, vars, call, work, teardown
      <3>2. Busy' <=> Busy  BY <3>1 DEF Busy, AdapterBusy
      <3>3. QED  BY <2>1, <2>4, <3>1, <3>2
    <2>7. CASE CallStep /\ pc' # "done"  BY <2>1, <2>7, CallEnds
    <2>8. QED  BY <2>2, <2>3, <2>5, <2>6, <2>7 DEF Next
  <1>4. QED  BY <1>1, <1>3, Invariance, PTL DEF Spec, KeepsPromise, Promised!CallSpec
=============================================================================
