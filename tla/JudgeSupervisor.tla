--------------------------- MODULE JudgeSupervisor ---------------------------
(***************************************************************************)
(* One bounded native judge process: _run of providers/codex_judge.py, the *)
(* channel of _codex_judge_channel.py and the supervisor process of        *)
(* _codex_judge_supervisor.py.                                             *)
(*                                                                         *)
(* The parent is an asyncio task (pc).  The supervisor is a process with   *)
(* two threads (main, reader) and two locks (transition, reporting), which *)
(* leads the process group of the target.  Parent and supervisor share the *)
(* control pipe, of which only the closing matters, and the status pipe.   *)
(* The target may leave a child behind that keeps the data pipes open.     *)
(* Deadlines are steps that may be taken at any time.                      *)
(* The parent knows how the supervisor ended by its return code alone: a   *)
(* SIGKILL from outside looks like the one that the group kill sends.      *)
(***************************************************************************)
EXTENDS Naturals, Sequences

CONSTANTS
    Interference,    \* somebody may kill the supervisor
    ParentMayDie,    \* the parent process may be killed
    MaxCancels,      \* bound: cancellations by the caller
    None

Exits   == {"exit_zero", "exit_nonzero"}
Frames  == Exits \cup {"start_failed", "stopping"}
Primary == {"ok", "timeout", "start_failed", "process_failed", "protocol",
            "output_limit", "cancelled"}

ASSUME SupervisorAssumption ==
    /\ Interference \in BOOLEAN
    /\ ParentMayDie \in BOOLEAN
    /\ MaxCancels \in Nat
    /\ None \notin Frames \cup Primary \cup {"failed", "cleanup_failed", "output", "main", "reader"}

VARIABLES
    \* the parent
    pc,
    primary,         \* what the exchange came to
    failure,         \* cleanup_failure
    result,          \* what _run returned or raised
    code,            \* what exit_code() returned
    frames,          \* JudgeSupervisor.frames
    verify,          \* how verify_stop() ended
    cancelReq,       \* a cancellation not yet delivered
    cancels,         \* history: cancellations so far
    \* the pipes
    control,         \* the parent still holds its end of the control pipe
    statusOpen,      \* the status pipe has a reader
    status,          \* frames written and not yet read
    \* the supervisor process
    sup,             \* none, alive, or how it ended: killed with its group,
                     \* struck alone by a SIGKILL, died or exited otherwise
    main, reader,
    transition, reporting, stopping,
    \* its process group
    group,           \* the target and its child, while they are alive
    holders,         \* who holds the data pipes
    exit             \* exit status of the target

parent  == <<pc, primary, failure, result, code, frames, verify>>
caller  == <<cancelReq, cancels>>
pipes   == <<control, statusOpen, status>>
threads == <<main, reader, transition, reporting, stopping>>
procs   == <<group, holders, exit>>
vars    == <<parent, caller, pipes, sup, threads, procs>>

-----------------------------------------------------------------------------
(* The parent: launch. *)

(* The operating system has started the supervisor. *)
SpawnSupervisor ==
    /\ pc = "launch"
    /\ sup = "none"
    /\ sup' = "alive"
    /\ holders' = {"sup"}
    /\ UNCHANGED <<parent, caller, pipes, threads, group, exit>>

(* create_subprocess_exec returns the handle. *)
Launched ==
    /\ pc = "launch"
    /\ ~cancelReq
    /\ sup # "none"
    /\ pc' = "exchange"
    /\ UNCHANGED <<primary, failure, result, code, frames, verify, caller,
                   pipes, sup, threads, procs>>

(* No handle: asyncio kills the direct child, and both descriptors are     *)
(* released.  A target that it had started meanwhile is left alone.        *)
LaunchFails ==
    /\ pc = "launch"
    /\ \/ /\ cancelReq
          /\ result' = "cancelled"
          /\ cancelReq' = FALSE
       \/ /\ ~cancelReq
          /\ result' \in {"timeout", "start_failed"}
          /\ UNCHANGED cancelReq
    /\ pc' = "done"
    /\ control' = FALSE
    /\ statusOpen' = FALSE
    /\ sup' = IF sup = "alive" THEN "died" ELSE sup
    /\ holders' = holders \ {"sup"}
    /\ UNCHANGED <<primary, failure, code, frames, verify, cancels, status,
                   threads, group, exit>>

-----------------------------------------------------------------------------
(* The parent: exchange. *)

Alive == sup = "alive"

(* The exchange ends; what is read of the status pipe stays in frames. *)
Settle(p) ==
    /\ primary' = p
    /\ pc' = "settled"

(* Defect: any frame but start_failed is taken for the completion. *)
ReadAnyFrame ==
    /\ pc = "exchange" /\ ~cancelReq /\ code = None
    /\ status # <<>>
    /\ status' = Tail(status)
    /\ frames' = Append(frames, Head(status))
    /\ code' = "exit_zero"
    /\ UNCHANGED <<pc, primary, failure, result, verify, caller, control, statusOpen, sup,
                   threads, procs>>

(* exit_code(): one frame, which must be the target's completion. *)
ReadExit ==
    /\ pc = "exchange" /\ ~cancelReq /\ code = None
    /\ status # <<>>
    /\ status' = Tail(status)
    /\ frames' = Append(frames, Head(status))
    /\ IF Head(status) \in Exits
       THEN /\ code' = Head(status)
            /\ UNCHANGED <<pc, primary>>
       ELSE /\ Settle(IF Head(status) = "start_failed"
                      THEN "start_failed" ELSE "process_failed")
            /\ UNCHANGED code
    /\ UNCHANGED <<failure, result, verify, caller, control, statusOpen, sup,
                   threads, procs>>

(* The status pipe ends before a frame. *)
StatusLost ==
    /\ pc = "exchange" /\ ~cancelReq /\ code = None
    /\ status = <<>> /\ ~Alive
    /\ Settle("protocol")
    /\ UNCHANGED <<failure, result, code, frames, verify, caller, pipes, sup,
                   threads, procs>>

(* Both data pipes are at their end and the completion has been read. *)
ExchangeReturns ==
    /\ pc = "exchange" /\ ~cancelReq /\ code # None
    /\ holders = {}
    /\ Settle(IF code = "exit_zero" THEN "ok" ELSE "process_failed")
    /\ UNCHANGED <<failure, result, code, frames, verify, caller, pipes, sup,
                   threads, procs>>

(* The target has written more output than the bounds allow. *)
OutputExceeded ==
    /\ pc = "exchange" /\ ~cancelReq
    /\ group # {}
    /\ Settle("output_limit")
    /\ UNCHANGED <<failure, result, code, frames, verify, caller, pipes, sup,
                   threads, procs>>

ExchangeExpires ==
    /\ pc = "exchange" /\ ~cancelReq
    /\ Settle("timeout")
    /\ UNCHANGED <<failure, result, code, frames, verify, caller, pipes, sup,
                   threads, procs>>

(* A cancellation reaches the exchange, or the wait for its tasks. *)
ExchangeCancelled ==
    /\ pc \in {"exchange", "settled"}
    /\ cancelReq
    /\ cancelReq' = FALSE
    /\ Settle("cancelled")
    /\ UNCHANGED <<failure, result, code, frames, verify, cancels, pipes, sup,
                   threads, procs>>

-----------------------------------------------------------------------------
(* The parent: finally. *)

(* supervisor.stop() *)
Stop ==
    /\ pc = "settled" /\ ~cancelReq
    /\ control' = FALSE
    /\ pc' = "drain"
    /\ UNCHANGED <<primary, failure, result, code, frames, verify, caller,
                   statusOpen, status, sup, threads, procs>>

Stopped == \E i \in 1..Len(frames) : frames[i] = "stopping"

(* verify_stop(): frames up to "stopping", at most two of them, then the   *)
(* end of the status pipe and nothing else.                                *)
VerifyReads ==
    /\ pc = "drain" /\ verify = None
    /\ status # <<>>
    /\ IF Stopped \/ Len(frames) >= 2
       THEN verify' = "failed" /\ UNCHANGED <<status, frames>>
       ELSE /\ status' = Tail(status)
            /\ frames' = Append(frames, Head(status))
            /\ UNCHANGED verify
    /\ UNCHANGED <<pc, primary, failure, result, code, caller, control,
                   statusOpen, sup, threads, procs>>

VerifyEnds ==
    /\ pc = "drain" /\ verify = None
    /\ status = <<>> /\ ~Alive
    /\ verify' = IF Stopped THEN "ok" ELSE "failed"
    /\ UNCHANGED <<pc, primary, failure, result, code, frames, caller, pipes,
                   sup, threads, procs>>

(* Defect: a cleanup failure replaces the cancellation. *)
RaisedFailure(p, f) ==
    IF f # None /\ p \in {"ok", "cancelled"} THEN "cleanup_failed" ELSE p

(* What _run returns or raises: a cleanup failure replaces a result, and   *)
(* goes along with an exception.                                           *)
Raised(p, f) == IF f # None /\ p = "ok" THEN "cleanup_failed" ELSE p

Close(p, f) ==
    /\ failure' = f
    /\ result' = Raised(p, f)
    /\ pc' = "done"

(* The supervisor's return code is -SIGKILL. *)
Sigkilled == sup \in {"killed", "struck"}

(* The output is drained, the supervisor reaped and its stop verified. *)
DrainReturns ==
    /\ pc = "drain" /\ ~cancelReq
    /\ holders = {} /\ ~Alive /\ verify # None
    /\ Close(primary, IF verify = "ok" /\ Sigkilled THEN None ELSE "failed")
    /\ statusOpen' = FALSE
    /\ UNCHANGED <<primary, code, frames, verify, caller, control, status, sup,
                   threads, procs>>

(* The five seconds are over. *)
DrainExpires ==
    /\ pc = "drain" /\ ~cancelReq
    /\ Close(primary, "timeout")
    /\ statusOpen' = FALSE
    /\ UNCHANGED <<primary, code, frames, verify, caller, control, status, sup,
                   threads, procs>>

(* A cancellation of the wait itself: nothing is verified.  One that hits  *)
(* the wait for the four tasks after it also skips supervisor.close().     *)
DrainCancelled ==
    /\ pc = "drain" /\ cancelReq
    /\ cancelReq' = FALSE
    /\ Close("cancelled", None)
    /\ statusOpen' \in {FALSE, statusOpen}
    /\ UNCHANGED <<primary, code, frames, verify, cancels, control, status,
                   sup, threads, procs>>

CallerCancels ==
    /\ pc \notin {"done", "dead"}
    /\ ~cancelReq
    /\ cancels < MaxCancels
    /\ cancelReq' = TRUE
    /\ cancels' = cancels + 1
    /\ UNCHANGED <<parent, pipes, sup, threads, procs>>

(* The parent process is killed: the kernel closes its descriptors. *)
ParentDies ==
    /\ ParentMayDie
    /\ pc \notin {"done", "dead"}
    /\ pc' = "dead"
    /\ control' = FALSE
    /\ statusOpen' = FALSE
    /\ UNCHANGED <<primary, failure, result, code, frames, verify, caller,
                   status, sup, threads, procs>>

-----------------------------------------------------------------------------
(* The supervisor, main thread. *)

(* Under transition: a stop that was requested before forbids the target.  *)
MainStarts ==
    /\ Alive /\ main = "begin"
    /\ transition = None
    /\ IF stopping
       THEN main' = "failed" /\ UNCHANGED transition
       ELSE main' = "spawn" /\ transition' = "main"
    /\ UNCHANGED <<parent, caller, pipes, sup, reader, reporting, stopping, procs>>

(* subprocess.Popen, and the end of the locked block. *)
MainSpawns ==
    /\ Alive /\ main = "spawn"
    /\ transition' = None
    /\ \/ /\ main' = "closing"
          /\ group' = {"target"}
          /\ holders' = holders \cup {"target"}
       \/ main' = "failed" /\ UNCHANGED <<group, holders>>
    /\ UNCHANGED <<parent, caller, pipes, sup, reader, reporting, stopping, exit>>

(* Only the target and its descendants retain the data pipes. *)
MainCloses ==
    /\ Alive /\ main = "closing"
    /\ main' = "wait"
    /\ holders' = holders \ {"sup"}
    /\ UNCHANGED <<parent, caller, pipes, sup, reader, transition, reporting,
                   stopping, group, exit>>

(* Defect: the child is polled once. *)
MainPolled ==
    /\ Alive /\ main = "wait"
    /\ main' = "report"
    /\ UNCHANGED <<parent, caller, pipes, sup, reader, transition, reporting,
                   stopping, procs>>

MainWaited ==
    /\ Alive /\ main = "wait"
    /\ exit # None
    /\ main' = "report"
    /\ UNCHANGED <<parent, caller, pipes, sup, reader, transition, reporting,
                   stopping, procs>>

(* Defect: the completion is written without the reporting lock. *)
ReportUnlocked ==
    /\ Alive /\ main = "report"
    /\ statusOpen
    /\ status' = Append(status, exit)
    /\ main' = "join"
    /\ UNCHANGED <<parent, caller, control, statusOpen, sup, reader, transition,
                   reporting, stopping, procs>>

(* report(exit): a status pipe without a reader takes it to start_failed.  *)
MainReports ==
    /\ Alive /\ main = "report"
    /\ reporting = None
    /\ IF statusOpen
       THEN main' = "join" /\ status' = Append(status, exit)
       ELSE main' = "failed" /\ UNCHANGED status
    /\ UNCHANGED <<parent, caller, control, statusOpen, sup, reader, transition,
                   reporting, stopping, procs>>

(* except OSError: a second failure ends the process, without a signal.    *)
MainFails ==
    /\ Alive /\ main = "failed"
    /\ reporting = None
    /\ holders' = holders \ {"sup"}
    /\ IF statusOpen
       THEN main' = "join" /\ status' = Append(status, "start_failed") /\ UNCHANGED sup
       ELSE sup' = "exited" /\ UNCHANGED <<main, status>>
    /\ UNCHANGED <<parent, caller, control, statusOpen, reader, transition,
                   reporting, stopping, group, exit>>

-----------------------------------------------------------------------------
(* The supervisor, reader thread. *)

(* The control pipe is at its end. *)
ReaderWakes ==
    /\ Alive /\ reader = "read"
    /\ ~control
    /\ stopping' = TRUE
    /\ reader' = "transition"
    /\ UNCHANGED <<parent, caller, pipes, sup, main, transition, reporting, procs>>

(* Defect: the main thread waits for the target under transition. *)
ReaderLocksLate ==
    /\ Alive /\ reader = "transition"
    /\ transition = None /\ main \notin {"closing", "wait"}
    /\ transition' = "reader"
    /\ reader' = "report"
    /\ UNCHANGED <<parent, caller, pipes, sup, main, reporting, stopping, procs>>

ReaderLocks ==
    /\ Alive /\ reader = "transition"
    /\ transition = None
    /\ transition' = "reader"
    /\ reader' = "report"
    /\ UNCHANGED <<parent, caller, pipes, sup, main, reporting, stopping, procs>>

(* A status pipe without a reader ends the process with code 125. *)
ReaderReports ==
    /\ Alive /\ reader = "report"
    /\ reporting = None
    /\ IF statusOpen
       THEN /\ reporting' = "reader"
            /\ status' = Append(status, "stopping")
            /\ reader' = "kill"
            /\ UNCHANGED <<sup, holders>>
       ELSE /\ sup' = "exited"
            /\ holders' = holders \ {"sup"}
            /\ UNCHANGED <<reporting, status, reader>>
    /\ UNCHANGED <<parent, caller, control, statusOpen, main, transition,
                   stopping, group, exit>>

(* Defect: the supervisor signals itself and not its group. *)
KillSelf ==
    /\ Alive /\ reader = "kill"
    /\ sup' = "killed"
    /\ holders' = {}
    /\ UNCHANGED <<parent, caller, pipes, threads, group, exit>>

(* killpg(getpgrp(), SIGKILL) takes the supervisor along. *)
ReaderKills ==
    /\ Alive /\ reader = "kill"
    /\ sup' = "killed"
    /\ group' = {}
    /\ holders' = {}
    /\ UNCHANGED <<parent, caller, pipes, threads, exit>>

-----------------------------------------------------------------------------
(* The target, its child, and others. *)

(* The target starts a child, which may keep the data pipes. *)
TargetForks ==
    /\ group = {"target"}
    /\ group' = {"target", "child"}
    /\ \/ holders' = holders \cup {"child"}
       \/ UNCHANGED holders
    /\ UNCHANGED <<parent, caller, pipes, sup, threads, exit>>

TargetExits ==
    /\ "target" \in group
    /\ exit' \in Exits
    /\ group' = group \ {"target"}
    /\ holders' = holders \ {"target"}
    /\ UNCHANGED <<parent, caller, pipes, sup, threads>>

ChildExits ==
    /\ "child" \in group
    /\ group' = group \ {"child"}
    /\ holders' = holders \ {"child"}
    /\ UNCHANGED <<parent, caller, pipes, sup, threads, exit>>

(* Somebody else ends the supervisor, and only it, by a SIGKILL or         *)
(* otherwise.                                                              *)
SupervisorDies ==
    /\ Interference
    /\ Alive
    /\ sup' \in {"died", "struck"}
    /\ holders' = holders \ {"sup"}
    /\ UNCHANGED <<parent, caller, pipes, threads, group, exit>>

Quiet ==
    /\ pc \in {"done", "dead"}
    /\ ~Alive
    /\ UNCHANGED vars

-----------------------------------------------------------------------------
Init ==
    /\ pc = "launch"
    /\ primary = None /\ failure = None /\ result = None
    /\ code = None /\ frames = <<>> /\ verify = None
    /\ cancelReq = FALSE /\ cancels = 0
    /\ control = TRUE /\ statusOpen = TRUE /\ status = <<>>
    /\ sup = "none"
    /\ main = "begin" /\ reader = "read"
    /\ transition = None /\ reporting = None /\ stopping = FALSE
    /\ group = {} /\ holders = {} /\ exit = None

Parent ==
    \/ SpawnSupervisor \/ Launched \/ LaunchFails
    \/ ReadExit \/ StatusLost \/ ExchangeReturns
    \/ ExchangeExpires \/ ExchangeCancelled
    \/ Stop \/ VerifyReads \/ VerifyEnds
    \/ DrainReturns \/ DrainExpires \/ DrainCancelled

Main   == MainStarts \/ MainSpawns \/ MainCloses \/ MainWaited \/ MainReports
            \/ MainFails
Reader == ReaderWakes \/ ReaderLocks \/ ReaderReports \/ ReaderKills
Group  == OutputExceeded \/ TargetForks \/ TargetExits \/ ChildExits
Others == CallerCancels \/ ParentDies \/ SupervisorDies

Next == Parent \/ Main \/ Reader \/ Group \/ Others \/ Quiet

Spec == Init /\ [][Next]_vars

(* The event loop runs, deadlines pass, and the scheduler runs both        *)
(* threads of the supervisor; subprocess.Popen returns or raises.  The     *)
(* target need not ever exit.                                              *)
FairSpec == Spec /\ WF_vars(Parent) /\ WF_vars(Main) /\ WF_vars(Reader)

-----------------------------------------------------------------------------
TypeOK ==
    /\ pc \in {"launch", "exchange", "settled", "drain", "done", "dead"}
    /\ primary \in Primary \cup {None}
    /\ failure \in {None, "failed", "timeout"}
    /\ result \in Primary \cup {None, "cleanup_failed"}
    /\ code \in Exits \cup {None}
    /\ frames \in Seq(Frames)
    /\ verify \in {None, "ok", "failed"}
    /\ cancelReq \in BOOLEAN
    /\ cancels \in 0..MaxCancels
    /\ control \in BOOLEAN
    /\ statusOpen \in BOOLEAN
    /\ status \in Seq(Frames)
    /\ sup \in {"none", "alive", "killed", "struck", "died", "exited"}
    /\ main \in {"begin", "spawn", "closing", "wait", "report", "failed", "join"}
    /\ reader \in {"read", "transition", "report", "kill"}
    /\ transition \in {None, "main", "reader"}
    /\ reporting \in {None, "reader"}
    /\ stopping \in BOOLEAN
    /\ group \subseteq {"target", "child"}
    /\ holders \subseteq {"sup", "target", "child"}
    /\ exit \in Exits \cup {None}

(* The call once had a process handle, and is over. *)
Over == pc = "done" /\ primary # None

(* A SIGKILL from outside between the stop frame and the kill it           *)
(* announces: the return code is the expected one, and the group lives.    *)
Undercut == sup = "struck" /\ reader = "kill"

(* Owned teardown: a call that ends by itself and reports no cleanup       *)
(* failure leaves nothing of the process group alive, whoever else acted   *)
(* on the supervisor, at whatever moment but the one in which it cannot    *)
(* be told from its own kill.                                              *)
ContainedOnReturn ==
    (Over /\ failure = None /\ result # "cancelled") => (group = {} /\ sup = "killed") \/ Undercut

(* "Require target completion rather than inferring it from anchor exit":  *)
(* a verdict is returned only when the target itself exited with zero.     *)
VerdictFromTarget == (pc = "done" /\ result = "ok") => exit = "exit_zero"

(* The protocol does not accuse itself: unless somebody ended the          *)
(* supervisor, a stop cannot fail to be verified, in whatever order the    *)
(* two threads report.                                                     *)
StopVerifiable == (Over /\ sup \notin {"died", "struck"}) => failure # "failed"

(* "Caller cancellation remains cancellation when teardown fails": once    *)
(* the caller has cancelled, nothing but CancelledError leaves the call.   *)
CancellationRemains == (pc = "done" /\ cancels > 0) => result = "cancelled"

(* No deadline is missed for ever: the call ends, whatever the target and  *)
(* its child do.                                                           *)
CallEnds == <>(pc \in {"done", "dead"})

(* Once control is closed the supervisor does not stay behind, also after  *)
(* the parent itself was killed: the reader gets past both locks.          *)
SupervisorEnds == ~control ~> ~Alive

(* Neither the call nor its supervisor stays behind. *)
ProcessesEnd == CallEnds /\ SupervisorEnds

-----------------------------------------------------------------------------
(* The parent, its supervisor and the two pipes are an implementation of   *)
(* the process that the adapter owns.                                      *)
Kind(v) ==
    CASE v = None -> None [] v = "ok" -> "output" [] v = "cancelled" -> "cancelled" [] OTHER -> "failed"

Phase ==
    CASE pc = "launch" -> "launching" [] pc \in {"exchange", "settled"} -> "working"
      [] pc = "drain" -> "teardown" [] pc = "done" -> "ended" [] OTHER -> "dead"

Owned ==
    [phase    |-> Phase,
     how      |-> Kind(IF pc = "done" THEN result ELSE primary),
     report   |-> pc = "done" /\ failure # None,
     alive    |-> Alive \/ group # {},
     pending  |-> cancelReq,
     undercut |-> Undercut]

Promised == INSTANCE OwnedProcess WITH process <- Owned

(* What assess and judge rely on: output comes with a process that is      *)
(* gone or was undercut, a teardown that failed is reported, a             *)
(* cancellation that was asked for is how the call ends, and after the end *)
(* a process can only cease.                                               *)
StaysOwned == Promised!OwnedSpec
=============================================================================
