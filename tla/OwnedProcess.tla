---------------------------- MODULE OwnedProcess ----------------------------
(***************************************************************************)
(* What _run of providers/codex_judge.py promises about the native process *)
(* it owns, without pipes, threads and timers: it ends once; output comes  *)
(* from a process that is gone; a call that ends by itself says so if its  *)
(* process may not be gone; a cancellation that was asked for is what the  *)
(* call ends with; and after the end a process can only cease.  Nothing is *)
(* promised of a process that was undercut: its anchor was killed from     *)
(* outside as if by its own group kill.                                    *)
(*                                                                         *)
(* A process is [phase, how, report, alive, pending, undercut]: how the    *)
(* exchange ended, whether a teardown failure is reported, whether         *)
(* anything of the process group is alive, and whether a cancellation is   *)
(* on its way.                                                             *)
(***************************************************************************)
CONSTANT None

Fresh ==
    [phase |-> "launching", how |-> None, report |-> FALSE, alive |-> FALSE, pending |-> FALSE,
     undercut |-> FALSE]

Going(p) == p.phase \in {"launching", "working", "teardown"}

(* Task.cancel() *)
Asked(p) == [p EXCEPT !.pending = TRUE]

(* The process group comes to life or dies; after the end it only dies.    *)
Lives(p) ==
    {[p EXCEPT !.alive = a] : a \in IF Going(p) THEN BOOLEAN ELSE {FALSE}}

(* Somebody undercuts it, once it was told to stop and while its anchor is *)
(* alive.                                                                  *)
Undercut(p, alive) ==
    [phase |-> p.phase, how |-> p.how, report |-> p.report, alive |-> alive, pending |-> p.pending,
     undercut |-> TRUE]
Undercuts(p) ==
    {Undercut(p, alive) :
        alive \in {a \in BOOLEAN : p.phase \notin {"launching", "working"} /\ p.alive /\ ~p.undercut}}

(* How the exchange ends, and how the call does. *)
Exchanged(p, how) ==
    [phase |-> "working", how |-> how, report |-> p.report, alive |-> p.alive, pending |-> FALSE,
     undercut |-> p.undercut]
Ended(p, how, report, alive) ==
    [phase |-> "ended", how |-> how, report |-> report, alive |-> alive, pending |-> FALSE,
     undercut |-> p.undercut]

(* The handle is returned; the exchange comes to an end of its own, or a   *)
(* cancellation ends it, or replaces its end; the teardown begins.         *)
Proceeds(p) ==
    CASE p.phase = "launching" /\ ~p.pending -> {[p EXCEPT !.phase = "working"]}
      [] p.phase = "working" /\ p.pending    -> {Exchanged(p, "cancelled")}
      [] p.phase = "working" /\ ~p.pending /\ p.how = None -> {Exchanged(p, h) : h \in {"output", "failed"}}
      [] p.phase = "working" /\ ~p.pending /\ p.how # None -> {[p EXCEPT !.phase = "teardown"]}
      [] OTHER -> {}

(* No handle: what may have been started is not owned. *)
Unstarted(p) ==
    {Ended(p, IF p.pending THEN "cancelled" ELSE "failed", FALSE, a) : a \in {FALSE, p.alive}}

(* A teardown that is not cut short leaves nothing, or reports a failure,  *)
(* or has been deceived; the failure takes the place of output.            *)
TornDown(p) ==
    {Ended(p, IF report /\ p.how = "output" THEN "failed" ELSE p.how, report, p.alive) :
        report \in {r \in BOOLEAN : ~r => ~p.alive \/ p.undercut}}

Endings(p) ==
    CASE p.phase = "launching" -> Unstarted(p)
      [] p.phase = "teardown" /\ ~p.pending -> TornDown(p)
      [] p.phase = "teardown" /\ p.pending  -> {Ended(p, "cancelled", FALSE, p.alive)}
      [] OTHER -> {}

-----------------------------------------------------------------------------
VARIABLE process

OwnedInit == process = Fresh

(* The host may die at any time. *)
OwnedNext ==
    \/ process' \in Lives(process) \cup Undercuts(process) \cup Proceeds(process) \cup Endings(process)
    \/ Going(process) /\ process' \in {Asked(process), [process EXCEPT !.phase = "dead"]}

OwnedSpec == OwnedInit /\ [][OwnedNext]_process
=============================================================================
