------------------------ MODULE JudgeSupervisorProofs ------------------------
(***************************************************************************)
(* What a native judge process promises, for every bound on the            *)
(* cancellations and with or without interference: alone, as the process   *)
(* the adapter owns, and next to the adapter's cleanup hook.               *)
(*                                                                         *)
(* The first part is about the process.  Its inductive invariant says what *)
(* each end of the status pipe knows of the other: everything written so   *)
(* far (wire) is the frames the parent has read and those still in the     *)
(* pipe, and main and reader determine it.  The second part maps it to the *)
(* owned process, and the third puts the cleanup hook beside it.           *)
(***************************************************************************)
EXTENDS JudgeAdapter, SequenceTheorems, TLAPS

(* A killed supervisor has taken its group along. *)
GroupGone == sup = "killed" => group = {}

(* The target runs at most once, and its status is what is reported. *)
TargetOnce ==
    /\ main \in {"begin", "spawn"} => group = {} /\ exit = None
    /\ "target" \in group => exit = None
    /\ main = "report" => exit # None
    /\ \A i \in 1..Len(status) : status[i] \in Exits => status[i] = exit
    /\ code # None => code = exit

(* What the parent returns follows from how its exchange ended. *)
Verdicts ==
    /\ pc \in {"launch", "exchange"} => primary = None
    /\ pc \in {"settled", "drain"} => primary # None
    /\ primary = "ok" => code = "exit_zero"
    /\ result # None => pc = "done"
    /\ pc = "done" => ~cancelReq /\ result # None
    /\ (pc = "done" /\ result = "ok") => primary = "ok"
    /\ (pc = "done" /\ primary = "cancelled") => result = "cancelled"

(* A cancellation is pending, or has ended the exchange or the call. *)
CancelKept ==
    (cancels > 0 /\ pc # "dead") =>
        cancelReq \/ primary = "cancelled" \/ result = "cancelled"

(* The stop frame is written, and read, only of a reader that goes on to   *)
(* the kill, which it does once the parent has closed control.             *)
Announced ==
    /\ \A i \in 1..Len(frames) : frames[i] = "stopping" => reader = "kill"
    /\ \A i \in 1..Len(status) : status[i] = "stopping" => reader = "kill"
    /\ verify = "ok" => reader = "kill"
    /\ control \/ pc \in {"drain", "done", "dead"}
    /\ reader # "read" => ~control

(* The group kill was done, or the supervisor was struck just before it. *)
Taken == sup = "killed" \/ Undercut

(* A call that reports no cleanup failure has seen the kill, or took a     *)
(* stroke for it.                                                          *)
Seen == (Over /\ failure = None /\ result # "cancelled") => Taken

(* While the parent listens to a supervisor nobody has ended: the          *)
(* reporting lock makes the stop frame the last one, and killing follows.  *)
Disturbed == sup \in {"died", "struck"}
Listening == pc \in {"launch", "exchange", "settled", "drain"} /\ ~Disturbed

Wire ==
    /\ statusOpen
    /\ sup \in {"none", "alive", "killed"}
    /\ sup = "none" => pc = "launch"
    /\ sup = "killed" => reader = "kill"
    /\ reader = "kill" <=> reporting = "reader"
    /\ Len(frames) + Len(status)
         = (IF main = "join" THEN 1 ELSE 0) + (IF reader = "kill" THEN 1 ELSE 0)
    /\ \A i \in 1..Len(frames) :
         frames[i] = "stopping" <=> reader = "kill" /\ Len(status) = 0 /\ i = Len(frames)
    /\ \A i \in 1..Len(status) :
         status[i] = "stopping" <=> reader = "kill" /\ i = Len(status)
    /\ verify # "failed"
    /\ verify = "ok" => sup = "killed"

WireInv ==
    /\ Listening => Wire
    /\ ~Disturbed => failure # "failed"

Inv == TypeOK /\ GroupGone /\ TargetOnce /\ Verdicts /\ CancelKept /\ Announced /\ Seen /\ WireInv

-----------------------------------------------------------------------------
(* The types of what the pipes carry, and of everything else. *)
Streams == frames \in Seq(Frames) /\ status \in Seq(Frames)

ParentTyped ==
    /\ pc \in {"launch", "exchange", "settled", "drain", "done", "dead"}
    /\ primary \in Primary \cup {None}
    /\ failure \in {None, "failed", "timeout"}
    /\ result \in Primary \cup {None, "cleanup_failed"}
    /\ code \in Exits \cup {None}
    /\ verify \in {None, "ok", "failed"}
    /\ cancelReq \in BOOLEAN
    /\ cancels \in 0..MaxCancels
    /\ control \in BOOLEAN
    /\ statusOpen \in BOOLEAN

ProcessTyped ==
    /\ sup \in {"none", "alive", "killed", "struck", "died", "exited"}
    /\ main \in {"begin", "spawn", "closing", "wait", "report", "failed", "join"}
    /\ reader \in {"read", "transition", "report", "kill"}
    /\ transition \in {None, "main", "reader"}
    /\ reporting \in {None, "reader"}
    /\ stopping \in BOOLEAN
    /\ group \subseteq {"target", "child"}
    /\ holders \subseteq {"sup", "target", "child"}
    /\ exit \in Exits \cup {None}

(* The type invariant in three parts. *)
LEMMA TypeParts == TypeOK <=> Streams /\ ParentTyped /\ ProcessTyped
  BY DEF TypeOK, Streams, ParentTyped, ProcessTyped

(* The parent keeps its types. *)
LEMMA ParentTypedNext == ASSUME ParentTyped, ProcessTyped, [Next]_vars PROVE ParentTyped'
  <1> USE SupervisorAssumption
  <1>1. CASE SpawnSupervisor
    BY <1>1 DEF SpawnSupervisor, ParentTyped, vars, parent, caller, pipes,
       threads, procs, Exits, Primary
  <1>2. CASE Launched
    BY <1>2 DEF Launched, ParentTyped, vars, parent, caller, pipes,
       threads, procs, Exits, Primary
  <1>3. CASE LaunchFails
    BY <1>3 DEF LaunchFails, ParentTyped, vars, parent, caller, pipes,
       threads, procs, Exits, Primary
  <1>4. CASE ReadExit
    BY <1>4 DEF ReadExit, Settle, ParentTyped, vars, parent, caller,
       pipes, threads, procs, Exits, Primary
  <1>5. CASE StatusLost
    BY <1>5 DEF StatusLost, Settle, ParentTyped, vars, parent, caller,
       pipes, threads, procs, Exits, Primary
  <1>6. CASE ExchangeReturns
    BY <1>6 DEF ExchangeReturns, Settle, ParentTyped, vars, parent,
       caller, pipes, threads, procs, Exits, Primary
  <1>7. CASE ExchangeExpires
    BY <1>7 DEF ExchangeExpires, Settle, ParentTyped, vars, parent,
       caller, pipes, threads, procs, Exits, Primary
  <1>8. CASE ExchangeCancelled
    BY <1>8 DEF ExchangeCancelled, Settle, ParentTyped, vars, parent,
       caller, pipes, threads, procs, Exits, Primary
  <1>9. CASE Stop
    BY <1>9 DEF Stop, ParentTyped, vars, parent, caller, pipes, threads,
       procs, Exits, Primary
  <1>10. CASE VerifyReads
    BY <1>10 DEF VerifyReads, ParentTyped, vars, parent, caller, pipes,
       threads, procs, Exits, Primary
  <1>11. CASE VerifyEnds
    BY <1>11 DEF VerifyEnds, ParentTyped, vars, parent, caller, pipes,
       threads, procs, Exits, Primary
  <1>12. CASE DrainReturns
    BY <1>12 DEF DrainReturns, Close, Raised, ParentTyped, vars, parent,
       caller, pipes, threads, procs, Exits, Primary
  <1>13. CASE DrainExpires
    BY <1>13 DEF DrainExpires, Close, Raised, ParentTyped, vars, parent,
       caller, pipes, threads, procs, Exits, Primary
  <1>14. CASE DrainCancelled
    BY <1>14 DEF DrainCancelled, Close, Raised, ParentTyped, vars, parent,
       caller, pipes, threads, procs, Exits, Primary
  <1>15. CASE MainStarts
    BY <1>15 DEF MainStarts, ParentTyped, vars, parent, caller, pipes,
       threads, procs, Exits, Primary
  <1>16. CASE MainSpawns
    BY <1>16 DEF MainSpawns, ParentTyped, vars, parent, caller, pipes,
       threads, procs, Exits, Primary
  <1>17. CASE MainCloses
    BY <1>17 DEF MainCloses, ParentTyped, vars, parent, caller, pipes,
       threads, procs, Exits, Primary
  <1>18. CASE MainWaited
    BY <1>18 DEF MainWaited, ParentTyped, vars, parent, caller, pipes,
       threads, procs, Exits, Primary
  <1>19. CASE MainReports
    BY <1>19 DEF MainReports, ParentTyped, vars, parent, caller, pipes,
       threads, procs, Exits, Primary
  <1>20. CASE MainFails
    BY <1>20 DEF MainFails, ParentTyped, vars, parent, caller, pipes,
       threads, procs, Exits, Primary
  <1>21. CASE ReaderWakes
    BY <1>21 DEF ReaderWakes, ParentTyped, vars, parent, caller, pipes,
       threads, procs, Exits, Primary
  <1>22. CASE ReaderLocks
    BY <1>22 DEF ReaderLocks, ParentTyped, vars, parent, caller, pipes,
       threads, procs, Exits, Primary
  <1>23. CASE ReaderReports
    BY <1>23 DEF ReaderReports, ParentTyped, vars, parent, caller, pipes,
       threads, procs, Exits, Primary
  <1>24. CASE ReaderKills
    BY <1>24 DEF ReaderKills, ParentTyped, vars, parent, caller, pipes,
       threads, procs, Exits, Primary
  <1>25. CASE OutputExceeded
    BY <1>25 DEF OutputExceeded, Settle, ParentTyped, vars, parent,
       caller, pipes, threads, procs, Exits, Primary
  <1>26. CASE TargetForks
    BY <1>26 DEF TargetForks, ParentTyped, vars, parent, caller, pipes,
       threads, procs, Exits, Primary
  <1>27. CASE TargetExits
    BY <1>27 DEF TargetExits, ParentTyped, vars, parent, caller, pipes,
       threads, procs, Exits, Primary
  <1>28. CASE ChildExits
    BY <1>28 DEF ChildExits, ParentTyped, vars, parent, caller, pipes,
       threads, procs, Exits, Primary
  <1>29. CASE CallerCancels
    BY <1>29 DEF CallerCancels, ParentTyped, vars, parent, caller, pipes,
       threads, procs, Exits, Primary
  <1>30. CASE ParentDies
    BY <1>30 DEF ParentDies, ParentTyped, vars, parent, caller, pipes,
       threads, procs, Exits, Primary
  <1>31. CASE SupervisorDies
    BY <1>31 DEF SupervisorDies, ParentTyped, vars, parent, caller, pipes,
       threads, procs, Exits, Primary
  <1>32. CASE UNCHANGED vars
    BY <1>32 DEF ParentTyped, vars, parent, caller, pipes, threads, procs,
       Exits, Primary
  <1>33. QED
    BY <1>1, <1>2, <1>3, <1>4, <1>5, <1>6, <1>7, <1>8, <1>9, <1>10, <1>11,
       <1>12, <1>13, <1>14, <1>15, <1>16, <1>17, <1>18, <1>19, <1>20,
       <1>21, <1>22, <1>23, <1>24, <1>25, <1>26, <1>27, <1>28, <1>29,
       <1>30, <1>31, <1>32 DEF Next, Parent, Main, Reader, Group, Others,
       Quiet

(* So do the processes. *)
LEMMA ProcessTypedNext == ASSUME ProcessTyped, [Next]_vars PROVE ProcessTyped'
  <1>1. CASE SpawnSupervisor
    BY <1>1 DEF SpawnSupervisor, ProcessTyped, vars, parent, caller,
       pipes, threads, procs
  <1>2. CASE Launched
    BY <1>2 DEF Launched, ProcessTyped, vars, parent, caller, pipes,
       threads, procs
  <1>3. CASE LaunchFails
    BY <1>3 DEF LaunchFails, ProcessTyped, vars, parent, caller, pipes,
       threads, procs
  <1>4. CASE ReadExit
    BY <1>4 DEF ReadExit, Settle, ProcessTyped, vars, parent, caller,
       pipes, threads, procs
  <1>5. CASE StatusLost
    BY <1>5 DEF StatusLost, Settle, ProcessTyped, vars, parent, caller,
       pipes, threads, procs
  <1>6. CASE ExchangeReturns
    BY <1>6 DEF ExchangeReturns, Settle, ProcessTyped, vars, parent,
       caller, pipes, threads, procs
  <1>7. CASE ExchangeExpires
    BY <1>7 DEF ExchangeExpires, Settle, ProcessTyped, vars, parent,
       caller, pipes, threads, procs
  <1>8. CASE ExchangeCancelled
    BY <1>8 DEF ExchangeCancelled, Settle, ProcessTyped, vars, parent,
       caller, pipes, threads, procs
  <1>9. CASE Stop
    BY <1>9 DEF Stop, ProcessTyped, vars, parent, caller, pipes, threads,
       procs
  <1>10. CASE VerifyReads
    BY <1>10 DEF VerifyReads, ProcessTyped, vars, parent, caller, pipes,
       threads, procs
  <1>11. CASE VerifyEnds
    BY <1>11 DEF VerifyEnds, ProcessTyped, vars, parent, caller, pipes,
       threads, procs
  <1>12. CASE DrainReturns
    BY <1>12 DEF DrainReturns, Close, Raised, ProcessTyped, vars, parent,
       caller, pipes, threads, procs
  <1>13. CASE DrainExpires
    BY <1>13 DEF DrainExpires, Close, Raised, ProcessTyped, vars, parent,
       caller, pipes, threads, procs
  <1>14. CASE DrainCancelled
    BY <1>14 DEF DrainCancelled, Close, Raised, ProcessTyped, vars,
       parent, caller, pipes, threads, procs
  <1>15. CASE MainStarts
    BY <1>15 DEF MainStarts, ProcessTyped, vars, parent, caller, pipes,
       threads, procs
  <1>16. CASE MainSpawns
    BY <1>16 DEF MainSpawns, ProcessTyped, vars, parent, caller, pipes,
       threads, procs
  <1>17. CASE MainCloses
    BY <1>17 DEF MainCloses, ProcessTyped, vars, parent, caller, pipes,
       threads, procs
  <1>18. CASE MainWaited
    BY <1>18 DEF MainWaited, ProcessTyped, vars, parent, caller, pipes,
       threads, procs
  <1>19. CASE MainReports
    BY <1>19 DEF MainReports, ProcessTyped, vars, parent, caller, pipes,
       threads, procs
  <1>20. CASE MainFails
    BY <1>20 DEF MainFails, ProcessTyped, vars, parent, caller, pipes,
       threads, procs
  <1>21. CASE ReaderWakes
    BY <1>21 DEF ReaderWakes, ProcessTyped, vars, parent, caller, pipes,
       threads, procs
  <1>22. CASE ReaderLocks
    BY <1>22 DEF ReaderLocks, ProcessTyped, vars, parent, caller, pipes,
       threads, procs
  <1>23. CASE ReaderReports
    BY <1>23 DEF ReaderReports, ProcessTyped, vars, parent, caller, pipes,
       threads, procs
  <1>24. CASE ReaderKills
    BY <1>24 DEF ReaderKills, ProcessTyped, vars, parent, caller, pipes,
       threads, procs
  <1>25. CASE OutputExceeded
    BY <1>25 DEF OutputExceeded, Settle, ProcessTyped, vars, parent,
       caller, pipes, threads, procs
  <1>26. CASE TargetForks
    BY <1>26 DEF TargetForks, ProcessTyped, vars, parent, caller, pipes,
       threads, procs
  <1>27. CASE TargetExits
    BY <1>27 DEF TargetExits, ProcessTyped, vars, parent, caller, pipes,
       threads, procs
  <1>28. CASE ChildExits
    BY <1>28 DEF ChildExits, ProcessTyped, vars, parent, caller, pipes,
       threads, procs
  <1>29. CASE CallerCancels
    BY <1>29 DEF CallerCancels, ProcessTyped, vars, parent, caller, pipes,
       threads, procs
  <1>30. CASE ParentDies
    BY <1>30 DEF ParentDies, ProcessTyped, vars, parent, caller, pipes,
       threads, procs
  <1>31. CASE SupervisorDies
    BY <1>31 DEF SupervisorDies, ProcessTyped, vars, parent, caller,
       pipes, threads, procs
  <1>32. CASE UNCHANGED vars
    BY <1>32 DEF ProcessTyped, vars, parent, caller, pipes, threads, procs
  <1>33. QED
    BY <1>1, <1>2, <1>3, <1>4, <1>5, <1>6, <1>7, <1>8, <1>9, <1>10, <1>11,
       <1>12, <1>13, <1>14, <1>15, <1>16, <1>17, <1>18, <1>19, <1>20,
       <1>21, <1>22, <1>23, <1>24, <1>25, <1>26, <1>27, <1>28, <1>29,
       <1>30, <1>31, <1>32 DEF Next, Parent, Main, Reader, Group, Others,
       Quiet

(* And the pipes. *)
LEMMA StreamsNext == 
  ASSUME Streams, ProcessTyped, main = "report" => exit # None, [Next]_vars
  PROVE  Streams'
  <1>1. CASE SpawnSupervisor
    BY <1>1 DEF SpawnSupervisor, Streams, vars, parent, caller, pipes,
       threads, procs
  <1>2. CASE Launched
    BY <1>2 DEF Launched, Streams, vars, parent, caller, pipes, threads,
       procs
  <1>3. CASE LaunchFails
    BY <1>3 DEF LaunchFails, Streams, vars, parent, caller, pipes,
       threads, procs
  <1>4. CASE ReadExit
    BY <1>4 DEF ReadExit, Settle, Streams, vars, parent, caller, pipes,
       threads, procs
  <1>5. CASE StatusLost
    BY <1>5 DEF StatusLost, Settle, Streams, vars, parent, caller, pipes,
       threads, procs
  <1>6. CASE ExchangeReturns
    BY <1>6 DEF ExchangeReturns, Settle, Streams, vars, parent, caller,
       pipes, threads, procs
  <1>7. CASE ExchangeExpires
    BY <1>7 DEF ExchangeExpires, Settle, Streams, vars, parent, caller,
       pipes, threads, procs
  <1>8. CASE ExchangeCancelled
    BY <1>8 DEF ExchangeCancelled, Settle, Streams, vars, parent, caller,
       pipes, threads, procs
  <1>9. CASE Stop
    BY <1>9 DEF Stop, Streams, vars, parent, caller, pipes, threads, procs
  <1>10. CASE VerifyReads
    <2>1. CASE Stopped \/ Len(frames) >= 2
      BY <1>10, <2>1 DEF VerifyReads, Streams
    <2>2. CASE ~(Stopped \/ Len(frames) >= 2)
      <3>1. status # <<>> /\ status' = Tail(status) /\ frames' = Append(frames, Head(status))
        BY <1>10, <2>2 DEF VerifyReads
      <3>2. QED  BY <3>1 DEF Streams
    <2>3. QED  BY <2>1, <2>2
  <1>11. CASE VerifyEnds
    BY <1>11 DEF VerifyEnds, Streams, vars, parent, caller, pipes,
       threads, procs
  <1>12. CASE DrainReturns
    BY <1>12 DEF DrainReturns, Close, Raised, Streams, vars, parent,
       caller, pipes, threads, procs
  <1>13. CASE DrainExpires
    BY <1>13 DEF DrainExpires, Close, Raised, Streams, vars, parent,
       caller, pipes, threads, procs
  <1>14. CASE DrainCancelled
    BY <1>14 DEF DrainCancelled, Close, Raised, Streams, vars, parent,
       caller, pipes, threads, procs
  <1>15. CASE MainStarts
    BY <1>15 DEF MainStarts, Streams, vars, parent, caller, pipes,
       threads, procs
  <1>16. CASE MainSpawns
    BY <1>16 DEF MainSpawns, Streams, vars, parent, caller, pipes,
       threads, procs
  <1>17. CASE MainCloses
    BY <1>17 DEF MainCloses, Streams, vars, parent, caller, pipes,
       threads, procs
  <1>18. CASE MainWaited
    BY <1>18 DEF MainWaited, Streams, vars, parent, caller, pipes,
       threads, procs
  <1>19. CASE MainReports
    BY <1>19 DEF MainReports, ProcessTyped, Frames, Streams, vars, parent,
       caller, pipes, threads, procs
  <1>20. CASE MainFails
    BY <1>20 DEF MainFails, Frames, Streams, vars, parent, caller, pipes,
       threads, procs
  <1>21. CASE ReaderWakes
    BY <1>21 DEF ReaderWakes, Streams, vars, parent, caller, pipes,
       threads, procs
  <1>22. CASE ReaderLocks
    BY <1>22 DEF ReaderLocks, Streams, vars, parent, caller, pipes,
       threads, procs
  <1>23. CASE ReaderReports
    BY <1>23 DEF ReaderReports, Frames, Streams, vars, parent, caller,
       pipes, threads, procs
  <1>24. CASE ReaderKills
    BY <1>24 DEF ReaderKills, Streams, vars, parent, caller, pipes,
       threads, procs
  <1>25. CASE OutputExceeded
    BY <1>25 DEF OutputExceeded, Settle, Streams, vars, parent, caller,
       pipes, threads, procs
  <1>26. CASE TargetForks
    BY <1>26 DEF TargetForks, Streams, vars, parent, caller, pipes,
       threads, procs
  <1>27. CASE TargetExits
    BY <1>27 DEF TargetExits, Streams, vars, parent, caller, pipes,
       threads, procs
  <1>28. CASE ChildExits
    BY <1>28 DEF ChildExits, Streams, vars, parent, caller, pipes,
       threads, procs
  <1>29. CASE CallerCancels
    BY <1>29 DEF CallerCancels, Streams, vars, parent, caller, pipes,
       threads, procs
  <1>30. CASE ParentDies
    BY <1>30 DEF ParentDies, Streams, vars, parent, caller, pipes,
       threads, procs
  <1>31. CASE SupervisorDies
    BY <1>31 DEF SupervisorDies, Streams, vars, parent, caller, pipes,
       threads, procs
  <1>32. CASE UNCHANGED vars
    BY <1>32 DEF Streams, vars, parent, caller, pipes, threads, procs
  <1>33. QED
    BY <1>1, <1>2, <1>3, <1>4, <1>5, <1>6, <1>7, <1>8, <1>9, <1>10, <1>11,
       <1>12, <1>13, <1>14, <1>15, <1>16, <1>17, <1>18, <1>19, <1>20,
       <1>21, <1>22, <1>23, <1>24, <1>25, <1>26, <1>27, <1>28, <1>29,
       <1>30, <1>31, <1>32 DEF Next, Parent, Main, Reader, Group, Others,
       Quiet

(* A killed group stays gone. *)
LEMMA GroupGoneNext == ASSUME GroupGone, [Next]_vars PROVE GroupGone'
  <1>1. CASE SpawnSupervisor
    BY <1>1 DEF SpawnSupervisor, GroupGone, vars, parent, caller, pipes,
       threads, procs, Alive
  <1>2. CASE Launched
    BY <1>2 DEF Launched, GroupGone, vars, parent, caller, pipes, threads,
       procs, Alive
  <1>3. CASE LaunchFails
    BY <1>3 DEF LaunchFails, GroupGone, vars, parent, caller, pipes,
       threads, procs, Alive
  <1>4. CASE ReadExit
    BY <1>4 DEF ReadExit, Settle, GroupGone, vars, parent, caller, pipes,
       threads, procs, Alive
  <1>5. CASE StatusLost
    BY <1>5 DEF StatusLost, Settle, GroupGone, vars, parent, caller,
       pipes, threads, procs, Alive
  <1>6. CASE ExchangeReturns
    BY <1>6 DEF ExchangeReturns, Settle, GroupGone, vars, parent, caller,
       pipes, threads, procs, Alive
  <1>7. CASE ExchangeExpires
    BY <1>7 DEF ExchangeExpires, Settle, GroupGone, vars, parent, caller,
       pipes, threads, procs, Alive
  <1>8. CASE ExchangeCancelled
    BY <1>8 DEF ExchangeCancelled, Settle, GroupGone, vars, parent,
       caller, pipes, threads, procs, Alive
  <1>9. CASE Stop
    BY <1>9 DEF Stop, GroupGone, vars, parent, caller, pipes, threads,
       procs, Alive
  <1>10. CASE VerifyReads
    BY <1>10 DEF VerifyReads, GroupGone, vars, parent, caller, pipes,
       threads, procs, Alive
  <1>11. CASE VerifyEnds
    BY <1>11 DEF VerifyEnds, GroupGone, vars, parent, caller, pipes,
       threads, procs, Alive
  <1>12. CASE DrainReturns
    BY <1>12 DEF DrainReturns, Close, Raised, GroupGone, vars, parent,
       caller, pipes, threads, procs, Alive
  <1>13. CASE DrainExpires
    BY <1>13 DEF DrainExpires, Close, Raised, GroupGone, vars, parent,
       caller, pipes, threads, procs, Alive
  <1>14. CASE DrainCancelled
    BY <1>14 DEF DrainCancelled, Close, Raised, GroupGone, vars, parent,
       caller, pipes, threads, procs, Alive
  <1>15. CASE MainStarts
    BY <1>15 DEF MainStarts, GroupGone, vars, parent, caller, pipes,
       threads, procs, Alive
  <1>16. CASE MainSpawns
    BY <1>16 DEF MainSpawns, GroupGone, vars, parent, caller, pipes,
       threads, procs, Alive
  <1>17. CASE MainCloses
    BY <1>17 DEF MainCloses, GroupGone, vars, parent, caller, pipes,
       threads, procs, Alive
  <1>18. CASE MainWaited
    BY <1>18 DEF MainWaited, GroupGone, vars, parent, caller, pipes,
       threads, procs, Alive
  <1>19. CASE MainReports
    BY <1>19 DEF MainReports, GroupGone, vars, parent, caller, pipes,
       threads, procs, Alive
  <1>20. CASE MainFails
    BY <1>20 DEF MainFails, GroupGone, vars, parent, caller, pipes,
       threads, procs, Alive
  <1>21. CASE ReaderWakes
    BY <1>21 DEF ReaderWakes, GroupGone, vars, parent, caller, pipes,
       threads, procs, Alive
  <1>22. CASE ReaderLocks
    BY <1>22 DEF ReaderLocks, GroupGone, vars, parent, caller, pipes,
       threads, procs, Alive
  <1>23. CASE ReaderReports
    BY <1>23 DEF ReaderReports, GroupGone, vars, parent, caller, pipes,
       threads, procs, Alive
  <1>24. CASE ReaderKills
    BY <1>24 DEF ReaderKills, GroupGone, vars, parent, caller, pipes,
       threads, procs, Alive
  <1>25. CASE OutputExceeded
    BY <1>25 DEF OutputExceeded, Settle, GroupGone, vars, parent, caller,
       pipes, threads, procs, Alive
  <1>26. CASE TargetForks
    BY <1>26 DEF TargetForks, GroupGone, vars, parent, caller, pipes,
       threads, procs, Alive
  <1>27. CASE TargetExits
    BY <1>27 DEF TargetExits, GroupGone, vars, parent, caller, pipes,
       threads, procs, Alive
  <1>28. CASE ChildExits
    BY <1>28 DEF ChildExits, GroupGone, vars, parent, caller, pipes,
       threads, procs, Alive
  <1>29. CASE CallerCancels
    BY <1>29 DEF CallerCancels, GroupGone, vars, parent, caller, pipes,
       threads, procs, Alive
  <1>30. CASE ParentDies
    BY <1>30 DEF ParentDies, GroupGone, vars, parent, caller, pipes,
       threads, procs, Alive
  <1>31. CASE SupervisorDies
    BY <1>31 DEF SupervisorDies, GroupGone, vars, parent, caller, pipes,
       threads, procs, Alive
  <1>32. CASE UNCHANGED vars
    BY <1>32 DEF GroupGone, vars, parent, caller, pipes, threads, procs,
       Alive
  <1>33. QED
    BY <1>1, <1>2, <1>3, <1>4, <1>5, <1>6, <1>7, <1>8, <1>9, <1>10, <1>11,
       <1>12, <1>13, <1>14, <1>15, <1>16, <1>17, <1>18, <1>19, <1>20,
       <1>21, <1>22, <1>23, <1>24, <1>25, <1>26, <1>27, <1>28, <1>29,
       <1>30, <1>31, <1>32 DEF Next, Parent, Main, Reader, Group, Others,
       Quiet

(* The parent ends as its exchange and its teardown say. *)
LEMMA VerdictsNext ==
  ASSUME ParentTyped, Verdicts, [Next]_vars
  PROVE  Verdicts'
  <1> USE SupervisorAssumption
  <1>1. CASE SpawnSupervisor
    BY <1>1 DEF SpawnSupervisor, Verdicts, vars, parent, caller, pipes,
       threads, procs, ParentTyped, Exits, Primary
  <1>2. CASE Launched
    BY <1>2 DEF Launched, Verdicts, vars, parent, caller, pipes, threads,
       procs, ParentTyped, Exits, Primary
  <1>3. CASE LaunchFails
    BY <1>3 DEF LaunchFails, Verdicts, vars, parent, caller, pipes,
       threads, procs, ParentTyped, Exits, Primary
  <1>4. CASE ReadExit
    BY <1>4 DEF ReadExit, Settle, Verdicts, vars, parent, caller, pipes,
       threads, procs, ParentTyped, Exits, Primary
  <1>5. CASE StatusLost
    BY <1>5 DEF StatusLost, Settle, Verdicts, vars, parent, caller, pipes,
       threads, procs, ParentTyped, Exits, Primary
  <1>6. CASE ExchangeReturns
    BY <1>6 DEF ExchangeReturns, Settle, Verdicts, vars, parent, caller,
       pipes, threads, procs, ParentTyped, Exits, Primary
  <1>7. CASE ExchangeExpires
    BY <1>7 DEF ExchangeExpires, Settle, Verdicts, vars, parent, caller,
       pipes, threads, procs, ParentTyped, Exits, Primary
  <1>8. CASE ExchangeCancelled
    BY <1>8 DEF ExchangeCancelled, Settle, Verdicts, vars, parent, caller,
       pipes, threads, procs, ParentTyped, Exits, Primary
  <1>9. CASE Stop
    BY <1>9 DEF Stop, Verdicts, vars, parent, caller, pipes, threads,
       procs, ParentTyped, Exits, Primary
  <1>10. CASE VerifyReads
    BY <1>10 DEF VerifyReads, Verdicts, vars, parent, caller, pipes,
       threads, procs, ParentTyped, Exits, Primary
  <1>11. CASE VerifyEnds
    BY <1>11 DEF VerifyEnds, Verdicts, vars, parent, caller, pipes,
       threads, procs, ParentTyped, Exits, Primary
  <1>12. CASE DrainReturns
    BY <1>12 DEF DrainReturns, Close, Raised, Verdicts, vars, parent,
       caller, pipes, threads, procs, ParentTyped, Exits, Primary
  <1>13. CASE DrainExpires
    BY <1>13 DEF DrainExpires, Close, Raised, Verdicts, vars, parent,
       caller, pipes, threads, procs, ParentTyped, Exits, Primary
  <1>14. CASE DrainCancelled
    BY <1>14 DEF DrainCancelled, Close, Raised, Verdicts, vars, parent,
       caller, pipes, threads, procs, ParentTyped, Exits, Primary
  <1>15. CASE MainStarts
    BY <1>15 DEF MainStarts, Verdicts, vars, parent, caller, pipes,
       threads, procs, ParentTyped, Exits, Primary
  <1>16. CASE MainSpawns
    BY <1>16 DEF MainSpawns, Verdicts, vars, parent, caller, pipes,
       threads, procs, ParentTyped, Exits, Primary
  <1>17. CASE MainCloses
    BY <1>17 DEF MainCloses, Verdicts, vars, parent, caller, pipes,
       threads, procs, ParentTyped, Exits, Primary
  <1>18. CASE MainWaited
    BY <1>18 DEF MainWaited, Verdicts, vars, parent, caller, pipes,
       threads, procs, ParentTyped, Exits, Primary
  <1>19. CASE MainReports
    BY <1>19 DEF MainReports, Verdicts, vars, parent, caller, pipes,
       threads, procs, ParentTyped, Exits, Primary
  <1>20. CASE MainFails
    BY <1>20 DEF MainFails, Verdicts, vars, parent, caller, pipes,
       threads, procs, ParentTyped, Exits, Primary
  <1>21. CASE ReaderWakes
    BY <1>21 DEF ReaderWakes, Verdicts, vars, parent, caller, pipes,
       threads, procs, ParentTyped, Exits, Primary
  <1>22. CASE ReaderLocks
    BY <1>22 DEF ReaderLocks, Verdicts, vars, parent, caller, pipes,
       threads, procs, ParentTyped, Exits, Primary
  <1>23. CASE ReaderReports
    BY <1>23 DEF ReaderReports, Verdicts, vars, parent, caller, pipes,
       threads, procs, ParentTyped, Exits, Primary
  <1>24. CASE ReaderKills
    BY <1>24 DEF ReaderKills, Verdicts, vars, parent, caller, pipes,
       threads, procs, ParentTyped, Exits, Primary
  <1>25. CASE OutputExceeded
    BY <1>25 DEF OutputExceeded, Settle, Verdicts, vars, parent, caller,
       pipes, threads, procs, ParentTyped, Exits, Primary
  <1>26. CASE TargetForks
    BY <1>26 DEF TargetForks, Verdicts, vars, parent, caller, pipes,
       threads, procs, ParentTyped, Exits, Primary
  <1>27. CASE TargetExits
    BY <1>27 DEF TargetExits, Verdicts, vars, parent, caller, pipes,
       threads, procs, ParentTyped, Exits, Primary
  <1>28. CASE ChildExits
    BY <1>28 DEF ChildExits, Verdicts, vars, parent, caller, pipes,
       threads, procs, ParentTyped, Exits, Primary
  <1>29. CASE CallerCancels
    BY <1>29 DEF CallerCancels, Verdicts, vars, parent, caller, pipes,
       threads, procs, ParentTyped, Exits, Primary
  <1>30. CASE ParentDies
    BY <1>30 DEF ParentDies, Verdicts, vars, parent, caller, pipes,
       threads, procs, ParentTyped, Exits, Primary
  <1>31. CASE SupervisorDies
    BY <1>31 DEF SupervisorDies, Verdicts, vars, parent, caller, pipes,
       threads, procs, ParentTyped, Exits, Primary
  <1>32. CASE UNCHANGED vars
    BY <1>32 DEF Verdicts, vars, parent, caller, pipes, threads, procs,
       ParentTyped, Exits, Primary
  <1>33. QED
    BY <1>1, <1>2, <1>3, <1>4, <1>5, <1>6, <1>7, <1>8, <1>9, <1>10, <1>11,
       <1>12, <1>13, <1>14, <1>15, <1>16, <1>17, <1>18, <1>19, <1>20,
       <1>21, <1>22, <1>23, <1>24, <1>25, <1>26, <1>27, <1>28, <1>29,
       <1>30, <1>31, <1>32 DEF Next, Parent, Main, Reader, Group, Others,
       Quiet

(* No cancellation is lost. *)
LEMMA CancelKeptNext ==
  ASSUME ParentTyped, Verdicts, CancelKept, [Next]_vars
  PROVE  CancelKept'
  <1> USE SupervisorAssumption
  <1>1. CASE SpawnSupervisor
    BY <1>1 DEF SpawnSupervisor, CancelKept, Verdicts, ParentTyped,
       Primary, vars, parent, caller, pipes, threads, procs
  <1>2. CASE Launched
    BY <1>2 DEF Launched, CancelKept, Verdicts, ParentTyped, Primary,
       vars, parent, caller, pipes, threads, procs
  <1>3. CASE LaunchFails
    BY <1>3 DEF LaunchFails, CancelKept, Verdicts, ParentTyped, Primary,
       vars, parent, caller, pipes, threads, procs
  <1>4. CASE ReadExit
    BY <1>4 DEF ReadExit, Settle, CancelKept, Verdicts, ParentTyped,
       Primary, vars, parent, caller, pipes, threads, procs
  <1>5. CASE StatusLost
    BY <1>5 DEF StatusLost, Settle, CancelKept, Verdicts, ParentTyped,
       Primary, vars, parent, caller, pipes, threads, procs
  <1>6. CASE ExchangeReturns
    BY <1>6 DEF ExchangeReturns, Settle, CancelKept, Verdicts,
       ParentTyped, Primary, vars, parent, caller, pipes, threads, procs
  <1>7. CASE ExchangeExpires
    BY <1>7 DEF ExchangeExpires, Settle, CancelKept, Verdicts,
       ParentTyped, Primary, vars, parent, caller, pipes, threads, procs
  <1>8. CASE ExchangeCancelled
    BY <1>8 DEF ExchangeCancelled, Settle, CancelKept, Verdicts,
       ParentTyped, Primary, vars, parent, caller, pipes, threads, procs
  <1>9. CASE Stop
    BY <1>9 DEF Stop, CancelKept, Verdicts, ParentTyped, Primary, vars,
       parent, caller, pipes, threads, procs
  <1>10. CASE VerifyReads
    BY <1>10 DEF VerifyReads, CancelKept, Verdicts, ParentTyped, Primary,
       vars, parent, caller, pipes, threads, procs
  <1>11. CASE VerifyEnds
    BY <1>11 DEF VerifyEnds, CancelKept, Verdicts, ParentTyped, Primary,
       vars, parent, caller, pipes, threads, procs
  <1>12. CASE DrainReturns
    BY <1>12 DEF DrainReturns, Close, Raised, CancelKept, Verdicts,
       ParentTyped, Primary, vars, parent, caller, pipes, threads, procs
  <1>13. CASE DrainExpires
    BY <1>13 DEF DrainExpires, Close, Raised, CancelKept, Verdicts,
       ParentTyped, Primary, vars, parent, caller, pipes, threads, procs
  <1>14. CASE DrainCancelled
    BY <1>14 DEF DrainCancelled, Close, Raised, CancelKept, Verdicts,
       ParentTyped, Primary, vars, parent, caller, pipes, threads, procs
  <1>15. CASE MainStarts
    BY <1>15 DEF MainStarts, CancelKept, Verdicts, ParentTyped, Primary,
       vars, parent, caller, pipes, threads, procs
  <1>16. CASE MainSpawns
    BY <1>16 DEF MainSpawns, CancelKept, Verdicts, ParentTyped, Primary,
       vars, parent, caller, pipes, threads, procs
  <1>17. CASE MainCloses
    BY <1>17 DEF MainCloses, CancelKept, Verdicts, ParentTyped, Primary,
       vars, parent, caller, pipes, threads, procs
  <1>18. CASE MainWaited
    BY <1>18 DEF MainWaited, CancelKept, Verdicts, ParentTyped, Primary,
       vars, parent, caller, pipes, threads, procs
  <1>19. CASE MainReports
    BY <1>19 DEF MainReports, CancelKept, Verdicts, ParentTyped, Primary,
       vars, parent, caller, pipes, threads, procs
  <1>20. CASE MainFails
    BY <1>20 DEF MainFails, CancelKept, Verdicts, ParentTyped, Primary,
       vars, parent, caller, pipes, threads, procs
  <1>21. CASE ReaderWakes
    BY <1>21 DEF ReaderWakes, CancelKept, Verdicts, ParentTyped, Primary,
       vars, parent, caller, pipes, threads, procs
  <1>22. CASE ReaderLocks
    BY <1>22 DEF ReaderLocks, CancelKept, Verdicts, ParentTyped, Primary,
       vars, parent, caller, pipes, threads, procs
  <1>23. CASE ReaderReports
    BY <1>23 DEF ReaderReports, CancelKept, Verdicts, ParentTyped,
       Primary, vars, parent, caller, pipes, threads, procs
  <1>24. CASE ReaderKills
    BY <1>24 DEF ReaderKills, CancelKept, Verdicts, ParentTyped, Primary,
       vars, parent, caller, pipes, threads, procs
  <1>25. CASE OutputExceeded
    BY <1>25 DEF OutputExceeded, Settle, CancelKept, Verdicts,
       ParentTyped, Primary, vars, parent, caller, pipes, threads, procs
  <1>26. CASE TargetForks
    BY <1>26 DEF TargetForks, CancelKept, Verdicts, ParentTyped, Primary,
       vars, parent, caller, pipes, threads, procs
  <1>27. CASE TargetExits
    BY <1>27 DEF TargetExits, CancelKept, Verdicts, ParentTyped, Primary,
       vars, parent, caller, pipes, threads, procs
  <1>28. CASE ChildExits
    BY <1>28 DEF ChildExits, CancelKept, Verdicts, ParentTyped, Primary,
       vars, parent, caller, pipes, threads, procs
  <1>29. CASE CallerCancels
    BY <1>29 DEF CallerCancels, CancelKept, Verdicts, ParentTyped,
       Primary, vars, parent, caller, pipes, threads, procs
  <1>30. CASE ParentDies
    BY <1>30 DEF ParentDies, CancelKept, Verdicts, ParentTyped, Primary,
       vars, parent, caller, pipes, threads, procs
  <1>31. CASE SupervisorDies
    BY <1>31 DEF SupervisorDies, CancelKept, Verdicts, ParentTyped,
       Primary, vars, parent, caller, pipes, threads, procs
  <1>32. CASE UNCHANGED vars
    BY <1>32 DEF CancelKept, Verdicts, ParentTyped, Primary, vars, parent,
       caller, pipes, threads, procs
  <1>33. QED
    BY <1>1, <1>2, <1>3, <1>4, <1>5, <1>6, <1>7, <1>8, <1>9, <1>10, <1>11,
       <1>12, <1>13, <1>14, <1>15, <1>16, <1>17, <1>18, <1>19, <1>20,
       <1>21, <1>22, <1>23, <1>24, <1>25, <1>26, <1>27, <1>28, <1>29,
       <1>30, <1>31, <1>32 DEF Next, Parent, Main, Reader, Group, Others,
       Quiet

(* Only a verified kill, or a stroke that looks like it, ends the teardown *)
(* without a failure.                                                      *)
LEMMA SeenNext ==
  ASSUME ParentTyped, Verdicts, Announced, Seen, [Next]_vars
  PROVE  Seen'
  <1> USE SupervisorAssumption DEF Taken, Undercut
  <1>1. CASE SpawnSupervisor
    BY <1>1 DEF SpawnSupervisor, Seen, Over, Alive, Verdicts, ParentTyped,
       Primary, vars, parent, caller, pipes, threads, procs
  <1>2. CASE Launched
    BY <1>2 DEF Launched, Seen, Over, Alive, Verdicts, ParentTyped,
       Primary, vars, parent, caller, pipes, threads, procs
  <1>3. CASE LaunchFails
    BY <1>3 DEF LaunchFails, Seen, Over, Alive, Verdicts, ParentTyped,
       Primary, vars, parent, caller, pipes, threads, procs
  <1>4. CASE ReadExit
    BY <1>4 DEF ReadExit, Settle, Seen, Over, Alive, Verdicts,
       ParentTyped, Primary, vars, parent, caller, pipes, threads, procs
  <1>5. CASE StatusLost
    BY <1>5 DEF StatusLost, Settle, Seen, Over, Alive, Verdicts,
       ParentTyped, Primary, vars, parent, caller, pipes, threads, procs
  <1>6. CASE ExchangeReturns
    BY <1>6 DEF ExchangeReturns, Settle, Seen, Over, Alive, Verdicts,
       ParentTyped, Primary, vars, parent, caller, pipes, threads, procs
  <1>7. CASE ExchangeExpires
    BY <1>7 DEF ExchangeExpires, Settle, Seen, Over, Alive, Verdicts,
       ParentTyped, Primary, vars, parent, caller, pipes, threads, procs
  <1>8. CASE ExchangeCancelled
    BY <1>8 DEF ExchangeCancelled, Settle, Seen, Over, Alive, Verdicts,
       ParentTyped, Primary, vars, parent, caller, pipes, threads, procs
  <1>9. CASE Stop
    BY <1>9 DEF Stop, Seen, Over, Alive, Verdicts, ParentTyped, Primary,
       vars, parent, caller, pipes, threads, procs
  <1>10. CASE VerifyReads
    BY <1>10 DEF VerifyReads, Seen, Over, Alive, Verdicts, ParentTyped,
       Primary, vars, parent, caller, pipes, threads, procs
  <1>11. CASE VerifyEnds
    BY <1>11 DEF VerifyEnds, Seen, Over, Alive, Verdicts, ParentTyped,
       Primary, vars, parent, caller, pipes, threads, procs
  <1>12. CASE DrainReturns
    BY <1>12 DEF DrainReturns, Close, Raised, Sigkilled, Seen, Announced, Over, Alive, Verdicts,
       ParentTyped, Primary, vars, parent, caller, pipes, threads, procs
  <1>13. CASE DrainExpires
    BY <1>13 DEF DrainExpires, Close, Raised, Seen, Over, Alive, Verdicts,
       ParentTyped, Primary, vars, parent, caller, pipes, threads, procs
  <1>14. CASE DrainCancelled
    BY <1>14 DEF DrainCancelled, Close, Raised, Seen, Over, Alive,
       Verdicts, ParentTyped, Primary, vars, parent, caller, pipes,
       threads, procs
  <1>15. CASE MainStarts
    BY <1>15 DEF MainStarts, Seen, Over, Alive, Verdicts, ParentTyped,
       Primary, vars, parent, caller, pipes, threads, procs
  <1>16. CASE MainSpawns
    BY <1>16 DEF MainSpawns, Seen, Over, Alive, Verdicts, ParentTyped,
       Primary, vars, parent, caller, pipes, threads, procs
  <1>17. CASE MainCloses
    BY <1>17 DEF MainCloses, Seen, Over, Alive, Verdicts, ParentTyped,
       Primary, vars, parent, caller, pipes, threads, procs
  <1>18. CASE MainWaited
    BY <1>18 DEF MainWaited, Seen, Over, Alive, Verdicts, ParentTyped,
       Primary, vars, parent, caller, pipes, threads, procs
  <1>19. CASE MainReports
    BY <1>19 DEF MainReports, Seen, Over, Alive, Verdicts, ParentTyped,
       Primary, vars, parent, caller, pipes, threads, procs
  <1>20. CASE MainFails
    BY <1>20 DEF MainFails, Seen, Over, Alive, Verdicts, ParentTyped,
       Primary, vars, parent, caller, pipes, threads, procs
  <1>21. CASE ReaderWakes
    BY <1>21 DEF ReaderWakes, Seen, Over, Alive, Verdicts, ParentTyped,
       Primary, vars, parent, caller, pipes, threads, procs
  <1>22. CASE ReaderLocks
    BY <1>22 DEF ReaderLocks, Seen, Over, Alive, Verdicts, ParentTyped,
       Primary, vars, parent, caller, pipes, threads, procs
  <1>23. CASE ReaderReports
    BY <1>23 DEF ReaderReports, Seen, Over, Alive, Verdicts, ParentTyped,
       Primary, vars, parent, caller, pipes, threads, procs
  <1>24. CASE ReaderKills
    BY <1>24 DEF ReaderKills, Seen, Over, Alive, Verdicts, ParentTyped,
       Primary, vars, parent, caller, pipes, threads, procs
  <1>25. CASE OutputExceeded
    BY <1>25 DEF OutputExceeded, Settle, Seen, Over, Alive, Verdicts,
       ParentTyped, Primary, vars, parent, caller, pipes, threads, procs
  <1>26. CASE TargetForks
    BY <1>26 DEF TargetForks, Seen, Over, Alive, Verdicts, ParentTyped,
       Primary, vars, parent, caller, pipes, threads, procs
  <1>27. CASE TargetExits
    BY <1>27 DEF TargetExits, Seen, Over, Alive, Verdicts, ParentTyped,
       Primary, vars, parent, caller, pipes, threads, procs
  <1>28. CASE ChildExits
    BY <1>28 DEF ChildExits, Seen, Over, Alive, Verdicts, ParentTyped,
       Primary, vars, parent, caller, pipes, threads, procs
  <1>29. CASE CallerCancels
    BY <1>29 DEF CallerCancels, Seen, Over, Alive, Verdicts, ParentTyped,
       Primary, vars, parent, caller, pipes, threads, procs
  <1>30. CASE ParentDies
    BY <1>30 DEF ParentDies, Seen, Over, Alive, Verdicts, ParentTyped,
       Primary, vars, parent, caller, pipes, threads, procs
  <1>31. CASE SupervisorDies
    BY <1>31 DEF SupervisorDies, Seen, Over, Alive, Verdicts, ParentTyped,
       Primary, vars, parent, caller, pipes, threads, procs
  <1>32. CASE UNCHANGED vars
    BY <1>32 DEF Seen, Over, Alive, Verdicts, ParentTyped, Primary, vars,
       parent, caller, pipes, threads, procs
  <1>33. QED
    BY <1>1, <1>2, <1>3, <1>4, <1>5, <1>6, <1>7, <1>8, <1>9, <1>10, <1>11,
       <1>12, <1>13, <1>14, <1>15, <1>16, <1>17, <1>18, <1>19, <1>20,
       <1>21, <1>22, <1>23, <1>24, <1>25, <1>26, <1>27, <1>28, <1>29,
       <1>30, <1>31, <1>32 DEF Next, Parent, Main, Reader, Group, Others,
       Quiet

(* What is reported is the status of the one target. *)
LEMMA TargetOnceNext ==
  ASSUME Streams, ProcessTyped, TargetOnce, [Next]_vars
  PROVE  TargetOnce'
  <1>0. None \notin Exits  BY SupervisorAssumption DEF Frames
  <1>a. ASSUME NEW f \in Frames, f \in Exits => f = exit, status' = Append(status, f)
        PROVE  \A i \in 1..Len(status') : status'[i] \in Exits => status'[i] = exit
    BY <1>a DEF Streams, TargetOnce
  <1> USE <1>0 DEF Frames, Exits
  <1>1. CASE SpawnSupervisor
    BY <1>1 DEF SpawnSupervisor, TargetOnce, Streams, ProcessTyped, Alive,
       vars, parent, caller, pipes, threads, procs
  <1>2. CASE Launched
    BY <1>2 DEF Launched, TargetOnce, Streams, ProcessTyped, Alive, vars,
       parent, caller, pipes, threads, procs
  <1>3. CASE LaunchFails
    BY <1>3 DEF LaunchFails, TargetOnce, Streams, ProcessTyped, Alive,
       vars, parent, caller, pipes, threads, procs
  <1>4. CASE ReadExit
    BY <1>4 DEF ReadExit, Settle, TargetOnce, Streams, ProcessTyped,
       Alive, vars, parent, caller, pipes, threads, procs
  <1>5. CASE StatusLost
    BY <1>5 DEF StatusLost, Settle, TargetOnce, Streams, ProcessTyped,
       Alive, vars, parent, caller, pipes, threads, procs
  <1>6. CASE ExchangeReturns
    BY <1>6 DEF ExchangeReturns, Settle, TargetOnce, Streams,
       ProcessTyped, Alive, vars, parent, caller, pipes, threads, procs
  <1>7. CASE ExchangeExpires
    BY <1>7 DEF ExchangeExpires, Settle, TargetOnce, Streams,
       ProcessTyped, Alive, vars, parent, caller, pipes, threads, procs
  <1>8. CASE ExchangeCancelled
    BY <1>8 DEF ExchangeCancelled, Settle, TargetOnce, Streams,
       ProcessTyped, Alive, vars, parent, caller, pipes, threads, procs
  <1>9. CASE Stop
    BY <1>9 DEF Stop, TargetOnce, Streams, ProcessTyped, Alive, vars,
       parent, caller, pipes, threads, procs
  <1>10. CASE VerifyReads
    <2>1. UNCHANGED <<main, group, exit, code>>
      BY <1>10 DEF VerifyReads, threads, procs
    <2>2. CASE Stopped \/ Len(frames) >= 2
      BY <1>10, <2>1, <2>2 DEF VerifyReads, TargetOnce
    <2>3. CASE ~(Stopped \/ Len(frames) >= 2)
      <3>1. status # <<>> /\ status' = Tail(status)
        BY <1>10, <2>3 DEF VerifyReads
      <3>2. QED  BY <2>1, <3>1 DEF TargetOnce, Streams
    <2>4. QED  BY <2>2, <2>3
  <1>11. CASE VerifyEnds
    BY <1>11 DEF VerifyEnds, TargetOnce, Streams, ProcessTyped, Alive,
       vars, parent, caller, pipes, threads, procs
  <1>12. CASE DrainReturns
    BY <1>12 DEF DrainReturns, Close, Raised, TargetOnce, Streams,
       ProcessTyped, Alive, vars, parent, caller, pipes, threads, procs
  <1>13. CASE DrainExpires
    BY <1>13 DEF DrainExpires, Close, Raised, TargetOnce, Streams,
       ProcessTyped, Alive, vars, parent, caller, pipes, threads, procs
  <1>14. CASE DrainCancelled
    BY <1>14 DEF DrainCancelled, Close, Raised, TargetOnce, Streams,
       ProcessTyped, Alive, vars, parent, caller, pipes, threads, procs
  <1>15. CASE MainStarts
    BY <1>15 DEF MainStarts, TargetOnce, Streams, ProcessTyped, Alive,
       vars, parent, caller, pipes, threads, procs
  <1>16. CASE MainSpawns
    BY <1>16 DEF MainSpawns, TargetOnce, Streams, ProcessTyped, Alive,
       vars, parent, caller, pipes, threads, procs
  <1>17. CASE MainCloses
    BY <1>17 DEF MainCloses, TargetOnce, Streams, ProcessTyped, Alive,
       vars, parent, caller, pipes, threads, procs
  <1>18. CASE MainWaited
    BY <1>18 DEF MainWaited, TargetOnce, Streams, ProcessTyped, Alive,
       vars, parent, caller, pipes, threads, procs
  <1>19. CASE MainReports
    <2>1. main' \notin {"begin", "spawn", "report"} /\ UNCHANGED <<group, exit, code>>
      BY <1>19 DEF MainReports, procs, parent
    <2>2. CASE statusOpen
      <3>1. status' = Append(status, exit) /\ exit \in Exits
        BY <1>19, <2>2 DEF MainReports, TargetOnce, ProcessTyped
      <3>2. \A i \in 1..Len(status') : status'[i] \in Exits => status'[i] = exit
        BY <1>a, <3>1
      <3>3. QED  BY <2>1, <3>2 DEF TargetOnce
    <2>3. CASE ~statusOpen
      BY <1>19, <2>1, <2>3 DEF MainReports, TargetOnce
    <2>4. QED  BY <2>2, <2>3
  <1>20. CASE MainFails
    <2>1. main' \notin {"begin", "spawn", "report"} /\ UNCHANGED <<group, exit, code>>
      BY <1>20 DEF MainFails, procs, parent
    <2>2. CASE statusOpen
      <3>1. status' = Append(status, "start_failed")
        BY <1>20, <2>2 DEF MainFails
      <3>2. \A i \in 1..Len(status') : status'[i] \in Exits => status'[i] = exit
        BY <1>a, <3>1
      <3>3. QED  BY <2>1, <3>2 DEF TargetOnce
    <2>3. CASE ~statusOpen
      BY <1>20, <2>1, <2>3 DEF MainFails, TargetOnce
    <2>4. QED  BY <2>2, <2>3
  <1>21. CASE ReaderWakes
    BY <1>21 DEF ReaderWakes, TargetOnce, Streams, ProcessTyped, Alive,
       vars, parent, caller, pipes, threads, procs
  <1>22. CASE ReaderLocks
    BY <1>22 DEF ReaderLocks, TargetOnce, Streams, ProcessTyped, Alive,
       vars, parent, caller, pipes, threads, procs
  <1>23. CASE ReaderReports
    <2>1. UNCHANGED <<main, group, exit, code>>
      BY <1>23 DEF ReaderReports, procs, parent
    <2>2. CASE statusOpen
      <3>1. status' = Append(status, "stopping")
        BY <1>23, <2>2 DEF ReaderReports
      <3>2. \A i \in 1..Len(status') : status'[i] \in Exits => status'[i] = exit
        BY <1>a, <3>1
      <3>3. QED  BY <2>1, <3>2 DEF TargetOnce
    <2>3. CASE ~statusOpen
      BY <1>23, <2>1, <2>3 DEF ReaderReports, TargetOnce
    <2>4. QED  BY <2>2, <2>3
  <1>24. CASE ReaderKills
    BY <1>24 DEF ReaderKills, TargetOnce, Streams, ProcessTyped, Alive,
       vars, parent, caller, pipes, threads, procs
  <1>25. CASE OutputExceeded
    BY <1>25 DEF OutputExceeded, Settle, TargetOnce, Streams,
       ProcessTyped, Alive, vars, parent, caller, pipes, threads, procs
  <1>26. CASE TargetForks
    BY <1>26 DEF TargetForks, TargetOnce, Streams, ProcessTyped, Alive,
       vars, parent, caller, pipes, threads, procs
  <1>27. CASE TargetExits
    BY <1>27 DEF TargetExits, TargetOnce, Streams, ProcessTyped, Alive,
       vars, parent, caller, pipes, threads, procs
  <1>28. CASE ChildExits
    BY <1>28 DEF ChildExits, TargetOnce, Streams, ProcessTyped, Alive,
       vars, parent, caller, pipes, threads, procs
  <1>29. CASE CallerCancels
    BY <1>29 DEF CallerCancels, TargetOnce, Streams, ProcessTyped, Alive,
       vars, parent, caller, pipes, threads, procs
  <1>30. CASE ParentDies
    BY <1>30 DEF ParentDies, TargetOnce, Streams, ProcessTyped, Alive,
       vars, parent, caller, pipes, threads, procs
  <1>31. CASE SupervisorDies
    BY <1>31 DEF SupervisorDies, TargetOnce, Streams, ProcessTyped, Alive,
       vars, parent, caller, pipes, threads, procs
  <1>32. CASE UNCHANGED vars
    BY <1>32 DEF TargetOnce, Streams, ProcessTyped, Alive, vars, parent,
       caller, pipes, threads, procs
  <1>33. QED
    BY <1>1, <1>2, <1>3, <1>4, <1>5, <1>6, <1>7, <1>8, <1>9, <1>10, <1>11,
       <1>12, <1>13, <1>14, <1>15, <1>16, <1>17, <1>18, <1>19, <1>20,
       <1>21, <1>22, <1>23, <1>24, <1>25, <1>26, <1>27, <1>28, <1>29,
       <1>30, <1>31, <1>32 DEF Next, Parent, Main, Reader, Group, Others,
       Quiet

(* Reading one frame of the pipe. *)
LEMMA ReadsOne ==
  ASSUME Streams, status # <<>>, status' = Tail(status),
         frames' = Append(frames, Head(status))
  PROVE  /\ Len(frames') = Len(frames) + 1
         /\ Len(status') = Len(status) - 1
         /\ Len(frames) \in Nat /\ Len(status) \in Nat /\ Len(status) > 0
         /\ \A j \in 1..Len(frames) : frames'[j] = frames[j]
         /\ frames'[Len(frames) + 1] = status[1]
         /\ \A j \in 1..Len(status') : status'[j] = status[j + 1]
  BY DEF Streams

(* What is known of the reader from the frames, and from their reading. *)
LEMMA AnnouncedNext ==
  ASSUME Streams, ProcessTyped, TargetOnce, Announced, [Next]_vars
  PROVE  Announced'
  <1>1. ASSUME UNCHANGED <<frames, status, verify, reader>>,
               control' = control \/ control' = FALSE, control' \/ pc' \in {"drain", "done", "dead"}
        PROVE  Announced'
    BY <1>1 DEF Announced
  <1>2. ASSUME UNCHANGED <<verify, reader, control>>, control \/ pc' = pc,
               status # <<>>, status' = Tail(status), frames' = Append(frames, Head(status))
        PROVE  Announced'
    <2>1. /\ Len(frames') = Len(frames) + 1
          /\ Len(status') = Len(status) - 1
          /\ Len(frames) \in Nat /\ Len(status) \in Nat /\ Len(status) > 0
          /\ \A j \in 1..Len(frames) : frames'[j] = frames[j]
          /\ frames'[Len(frames) + 1] = status[1]
          /\ \A j \in 1..Len(status') : status'[j] = status[j + 1]
      BY <1>2, ReadsOne
    <2>2. ASSUME NEW i \in 1..Len(frames'), frames'[i] = "stopping" PROVE reader = "kill"
      <3>1. CASE i = Len(frames) + 1  BY <2>1, <2>2, <3>1 DEF Announced
      <3>2. CASE i \in 1..Len(frames)  BY <2>1, <2>2, <3>2 DEF Announced
      <3>3. QED  BY <2>1, <3>1, <3>2
    <2>3. ASSUME NEW i \in 1..Len(status'), status'[i] = "stopping" PROVE reader = "kill"
      BY <2>1, <2>3 DEF Announced
    <2>4. QED  BY <1>2, <2>2, <2>3 DEF Announced
  <1>3. ASSUME UNCHANGED <<frames, verify, control, pc, reader>>,
               NEW f \in Frames \ {"stopping"}, status' = Append(status, f)
        PROVE  Announced'
    BY <1>3 DEF Announced, Streams
  <1>4. CASE ReadExit
    <2>1. UNCHANGED <<verify, reader, control>>  BY <1>4 DEF ReadExit, threads
    <2>2. control  BY <1>4 DEF ReadExit, Announced
    <2>3. status # <<>> /\ status' = Tail(status) /\ frames' = Append(frames, Head(status))
      BY <1>4 DEF ReadExit
    <2>4. QED  BY <1>2, <2>1, <2>2, <2>3
  <1>5. CASE VerifyReads
    <2>1. UNCHANGED <<reader, control, pc>>  BY <1>5 DEF VerifyReads, threads
    <2>2. CASE Stopped \/ Len(frames) >= 2
      BY <1>5, <2>1, <2>2 DEF VerifyReads, Announced
    <2>3. CASE ~(Stopped \/ Len(frames) >= 2)
      BY <1>2, <1>5, <2>1, <2>3 DEF VerifyReads
    <2>4. QED  BY <2>2, <2>3
  <1>6. CASE VerifyEnds
    <2>1. UNCHANGED <<frames, status, reader, control, pc>>  BY <1>6 DEF VerifyEnds, threads, pipes
    <2>2. verify' = "ok" => reader = "kill"  BY <1>6 DEF VerifyEnds, Stopped, Announced
    <2>3. QED  BY <2>1, <2>2 DEF Announced
  <1>7. CASE MainReports
    <2>1. UNCHANGED <<frames, verify, control, pc, reader>>  BY <1>7 DEF MainReports, parent
    <2>2. CASE statusOpen
      <3>1. status' = Append(status, exit) /\ exit \in Frames \ {"stopping"}
        BY <1>7, <2>2 DEF MainReports, TargetOnce, ProcessTyped, Exits, Frames
      <3>2. QED  BY <1>3, <2>1, <3>1
    <2>3. CASE ~statusOpen  BY <1>7, <2>1, <2>3 DEF MainReports, Announced
    <2>4. QED  BY <2>2, <2>3
  <1>8. CASE MainFails
    <2>1. UNCHANGED <<frames, verify, control, pc, reader>>  BY <1>8 DEF MainFails, parent
    <2>2. CASE statusOpen
      BY <1>3, <1>8, <2>1, <2>2 DEF MainFails, Frames
    <2>3. CASE ~statusOpen  BY <1>8, <2>1, <2>3 DEF MainFails, Announced
    <2>4. QED  BY <2>2, <2>3
  <1>9. CASE ReaderWakes
    BY <1>9 DEF ReaderWakes, Announced, parent, pipes
  <1>10. CASE ReaderLocks
    BY <1>10 DEF ReaderLocks, Announced, parent, pipes
  <1>11. CASE ReaderReports
    <2>1. UNCHANGED <<frames, verify, control, pc>> /\ reader = "report"
      BY <1>11 DEF ReaderReports, parent
    <2>2. CASE statusOpen  BY <1>11, <2>1, <2>2 DEF ReaderReports, Announced
    <2>3. CASE ~statusOpen  BY <1>11, <2>1, <2>3 DEF ReaderReports, Announced
    <2>4. QED  BY <2>2, <2>3
  <1>12. CASE SpawnSupervisor \/ MainStarts \/ MainSpawns \/ MainCloses \/ MainWaited \/ ReaderKills
              \/ TargetForks \/ TargetExits \/ ChildExits \/ CallerCancels \/ SupervisorDies
              \/ Quiet \/ UNCHANGED vars
    <2>1. UNCHANGED <<frames, status, verify, reader, control, pc>>
      BY <1>12 DEF SpawnSupervisor, MainStarts, MainSpawns, MainCloses, MainWaited, ReaderKills,
         TargetForks, TargetExits, ChildExits, CallerCancels, SupervisorDies, Quiet, vars, parent,
         pipes, threads
    <2>2. QED  BY <2>1 DEF Announced
  <1>13. CASE Launched \/ StatusLost \/ ExchangeReturns \/ ExchangeExpires \/ ExchangeCancelled
              \/ OutputExceeded
    <2>1. UNCHANGED <<frames, status, verify, reader, control>> /\ control
      BY <1>13 DEF Launched, StatusLost, ExchangeReturns, ExchangeExpires, ExchangeCancelled,
         OutputExceeded, Announced, pipes, threads
    <2>2. QED  BY <1>1, <2>1
  <1>14. CASE LaunchFails \/ Stop \/ DrainReturns \/ DrainExpires \/ DrainCancelled \/ ParentDies
    <2>1. UNCHANGED <<frames, status, verify, reader>> /\ control' \in {control, FALSE}
          /\ pc' \in {"drain", "done", "dead"}
      BY <1>14 DEF LaunchFails, Stop, DrainReturns, DrainExpires, DrainCancelled, ParentDies, Close,
         threads
    <2>2. QED  BY <1>1, <2>1
  <1>15. QED
    BY <1>4, <1>5, <1>6, <1>7, <1>8, <1>9, <1>10, <1>11, <1>12, <1>13, <1>14
    DEF Next, Parent, Main, Reader, Group, Others

(* Reading keeps the order of the frames, and the stop frame the last. *)
LEMMA ReadKeepsWire ==
  ASSUME Streams, Wire, status # <<>>, status' = Tail(status),
         frames' = Append(frames, Head(status)),
         UNCHANGED <<statusOpen, sup, reader, reporting, main, verify>>,
         sup = "none" => pc' = "launch"
  PROVE  Wire'
  <1>1. /\ Len(frames') = Len(frames) + 1
        /\ Len(status') = Len(status) - 1
        /\ Len(frames) \in Nat /\ Len(status) \in Nat /\ Len(status) > 0
        /\ \A j \in 1..Len(frames) : frames'[j] = frames[j]
        /\ frames'[Len(frames) + 1] = status[1]
        /\ \A j \in 1..Len(status') : status'[j] = status[j + 1]
    BY ReadsOne
  <1>2. Len(frames') + Len(status') = Len(frames) + Len(status)
    BY <1>1
  <1>3. \A i \in 1..Len(frames) : frames[i] # "stopping"
    <2>1. \A i \in 1..Len(frames) :
            frames[i] = "stopping" <=> reader = "kill" /\ Len(status) = 0 /\ i = Len(frames)
      BY DEF Wire
    <2>2. QED  BY <1>1, <2>1
  <1>4. \A i \in 1..Len(status) :
          status[i] = "stopping" <=> reader = "kill" /\ i = Len(status)
    BY DEF Wire
  <1>5. ASSUME NEW i \in 1..Len(frames')
        PROVE  frames'[i] = "stopping" <=> reader = "kill" /\ Len(status') = 0 /\ i = Len(frames')
    <2>1. CASE i = Len(frames) + 1
      <3>1. frames'[i] = status[1] /\ 1 \in 1..Len(status)  BY <1>1, <2>1
      <3>2. Len(status') = 0 <=> 1 = Len(status)  BY <1>1
      <3>3. QED  BY <1>1, <1>4, <2>1, <3>1, <3>2
    <2>2. CASE i \in 1..Len(frames)
      <3>1. frames'[i] # "stopping"  BY <1>1, <1>3, <2>2
      <3>2. i # Len(frames')  BY <1>1, <2>2
      <3>3. QED  BY <3>1, <3>2
    <2>3. i = Len(frames) + 1 \/ i \in 1..Len(frames)  BY <1>1
    <2>4. QED  BY <2>1, <2>2, <2>3
  <1>6. ASSUME NEW i \in 1..Len(status')
        PROVE  status'[i] = "stopping" <=> reader = "kill" /\ i = Len(status')
    <2>1. i + 1 \in 1..Len(status)  BY <1>1
    <2>2. status'[i] = status[i + 1]  BY <1>1
    <2>3. i + 1 = Len(status) <=> i = Len(status')  BY <1>1
    <2>4. QED  BY <1>4, <2>1, <2>2, <2>3
  <1>7. QED  BY <1>2, <1>5, <1>6 DEF Wire

(* An undisturbed stop verifies: no frame follows the stop frame. *)
LEMMA WireNext ==
  ASSUME Streams, ParentTyped, ProcessTyped, TargetOnce, WireInv, [Next]_vars
  PROVE  WireInv'
  <1> USE SupervisorAssumption DEF Frames
  <1>1. CASE SpawnSupervisor
    BY <1>1 DEF SpawnSupervisor, WireInv, Listening, Disturbed, Wire, Alive, vars,
       parent, caller, pipes, threads, procs
  <1>2. CASE Launched
    BY <1>2 DEF Launched, WireInv, Listening, Disturbed, Wire, Alive, vars, parent,
       caller, pipes, threads, procs
  <1>3. CASE LaunchFails
    BY <1>3 DEF LaunchFails, WireInv, Listening, Disturbed, Wire, Alive, vars,
       parent, caller, pipes, threads, procs
  <1>4. CASE ReadExit
    <2>1. status # <<>> /\ status' = Tail(status) /\ frames' = Append(frames, Head(status))
      BY <1>4 DEF ReadExit
    <2>2. UNCHANGED <<statusOpen, sup, reader, reporting, main, verify, failure>>
      BY <1>4 DEF ReadExit, threads
    <2>3. pc = "exchange"  BY <1>4 DEF ReadExit
    <2>4. CASE Disturbed  BY <2>2, <2>4 DEF WireInv, Listening, Disturbed
    <2>5. CASE ~Disturbed
      <3>1. Wire  BY <2>3, <2>5 DEF WireInv, Listening, Disturbed
      <3>2. sup # "none"  BY <2>3, <3>1 DEF Wire
      <3>3. Wire'  BY <2>1, <2>2, <3>1, <3>2, ReadKeepsWire
      <3>4. QED  BY <2>2, <2>5, <3>3 DEF WireInv
    <2>6. QED  BY <2>4, <2>5
  <1>5. CASE StatusLost
    BY <1>5 DEF StatusLost, Settle, WireInv, Listening, Disturbed, Wire, Alive, vars,
       parent, caller, pipes, threads, procs
  <1>6. CASE ExchangeReturns
    BY <1>6 DEF ExchangeReturns, Settle, WireInv, Listening, Disturbed, Wire, Alive,
       vars, parent, caller, pipes, threads, procs
  <1>7. CASE ExchangeExpires
    BY <1>7 DEF ExchangeExpires, Settle, WireInv, Listening, Disturbed, Wire, Alive,
       vars, parent, caller, pipes, threads, procs
  <1>8. CASE ExchangeCancelled
    BY <1>8 DEF ExchangeCancelled, Settle, WireInv, Listening, Disturbed, Wire,
       Alive, vars, parent, caller, pipes, threads, procs
  <1>9. CASE Stop
    BY <1>9 DEF Stop, WireInv, Listening, Disturbed, Wire, Alive, vars, parent,
       caller, pipes, threads, procs
  <1>10. CASE VerifyReads
    <2>1. pc = "drain" /\ status # <<>>  BY <1>10 DEF VerifyReads
    <2>2. UNCHANGED <<statusOpen, sup, reader, reporting, main, failure>>
      BY <1>10 DEF VerifyReads, threads
    <2>3. CASE Disturbed
      BY <2>2, <2>3 DEF WireInv, Listening, Disturbed
    <2>4. CASE ~Disturbed
      <3>1. Wire  BY <2>1, <2>4 DEF WireInv, Listening, Disturbed
      <3>2. Len(status) >= 1  BY <2>1 DEF Streams
      <3>3. ~(Stopped \/ Len(frames) >= 2)
        BY <3>1, <3>2 DEF Wire, Stopped, Streams
      <3>4. status' = Tail(status) /\ frames' = Append(frames, Head(status)) /\ verify' = verify
        BY <1>10, <3>3 DEF VerifyReads
      <3>5. sup # "none"  BY <2>1, <3>1 DEF Wire
      <3>6. Wire'  BY <2>1, <2>2, <3>1, <3>4, <3>5, ReadKeepsWire
      <3>7. QED  BY <2>2, <2>4, <3>6 DEF WireInv
    <2>5. QED  BY <2>3, <2>4
  <1>11. CASE VerifyEnds
    <2>1. pc = "drain" /\ status = <<>> /\ ~Alive  BY <1>11 DEF VerifyEnds
    <2>2. UNCHANGED <<statusOpen, sup, reader, reporting, main, failure, frames, status>>
      BY <1>11 DEF VerifyEnds, threads, pipes
    <2>3. CASE Disturbed
      BY <2>2, <2>3 DEF WireInv, Listening, Disturbed
    <2>4. CASE ~Disturbed
      <3>1. Wire  BY <2>1, <2>4 DEF WireInv, Listening, Disturbed
      <3>2. sup = "killed" /\ reader = "kill"  BY <2>1, <3>1 DEF Wire, Alive
      <3>3. Len(status) = 0  BY <2>1
      <3>4. Len(frames) >= 1 /\ Len(frames) \in Nat
        BY <3>1, <3>2, <3>3 DEF Wire, Streams
      <3>5. Stopped  BY <3>1, <3>2, <3>3, <3>4 DEF Wire, Stopped
      <3>6. verify' = "ok"  BY <1>11, <3>5 DEF VerifyEnds
      <3>7. QED  BY <2>2, <2>4, <3>1, <3>2, <3>6 DEF WireInv, Listening, Disturbed, Wire
    <2>5. QED  BY <2>3, <2>4
  <1>12. CASE DrainReturns
    <2>1. pc = "drain" /\ pc' = "done" /\ verify # None
          /\ failure' = IF verify = "ok" /\ Sigkilled THEN None ELSE "failed"
      BY <1>12 DEF DrainReturns, Close
    <2>2. CASE Disturbed
      BY <1>12, <2>1, <2>2 DEF DrainReturns, Close, WireInv, Listening, Disturbed, pipes, threads, procs
    <2>3. CASE ~Disturbed
      <3>1. Wire  BY <2>1, <2>3 DEF WireInv, Listening, Disturbed
      <3>2. verify = "ok" /\ sup = "killed"
        BY <2>1, <3>1 DEF Wire, ParentTyped
      <3>3. QED  BY <2>1, <3>2, SupervisorAssumption DEF WireInv, Listening, Disturbed, Sigkilled
    <2>4. QED  BY <2>2, <2>3
  <1>13. CASE DrainExpires
    BY <1>13 DEF DrainExpires, Close, Raised, WireInv, Listening, Disturbed, Wire,
       Alive, vars, parent, caller, pipes, threads, procs
  <1>14. CASE DrainCancelled
    BY <1>14 DEF DrainCancelled, Close, Raised, WireInv, Listening, Disturbed, Wire,
       Alive, vars, parent, caller, pipes, threads, procs
  <1>15. CASE MainStarts
    BY <1>15 DEF MainStarts, WireInv, Listening, Disturbed, Wire, Alive, vars,
       parent, caller, pipes, threads, procs
  <1>16. CASE MainSpawns
    BY <1>16 DEF MainSpawns, WireInv, Listening, Disturbed, Wire, Alive, vars,
       parent, caller, pipes, threads, procs
  <1>17. CASE MainCloses
    BY <1>17 DEF MainCloses, WireInv, Listening, Disturbed, Wire, Alive, vars,
       parent, caller, pipes, threads, procs
  <1>18. CASE MainWaited
    BY <1>18 DEF MainWaited, WireInv, Listening, Disturbed, Wire, Alive, vars,
       parent, caller, pipes, threads, procs
  <1>19. CASE MainReports
    <2>1. UNCHANGED <<pc, frames, verify, failure>>
      BY <1>19 DEF MainReports, parent
    <2>2. CASE ~Listening
      BY <1>19, <2>1, <2>2 DEF MainReports, WireInv, Listening, Disturbed, Alive
    <2>3. CASE Listening
      <3>1. Wire  BY <2>3 DEF WireInv
      <3>2. statusOpen  BY <3>1 DEF Wire
      <3>3. status' = Append(status, exit)
        BY <1>19, <3>2 DEF MainReports
      <3>4. /\ main # "join" /\ main' = "join"
            /\ exit # "stopping"
            /\ reader # "kill"
            /\ UNCHANGED <<statusOpen, sup, reader, reporting>>
        BY <1>19, <3>1, <3>2 DEF MainReports, Wire, TargetOnce, ProcessTyped, Exits
      <3>5. QED  BY <2>1, <2>3, <3>1, <3>3, <3>4 DEF WireInv, Wire, Streams, Listening, Disturbed
    <2>4. QED  BY <2>2, <2>3
  <1>20. CASE MainFails
    <2>1. UNCHANGED <<pc, frames, verify, failure>>
      BY <1>20 DEF MainFails, parent
    <2>2. CASE ~Listening
      BY <1>20, <2>1, <2>2 DEF MainFails, WireInv, Listening, Disturbed, Alive
    <2>3. CASE Listening
      <3>1. Wire  BY <2>3 DEF WireInv
      <3>2. statusOpen  BY <3>1 DEF Wire
      <3>3. status' = Append(status, "start_failed")
        BY <1>20, <3>2 DEF MainFails
      <3>4. /\ main # "join" /\ main' = "join"
            /\ reader # "kill"
            /\ UNCHANGED <<statusOpen, sup, reader, reporting>>
        BY <1>20, <3>1, <3>2 DEF MainFails, Wire
      <3>5. QED  BY <2>1, <2>3, <3>1, <3>3, <3>4 DEF WireInv, Wire, Streams, Listening, Disturbed
    <2>4. QED  BY <2>2, <2>3
  <1>21. CASE ReaderWakes
    BY <1>21 DEF ReaderWakes, WireInv, Listening, Disturbed, Wire, Alive, vars,
       parent, caller, pipes, threads, procs
  <1>22. CASE ReaderLocks
    BY <1>22 DEF ReaderLocks, WireInv, Listening, Disturbed, Wire, Alive, vars,
       parent, caller, pipes, threads, procs
  <1>23. CASE ReaderReports
    <2>1. UNCHANGED <<pc, frames, verify, failure>>
      BY <1>23 DEF ReaderReports, parent
    <2>2. CASE ~Listening
      BY <1>23, <2>1, <2>2 DEF ReaderReports, WireInv, Listening, Disturbed, Alive
    <2>3. CASE Listening
      <3>1. Wire  BY <2>3 DEF WireInv
      <3>2. statusOpen  BY <3>1 DEF Wire
      <3>3. status' = Append(status, "stopping")
        BY <1>23, <3>2 DEF ReaderReports
      <3>4. /\ reader = "report" /\ reader' = "kill"
            /\ reporting' = "reader" /\ sup = "alive"
            /\ UNCHANGED <<statusOpen, sup, main>>
        BY <1>23, <3>1, <3>2 DEF ReaderReports, Alive
      <3>5. QED  BY <2>1, <2>3, <3>1, <3>3, <3>4 DEF WireInv, Wire, Streams, Listening, Disturbed
    <2>4. QED  BY <2>2, <2>3
  <1>24. CASE ReaderKills
    BY <1>24 DEF ReaderKills, WireInv, Listening, Disturbed, Wire, Alive, vars,
       parent, caller, pipes, threads, procs
  <1>25. CASE OutputExceeded
    BY <1>25 DEF OutputExceeded, Settle, WireInv, Listening, Disturbed, Wire, Alive,
       vars, parent, caller, pipes, threads, procs
  <1>26. CASE TargetForks
    BY <1>26 DEF TargetForks, WireInv, Listening, Disturbed, Wire, Alive, vars,
       parent, caller, pipes, threads, procs
  <1>27. CASE TargetExits
    BY <1>27 DEF TargetExits, WireInv, Listening, Disturbed, Wire, Alive, vars,
       parent, caller, pipes, threads, procs
  <1>28. CASE ChildExits
    BY <1>28 DEF ChildExits, WireInv, Listening, Disturbed, Wire, Alive, vars,
       parent, caller, pipes, threads, procs
  <1>29. CASE CallerCancels
    BY <1>29 DEF CallerCancels, WireInv, Listening, Disturbed, Wire, Alive, vars,
       parent, caller, pipes, threads, procs
  <1>30. CASE ParentDies
    BY <1>30 DEF ParentDies, WireInv, Listening, Disturbed, Wire, Alive, vars,
       parent, caller, pipes, threads, procs
  <1>31. CASE SupervisorDies
    BY <1>31 DEF SupervisorDies, WireInv, Listening, Disturbed, Wire, Alive, vars,
       parent, caller, pipes, threads, procs
  <1>32. CASE UNCHANGED vars
    BY <1>32 DEF WireInv, Listening, Disturbed, Wire, Alive, vars, parent, caller,
       pipes, threads, procs
  <1>33. QED
    BY <1>1, <1>2, <1>3, <1>4, <1>5, <1>6, <1>7, <1>8, <1>9, <1>10, <1>11,
       <1>12, <1>13, <1>14, <1>15, <1>16, <1>17, <1>18, <1>19, <1>20,
       <1>21, <1>22, <1>23, <1>24, <1>25, <1>26, <1>27, <1>28, <1>29,
       <1>30, <1>31, <1>32 DEF Next, Parent, Main, Reader, Group, Others,
       Quiet

(* The inductive invariant. *)
LEMMA InvInit == Init => Inv
  <1> SUFFICES ASSUME Init PROVE Inv
    OBVIOUS
  <1> USE SupervisorAssumption
  <1>1. Streams
    <2>1. frames = <<>> /\ status = <<>>  BY DEF Init
    <2>2. QED  BY <2>1 DEF Streams
  <1>2. ParentTyped
    <2>1. cancels \in 0..MaxCancels  BY DEF Init
    <2>2. QED  BY <2>1 DEF Init, ParentTyped, Primary, Exits
  <1>3. ProcessTyped  BY DEF Init, ProcessTyped
  <1>4. TypeOK  BY <1>1, <1>2, <1>3, TypeParts
  <1>5. GroupGone /\ Verdicts  BY DEF Init, GroupGone, Verdicts, Primary
  <1>6. TargetOnce  BY DEF Init, TargetOnce
  <1>7. CancelKept /\ Announced /\ Seen
    <2>1. Len(frames) = 0 /\ Len(status) = 0 /\ verify # "ok"  BY DEF Init, Frames, Exits, Primary
    <2>2. QED  BY <2>1 DEF Init, CancelKept, Announced, Seen, Over
  <1>8. WireInv
    <2>1. Len(frames) = 0 /\ Len(status) = 0  BY DEF Init
    <2>2. reader # "kill" /\ reporting # "reader" /\ main # "join"  BY DEF Init
    <2>3. failure # "failed" /\ verify # "failed" /\ verify # "ok"
      BY DEF Init, Frames, Exits, Primary
    <2>4. statusOpen /\ sup = "none" /\ pc = "launch"  BY DEF Init
    <2>5. QED  BY <2>1, <2>2, <2>3, <2>4 DEF WireInv, Wire
  <1>9. QED  BY <1>4, <1>5, <1>6, <1>7, <1>8 DEF Inv

(* Every step keeps the inductive invariant; each part has its lemma, and  *)
(* the wire part needs the types, the seen frames and the cancellations.   *)
LEMMA InvNext == Inv /\ [Next]_vars => Inv'
  <1> SUFFICES ASSUME Inv, [Next]_vars PROVE Inv'
    OBVIOUS
  <1>1. Streams /\ ParentTyped /\ ProcessTyped  BY TypeParts DEF Inv
  <1>2. TypeOK'
    <2>1. main = "report" => exit # None  BY DEF Inv, TargetOnce
    <2>2. Streams'  BY <1>1, <2>1, StreamsNext
    <2>3. ParentTyped' /\ ProcessTyped'
      BY <1>1, ParentTypedNext, ProcessTypedNext
    <2>4. QED  BY <2>2, <2>3 DEF TypeOK, Streams, ParentTyped, ProcessTyped
  <1>3. GroupGone'  BY GroupGoneNext DEF Inv
  <1>4. TargetOnce'  BY <1>1, TargetOnceNext DEF Inv
  <1>5. Verdicts'  BY <1>1, VerdictsNext DEF Inv
  <1>6. CancelKept'  BY <1>1, CancelKeptNext DEF Inv
  <1>7. Announced' /\ Seen'  BY <1>1, AnnouncedNext, SeenNext DEF Inv
  <1>8. WireInv'  BY <1>1, WireNext DEF Inv
  <1>9. QED  BY <1>2, <1>3, <1>4, <1>5, <1>6, <1>7, <1>8 DEF Inv

(* It holds in every reachable state. *)
LEMMA Invariance == Spec => []Inv
  BY InvInit, InvNext, PTL DEF Spec

(* The variables stay in their types. *)
THEOREM TypeCorrect == Spec => []TypeOK
  <1>1. Inv => TypeOK  BY DEF Inv
  <1>2. QED  BY Invariance, <1>1, PTL

(* A call that returns without reporting a cleanup failure leaves nothing  *)
(* of its process group alive, whatever ended its supervisor, except a     *)
(* SIGKILL from outside between the stop frame and the group kill.         *)
THEOREM Contained == Spec => []ContainedOnReturn
  <1>1. Inv => ContainedOnReturn  BY DEF Inv, Seen, Taken, GroupGone, ContainedOnReturn
  <1>2. QED  BY Invariance, <1>1, PTL

(* A verdict is only ever the output of a target that exited with zero. *)
THEOREM VerdictsAreReal == Spec => []VerdictFromTarget
  <1>1. Inv => VerdictFromTarget
    BY SupervisorAssumption DEF Inv, Verdicts, TargetOnce, VerdictFromTarget, Frames, Exits
  <1>2. QED  BY Invariance, <1>1, PTL

(* Whatever fails afterwards, a cancelled call ends cancelled. *)
THEOREM CancelledStaysCancelled == Spec => []CancellationRemains
  <1>1. Inv => CancellationRemains
    BY DEF Inv, TypeOK, CancelKept, Verdicts, CancellationRemains
  <1>2. QED  BY Invariance, <1>1, PTL

(* Whatever the order in which the two threads of the supervisor report,   *)
(* a stop of a supervisor nobody has ended is never reported as unverified. *)
THEOREM UndisturbedStopVerifies == Spec => []StopVerifiable
  <1>1. Inv => StopVerifiable  BY DEF Inv, WireInv, Disturbed, StopVerifiable
  <1>2. QED  BY Invariance, <1>1, PTL

-----------------------------------------------------------------------------
(* The parent, its supervisor and the two pipes are an implementation of   *)
(* the process the adapter owns (OwnedProcess).  Both ends of the mapping  *)
(* are written as a View of six values, so that each abstract step is a    *)
(* fact about views and each concrete action one about the six values.     *)

(* The owned process, field by field. *)
View(ph, h, r, a, c, u) ==
    [phase |-> ph, how |-> h, report |-> r, alive |-> a, pending |-> c, undercut |-> u]

How    == Kind(IF pc = "done" THEN result ELSE primary)
Report == pc = "done" /\ failure # None
Living == Alive \/ group # {}

(* The process group comes to life only while the call goes on. *)
LEMMA LivesView ==
  ASSUME NEW ph, NEW h, NEW r, NEW a, NEW c, NEW u, NEW b \in BOOLEAN,
         b => ph \in {"launching", "working", "teardown"}
  PROVE  View(ph, h, r, b, c, u) \in Promised!Lives(View(ph, h, r, a, c, u))
  <1> DEFINE V == View(ph, h, r, a, c, u)
  <1>1. View(ph, h, r, b, c, u) = [V EXCEPT !.alive = b]  BY DEF View
  <1>2. b \in IF Promised!Going(V) THEN BOOLEAN ELSE {FALSE}
    <2>1. V.phase = ph  BY DEF View
    <2>2. QED  BY <2>1 DEF Promised!Going
  <1>3. QED  BY <1>1, <1>2 DEF Promised!Lives

(* It is undercut only once it was told to stop. *)
LEMMA UndercutsView ==
  ASSUME NEW ph, NEW h, NEW r, NEW a, NEW c, NEW u, NEW b \in BOOLEAN,
         ph \notin {"launching", "working"}, a, ~u
  PROVE  View(ph, h, r, b, c, TRUE) \in Promised!Undercuts(View(ph, h, r, a, c, u))
  <1> DEFINE V == View(ph, h, r, a, c, u)
  <1>1. V.phase = ph /\ V.how = h /\ V.report = r /\ V.alive = a /\ V.pending = c /\ V.undercut = u
    BY DEF View
  <1> HIDE DEF V
  <1>2. Promised!Undercut(V, b) = View(ph, h, r, b, c, TRUE)
    BY <1>1 DEF View, Promised!Undercut
  <1>3. Promised!Undercut(V, b) \in Promised!Undercuts(V)
    BY <1>1 DEF Promised!Undercuts
  <1>4. QED  BY <1>2, <1>3 DEF V

(* The four ways in which a call goes on, with or without a cancellation. *)
LEMMA ProceedsView ==
  ASSUME NEW h, NEW r, NEW a, NEW c \in BOOLEAN, NEW u
  PROVE  /\ ~c => View("working", h, r, a, c, u) \in Promised!Proceeds(View("launching", h, r, a, c, u))
         /\ (h = None /\ ~c) =>
                \A k \in {"output", "failed"} :
                   View("working", k, r, a, c, u) \in Promised!Proceeds(View("working", h, r, a, c, u))
         /\ c => View("working", "cancelled", r, a, FALSE, u) \in Promised!Proceeds(View("working", h, r, a, c, u))
         /\ (h # None /\ ~c) => View("teardown", h, r, a, c, u) \in Promised!Proceeds(View("working", h, r, a, c, u))
  <1> DEFINE L == View("launching", h, r, a, c, u)
             W == View("working", h, r, a, c, u)
  <1>1. W.phase = "working" /\ W.how = h /\ W.report = r /\ W.alive = a /\ W.pending = c /\ W.undercut = u
    BY DEF View
  <1>2. L.phase = "launching" /\ L.pending = c  BY DEF View
  <1>3. [L EXCEPT !.phase = "working"] = W  BY DEF View
  <1>4. [W EXCEPT !.phase = "teardown"] = View("teardown", h, r, a, c, u)  BY DEF View
  <1>5. ASSUME NEW k PROVE Promised!Exchanged(W, k) = View("working", k, r, a, FALSE, u)
    BY <1>1 DEF View, Promised!Exchanged
  <1> HIDE DEF L, W
  <1>6. ~c => W \in Promised!Proceeds(L)  BY <1>2, <1>3 DEF Promised!Proceeds
  <1>7. (h = None /\ ~c) => \A k \in {"output", "failed"} : View("working", k, r, a, c, u) \in Promised!Proceeds(W)
    BY <1>1, <1>5 DEF Promised!Proceeds
  <1>8. c => View("working", "cancelled", r, a, FALSE, u) \in Promised!Proceeds(W)
    BY <1>1, <1>5 DEF Promised!Proceeds
  <1>9. (h # None /\ ~c) => View("teardown", h, r, a, c, u) \in Promised!Proceeds(W)
    BY <1>1, <1>4 DEF Promised!Proceeds
  <1>10. QED  BY <1>6, <1>7, <1>8, <1>9 DEF L, W

(* The endings: without a handle, after a whole teardown, and cut short. *)
LEMMA EndingsView ==
  ASSUME NEW h, NEW r, NEW a \in BOOLEAN, NEW c \in BOOLEAN, NEW u
  PROVE  /\ \A b \in {FALSE, a} :
                View("ended", IF c THEN "cancelled" ELSE "failed", FALSE, b, FALSE, u)
                  \in Promised!Endings(View("launching", h, r, a, c, u))
         /\ ~c => \A q \in BOOLEAN : (q \/ ~a \/ u) =>
                View("ended", IF q /\ h = "output" THEN "failed" ELSE h, q, a, FALSE, u)
                  \in Promised!Endings(View("teardown", h, r, a, c, u))
         /\ c => View("ended", "cancelled", FALSE, a, FALSE, u) \in Promised!Endings(View("teardown", h, r, a, c, u))
  <1> DEFINE L == View("launching", h, r, a, c, u)
             T == View("teardown", h, r, a, c, u)
  <1>1. L.phase = "launching" /\ L.pending = c /\ L.alive = a /\ L.undercut = u  BY DEF View
  <1>2. T.phase = "teardown" /\ T.pending = c /\ T.alive = a /\ T.how = h /\ T.undercut = u
    BY DEF View
  <1>3. ASSUME NEW k, NEW q, NEW b
        PROVE  /\ Promised!Ended(L, k, q, b) = View("ended", k, q, b, FALSE, u)
               /\ Promised!Ended(T, k, q, b) = View("ended", k, q, b, FALSE, u)
    BY <1>1, <1>2 DEF View, Promised!Ended
  <1> HIDE DEF L, T
  <1>4. ASSUME NEW b \in {FALSE, a}
        PROVE  Promised!Ended(L, IF c THEN "cancelled" ELSE "failed", FALSE, b) \in Promised!Endings(L)
    BY <1>1 DEF Promised!Endings, Promised!Unstarted
  <1>5. ASSUME ~c, NEW q \in BOOLEAN, q \/ ~a \/ u
        PROVE  Promised!Ended(T, IF q /\ h = "output" THEN "failed" ELSE h, q, a) \in Promised!Endings(T)
    BY <1>2, <1>5 DEF Promised!Endings, Promised!TornDown
  <1>6. c => Promised!Ended(T, "cancelled", FALSE, a) \in Promised!Endings(T)
    BY <1>2 DEF Promised!Endings
  <1>7. QED  BY <1>3, <1>4, <1>5, <1>6 DEF L, T

(* What the adapter sees before and after a step. *)
LEMMA Views ==
  /\ Owned = View(Phase, How, Report, Living, cancelReq, Undercut)
  /\ Owned' = View(Phase', How', Report', Living', cancelReq', Undercut')
  BY DEF Owned, View, How, Report, Living

(* What an outcome of _run is to the adapter. *)
LEMMA Kinds ==
  /\ Kind(None) = None /\ Kind("ok") = "output" /\ Kind("cancelled") = "cancelled"
  /\ Kind("cleanup_failed") = "failed"
  /\ \A p \in Primary \ {"ok", "cancelled"} : Kind(p) = "failed"
  /\ \A p \in Primary : Kind(p) # None
  /\ \A p \in Primary : Kind(p) = "output" => p = "ok"
  BY SupervisorAssumption DEF Kind, Primary, Frames, Exits

(* The phase of the call in terms of the parent's program counter. *)
LEMMA Phases ==
  /\ pc = "launch" => Phase = "launching"
  /\ pc \in {"exchange", "settled"} => Phase = "working"
  /\ pc = "drain" => Phase = "teardown"
  /\ pc = "done" => Phase = "ended"
  /\ pc = "dead" => Phase = "dead"
  BY DEF Phase

(* The same after a step. *)
LEMMA PhasesNext ==
  /\ pc' = "launch" => Phase' = "launching"
  /\ pc' \in {"exchange", "settled"} => Phase' = "working"
  /\ pc' = "drain" => Phase' = "teardown"
  /\ pc' = "done" => Phase' = "ended"
  /\ pc' = "dead" => Phase' = "dead"
  BY DEF Phase

(* A call that is still to be launched has recorded no failure. *)
Unfailed == pc = "launch" => failure = None

(* Steps the adapter does not see, but for the group's life and death. *)
Aside == UNCHANGED <<pc, primary, failure, result, cancelReq>>

(* A step aside is the life or death of the process, or a stutter.         *)
LEMMA AsideOwned ==
  ASSUME TypeOK, Aside, UNCHANGED Undercut, pc = "launch" \/ (Living' => Living)
  PROVE  [Promised!OwnedNext]_Owned
  <1>1. Phase' = Phase /\ How' = How /\ Report' = Report /\ cancelReq' = cancelReq
    BY DEF Aside, Phase, How, Report, Kind
  <1>2. Living' \in BOOLEAN /\ Living \in BOOLEAN  BY DEF Living
  <1>3. CASE Living' = Living
    BY <1>1, <1>3, Views
  <1>4. CASE Living' # Living
    <2>1. Living' => Phase \in {"launching", "working", "teardown"}
      BY <1>2, <1>4, Phases
    <2>2. Owned' \in Promised!Lives(Owned)
      BY <1>1, <1>2, <2>1, Views, LivesView
    <2>3. QED  BY <2>2 DEF Promised!OwnedNext
  <1>5. QED  BY <1>3, <1>4

-----------------------------------------------------------------------------
(* Each of the four sets of successors is a step of the owned process. *)
LEMMA Aim ==
  ASSUME Owned' \in Promised!Lives(Owned) \cup Promised!Undercuts(Owned)
                       \cup Promised!Proceeds(Owned) \cup Promised!Endings(Owned)
  PROVE  [Promised!OwnedNext]_Owned
  BY DEF Promised!OwnedNext

(* The supervisor's threads, its group and the verification are aside; the *)
(* group comes to life only through a supervisor that is alive.            *)
LEMMA Sidesteps ==
  ASSUME TypeOK,
         SpawnSupervisor \/ VerifyReads \/ VerifyEnds \/ Main \/ Reader
          \/ TargetForks \/ TargetExits \/ ChildExits \/ SupervisorDies \/ Quiet \/ UNCHANGED vars
  PROVE  Aside /\ (pc = "launch" \/ (Living' => Living))
  <1> USE DEF Aside, Living, Alive
  <1>1. CASE SpawnSupervisor
    BY <1>1 DEF SpawnSupervisor, parent, caller
  <1>2. CASE VerifyReads  BY <1>2 DEF VerifyReads, procs, caller
  <1>3. CASE VerifyEnds  BY <1>3 DEF VerifyEnds, procs, caller
  <1>4. CASE Main
    <2>1. CASE MainStarts  BY <2>1 DEF MainStarts, procs, parent, caller
    <2>2. CASE MainSpawns  BY <2>2 DEF MainSpawns, parent, caller
    <2>3. CASE MainCloses  BY <2>3 DEF MainCloses, parent, caller
    <2>4. CASE MainWaited  BY <2>4 DEF MainWaited, procs, parent, caller
    <2>5. CASE MainReports  BY <2>5 DEF MainReports, procs, parent, caller
    <2>6. CASE MainFails  BY <2>6 DEF MainFails, parent, caller
    <2>7. QED  BY <1>4, <2>1, <2>2, <2>3, <2>4, <2>5, <2>6 DEF Main
  <1>5. CASE Reader
    <2>1. CASE ReaderWakes  BY <2>1 DEF ReaderWakes, procs, parent, caller
    <2>2. CASE ReaderLocks  BY <2>2 DEF ReaderLocks, procs, parent, caller
    <2>3. CASE ReaderReports  BY <2>3 DEF ReaderReports, parent, caller
    <2>4. CASE ReaderKills  BY <2>4 DEF ReaderKills, parent, caller
    <2>5. QED  BY <1>5, <2>1, <2>2, <2>3, <2>4 DEF Reader
  <1>6. CASE TargetForks  BY <1>6 DEF TargetForks, parent, caller
  <1>7. CASE TargetExits  BY <1>7 DEF TargetExits, parent, caller
  <1>8. CASE ChildExits  BY <1>8 DEF ChildExits, parent, caller
  <1>9. CASE SupervisorDies  BY <1>9 DEF SupervisorDies, procs, parent, caller
  <1>10. CASE Quiet \/ UNCHANGED vars  BY <1>10 DEF Quiet, vars, procs, parent, caller
  <1>11. QED  BY <1>1, <1>2, <1>3, <1>4, <1>5, <1>6, <1>7, <1>8, <1>9, <1>10

(* Only the death of the supervisor undercuts it: who is struck acts no     *)
(* more.                                                                   *)
LEMMA UndercutStays ==
  ASSUME TypeOK, [Next]_vars, ~SupervisorDies
  PROVE  UNCHANGED Undercut
  <1> USE DEF Undercut, Alive
  <1>1. CASE Parent
    BY <1>1 DEF Parent, SpawnSupervisor, Launched, LaunchFails, ReadExit, StatusLost,
       ExchangeReturns, ExchangeExpires, ExchangeCancelled, Stop, VerifyReads, VerifyEnds,
       DrainReturns, DrainExpires, DrainCancelled, threads
  <1>2. CASE Main
    BY <1>2 DEF Main, MainStarts, MainSpawns, MainCloses, MainWaited, MainReports, MainFails
  <1>3. CASE Reader
    BY <1>3 DEF Reader, ReaderWakes, ReaderLocks, ReaderReports, ReaderKills, threads
  <1>4. CASE Group
    BY <1>4 DEF Group, OutputExceeded, TargetForks, TargetExits, ChildExits, threads
  <1>5. CASE CallerCancels \/ ParentDies
    BY <1>5 DEF CallerCancels, ParentDies, threads
  <1>6. CASE UNCHANGED vars \/ Quiet
    BY <1>6 DEF vars, Quiet, threads
  <1>7. QED  BY <1>1, <1>2, <1>3, <1>4, <1>5, <1>6 DEF Next, Others

(* A supervisor that dies is undercut if it is struck between its          *)
(* announcement and the kill, after the parent has closed control.         *)
LEMMA SupervisorDiesOwned ==
  ASSUME TypeOK, Announced, SupervisorDies
  PROVE  [Promised!OwnedNext]_Owned
  <1>1. Aside /\ (pc = "launch" \/ (Living' => Living))  BY Sidesteps
  <1>2. CASE UNCHANGED Undercut  BY <1>1, <1>2, AsideOwned
  <1>3. CASE ~UNCHANGED Undercut
    <2>1. Undercut = FALSE /\ Undercut' = TRUE /\ Living = TRUE /\ Living' \in BOOLEAN
      BY <1>3 DEF SupervisorDies, Undercut, Living, Alive, threads
    <2>2. reader = "kill"  BY <2>1 DEF SupervisorDies, Undercut, threads
    <2>3. pc \in {"drain", "done", "dead"}  BY <2>2 DEF Announced
    <2>4. Phase \notin {"launching", "working"}  BY <2>3, Phases
    <2>5. Phase' = Phase /\ How' = How /\ Report' = Report /\ cancelReq' = cancelReq
      BY <1>1 DEF Aside, Phase, How, Report, Kind
    <2>6. Owned' \in Promised!Undercuts(Owned)
      BY <2>1, <2>4, <2>5, Views, UndercutsView
    <2>7. QED  BY <2>6, Aim
  <1>4. QED  BY <1>2, <1>3

(* The handle is returned. *)
LEMMA LaunchedOwned == ASSUME TypeOK, UNCHANGED Undercut, Launched PROVE [Promised!OwnedNext]_Owned
  <1>1. Phase = "launching" /\ Phase' = "working" /\ ~cancelReq
    BY Phases, PhasesNext DEF Launched
  <1>2. How' = How /\ Report' = Report /\ Living' = Living /\ cancelReq' = cancelReq
    BY DEF Launched, How, Report, Living, Alive, caller, procs, Kind
  <1>3. Owned' \in Promised!Proceeds(Owned)
    BY <1>1, <1>2, Views, ProceedsView DEF TypeOK
  <1>4. QED  BY <1>3, Aim

(* An exchange that ends by itself ends with output or a failure. *)
LEMMA SettleOwned ==
  ASSUME TypeOK, pc = "exchange", ~cancelReq, primary = None,
         NEW p \in Primary \ {"cancelled"}, Settle(p), UNCHANGED <<cancelReq, sup, group, Undercut>>
  PROVE  [Promised!OwnedNext]_Owned
  <1>1. Phase = "working" /\ Phase' = "working"  BY Phases, PhasesNext DEF Settle
  <1>2. How = None /\ How' \in {"output", "failed"}
    BY Kinds DEF Settle, How
  <1>3. Report' = Report /\ Living' = Living /\ cancelReq' = cancelReq
    BY DEF Settle, Report, Living, Alive
  <1>4. Owned' \in Promised!Proceeds(Owned)
    BY <1>1, <1>2, <1>3, Views, ProceedsView DEF TypeOK
  <1>5. QED  BY <1>4, Aim

(* Each of the five ways in which it may, or a frame that is only read. *)
LEMMA ExchangeEnds ==
  ASSUME TypeOK, Verdicts, UNCHANGED Undercut,
         ReadExit \/ StatusLost \/ ExchangeReturns \/ OutputExceeded \/ ExchangeExpires
  PROVE  [Promised!OwnedNext]_Owned
  <1>1. pc = "exchange" /\ ~cancelReq /\ UNCHANGED <<cancelReq, sup, group>>
    BY DEF ReadExit, StatusLost, ExchangeReturns, OutputExceeded, ExchangeExpires, caller, procs
  <1>2. primary = None  BY <1>1 DEF Verdicts
  <1>3. CASE \E p \in Primary \ {"cancelled"} : Settle(p)
    BY <1>1, <1>2, <1>3, SettleOwned
  <1>4. CASE UNCHANGED <<pc, primary>> /\ ReadExit
    <2>1. Aside /\ (Living' => Living)
      BY <1>4 DEF ReadExit, Aside, Living, Alive, caller, procs
    <2>2. QED  BY <2>1, AsideOwned
  <1>5. (\E p \in Primary \ {"cancelled"} : Settle(p)) \/ (UNCHANGED <<pc, primary>> /\ ReadExit)
    BY DEF ReadExit, StatusLost, ExchangeReturns, OutputExceeded, ExchangeExpires, Primary
  <1>6. QED  BY <1>3, <1>4, <1>5

(* A cancellation ends the exchange, or takes the place of its end. *)
LEMMA ExchangeCancelledOwned ==
  ASSUME TypeOK, UNCHANGED Undercut, ExchangeCancelled
  PROVE  [Promised!OwnedNext]_Owned
  <1>1. Phase = "working" /\ Phase' = "working"
    BY Phases, PhasesNext DEF ExchangeCancelled, Settle
  <1>2. How' = "cancelled"  BY Kinds DEF ExchangeCancelled, Settle, How
  <1>3. Report' = Report /\ Living' = Living
    BY DEF ExchangeCancelled, Settle, Report, Living, Alive, procs
  <1>4. cancelReq /\ cancelReq' = FALSE  BY DEF ExchangeCancelled
  <1>5. View("working", "cancelled", Report, Living, FALSE, Undercut)
          \in Promised!Proceeds(View("working", How, Report, Living, cancelReq, Undercut))
    BY <1>4, ProceedsView DEF TypeOK
  <1>6. Owned' = View("working", "cancelled", Report, Living, FALSE, Undercut)
    BY <1>1, <1>2, <1>3, <1>4, Views
  <1>7. Owned' \in Promised!Proceeds(Owned)
    BY <1>1, <1>5, <1>6, Views
  <1>8. QED  BY <1>7, Aim

(* The teardown begins. *)
LEMMA StopOwned == ASSUME TypeOK, Verdicts, UNCHANGED Undercut, Stop PROVE [Promised!OwnedNext]_Owned
  <1>1. Phase = "working" /\ Phase' = "teardown"
    BY Phases, PhasesNext DEF Stop
  <1>2. How # None /\ How' = How
    BY Kinds DEF Stop, How, Verdicts, TypeOK
  <1>3. Report' = Report /\ Living' = Living /\ cancelReq' = cancelReq /\ ~cancelReq
    BY DEF Stop, Report, Living, Alive, procs, caller
  <1>4. Owned' \in Promised!Proceeds(Owned)
    BY <1>1, <1>2, <1>3, Views, ProceedsView DEF TypeOK
  <1>5. QED  BY <1>4, Aim

(* No handle, whatever may have been started. *)
LEMMA LaunchFailsOwned ==
  ASSUME TypeOK, Unfailed, UNCHANGED Undercut, LaunchFails
  PROVE  [Promised!OwnedNext]_Owned
  <1>1. Phase = "launching" /\ Phase' = "ended"
    BY Phases, PhasesNext DEF LaunchFails
  <1>2. How' = IF cancelReq THEN "cancelled" ELSE "failed"
    BY Kinds DEF LaunchFails, How, Primary
  <1>3. Report' = FALSE  BY DEF LaunchFails, Unfailed, Report
  <1>4. Living' \in {FALSE, Living}  BY DEF LaunchFails, Living, Alive
  <1>5. cancelReq' = FALSE  BY DEF LaunchFails, TypeOK
  <1>6. Living \in BOOLEAN /\ cancelReq \in BOOLEAN  BY DEF Living, TypeOK
  <1>7. View("ended", IF cancelReq THEN "cancelled" ELSE "failed", FALSE, Living', FALSE, Undercut)
          \in Promised!Endings(View("launching", How, Report, Living, cancelReq, Undercut))
    BY <1>4, <1>6, EndingsView
  <1>8. Owned' = View("ended", IF cancelReq THEN "cancelled" ELSE "failed", FALSE, Living', FALSE, Undercut)
    BY <1>1, <1>2, <1>3, <1>5, Views
  <1>9. Owned' \in Promised!Endings(Owned)
    BY <1>1, <1>7, <1>8, Views
  <1>10. QED  BY <1>9, Aim

(* The expected return code after a stop frame is that of the group kill,  *)
(* or of a stroke just before it.                                          *)
LEMMA VerifiedTaken ==
  ASSUME Announced, verify = "ok", Sigkilled
  PROVE  Taken
  BY DEF Announced, Sigkilled, Taken, Undercut

(* A teardown that was not cut short reports a failure, or has seen the    *)
(* kill; a killed supervisor has taken its group along (GroupGone).        *)
LEMMA CloseOwned ==
  ASSUME TypeOK, GroupGone, Verdicts, Announced, UNCHANGED Undercut, DrainReturns \/ DrainExpires
  PROVE  [Promised!OwnedNext]_Owned
  <1>1. PICK f \in {None, "failed", "timeout"} : Close(primary, f) /\ (f = None => Taken)
    <2>1. CASE DrainReturns
      <3>1. CASE verify = "ok" /\ Sigkilled
        BY <2>1, <3>1, VerifiedTaken DEF DrainReturns
      <3>2. CASE ~(verify = "ok" /\ Sigkilled)
        <4>1. Close(primary, "failed")  BY <2>1, <3>2 DEF DrainReturns, Close
        <4>2. "failed" # None  BY SupervisorAssumption
        <4>3. QED  BY <4>1, <4>2
      <3>3. QED  BY <3>1, <3>2
    <2>2. CASE DrainExpires
      <3>1. "timeout" # None  BY SupervisorAssumption DEF Primary
      <3>2. QED  BY <2>2, <3>1 DEF DrainExpires
    <2>3. QED  BY <2>1, <2>2
  <1>2. pc = "drain" /\ ~cancelReq /\ UNCHANGED <<cancelReq, sup, group>>
    BY DEF DrainReturns, DrainExpires, caller, procs
  <1>3. Phase = "teardown" /\ Phase' = "ended"
    BY <1>1, <1>2, Phases, PhasesNext DEF Close
  <1>4. primary \in Primary  BY <1>2 DEF Verdicts, TypeOK
  <1>5. How = Kind(primary) /\ How' = Kind(Raised(primary, f))
    BY <1>1, <1>2 DEF How, Close
  <1>6. How' = IF Report' /\ How = "output" THEN "failed" ELSE How
    BY <1>1, <1>4, <1>5, Kinds DEF Raised, Report, Close
  <1>7. Report' \in BOOLEAN /\ Living \in BOOLEAN  BY DEF Report, Living
  <1>8. Report' \/ ~Living \/ Undercut
    BY <1>1 DEF Report, Living, Alive, Close, GroupGone, Taken
  <1>9. Living' = Living /\ cancelReq' = FALSE /\ cancelReq = FALSE
    BY <1>2 DEF Living, Alive, TypeOK
  <1>10. View("ended", How', Report', Living, FALSE, Undercut)
           \in Promised!Endings(View("teardown", How, Report, Living, cancelReq, Undercut))
    BY <1>6, <1>7, <1>8, <1>9, EndingsView
  <1>11. Owned' \in Promised!Endings(Owned)
    BY <1>3, <1>9, <1>10, Views
  <1>12. QED  BY <1>11, Aim

(* A teardown cut short ends cancelled. *)
LEMMA DrainCancelledOwned ==
  ASSUME TypeOK, UNCHANGED Undercut, DrainCancelled
  PROVE  [Promised!OwnedNext]_Owned
  <1>1. Phase = "teardown" /\ Phase' = "ended"
    BY Phases, PhasesNext DEF DrainCancelled, Close
  <1>2. How' = "cancelled"  BY Kinds DEF DrainCancelled, Close, Raised, How
  <1>3. Report' = FALSE  BY DEF DrainCancelled, Close, Report
  <1>4. Living' = Living /\ Living \in BOOLEAN  BY DEF DrainCancelled, Living, Alive, procs
  <1>5. cancelReq /\ cancelReq' = FALSE /\ cancelReq \in BOOLEAN  BY DEF DrainCancelled, TypeOK
  <1>6. View("ended", "cancelled", FALSE, Living, FALSE, Undercut)
          \in Promised!Endings(View("teardown", How, Report, Living, cancelReq, Undercut))
    BY <1>4, <1>5, EndingsView
  <1>7. Owned' = View("ended", "cancelled", FALSE, Living, FALSE, Undercut)
    BY <1>1, <1>2, <1>3, <1>4, <1>5, Views
  <1>8. Owned' \in Promised!Endings(Owned)
    BY <1>1, <1>6, <1>7, Views
  <1>9. QED  BY <1>8, Aim

(* Nothing goes back to the launch, and only the end records a failure. *)
LEMMA UnfailedNext == ASSUME Unfailed, [Next]_vars PROVE Unfailed'
  <1> SUFFICES ASSUME pc' = "launch" PROVE pc = "launch" /\ failure' = failure
    BY DEF Unfailed
  <1> USE DEF parent, Settle, Close
  <1>1. CASE Parent
    BY <1>1 DEF Parent, SpawnSupervisor, Launched, LaunchFails, ReadExit, StatusLost,
       ExchangeReturns, ExchangeExpires, ExchangeCancelled, Stop, VerifyReads, VerifyEnds,
       DrainReturns, DrainExpires, DrainCancelled
  <1>2. CASE Main
    BY <1>2 DEF Main, MainStarts, MainSpawns, MainCloses, MainWaited, MainReports, MainFails
  <1>3. CASE Reader
    BY <1>3 DEF Reader, ReaderWakes, ReaderLocks, ReaderReports, ReaderKills
  <1>4. CASE Group
    BY <1>4 DEF Group, OutputExceeded, TargetForks, TargetExits, ChildExits
  <1>5. CASE Others
    BY <1>5 DEF Others, CallerCancels, ParentDies, SupervisorDies
  <1>6. CASE UNCHANGED vars \/ Quiet
    BY <1>6 DEF vars, Quiet
  <1>7. QED  BY <1>1, <1>2, <1>3, <1>4, <1>5, <1>6 DEF Next

(* A cancellation is asked for, or the host dies. *)
LEMMA HostOwned ==
  ASSUME TypeOK, UNCHANGED Undercut, CallerCancels \/ ParentDies
  PROVE  [Promised!OwnedNext]_Owned
  <1> DEFINE V == View(Phase, How, Report, Living, cancelReq, Undercut)
  <1>1. Phase \in {"launching", "working", "teardown"}
    BY Phases DEF CallerCancels, ParentDies, TypeOK
  <1>2. Promised!Going(Owned)
    BY <1>1, Views DEF View, Promised!Going
  <1>3. CASE CallerCancels
    <2>1. /\ Phase' = Phase /\ How' = How /\ Report' = Report /\ Living' = Living
          /\ cancelReq' = TRUE
      BY <1>3 DEF CallerCancels, Phase, How, Report, Living, Alive, Kind, parent, procs
    <2>2. ASSUME NEW c PROVE [V EXCEPT !.pending = c] = View(Phase, How, Report, Living, c, Undercut)
      BY DEF View
    <2>3. Owned' = Promised!Asked(Owned)
      BY <2>1, <2>2, Views DEF Promised!Asked
    <2>4. QED  BY <1>2, <2>3 DEF Promised!OwnedNext
  <1>4. CASE ParentDies
    <2>1. /\ Phase' = "dead" /\ How' = How /\ Report' = Report /\ Living' = Living
          /\ cancelReq' = cancelReq
      BY <1>4, PhasesNext DEF ParentDies, How, Report, Living, Alive, Kind, caller, procs
    <2>2. [V EXCEPT !.phase = "dead"] = View("dead", How, Report, Living, cancelReq, Undercut)
      BY DEF View
    <2>3. Owned' = [Owned EXCEPT !.phase = "dead"]
      BY <2>1, <2>2, Views
    <2>4. QED  BY <1>2, <2>3 DEF Promised!OwnedNext
  <1>5. QED  BY <1>3, <1>4

(* The mapping starts where the owned process does. *)
LEMMA OwnedInitially == Init => Promised!OwnedInit
  <1> SUFFICES ASSUME Init PROVE Owned = Promised!Fresh
    BY DEF Promised!OwnedInit
  <1>1. Phase = "launching" /\ How = None  BY Kinds DEF Init, Phase, How
  <1>2. Report = FALSE /\ Living = FALSE /\ cancelReq = FALSE /\ Undercut = FALSE
    BY DEF Init, Report, Living, Alive, Undercut
  <1>3. ASSUME NEW r, NEW a, NEW c, NEW u
        PROVE View("launching", None, r, a, c, u)
            = [phase |-> "launching", how |-> None, report |-> r, alive |-> a, pending |-> c,
               undercut |-> u]
    BY DEF View
  <1>4. QED  BY <1>1, <1>2, <1>3, Views DEF Promised!Fresh

(* Every step of the detailed process is one of the owned one, or none. *)
LEMMA OwnedStep == Inv /\ Unfailed /\ [Next]_vars => [Promised!OwnedNext]_Owned
  <1> SUFFICES ASSUME Inv, Unfailed, [Next]_vars PROVE [Promised!OwnedNext]_Owned
    OBVIOUS
  <1>1. TypeOK /\ GroupGone /\ Verdicts /\ Announced  BY DEF Inv
  <1>2. CASE SupervisorDies  BY <1>1, <1>2, SupervisorDiesOwned
  <1>3. CASE ~SupervisorDies
    <2>1. UNCHANGED Undercut  BY <1>1, <1>3, UndercutStays
    <2>2. CASE SpawnSupervisor \/ VerifyReads \/ VerifyEnds \/ Main \/ Reader
            \/ TargetForks \/ TargetExits \/ ChildExits \/ Quiet \/ UNCHANGED vars
      BY <1>1, <2>1, <2>2, Sidesteps, AsideOwned
    <2>3. CASE Launched  BY <1>1, <2>1, <2>3, LaunchedOwned
    <2>4. CASE LaunchFails  BY <1>1, <2>1, <2>4, LaunchFailsOwned
    <2>5. CASE ReadExit \/ StatusLost \/ ExchangeReturns \/ OutputExceeded \/ ExchangeExpires
      BY <1>1, <2>1, <2>5, ExchangeEnds
    <2>6. CASE ExchangeCancelled  BY <1>1, <2>1, <2>6, ExchangeCancelledOwned
    <2>7. CASE Stop  BY <1>1, <2>1, <2>7, StopOwned
    <2>8. CASE DrainReturns \/ DrainExpires  BY <1>1, <2>1, <2>8, CloseOwned
    <2>9. CASE DrainCancelled  BY <1>1, <2>1, <2>9, DrainCancelledOwned
    <2>10. CASE CallerCancels \/ ParentDies  BY <1>1, <2>1, <2>10, HostOwned
    <2>11. QED
      BY <1>3, <2>2, <2>3, <2>4, <2>5, <2>6, <2>7, <2>8, <2>9, <2>10 DEF Next, Parent, Group, Others
  <1>4. QED  BY <1>2, <1>3

(* For any number of cancellations, with or without interference and the   *)
(* death of the host, what _run does with its supervisor is what assess    *)
(* and judge rely on.                                                      *)
THEOREM ImplementsOwned == Spec => StaysOwned
  <1>1. Init => Unfailed  BY DEF Init, Unfailed
  <1>2. Unfailed /\ [Next]_vars => Unfailed'  BY UnfailedNext
  <1>3. Spec => []Unfailed  BY <1>1, <1>2, PTL DEF Spec
  <1>4. QED
    BY Invariance, <1>3, OwnedInitially, OwnedStep, PTL DEF Spec, StaysOwned, Promised!OwnedSpec

-----------------------------------------------------------------------------
(* The cleanup hook.  A cancellation is asked for before one is delivered, *)
(* and the only one there was has been used up when it ended the exchange. *)
Asked ==
    /\ cancels \in Nat
    /\ cancels = 0 => ~cancelReq /\ primary # "cancelled"
    /\ (cancels = 1 /\ primary = "cancelled") => ~cancelReq

(* An exchange that a single cancellation ended is torn down to its end.   *)
TornDown ==
    /\ pc = "launch" => primary # "cancelled"
    /\ (pc = "done" /\ primary = "cancelled" /\ cancels = 1 /\ failure = None) => Taken

(* The hook succeeds only over a call that recorded no failed teardown.    *)
Succeeded == cleanup = "ok" => pc = "done" /\ failure = None

(* What of the invariant holds however often the hook cancels. *)
Kernel == Streams /\ ProcessTyped /\ GroupGone /\ TargetOnce /\ Announced

HookInv == Kernel /\ Asked /\ TornDown /\ Succeeded

(* A step of the call keeps the account of its cancellations. *)
LEMMA AskedNext == ASSUME Asked, [Next]_vars PROVE Asked'
  <1> USE DEF Asked, Settle
  <1>1. CASE UNCHANGED <<primary, cancelReq, cancels>>
    BY <1>1
  <1>2. CASE LaunchFails  BY <1>2 DEF LaunchFails
  <1>3. CASE ReadExit  BY <1>3 DEF ReadExit, caller
  <1>4. CASE StatusLost  BY <1>4 DEF StatusLost, caller
  <1>5. CASE ExchangeReturns  BY <1>5 DEF ExchangeReturns, caller
  <1>6. CASE OutputExceeded  BY <1>6 DEF OutputExceeded, caller
  <1>7. CASE ExchangeExpires  BY <1>7 DEF ExchangeExpires, caller
  <1>8. CASE ExchangeCancelled  BY <1>8 DEF ExchangeCancelled
  <1>9. CASE DrainCancelled  BY <1>9 DEF DrainCancelled
  <1>10. CASE CallerCancels  BY <1>10, SupervisorAssumption DEF CallerCancels, parent
  <1>11. CASE SpawnSupervisor \/ Launched \/ Stop \/ VerifyReads \/ VerifyEnds
              \/ DrainReturns \/ DrainExpires \/ ParentDies \/ UNCHANGED vars
    BY <1>1, <1>11 DEF SpawnSupervisor, Launched, Stop, VerifyReads, VerifyEnds, DrainReturns,
       DrainExpires, ParentDies, vars, parent, caller
  <1>12. CASE Main
    BY <1>1, <1>12 DEF Main, MainStarts, MainSpawns, MainCloses, MainWaited, MainReports,
       MainFails, parent, caller
  <1>13. CASE Reader
    BY <1>1, <1>13 DEF Reader, ReaderWakes, ReaderLocks, ReaderReports, ReaderKills, parent, caller
  <1>14. CASE TargetForks \/ TargetExits \/ ChildExits \/ SupervisorDies \/ Quiet
    BY <1>1, <1>14 DEF TargetForks, TargetExits, ChildExits, SupervisorDies, Quiet, vars, parent, caller
  <1>15. QED
    BY <1>2, <1>3, <1>4, <1>5, <1>6, <1>7, <1>8, <1>9, <1>10, <1>11, <1>12, <1>13, <1>14
    DEF Next, Parent, Group, Others

(* A call that is over is changed by nobody, and a supervisor that was     *)
(* killed or undercut stays so.                                            *)
LEMMA OverStays ==
  ASSUME [Next]_vars, pc = "done"
  PROVE  UNCHANGED <<pc, primary, failure, cancels>> /\ (Taken => Taken')
  <1> USE DEF Alive, Taken, Undercut, threads
  <1>1. CASE UNCHANGED vars  BY <1>1 DEF vars, parent, caller
  <1>2. CASE Parent
    BY <1>2 DEF Parent, SpawnSupervisor, Launched, LaunchFails, ReadExit, StatusLost, ExchangeReturns,
       ExchangeExpires, ExchangeCancelled, Stop, VerifyReads, VerifyEnds, DrainReturns,
       DrainExpires, DrainCancelled
  <1>3. CASE Main
    BY <1>3 DEF Main, MainStarts, MainSpawns, MainCloses, MainWaited, MainReports, MainFails, parent, caller
  <1>4. CASE Reader
    BY <1>4 DEF Reader, ReaderWakes, ReaderLocks, ReaderReports, ReaderKills, parent, caller
  <1>5. CASE Group
    BY <1>5 DEF Group, OutputExceeded, TargetForks, TargetExits, ChildExits, parent, caller
  <1>6. CASE Others
    BY <1>6 DEF Others, CallerCancels, ParentDies, SupervisorDies, parent, caller
  <1>7. CASE Quiet  BY <1>7 DEF Quiet, vars, parent, caller
  <1>8. QED  BY <1>1, <1>2, <1>3, <1>4, <1>5, <1>6, <1>7 DEF Next

(* A call is launched once, and its launch comes to nothing else. *)
LEMMA LaunchStays == ASSUME [Next]_vars, pc' = "launch" PROVE pc = "launch" /\ UNCHANGED primary
  <1>1. CASE UNCHANGED vars  BY <1>1 DEF vars, parent
  <1>2. CASE Parent
    BY <1>2 DEF Parent, SpawnSupervisor, Launched, LaunchFails, ReadExit, StatusLost, ExchangeReturns,
       ExchangeExpires, ExchangeCancelled, Stop, VerifyReads, VerifyEnds, DrainReturns,
       DrainExpires, DrainCancelled, Settle, Close, parent
  <1>3. CASE Main
    BY <1>3 DEF Main, MainStarts, MainSpawns, MainCloses, MainWaited, MainReports, MainFails, parent
  <1>4. CASE Reader
    BY <1>4 DEF Reader, ReaderWakes, ReaderLocks, ReaderReports, ReaderKills, parent
  <1>5. CASE Group
    BY <1>5 DEF Group, OutputExceeded, TargetForks, TargetExits, ChildExits, Settle, parent
  <1>6. CASE Others
    BY <1>6 DEF Others, CallerCancels, ParentDies, SupervisorDies, parent
  <1>7. CASE Quiet  BY <1>7 DEF Quiet, vars, parent
  <1>8. QED  BY <1>1, <1>2, <1>3, <1>4, <1>5, <1>6, <1>7 DEF Next

(* The step that ends a call whose exchange was cancelled once is the end  *)
(* of its drain, and not a cancellation of it.                             *)
LEMMA TornDownNext == ASSUME Announced, Asked, TornDown, [Next]_vars PROVE TornDown'
  <1>1. CASE pc = "done"  BY <1>1, OverStays DEF TornDown
  <1>2. CASE pc' # "done"  BY <1>2, LaunchStays DEF TornDown
  <1>3. CASE pc # "done" /\ pc' = "done"
    <2>1. LaunchFails \/ DrainReturns \/ DrainExpires \/ DrainCancelled
      <3>1. ASSUME pc' = pc PROVE FALSE  BY <1>3, <3>1
      <3>2. ~UNCHANGED vars /\ ~Quiet  BY <3>1 DEF Quiet, vars, parent
      <3>3. ~Main
        BY <3>1 DEF Main, MainStarts, MainSpawns, MainCloses, MainWaited, MainReports, MainFails, parent
      <3>4. ~Reader
        BY <3>1 DEF Reader, ReaderWakes, ReaderLocks, ReaderReports, ReaderKills, parent
      <3>5. ~Group /\ ~Others
        BY <1>3, <3>1 DEF Group, OutputExceeded, TargetForks, TargetExits, ChildExits, Others,
           CallerCancels, ParentDies, SupervisorDies, Settle, parent
      <3>6. ~(SpawnSupervisor \/ Launched \/ ReadExit \/ StatusLost \/ ExchangeReturns
               \/ ExchangeExpires \/ ExchangeCancelled \/ Stop \/ VerifyReads \/ VerifyEnds)
        BY <1>3, <3>1 DEF SpawnSupervisor, Launched, ReadExit, StatusLost, ExchangeReturns,
           ExchangeExpires, ExchangeCancelled, Stop, VerifyReads, VerifyEnds, Settle, parent
      <3>7. QED  BY <3>2, <3>3, <3>4, <3>5, <3>6 DEF Next, Parent
    <2>2. CASE LaunchFails  BY <2>2 DEF LaunchFails, TornDown, Asked
    <2>3. CASE DrainReturns
      <3>1. "failed" # None  BY SupervisorAssumption
      <3>2. sup' = sup /\ reader' = reader /\ pc' # "launch"
        BY <2>3 DEF DrainReturns, Close, threads
      <3>3. Close(primary, IF verify = "ok" /\ Sigkilled THEN None ELSE "failed")
        BY <2>3 DEF DrainReturns
      <3>4. failure' = None => Taken
        <4>1. CASE verify = "ok" /\ Sigkilled  BY <4>1, VerifiedTaken
        <4>2. CASE ~(verify = "ok" /\ Sigkilled)
          <5>1. failure' = "failed"  BY <3>3, <4>2 DEF Close
          <5>2. QED  BY <3>1, <5>1
        <4>3. QED  BY <4>1, <4>2
      <3>5. QED  BY <3>2, <3>4 DEF TornDown, Taken, Undercut
    <2>4. CASE DrainExpires
      <3>1. "timeout" # None  BY SupervisorAssumption DEF Primary
      <3>2. QED  BY <2>4, <3>1 DEF DrainExpires, Close, TornDown
    <2>5. CASE DrainCancelled
      <3>1. ~(primary = "cancelled" /\ cancels = 1)
        BY <2>5 DEF DrainCancelled, Asked
      <3>2. QED  BY <1>3, <2>5, <3>1 DEF DrainCancelled, TornDown
    <2>6. QED  BY <2>1, <2>2, <2>3, <2>4, <2>5
  <1>4. QED  BY <1>1, <1>2, <1>3

(* The hook cancels a call that nobody has cancelled, as its caller might, *)
(* or it changes nothing of the call.                                      *)
LEMMA HookSteps ==
  ASSUME [AdapterNext]_adapterVars
  PROVE  \/ [Next]_vars /\ UNCHANGED cleanup
         \/ /\ CleanupCancels /\ cancels = 0 /\ pc \notin {"done", "dead"}
            /\ cancelReq' = TRUE /\ cancels' = 1 /\ UNCHANGED <<parent, pipes, sup, threads, procs>>
         \/ [Next]_vars /\ cleanup' = "waiting"
         \/ UNCHANGED vars /\ CleanupStep
  <1>1. CASE (Next /\ UNCHANGED cleanup) \/ UNCHANGED adapterVars
    BY <1>1 DEF adapterVars
  <1>2. CASE CleanupCancels
    <2>1. CASE cancels = 0  BY <1>2, <2>1 DEF CleanupCancels
    <2>2. CASE cancels # 0
      BY <1>2, <2>2 DEF CleanupCancels, CleanupStep, vars
    <2>3. QED  BY <2>1, <2>2
  <1>3. CASE CleanupIdle \/ CleanupReturns \/ CleanupExpires
    BY <1>3 DEF CleanupIdle, CleanupReturns, CleanupExpires, CleanupStep
  <1>4. CASE CleanupPasses
    BY <1>4 DEF CleanupPasses, Next, Parent
  <1>5. QED  BY <1>1, <1>2, <1>3, <1>4 DEF AdapterNext, CleanupStep

(* What a hook that has succeeded found. *)
LEMMA SucceededNext == ASSUME Succeeded, [AdapterNext]_adapterVars PROVE Succeeded'
  <1>1. CASE [Next]_vars /\ UNCHANGED cleanup
    BY <1>1, OverStays DEF Succeeded
  <1>2. CASE CleanupCancels  BY <1>2 DEF CleanupCancels, Succeeded
  <1>3. CASE UNCHANGED vars /\ CleanupStep
    <2>1. pc' = pc /\ failure' = failure  BY <1>3 DEF vars, parent
    <2>2. CASE CleanupIdle  BY <2>1, <2>2 DEF CleanupIdle, CleanupError, Succeeded
    <2>3. CASE CleanupReturns  BY <2>1, <2>3 DEF CleanupReturns, Judged, CleanupError, Succeeded
    <2>4. CASE CleanupExpires  BY <2>1, <2>4 DEF CleanupExpires, Succeeded
    <2>5. CASE CleanupCancels  BY <2>1, <2>5 DEF CleanupCancels, Succeeded
    <2>6. CASE CleanupPasses  BY <2>6 DEF CleanupPasses, Succeeded
    <2>7. QED  BY <1>3, <2>2, <2>3, <2>4, <2>5, <2>6 DEF CleanupStep
  <1>4. CASE cleanup' = "waiting"  BY <1>4 DEF Succeeded
  <1>5. QED  BY <1>1, <1>2, <1>3, <1>4, HookSteps

(* A step of the call keeps the kernel. *)
LEMMA KernelNext == ASSUME Kernel, [Next]_vars PROVE Kernel'
  <1>1. Streams /\ ProcessTyped /\ GroupGone /\ TargetOnce /\ Announced  BY DEF Kernel
  <1>2. main = "report" => exit # None  BY <1>1 DEF TargetOnce
  <1>3. Streams' /\ ProcessTyped'  BY <1>1, <1>2, StreamsNext, ProcessTypedNext
  <1>4. GroupGone' /\ TargetOnce' /\ Announced'
    BY <1>1, GroupGoneNext, TargetOnceNext, AnnouncedNext
  <1>5. QED  BY <1>3, <1>4 DEF Kernel

(* Every step of the call and of its hook keeps the account. *)
LEMMA HookNext == HookInv /\ [AdapterNext]_adapterVars => HookInv'
  <1> SUFFICES ASSUME HookInv, [AdapterNext]_adapterVars PROVE HookInv'
    OBVIOUS
  <1>1. Kernel /\ Announced /\ Asked /\ TornDown /\ Succeeded  BY DEF HookInv, Kernel
  <1>2. Succeeded'  BY <1>1, SucceededNext
  <1>3. CASE [Next]_vars
    BY <1>1, <1>2, <1>3, KernelNext, AskedNext, TornDownNext DEF HookInv
  <1>4. CASE CleanupCancels /\ cancels = 0
    <2>1. /\ cancels' = 1 /\ pc # "done"
          /\ UNCHANGED <<parent, pipes, sup, threads, procs>>
      BY <1>4 DEF CleanupCancels
    <2>2. pc' = pc /\ primary' = primary /\ failure' = failure /\ sup' = sup /\ reader' = reader
      BY <2>1 DEF parent, threads
    <2>3. Kernel'
      BY <1>1, <2>1 DEF Kernel, Streams, ProcessTyped, GroupGone, TargetOnce, Announced, parent,
         pipes, threads, procs
    <2>4. Asked'  BY <1>1, <1>4, <2>1, <2>2 DEF Asked
    <2>5. TornDown'  BY <1>1, <2>1, <2>2 DEF TornDown, Taken, Undercut
    <2>6. QED  BY <1>2, <2>3, <2>4, <2>5 DEF HookInv
  <1>5. CASE UNCHANGED vars
    BY <1>1, <1>2, <1>5, <1>3
  <1>6. QED  BY <1>3, <1>4, <1>5, HookSteps

(* It holds from the start. *)
LEMMA HookInit == AdapterInit => HookInv
  <1> SUFFICES ASSUME AdapterInit PROVE HookInv
    OBVIOUS
  <1>1. None # "cancelled"  BY SupervisorAssumption DEF Primary
  <1>2. Kernel
    <2>1. Init  BY DEF AdapterInit
    <2>2. Inv  BY <2>1, InvInit
    <2>3. QED  BY <2>2, TypeParts DEF Inv, Kernel
  <1>3. Asked /\ TornDown
    BY <1>1 DEF AdapterInit, Init, Asked, TornDown
  <1>4. Succeeded  BY DEF AdapterInit, Succeeded
  <1>5. QED  BY <1>2, <1>3, <1>4 DEF HookInv

(* Once one cancellation, the caller's or the hook's, has ended the        *)
(* exchange, cleanup() reports success only after the whole process group  *)
(* was killed, or after a SIGKILL from outside that is taken for that:     *)
(* waiting for the assessment does not cut its teardown short.             *)
THEOREM TeardownIsWhole == AdapterSpec => []TeardownNotCut
  <1>1. HookInv => TeardownNotCut
    BY DEF HookInv, Kernel, GroupGone, TornDown, Taken, Succeeded, TeardownNotCut
  <1>2. QED  BY <1>1, HookInit, HookNext, PTL DEF AdapterSpec

(* cleanup() is one more caller: where calls may be cancelled at all, an   *)
(* assessment with its hook is an assessment, so that each theorem about   *)
(* Spec, and the owned process it implements, holds beside the hook too.   *)
THEOREM HookIsACaller ==
  ASSUME MaxCancels # 0
  PROVE  AdapterSpec => Spec /\ StaysOwned
  <1>1. ASSUME HookInv, [AdapterNext]_adapterVars PROVE [Next]_vars
    <2>1. CASE CleanupCancels /\ cancels = 0
      <3>1. ~cancelReq  BY <1>1, <2>1 DEF HookInv, Asked
      <3>2. CallerCancels
        BY <2>1, <3>1, SupervisorAssumption DEF CleanupCancels, CallerCancels
      <3>3. QED  BY <3>2 DEF Next, Others
    <2>2. QED  BY <1>1, <2>1, HookSteps
  <1>2. AdapterInit => Init  BY DEF AdapterInit
  <1>3. AdapterSpec => Spec  BY <1>1, <1>2, HookInit, HookNext, PTL DEF AdapterSpec, Spec
  <1>4. QED  BY <1>3, ImplementsOwned
=============================================================================
