----------------------- MODULE EntrypointRepairProofs -----------------------
(***************************************************************************)
(* What EntrypointRepair guarantees for any number of calls, any contents, *)
(* any number of steps of the writer and of removals of the lock file.     *)
(*                                                                         *)
(* Inv strengthens the properties with what a call knows at each program   *)
(* counter (Local), with the fact that nobody but its call can reach a     *)
(* backup inode (NoBackupExposed), and with the meaning of the lock        *)
(* (LockInv).  StageInv does the same for the file that is published: out  *)
(* of everybody's reach before the exchange (StagePrivate), complete, and  *)
(* replaced by the approved inode or disposed of at the end (Staged).      *)
(***************************************************************************)
EXTENDS EntrypointRepair, TLAPS

(* The program counters between the capture of the runtime and the return. *)
Approved == {"stage", "backup", "salvage", "readBackup", "latest", "recheck",
             "verify", "exchange", "settle", "displaced", "published",
             "backupAgain", "link", "recovery", "unlink"}
Selected == Approved \cup {"preview", "lock", "flock", "current", "matching"}

(* The program counters of a call that has not exchanged. *)
Before == {"idle", "source", "preview", "lock", "flock", "current",
           "matching", "stage", "backup", "salvage", "readBackup", "latest",
           "recheck", "verify", "exchange", "cleanup"}

(* The program counters from which a result is on its way. *)
Ending == {"cleanup", "unlock", "done", "crashed"}

BackupGood(o) ==
    /\ backup[o] = BackupIno(o)
    /\ content[BackupIno(o)].data = ExpCurrent[o]

KnowsSource(o)  == pc[o] \in Selected =>
    src[o] \in Captured /\ src[o].data = ExpSource[o]
KnowsCurrent(o) == pc[o] \in Approved =>
    cur[o] \in Captured /\ cur[o].data = ExpCurrent[o]
BackupNamed(o) == backup[o] \in {None, BackupIno(o)}
FdOfBackup(o) == (pc[o] = "salvage" /\ fd[o] # None) =>
    fd[o] = BackupIno(o) /\ backup[o] = BackupIno(o)
SnapshotDone(o) ==
    (o \in exchanged
       \/ pc[o] \in {"readBackup", "latest", "recheck", "verify", "exchange"})
    => BackupGood(o)
BeforeIsBefore(o) == pc[o] \in Before => o \notin exchanged
AfterIsAfter(o) ==
    pc[o] \in {"settle", "displaced", "published", "backupAgain", "link",
               "recovery", "unlink"} => o \in exchanged
Kept(o) == o \in exchanged =>
    /\ displaced[o] # None
    /\ displaced[o] \in {stage[o], recovery[o]}
NotLinked(o) ==
    pc[o] \in (Before \cup {"settle", "displaced", "published",
                            "backupAgain", "link"})
       => recovery[o] = None
Linked(o) == pc[o] \in {"recovery", "unlink"} =>
    recovery[o] = displaced[o] /\ stage[o] = displaced[o]

(* What the result reports, from the moment it is chosen. *)
Honest(o) == result[o] # None =>
    /\ result[o].backup = "backup" => BackupGood(o)
    /\ result[o].recovery = "stage" =>
          o \in exchanged /\ displaced[o] = stage[o]
    /\ result[o].recovery = "recovery" =>
          o \in exchanged /\ displaced[o] = recovery[o]
    /\ o \in exchanged => result[o].status \in {"repaired", "indeterminate"}
    /\ result[o].status = "repaired" => o \in exchanged
NoResultYet(o) == pc[o] \notin Ending => result[o] = None
CleanupResult(o) == pc[o] = "cleanup" =>
    result[o] # None /\ result[o].recovery = "none"
Decided(o) == pc[o] \in {"cleanup", "unlock", "done"} => result[o] # None

Local(o) ==
    /\ KnowsSource(o)
    /\ KnowsCurrent(o)
    /\ BackupNamed(o)
    /\ FdOfBackup(o)
    /\ SnapshotDone(o)
    /\ BeforeIsBefore(o)
    /\ AfterIsAfter(o)
    /\ Kept(o)
    /\ NotLinked(o)
    /\ Linked(o)
    /\ Honest(o)
    /\ NoResultYet(o)
    /\ CleanupResult(o)
    /\ Decided(o)

(* No entry or descriptor that the writer or an exchange works on reaches  *)
(* a backup inode.                                                         *)
NoBackupExposed ==
    /\ \A p \in Ops : target # BackupIno(p) /\ writerFd # BackupIno(p)
    /\ \A o, p \in Ops : source[o] # BackupIno(p) /\ stage[o] # BackupIno(p)

LockInv ==
    /\ \A o \in Ops : lockFd[o] <= lockFile
    /\ \A o \in Ops : pc[o] \in Critical => o \in held
    /\ \A o \in held : pc[o] \in Critical \cup {"unlock"}
    /\ \A o, p \in held : lockFd[o] = lockFd[p] => o = p

Inv ==
    /\ TypeOK
    /\ \A o \in Ops : Local(o)
    /\ NoBackupExposed
    /\ LockInv

-----------------------------------------------------------------------------
(* Inodes with different creators differ. *)
LEMMA InodeNames ==
    /\ \A o \in Ops : StageIno(o) \in Ino /\ BackupIno(o) \in Ino
                        /\ SourceIno(o) \in Ino
    /\ \A n \in 0..MaxWrites : WriterIno(n) \in Ino
    /\ \A o, p \in Ops : /\ StageIno(o) # BackupIno(p)
                          /\ SourceIno(o) # BackupIno(p)
                          /\ BackupIno(o) = BackupIno(p) => o = p
    /\ \A n \in 0..MaxWrites, p \in Ops : WriterIno(n) # BackupIno(p)
  BY DEF StageIno, BackupIno, SourceIno, WriterIno, Ino

(* Every outcome the code constructs is one of the contract. *)
LEMMA OutcomesTyped ==
    /\ {Raised, Matching, Blocked, Indeterminate("stage"),
        Indeterminate("recovery"), Outcome("repairable", "none", "none"),
        Outcome("repaired", "backup", "recovery")} \subseteq Result
  BY DEF Raised, Matching, Blocked, Indeterminate, Outcome, Result, Statuses

(* A capture is a CapturedFile. *)
LEMMA ReadTyped ==
    ASSUME TypeOK, NEW o \in Ops, fd[o] # None
    PROVE  Read(o) \in Captured
  BY DEF TypeOK, Read, Captured, File

(* What a capture opens is an inode. *)
LEMMA PathTyped ==
    ASSUME TypeOK, NEW o \in Ops
    PROVE  PathOf(o) \in Ino \cup {None}
  BY DEF TypeOK, PathOf

(* A write leaves a table of files. *)
LEMMA WrittenTyped ==
    ASSUME TypeOK, NEW i \in Ino, NEW data \in Data, NEW mode \in Modes
    PROVE  /\ Written(i, data, mode) \in [Ino -> File]
           /\ Written(i, data, mode)[i].data = data
           /\ \A j \in Ino \ {i} : Written(i, data, mode)[j] = content[j]
  <1>1. [data |-> data, mode |-> Sanitized[mode]] \in File
    BY ModeAssumption DEF File
  <1>2. QED  BY <1>1 DEF TypeOK, Written

(* Every step of a call keeps the types. *)
LEMMA TypeCall ==
    ASSUME TypeOK, NEW o \in Ops, KnowsSource(o), KnowsCurrent(o),
           CallStep(o) \/ Crash(o)
    PROVE  TypeOK'
  <1> USE OutcomesTyped DEF TypeOK, PCs, Leave, Goto
  <1>1. CASE Begin(o)
    BY <1>1 DEF Begin, files, locks, env, history
  <1>2. CASE CaptureOpen(o)
    BY <1>2, PathTyped DEF CaptureOpen, files, locks, env, history
  <1>3. CASE CaptureSource(o)
    BY <1>3, ReadTyped DEF CaptureSource, files, locks, env, history
  <1>4. CASE CheckTarget(o)
    BY <1>4 DEF CheckTarget, files, locks, env, history
  <1>5. CASE OpenLock(o)
    BY <1>5 DEF OpenLock, files, locks, env, history
  <1>6. CASE Flock(o)
    BY <1>6 DEF Flock, files, locks, env, history
  <1>7. CASE CaptureCurrent(o)
    BY <1>7, ReadTyped DEF CaptureCurrent, files, locks, env, history
  <1>8. CASE ConfirmMatching(o)
    BY <1>8 DEF ConfirmMatching, files, locks, env, history
  <1>9. CASE WriteStage(o)
    <2>1. pc[o] = "stage"  BY <1>9 DEF WriteStage
    <2>2. /\ src[o].data \in Data /\ Torn \in Data
          /\ cur[o].mode \in Modes
      BY <2>1 DEF KnowsSource, KnowsCurrent, Selected, Approved, Captured, Data
    <2>3. StageIno(o) \in Ino  BY InodeNames
    <2>4. content' \in [Ino -> File]
      BY <1>9, <2>2, <2>3, WrittenTyped DEF WriteStage
    <2>5. QED  BY <1>9, <2>3, <2>4 DEF WriteStage, locks, env, history
  <1>10. CASE WriteSnapshot(o)
    <2>1. pc[o] = "backup"  BY <1>10 DEF WriteSnapshot
    <2>2. cur[o].data \in Data /\ Torn \in Data /\ cur[o].mode \in Modes
      BY <2>1 DEF KnowsCurrent, Approved, Captured, Data
    <2>3. BackupIno(o) \in Ino  BY InodeNames
    <2>4. content' \in [Ino -> File]
      BY <1>10, <2>2, <2>3, WrittenTyped DEF WriteSnapshot
    <2>5. QED  BY <1>10, <2>3, <2>4 DEF WriteSnapshot, locks, env, history
  <1>11. CASE SalvageSnapshot(o)
    BY <1>11 DEF SalvageSnapshot, files, locks, env, history
  <1>12. CASE CaptureBackup(o)
    BY <1>12 DEF CaptureBackup, files, locks, env, history
  <1>13. CASE CaptureLatest(o)
    BY <1>13 DEF CaptureLatest, files, locks, env, history
  <1>14. CASE RecheckSource(o)
    BY <1>14 DEF RecheckSource, files, locks, env, history
  <1>15. CASE VerifyBeforeExchange(o)
    BY <1>15 DEF VerifyBeforeExchange, files, locks, env, history
  <1>16. CASE Exchange(o)
    BY <1>16 DEF Exchange, files, locks, env, history
  <1>17. CASE SettleExchange(o)
    BY <1>17 DEF SettleExchange, files, locks, env, history
  <1>18. CASE CaptureDisplaced(o)
    BY <1>18, ReadTyped DEF CaptureDisplaced, files, locks, env, history
  <1>19. CASE CapturePublished(o)
    BY <1>19 DEF CapturePublished, files, locks, env, history
  <1>20. CASE RecheckBackup(o)
    BY <1>20 DEF RecheckBackup, files, locks, env, history
  <1>21. CASE LinkRecovery(o)
    BY <1>21 DEF LinkRecovery, files, locks, env, history
  <1>22. CASE CaptureRecovery(o)
    BY <1>22 DEF CaptureRecovery, files, locks, env, history
  <1>23. CASE RemoveCaptured(o)
    BY <1>23 DEF RemoveCaptured, files, locks, env, history
  <1>24. CASE RemoveOwned(o)
    BY <1>24 DEF RemoveOwned, files, locks, env, history
  <1>25. CASE Unlock(o)
    BY <1>25 DEF Unlock, files, locks, env, history
  <1>26. CASE Crash(o)
    BY <1>26 DEF Crash, files, locks, env, history
  <1>27. QED  BY <1>1, <1>2, <1>3, <1>4, <1>5, <1>6, <1>7, <1>8, <1>9, <1>10,
     <1>11, <1>12, <1>13, <1>14, <1>15, <1>16, <1>17, <1>18, <1>19, <1>20,
     <1>21, <1>22, <1>23, <1>24, <1>25, <1>26 DEF CallStep

(* So does every step of the writer, whose new inodes stay in the table. *)
LEMMA TypeWriter ==
    ASSUME TypeOK, WriterStep
    PROVE  /\ TypeOK'
           /\ writes' \in 0..MaxWrites
  <1>1. writes' \in 0..MaxWrites
    BY BoundAssumption DEF WriterStep, TypeOK
  <1>2. WriterIno(writes') \in Ino  BY <1>1, InodeNames
  <1>3. NewFile \subseteq File  BY DEF NewFile, File, Data
  <1>4. content' \in [Ino -> File]
    BY <1>2, <1>3 DEF WriterStep, ReplaceTarget, RemoveTarget, WriterOpen,
         WriteInPlace, EditSource, ReplaceSource, MoveParent, TypeOK
  <1>5. target' \in Ino \cup {None} /\ writerFd' \in Ino \cup {None}
    BY <1>2 DEF WriterStep, ReplaceTarget, RemoveTarget, WriterOpen,
         WriteInPlace, EditSource, ReplaceSource, MoveParent, TypeOK
  <1>6. source' \in [Ops -> Ino]
    BY <1>2 DEF WriterStep, ReplaceTarget, RemoveTarget, WriterOpen,
         WriteInPlace, EditSource, ReplaceSource, MoveParent, TypeOK
  <1>7. moved' \in BOOLEAN
    BY <1>2 DEF WriterStep, ReplaceTarget, RemoveTarget, WriterOpen,
         WriteInPlace, EditSource, ReplaceSource, MoveParent, TypeOK
  <1>8. disturbed' \subseteq Ops
    BY <1>2 DEF WriterStep, ReplaceTarget, RemoveTarget, WriterOpen,
         WriteInPlace, EditSource, ReplaceSource, MoveParent, TypeOK
  <1>9. QED  BY <1>1, <1>4, <1>5, <1>6, <1>7, <1>8 DEF WriterStep, TypeOK,
     locks

(* What the model keeps for one call: its entries, its counters, and the   *)
(* contents of the two inodes it creates.                                  *)
Same(o) ==
    /\ pc'[o] = pc[o] /\ fd'[o] = fd[o]
    /\ src'[o] = src[o] /\ cur'[o] = cur[o] /\ out'[o] = out[o] /\ result'[o] = result[o]
    /\ stage'[o] = stage[o] /\ backup'[o] = backup[o]
    /\ recovery'[o] = recovery[o] /\ displaced'[o] = displaced[o]
    /\ o \in exchanged' <=> o \in exchanged
    /\ content'[BackupIno(o)] = content[BackupIno(o)]
    /\ content'[StageIno(o)] = content[StageIno(o)]

(* The steps of one call leave alone what belongs to another. *)
LEMMA AnotherCall ==
    ASSUME TypeOK, NEW p \in Ops, KnowsSource(p), KnowsCurrent(p),
           CallStep(p) \/ Crash(p), NEW o \in Ops \ {p}
    PROVE  Same(o)
  <1> o \in Ops /\ o # p  OBVIOUS
  <1>1. (WriteStage(p) \/ WriteSnapshot(p))
           => /\ content'[BackupIno(o)] = content[BackupIno(o)]
              /\ content'[StageIno(o)] = content[StageIno(o)]
    <2>1. CASE WriteStage(p)
      <3>1. /\ src[p].data \in Data /\ Torn \in Data /\ cur[p].mode \in Modes
        BY <2>1 DEF WriteStage, KnowsSource, KnowsCurrent, Selected,
             Approved, Captured, Data
      <3>2. /\ StageIno(p) \in Ino
            /\ {BackupIno(o), StageIno(o)} \subseteq Ino \ {StageIno(p)}
        BY DEF StageIno, BackupIno, Ino
      <3>3. \A d \in Data, i \in {BackupIno(o), StageIno(o)} :
              Written(StageIno(p), d, cur[p].mode)[i] = content[i]
        BY <3>1, <3>2, WrittenTyped
      <3>4. QED  BY <2>1, <3>1, <3>3 DEF WriteStage
    <2>2. CASE WriteSnapshot(p)
      <3>1. /\ cur[p].data \in Data /\ Torn \in Data /\ cur[p].mode \in Modes
        BY <2>2 DEF WriteSnapshot, KnowsCurrent, Approved, Captured, Data
      <3>2. /\ BackupIno(p) \in Ino
            /\ {BackupIno(o), StageIno(o)} \subseteq Ino \ {BackupIno(p)}
        BY DEF StageIno, BackupIno, Ino
      <3>3. \A d \in Data, i \in {BackupIno(o), StageIno(o)} :
              Written(BackupIno(p), d, cur[p].mode)[i] = content[i]
        BY <3>1, <3>2, WrittenTyped
      <3>4. QED  BY <2>2, <3>1, <3>3 DEF WriteSnapshot
    <2>3. QED  BY <2>1, <2>2
  <1>2. QED
    <2> USE DEF Same, TypeOK, Leave, Goto, files, locks, env, history
    <2>1. CASE Begin(p)
      BY <2>1 DEF Begin
    <2>2. CASE CaptureOpen(p)
      BY <2>2 DEF CaptureOpen
    <2>3. CASE CaptureSource(p)
      BY <2>3 DEF CaptureSource
    <2>4. CASE CheckTarget(p)
      BY <2>4 DEF CheckTarget
    <2>5. CASE OpenLock(p)
      BY <2>5 DEF OpenLock
    <2>6. CASE Flock(p)
      BY <2>6 DEF Flock
    <2>7. CASE CaptureCurrent(p)
      BY <2>7 DEF CaptureCurrent
    <2>8. CASE ConfirmMatching(p)
      BY <2>8 DEF ConfirmMatching
    <2>9. CASE WriteStage(p)
      BY <1>1, <2>9 DEF WriteStage
    <2>10. CASE WriteSnapshot(p)
      BY <1>1, <2>10 DEF WriteSnapshot
    <2>11. CASE SalvageSnapshot(p)
      BY <2>11 DEF SalvageSnapshot
    <2>12. CASE CaptureBackup(p)
      BY <2>12 DEF CaptureBackup
    <2>13. CASE CaptureLatest(p)
      BY <2>13 DEF CaptureLatest
    <2>14. CASE RecheckSource(p)
      BY <2>14 DEF RecheckSource
    <2>15. CASE VerifyBeforeExchange(p)
      BY <2>15 DEF VerifyBeforeExchange
    <2>16. CASE Exchange(p)
      BY <2>16 DEF Exchange
    <2>17. CASE SettleExchange(p)
      BY <2>17 DEF SettleExchange
    <2>18. CASE CaptureDisplaced(p)
      BY <2>18 DEF CaptureDisplaced
    <2>19. CASE CapturePublished(p)
      BY <2>19 DEF CapturePublished
    <2>20. CASE RecheckBackup(p)
      BY <2>20 DEF RecheckBackup
    <2>21. CASE LinkRecovery(p)
      BY <2>21 DEF LinkRecovery
    <2>22. CASE CaptureRecovery(p)
      BY <2>22 DEF CaptureRecovery
    <2>23. CASE RemoveCaptured(p)
      BY <2>23 DEF RemoveCaptured
    <2>24. CASE RemoveOwned(p)
      BY <2>24 DEF RemoveOwned
    <2>25. CASE Unlock(p)
      BY <2>25 DEF Unlock
    <2>26. CASE Crash(p)
      BY <2>26 DEF Crash
    <2>27. QED
      BY <2>1, <2>2, <2>3, <2>4, <2>5, <2>6, <2>7, <2>8, <2>9, <2>10, <2>11,
         <2>12, <2>13, <2>14, <2>15, <2>16, <2>17, <2>18, <2>19, <2>20, <2>21,
         <2>22, <2>23, <2>24, <2>25, <2>26 DEF CallStep

(* So they leave alone what the other knows. *)
LEMMA OthersUntouched ==
    ASSUME TypeOK, NEW p \in Ops, KnowsSource(p), KnowsCurrent(p),
           CallStep(p) \/ Crash(p), NEW o \in Ops \ {p}, Local(o)
    PROVE  Local(o)'
  <1>1. Same(o)  BY AnotherCall
  <1>2. BackupIno(o)' = BackupIno(o)  BY DEF BackupIno
  <1>3. QED
    BY <1>1, <1>2 DEF Same, Local, KnowsSource, KnowsCurrent, BackupNamed,
       FdOfBackup, SnapshotDone, BeforeIsBefore, AfterIsAfter, Kept, NotLinked,
       Linked, Honest, NoResultYet, CleanupResult, Decided, BackupGood

(* A step of a call keeps what the call itself knows. *)
LEMMA OwnStep ==
    ASSUME TypeOK, NEW o \in Ops, Local(o), CallStep(o) \/ Crash(o)
    PROVE  Local(o)'
  <1> USE OutcomesTyped, NoneAssumption
      DEF TypeOK, Local, KnowsSource, KnowsCurrent, BackupNamed, FdOfBackup,
        SnapshotDone, BeforeIsBefore, AfterIsAfter, Kept,
        NotLinked, Linked, Honest, NoResultYet, CleanupResult, Decided,
        BackupGood, Selected, Approved, Before, Ending, Leave, Goto, Outcome,
        Raised, Matching, Blocked, Indeterminate
  <1>1. CASE Begin(o)
    BY <1>1 DEF Begin, files, locks, env, history
  <1>2. CASE CaptureOpen(o)
    BY <1>2 DEF CaptureOpen, PathOf, files, locks, env, history
  <1>3. CASE CaptureSource(o)
    BY <1>3, ReadTyped DEF CaptureSource, SourceAccepted, files, locks, env,
       history
  <1>4. CASE CheckTarget(o)
    BY <1>4 DEF CheckTarget, files, locks, env, history
  <1>5. CASE OpenLock(o)
    BY <1>5 DEF OpenLock, files, locks, env, history
  <1>6. CASE Flock(o)
    BY <1>6 DEF Flock, files, locks, env, history
  <1>7. CASE CaptureCurrent(o)
    BY <1>7, ReadTyped DEF CaptureCurrent, files, locks, env, history
  <1>8. CASE ConfirmMatching(o)
    BY <1>8 DEF ConfirmMatching, files, locks, env, history
  <1>9. CASE WriteStage(o)
    BY <1>9 DEF WriteStage, files, locks, env, history
  <1>10. CASE WriteSnapshot(o)
    <2>1. /\ BackupIno(o) \in Ino
          /\ cur[o].data = ExpCurrent[o]
          /\ cur[o].data \in Data /\ cur[o].mode \in Modes
      BY <1>10, InodeNames DEF WriteSnapshot, Captured
    <2>2. Written(BackupIno(o), cur[o].data, cur[o].mode)[BackupIno(o)].data
            = ExpCurrent[o]
      BY <2>1, WrittenTyped
    <2>3. QED  BY <1>10, <2>2 DEF WriteSnapshot, history
  <1>11. CASE SalvageSnapshot(o)
    BY <1>11 DEF SalvageSnapshot, SameSnapshot, Read, files, history
  <1>12. CASE CaptureBackup(o)
    BY <1>12 DEF CaptureBackup, files, locks, env, history
  <1>13. CASE CaptureLatest(o)
    BY <1>13 DEF CaptureLatest, files, locks, env, history
  <1>14. CASE RecheckSource(o)
    BY <1>14 DEF RecheckSource, files, locks, env, history
  <1>15. CASE VerifyBeforeExchange(o)
    BY <1>15 DEF VerifyBeforeExchange, files, locks, env, history
  <1>16. CASE Exchange(o)
    BY <1>16 DEF Exchange, files, locks, env, history
  <1>17. CASE SettleExchange(o)
    BY <1>17 DEF SettleExchange, files, locks, env, history
  <1>18. CASE CaptureDisplaced(o)
    BY <1>18 DEF CaptureDisplaced, files, locks, env, history
  <1>19. CASE CapturePublished(o)
    BY <1>19 DEF CapturePublished, files, locks, env, history
  <1>20. CASE RecheckBackup(o)
    BY <1>20 DEF RecheckBackup, files, locks, env, history
  <1>21. CASE LinkRecovery(o)
    BY <1>21 DEF LinkRecovery, files, locks, env, history
  <1>22. CASE CaptureRecovery(o)
    BY <1>22 DEF CaptureRecovery, files, locks, env, history
  <1>23. CASE RemoveCaptured(o)
    BY <1>23 DEF RemoveCaptured, files, locks, env, history
  <1>24. CASE RemoveOwned(o)
    BY <1>24 DEF RemoveOwned, files, locks, env, history
  <1>25. CASE Unlock(o)
    BY <1>25 DEF Unlock, files, locks, env, history
  <1>26. CASE Crash(o)
    BY <1>26 DEF Crash, files, locks, env, history
  <1>27. QED
    BY <1>1, <1>2, <1>3, <1>4, <1>5, <1>6, <1>7, <1>8, <1>9, <1>10, <1>11,
       <1>12, <1>13, <1>14, <1>15, <1>16, <1>17, <1>18, <1>19, <1>20, <1>21,
       <1>22, <1>23, <1>24, <1>25, <1>26 DEF CallStep

(* The writer cannot reach a backup, so no call loses what it knows. *)
LEMMA WriterHarmless ==
    ASSUME TypeOK, NoBackupExposed, NEW o \in Ops, Local(o), WriterStep
    PROVE  Local(o)'
  <1>1. BackupIno(o) \in Ino  BY InodeNames
  <1>2. writes' \in 0..MaxWrites  BY TypeWriter
  <1>3. WriterIno(writes') # BackupIno(o)  BY <1>2, InodeNames
  <1>4. content'[BackupIno(o)] = content[BackupIno(o)]
    BY <1>1, <1>3 DEF WriterStep, ReplaceTarget, RemoveTarget, WriterOpen,
         WriteInPlace, EditSource, ReplaceSource, MoveParent, TypeOK,
         NoBackupExposed
  <1>5. BackupIno(o)' = BackupIno(o)  BY DEF BackupIno
  <1>6. QED
    BY <1>4, <1>5 DEF WriterStep, Local, KnowsSource, KnowsCurrent,
       BackupNamed, FdOfBackup, SnapshotDone, BeforeIsBefore, AfterIsAfter,
       Kept, NotLinked, Linked, Honest, NoResultYet, CleanupResult, Decided,
       BackupGood

(* No step brings a backup inode within reach of the writer. *)
LEMMA BackupsStayPrivate ==
    ASSUME TypeOK, NoBackupExposed, Next
    PROVE  NoBackupExposed'
  <1> USE DEF TypeOK, NoBackupExposed
  <1>1. ASSUME NEW o \in Ops, CallStep(o) \/ Crash(o)
        PROVE  NoBackupExposed'
    <2> USE DEF Leave, Goto, files, locks, env, history
    <2>1. /\ source' = source /\ writerFd' = writerFd
          /\ \/ target' = target
             \/ target' = stage[o]
          /\ \A p \in Ops : stage'[p] \in {stage[p], None, StageIno(o), target}
      <3>1. CASE CallStep(o)
        BY <3>1 DEF CallStep, Begin, CaptureOpen, CaptureSource, CheckTarget,
           OpenLock, Flock, CaptureCurrent, ConfirmMatching, WriteStage,
           WriteSnapshot, SalvageSnapshot, CaptureBackup, CaptureLatest,
           RecheckSource, VerifyBeforeExchange, Exchange, SettleExchange,
           CaptureDisplaced, CapturePublished, RecheckBackup, LinkRecovery,
           CaptureRecovery, RemoveCaptured, RemoveOwned, Unlock
      <3>2. CASE Crash(o)  BY <3>2 DEF Crash
      <3>3. QED  BY <1>1, <3>1, <3>2
    <2>2. \A p \in Ops : /\ BackupIno(p)' = BackupIno(p)
                         /\ BackupIno(p) # StageIno(o)
                         /\ BackupIno(p) # None
      <3>1. \A p \in Ops : BackupIno(p) \in Ino  BY InodeNames
      <3>2. \A p \in Ops : BackupIno(p)' = BackupIno(p)  BY DEF BackupIno
      <3>3. \A p \in Ops : BackupIno(p) # StageIno(o)
        BY DEF BackupIno, StageIno
      <3>4. QED  BY <3>1, <3>2, <3>3, NoneAssumption
    <2>3. QED  BY <2>1, <2>2
  <1>2. ASSUME WriterStep
        PROVE  NoBackupExposed'
    <2>1. writes' \in 0..MaxWrites  BY <1>2, TypeWriter
    <2>2. \A p \in Ops : /\ WriterIno(writes') # BackupIno(p)
                         /\ BackupIno(p)' = BackupIno(p)
                         /\ BackupIno(p) # None
      BY <2>1, InodeNames, NoneAssumption DEF BackupIno
    <2>3. stage' = stage  BY <1>2 DEF WriterStep
    <2>4. \A p \in Ops : target' # BackupIno(p) /\ writerFd' # BackupIno(p)
      BY <1>2, <2>2 DEF WriterStep, ReplaceTarget, RemoveTarget, WriterOpen,
           WriteInPlace, EditSource, ReplaceSource, MoveParent
    <2>5. \A o, p \in Ops : source'[o] # BackupIno(p)
      BY <1>2, <2>2 DEF WriterStep, ReplaceTarget, RemoveTarget, WriterOpen,
           WriteInPlace, EditSource, ReplaceSource, MoveParent
    <2>6. QED  BY <2>2, <2>3, <2>4, <2>5
  <1>3. CASE CleanLock \/ Quiet
    BY <1>3 DEF CleanLock, Quiet, vars, files, env, BackupIno, StageIno
  <1>4. QED  BY <1>1, <1>2, <1>3 DEF Next

(* The lock: who is in the critical part holds it, and two holders have    *)
(* opened different files.                                                 *)
LEMMA LockKept ==
    ASSUME TypeOK, LockInv, Next
    PROVE  LockInv'
  <1> USE BoundAssumption DEF TypeOK, LockInv, Critical
  <1>1. ASSUME NEW o \in Ops, CallStep(o) \/ Crash(o)
        PROVE  LockInv'
    <2> USE DEF Leave, Goto, files, locks, env, history
    <2>1. CASE Begin(o)
      BY <2>1 DEF Begin
    <2>2. CASE CaptureOpen(o)
      BY <2>2 DEF CaptureOpen
    <2>3. CASE CaptureSource(o)
      BY <2>3 DEF CaptureSource
    <2>4. CASE CheckTarget(o)
      BY <2>4 DEF CheckTarget
    <2>5. CASE OpenLock(o)
      BY <2>5 DEF OpenLock
    <2>6. CASE Flock(o)
      BY <2>6 DEF Flock, LockBusy
    <2>7. CASE CaptureCurrent(o)
      BY <2>7 DEF CaptureCurrent
    <2>8. CASE ConfirmMatching(o)
      BY <2>8 DEF ConfirmMatching
    <2>9. CASE WriteStage(o)
      BY <2>9 DEF WriteStage
    <2>10. CASE WriteSnapshot(o)
      BY <2>10 DEF WriteSnapshot
    <2>11. CASE SalvageSnapshot(o)
      BY <2>11 DEF SalvageSnapshot
    <2>12. CASE CaptureBackup(o)
      BY <2>12 DEF CaptureBackup
    <2>13. CASE CaptureLatest(o)
      BY <2>13 DEF CaptureLatest
    <2>14. CASE RecheckSource(o)
      BY <2>14 DEF RecheckSource
    <2>15. CASE VerifyBeforeExchange(o)
      BY <2>15 DEF VerifyBeforeExchange
    <2>16. CASE Exchange(o)
      BY <2>16 DEF Exchange
    <2>17. CASE SettleExchange(o)
      BY <2>17 DEF SettleExchange
    <2>18. CASE CaptureDisplaced(o)
      BY <2>18 DEF CaptureDisplaced
    <2>19. CASE CapturePublished(o)
      BY <2>19 DEF CapturePublished
    <2>20. CASE RecheckBackup(o)
      BY <2>20 DEF RecheckBackup
    <2>21. CASE LinkRecovery(o)
      BY <2>21 DEF LinkRecovery
    <2>22. CASE CaptureRecovery(o)
      BY <2>22 DEF CaptureRecovery
    <2>23. CASE RemoveCaptured(o)
      BY <2>23 DEF RemoveCaptured
    <2>24. CASE RemoveOwned(o)
      BY <2>24 DEF RemoveOwned
    <2>25. CASE Unlock(o)
      BY <2>25 DEF Unlock
    <2>26. CASE Crash(o)
      BY <2>26 DEF Crash
    <2>27. QED
      BY <1>1, <2>1, <2>2, <2>3, <2>4, <2>5, <2>6, <2>7, <2>8, <2>9, <2>10,
         <2>11, <2>12, <2>13, <2>14, <2>15, <2>16, <2>17, <2>18, <2>19, <2>20,
         <2>21, <2>22, <2>23, <2>24, <2>25, <2>26 DEF CallStep
  <1>2. CASE WriterStep
    BY <1>2 DEF WriterStep, locks
  <1>3. CASE CleanLock
    BY <1>3 DEF CleanLock
  <1>4. CASE Quiet
    BY <1>4 DEF Quiet, vars, locks
  <1>5. QED  BY <1>1, <1>2, <1>3, <1>4 DEF Next

-----------------------------------------------------------------------------
(* Before any call has begun nothing is known and nothing is exposed. *)
LEMMA InvInit == Init => Inv
  <1> SUFFICES ASSUME Init PROVE Inv  OBVIOUS
  <1>1. TypeOK
    <2>1. content \in [Ino -> File]
      <3>1. PICK m \in Modes :
              content = [i \in Ino |->
                CASE i.kind = "source" -> [data |-> ExpSource[i.by], mode |-> m]
                  [] i = TargetIno     -> [data |-> Prior, mode |-> m]
                  [] OTHER             -> [data |-> Torn, mode |-> m]]
        BY DEF Init
      <3>2. \A d \in Data : [data |-> d, mode |-> m] \in File  BY DEF File
      <3>3. \A i \in Ino : i.kind = "source" => ExpSource[i.by] \in Data
        BY RequestAssumption DEF Ino, Data
      <3>4. Prior \in Data /\ Torn \in Data  BY RequestAssumption DEF Data
      <3>5. QED  BY <3>1, <3>2, <3>3, <3>4
    <2>2. TargetIno \in Ino
      BY InodeNames, BoundAssumption DEF TargetIno
    <2>3. source \in [Ops -> Ino]  BY InodeNames DEF Init
    <2>4. 0 \in 0..MaxCleans /\ 0 \in 0..MaxWrites  BY BoundAssumption
    <2>5. /\ lockFd \in [Ops -> 0..MaxCleans]
          /\ pc \in [Ops -> PCs]
          /\ fd \in [Ops -> Ino \cup {None}]
      BY <2>4 DEF Init, PCs
    <2>6. QED  BY <2>1, <2>2, <2>3, <2>4, <2>5 DEF Init, TypeOK
  <1>2. ASSUME NEW o \in Ops  PROVE Local(o)
    BY DEF Init, Local, KnowsSource, KnowsCurrent, BackupNamed, FdOfBackup,
       SnapshotDone, BeforeIsBefore, AfterIsAfter, Kept, NotLinked, Linked,
       Honest, NoResultYet, CleanupResult, Decided, Selected, Approved, Ending
  <1>3. NoBackupExposed
    <2>1. \A p \in Ops : BackupIno(p) \in Ino  BY InodeNames
    <2>2. \A o, p \in Ops : /\ SourceIno(o) # BackupIno(p)
                            /\ TargetIno # BackupIno(p)
      BY DEF SourceIno, BackupIno, TargetIno, WriterIno
    <2>3. QED  BY <2>1, <2>2, NoneAssumption DEF Init, NoBackupExposed
  <1>4. LockInv  BY DEF Init, LockInv, Critical
  <1>5. QED  BY <1>1, <1>2, <1>3, <1>4 DEF Inv

(* No step of a call, of the writer, of the cleaner or of a crash breaks it. *)
LEMMA InvNext == Inv /\ [Next]_vars => Inv'
  <1> SUFFICES ASSUME Inv, [Next]_vars PROVE Inv'  OBVIOUS
  <1> USE DEF Inv
  <1>1. ASSUME NEW p \in Ops, CallStep(p) \/ Crash(p)
        PROVE  Inv'
    <2>1. KnowsSource(p) /\ KnowsCurrent(p)  BY DEF Local
    <2>2. TypeOK'  BY <1>1, <2>1, TypeCall
    <2>3. ASSUME NEW o \in Ops  PROVE Local(o)'
      <3>1. CASE o = p  BY <1>1, <3>1, OwnStep
      <3>2. CASE o # p  BY <1>1, <2>1, <3>2, OthersUntouched
      <3>3. QED  BY <3>1, <3>2
    <2>4. Next  BY <1>1 DEF Next
    <2>5. NoBackupExposed'  BY <2>4, BackupsStayPrivate
    <2>6. LockInv'  BY <2>4, LockKept
    <2>7. QED  BY <2>2, <2>3, <2>5, <2>6
  <1>2. CASE WriterStep
    <2>1. TypeOK'  BY <1>2, TypeWriter
    <2>2. ASSUME NEW o \in Ops  PROVE Local(o)'  BY <1>2, WriterHarmless
    <2>3. Next  BY <1>2 DEF Next
    <2>4. NoBackupExposed' /\ LockInv'  BY <2>3, BackupsStayPrivate, LockKept
    <2>5. QED  BY <2>1, <2>2, <2>4
  <1>3. CASE CleanLock
    <2>1. Next  BY <1>3 DEF Next
    <2>2. NoBackupExposed' /\ LockInv'  BY <2>1, BackupsStayPrivate, LockKept
    <2>3. TypeOK'
      BY <1>3, BoundAssumption DEF CleanLock, TypeOK, files, env, history
    <2>4. ASSUME NEW o \in Ops  PROVE Local(o)'
      BY <1>3 DEF CleanLock, files, env, history, Local, KnowsSource,
         KnowsCurrent, BackupNamed, FdOfBackup, SnapshotDone, BeforeIsBefore,
         AfterIsAfter, Kept, NotLinked, Linked, Honest, NoResultYet,
         CleanupResult, Decided, BackupGood, BackupIno
    <2>5. QED  BY <2>2, <2>3, <2>4
  <1>4. CASE UNCHANGED vars
    BY <1>4 DEF vars, files, locks, env, history, TypeOK, NoBackupExposed,
       LockInv, Local, KnowsSource, KnowsCurrent, BackupNamed, FdOfBackup,
       SnapshotDone, BeforeIsBefore, AfterIsAfter, Kept, NotLinked, Linked,
       Honest, NoResultYet, CleanupResult, Decided, BackupGood, BackupIno
  <1>5. QED  BY <1>1, <1>2, <1>3, <1>4 DEF Next, Quiet

(* The inductive invariant holds in every state the calls can reach. *)
LEMMA Invariance == Spec => []Inv
  BY InvInit, InvNext, PTL DEF Spec

(* The variables stay in their types. *)
THEOREM TypeCorrect == Spec => []TypeOK
  BY Invariance, PTL DEF Inv

(* The approved prior bytes outlive publication: the snapshot is complete  *)
(* before the exchange, and neither a call nor the writer can reach it     *)
(* afterwards, whether or not the lock excludes anyone.                    *)
THEOREM PriorBytesSurvive == Spec => []PriorRetained
  <1>1. Inv => PriorRetained
    BY DEF Inv, TypeOK, Local, SnapshotDone, BackupGood, PriorRetained
  <1>2. QED  BY Invariance, <1>1, PTL

(* What an exchange takes out of the runtime never loses its last name by  *)
(* a call: the stage entry is given up only after the recovery entry is    *)
(* bound to the same inode.                                                *)
THEOREM DisplacedSurvives == Spec => []DisplacedKept
  <1>1. Inv => DisplacedKept
    BY DEF Inv, TypeOK, Local, Kept, DisplacedKept
  <1>2. QED  BY Invariance, <1>1, PTL

(* A result names only evidence that exists. *)
THEOREM ResultsAreHonest == Spec => []EvidenceExists
  <1>1. Inv => EvidenceExists
    BY DEF Inv, TypeOK, Local, Honest, Decided, BackupGood, EvidenceExists,
       Result
  <1>2. QED  BY Invariance, <1>1, PTL

(* Every result but indeterminate says whether the runtime was replaced. *)
THEOREM ResultsDecide == Spec => []OutcomeDecides
  <1>1. Inv => OutcomeDecides
    BY DEF Inv, TypeOK, Local, Honest, Decided, OutcomeDecides, Result
  <1>2. QED  BY Invariance, <1>1, PTL

(* While the lock file stays in place, one call at a time maintains the    *)
(* target.                                                                 *)
THEOREM MutualExclusion == Spec => []OneMaintainer
  <1>1. Inv => OneMaintainer
    <2> SUFFICES ASSUME Inv, lockFile = 0, NEW o \in Ops, NEW p \in Ops,
                        pc[o] \in Critical, pc[p] \in Critical
                 PROVE  o = p
      BY DEF OneMaintainer
    <2>1. o \in held /\ p \in held  BY DEF Inv, LockInv
    <2>2. lockFd[o] = 0 /\ lockFd[p] = 0
      BY BoundAssumption DEF Inv, TypeOK, LockInv
    <2>3. QED  BY <2>1, <2>2 DEF Inv, LockInv
  <1>2. QED  BY Invariance, <1>1, PTL

-----------------------------------------------------------------------------
(* The stage: what becomes of the file that a call puts into the runtime.  *)

Unstaged == {"idle", "source", "preview", "lock", "flock", "current", "matching", "stage"}
StagedPc == {"backup", "salvage", "readBackup", "latest", "recheck", "verify", "exchange"}

(* Until the exchange the stage name is free or bound to the staged inode. *)
StageOwned(o) ==
    /\ o \notin exchanged => stage[o] \in {None, StageIno(o)}
    /\ pc[o] \in Unstaged => stage[o] = None
    /\ pc[o] \in StagedPc => stage[o] = StageIno(o) /\ content[StageIno(o)].data = ExpSource[o]
SnapshotExact(o) ==
    pc[o] \in {"readBackup", "latest", "recheck", "verify", "exchange"} =>
        SameSnapshot(content[BackupIno(o)], cur[o])
StageGone(o) ==
    (pc[o] \in {"unlock", "done"} /\ result[o].status \in {"matching", "repairable", "blocked"})
        => stage[o] = None

(* What the exchange took out is what the call approved, from the step     *)
(* that compared them on.                                                  *)
TookApproved(o) ==
    /\ (pc[o] = "displaced" /\ fd[o] # None) => fd[o] = displaced[o]
    /\ pc[o] \in {"published", "backupAgain", "link", "recovery", "unlink"} =>
          out[o] = cur[o] /\ cur[o].ino = displaced[o]
    /\ (result[o] # None /\ result[o].status = "repaired") =>
          displaced[o] = cur[o].ino /\ recovery[o] = cur[o].ino /\ stage[o] = None
Published(o) ==
    (o \in exchanged /\ o \notin disturbed) =>
        target = StageIno(o) /\ content[StageIno(o)].data = ExpSource[o]

Staged(o) ==
    StageOwned(o) /\ SnapshotExact(o) /\ StageGone(o) /\ TookApproved(o) /\ Published(o)

(* A staged inode is out of everybody's reach until it is published.       *)
StagePrivate ==
    \A o \in Ops :
        /\ \A p \in Ops : source[p] # StageIno(o)
        /\ o \notin exchanged =>
              /\ target # StageIno(o) /\ writerFd # StageIno(o)
              /\ \A p \in Ops \ {o} : stage[p] # StageIno(o)

StageInv == StagePrivate /\ \A o \in Ops : Staged(o)

(* Staged inodes differ from all others. *)
LEMMA StageNames ==
    /\ \A o \in Ops : StageIno(o) \in Ino /\ StageIno(o) # None
    /\ \A o, p \in Ops : /\ StageIno(o) = StageIno(p) => o = p
                          /\ StageIno(o) # BackupIno(p) /\ StageIno(o) # SourceIno(p)
    /\ \A n \in 0..MaxWrites, o \in Ops : StageIno(o) # WriterIno(n) /\ BackupIno(o) # WriterIno(n)
  BY NoneAssumption DEF StageIno, BackupIno, SourceIno, WriterIno, Ino

LEMMA StageInit == Init => StageInv
  <1> SUFFICES ASSUME Init PROVE StageInv
    OBVIOUS
  <1>1. TargetIno = WriterIno(0) /\ 0 \in 0..MaxWrites  BY BoundAssumption DEF TargetIno
  <1>2. StagePrivate
    <2>1. \A p \in Ops : source[p] = SourceIno(p) /\ stage[p] = None  BY DEF Init
    <2>2. target = WriterIno(0) /\ writerFd = None  BY <1>1 DEF Init
    <2>3. \A o, p \in Ops : StageIno(o) # WriterIno(0) /\ StageIno(o) # None /\ StageIno(o) # SourceIno(p)
      <3>1. \A o \in Ops : StageIno(o) # WriterIno(0)  BY DEF StageIno, WriterIno
      <3>2. \A o \in Ops : StageIno(o) # None  BY StageNames
      <3>3. \A o, p \in Ops : StageIno(o) # SourceIno(p)  BY DEF StageIno, SourceIno
      <3>4. QED  BY <3>1, <3>2, <3>3
    <2>4. QED  BY <2>1, <2>2, <2>3 DEF StagePrivate
  <1>3. ASSUME NEW o \in Ops PROVE Staged(o)
    BY DEF Init, Staged, StageOwned, SnapshotExact, StageGone, TookApproved, Published, Unstaged, StagedPc
  <1>4. QED  BY <1>2, <1>3 DEF StageInv

(* A step of a call keeps what it knows of its own stage. *)
LEMMA OwnStage ==
    ASSUME TypeOK, NEW o \in Ops, Local(o), Staged(o), CallStep(o) \/ Crash(o)
    PROVE  Staged(o)'
  <1> USE NoneAssumption, StageNames
      DEF TypeOK, Staged, StageOwned, SnapshotExact, StageGone, TookApproved, Published, Unstaged, StagedPc,
        Leave, Goto
  <1>1. CASE Begin(o)
    BY <1>1 DEF Begin, files, locks, env, history, Local, NoResultYet, Ending, CleanupResult, Outcome, Raised, Blocked, Indeterminate
  <1>2. CASE CaptureOpen(o)
    <2>1. pc[o] = "displaced" => PathOf(o) = stage[o]  BY DEF PathOf
    <2>2. pc[o] = "displaced" => stage[o] = displaced[o]
      BY DEF Local, AfterIsAfter, Kept, NotLinked
    <2>3. QED  BY <1>2, <2>1, <2>2 DEF CaptureOpen, files, locks, env, history
  <1>3. CASE CaptureSource(o)
    BY <1>3 DEF CaptureSource, files, locks, env, history, Local, NoResultYet, Ending, CleanupResult, Outcome, Raised, Blocked, Indeterminate
  <1>4. CASE CheckTarget(o)
    BY <1>4 DEF CheckTarget, files, locks, env, history, Matching, Outcome, Raised, Local, BeforeIsBefore, Before, NoResultYet, Ending
  <1>5. CASE OpenLock(o)
    BY <1>5 DEF OpenLock, files, locks, env, history, Local, NoResultYet, Ending, CleanupResult, Outcome, Raised, Blocked, Indeterminate
  <1>6. CASE Flock(o)
    BY <1>6 DEF Flock, files, locks, env, history, Local, NoResultYet, Ending, CleanupResult, Outcome, Raised, Blocked, Indeterminate
  <1>7. CASE CaptureCurrent(o)
    BY <1>7 DEF CaptureCurrent, files, locks, env, history, Local, NoResultYet, Ending, CleanupResult, Outcome, Raised, Blocked, Indeterminate
  <1>8. CASE ConfirmMatching(o)
    BY <1>8 DEF ConfirmMatching, files, locks, env, history, Matching, Outcome, Raised, Local, BeforeIsBefore, Before, NoResultYet, Ending
  <1>9. CASE WriteStage(o)
    <2>1. /\ src[o].data = ExpSource[o] /\ src[o].data \in Data /\ cur[o].mode \in Modes
          /\ o \notin exchanged /\ Torn \in Data /\ result[o] = None
      BY <1>9 DEF WriteStage, Local, KnowsSource, KnowsCurrent, Selected, Approved, Captured, Data, BeforeIsBefore, Before, NoResultYet, Ending
    <2>2. Written(StageIno(o), src[o].data, cur[o].mode)[StageIno(o)].data = ExpSource[o]
      BY <2>1, WrittenTyped
    <2>3. QED  BY <1>9, <2>1, <2>2 DEF WriteStage, Raised, Outcome, history
  <1>10. CASE WriteSnapshot(o)
    <2>1. /\ cur[o].data \in Data /\ cur[o].mode \in Modes /\ Torn \in Data
          /\ o \notin exchanged /\ result[o] = None
      BY <1>10 DEF WriteSnapshot, Local, KnowsCurrent, Approved, Captured, Data, BeforeIsBefore, Before, NoResultYet, Ending
    <2>2. BackupIno(o) \in Ino /\ StageIno(o) \in Ino \ {BackupIno(o)}  BY InodeNames
    <2>3. ASSUME NEW d \in Data
          PROVE  /\ Written(BackupIno(o), d, cur[o].mode)[StageIno(o)] = content[StageIno(o)]
                 /\ Written(BackupIno(o), d, cur[o].mode)[BackupIno(o)] = [data |-> d, mode |-> Sanitized[cur[o].mode]]
      BY <2>1, <2>2, WrittenTyped DEF Written
    <2>4. content'[StageIno(o)] = content[StageIno(o)]
      <3>1. content' = content \/ \E d \in Data : content' = Written(BackupIno(o), d, cur[o].mode)
        BY <1>10, <2>1 DEF WriteSnapshot
      <3>2. QED  BY <2>3, <3>1
    <2>5. pc'[o] = "readBackup" => SameSnapshot(content'[BackupIno(o)], cur[o])
      <3>1. pc'[o] = "readBackup" => content' = Written(BackupIno(o), cur[o].data, cur[o].mode)
        BY <1>10 DEF WriteSnapshot
      <3>2. pc'[o] = "readBackup" => content'[BackupIno(o)] = [data |-> cur[o].data, mode |-> Sanitized[cur[o].mode]]
        BY <2>1, <2>3, <3>1
      <3>3. QED  BY <3>2 DEF SameSnapshot
    <2>6. QED  BY <1>10, <2>1, <2>4, <2>5 DEF WriteSnapshot, history
  <1>11. CASE SalvageSnapshot(o)
    BY <1>11 DEF SalvageSnapshot, files, locks, env, history, Local, NoResultYet, Ending, CleanupResult, Outcome, Raised, Blocked, Indeterminate
  <1>12. CASE CaptureBackup(o)
    BY <1>12 DEF CaptureBackup, files, locks, env, history, Local, NoResultYet, Ending, CleanupResult, Outcome, Raised, Blocked, Indeterminate
  <1>13. CASE CaptureLatest(o)
    BY <1>13 DEF CaptureLatest, files, locks, env, history, Local, NoResultYet, Ending, CleanupResult, Outcome, Raised, Blocked, Indeterminate
  <1>14. CASE RecheckSource(o)
    BY <1>14 DEF RecheckSource, files, locks, env, history, Local, NoResultYet, Ending, CleanupResult, Outcome, Raised, Blocked, Indeterminate
  <1>15. CASE VerifyBeforeExchange(o)
    BY <1>15 DEF VerifyBeforeExchange, files, locks, env, history, Local, NoResultYet, Ending, CleanupResult, Outcome, Raised, Blocked, Indeterminate
  <1>16. CASE Exchange(o)
    BY <1>16 DEF Exchange, files, locks, env, history, Local, NoResultYet, Ending, Blocked, Outcome
  <1>17. CASE SettleExchange(o)
    BY <1>17 DEF SettleExchange, files, locks, env, history, Local, NoResultYet, Ending, CleanupResult, Outcome, Raised, Blocked, Indeterminate
  <1>18. CASE CaptureDisplaced(o)
    <2>1. Read(o).ino = fd[o]  BY DEF Read
    <2>2. result[o] = None  BY <1>18 DEF CaptureDisplaced, Local, NoResultYet, Ending
    <2>3. QED  BY <1>18, <2>1, <2>2 DEF CaptureDisplaced, files, locks, env, history, Indeterminate, Outcome
  <1>19. CASE CapturePublished(o)
    BY <1>19 DEF CapturePublished, files, locks, env, history, Local, NoResultYet, Ending, CleanupResult, Outcome, Raised, Blocked, Indeterminate
  <1>20. CASE RecheckBackup(o)
    BY <1>20 DEF RecheckBackup, files, locks, env, history, Local, NoResultYet, Ending, CleanupResult, Outcome, Raised, Blocked, Indeterminate
  <1>21. CASE LinkRecovery(o)
    BY <1>21 DEF LinkRecovery, files, locks, env, history, Local, NoResultYet, Ending, CleanupResult, Outcome, Raised, Blocked, Indeterminate
  <1>22. CASE CaptureRecovery(o)
    BY <1>22 DEF CaptureRecovery, files, locks, env, history, Local, NoResultYet, Ending, CleanupResult, Outcome, Raised, Blocked, Indeterminate
  <1>23. CASE RemoveCaptured(o)
    BY <1>23 DEF RemoveCaptured, files, locks, env, history, Local, Linked, AfterIsAfter, Outcome, Indeterminate
  <1>24. CASE RemoveOwned(o)
    BY <1>24 DEF RemoveOwned, files, locks, env, history, Local, BeforeIsBefore, Before, CleanupResult, Outcome, Raised
  <1>25. CASE Unlock(o)
    BY <1>25 DEF Unlock, files, locks, env, history, Local, NoResultYet, Ending, CleanupResult, Outcome, Raised, Blocked, Indeterminate
  <1>26. CASE Crash(o)
    BY <1>26 DEF Crash, files, locks, env, history, Local, NoResultYet, Ending, CleanupResult, Outcome, Raised, Blocked, Indeterminate
  <1>27. QED
    BY <1>1, <1>2, <1>3, <1>4, <1>5, <1>6, <1>7, <1>8, <1>9, <1>10, <1>11, <1>12, <1>13, <1>14, <1>15, <1>16, <1>17, <1>18, <1>19, <1>20, <1>21, <1>22, <1>23, <1>24, <1>25, <1>26 DEF CallStep

(* Neither another call nor the writer comes near it before the exchange.  *)
LEMMA StageStaysPrivate ==
    ASSUME TypeOK, StagePrivate, \A o \in Ops : StageOwned(o) /\ Local(o), Next
    PROVE  StagePrivate'
  <1> USE DEF TypeOK
  <1>1. \A o \in Ops : StageIno(o)' = StageIno(o)  BY DEF StageIno
  <1>2. ASSUME NEW p \in Ops, CallStep(p) \/ Crash(p)
        PROVE  StagePrivate'
    <2> USE DEF Leave, Goto, files, locks, env, history
    <2>1. source' = source /\ writerFd' = writerFd /\ exchanged \subseteq exchanged'
      <3>1. CASE CallStep(p)
        BY <3>1 DEF CallStep, Begin, CaptureOpen, CaptureSource, CheckTarget,
           OpenLock, Flock, CaptureCurrent, ConfirmMatching, WriteStage,
           WriteSnapshot, SalvageSnapshot, CaptureBackup, CaptureLatest,
           RecheckSource, VerifyBeforeExchange, Exchange, SettleExchange,
           CaptureDisplaced, CapturePublished, RecheckBackup, LinkRecovery,
           CaptureRecovery, RemoveCaptured, RemoveOwned, Unlock
      <3>2. CASE Crash(p)  BY <3>2 DEF Crash
      <3>3. QED  BY <1>2, <3>1, <3>2
    <2>2. \/ UNCHANGED <<target, exchanged>> /\ stage' \in {stage, [stage EXCEPT ![p] = StageIno(p)], [stage EXCEPT ![p] = None]}
          \/ /\ target' = stage[p] /\ exchanged' = exchanged \cup {p} /\ stage' = [stage EXCEPT ![p] = target]
             /\ stage[p] = StageIno(p)
      <3>1. CASE Exchange(p)  BY <3>1 DEF Exchange, StageOwned, StagedPc
      <3>2. CASE CallStep(p) /\ ~Exchange(p)
        BY <3>2 DEF CallStep, Begin, CaptureOpen, CaptureSource, CheckTarget,
           OpenLock, Flock, CaptureCurrent, ConfirmMatching, WriteStage,
           WriteSnapshot, SalvageSnapshot, CaptureBackup, CaptureLatest,
           RecheckSource, VerifyBeforeExchange, SettleExchange,
           CaptureDisplaced, CapturePublished, RecheckBackup, LinkRecovery,
           CaptureRecovery, RemoveCaptured, RemoveOwned, Unlock
      <3>3. CASE Crash(p)  BY <3>3 DEF Crash
      <3>4. QED  BY <1>2, <3>1, <3>2, <3>3
    <2>3. QED  BY <1>1, <2>1, <2>2, StageNames DEF StagePrivate
  <1>3. CASE WriterStep
    <2>1. writes' \in 0..MaxWrites  BY <1>3, TypeWriter
    <2>2. \A o \in Ops : StageIno(o) # WriterIno(writes') /\ StageIno(o) # None  BY <2>1, StageNames
    <2>3. stage' = stage /\ exchanged' = exchanged  BY <1>3 DEF WriterStep
    <2>4. /\ target' \in {target, None, WriterIno(writes')}
          /\ writerFd' \in {writerFd, target}
          /\ \A o \in Ops : source'[o] \in {source[o], WriterIno(writes')}
      BY <1>3 DEF WriterStep, ReplaceTarget, RemoveTarget, WriterOpen,
           WriteInPlace, EditSource, ReplaceSource, MoveParent
    <2>5. QED  BY <1>1, <2>2, <2>3, <2>4 DEF StagePrivate
  <1>4. CASE CleanLock \/ Quiet
    BY <1>1, <1>4 DEF CleanLock, Quiet, vars, files, env, history, StagePrivate
  <1>5. QED  BY <1>2, <1>3, <1>4 DEF Next

(* The step of another call changes nothing that this one knows of its     *)
(* stage, but it may displace what this one published.                     *)
LEMMA OthersStage ==
    ASSUME TypeOK, StagePrivate, NEW p \in Ops, Local(p), Staged(p), CallStep(p) \/ Crash(p),
           NEW o \in Ops \ {p}, Staged(o)
    PROVE  Staged(o)'
  <1>1. Same(o)  BY AnotherCall DEF Local
  <1>2. StageIno(o)' = StageIno(o) /\ BackupIno(o)' = BackupIno(o)  BY DEF StageIno, BackupIno
  <1>3. (StageOwned(o) /\ SnapshotExact(o) /\ StageGone(o) /\ TookApproved(o))'
    BY <1>1, <1>2 DEF Same, Staged, StageOwned, SnapshotExact, StageGone, TookApproved, SameSnapshot
  <1>4. disturbed \subseteq disturbed' /\ (target' = target \/ exchanged \ {p} \subseteq disturbed')
    <2> USE DEF Leave, Goto, files, locks, env, history
    <2>1. CASE CallStep(p)
      BY <2>1 DEF CallStep, Begin, CaptureOpen, CaptureSource, CheckTarget,
         OpenLock, Flock, CaptureCurrent, ConfirmMatching, WriteStage,
         WriteSnapshot, SalvageSnapshot, CaptureBackup, CaptureLatest,
         RecheckSource, VerifyBeforeExchange, Exchange, SettleExchange,
         CaptureDisplaced, CapturePublished, RecheckBackup, LinkRecovery,
         CaptureRecovery, RemoveCaptured, RemoveOwned, Unlock
    <2>2. CASE Crash(p)  BY <2>2 DEF Crash
    <2>3. QED  BY <2>1, <2>2
  <1>5. Published(o)'  BY <1>1, <1>2, <1>4 DEF Same, Staged, Published
  <1>6. QED  BY <1>3, <1>5 DEF Staged

(* The writer reaches a published stage only, and disturbs it then.        *)
LEMMA WriterStage ==
    ASSUME TypeOK, StagePrivate, NoBackupExposed, NEW o \in Ops, Local(o), Staged(o), WriterStep
    PROVE  Staged(o)'
  <1>1. writes' \in 0..MaxWrites  BY TypeWriter
  <1>2. /\ StageIno(o) \in Ino /\ BackupIno(o) \in Ino
        /\ StageIno(o) # WriterIno(writes') /\ BackupIno(o) # WriterIno(writes')
    BY <1>1, StageNames, InodeNames
  <1>3. StageIno(o)' = StageIno(o) /\ BackupIno(o)' = BackupIno(o)  BY DEF StageIno, BackupIno
  <1>4. UNCHANGED <<stage, backup, recovery, pc, fd, src, cur, out, result, exchanged, displaced>>
    BY DEF WriterStep
  <1>5. content'[BackupIno(o)] = content[BackupIno(o)]
    BY <1>2 DEF WriterStep, ReplaceTarget, RemoveTarget, WriterOpen, WriteInPlace, EditSource,
         ReplaceSource, MoveParent, TypeOK, NoBackupExposed
  <1>6. /\ content'[StageIno(o)] = content[StageIno(o)] \/ (writerFd = StageIno(o) /\ exchanged \subseteq disturbed')
        /\ target' = target \/ exchanged \subseteq disturbed'
        /\ disturbed \subseteq disturbed'
    BY <1>2 DEF WriterStep, ReplaceTarget, RemoveTarget, WriterOpen, WriteInPlace, EditSource,
         ReplaceSource, MoveParent, TypeOK, StagePrivate
  <1>7. o \notin exchanged => content'[StageIno(o)] = content[StageIno(o)]
    BY <1>6 DEF StagePrivate
  <1>8. StageOwned(o)'
    <2>1. pc[o] \in StagedPc => o \notin exchanged  BY DEF Local, BeforeIsBefore, Before, StagedPc
    <2>2. QED  BY <1>3, <1>4, <1>7, <2>1 DEF Staged, StageOwned
  <1>9. (SnapshotExact(o) /\ StageGone(o) /\ TookApproved(o))'
    BY <1>3, <1>4, <1>5 DEF Staged, SnapshotExact, StageGone, TookApproved, SameSnapshot
  <1>10. Published(o)'  BY <1>3, <1>4, <1>6 DEF Staged, Published
  <1>11. QED  BY <1>8, <1>9, <1>10 DEF Staged

LEMMA StageNext == Inv /\ StageInv /\ [Next]_vars => StageInv'
  <1> SUFFICES ASSUME Inv, StageInv, [Next]_vars PROVE StageInv'
    OBVIOUS
  <1> USE DEF Inv, StageInv
  <1>1. Next => StagePrivate'  BY StageStaysPrivate DEF Staged
  <1>2. ASSUME NEW p \in Ops, CallStep(p) \/ Crash(p), NEW o \in Ops PROVE Staged(o)'
    <2>1. CASE o = p  BY <1>2, <2>1, OwnStage
    <2>2. CASE o # p  BY <1>2, <2>2, OthersStage
    <2>3. QED  BY <2>1, <2>2
  <1>3. ASSUME WriterStep, NEW o \in Ops PROVE Staged(o)'  BY <1>3, WriterStage
  <1>4. ASSUME CleanLock \/ Quiet \/ UNCHANGED vars, NEW o \in Ops PROVE Staged(o)'
    BY <1>4 DEF CleanLock, Quiet, vars, files, env, history, StageIno, BackupIno,
       Staged, StageOwned, SnapshotExact, StageGone, TookApproved, Published, SameSnapshot
  <1>5. CASE Next  BY <1>1, <1>2, <1>3, <1>4, <1>5 DEF Next
  <1>6. CASE UNCHANGED vars
    <2>1. StagePrivate'  BY <1>6 DEF vars, files, env, history, StagePrivate, StageIno
    <2>2. QED  BY <1>4, <1>6, <2>1
  <1>7. QED  BY <1>5, <1>6

LEMMA StageInvariance == Spec => []StageInv
  BY StageInit, StageNext, Invariance, PTL DEF Spec

(* A call that reports matching, repairable or blocked leaves no staged    *)
(* file behind, in whatever step it was stopped.                           *)
THEOREM StageIsDisposed == Spec => []StageDisposed
  <1>1. StageInv => StageDisposed
    BY DEF StageInv, Staged, StageGone, StageDisposed
  <1>2. QED  BY StageInvariance, <1>1, PTL

(* repaired means repaired: the inode that was approved was taken out and  *)
(* is kept under the recovery name, and unless someone else has written    *)
(* since, the runtime name is bound to the selected bytes, for any number  *)
(* of calls, writers and cleaners of the lock file.                        *)
THEOREM RepairedIsReal == Spec => []RepairedIsPublished
  <1>1. Inv /\ StageInv => RepairedIsPublished
    <2> SUFFICES ASSUME Inv, StageInv, NEW o \in Ops, pc[o] = "done", result[o].status = "repaired"
                 PROVE  /\ displaced[o] = cur[o].ino /\ recovery[o] = cur[o].ino /\ stage[o] = None
                        /\ o \notin disturbed => target = StageIno(o) /\ content[target].data = ExpSource[o]
      BY DEF RepairedIsPublished
    <2>1. result[o] # None /\ o \in exchanged  BY DEF Inv, Local, Decided, Honest
    <2>2. Staged(o)  BY DEF StageInv
    <2>3. QED  BY <2>1, <2>2 DEF Staged, TookApproved, Published
  <1>2. QED  BY Invariance, StageInvariance, <1>1, PTL

-----------------------------------------------------------------------------
(* Only a call's own step moves its program counter. *)
LEMMA WhoMoves ==
    ASSUME TypeOK, [Next]_vars, NEW o \in Ops, pc'[o] # pc[o]
    PROVE  CallStep(o) \/ Crash(o)
  <1>1. PICK p \in Ops : CallStep(p) \/ Crash(p)
    BY DEF Next, WriterStep, CleanLock, Quiet, vars
  <1>2. pc' = [pc EXCEPT ![p] = pc'[p]]
    <2> USE DEF TypeOK, Leave, Goto
    <2>1. CASE CallStep(p)
      BY <2>1 DEF CallStep, Begin, CaptureOpen, CaptureSource, CheckTarget,
         OpenLock, Flock, CaptureCurrent, ConfirmMatching, WriteStage,
         WriteSnapshot, SalvageSnapshot, CaptureBackup, CaptureLatest,
         RecheckSource, VerifyBeforeExchange, Exchange, SettleExchange,
         CaptureDisplaced, CapturePublished, RecheckBackup, LinkRecovery,
         CaptureRecovery, RemoveCaptured, RemoveOwned, Unlock
    <2>2. CASE Crash(p)  BY <2>2 DEF Crash
    <2>3. QED  BY <1>1, <2>1, <2>2
  <1>3. p = o  BY <1>2 DEF TypeOK
  <1>4. QED  BY <1>1, <1>3

(* How a call can change the entries: it binds its own free names, swaps   *)
(* stage and runtime, links the displaced inode a second time and gives up *)
(* the first, or removes what it staged.                                   *)
EntriesMove(o) ==
    \/ UNCHANGED <<target, source, stage, backup, recovery>>
    \/ /\ stage[o] = None /\ stage' = [stage EXCEPT ![o] = StageIno(o)]
       /\ UNCHANGED <<target, source, backup, recovery>>
    \/ /\ backup[o] \in {None, BackupIno(o)} /\ backup' = [backup EXCEPT ![o] = BackupIno(o)]
       /\ UNCHANGED <<target, source, stage, recovery>>
    \/ /\ target' = stage[o] /\ stage' = [stage EXCEPT ![o] = target]
       /\ UNCHANGED <<source, backup, recovery>>
    \/ /\ recovery[o] = None /\ recovery' = [recovery EXCEPT ![o] = stage[o]]
       /\ UNCHANGED <<target, source, stage, backup>>
    \/ /\ stage[o] \in {recovery[o], StageIno(o)} /\ stage' = [stage EXCEPT ![o] = None]
       /\ UNCHANGED <<target, source, backup, recovery>>

LEMMA EntrySteps ==
    ASSUME TypeOK, NEW o \in Ops, Local(o), Staged(o), CallStep(o) \/ Crash(o)
    PROVE  EntriesMove(o)
  <1> USE DEF TypeOK, EntriesMove, files
  <1>1. CASE WriteStage(o)
    BY <1>1 DEF WriteStage, Staged, StageOwned, Unstaged
  <1>2. CASE WriteSnapshot(o)
    BY <1>2 DEF WriteSnapshot, Local, BackupNamed
  <1>3. CASE Exchange(o)
    BY <1>3 DEF Exchange
  <1>4. CASE LinkRecovery(o)
    BY <1>4 DEF LinkRecovery, Local, NotLinked
  <1>5. CASE RemoveCaptured(o)
    BY <1>5 DEF RemoveCaptured, Local, Linked
  <1>6. CASE RemoveOwned(o)
    BY <1>6 DEF RemoveOwned
  <1>7. CASE Crash(o)
    BY <1>7 DEF Crash
  <1>8. CASE CallStep(o) /\ ~(WriteStage(o) \/ WriteSnapshot(o) \/ Exchange(o) \/ LinkRecovery(o) \/ RemoveCaptured(o) \/ RemoveOwned(o))
    BY <1>8 DEF CallStep, Begin, CaptureOpen, CaptureSource, CheckTarget,
       OpenLock, Flock, CaptureCurrent, ConfirmMatching, SalvageSnapshot,
       CaptureBackup, CaptureLatest, RecheckSource, VerifyBeforeExchange,
       SettleExchange, CaptureDisplaced, CapturePublished, RecheckBackup,
       CaptureRecovery, Unlock
  <1>9. QED  BY <1>1, <1>2, <1>3, <1>4, <1>5, <1>6, <1>7, <1>8

(* No call destroys what the uncooperative writer put anywhere: it writes  *)
(* only inodes it created, and takes no last name from any other.          *)
THEOREM ForeignBytesSurvive == Spec => ForeignUntouched
  <1>1. ASSUME Inv, StageInv, [Next]_vars PROVE KeepsForeign
    <2> SUFFICES ASSUME NEW o \in Ops, pc'[o] # pc[o], NEW i \in Foreign
                 PROVE  content'[i] = content[i] /\ (Named(i) => Named(i)')
      BY DEF KeepsForeign
    <2> USE <1>1 DEF Inv, StageInv
    <2>1. CallStep(o) \/ Crash(o)  BY WhoMoves
    <2>2. i \in Ino /\ i # None /\ i # StageIno(o) /\ i # BackupIno(o)
      BY NoneAssumption DEF Foreign, Ino, StageIno, BackupIno
    <2>3. content'[i] = content[i]
      <3>1. CASE WriteStage(o)
        <4>1. /\ src[o].data \in Data /\ Torn \in Data /\ cur[o].mode \in Modes
          BY <3>1 DEF WriteStage, Local, KnowsSource, KnowsCurrent, Selected, Approved, Captured, Data
        <4>2. \A d \in Data : Written(StageIno(o), d, cur[o].mode)[i] = content[i]
          BY <2>2, <4>1, InodeNames, WrittenTyped
        <4>3. QED  BY <3>1, <4>1, <4>2 DEF WriteStage
      <3>2. CASE WriteSnapshot(o)
        <4>1. /\ cur[o].data \in Data /\ Torn \in Data /\ cur[o].mode \in Modes
          BY <3>2 DEF WriteSnapshot, Local, KnowsCurrent, Approved, Captured, Data
        <4>2. \A d \in Data : Written(BackupIno(o), d, cur[o].mode)[i] = content[i]
          BY <2>2, <4>1, InodeNames, WrittenTyped
        <4>3. QED  BY <3>2, <4>1, <4>2 DEF WriteSnapshot
      <3>3. CASE ~WriteStage(o) /\ ~WriteSnapshot(o)
        BY <2>1, <3>3 DEF files, CallStep, Begin, CaptureOpen, CaptureSource, CheckTarget,
           OpenLock, Flock, CaptureCurrent, ConfirmMatching, SalvageSnapshot,
           CaptureBackup, CaptureLatest, RecheckSource, VerifyBeforeExchange, Exchange,
           SettleExchange, CaptureDisplaced, CapturePublished, RecheckBackup, LinkRecovery,
           CaptureRecovery, RemoveCaptured, RemoveOwned, Unlock, Crash
      <3>4. QED  BY <3>1, <3>2, <3>3
    <2>4. ASSUME Named(i) PROVE Named(i)'
      <3>1. EntriesMove(o)  BY <2>1, EntrySteps
      <3>2. CASE target = i
        BY <2>2, <3>1, <3>2 DEF EntriesMove, Named, TypeOK
      <3>3. ASSUME NEW p \in Ops, i \in {source[p], stage[p], backup[p], recovery[p]} PROVE Named(i)'
        <4>1. CASE p # o  BY <3>1, <3>3, <4>1 DEF EntriesMove, Named, TypeOK
        <4>2. CASE p = o  BY <2>2, <3>1, <3>3, <4>2 DEF EntriesMove, Named, TypeOK
        <4>3. QED  BY <4>1, <4>2
      <3>4. QED  BY <2>4, <3>2, <3>3 DEF Named
    <2>5. QED  BY <2>3, <2>4
  <1>2. Inv /\ StageInv /\ [Next]_vars => [KeepsForeign]_vars  BY <1>1
  <1>3. QED  BY <1>2, Invariance, StageInvariance, PTL DEF Spec, ForeignUntouched

(* The runtime name is rebound only to the bytes the call selected, with   *)
(* the snapshot of what it approved in place, mode bits included.          *)
THEOREM OnlyApprovedPublished == Spec => PublishesApproved
  <1>1. ASSUME Inv, StageInv, [Next]_vars PROVE RebindsApproved
    <2> SUFFICES ASSUME NEW o \in Ops, pc'[o] # pc[o], target' # target
                 PROVE  /\ target' = StageIno(o) /\ content[target'].data = ExpSource[o]
                        /\ SameSnapshot(content[backup[o]], cur[o])
      BY DEF RebindsApproved
    <2> USE <1>1 DEF Inv, StageInv
    <2>1. CallStep(o) \/ Crash(o)  BY WhoMoves
    <2>2. Exchange(o) /\ target' = stage[o]
      BY <2>1 DEF files, CallStep, Begin, CaptureOpen, CaptureSource, CheckTarget,
         OpenLock, Flock, CaptureCurrent, ConfirmMatching, WriteStage, WriteSnapshot, SalvageSnapshot,
         CaptureBackup, CaptureLatest, RecheckSource, VerifyBeforeExchange, Exchange,
         SettleExchange, CaptureDisplaced, CapturePublished, RecheckBackup, LinkRecovery,
         CaptureRecovery, RemoveCaptured, RemoveOwned, Unlock, Crash
    <2>3. pc[o] = "exchange"  BY <2>2 DEF Exchange
    <2>4. stage[o] = StageIno(o) /\ content[StageIno(o)].data = ExpSource[o]
      BY <2>3 DEF Staged, StageOwned, StagedPc
    <2>5. backup[o] = BackupIno(o) /\ SameSnapshot(content[BackupIno(o)], cur[o])
      BY <2>3 DEF Local, SnapshotDone, BackupGood, Staged, SnapshotExact
    <2>6. QED  BY <2>2, <2>4, <2>5
  <1>2. Inv /\ StageInv /\ [Next]_vars => [RebindsApproved]_vars  BY <1>1
  <1>3. QED  BY <1>2, Invariance, StageInvariance, PTL DEF Spec, PublishesApproved
=============================================================================
