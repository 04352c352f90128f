-------------------------- MODULE EntrypointRepair --------------------------
(***************************************************************************)
(* Digest-bound maintenance of one existing host file (SKILL.md or a       *)
(* sibling document): skills_sdk.host.entrypoint.                          *)
(*                                                                         *)
(* Every member of Ops is one call of repair_entrypoint (or, for members   *)
(* of Preview, of check_entrypoint) in a process of its own, all naming    *)
(* the same target.  The calls run concurrently with each other and with   *)
(* an uncooperative writer of the runtime directory, may be killed at any  *)
(* step, and any system call they make may fail.                           *)
(*                                                                         *)
(* The file system is a table of inodes (content) and one variable per     *)
(* directory entry that the code names: target, the source of each         *)
(* request, and the uuid-named stage, backup and recovery entries of each  *)
(* call.  A digest is represented by the bytes it is the digest of.        *)
(***************************************************************************)
EXTENDS Naturals

CONSTANTS
    Ops,           \* calls; each uses uuid names of its own
    Preview,       \* the calls of check_entrypoint
    Supporting,    \* the calls with request.supporting_document
    Bytes,         \* complete file contents
    Prior,         \* contents of the target when the system starts
    Valid,         \* contents that _validate_entrypoint accepts
    ExpSource,     \* request.expected_source of each call
    ExpCurrent,    \* request.expected_current of each call
    Modes,         \* permission bits of a file
    Executable,    \* the modes with one of the bits 0o111
    Sanitized,     \* mode & 0o777
    MaxWrites,     \* bound: steps of the uncooperative writer
    MaxCleans,     \* bound: removals of the lock file by a cleaner of /tmp
    None

Torn == "torn"                         \* an incomplete write
Data == Bytes \cup {Torn}
File == [data : Data, mode : Modes]

(* Inodes are named by their creator, so that two never coincide.  A call  *)
(* creates at most a stage and a backup.                                   *)
StageIno(o)  == [kind |-> "stage",  by |-> o]
BackupIno(o) == [kind |-> "backup", by |-> o]
SourceIno(o) == [kind |-> "source", by |-> o]
WriterIno(n) == [kind |-> "writer", by |-> n]
TargetIno    == WriterIno(0)           \* what the runtime starts with
Ino == [kind : {"stage", "backup", "source"}, by : Ops]
         \cup [kind : {"writer"}, by : 0..MaxWrites]
Foreign == [kind : {"writer"}, by : 0..MaxWrites]

Captured == [ino : Ino, data : Data, mode : Modes]

ASSUME RequestAssumption ==
    /\ Preview \subseteq Ops
    /\ Supporting \subseteq Ops
    /\ Prior \in Bytes
    /\ Valid \subseteq Bytes
    /\ ExpSource \in [Ops -> Bytes]
    /\ ExpCurrent \in [Ops -> Bytes]

ASSUME ModeAssumption ==
    /\ Executable \subseteq Modes
    /\ Sanitized \in [Modes -> Modes]
    /\ \A m \in Modes : Sanitized[Sanitized[m]] = Sanitized[m]

ASSUME BoundAssumption ==
    /\ MaxWrites \in Nat
    /\ MaxCleans \in Nat

VARIABLES
    \* the file system
    target, source, stage, backup, recovery,   \* directory entries
    content,                                   \* inode -> File
    moved,                                     \* a parent directory was replaced
    \* the cooperative lock
    lockFile,      \* generation of the file under the lock name
    lockFd,        \* the generation each call has opened
    held,          \* the calls whose flock succeeded
    \* the calls
    pc,
    fd,            \* the descriptor a _capture in progress has opened
    src, cur, out, \* CapturedFile source, current and displaced
    result,
    \* the uncooperative writer
    writerFd, writes,
    \* history
    exchanged,     \* the calls whose _exchange happened
    displaced,     \* the inode each _exchange took out of target
    disturbed      \* calls after whose _exchange someone else wrote

files   == <<target, source, stage, backup, recovery, content, moved>>
locks   == <<lockFile, lockFd, held>>
env     == <<writerFd, writes>>
history == <<exchanged, displaced, disturbed>>
vars    == <<files, locks, pc, fd, src, cur, out, result, env, history>>

-----------------------------------------------------------------------------
(* Results: EntrypointMaintenanceResult, and "raised" for an exception.    *)
(* backup and recovery say which entry the reported name is.               *)

Statuses == {"matching", "repairable", "repaired", "blocked",
             "indeterminate", "raised"}
Result == [status : Statuses, backup : {"none", "backup"},
           recovery : {"none", "stage", "recovery"}]

Outcome(status, b, r) == [status |-> status, backup |-> b, recovery |-> r]
Raised   == Outcome("raised", "none", "none")
Matching == Outcome("matching", "none", "none")
Blocked  == Outcome("blocked", "backup", "none")
Indeterminate(r) == Outcome("indeterminate", "backup", r)

ASSUME NoneAssumption ==
    /\ Torn \notin Bytes
    /\ None \notin Ino
    /\ None \notin Captured
    /\ None \notin Result

PCs == {"idle", "source", "preview", "lock", "flock", "current", "matching",
        "stage", "backup", "salvage", "readBackup", "latest", "recheck",
        "verify", "exchange", "settle", "displaced", "published",
        "backupAgain", "link", "recovery", "unlink", "cleanup", "unlock",
        "done", "crashed"}

Running(o) == pc[o] \notin {"idle", "done", "crashed"}

Goto(o, next) ==
    /\ pc' = [pc EXCEPT ![o] = next]
    /\ fd' = [fd EXCEPT ![o] = None]

(* Leave the call, or the enclosing try, with result r.  where is the      *)
(* first of the finally clauses still to run.                              *)
Leave(o, r, where) ==
    /\ result' = [result EXCEPT ![o] = r]
    /\ Goto(o, where)

-----------------------------------------------------------------------------
(* _capture: open the name without following links, then read the open     *)
(* inode.  The fstat pair turns a write during the read into a failure;    *)
(* a name rebound between the two steps goes unnoticed.                    *)

PathOf(o) ==
    CASE pc[o] \in {"source", "recheck"}                    -> source[o]
      [] pc[o] \in {"preview", "current", "latest", "published"} -> target
      [] pc[o] \in {"salvage", "readBackup", "backupAgain"} -> backup[o]
      [] pc[o] = "displaced"                                -> stage[o]
      [] pc[o] = "recovery"                                 -> recovery[o]
      [] OTHER                                              -> None

CaptureOpen(o) ==
    /\ fd[o] = None
    /\ PathOf(o) # None
    /\ fd' = [fd EXCEPT ![o] = PathOf(o)]
    /\ UNCHANGED <<files, locks, pc, src, cur, out, result, env, history>>

Read(o) == [ino |-> fd[o], data |-> content[fd[o]].data,
            mode |-> content[fd[o]].mode]

SameSnapshot(left, right) ==
    /\ left.data = right.data
    /\ left.mode = Sanitized[right.mode]

SamePublished(published, source_, current) ==
    /\ published.data = source_.data
    /\ published.mode = Sanitized[current.mode]

(* Defect: the selected digest is not compared. *)
AnySource(o, f) ==
    IF o \in Supporting THEN f.mode \notin Executable ELSE f.data \in Valid

(* _source: the digest the request selected, and for an entrypoint its     *)
(* metadata, for a supporting document its mode.  The SKILL.md siblings    *)
(* that a supporting document also validates are outside the model: their  *)
(* rejection is one of the failures of the step.                           *)
SourceAccepted(o, f) ==
    /\ f.data = ExpSource[o]
    /\ IF o \in Supporting THEN f.mode \notin Executable ELSE f.data \in Valid

TargetAccepted(o, f) == ~(o \in Supporting /\ f.mode \in Executable)

(* _verify_parents *)
VerifyParents == ~moved

-----------------------------------------------------------------------------
(* The steps of repair_entrypoint and check_entrypoint.  In every step the *)
(* second disjunct of a pair is the failure of one of its system calls or  *)
(* checks.                                                                 *)

(* Validate the request and open the three parents. *)
Begin(o) ==
    /\ pc[o] = "idle"
    /\ ~moved             \* afterwards the path names another directory
    /\ \/ Goto(o, "source") /\ UNCHANGED result
       \/ Leave(o, Raised, "done")
    /\ UNCHANGED <<files, locks, src, cur, out, env, history>>

CaptureSource(o) ==
    /\ pc[o] = "source"
    /\ \/ /\ fd[o] # None
          /\ SourceAccepted(o, Read(o))
          /\ src' = [src EXCEPT ![o] = Read(o)]
          /\ Goto(o, IF o \in Preview THEN "preview" ELSE "lock")
          /\ UNCHANGED result
       \/ Leave(o, Raised, "done") /\ UNCHANGED src
    /\ UNCHANGED <<files, locks, cur, out, env, history>>

(* check_entrypoint: report without writing. *)
CheckTarget(o) ==
    /\ pc[o] = "preview"
    /\ \/ /\ fd[o] # None
          /\ TargetAccepted(o, Read(o))
          /\ \/ Read(o).data = src[o].data /\ Leave(o, Matching, "done")
             \/ /\ Read(o).data # src[o].data
                /\ Read(o).data = ExpCurrent[o]
                /\ Leave(o, Outcome("repairable", "none", "none"), "done")
       \/ Leave(o, Raised, "done")
    /\ UNCHANGED <<files, locks, src, cur, out, env, history>>

(* Open the lock file, creating it if the name is free. *)
OpenLock(o) ==
    /\ pc[o] = "lock"
    /\ \/ /\ lockFd' = [lockFd EXCEPT ![o] = lockFile]
          /\ Goto(o, "flock")
          /\ UNCHANGED result
       \/ Leave(o, Raised, "done") /\ UNCHANGED lockFd
    /\ UNCHANGED <<files, lockFile, held, src, cur, out, env, history>>

(* flock(LOCK_EX | LOCK_NB) excludes every other open of the same file. *)
LockBusy(o) == \E p \in held \ {o} : lockFd[p] = lockFd[o]

Flock(o) ==
    /\ pc[o] = "flock"
    /\ \/ /\ ~LockBusy(o)
          /\ held' = held \cup {o}
          /\ Goto(o, "current")
          /\ UNCHANGED result
       \/ Leave(o, Raised, "unlock") /\ UNCHANGED held
    /\ UNCHANGED <<files, lockFile, lockFd, src, cur, out, env, history>>

(* _publish: the runtime must be the approved repair input. *)
CaptureCurrent(o) ==
    /\ pc[o] = "current"
    /\ \/ /\ fd[o] # None
          /\ TargetAccepted(o, Read(o))
          /\ \/ Read(o).data = src[o].data /\ Goto(o, "matching")
             \/ /\ Read(o).data # src[o].data
                /\ Read(o).data = ExpCurrent[o]
                /\ Goto(o, "stage")
          /\ cur' = [cur EXCEPT ![o] = Read(o)]
          /\ UNCHANGED result
       \/ Leave(o, Raised, "unlock") /\ UNCHANGED cur
    /\ UNCHANGED <<files, locks, src, out, env, history>>

ConfirmMatching(o) ==
    /\ pc[o] = "matching"
    /\ \/ VerifyParents /\ Leave(o, Matching, "unlock")
       \/ Leave(o, Raised, "unlock")
    /\ UNCHANGED <<files, locks, src, cur, out, env, history>>

(* _write_stage into a new inode i: [data, mode of the file it replaces]. *)
Written(i, data, mode) ==
    [content EXCEPT ![i] = [data |-> data, mode |-> Sanitized[mode]]]

(* A failed write removes its own file, unless the removal fails too. *)
WriteStage(o) ==
    /\ pc[o] = "stage"
    /\ \/ /\ stage' = [stage EXCEPT ![o] = StageIno(o)]
          /\ content' = Written(StageIno(o), src[o].data, cur[o].mode)
          /\ Goto(o, "backup")
          /\ UNCHANGED result
       \/ Leave(o, Raised, "unlock") /\ UNCHANGED <<stage, content>>
       \/ /\ stage' = [stage EXCEPT ![o] = StageIno(o)]
          /\ content' = Written(StageIno(o), Torn, cur[o].mode)
          /\ Leave(o, Raised, "unlock")
    /\ UNCHANGED <<target, source, backup, recovery, moved, locks, src, cur, out,
                   env, history>>

(* Defect: the snapshot is a hard link to the runtime inode. *)
LinkSnapshot(o) ==
    /\ pc[o] = "backup"
    /\ backup' = [backup EXCEPT ![o] = cur[o].ino]
    /\ Goto(o, "readBackup")
    /\ UNCHANGED <<target, source, stage, recovery, content, moved, locks, src,
                   cur, out, result, env, history>>

(* _write_snapshot: the failing cases leave no file, a torn file whose     *)
(* removal failed, or a complete one whose directory entry was not synced. *)
WriteSnapshot(o) ==
    /\ pc[o] = "backup"
    /\ \/ /\ backup' = [backup EXCEPT ![o] = BackupIno(o)]
          /\ content' = Written(BackupIno(o), cur[o].data, cur[o].mode)
          /\ Goto(o, "readBackup") \/ Goto(o, "salvage")
       \/ Goto(o, "salvage") /\ UNCHANGED <<backup, content>>
       \/ /\ backup' = [backup EXCEPT ![o] = BackupIno(o)]
          /\ content' = Written(BackupIno(o), Torn, cur[o].mode)
          /\ Goto(o, "salvage")
    /\ UNCHANGED <<target, source, stage, recovery, moved, locks, src, cur, out,
                   result, env, history>>

(* except OSError: report a snapshot that is complete after all. *)
SalvageSnapshot(o) ==
    /\ pc[o] = "salvage"
    /\ \/ /\ fd[o] # None
          /\ SameSnapshot(Read(o), cur[o])
          /\ Leave(o, Blocked, "cleanup")
       \/ Leave(o, Raised, "cleanup")
    /\ UNCHANGED <<files, locks, src, cur, out, env, history>>

(* backup = _capture(...); its comparison belongs to the next try, so a    *)
(* snapshot that differs from current is reported as blocked.              *)
CaptureBackup(o) ==
    /\ pc[o] = "readBackup"
    /\ \/ /\ fd[o] # None
          /\ \/ /\ SameSnapshot(Read(o), cur[o])
                /\ Goto(o, "latest")
                /\ UNCHANGED result
             \/ /\ ~SameSnapshot(Read(o), cur[o])
                /\ Leave(o, Blocked, "cleanup")
       \/ Leave(o, Raised, "cleanup")
    /\ UNCHANGED <<files, locks, src, cur, out, env, history>>

CaptureLatest(o) ==
    /\ pc[o] = "latest"
    /\ \/ /\ fd[o] # None
          /\ Read(o) = cur[o]
          /\ Goto(o, "recheck")
          /\ UNCHANGED result
       \/ Leave(o, Blocked, "cleanup")
    /\ UNCHANGED <<files, locks, src, cur, out, env, history>>

RecheckSource(o) ==
    /\ pc[o] = "recheck"
    /\ \/ /\ fd[o] # None
          /\ SourceAccepted(o, Read(o))
          /\ Read(o) = src[o]
          /\ Goto(o, "verify")
          /\ UNCHANGED result
       \/ Leave(o, Blocked, "cleanup")
    /\ UNCHANGED <<files, locks, src, cur, out, env, history>>

(* Defect: retain_stage is set on the blocked path too. *)
VerifyRetaining(o) ==
    /\ pc[o] = "verify"
    /\ \/ VerifyParents /\ Goto(o, "exchange") /\ UNCHANGED result
       \/ Leave(o, Blocked, "unlock")
    /\ UNCHANGED <<files, locks, src, cur, out, env, history>>

VerifyBeforeExchange(o) ==
    /\ pc[o] = "verify"
    /\ \/ VerifyParents /\ Goto(o, "exchange") /\ UNCHANGED result
       \/ Leave(o, Blocked, "cleanup")
    /\ UNCHANGED <<files, locks, src, cur, out, env, history>>

(* Defect: os.replace instead of an exchange. *)
ReplaceOnly(o) ==
    /\ pc[o] = "exchange"
    /\ target' = stage[o]
    /\ stage' = [stage EXCEPT ![o] = None]
    /\ exchanged' = exchanged \cup {o}
    /\ displaced' = [displaced EXCEPT ![o] = target]
    /\ disturbed' = disturbed \cup (exchanged \ {o})
    /\ Goto(o, "settle")
    /\ UNCHANGED <<source, backup, recovery, content, moved, locks, src, cur,
                   out, result, env>>

(* _exchange: renameat2(RENAME_EXCHANGE), atomic, or an error before it. *)
Exchange(o) ==
    /\ pc[o] = "exchange"
    /\ \/ /\ target # None
          /\ stage[o] # None
          /\ target' = stage[o]
          /\ stage' = [stage EXCEPT ![o] = target]
          /\ exchanged' = exchanged \cup {o}
          /\ displaced' = [displaced EXCEPT ![o] = target]
          /\ disturbed' = disturbed \cup (exchanged \ {o})
          /\ Goto(o, "settle")
          /\ UNCHANGED result
       \/ Leave(o, Blocked, "cleanup")
            /\ UNCHANGED <<target, stage, history>>
    /\ UNCHANGED <<source, backup, recovery, content, moved, locks, src, cur, out,
                   env>>

(* Defect: the directory sync stands in the try of the exchange. *)
SettleAsBlocked(o) ==
    /\ pc[o] = "settle"
    /\ \/ VerifyParents /\ Goto(o, "displaced") /\ UNCHANGED result
       \/ Leave(o, Blocked, "cleanup")
    /\ UNCHANGED <<files, locks, src, cur, out, env, history>>

(* From here on every exit sets retain_stage, so "cleanup" is skipped. *)
SettleExchange(o) ==
    /\ pc[o] = "settle"
    /\ \/ VerifyParents /\ Goto(o, "displaced") /\ UNCHANGED result
       \/ Leave(o, Indeterminate("stage"), "unlock")
    /\ UNCHANGED <<files, locks, src, cur, out, env, history>>

(* Defect: the displaced file is not compared with the approved one. *)
AnyDisplaced(o) ==
    /\ pc[o] = "displaced"
    /\ fd[o] # None
    /\ out' = [out EXCEPT ![o] = Read(o)]
    /\ Goto(o, "published")
    /\ UNCHANGED <<files, locks, src, cur, result, env, history>>

CaptureDisplaced(o) ==
    /\ pc[o] = "displaced"
    /\ \/ /\ fd[o] # None
          /\ Read(o) = cur[o]
          /\ out' = [out EXCEPT ![o] = Read(o)]
          /\ Goto(o, "published")
          /\ UNCHANGED result
       \/ Leave(o, Indeterminate("stage"), "unlock") /\ UNCHANGED out
    /\ UNCHANGED <<files, locks, src, cur, env, history>>

CapturePublished(o) ==
    /\ pc[o] = "published"
    /\ \/ /\ fd[o] # None
          /\ SamePublished(Read(o), src[o], cur[o])
          /\ Goto(o, "backupAgain")
          /\ UNCHANGED result
       \/ Leave(o, Indeterminate("stage"), "unlock")
    /\ UNCHANGED <<files, locks, src, cur, out, env, history>>

RecheckBackup(o) ==
    /\ pc[o] = "backupAgain"
    /\ \/ /\ fd[o] # None
          /\ SameSnapshot(Read(o), cur[o])
          /\ Goto(o, "link")
          /\ UNCHANGED result
       \/ Leave(o, Indeterminate("stage"), "unlock")
    /\ UNCHANGED <<files, locks, src, cur, out, env, history>>

(* Defects: an error of os.link is suppressed; moved_to_backup is set      *)
(* before the link.                                                        *)
LinkSuppressed(o) ==
    /\ pc[o] = "link"
    /\ Goto(o, "unlink")
    /\ UNCHANGED <<files, locks, src, cur, out, result, env, history>>

LinkFlaggedEarly(o) ==
    /\ pc[o] = "link"
    /\ Leave(o, Indeterminate("recovery"), "unlock")
    /\ UNCHANGED <<files, locks, src, cur, out, env, history>>

(* os.link: a second name, outside the package, for the displaced inode. *)
LinkRecovery(o) ==
    /\ pc[o] = "link"
    /\ \/ /\ stage[o] # None
          /\ recovery' = [recovery EXCEPT ![o] = stage[o]]
          /\ Goto(o, "recovery")
          /\ UNCHANGED result
       \/ Leave(o, Indeterminate("stage"), "unlock") /\ UNCHANGED recovery
    /\ UNCHANGED <<target, source, stage, backup, content, moved, locks, src,
                   cur, out, env, history>>

(* A recovery that differs is reported under the stage name, one that      *)
(* cannot be read under its own.                                           *)
CaptureRecovery(o) ==
    /\ pc[o] = "recovery"
    /\ \/ /\ fd[o] # None
          /\ \/ Read(o) = out[o] /\ Goto(o, "unlink") /\ UNCHANGED result
             \/ Read(o) # out[o] /\ Leave(o, Indeterminate("stage"), "unlock")
       \/ Leave(o, Indeterminate("recovery"), "unlock")
    /\ UNCHANGED <<files, locks, src, cur, out, env, history>>

(* _remove_captured *)
RemoveCaptured(o) ==
    /\ pc[o] = "unlink"
    /\ \/ /\ stage[o] = out[o].ino
          /\ stage' = [stage EXCEPT ![o] = None]
          /\ Leave(o, Outcome("repaired", "backup", "recovery"), "unlock")
       \/ Leave(o, Indeterminate("recovery"), "unlock") /\ UNCHANGED stage
    /\ UNCHANGED <<target, source, backup, recovery, content, moved, locks,
                   src, cur, out, env, history>>

(* finally: _remove_owned.  A name that no longer is the staged inode is   *)
(* left alone (the ValueError is suppressed); an OSError replaces the      *)
(* result that was about to be returned.                                   *)
RemoveOwned(o) ==
    /\ pc[o] = "cleanup"
    /\ \/ /\ stage' = [stage EXCEPT ![o] = IF @ = StageIno(o) THEN None ELSE @]
          /\ Goto(o, "unlock")
          /\ UNCHANGED result
       \/ Leave(o, Raised, "unlock") /\ UNCHANGED stage
    /\ UNCHANGED <<target, source, backup, recovery, content, moved, locks,
                   src, cur, out, env, history>>

(* Defect: the lock is released on the path of a returned result only. *)
UnlockReturned(o) ==
    /\ pc[o] = "unlock"
    /\ held' = IF result[o] = Raised THEN held ELSE held \ {o}
    /\ Goto(o, "done")
    /\ UNCHANGED <<files, lockFile, lockFd, src, cur, out, result, env, history>>

(* finally: LOCK_UN, which for a call that was refused releases nothing,   *)
(* and close.                                                              *)
Unlock(o) ==
    /\ pc[o] = "unlock"
    /\ held' = held \ {o}
    /\ Goto(o, "done")
    /\ UNCHANGED <<files, lockFile, lockFd, src, cur, out, result, env, history>>

(* The process is killed: no finally clause runs; the kernel closes its    *)
(* descriptors and with them the lock.                                     *)
Crash(o) ==
    /\ Running(o)
    /\ held' = held \ {o}
    /\ Goto(o, "crashed")
    /\ UNCHANGED <<files, lockFile, lockFd, src, cur, out, result, env, history>>

CallStep(o) ==
    \/ Begin(o) \/ CaptureOpen(o) \/ CaptureSource(o) \/ CheckTarget(o)
    \/ OpenLock(o) \/ Flock(o) \/ CaptureCurrent(o) \/ ConfirmMatching(o)
    \/ WriteStage(o) \/ WriteSnapshot(o) \/ SalvageSnapshot(o)
    \/ CaptureBackup(o) \/ CaptureLatest(o) \/ RecheckSource(o)
    \/ VerifyBeforeExchange(o) \/ Exchange(o) \/ SettleExchange(o)
    \/ CaptureDisplaced(o) \/ CapturePublished(o) \/ RecheckBackup(o)
    \/ LinkRecovery(o) \/ CaptureRecovery(o) \/ RemoveCaptured(o)
    \/ RemoveOwned(o) \/ Unlock(o)

-----------------------------------------------------------------------------
(* The uncooperative writer: an editor, a package manager, an agent that   *)
(* does not take the lock.  It works on the runtime name, on the request's *)
(* source, and on descriptors it opened while the runtime name was bound   *)
(* to an inode that may have been displaced since.  It leaves the uuid     *)
(* names of the calls alone.                                               *)

NewFile == [data : Bytes, mode : Modes]

ReplaceTarget ==
    /\ target' = WriterIno(writes')
    /\ \E f \in NewFile : content' = [content EXCEPT ![WriterIno(writes')] = f]
    /\ disturbed' = disturbed \cup exchanged
    /\ UNCHANGED <<source, writerFd, moved>>

RemoveTarget ==
    /\ target # None
    /\ target' = None
    /\ disturbed' = disturbed \cup exchanged
    /\ UNCHANGED <<source, content, writerFd, moved>>

WriterOpen ==
    /\ target # None
    /\ writerFd # target
    /\ writerFd' = target
    /\ UNCHANGED <<target, source, content, moved, disturbed>>

WriteInPlace ==
    /\ writerFd # None
    /\ \E f \in NewFile : content' = [content EXCEPT ![writerFd] = f]
    /\ disturbed' = disturbed \cup exchanged
    /\ UNCHANGED <<target, source, writerFd, moved>>

EditSource(o) ==
    /\ \E f \in NewFile : content' = [content EXCEPT ![source[o]] = f]
    /\ UNCHANGED <<target, source, writerFd, moved, disturbed>>

ReplaceSource(o) ==
    /\ source' = [source EXCEPT ![o] = WriterIno(writes')]
    /\ \E f \in NewFile : content' = [content EXCEPT ![WriterIno(writes')] = f]
    /\ UNCHANGED <<target, writerFd, moved, disturbed>>

(* A parent directory is renamed away, or moved back. *)
MoveParent ==
    /\ moved' = ~moved
    /\ disturbed' = disturbed \cup exchanged
    /\ UNCHANGED <<target, source, content, writerFd>>

WriterStep ==
    /\ writes < MaxWrites
    /\ writes' = writes + 1
    /\ \/ ReplaceTarget \/ RemoveTarget \/ WriterOpen \/ WriteInPlace
       \/ MoveParent
       \/ \E o \in Ops : EditSource(o) \/ ReplaceSource(o)
    /\ UNCHANGED <<stage, backup, recovery, locks, pc, fd, src, cur, out, result,
                   exchanged, displaced>>

(* A cleaner of /tmp unlinks the lock file: the next open creates another. *)
CleanLock ==
    /\ lockFile < MaxCleans
    /\ lockFile' = lockFile + 1
    /\ UNCHANGED <<files, lockFd, held, pc, fd, src, cur, out, result, env, history>>

(* No call is running: each has ended or is never made. *)
Quiet ==
    /\ \A o \in Ops : ~Running(o)
    /\ UNCHANGED vars

-----------------------------------------------------------------------------
Init ==
    /\ target = TargetIno
    /\ source = [o \in Ops |-> SourceIno(o)]
    /\ stage = [o \in Ops |-> None]
    /\ backup = [o \in Ops |-> None]
    /\ recovery = [o \in Ops |-> None]
    /\ \E m \in Modes :
         content = [i \in Ino |->
            CASE i.kind = "source" -> [data |-> ExpSource[i.by], mode |-> m]
              [] i = TargetIno     -> [data |-> Prior, mode |-> m]
              [] OTHER             -> [data |-> Torn, mode |-> m]]
    /\ moved = FALSE
    /\ lockFile = 0
    /\ lockFd = [o \in Ops |-> 0]
    /\ held = {}
    /\ pc = [o \in Ops |-> "idle"]
    /\ fd = [o \in Ops |-> None]
    /\ src = [o \in Ops |-> None]
    /\ cur = [o \in Ops |-> None]
    /\ out = [o \in Ops |-> None]
    /\ result = [o \in Ops |-> None]
    /\ writerFd = None
    /\ writes = 0
    /\ exchanged = {}
    /\ displaced = [o \in Ops |-> None]
    /\ disturbed = {}

Next ==
    \/ \E o \in Ops : CallStep(o) \/ Crash(o)
    \/ WriterStep
    \/ CleanLock
    \/ Quiet

Spec == Init /\ [][Next]_vars

(* A call is a thread of its own process and none of its steps waits, so   *)
(* once begun it keeps running.                                            *)
Advance(o) == CallStep(o) /\ Running(o)

FairSpec == Spec /\ \A o \in Ops : WF_vars(Advance(o))

-----------------------------------------------------------------------------
TypeOK ==
    /\ target \in Ino \cup {None}
    /\ source \in [Ops -> Ino]
    /\ stage \in [Ops -> Ino \cup {None}]
    /\ backup \in [Ops -> Ino \cup {None}]
    /\ recovery \in [Ops -> Ino \cup {None}]
    /\ content \in [Ino -> File]
    /\ moved \in BOOLEAN
    /\ lockFile \in 0..MaxCleans
    /\ lockFd \in [Ops -> 0..MaxCleans]
    /\ held \subseteq Ops
    /\ pc \in [Ops -> PCs]
    /\ fd \in [Ops -> Ino \cup {None}]
    /\ src \in [Ops -> Captured \cup {None}]
    /\ cur \in [Ops -> Captured \cup {None}]
    /\ out \in [Ops -> Captured \cup {None}]
    /\ result \in [Ops -> Result \cup {None}]
    /\ writerFd \in Ino \cup {None}
    /\ writes \in 0..MaxWrites
    /\ exchanged \subseteq Ops
    /\ displaced \in [Ops -> Ino \cup {None}]
    /\ disturbed \subseteq Ops

(* The approved prior bytes outlive publication: once a call has exchanged *)
(* the target, its backup entry names a complete copy of the bytes that    *)
(* the request approved for replacement, whatever happens afterwards, the  *)
(* death of the process included.                                          *)
PriorRetained ==
    \A o \in exchanged :
        /\ backup[o] = BackupIno(o)
        /\ content[BackupIno(o)].data = ExpCurrent[o]

(* What an exchange takes out of the runtime keeps a name: the displaced   *)
(* inode stays bound to the stage or to the recovery entry of the call,    *)
(* also when another call displaces the file that this one published, and  *)
(* also when this one is killed.                                           *)
DisplacedKept ==
    \A o \in exchanged : displaced[o] \in {stage[o], recovery[o]}

(* What a returned result reports exists: the backup it names holds the    *)
(* approved prior bytes, and the recovery entry it names is bound to the   *)
(* inode that the exchange took out of the runtime.                        *)
EvidenceExists ==
    \A o \in Ops : pc[o] = "done" =>
        /\ result[o].backup = "backup" =>
              /\ backup[o] = BackupIno(o)
              /\ content[BackupIno(o)].data = ExpCurrent[o]
        /\ result[o].recovery # "none" =>
              /\ o \in exchanged
              /\ displaced[o] = IF result[o].recovery = "stage"
                                THEN stage[o] ELSE recovery[o]

(* A result that is not indeterminate tells the caller what became of the  *)
(* runtime: the call replaced it if and only if it reports repaired.       *)
OutcomeDecides ==
    \A o \in Ops : (pc[o] = "done" /\ result[o].status # "indeterminate") =>
        (o \in exchanged <=> result[o].status = "repaired")

(* repaired means that the inode taken out is the one whose bytes were     *)
(* approved, that it is kept under the recovery name, that the stage name  *)
(* is gone, and that, unless someone else has written since, the runtime   *)
(* name is bound to the selected source bytes.                             *)
RepairedIsPublished ==
    \A o \in Ops : (pc[o] = "done" /\ result[o].status = "repaired") =>
        /\ displaced[o] = cur[o].ino
        /\ recovery[o] = cur[o].ino
        /\ stage[o] = None
        /\ o \notin disturbed =>
              /\ target = StageIno(o)
              /\ content[target].data = ExpSource[o]

(* A call that did not publish leaves no staged file in the runtime        *)
(* package; only an exception may (its message is all the caller gets).    *)
StageDisposed ==
    \A o \in Ops :
        (pc[o] = "done" /\ result[o].status \in {"matching", "repairable", "blocked"})
            => stage[o] = None

(* The cooperative lock: while the lock file stays in place, at most one   *)
(* call is between its flock and its unlock.                               *)
Critical == {"current", "matching", "stage", "backup", "salvage",
             "readBackup", "latest", "recheck", "verify", "exchange",
             "settle", "displaced", "published", "backupAgain", "link",
             "recovery", "unlink", "cleanup"}
OneMaintainer ==
    lockFile = 0 =>
        \A o, p \in Ops : (pc[o] \in Critical /\ pc[p] \in Critical) => o = p

(* Bytes that the uncooperative writer put anywhere are never destroyed by *)
(* a call: no step of a call removes the last name of an inode it did not  *)
(* create, nor changes its contents.                                       *)
Named(i) ==
    \/ target = i
    \/ \E o \in Ops : i \in {source[o], stage[o], backup[o], recovery[o]}
KeepsForeign ==
    (\E o \in Ops : pc'[o] # pc[o]) =>
        \A i \in Foreign : /\ content'[i] = content[i]
                           /\ Named(i) => Named(i)'
ForeignUntouched == [][KeepsForeign]_vars

(* The runtime name is rebound by a call only to a complete file with the  *)
(* source bytes of its own request, and only while the snapshot of the     *)
(* bytes it approved is in place.                                          *)
RebindsApproved ==
    \A o \in Ops : (pc'[o] # pc[o] /\ target' # target) =>
        /\ target' = StageIno(o)
        /\ content[target'].data = ExpSource[o]
        /\ SameSnapshot(content[backup[o]], cur[o])
PublishesApproved == [][RebindsApproved]_vars

(* A call that has begun ends, and its lock is free again. *)
EveryCallEnds ==
    \A o \in Ops :
        (pc[o] = "source") ~> (pc[o] \in {"done", "crashed"} /\ o \notin held)
=============================================================================
