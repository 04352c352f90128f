------------------------- MODULE DistributionProofs -------------------------
(***************************************************************************)
(* What is proved of the hosts that release and install skills, for any    *)
(* trees, revisions, requests, policies, targets and locks: what an entry  *)
(* of the lock went through, what a passing archive holds, which           *)
(* installation a runtime observation goes back to, and that every receipt *)
(* and every plan keeps its own contract.                                  *)
(***************************************************************************)
EXTENDS Release, RuntimeHost,
        SequenceTheorems, FiniteSetTheorems, WellFoundedInduction, TLAPS

-----------------------------------------------------------------------------
(* Locks: sequences with one entry per target and package.                 *)

IsLock(l) == l \in Seq(Range(l))
OneEntryEach(l) == \A i, j \in DOMAIN l : EntryKey(l[i]) = EntryKey(l[j]) => i = j

OtherEntries(l, entry) == {e \in Range(l) : EntryKey(e) # EntryKey(entry)}

(* A sequence is one over its own entries.                                 *)
LEMMA LockIsSeq ==
  ASSUME NEW S, NEW l \in Seq(S)
  PROVE  IsLock(l)
  <1>1. Len(l) \in Nat /\ DOMAIN l = 1 .. Len(l) /\ l \in [1 .. Len(l) -> S]  BY LenProperties
  <1>2. l \in [1 .. Len(l) -> Range(l)]  BY <1>1 DEF Range
  <1>3. QED  BY <1>1, <1>2 DEF IsLock

(* What a lock is made of.                                                 *)
LEMMA LockDomain ==
  ASSUME NEW l, IsLock(l)
  PROVE  /\ Len(l) \in Nat /\ DOMAIN l = 1 .. Len(l)
         /\ l = [i \in 1 .. Len(l) |-> l[i]]
         /\ \A i \in 1 .. Len(l) : l[i] \in Range(l)
  <1>1. l \in Seq(Range(l))  BY DEF IsLock
  <1>2. QED  BY <1>1, LenProperties DEF Range

(* The empty lock.                                                         *)
LEMMA NoLock == IsLock(<<>>) /\ OneEntryEach(<<>>) /\ Range(<<>>) = {}
  <1>1. Range(<<>>) = {}  BY DEF Range
  <1>2. <<>> \in Seq({})  BY EmptySeq
  <1>3. QED  BY <1>1, <1>2 DEF IsLock, OneEntryEach

(* What a plan makes of a lock, when nothing has the entry's key ...       *)
LEMMA Installed ==
  ASSUME NEW l, IsLock(l), NEW entry, ~ \E i \in DOMAIN l : EntryKey(l[i]) = EntryKey(entry)
  PROVE  LET p == ProposedLock(l, entry)
         IN  /\ Operation(l, entry) = "install"
             /\ IsLock(p) /\ Len(p) = Len(l) + 1
             /\ \A i \in 1 .. Len(l) : p[i] = l[i]
             /\ p[Len(l) + 1] = entry
  <1>1. Len(l) \in Nat /\ DOMAIN l = 1 .. Len(l) /\ l = [i \in 1 .. Len(l) |-> l[i]]
        /\ \A i \in 1 .. Len(l) : l[i] \in Range(l)
    BY LockDomain
  <1>2. Operation(l, entry) = "install"  BY DEF Operation
  <1> DEFINE replaced == [i \in DOMAIN l |-> IF EntryKey(l[i]) = EntryKey(entry) THEN entry ELSE l[i]]
  <1>3. replaced = l  BY <1>1
  <1>4. ProposedLock(l, entry) = Append(l, entry)  BY <1>2, <1>3 DEF ProposedLock
  <1> DEFINE S == Range(l) \cup {entry}
  <1>5. l \in Seq(S)
    <2>1. l \in Seq(Range(l)) /\ Range(l) \subseteq S  BY DEF IsLock
    <2>2. QED  BY <2>1, SeqMonotonic
  <1>6. entry \in S  OBVIOUS
  <1> HIDE DEF S
  <1>7. /\ Append(l, entry) \in Seq(S) /\ Len(Append(l, entry)) = Len(l) + 1
        /\ \A i \in 1 .. Len(l) : Append(l, entry)[i] = l[i]
        /\ Append(l, entry)[Len(l) + 1] = entry
    BY <1>5, <1>6, AppendProperties
  <1>8. QED  BY <1>2, <1>4, <1>7, LockIsSeq

(* ... and when something has.                                             *)
LEMMA Replaced ==
  ASSUME NEW l, IsLock(l), NEW entry, \E i \in DOMAIN l : EntryKey(l[i]) = EntryKey(entry)
  PROVE  LET p == ProposedLock(l, entry)
         IN  /\ Operation(l, entry) \in {"no_change", "update"}
             /\ IsLock(p) /\ Len(p) = Len(l)
             /\ \A i \in 1 .. Len(l) :
                    p[i] = IF EntryKey(l[i]) = EntryKey(entry) THEN entry ELSE l[i]
  <1>1. Len(l) \in Nat /\ DOMAIN l = 1 .. Len(l) /\ \A i \in 1 .. Len(l) : l[i] \in Range(l)
    BY LockDomain
  <1>2. Operation(l, entry) \in {"no_change", "update"}  BY DEF Operation
  <1> DEFINE p == [i \in 1 .. Len(l) |-> IF EntryKey(l[i]) = EntryKey(entry) THEN entry ELSE l[i]]
             S == Range(l) \cup {entry}
  <1>3. ProposedLock(l, entry) = p  BY <1>1, <1>2 DEF ProposedLock
  <1>4. p \in [1 .. Len(l) -> S]  BY <1>1
  <1>5. p \in Seq(S)  BY <1>1, <1>4, SeqDef
  <1>6. Len(p) = Len(l)
    <2>1. DOMAIN p = 1 .. Len(l) /\ DOMAIN p = 1 .. Len(p) /\ Len(p) \in Nat  BY <1>5, LenProperties
    <2>2. QED  BY <1>1, <2>1
  <1>7. IsLock(p)  BY <1>5, LockIsSeq
  <1>8. QED  BY <1>2, <1>3, <1>6, <1>7

(* A proposed lock is one: it holds the entry, keeps every other entry as  *)
(* it was, and needs no second change.                                     *)
LEMMA Proposed ==
  ASSUME NEW l, IsLock(l), OneEntryEach(l), NEW entry
  PROVE  LET p == ProposedLock(l, entry)
         IN  /\ IsLock(p) /\ OneEntryEach(p)
             /\ entry \in Range(p) /\ Range(p) \subseteq Range(l) \cup {entry}
             /\ Operation(p, entry) = "no_change"
             /\ OtherEntries(p, entry) = OtherEntries(l, entry)
  <1> DEFINE p == ProposedLock(l, entry)
  <1>1. Len(l) \in Nat /\ DOMAIN l = 1 .. Len(l)  BY LockDomain
  <1>2. /\ IsLock(p) /\ DOMAIN p = 1 .. Len(p) /\ Len(p) \in Nat
        /\ \E k \in DOMAIN p :
              /\ p[k] = entry
              /\ \A i \in DOMAIN p : i # k =>
                    i \in DOMAIN l /\ p[i] = l[i] /\ EntryKey(l[i]) # EntryKey(entry)
              /\ \A i \in DOMAIN l : EntryKey(l[i]) # EntryKey(entry) => i \in DOMAIN p /\ i # k
    <2>1. CASE \E i \in DOMAIN l : EntryKey(l[i]) = EntryKey(entry)
      <3>1. PICK k \in DOMAIN l : EntryKey(l[k]) = EntryKey(entry)  BY <2>1
      <3>2. \A i \in DOMAIN l : i # k => EntryKey(l[i]) # EntryKey(entry)
        BY <3>1 DEF OneEntryEach
      <3>3. /\ IsLock(p) /\ Len(p) = Len(l)
            /\ \A i \in 1 .. Len(l) : p[i] = IF EntryKey(l[i]) = EntryKey(entry) THEN entry ELSE l[i]
        BY <2>1, Replaced
      <3>4. DOMAIN p = 1 .. Len(l)  BY <3>3, LockDomain
      <3> HIDE DEF p
      <3>5. p[k] = entry  BY <1>1, <3>1, <3>3
      <3>6. \A i \in DOMAIN p : i # k => i \in DOMAIN l /\ p[i] = l[i] /\ EntryKey(l[i]) # EntryKey(entry)
        BY <1>1, <3>2, <3>3, <3>4
      <3>7. QED  BY <1>1, <3>1, <3>3, <3>4, <3>5, <3>6
    <2>2. CASE ~ \E i \in DOMAIN l : EntryKey(l[i]) = EntryKey(entry)
      <3>1. /\ IsLock(p) /\ Len(p) = Len(l) + 1
            /\ \A i \in 1 .. Len(l) : p[i] = l[i]
            /\ p[Len(l) + 1] = entry
        BY <2>2, Installed
      <3>2. DOMAIN p = 1 .. Len(l) + 1  BY <3>1, LockDomain
      <3> HIDE DEF p
      <3>3. Len(l) + 1 \in DOMAIN p  BY <1>1, <3>2
      <3>4. \A i \in DOMAIN p : i # Len(l) + 1 => i \in DOMAIN l /\ p[i] = l[i] /\ EntryKey(l[i]) # EntryKey(entry)
        BY <1>1, <2>2, <3>1, <3>2
      <3>5. \A i \in DOMAIN l : i \in DOMAIN p /\ i # Len(l) + 1  BY <1>1, <3>2
      <3>6. QED  BY <1>1, <3>1, <3>2, <3>3, <3>4, <3>5
    <2>3. QED  BY <2>1, <2>2
  <1> HIDE DEF p
  <1>3. PICK k \in DOMAIN p :
              /\ p[k] = entry
              /\ \A i \in DOMAIN p : i # k =>
                    i \in DOMAIN l /\ p[i] = l[i] /\ EntryKey(l[i]) # EntryKey(entry)
              /\ \A i \in DOMAIN l : EntryKey(l[i]) # EntryKey(entry) => i \in DOMAIN p /\ i # k
    BY <1>2
  <1>4. OneEntryEach(p)
    <2>1. SUFFICES ASSUME NEW i \in DOMAIN p, NEW j \in DOMAIN p, EntryKey(p[i]) = EntryKey(p[j])
                   PROVE  i = j
      BY DEF OneEntryEach
    <2>2. CASE i = k \/ j = k  BY <1>3, <2>1, <2>2
    <2>3. CASE i # k /\ j # k  BY <1>3, <2>1, <2>3 DEF OneEntryEach
    <2>4. QED  BY <2>2, <2>3
  <1>5. entry \in Range(p) /\ Range(p) \subseteq Range(l) \cup {entry}  BY <1>3 DEF Range
  <1>6. Operation(p, entry) = "no_change"
    <2>1. {i \in DOMAIN p : EntryKey(p[i]) = EntryKey(entry)} = {k}  BY <1>3
    <2>2. QED  BY <1>3, <2>1 DEF Operation
  <1>7. OtherEntries(p, entry) = OtherEntries(l, entry)
    <2>1. ASSUME NEW e \in OtherEntries(p, entry) PROVE e \in OtherEntries(l, entry)
      BY <1>3, <2>1 DEF OtherEntries, Range
    <2>2. ASSUME NEW e \in OtherEntries(l, entry) PROVE e \in OtherEntries(p, entry)
      <3>1. PICK i \in DOMAIN l : e = l[i] /\ EntryKey(l[i]) # EntryKey(entry)
        BY <2>2 DEF OtherEntries, Range
      <3>2. i \in DOMAIN p /\ i # k  BY <1>3, <3>1
      <3>3. p[i] = e  BY <1>3, <3>1, <3>2
      <3>4. QED  BY <3>1, <3>2, <3>3 DEF OtherEntries, Range
    <2>3. QED  BY <2>1, <2>2
  <1>8. QED  BY <1>2, <1>4, <1>5, <1>6, <1>7 DEF p

-----------------------------------------------------------------------------
(* The releasing host: what the lock in force becomes.                     *)

LockKept == IsLock(lock) /\ OneEntryEach(lock)

(* Only an adopted plan changes the lock. *)
LEMMA OnlyAdoptionChanges ==
  ASSUME [Next]_vars, ~Adopt
  PROVE  lock' = lock
  BY DEF Next, vars, Build, Harden, PrepareCandidate, PlanInstall, Verify

(* A step keeps one entry per target and package.                          *)
LEMMA LockKeptByStep ==
  ASSUME LockKept, [Next]_vars
  PROVE  LockKept'
  <1>1. CASE Adopt
    <2>1. lock' = ProposedLock(lock, answer.entry)  BY <1>1 DEF Adopt
    <2>2. QED  BY <2>1, Proposed DEF LockKept
  <1>2. CASE ~Adopt
    <2>1. lock' = lock  BY <1>2, OnlyAdoptionChanges
    <2>2. QED  BY <2>1 DEF LockKept
  <1>3. QED  BY <1>1, <1>2

(* So the lock always has.                                                 *)
LEMMA LockKeptAlways == Spec => []LockKept
  <1>1. Init => LockKept  BY NoLock DEF Init, LockKept
  <1>2. LockKept /\ [Next]_vars => LockKept'  BY LockKeptByStep
  <1>3. QED  BY <1>1, <1>2, PTL DEF Spec

(* plan_runtime_install is idempotent once its plan is adopted, and touches *)
(* no entry of another package or target.                                   *)
THEOREM AdoptionIsFinal == Spec => AdoptionSettles
  <1>1. ASSUME LockKept, [Next]_vars, lock' # lock
        PROVE  /\ Operation(lock', answer.entry) = "no_change"
               /\ OtherEntries(lock', answer.entry) = OtherEntries(lock, answer.entry)
    <2>1. Adopt  BY <1>1, OnlyAdoptionChanges
    <2>2. lock' = ProposedLock(lock, answer.entry)  BY <2>1 DEF Adopt
    <2>3. QED  BY <1>1, <2>2, Proposed DEF LockKept
  <1>2. LockKept /\ [Next]_vars =>
          [ (lock' # lock) =>
              LET entry == answer.entry
              IN  /\ Operation(lock', entry) = "no_change"
                  /\ {e \in Range(lock') : EntryKey(e) # EntryKey(entry)}
                        = {e \in Range(lock) : EntryKey(e) # EntryKey(entry)} ]_vars
    BY <1>1 DEF OtherEntries
  <1>3. QED  BY <1>2, LockKeptAlways, PTL DEF Spec, AdoptionSettles

-----------------------------------------------------------------------------
(* The installing host: plans, locks and the chain of observations.        *)

(* A digest determines what it is the digest of.                           *)
LEMMA Digests == \A x, y : Digest(x)[2] = x /\ (Digest(x) = Digest(y) => x = y)
  BY DEF Digest

ALock(l) == IsLock(l) /\ OneEntryEach(l)

(* What an accepted plan or observation starts from is a lock, ...         *)
FromLock(current) == current = Digest(current[2]) /\ ALock(current[2])

(* ... and a plan goes where it says.                                      *)
Sound(p) == FromLock(p.current) /\ p.proposed = Digest(ProposedLock(p.current[2], p.entry))

Jobs ==
    /\ installs \in Nat /\ installs <= MaxInstalls
    /\ seen = [i \in 1 .. MaxInstalls |-> seen[i]]
    /\ ALock(hostLock)
    /\ plan # None => Sound(plan)
    /\ job # None => installs >= 1 /\ plan # None /\ Sound(job)

(* An identity is made from the plan it names. *)
OfPlan(bound) == bound = Bound(bound.plan_sha256[2])

PutIn(after, bound) ==
    \E e \in Range(after) :
        e.candidate = bound.candidate /\ e.package_digest = bound.package_digest /\ e.target = bound.target

(* An installation result of the record.  Its installation is over, so     *)
(* that what it met and left is not overwritten any more.                  *)
Accepted(r) ==
    /\ r.id \in 1 .. installs /\ (job # None => r.id < installs)
    /\ OfPlan(r.bound) /\ FromLock(r.current)
    /\ r.mutated => Digest(seen[r.id].before) = r.current
    /\ r.status = "completed" => PutIn(seen[r.id].after, r.bound)

(* What the record holds after a result goes back to one it accepted.      *)
Undoes(j, r) == Accepted(r) /\ r.mutated /\ j.bound = r.bound /\ j.rollback = r.current
Follows(o, r) == Accepted(r) /\ r.status = "completed" /\ o.bound = r.bound

ResultTraced == result # None => Accepted(result)

UndoTraced ==
    /\ Holds(undo, "journal") => Undoes(undo, Undone(undo))
    /\ Holds(undo, "rollback") =>
         /\ Undoes(undo, Undone(undo.journal_sha256[2]))
         /\ undo.status = "rolled_back" => undo.resulting = undo.rollback

ObservedTraced ==
    /\ Holds(observed, "discovery") => Follows(observed, observed.previous[2])
    /\ Holds(observed, "activation") => Follows(observed, observed.previous[2].previous[2])
    /\ Holds(observed, "outcome") => Follows(observed, observed.previous[2].previous[2].previous[2])

HostInv == Jobs /\ ResultTraced /\ UndoTraced /\ ObservedTraced

(* Observations with the binding of one plan have one identity. *)
LEMMA OneIdentity ==
  ASSUME NEW label, NEW b, OfPlan(b), SameBinding(Bound(label), b)
  PROVE  Bound(label) = b
  <1>1. Bound(label).plan_sha256 = Digest(label)  BY DEF Bound
  <1>2. b.plan_sha256 = Digest(label)  BY <1>1 DEF SameBinding
  <1>3. QED  BY <1>2, Digests DEF OfPlan

(* The label of an identity can be read off it. *)
LEMMA IdentityOfPlan == \A label : OfPlan(Bound(label))
  <1>1. TAKE label
  <1>2. Bound(label).plan_sha256 = Digest(label)  BY DEF Bound
  <1>3. QED  BY <1>2, Digests DEF OfPlan

(* A plan that is handed out goes from the lock it was given. *)
LEMMA PlansAreSound ==
  ASSUME NEW package_, NEW prepared_, NEW l, ALock(l), NEW target, NEW p,
         p = PlanRuntimeInstall(package_, prepared_, l, target), p # None, p.status = "planned"
  PROVE  Sound(p)
  <1> DEFINE entry == PlannedEntry(package_, prepared_, target)
             blocker == IdentityBlocker(package_, prepared_)
  <1>1. p = BlockedPlan(package_, prepared_, l, target, blocker) \/ p = PlannedTransition(package_, prepared_, l, target)
    BY DEF PlanRuntimeInstall
  <1>2. BlockedPlan(package_, prepared_, l, target, blocker).status = "blocked"
    BY DEF BlockedPlan, Identified
  <1>3. p = PlannedTransition(package_, prepared_, l, target)  BY <1>1, <1>2
  <1>4. p.current = Digest(l) /\ p.entry = entry /\ p.proposed = Digest(ProposedLock(l, entry))
    BY <1>3 DEF PlannedTransition, Identified
  <1>5. QED  BY <1>4, Digests DEF Sound, FromLock

(* How a step bears on the installations: it leaves them, begins one, or   *)
(* ends the one under way.                                                 *)
Untouched == installs' = installs /\ job' = job /\ seen' = seen
InstallOver == installs' = installs /\ job # None /\ job' = None /\ (seen' = seen \/ \E after : See(after))

InstallStep(label) ==
    InstallCompletes(label) \/ InstallRaces(label) \/ InstallBreaks(label) \/ InstallBlocked(label)

(* The steps of the host, one by one.                                      *)
LEMMA HostSteps ==
  ASSUME [HostNext]_hostVars
  PROVE  \/ \E release \in Releases, target \in HostTargets : MakePlan(release, target)
         \/ BeginInstall
         \/ \E label \in Labels : InstallStep(label)
         \/ \E label \in HeldPlans, statuses \in [1..2 -> {"applied", "failed"}] : WriteJournal(label, statuses)
         \/ \E label \in HeldPlans : RollBack(label)
         \/ \E label \in HeldPlans : RollbackRaces(label)
         \/ \E label \in HeldPlans, status \in {"discovered", "not_discovered"} : Discover(label, status)
         \/ \E label \in HeldPlans, status \in {"active", "inactive"} : Activate(label, status)
         \/ \E label \in HeldPlans, status \in {"completed", "failed"} : RunOutcome(label, status)
         \/ UNCHANGED hostVars
  BY DEF HostNext, InstallStep

(* An install is over with its step, however that ends.                    *)
LEMMA InstallEnds ==
  ASSUME NEW label, InstallStep(label)
  PROVE  InstallOver
  <1>1. CASE InstallCompletes(label)  BY <1>1 DEF InstallCompletes, Record, InstallOver
  <1>2. CASE InstallRaces(label)  BY <1>2 DEF InstallRaces, Record, InstallOver
  <1>3. CASE InstallBreaks(label)  BY <1>3 DEF InstallBreaks, Record, InstallOver
  <1>4. CASE InstallBlocked(label)  BY <1>4 DEF InstallBlocked, Record, InstallOver
  <1>5. QED  BY <1>1, <1>2, <1>3, <1>4 DEF InstallStep

(* An accepted result stays one. *)
LEMMA AcceptedStays ==
  ASSUME Jobs, Untouched \/ BeginInstall \/ InstallOver, NEW r, Accepted(r)
  PROVE  Accepted(r)'
  <1>1. /\ r.id \in 1 .. installs /\ installs \in Nat /\ installs <= MaxInstalls
        /\ MaxInstalls \in Nat /\ seen = [i \in 1 .. MaxInstalls |-> seen[i]]
    BY HostAssumption DEF Accepted, Jobs
  <1>2. r.id \in 1 .. installs' /\ (job' # None => r.id < installs') /\ seen'[r.id] = seen[r.id]
    <2>1. CASE Untouched  BY <1>1, <2>1 DEF Untouched, Accepted
    <2>2. CASE BeginInstall  BY <1>1, <2>2 DEF BeginInstall
    <2>3. CASE InstallOver
      <3>1. installs' = installs /\ job' = None /\ r.id < installs  BY <2>3 DEF InstallOver, Accepted
      <3>2. seen'[r.id] = seen[r.id]  BY <1>1, <2>3, <3>1 DEF InstallOver, See
      <3>3. QED  BY <1>1, <3>1, <3>2
    <2>4. QED  BY <2>1, <2>2, <2>3
  <1>3. QED  BY <1>2 DEF Accepted

(* The observation of an installation is accepted if it binds the plan it  *)
(* names: whatever that plan is, it proposes the lock that was left.       *)
LEMMA ResultIsAccepted ==
  ASSUME Jobs, job # None, NEW label \in Labels, NEW r,
         r.id = installs, r.bound = Bound(label), r.current = job.current, r.proposed = job.proposed,
         InstallationValid(r), InstallationAgainst(r, label),
         installs' = installs, job' = None,
         r.mutated \/ r.status = "completed" => Digest(hostLock) = job.current,
         r.mutated => seen'[installs].before = hostLock,
         r.status = "completed" => seen'[installs].after = ProposedLock(hostLock, job.entry)
  PROVE  Accepted(r)'
  <1>1. Sound(job) /\ plan # None /\ Sound(plan) /\ installs \in Nat /\ installs >= 1  BY DEF Jobs
  <1>2. Sound(label)  BY <1>1 DEF Labels
  <1>3. r.id \in 1 .. installs'  BY <1>1
  <1>4. OfPlan(r.bound)  BY IdentityOfPlan
  <1>5. FromLock(r.current)  BY <1>1 DEF Sound
  <1>6. ASSUME r.mutated PROVE Digest(seen'[r.id].before) = r.current  BY <1>6
  <1>7. ASSUME r.status = "completed" PROVE PutIn(seen'[r.id].after, r.bound)
    <2>1. Digest(hostLock) = job.current /\ seen'[r.id].after = ProposedLock(hostLock, job.entry)
      BY <1>7
    <2>2. hostLock = job.current[2]  BY <1>1, <2>1, Digests DEF Sound, FromLock
    <2>3. r.proposed = label.proposed  BY DEF InstallationAgainst
    <2>4. Digest(seen'[r.id].after) = Digest(ProposedLock(label.current[2], label.entry))
      BY <1>1, <1>2, <2>1, <2>2, <2>3 DEF Sound
    <2>5. seen'[r.id].after = ProposedLock(label.current[2], label.entry)  BY <2>4, Digests
    <2>6. label.entry \in Range(seen'[r.id].after)
      BY <1>2, <2>5, Proposed DEF Sound, FromLock, ALock
    <2>7. PlannedShape(label)  BY DEF InstallationAgainst, BindsPlan, InstallPlanValid
    <2>8. /\ label.entry.candidate = r.bound.candidate /\ label.entry.target = r.bound.target
          /\ label.entry.package_digest = r.bound.package_digest
      BY <2>7 DEF PlannedShape, Bound
    <2>9. QED  BY <2>6, <2>8 DEF PutIn
  <1>8. QED  BY <1>3, <1>4, <1>5, <1>6, <1>7 DEF Accepted

(* An installation that ends leaves a lock, and at most an accepted result. *)
LEMMA InstallStepInv ==
  ASSUME Jobs, ResultTraced, NEW label \in Labels, InstallStep(label)
  PROVE  Jobs' /\ ResultTraced'
  <1>0. /\ job # None /\ installs \in Nat /\ installs <= MaxInstalls /\ installs >= 1
        /\ MaxInstalls \in Nat /\ seen = [i \in 1 .. MaxInstalls |-> seen[i]]
        /\ ALock(hostLock)
    BY HostAssumption DEF Jobs, InstallStep, InstallCompletes, InstallRaces, InstallBreaks, InstallBlocked
  <1>1. installs \in 1 .. MaxInstalls  BY <1>0
  <1>2. result' = result => (result' # None => Accepted(result)')
    <2>1. PICK x : x = result  OBVIOUS
    <2>2. Accepted(x) => Accepted(x)'  BY InstallEnds, AcceptedStays
    <2>3. QED  BY <2>1, <2>2 DEF ResultTraced
  <1>3. ASSUME NEW after, See(after)
        PROVE  /\ seen'[installs].before = hostLock /\ seen'[installs].after = after
               /\ seen' = [i \in 1 .. MaxInstalls |-> seen'[i]]
    BY <1>0, <1>1, <1>3 DEF See
  <1>4. ALock(ProposedLock(hostLock, job.entry))  BY <1>0, Proposed DEF ALock
  <1>5. CASE InstallCompletes(label)
    <2>0. PICK r : r = Observed(label, "completed", job.proposed, job.operation # "no_change", None, None)  OBVIOUS
    <2>1. /\ Digest(hostLock) = job.current /\ hostLock' = ProposedLock(hostLock, job.entry)
          /\ See(hostLock') /\ Record(r, label)
      BY <1>5, <2>0 DEF InstallCompletes
    <2>2. Jobs'  BY <1>3, <1>4, <2>1 DEF Jobs, Record
    <2>3. CASE InstallationValid(r) /\ InstallationAgainst(r, label)
      <3>1. result' = r /\ job' = None /\ installs' = installs  BY <2>1, <2>3 DEF Record
      <3>2. /\ r.id = installs /\ r.bound = Bound(label) /\ r.current = job.current
            /\ r.proposed = job.proposed
        BY <2>0 DEF Observed
      <3>3. Accepted(r)'  BY <1>0, <1>3, <2>1, <2>3, <3>1, <3>2, ResultIsAccepted
      <3>4. QED  BY <2>2, <3>1, <3>3 DEF ResultTraced
    <2>4. CASE ~(InstallationValid(r) /\ InstallationAgainst(r, label))
      BY <1>2, <2>1, <2>2, <2>4 DEF Record, ResultTraced
    <2>5. QED  BY <2>3, <2>4
  <1>6. CASE InstallBreaks(label)
    <2>0. PICK r : r = Observed(label, "indeterminate", None, TRUE, "adapter", None)  OBVIOUS
    <2>1. /\ Digest(hostLock) = job.current /\ hostLock' \in {hostLock, ProposedLock(hostLock, job.entry)}
          /\ See(hostLock') /\ Record(r, label)
      BY <1>6, <2>0 DEF InstallBreaks
    <2>2. Jobs'  BY <1>0, <1>3, <1>4, <2>1 DEF Jobs, Record
    <2>3. CASE InstallationValid(r) /\ InstallationAgainst(r, label)
      <3>1. result' = r /\ job' = None /\ installs' = installs  BY <2>1, <2>3 DEF Record
      <3>2. /\ r.id = installs /\ r.bound = Bound(label) /\ r.current = job.current
            /\ r.proposed = job.proposed /\ r.status = "indeterminate"
        BY <2>0 DEF Observed
      <3>3. Accepted(r)'  BY <1>0, <1>3, <2>1, <2>3, <3>1, <3>2, ResultIsAccepted
      <3>4. QED  BY <2>2, <3>1, <3>3 DEF ResultTraced
    <2>4. CASE ~(InstallationValid(r) /\ InstallationAgainst(r, label))
      BY <1>2, <2>1, <2>2, <2>4 DEF Record, ResultTraced
    <2>5. QED  BY <2>3, <2>4
  <1>7. ASSUME NEW r, r.id = installs, r.bound = Bound(label), r.current = job.current,
               r.proposed = job.proposed, r.status # "completed", ~r.mutated,
               UNCHANGED <<hostLock, seen>>, Record(r, label)
        PROVE  Jobs' /\ (result' # None => Accepted(result)')
    <2>1. job' = None /\ UNCHANGED <<plan, installs, hostLock, seen>>  BY <1>7 DEF Record
    <2>2. Jobs'  BY <2>1 DEF Jobs
    <2>3. CASE InstallationValid(r) /\ InstallationAgainst(r, label)
      <3>1. result' = r  BY <1>7, <2>3 DEF Record
      <3>2. Accepted(r)'  BY <1>0, <1>7, <2>1, <2>3, ResultIsAccepted
      <3>3. QED  BY <2>2, <3>1, <3>2
    <2>4. CASE ~(InstallationValid(r) /\ InstallationAgainst(r, label))
      BY <1>2, <1>7, <2>2, <2>4 DEF Record
    <2>5. QED  BY <2>3, <2>4
  <1>8. CASE InstallRaces(label)
    <2> DEFINE r == Observed(label, "failed", None, FALSE, "race",
                             [expected |-> job.current, observed |-> Digest(hostLock)])
    <2>1. UNCHANGED <<hostLock, seen>> /\ Record(r, label)  BY <1>8 DEF InstallRaces
    <2>2. /\ r.id = installs /\ r.bound = Bound(label) /\ r.current = job.current
          /\ r.proposed = job.proposed /\ r.status # "completed" /\ ~r.mutated
      BY DEF Observed
    <2> HIDE DEF r
    <2>3. QED  BY <1>7, <2>1, <2>2 DEF ResultTraced
  <1>9. CASE InstallBlocked(label)
    <2> DEFINE r == Observed(label, "blocked", None, FALSE, "policy", None)
    <2>1. UNCHANGED <<hostLock, seen>> /\ Record(r, label)  BY <1>9 DEF InstallBlocked
    <2>2. /\ r.id = installs /\ r.bound = Bound(label) /\ r.current = job.current
          /\ r.proposed = job.proposed /\ r.status # "completed" /\ ~r.mutated
      BY DEF Observed
    <2> HIDE DEF r
    <2>3. QED  BY <1>7, <2>1, <2>2 DEF ResultTraced
  <1>10. QED  BY <1>5, <1>6, <1>8, <1>9 DEF InstallStep, ResultTraced

(* What is not replaced stays traced. *)
LEMMA TracesStay ==
  ASSUME HostInv, Untouched \/ BeginInstall \/ InstallOver
  PROVE  /\ result' = result => ResultTraced'
         /\ undo' = undo => UndoTraced'
         /\ observed' = observed => ObservedTraced'
  <1>1. ASSUME NEW x, Accepted(x) PROVE Accepted(x)'  BY <1>1, AcceptedStays DEF HostInv
  <1>2. ASSUME result' = result PROVE ResultTraced'
    <2>1. PICK x : x = result  OBVIOUS
    <2>2. result' = x  BY <1>2, <2>1
    <2>3. x # None => Accepted(x)'  BY <1>1, <2>1 DEF HostInv, ResultTraced
    <2>4. QED  BY <2>2, <2>3 DEF ResultTraced
  <1>3. ASSUME undo' = undo PROVE UndoTraced'
    <2>1. PICK x : x = undo  OBVIOUS
    <2>2. undo' = x  BY <1>3, <2>1
    <2>3. ASSUME NEW r, Undoes(x, r) PROVE Undoes(x, r)'  BY <1>1, <2>3 DEF Undoes
    <2>4. /\ Holds(x, "journal") => Undoes(x, Undone(x))
          /\ Holds(x, "rollback") =>
               /\ Undoes(x, Undone(x.journal_sha256[2]))
               /\ x.status = "rolled_back" => x.resulting = x.rollback
      BY <2>1 DEF HostInv, UndoTraced
    <2>5. QED  BY <2>2, <2>3, <2>4 DEF UndoTraced
  <1>4. ASSUME observed' = observed PROVE ObservedTraced'
    <2>1. PICK x : x = observed  OBVIOUS
    <2>2. observed' = x  BY <1>4, <2>1
    <2>3. ASSUME NEW r, Follows(x, r) PROVE Follows(x, r)'  BY <1>1, <2>3 DEF Follows
    <2>4. /\ Holds(x, "discovery") => Follows(x, x.previous[2])
          /\ Holds(x, "activation") => Follows(x, x.previous[2].previous[2])
          /\ Holds(x, "outcome") => Follows(x, x.previous[2].previous[2].previous[2])
      BY <2>1 DEF HostInv, ObservedTraced
    <2>5. QED  BY <2>2, <2>3, <2>4 DEF ObservedTraced
  <1>5. QED  BY <1>2, <1>3, <1>4

(* A plan is made of the lock as it is.                                    *)
LEMMA PlanInv ==
  ASSUME HostInv, NEW release \in Releases, NEW target \in HostTargets, MakePlan(release, target)
  PROVE  HostInv'
  <1>1. Untouched /\ UNCHANGED <<hostLock, job, result, undo, observed>>  BY DEF MakePlan, Untouched
  <1>2. ALock(hostLock)  BY DEF HostInv, Jobs
  <1>3. PICK p : p = PlanRuntimeInstall(release.package, release.prepared, hostLock, target)  OBVIOUS
  <1>4. plan' = p /\ p # None /\ p.status = "planned"  BY <1>3 DEF MakePlan
  <1>5. Sound(p)  BY <1>2, <1>3, <1>4, PlansAreSound
  <1>6. Jobs'  BY <1>1, <1>4, <1>5 DEF HostInv, Jobs, Untouched
  <1>7. QED  BY <1>1, <1>6, TracesStay DEF HostInv

(* An install begins with the plan that is held,                           *)
LEMMA BeginInv == ASSUME HostInv, BeginInstall PROVE HostInv'
  <1>1. /\ job' = plan /\ plan # None /\ installs' = installs + 1 /\ installs < MaxInstalls
        /\ UNCHANGED <<hostLock, plan, result, undo, observed, seen>>
    BY DEF BeginInstall
  <1>2. Jobs'  BY <1>1, HostAssumption DEF HostInv, Jobs
  <1>3. QED  BY <1>1, <1>2, TracesStay DEF HostInv

(* and leaves the result of its own plan.                                  *)
LEMMA InstallInv == ASSUME HostInv, NEW label \in Labels, InstallStep(label) PROVE HostInv'
  <1>1. Jobs' /\ ResultTraced'  BY InstallStepInv DEF HostInv
  <1>2. InstallOver  BY InstallEnds
  <1>3. UNCHANGED <<undo, observed>>
    BY DEF InstallStep, InstallCompletes, InstallRaces, InstallBreaks, InstallBlocked, Record
  <1>4. QED  BY <1>1, <1>2, <1>3, TracesStay DEF HostInv

(* A rollback journal is of the result that is current.                    *)
LEMMA JournalInv ==
  ASSUME HostInv, NEW label, NEW statuses, WriteJournal(label, statuses)
  PROVE  HostInv'
  <1>1. Untouched /\ UNCHANGED <<hostLock, plan, job, result, observed>>  BY DEF WriteJournal, Untouched
  <1>2. PICK j : /\ j.kind = "journal" /\ j.bound = Bound(label) /\ j.rollback = result.current
                 /\ j.result_sha256 = Digest(result)
                 /\ JournalAgainst(j, result) /\ undo' = j
    BY DEF WriteJournal
  <1>3. Accepted(result)  BY DEF HostInv, ResultTraced, WriteJournal
  <1>4. j.bound = result.bound  BY <1>2, <1>3, OneIdentity DEF JournalAgainst, Accepted
  <1>5. PICK r : r = result  OBVIOUS
  <1>6. Undone(j) = r  BY <1>2, <1>5, Digests DEF Undone
  <1>7. Accepted(r)'  BY <1>1, <1>3, <1>5, AcceptedStays DEF HostInv
  <1>8. Undoes(j, r)'  BY <1>2, <1>4, <1>5, <1>7 DEF Undoes, JournalAgainst
  <1>9. UndoTraced'  BY <1>2, <1>6, <1>8 DEF UndoTraced, Holds
  <1>10. Jobs'  BY <1>1 DEF HostInv, Jobs, Untouched
  <1>11. QED  BY <1>1, <1>9, <1>10, TracesStay DEF HostInv

(* An accepted rollback is about the installation its journal undoes. *)
LEMMA RollbackInv ==
  ASSUME HostInv, NEW label, NEW status, NEW resulting, NEW blocker, NEW race,
         Holds(undo, "journal"), RecordRollback(label, status, resulting, blocker, race),
         status = "rolled_back" => resulting = undo.rollback,
         hostLock' = hostLock \/ hostLock' = undo.rollback[2]
  PROVE  HostInv'
  <1>1. Untouched /\ UNCHANGED <<plan, job, result, observed>>  BY DEF RecordRollback, Untouched
  <1>2. PICK j : j = undo  OBVIOUS
  <1>3. PICK o : /\ o.kind = "rollback" /\ o.bound = Bound(label) /\ o.rollback = j.rollback
                 /\ o.journal_sha256 = Digest(j) /\ o.status = status /\ o.resulting = resulting
                 /\ RollbackAgainst(o, j) /\ undo' = o
    BY <1>2 DEF RecordRollback
  <1>4. PICK r : r = Undone(j)  OBVIOUS
  <1>5. Undoes(j, r)  BY <1>2, <1>4 DEF HostInv, UndoTraced
  <1>6. o.bound = j.bound  BY <1>3, <1>5, OneIdentity DEF RollbackAgainst, Undoes, Accepted
  <1>7. Accepted(r)'  BY <1>1, <1>5, AcceptedStays DEF HostInv, Undoes
  <1>8. Undoes(o, r)'  BY <1>3, <1>5, <1>6, <1>7 DEF Undoes
  <1>9. Undone(o.journal_sha256[2]) = r  BY <1>3, <1>4, Digests
  <1>10. UndoTraced'  BY <1>2, <1>3, <1>8, <1>9 DEF UndoTraced, Holds
  <1>11. ALock(hostLock')
    <2>1. ALock(hostLock)  BY DEF HostInv, Jobs
    <2>2. ALock(undo.rollback[2])  BY <1>2, <1>5 DEF Undoes, Accepted, FromLock
    <2>3. QED  BY <2>1, <2>2
  <1>12. Jobs'  BY <1>1, <1>11 DEF HostInv, Jobs, Untouched
  <1>13. QED  BY <1>1, <1>10, <1>12, TracesStay DEF HostInv

(* So is each accepted observation about the installation it goes back to. *)
LEMMA ObservationInv ==
  ASSUME HostInv, NEW o, observed' = o, NEW label, o.bound = Bound(label),
         NEW r, Accepted(r), r.status = "completed", SameBinding(o.bound, r.bound),
         Untouched, UNCHANGED <<hostLock, plan, job, result, undo>>,
         \/ o.kind = "discovery" /\ o.previous[2] = r
         \/ o.kind = "activation" /\ o.previous[2].previous[2] = r
         \/ o.kind = "outcome" /\ o.previous[2].previous[2].previous[2] = r
  PROVE  HostInv'
  <1>1. Accepted(r) /\ r.status = "completed" /\ o.bound = r.bound
    BY OneIdentity DEF Follows, Accepted
  <1>2. Accepted(r)'  BY <1>1, AcceptedStays DEF HostInv
  <1>3. Follows(o, r)'  BY <1>1, <1>2 DEF Follows
  <1>4. ObservedTraced'  BY <1>3 DEF ObservedTraced, Holds
  <1>5. Jobs'  BY DEF HostInv, Jobs, Untouched
  <1>6. QED  BY <1>4, <1>5, TracesStay DEF HostInv

(* What is discovered goes back to an entry of the lock,                   *)
LEMMA DiscoverInv == ASSUME HostInv, NEW label, NEW status, Discover(label, status) PROVE HostInv'
  <1>1. Untouched /\ UNCHANGED <<hostLock, plan, job, result, undo>>  BY DEF Discover, Untouched
  <1>2. PICK r : r = result  OBVIOUS
  <1>3. PICK d : /\ d.kind = "discovery" /\ d.bound = Bound(label) /\ d.previous = Digest(r)
                 /\ observed' = d /\ DiscoveryAgainst(d, r)
    BY <1>2 DEF Discover
  <1>4. observed' = d /\ DiscoveryAgainst(d, r)  BY <1>3
  <1>5. d.kind = "discovery" /\ d.bound = Bound(label) /\ d.previous[2] = r  BY <1>3, Digests
  <1>6. Accepted(r)  BY <1>2 DEF HostInv, ResultTraced, Discover
  <1>7. QED  BY <1>1, <1>4, <1>5, <1>6, ObservationInv DEF DiscoveryAgainst

(* what is activated to what was discovered,                               *)
LEMMA ActivateInv == ASSUME HostInv, NEW label, NEW status, Activate(label, status) PROVE HostInv'
  <1>1. Untouched /\ UNCHANGED <<hostLock, plan, job, result, undo>>  BY DEF Activate, Untouched
  <1>2. PICK d : d = observed  OBVIOUS
  <1>3. PICK r : r = d.previous[2]  OBVIOUS
  <1>4. Follows(d, r)  BY <1>2, <1>3 DEF HostInv, ObservedTraced, Activate
  <1>5. PICK a : /\ a.kind = "activation" /\ a.bound = Bound(label) /\ a.previous = Digest(d)
                 /\ observed' = a /\ ActivationAgainst(a, d)
    BY <1>2 DEF Activate
  <1>6. observed' = a /\ ActivationAgainst(a, d)  BY <1>5
  <1>7. a.kind = "activation" /\ a.bound = Bound(label) /\ a.previous = Digest(d)  BY <1>5
  <1>8. a.previous[2].previous[2] = r  BY <1>3, <1>7, Digests
  <1>9. SameBinding(a.bound, r.bound)  BY <1>4, <1>6 DEF ActivationAgainst, Follows
  <1>10. QED  BY <1>1, <1>4, <1>6, <1>7, <1>8, <1>9, ObservationInv DEF Follows

(* and what ran to what was activated.                                     *)
LEMMA OutcomeInv == ASSUME HostInv, NEW label, NEW status, RunOutcome(label, status) PROVE HostInv'
  <1>1. Untouched /\ UNCHANGED <<hostLock, plan, job, result, undo>>  BY DEF RunOutcome, Untouched
  <1>2. PICK a : a = observed  OBVIOUS
  <1>3. PICK r : r = a.previous[2].previous[2]  OBVIOUS
  <1>4. Follows(a, r)  BY <1>2, <1>3 DEF HostInv, ObservedTraced, RunOutcome
  <1>5. PICK o : /\ o.kind = "outcome" /\ o.bound = Bound(label) /\ o.previous = Digest(a)
                 /\ observed' = o /\ OutcomeAgainst(o, a)
    BY <1>2 DEF RunOutcome
  <1>6. observed' = o /\ OutcomeAgainst(o, a)  BY <1>5
  <1>7. o.kind = "outcome" /\ o.bound = Bound(label) /\ o.previous = Digest(a)  BY <1>5
  <1>8. o.previous[2].previous[2].previous[2] = r  BY <1>3, <1>7, Digests
  <1>9. SameBinding(o.bound, r.bound)  BY <1>4, <1>6 DEF OutcomeAgainst, Follows
  <1>10. QED  BY <1>1, <1>4, <1>6, <1>7, <1>8, <1>9, ObservationInv DEF Follows

(* So every step of the host keeps the evidence traced.                    *)
LEMMA HostInvByStep == ASSUME HostInv, [HostNext]_hostVars PROVE HostInv'
  <1>1. CASE \E release \in Releases, target \in HostTargets : MakePlan(release, target)
    BY <1>1, PlanInv
  <1>2. CASE BeginInstall  BY <1>2, BeginInv
  <1>3. CASE \E label \in Labels : InstallStep(label)  BY <1>3, InstallInv
  <1>4. CASE \E label \in HeldPlans, statuses \in [1..2 -> {"applied", "failed"}] : WriteJournal(label, statuses)
    BY <1>4, JournalInv
  <1>5. CASE \E label \in HeldPlans : RollBack(label)
    <2>1. PICK label : RollBack(label)  BY <1>5
    <2>2. /\ Holds(undo, "journal") /\ hostLock' = undo.rollback[2]
          /\ RecordRollback(label, "rolled_back", undo.rollback, None, None)
      BY <2>1 DEF RollBack
    <2>3. QED  BY <2>2, RollbackInv
  <1>6. CASE \E label \in HeldPlans : RollbackRaces(label)
    <2>1. PICK label : RollbackRaces(label)  BY <1>6
    <2>2. /\ Holds(undo, "journal") /\ hostLock' = hostLock
          /\ RecordRollback(label, "rollback_failed", None, "race",
                            [expected |-> undo.rollback, observed |-> Digest(hostLock)])
      BY <2>1 DEF RollbackRaces
    <2>3. QED  BY <2>2, RollbackInv
  <1>7. CASE \E label \in HeldPlans, status \in {"discovered", "not_discovered"} : Discover(label, status)
    BY <1>7, DiscoverInv
  <1>8. CASE \E label \in HeldPlans, status \in {"active", "inactive"} : Activate(label, status)
    BY <1>8, ActivateInv
  <1>9. CASE \E label \in HeldPlans, status \in {"completed", "failed"} : RunOutcome(label, status)
    BY <1>9, OutcomeInv
  <1>10. CASE UNCHANGED hostVars
    <2>1. UNCHANGED <<hostLock, plan, job, result, undo, observed, installs, seen>>
      BY <1>10 DEF hostVars
    <2>2. Jobs' /\ Untouched  BY <2>1 DEF HostInv, Jobs, Untouched
    <2>3. QED  BY <2>1, <2>2, TracesStay DEF HostInv
  <1>11. QED  BY <1>1, <1>2, <1>3, <1>4, <1>5, <1>6, <1>7, <1>8, <1>9, <1>10, HostSteps

(* So it always is.                                                        *)
LEMMA HostInvariance == HostSpec => []HostInv
  <1>1. ASSUME HostInit PROVE HostInv
    <2>1. ALock(hostLock)  BY <1>1, NoLock DEF HostInit, ALock
    <2>2. Jobs  BY <1>1, <2>1, HostAssumption DEF HostInit, Jobs
    <2>3. QED  BY <1>1, <2>2 DEF HostInit, HostInv, ResultTraced, UndoTraced, ObservedTraced, Holds
  <1>2. QED  BY <1>1, HostInvByStep, PTL DEF HostSpec

(* A runtime outcome in the record is about a package its own installation *)
(* put into the lock, and a recorded rollback brought back the lock its    *)
(* own installation met.                                                   *)
THEOREM EvidenceIsTraced == HostSpec => []EvidenceTraced
  <1>1. ASSUME HostInv PROVE OutcomeTraced
    <2>1. ObservedTraced  BY <1>1 DEF HostInv
    <2>2. QED  BY <2>1 DEF ObservedTraced, OutcomeTraced, Follows, Accepted, PutIn
  <1>2. ASSUME HostInv PROVE RollbackRestores
    <2>1. UndoTraced  BY <1>1, <1>2 DEF HostInv
    <2>2. QED  BY <2>1 DEF UndoTraced, RollbackRestores, Undoes, Accepted
  <1>3. HostInv => EvidenceTraced  BY <1>1, <1>2 DEF EvidenceTraced
  <1>4. QED  BY <1>3, HostInvariance, PTL

-----------------------------------------------------------------------------
(* The releasing host: what a passing archive holds.                       *)

(* The first of several refusals is one, unless there is none. *)
LEMMA LeastIsMember ==
  ASSUME NEW S \in SUBSET Nat, S # {}
  PROVE  Min(S) \in S
  <1> DEFINE R == OpToRel(<, Nat)
  <1>1. IsWellFoundedOn(R, Nat)  BY NatLessThanWellFounded
  <1>2. PICK x \in S : \A y \in S : <<y, x>> \notin R
    <2> HIDE DEF R
    <2>1. QED  BY <1>1, WFMin
  <1>3. ASSUME NEW y \in S PROVE x <= y
    <2>1. <<y, x>> \notin {ss \in Nat \X Nat : ss[1] < ss[2]}  BY <1>2 DEF OpToRel
    <2>2. <<y, x>> \in Nat \X Nat /\ <<y, x>>[1] = y /\ <<y, x>>[2] = x  OBVIOUS
    <2>3. ~(y < x)  BY <2>1, <2>2
    <2>4. QED  BY <2>3
  <1>4. QED  BY <1>2, <1>3 DEF Min

Earliest(s) == LET bad == {i \in DOMAIN s : s[i] # None} IN IF bad = {} THEN None ELSE s[Min(bad)]

(* Where no first entry is found, all are missing.                         *)
LEMMA EarliestIsFound ==
  ASSUME NEW s, DOMAIN s \subseteq Nat, Earliest(s) = None
  PROVE  \A i \in DOMAIN s : s[i] = None
  <1> DEFINE bad == {i \in DOMAIN s : s[i] # None}
  <1>1. SUFFICES ASSUME bad # {} PROVE FALSE  OBVIOUS
  <1>2. bad \in SUBSET Nat  OBVIOUS
  <1>3. Min(bad) \in bad
    <2> HIDE DEF bad
    <2>1. QED  BY <1>1, <1>2, LeastIsMember
  <1>4. Earliest(s) = s[Min(bad)]  BY <1>1 DEF Earliest
  <1>5. QED  BY <1>3, <1>4

(* The codes a verdict is read from. *)
ArchiveCodes == {"archive_path_invalid", "archive_manifest_duplicate", "archive_entry_duplicate",
                 "archive_invalid_zip", "archive_manifest_invalid", "archive_payload_missing",
                 "archive_payload_undeclared", "archive_payload_mismatch", "archive_candidate_digest_mismatch",
                 "archive_receipt_invalid", "archive_receipt_mismatch", "archive_package_digest_mismatch"}

(* The value None is no code, and no function: no record and no digest.    *)
NoneIsNone == None \notin ArchiveCodes /\ None # [x \in DOMAIN None |-> None[x]]

(* No digest and no finding is missing.                                    *)
LEMMA NoneIsNoRecord ==
  ASSUME NoneIsNone
  PROVE  /\ \A x : Digest(x) # None
         /\ \A c, r, s : [code |-> c, refs |-> r, source |-> s] # None
         /\ \A code, path : Finding(code, path) # None
  BY DEF NoneIsNone, Digest, Finding

(* Entries that are not refused have one path each. *)
LEMMA PathsOnce ==
  ASSUME NoneIsNone, NEW entries, DOMAIN entries \subseteq Nat \ {0}, FirstRefusal(entries) = None
  PROVE  \A e, f \in Range(entries) : e.path = f.path => e = f
  <1> DEFINE bad == {i \in DOMAIN entries : EntryRefused(entries, i) # None}
  <1>1. bad = {}
    <2>1. SUFFICES ASSUME bad # {} PROVE FALSE  OBVIOUS
    <2>2. bad \in SUBSET Nat  OBVIOUS
    <2>3. Min(bad) \in bad
      <3> HIDE DEF bad
      <3>1. QED  BY <2>1, <2>2, LeastIsMember
    <2>4. FirstRefusal(entries) = EntryRefused(entries, Min(bad))  BY <2>1 DEF FirstRefusal
    <2>5. QED  BY <2>3, <2>4
  <1>2. ASSUME NEW i \in DOMAIN entries, NEW j \in DOMAIN entries, j < i PROVE entries[j].path # entries[i].path
    <2>1. EntryRefused(entries, i) = None  BY <1>1
    <2>2. j \in 1 .. (i - 1)  BY <1>2
    <2>3. SUFFICES ASSUME entries[j].path = entries[i].path PROVE FALSE  OBVIOUS
    <2>4. \E k \in 1 .. (i - 1) : entries[k].path = entries[i].path  BY <2>2, <2>3
    <2>5. EntryRefused(entries, i) \in {"archive_path_invalid", "archive_manifest_duplicate", "archive_entry_duplicate"}
      BY <2>4 DEF EntryRefused
    <2>6. QED  BY <2>1, <2>5 DEF NoneIsNone, ArchiveCodes
  <1>3. SUFFICES ASSUME NEW i \in DOMAIN entries, NEW j \in DOMAIN entries, entries[i].path = entries[j].path
                 PROVE  entries[i] = entries[j]
    BY DEF Range
  <1>4. i \in Nat /\ j \in Nat /\ (i < j \/ j < i \/ i = j)  OBVIOUS
  <1>5. QED  BY <1>2, <1>3, <1>4

(* What a verdict is: a refusal, or a pass of everything that is looked at. *)
LEMMA VerdictIs ==
  ASSUME NoneIsNone, NEW a, NEW expected, NEW policy
  PROVE  LET v == VerifyPackageArchive(a, None, expected, policy)
         IN  \/ \E b : b # None /\ v = ArchiveBlocked(b)
             \/ \E m : /\ EntriesRefusal(a, policy) = None
                       /\ PayloadRefusal(a.entries, m) = None /\ BindingRefusal(m, expected) = None
                       /\ v = [status |-> "pass", archive_sha256 |-> Digest(a), candidate |-> m.candidate,
                               package_digest |-> Digest(m), manifest |-> m,
                               verified |-> ManifestPaths(m), blocker |-> None]
                       /\ m # None
  <1> DEFINE v        == VerifyPackageArchive(a, None, expected, policy)
             listed   == {e \in Range(a.entries) : e.path = ArchiveManifest}
             m        == (CHOOSE e \in listed : TRUE).manifest
             refusals == << SnapshotRefusal(a, policy),
                            IF None # None /\ None # Digest(a) THEN "archive_digest_mismatch" ELSE None,
                            EntriesRefusal(a, policy),
                            IF listed = {} THEN "archive_manifest_missing" ELSE None >>
             last     == << PayloadRefusal(a.entries, m), BindingRefusal(m, expected) >>
             blocker  == IF Earliest(refusals) # None THEN Earliest(refusals)
                         ELSE IF m = None THEN "archive_manifest_invalid" ELSE Earliest(last)
             pass     == [status |-> "pass", archive_sha256 |-> Digest(a), candidate |-> m.candidate,
                          package_digest |-> Digest(m), manifest |-> m,
                          verified |-> ManifestPaths(m), blocker |-> None]
  <1>1. v = IF blocker # None THEN ArchiveBlocked(blocker) ELSE pass
    BY Zenon DEF VerifyPackageArchive, Earliest
  <1>2. CASE blocker # None  BY <1>1, <1>2
  <1>3. CASE blocker = None
    <2>1. Earliest(refusals) = None /\ DOMAIN refusals \subseteq Nat /\ 3 \in DOMAIN refusals
          /\ refusals[3] = EntriesRefusal(a, policy)
      BY <1>3
    <2>2. EntriesRefusal(a, policy) = None
      <3> HIDE DEF refusals
      <3>1. QED  BY <2>1, EarliestIsFound
    <2>0. "archive_manifest_invalid" # None  BY DEF NoneIsNone, ArchiveCodes
    <2>3. m # None /\ Earliest(last) = None  BY <1>3, <2>0
    <2>4. /\ DOMAIN last \subseteq Nat /\ 1 \in DOMAIN last /\ 2 \in DOMAIN last
          /\ last[1] = PayloadRefusal(a.entries, m) /\ last[2] = BindingRefusal(m, expected)
      OBVIOUS
    <2>5. PayloadRefusal(a.entries, m) = None /\ BindingRefusal(m, expected) = None
      <3> HIDE DEF last
      <3>1. QED  BY <2>3, <2>4, EarliestIsFound
    <2>6. QED  BY <1>1, <1>3, <2>2, <2>3, <2>5
  <1>4. QED  BY <1>2, <1>3

(* The payload of an archive that is not refused is what its manifest      *)
(* declares.                                                               *)
LEMMA PayloadIsDeclared ==
  ASSUME NoneIsNone, NEW a, DOMAIN a.entries \subseteq Nat \ {0}, NEW policy, NEW m,
         EntriesRefusal(a, policy) = None, PayloadRefusal(a.entries, m) = None
  PROVE  {<<e.path, e.sha>> : e \in {x \in Range(a.entries) : x.path # ArchiveManifest}}
            = {<<f.path, f.sha256>> : f \in m.files}
  <1> DEFINE payload == {e \in Range(a.entries) : e.path # ArchiveManifest}
  <1>1. FirstRefusal(a.entries) = None
    <2>1. "archive_invalid_zip" # None  BY DEF NoneIsNone, ArchiveCodes
    <2>2. QED  BY <2>1 DEF EntriesRefusal
  <1>2. \A e, f \in Range(a.entries) : e.path = f.path => e = f  BY <1>1, PathsOnce
  <1>3. /\ ManifestPaths(m) \subseteq {e.path : e \in payload} /\ {e.path : e \in payload} \subseteq ManifestPaths(m)
        /\ \A f \in m.files : \E e \in payload : <<e.path, e.size, e.sha>> = <<f.path, f.size, f.sha256>>
    BY DEF PayloadRefusal, NoneIsNone, ArchiveCodes
  <1>4. \A e \in payload : \E f \in m.files : f.path = e.path
    BY <1>3 DEF ManifestPaths
  <1>5. ASSUME NEW e \in payload PROVE \E f \in m.files : <<e.path, e.sha>> = <<f.path, f.sha256>>
    <2>1. PICK f \in m.files : f.path = e.path  BY <1>4
    <2>2. PICK d \in payload : d.path = f.path /\ d.sha = f.sha256  BY <1>3
    <2>3. d = e  BY <1>2, <2>1, <2>2
    <2>4. QED  BY <2>1, <2>2, <2>3
  <1>6. ASSUME NEW f \in m.files PROVE \E e \in payload : <<e.path, e.sha>> = <<f.path, f.sha256>>
    BY <1>3
  <1>7. QED  BY <1>5, <1>6

(* The manifest of an archive that is bound to a receipt is the receipt's. *)
LEMMA ManifestIsBound ==
  ASSUME NoneIsNone, NEW m, NEW expected, expected # None, BindingRefusal(m, expected) = None
  PROVE  /\ expected.status = "built" /\ expected.manifest = m /\ expected.package_digest = Digest(m)
         /\ m.candidate # None /\ m.candidate.content_sha256 = ContentDigest(m.files)
  <1>1. /\ ContentDigest(m.files) = m.candidate.content_sha256
        /\ PackageReceiptValid(expected)
        /\ expected.status = "built" /\ expected.candidate = m.candidate /\ expected.manifest = m
        /\ expected.package_digest = Digest(m)
    BY DEF BindingRefusal, NoneIsNone, ArchiveCodes
  <1>2. QED  BY <1>1 DEF PackageReceiptValid, BuiltShape

(* The verdict on an archive, against the receipt that is held. *)
VerdictFaithful(a, v) ==
    /\ ArchiveReceiptValid(v)
    /\ v.status = "pass" =>
        /\ package.status = "built" /\ v.package_digest = package.package_digest
        /\ {<<e.path, e.sha>> : e \in {x \in Range(a.entries) : x.path # ArchiveManifest}}
              = {<<f.path, f.sha256>> : f \in package.manifest.files}

(* A verdict of an archive tells what the archive holds.                   *)
LEMMA VerdictsAreFaithful ==
  ASSUME NoneIsNone, NEW a, DOMAIN a.entries \subseteq Nat \ {0}, NEW policy, package # None
  PROVE  VerdictFaithful(a, VerifyPackageArchive(a, None, package, policy))
  <1>1. PICK v : v = VerifyPackageArchive(a, None, package, policy)  OBVIOUS
  <1>2. ASSUME NEW b, b # None, v = ArchiveBlocked(b)
        PROVE  VerdictFaithful(a, v)
    <2>1. /\ v.status = "blocked" /\ v.blocker # None /\ v.verified = {}
          /\ v.archive_sha256 = None /\ v.candidate = None /\ v.package_digest = None /\ v.manifest = None
      BY <1>2 DEF ArchiveBlocked
    <2>2. QED  BY <2>1 DEF VerdictFaithful, ArchiveReceiptValid, Absent
  <1>3. ASSUME NEW m, EntriesRefusal(a, policy) = None, m # None,
               PayloadRefusal(a.entries, m) = None, BindingRefusal(m, package) = None,
               v = [status |-> "pass", archive_sha256 |-> Digest(a), candidate |-> m.candidate,
                    package_digest |-> Digest(m), manifest |-> m,
                    verified |-> ManifestPaths(m), blocker |-> None]
        PROVE  VerdictFaithful(a, v)
    <2>1. /\ v.status = "pass" /\ v.archive_sha256 = Digest(a) /\ v.candidate = m.candidate
          /\ v.package_digest = Digest(m) /\ v.manifest = m /\ v.verified = ManifestPaths(m)
          /\ v.blocker = None
      BY <1>3
    <2>2. /\ package.status = "built" /\ package.manifest = m /\ package.package_digest = Digest(m)
          /\ m.candidate # None /\ m.candidate.content_sha256 = ContentDigest(m.files)
      BY <1>3, ManifestIsBound
    <2>3. Digest(a) # None /\ Digest(m) # None  BY NoneIsNoRecord
    <2>4. ArchiveReceiptValid(v)  BY <1>3, <2>1, <2>2, <2>3 DEF ArchiveReceiptValid, Present
    <2>5. {<<e.path, e.sha>> : e \in {x \in Range(a.entries) : x.path # ArchiveManifest}}
             = {<<f.path, f.sha256>> : f \in m.files}
      BY <1>3, PayloadIsDeclared
    <2>6. QED  BY <2>1, <2>2, <2>4, <2>5 DEF VerdictFaithful
  <1>4. QED  BY <1>1, <1>2, <1>3, VerdictIs

(* Archives are lists of entries. *)
ArchivesListed == \A r : \A a \in Archives(r) : DOMAIN a.entries \subseteq Nat \ {0}

(* A plan is no verdict. *)
LEMMA PlansAreNoVerdicts ==
  ASSUME NEW target, PlanInstall(target)
  PROVE  answer'.status \in {"raised", "planned", "blocked"}
  <1>1. PICK p : p = PlanRuntimeInstall(package, prepared, lock, target)  OBVIOUS
  <1>2. answer' = IF p = None THEN [status |-> "raised"] ELSE p  BY <1>1 DEF PlanInstall
  <1>3. p # None => p.status \in {"planned", "blocked"}
    BY <1>1 DEF PlanRuntimeInstall, BlockedPlan, PlannedTransition, Identified
  <1>4. QED  BY <1>2, <1>3

(* A passing archive holds the files of the receipt it was verified        *)
(* against, byte for byte and no other.                                    *)
THEOREM PassingArchives ==
  ASSUME NoneIsNone, ArchivesListed
  PROVE  Spec => []ArchiveFaithful
  <1>1. ASSUME Init PROVE ArchiveFaithful  BY <1>1 DEF Init, ArchiveFaithful
  <1>2. ASSUME ArchiveFaithful, [Next]_vars PROVE ArchiveFaithful'
    <2>1. CASE answer' = None  BY <2>1 DEF ArchiveFaithful
    <2>2. CASE \E target \in Targets : PlanInstall(target)
      <3>1. answer'.status # "archive"  BY <2>2, PlansAreNoVerdicts
      <3>2. QED  BY <3>1 DEF ArchiveFaithful
    <2>3. CASE \E archive \in Archives(package), policy \in ArchivePolicies : Verify(archive, policy)
      <3>1. PICK a \in Archives(package), policy \in ArchivePolicies : Verify(a, policy)  BY <2>3
      <3>2. PICK v : v = VerifyPackageArchive(a, None, package, policy)  OBVIOUS
      <3>3. answer' = [status |-> "archive", archive |-> a, verdict |-> v]
            /\ package # None /\ package' = package
        BY <3>1, <3>2 DEF Verify
      <3>4. DOMAIN a.entries \subseteq Nat \ {0}  BY DEF ArchivesListed
      <3>5. VerdictFaithful(a, v)  BY <3>2, <3>3, <3>4, VerdictsAreFaithful
      <3>6. QED  BY <3>3, <3>5 DEF ArchiveFaithful, VerdictFaithful
    <2>4. CASE UNCHANGED vars  BY <1>2, <2>4 DEF ArchiveFaithful, vars
    <2>5. QED
      BY <1>2, <2>1, <2>2, <2>3, <2>4 DEF Next, Build, Harden, PrepareCandidate, Adopt
  <1>3. QED  BY <1>1, <1>2, PTL DEF Spec

-----------------------------------------------------------------------------
(* The releasing host: what an entry of the lock went through.             *)

CheckNames == {"package_receipt_built", "forbidden_package_paths", "package_size_budget",
               "provenance_trace", "required_package_roles"}

PackageSound(r) ==
    r.status = "built" =>
        /\ r.package_digest = Digest(r.manifest)
        /\ r.manifest = [candidate |-> r.candidate, version |-> r.manifest.version,
                         files |-> r.manifest.files, source |-> {<<"SKILL.md">>}, builder |-> Builder]

(* A hardening that is blocked names a check that blocks it, and one that  *)
(* passes is of a built package.                                           *)
HardeningSound(h) ==
    /\ h.status \in {"blocked", "pass"} /\ DOMAIN h.checks = CheckNames
    /\ h.status = "pass" => h.build_status = "built"
    /\ h.status = "blocked" => Checks(h, "blocker") # {}

(* A prepared receipt names the hardening of its own package, and a        *)
(* blocked one its blocker.                                                *)
PreparedSound(p) ==
    /\ p.receipt_id[1] = "sha256"
    /\ p.status \in {"prepared", "blocked"}
    /\ p.status = "blocked" => p.blocker # None
    /\ p.status = "prepared" =>
         LET h == HardeningOf(p.receipt_id)
         IN  /\ h.status = "pass" /\ h.build_status = "built"
             /\ h.candidate = p.candidate /\ h.package_digest = p.package_digest

(* A build passes only what was validated,                                 *)
LEMMA BuildsAreSound == \A v : PackageSound(BuildSkillPackage(v))
  <1>1. TAKE v
  <1> DEFINE m == [candidate |-> v.candidate, version |-> v.identity.version, files |-> v.files,
                   source |-> {<<"SKILL.md">>}, builder |-> Builder]
  <1>2. PICK r : r = BuildSkillPackage(v)  OBVIOUS
  <1>3. CASE v.status = "blocked"
    <2>1. r.status = "blocked"  BY <1>2, <1>3 DEF BuildSkillPackage
    <2>2. QED  BY <1>2, <2>1 DEF PackageSound
  <1>4. CASE v.status # "blocked"
    <2>1. r.candidate = v.candidate /\ r.package_digest = Digest(m) /\ r.manifest = m
      BY <1>2, <1>4 DEF BuildSkillPackage
    <2>2. m.version = v.identity.version /\ m.files = v.files  OBVIOUS
    <2>3. QED  BY <1>2, <2>1, <2>2 DEF PackageSound
  <1>5. QED  BY <1>3, <1>4

(* a hardening only what its policy allows.                                *)
LEMMA HardeningsAreSound == \A r, policy : HardeningSound(HardenSkillPackage(r, policy))
  <1>1. TAKE r, policy
  <1>2. PICK files : files = (IF r.manifest = None THEN {} ELSE {f \in r.manifest.files : f.path \in r.included})
    OBVIOUS
  <1>3. PICK checks : checks = HardeningChecks(r, files, policy)  OBVIOUS
  <1>4. PICK h : h = HardenSkillPackage(r, policy)  OBVIOUS
  <1>5. /\ h.checks = checks /\ h.build_status = r.status
        /\ h.status = IF \E c \in DOMAIN checks : checks[c] = "blocker" THEN "blocked" ELSE "pass"
    BY <1>2, <1>3, <1>4 DEF HardenSkillPackage
  <1>6. DOMAIN checks = CheckNames  BY <1>3 DEF HardeningChecks, CheckNames
  <1>7. checks["package_receipt_built"] = IF r.status = "built" THEN "pass" ELSE "blocker"
    BY <1>3 DEF HardeningChecks
  <1>8. h.status = "pass" => r.status = "built"  BY <1>5, <1>6, <1>7 DEF CheckNames
  <1>9. h.status = "blocked" => Checks(h, "blocker") # {}  BY <1>5 DEF Checks
  <1>10. QED  BY <1>4, <1>5, <1>6, <1>8, <1>9 DEF HardeningSound

(* A blocked hardening gives blockers, the first of which is one. *)
LEMMA HardeningBlocks ==
  ASSUME NoneIsNone, NEW h, HardeningSound(h), h.status = "blocked"
  PROVE  LET bs == HardeningBlockers(h)
         IN  bs # <<>> /\ bs[1] # None /\ bs \in Seq(Range(bs))
  <1> DEFINE bad   == Checks(h, "blocker")
             named == {RegistryBlocker(<<c, h.checks[c]>>, c, {}) : c \in bad}
             image == [c \in bad |-> RegistryBlocker(<<c, h.checks[c]>>, c, {})]
             n     == Cardinality(named)
  <1>1. IsFiniteSet(CheckNames)
    <2> DEFINE one   == {} \cup {"package_receipt_built"}
               two   == one \cup {"forbidden_package_paths"}
               three == two \cup {"package_size_budget"}
               four  == three \cup {"provenance_trace"}
               five  == four \cup {"required_package_roles"}
    <2>1. five = CheckNames  BY DEF CheckNames
    <2>2. IsFiniteSet(one)  BY FS_EmptySet, FS_AddElement
    <2> HIDE DEF one
    <2>3. IsFiniteSet(two)  BY <2>2, FS_AddElement
    <2> HIDE DEF two
    <2>4. IsFiniteSet(three)  BY <2>3, FS_AddElement
    <2> HIDE DEF three
    <2>5. IsFiniteSet(four)  BY <2>4, FS_AddElement
    <2> HIDE DEF four
    <2>6. IsFiniteSet(five)  BY <2>5, FS_AddElement
    <2>7. QED  BY <2>1, <2>6
  <1>2. bad \in SUBSET CheckNames /\ bad # {}  BY DEF HardeningSound, Checks
  <1>3. IsFiniteSet(bad)  BY <1>1, <1>2, FS_Subset
  <1>4. image \in Surjection(bad, named)  BY DEF Surjection
  <1>5. IsFiniteSet(named)  BY <1>3, <1>4, FS_Surjection DEF ExistsSurjection
  <1>6. named # {}  BY <1>2
  <1>7. \A x \in named : x # None  BY DEF RegistryBlocker, NoneIsNone
  <1>8. HardeningBlockers(h) = SetToSeq(named)  BY DEF HardeningBlockers
  <1> HIDE DEF named
  <1>9. n \in Nat /\ Bijection(1 .. n, named) # {}
    BY <1>5, FS_CardinalityType DEF ExistsBijection
  <1>10. \E f \in [1 .. n -> named] : IsInjective(f)
    BY <1>9 DEF Bijection, Injection
  <1>11. SetToSeq(named) \in [1 .. n -> named]  BY <1>10 DEF SetToSeq
  <1>12. n # 0
    <2>1. PICK x : x \in named  BY <1>6
    <2>2. QED  BY <1>5, <2>1, FS_EmptySet
  <1>13. QED
    <2>1. SetToSeq(named) \in Seq(named)  BY <1>9, <1>11, SeqDef
    <2>2. Len(SetToSeq(named)) = n
      <3>1. DOMAIN SetToSeq(named) = 1 .. n  BY <1>11
      <3>2. QED  BY <1>9, <2>1, <3>1, LenProperties
    <2>3. 1 \in 1 .. n  BY <1>9, <1>12
    <2>4. SetToSeq(named)[1] # None  BY <1>7, <1>11, <2>3
    <2>5. SetToSeq(named) # <<>>  BY <1>12, <2>2, EmptySeq
    <2>6. QED  BY <1>8, <2>1, <2>4, <2>5, LockIsSeq DEF IsLock

(* Preparation is refused, with a first blocker, or everything agrees.     *)
Agreed(r, h, wish) ==
    /\ r.status # "blocked" /\ SameIdentity(r, h) /\ h.status # "blocked"
    /\ wish.version = r.manifest.version /\ wish.version \in SemVer
    /\ wish.package_name = r.candidate.package_id /\ wish.package_name \notin LongNames

(* A plan is blocked unless its inputs agree.                              *)
LEMMA BlockersAreSound ==
  ASSUME NoneIsNone, NEW r, NEW h, HardeningSound(h), NEW wish
  PROVE  LET bs == InputBlockers(r, h, wish)
         IN  /\ bs # <<>> => bs[1] # None
             /\ bs = <<>> => Agreed(r, h, wish)
  <1> DEFINE bs == InputBlockers(r, h, wish)
             hs == HardeningBlockers(h)
             Found(s) == s # <<>> /\ s[1] # None
  <1>1. \A code : Plain(code) # None  BY DEF Plain, NoneIsNone
  <1>2. \A x : x # None => Found(<<x>>)
    <2>1. \A x : <<x>>[1] = x /\ Len(<<x>>) = 1  OBVIOUS
    <2>2. QED  BY <2>1, EmptySeq
  <1>3. h.status = "blocked" => Found(hs) /\ hs \in Seq(Range(hs))  BY HardeningBlocks
  <1>4. ASSUME NEW code
        PROVE  Found(<<Plain(code)>> \o (IF h.status = "blocked" THEN hs ELSE <<>>))
    <2> DEFINE rest == IF h.status = "blocked" THEN hs ELSE <<>>
               S == Range(hs) \cup {Plain(code)}
               one == <<Plain(code)>>
    <2>1. one \in Seq(S) /\ Len(one) = 1 /\ one[1] = Plain(code)  OBVIOUS
    <2>2. rest \in Seq(S)
      <3>1. <<>> \in Seq(S)  BY EmptySeq
      <3>2. h.status = "blocked" => hs \in Seq(S)
        <4>1. Range(hs) \subseteq S  OBVIOUS
        <4>2. QED  BY <1>3, <4>1, SeqMonotonic
      <3>3. QED  BY <3>1, <3>2
    <2>3. rest \in Seq(S) /\ Len(rest) \in Nat  BY <2>2, LenProperties
    <2> HIDE DEF S, rest, one
    <2>4. Len(one \o rest) = 1 + Len(rest) /\ (one \o rest)[1] = one[1]
      <3>1. /\ Len(one \o rest) = Len(one) + Len(rest)
            /\ \A i \in 1 .. Len(one) + Len(rest) :
                   (one \o rest)[i] = IF i <= Len(one) THEN one[i] ELSE rest[i - Len(one)]
        BY <2>1, <2>3, ConcatProperties, Zenon
      <3>2. 1 \in 1 .. 1 + Len(rest)  BY <2>3
      <3>3. QED  BY <2>1, <2>3, <3>1, <3>2
    <2>5. one \o rest # <<>>  BY <2>3, <2>4, EmptySeq
    <2>6. QED  BY <1>1, <2>1, <2>4, <2>5 DEF rest, one
  <1>5. \A source, code, refs : RegistryBlocker(source, code, refs) # None
    BY DEF RegistryBlocker, NoneIsNone
  <1> HIDE DEF Found
  <1>6. Found(bs) \/ (bs = <<>> /\ Agreed(r, h, wish))
    BY <1>1, <1>2, <1>3, <1>4, <1>5 DEF InputBlockers, Agreed
  <1>7. QED  BY <1>6 DEF Found

(* A candidate is prepared from receipts that agree.                       *)
LEMMA PreparationsAreSound ==
  ASSUME NoneIsNone, NEW r, NEW h, HardeningSound(h), NEW wish
  PROVE  PreparedSound(Prepare(r, h, wish))
  <1> DEFINE bs == InputBlockers(r, h, wish)
  <1>1. /\ bs # <<>> => bs[1] # None
        /\ bs = <<>> => SameIdentity(r, h) /\ h.status # "blocked"
    BY BlockersAreSound DEF Agreed
  <1>2. PICK p : p = Prepare(r, h, wish)  OBVIOUS
  <1>3. CASE bs = <<>>
    <2>1. p = PreparedReceipt(r, h, wish)  BY <1>2, <1>3 DEF Prepare
    <2>2. /\ p.status = "prepared" /\ p.candidate = r.candidate /\ p.package_digest = r.package_digest
          /\ p.receipt_id[1] = "sha256"
      BY <2>1 DEF PreparedReceipt, Digest
    <2>3. HardeningOf(p.receipt_id) = h
      <3>1. p.receipt_id = Digest(<<r.candidate, wish, r.receipt_id, r.package_digest,
                                    Digest(r.manifest), Digest(h), RegistryWarnings(h)>>)
        BY <2>1 DEF PreparedReceipt
      <3>2. p.receipt_id[2][6] = Digest(h)  BY <3>1, Digests
      <3>3. QED  BY <3>2, Digests DEF HardeningOf
    <2>4. h.status = "pass" /\ h.build_status = "built"
      BY <1>1, <1>3 DEF HardeningSound
    <2>5. QED  BY <1>1, <1>2, <1>3, <2>2, <2>3, <2>4 DEF PreparedSound, SameIdentity
  <1>4. CASE bs # <<>>
    <2>1. p.status = "blocked" /\ p.blocker = bs[1] /\ p.receipt_id[1] = "sha256"
      BY <1>2, <1>4 DEF Prepare, BlockedPreparation, Digest
    <2>2. QED  BY <1>1, <1>2, <1>4, <2>1 DEF PreparedSound
  <1>5. QED  BY <1>3, <1>4

(* A planned entry is of the package whose hardening passed. *)
LEMMA PlansAreEarned ==
  ASSUME NoneIsNone, NEW r, PackageSound(r), NEW p, PreparedSound(p), NEW l, NEW target, NEW q,
         q = PlanRuntimeInstall(r, p, l, target), q # None, q.status = "planned"
  PROVE  Earned(q.entry)
  <1> DEFINE entry == PlannedEntry(r, p, target)
  <1>1. IdentityBlocker(r, p) = None /\ q.entry = entry
    <2>1. q.status = "planned"  OBVIOUS
    <2>2. CASE IdentityBlocker(r, p) # None
      <3>1. q.status = "blocked"  BY <2>2 DEF PlanRuntimeInstall, BlockedPlan, Identified
      <3>2. QED  BY <2>1, <3>1
    <2>3. CASE IdentityBlocker(r, p) = None
      BY <2>3 DEF PlanRuntimeInstall, PlannedTransition, Identified
    <2>4. QED  BY <2>2, <2>3
  <1>2. \A code : Plain(code) # None  BY DEF Plain, NoneIsNone
  <1>3. /\ p.status # "blocked" /\ r.status = "built" /\ r.candidate = p.candidate
        /\ r.package_digest = p.package_digest /\ r.manifest.version = p.version
    BY <1>1, <1>2 DEF IdentityBlocker, PreparedSound
  <1>4. /\ entry.preparation_id = p.receipt_id /\ entry.candidate = r.candidate
        /\ entry.package_digest = r.package_digest /\ entry.version = p.version
        /\ entry.files = RuntimeFiles(r.manifest)
    BY DEF PlannedEntry
  <1>5. LET h == HardeningOf(p.receipt_id)
        IN  /\ h.status = "pass" /\ h.build_status = "built"
            /\ h.candidate = r.candidate /\ h.package_digest = r.package_digest
    BY <1>3 DEF PreparedSound
  <1>6. /\ r.package_digest = Digest(r.manifest) /\ r.package_digest[2] = r.manifest
        /\ r.manifest = [candidate |-> r.candidate, version |-> p.version,
                         files |-> r.manifest.files, source |-> {<<"SKILL.md">>}, builder |-> Builder]
    BY <1>3, Digests DEF PackageSound
  <1> HIDE DEF entry
  <1>7. Earned(entry)  BY <1>4, <1>5, <1>6 DEF Earned
  <1>8. QED  BY <1>1, <1>7

LockInv ==
    /\ LockKept
    /\ package # None => PackageSound(package)
    /\ hardening # None => HardeningSound(hardening)
    /\ prepared # None => PreparedSound(prepared)
    /\ Planned => Earned(answer.entry)
    /\ \A e \in Range(lock) : Earned(e)

(* Every step keeps the entries of the lock earned.                        *)
LEMMA LockInvByStep ==
  ASSUME NoneIsNone, LockInv, [Next]_vars
  PROVE  LockInv'
  <1>1. LockKept'  BY LockKeptByStep DEF LockInv
  <1>2. CASE \E source \in Sources : Build(source)
    <2>1. PICK source : Build(source)  BY <1>2
    <2>2. PICK v : v = ValidateSkillPackage(source.tree, source.revision, source.policy)  OBVIOUS
    <2>3. PICK r : r = BuildSkillPackage(v)  OBVIOUS
    <2>4. package' = r /\ answer' = None /\ UNCHANGED <<hardening, prepared, lock>>
      BY <2>1, <2>2, <2>3 DEF Build
    <2>5. PackageSound(r)  BY <2>3, BuildsAreSound
    <2>6. QED  BY <1>1, <2>4, <2>5 DEF LockInv, Planned
  <1>3. CASE \E policy \in HardeningPolicies : Harden(policy)
    <2>1. PICK policy : Harden(policy)  BY <1>3
    <2>2. PICK h : h = HardenSkillPackage(package, policy)  OBVIOUS
    <2>3. hardening' = h /\ answer' = None /\ UNCHANGED <<package, prepared, lock>>
      BY <2>1, <2>2 DEF Harden
    <2>4. HardeningSound(h)  BY <2>2, HardeningsAreSound
    <2>5. QED  BY <1>1, <2>3, <2>4 DEF LockInv, Planned
  <1>4. CASE \E wish \in Requests(package) : PrepareCandidate(wish)
    <2>1. PICK wish : PrepareCandidate(wish)  BY <1>4
    <2>2. PICK p : p = Prepare(package, hardening, wish)  OBVIOUS
    <2>3. prepared' = p /\ answer' = None /\ hardening # None /\ UNCHANGED <<package, hardening, lock>>
      BY <2>1, <2>2 DEF PrepareCandidate
    <2>4. HardeningSound(hardening)  BY <2>3 DEF LockInv
    <2>5. PreparedSound(p)  BY <2>2, <2>4, PreparationsAreSound
    <2>6. QED  BY <1>1, <2>3, <2>5 DEF LockInv, Planned
  <1>5. CASE \E target \in Targets : PlanInstall(target)
    <2>1. PICK target : PlanInstall(target)  BY <1>5
    <2>2. PICK q : q = PlanRuntimeInstall(package, prepared, lock, target)  OBVIOUS
    <2>3. /\ package # None /\ prepared # None /\ UNCHANGED <<package, hardening, prepared, lock>>
          /\ answer' = IF q = None THEN [status |-> "raised"] ELSE q
      BY <2>1, <2>2 DEF PlanInstall
    <2>4. PackageSound(package) /\ PreparedSound(prepared)  BY <2>3 DEF LockInv
    <2>5. q # None /\ q.status = "planned" => Earned(q.entry)  BY <2>2, <2>4, PlansAreEarned
    <2>6. ASSUME Planned' PROVE Earned(answer.entry)'
      <3>1. answer'.status = "planned"  BY <2>6 DEF Planned
      <3>2. answer' = q /\ q # None  BY <2>3, <3>1
      <3>3. Earned(q.entry)  BY <2>5, <3>1, <3>2
      <3>4. QED  BY <3>2, <3>3 DEF Earned
    <2>7. QED  BY <1>1, <2>3, <2>6 DEF LockInv
  <1>6. CASE Adopt
    <2>1. PICK e : e = answer.entry  OBVIOUS
    <2>2. /\ Planned /\ lock' = ProposedLock(lock, e) /\ answer' = None
          /\ UNCHANGED <<package, hardening, prepared>>
      BY <1>6, <2>1 DEF Adopt
    <2>3. Range(ProposedLock(lock, e)) \subseteq Range(lock) \cup {e}
      BY Proposed DEF LockInv, LockKept
    <2>4. Earned(e) /\ \A d \in Range(lock) : Earned(d)  BY <2>1, <2>2 DEF LockInv
    <2>5. \A d \in Range(lock') : Earned(d)  BY <2>2, <2>3, <2>4
    <2>6. QED  BY <1>1, <2>2, <2>5 DEF LockInv, Planned
  <1>7. CASE \E archive \in Archives(package), policy \in ArchivePolicies : Verify(archive, policy)
    <2>1. answer'.status = "archive" /\ UNCHANGED <<package, hardening, prepared, lock>>
      BY <1>7 DEF Verify
    <2>2. QED  BY <1>1, <2>1 DEF LockInv, Planned
  <1>8. CASE UNCHANGED vars  BY <1>1, <1>8 DEF LockInv, Planned, vars
  <1>9. QED  BY <1>2, <1>3, <1>4, <1>5, <1>6, <1>7, <1>8 DEF Next

(* Whatever receipts were mixed on the way, an entry of the lock is one    *)
(* package of one revision that was built, passed hardening and was        *)
(* prepared under its own version, with its own files.                     *)
THEOREM LockIsEarned ==
  ASSUME NoneIsNone
  PROVE  Spec => []LockEarned
  <1>1. ASSUME Init PROVE LockInv
    <2>1. LockKept /\ Range(lock) = {}  BY <1>1, NoLock DEF Init, LockKept
    <2>2. QED  BY <1>1, <2>1 DEF Init, LockInv, Planned
  <1>2. LockInv /\ [Next]_vars => LockInv'  BY LockInvByStep
  <1>3. LockInv => LockEarned  BY DEF LockInv, LockEarned, Range
  <1>4. QED  BY <1>1, <1>2, <1>3, PTL DEF Spec

-----------------------------------------------------------------------------
(* The releasing host: every receipt keeps its contract.                   *)

(* A sequence that misses nothing. *)
Complete(s) == s \in Seq(Range(s)) /\ None \notin Range(s)

(* A sequence over things that are present,                                *)
LEMMA CompleteIn ==
  ASSUME NEW S, None \notin S, NEW s \in Seq(S)
  PROVE  Complete(s)
  <1>1. s \in Seq(Range(s))  BY LockIsSeq DEF IsLock
  <1>2. Range(s) \subseteq S
    <2>1. DOMAIN s = 1 .. Len(s) /\ \A i \in 1 .. Len(s) : s[i] \in S  BY LenProperties
    <2>2. QED  BY <2>1 DEF Range
  <1>3. QED  BY <1>1, <1>2 DEF Complete

(* the empty one,                                                          *)
LEMMA NothingComplete == Complete(<<>>)
  <1>1. <<>> \in Seq({}) /\ None \notin {}  BY EmptySeq
  <1>2. QED  BY <1>1, CompleteIn

(* one thing,                                                              *)
LEMMA OneComplete ==
  ASSUME NEW x, x # None
  PROVE  Complete(<<x>>) /\ <<x>> # <<>>
  <1>1. <<x>> \in Seq({x}) /\ Len(<<x>>) = 1  OBVIOUS
  <1>2. None \notin {x}  OBVIOUS
  <1>3. QED  BY <1>1, <1>2, CompleteIn, EmptySeq

(* and two sequences joined miss nothing.                                  *)
LEMMA JoinedComplete ==
  ASSUME NEW s, NEW t, Complete(s), Complete(t)
  PROVE  Complete(s \o t) /\ (s \o t = <<>> => s = <<>> /\ t = <<>>)
  <1> DEFINE S == Range(s) \cup Range(t)
  <1>1. s \in Seq(S) /\ t \in Seq(S) /\ None \notin S
    <2>1. Range(s) \subseteq S /\ Range(t) \subseteq S  OBVIOUS
    <2>2. QED  BY <2>1, SeqMonotonic DEF Complete
  <1> HIDE DEF S
  <1>2. s \o t \in Seq(S) /\ Len(s \o t) = Len(s) + Len(t)  BY <1>1, ConcatProperties
  <1>3. Complete(s \o t)  BY <1>1, <1>2, CompleteIn
  <1>4. ASSUME s \o t = <<>> PROVE s = <<>> /\ t = <<>>
    <2>1. Len(s) + Len(t) = 0  BY <1>2, <1>4
    <2>2. Len(s) \in Nat /\ Len(t) \in Nat  BY <1>1, LenProperties
    <2>3. Len(s) = 0 /\ Len(t) = 0  BY <2>1, <2>2
    <2>4. QED  BY <1>1, <2>3, EmptySeq
  <1>5. QED  BY <1>3, <1>4

(* Then its head is present: a blocked receipt has a first blocker.        *)
LEMMA CompleteFirst ==
  ASSUME NEW s, Complete(s), s # <<>>
  PROVE  s[1] # None
  <1>1. s \in Seq(Range(s))  BY DEF Complete
  <1>2. DOMAIN s = 1 .. Len(s) /\ Len(s) \in Nat /\ Len(s) # 0  BY <1>1, EmptySeq, LenProperties
  <1>3. s[1] \in Range(s)  BY <1>2 DEF Range
  <1>4. QED  BY <1>3 DEF Complete

(* A property of numbers that fails has a number at which it fails first.  *)
LEMMA FirstFailure ==
  ASSUME NEW T \in SUBSET Nat, T # {}
  PROVE  \E n \in T : \A m \in Nat : m < n => m \notin T
  <1> DEFINE R == OpToRel(<, Nat)
  <1>1. IsWellFoundedOn(R, Nat)  BY NatLessThanWellFounded
  <1>2. PICK n \in T : \A m \in T : <<m, n>> \notin R
    <2> HIDE DEF R
    <2>1. QED  BY <1>1, WFMin
  <1>3. ASSUME NEW m \in Nat, m < n, m \in T PROVE FALSE
    <2>1. <<m, n>> \notin {ss \in Nat \X Nat : ss[1] < ss[2]}  BY <1>2, <1>3 DEF OpToRel
    <2>2. <<m, n>> \in Nat \X Nat /\ <<m, n>>[1] = m /\ <<m, n>>[2] = n  OBVIOUS
    <2>3. QED  BY <1>3, <2>1, <2>2
  <1>4. QED  BY <1>3

(* What FlattenSeq recurs on: the sequences joined so far. *)
Joined(s, g, n) == g = [i \in 1 .. n |-> IF i = 1 THEN s[i] ELSE g[i - 1] \o s[i]]

(* The recursive function that flattens a sequence exists.                 *)
LEMMA JoinsExist ==
  ASSUME NEW s
  PROVE  \A n \in Nat : \E g : Joined(s, g, n)
  <1> DEFINE T == {n \in Nat : ~ \E g : Joined(s, g, n)}
  <1> SUFFICES ASSUME T # {} PROVE FALSE
    OBVIOUS
  <1>1. T \in SUBSET Nat  OBVIOUS
  <1>2. PICK n \in T : \A m \in Nat : m < n => m \notin T
    <2> HIDE DEF T
    <2>1. QED  BY <1>1, FirstFailure
  <1>3. n \in Nat /\ ~ \E g : Joined(s, g, n)  OBVIOUS
  <1>4. CASE n = 0
    <2> DEFINE g == [i \in 1 .. 0 |-> s]
    <2>1. 1 .. 0 = {}  OBVIOUS
    <2>2. g = [i \in 1 .. 0 |-> IF i = 1 THEN s[i] ELSE g[i - 1] \o s[i]]  BY <2>1
    <2>3. QED  BY <1>3, <1>4, <2>2 DEF Joined
  <1>5. CASE n # 0
    <2>1. n - 1 \in Nat /\ n - 1 < n  BY <1>3, <1>5
    <2>2. n - 1 \notin T  BY <1>2, <2>1
    <2>3. PICK h : Joined(s, h, n - 1)  BY <2>1, <2>2
    <2> DEFINE g == [i \in 1 .. n |-> IF i < n THEN h[i] ELSE IF i = 1 THEN s[i] ELSE h[i - 1] \o s[i]]
    <2>4. \A i \in 1 .. n - 1 : h[i] = IF i = 1 THEN s[i] ELSE h[i - 1] \o s[i]
      <3>1. h = [i \in 1 .. n - 1 |-> IF i = 1 THEN s[i] ELSE h[i - 1] \o s[i]]  BY <2>3 DEF Joined
      <3>2. QED  BY <3>1
    <2>5. \A i \in 1 .. n : i # 1 => g[i - 1] = h[i - 1]
      BY <1>3
    <2>6. \A i \in 1 .. n : g[i] = IF i = 1 THEN s[i] ELSE g[i - 1] \o s[i]
      <3> SUFFICES ASSUME NEW i \in 1 .. n PROVE g[i] = IF i = 1 THEN s[i] ELSE g[i - 1] \o s[i]
        OBVIOUS
      <3>1. i # 1 => g[i - 1] = h[i - 1]  BY <2>5
      <3>2. CASE i < n
        <4>1. g[i] = h[i]  BY <3>2
        <4>2. i \in 1 .. n - 1  BY <1>3, <3>2
        <4> HIDE DEF g
        <4>3. QED  BY <2>4, <3>1, <4>1, <4>2
      <3>3. CASE ~(i < n)
        <4>1. g[i] = IF i = 1 THEN s[i] ELSE h[i - 1] \o s[i]  BY <3>3
        <4> HIDE DEF g
        <4>2. QED  BY <3>1, <4>1
      <3>4. QED  BY <3>2, <3>3
    <2>7. DOMAIN g = 1 .. n /\ g = [i \in DOMAIN g |-> g[i]]  OBVIOUS
    <2> HIDE DEF g
    <2>8. g = [i \in 1 .. n |-> IF i = 1 THEN s[i] ELSE g[i - 1] \o s[i]]  BY <2>6, <2>7
    <2>9. QED  BY <1>3, <2>8 DEF Joined
  <1>6. QED  BY <1>4, <1>5

(* Sequences that miss nothing are flattened into one. *)
LEMMA FlattenedComplete ==
  ASSUME NEW n \in Nat, NEW s, s = [i \in 1 .. n |-> s[i]], \A i \in 1 .. n : Complete(s[i])
  PROVE  Complete(FlattenSeq(s))
  <1>1. s \in Seq(Range(s)) /\ Len(s) = n
    <2>1. s \in [1 .. n -> Range(s)]  BY DEF Range
    <2>2. s \in Seq(Range(s))  BY <2>1, SeqDef
    <2>3. QED  BY <2>1, <2>2, LenProperties
  <1>2. CASE n = 0
    <2>1. s = <<>>  BY <1>1, <1>2, EmptySeq
    <2>2. FlattenSeq(s) = s  BY <1>1, <1>2 DEF FlattenSeq
    <2>3. QED  BY <2>1, <2>2, NothingComplete
  <1>3. CASE n # 0
    <2> DEFINE g == CHOOSE f : f = [i \in 1 .. Len(s) |-> IF i = 1 THEN s[i] ELSE f[i - 1] \o s[i]]
    <2>1. FlattenSeq(s) = g[Len(s)]  BY <1>1, <1>3 DEF FlattenSeq
    <2>2. \E f : f = [i \in 1 .. Len(s) |-> IF i = 1 THEN s[i] ELSE f[i - 1] \o s[i]]
      BY <1>1, JoinsExist DEF Joined
    <2>3. g = [i \in 1 .. Len(s) |-> IF i = 1 THEN s[i] ELSE g[i - 1] \o s[i]]  BY <2>2
    <2> HIDE DEF g
    <2>4. \A i \in 1 .. n : g[i] = IF i = 1 THEN s[i] ELSE g[i - 1] \o s[i]
      BY <1>1, <2>3
    <2> DEFINE T == {i \in Nat : i \in 1 .. n /\ ~Complete(g[i])}
    <2>5. T = {}
      <3> SUFFICES ASSUME T # {} PROVE FALSE
        OBVIOUS
      <3>1. T \in SUBSET Nat  OBVIOUS
      <3>2. PICK i \in T : \A m \in Nat : m < i => m \notin T
        <4> HIDE DEF T
        <4>1. QED  BY <3>1, FirstFailure
      <3>3. i \in 1 .. n /\ ~Complete(g[i])  OBVIOUS
      <3>4. CASE i = 1  BY <2>4, <3>3, <3>4
      <3>5. CASE i # 1
        <4>1. i - 1 \in Nat /\ i - 1 \in 1 .. n /\ i - 1 < i  BY <3>3, <3>5
        <4>2. Complete(g[i - 1])  BY <3>2, <4>1
        <4>3. Complete(g[i - 1] \o s[i])  BY <3>3, <4>2, JoinedComplete
        <4>4. QED  BY <2>4, <3>3, <3>5, <4>3
      <3>6. QED  BY <3>4, <3>5
    <2>6. n \in 1 .. n  BY <1>3
    <2>7. QED  BY <1>1, <2>1, <2>5, <2>6
  <1>4. QED  BY <1>2, <1>3

(* The findings about one entry are all present,                           *)
LEMMA EntryFound ==
  ASSUME NoneIsNone, NEW e, NEW rules
  PROVE  Complete(EntryFindings(e, rules))
  <1>1. \A code, path : Complete(<<Finding(code, path)>>)  BY NoneIsNoRecord, OneComplete
  <1> DEFINE deep == IF TooDeep(e, rules) THEN <<Finding("reference_depth_exceeded", e.path)>> ELSE <<>>
             file == IF FileRefusal(e) # None THEN <<Finding(FileRefusal(e), e.path)>> ELSE <<>>
  <1>2. Complete(deep) /\ Complete(file)  BY <1>1, NothingComplete
  <1> HIDE DEF deep, file
  <1>3. Complete(deep \o file)  BY <1>2, JoinedComplete
  <1>4. QED  BY <1>1, <1>3, NothingComplete DEF EntryFindings, deep, file

(* What a validation takes from outside: a tree and a policy.              *)
Scanned(tree, rules) ==
    /\ tree.entries \in Seq(Range(tree.entries))
    /\ rules.required_files \in Seq(Range(rules.required_files))
    /\ \A i, j \in DOMAIN tree.entries : tree.entries[i].path = tree.entries[j].path => i = j

(* those about the entries of a tree,                                      *)
LEMMA ScanFound ==
  ASSUME NoneIsNone, NEW tree, NEW rules, Scanned(tree, rules)
  PROVE  Complete(ScanFindings(tree, rules)) /\ Complete(PolicyFindings(tree, rules))
  <1>1. \A code, path : Complete(<<Finding(code, path)>>)  BY NoneIsNoRecord, OneComplete
  <1>2. /\ Len(tree.entries) \in Nat /\ DOMAIN tree.entries = 1 .. Len(tree.entries)
        /\ Len(rules.required_files) \in Nat /\ DOMAIN rules.required_files = 1 .. Len(rules.required_files)
    BY LenProperties DEF Scanned
  <1> DEFINE n == Len(tree.entries)
             k == Len(rules.required_files)
             paths == {tree.entries[i].path : i \in Captured(tree)}
             scan == [i \in 1 .. n |-> IF Listed(tree, i) THEN EntryFindings(tree.entries[i], rules) ELSE <<>>]
             missed == [i \in 1 .. k |-> IF rules.required_files[i] \in paths THEN <<>>
                                         ELSE <<Finding("required_file_missing", rules.required_files[i])>>]
             texts == [i \in 1 .. n |->
                          IF /\ rules.check_reference_content
                             /\ i \in Captured(tree)
                             /\ tree.entries[i].path[1] = "references"
                             /\ tree.entries[i].text # None
                          THEN <<Finding(tree.entries[i].text, tree.entries[i].path)>> ELSE <<>>]
  <1>3. ScanFindings(tree, rules) = FlattenSeq(scan)  BY <1>2 DEF ScanFindings
  <1>4. PolicyFindings(tree, rules) = FlattenSeq(missed) \o FlattenSeq(texts)  BY <1>2 DEF PolicyFindings
  <1>5. /\ scan = [i \in 1 .. n |-> scan[i]] /\ missed = [i \in 1 .. k |-> missed[i]]
        /\ texts = [i \in 1 .. n |-> texts[i]]
    OBVIOUS
  <1>6. \A i \in 1 .. n : Complete(scan[i])  BY EntryFound, NothingComplete
  <1>7. \A i \in 1 .. k : Complete(missed[i])  BY <1>1, NothingComplete
  <1>8. \A i \in 1 .. n : Complete(texts[i])  BY <1>1, NothingComplete
  <1>9. n \in Nat /\ k \in Nat  BY <1>2
  <1> HIDE DEF n, k, scan, missed, texts
  <1>10. Complete(FlattenSeq(scan))  BY <1>5, <1>6, <1>9, FlattenedComplete
  <1>11. Complete(FlattenSeq(missed)) /\ Complete(FlattenSeq(texts))
    BY <1>5, <1>7, <1>8, <1>9, FlattenedComplete
  <1>12. QED  BY <1>3, <1>4, <1>10, <1>11, JoinedComplete

(* those about its identity: without one the entrypoint was captured,      *)
LEMMA IdentityFound ==
  ASSUME NoneIsNone, NEW tree, NEW rules
  PROVE  Complete(IdentityFindings(tree, rules)) /\ (IdentityFindings(tree, rules) = <<>> => SkillCaptured(tree))
  <1> DEFINE s == tree.skill
             f(code) == <<Finding(code, <<"SKILL.md">>)>>
             one   == IF s.name = None THEN f("missing_name")
                      ELSE IF s.name # tree.name THEN f("name_mismatch") ELSE <<>>
             two   == IF s.described THEN <<>> ELSE f("missing_description")
             three == IF s.unknown_keys THEN f("unknown_frontmatter") ELSE <<>>
             four  == IF rules.max_lines # None /\ s.lines > rules.max_lines
                      THEN f("entrypoint_line_budget_exceeded") ELSE <<>>
             five  == IF s.name = tree.name /\ s.described /\ ~tree.kebab THEN f("invalid_identity") ELSE <<>>
  <1>1. \A code : Complete(f(code)) /\ f(code) # <<>>  BY NoneIsNoRecord, OneComplete
  <1>2. IdentityFindings(tree, rules) =
          IF ~SkillCaptured(tree) THEN f("unreadable_skill_md")
          ELSE IF s.error # None THEN f(s.error)
          ELSE one \o two \o three \o four \o five
    BY DEF IdentityFindings
  <1> HIDE DEF f
  <1>3. Complete(one) /\ Complete(two) /\ Complete(three) /\ Complete(four) /\ Complete(five)
    BY <1>1, NothingComplete
  <1> HIDE DEF one, two, three, four, five
  <1>4. Complete(one \o two)  BY <1>3, JoinedComplete
  <1>5. Complete(one \o two \o three)  BY <1>3, <1>4, JoinedComplete
  <1>6. Complete(one \o two \o three \o four)  BY <1>3, <1>5, JoinedComplete
  <1>7. Complete(one \o two \o three \o four \o five)  BY <1>3, <1>6, JoinedComplete
  <1>8. QED  BY <1>1, <1>2, <1>7

(* and those about its root: without one there is something to scan.       *)
LEMMA RootFound ==
  ASSUME NoneIsNone, NEW tree
  PROVE  Complete(RootFindings(tree)) /\ (RootFindings(tree) = <<>> => Scannable(tree))
  <1> DEFINE one == IF tree.portable THEN <<>> ELSE <<Finding("invalid_package_root", <<>>)>>
             two == IF \E i \in DOMAIN tree.entries :
                           tree.entries[i].path = <<"SKILL.md">> /\ tree.entries[i].kind = "file"
                    THEN <<>> ELSE <<Finding("missing_skill_md", <<"SKILL.md">>)>>
  <1>1. \A code, path : Complete(<<Finding(code, path)>>) /\ <<Finding(code, path)>> # <<>>
    BY NoneIsNoRecord, OneComplete
  <1>2. Complete(one) /\ Complete(two)  BY <1>1, NothingComplete
  <1>3. RootFindings(tree) = IF tree.root # "directory" THEN <<Finding("invalid_package_root", <<>>)>> ELSE one \o two
    BY DEF RootFindings
  <1> HIDE DEF one, two
  <1>4. Complete(one \o two)  BY <1>2, JoinedComplete
  <1>5. RootFindings(tree) = <<>> => tree.root = "directory"  BY <1>1, <1>3
  <1>6. RootFindings(tree) = <<>> => \A i \in DOMAIN RootFindings(tree) : RootFindings(tree)[i].code # "missing_skill_md"
    OBVIOUS
  <1>7. QED  BY <1>1, <1>3, <1>4, <1>5, <1>6 DEF Scannable

(* Files that are listed once. *)
FilesOnce(files) == IsFiniteSet(files) /\ \A f, g \in files : f.path = g.path => f = g

(* A tree is captured with every path once.                                *)
LEMMA ScannedOnce ==
  ASSUME NEW tree, NEW rules, Scanned(tree, rules)
  PROVE  FilesOnce(ScannedFiles(tree)) /\ (SkillCaptured(tree) => ScannedFiles(tree) # {})
  <1> DEFINE file(i) == [path |-> tree.entries[i].path, sha256 |-> tree.entries[i].sha,
                         size |-> tree.entries[i].size, role |-> FileRole(tree.entries[i].path)]
             captured == Captured(tree)
             image    == [i \in captured |-> file(i)]
  <1>1. ScannedFiles(tree) = {file(i) : i \in captured}  BY DEF ScannedFiles
  <1>2. captured \subseteq 1 .. Len(tree.entries) /\ Len(tree.entries) \in Nat
        /\ captured \subseteq DOMAIN tree.entries
    BY LenProperties DEF Captured, Scanned
  <1>3. \A i \in captured : file(i).path = tree.entries[i].path  OBVIOUS
  <1>4. SkillCaptured(tree) => captured # {}  BY DEF SkillCaptured
  <1> HIDE DEF captured, file
  <1>5. IsFiniteSet(captured)
    <2>1. IsFiniteSet(1 .. Len(tree.entries))  BY <1>2, FS_Interval
    <2>2. QED  BY <1>2, <2>1, FS_Subset
  <1>6. image \in Surjection(captured, {file(i) : i \in captured})  BY DEF Surjection
  <1>7. IsFiniteSet({file(i) : i \in captured})  BY <1>5, <1>6, FS_Surjection DEF ExistsSurjection
  <1>8. \A i, j \in captured : file(i).path = file(j).path => file(i) = file(j)
    BY <1>2, <1>3 DEF Scanned
  <1>9. QED  BY <1>1, <1>4, <1>7, <1>8 DEF FilesOnce

(* What every validation shows: one that is blocked its first finding, and *)
(* one that passes the candidate and its files.                            *)
ValidationShown(v) ==
    /\ v.status \in {"pass", "blocked"}
    /\ v.status = "blocked" => v.findings[1] # None
    /\ v.status = "pass" =>
           v.candidate # None /\ v.files # {} /\ v.candidate.content_sha256 = ContentDigest(v.files)
    /\ FilesOnce(v.files)

(* A validation blocks on a finding, and passes with files and their digest. *)
LEMMA ValidationsShow ==
  ASSUME NoneIsNone, NEW tree, NEW rules, Scanned(tree, rules), NEW revision
  PROVE  ValidationShown(ValidateSkillPackage(tree, revision, rules))
  <1>1. FilesOnce({})  BY FS_EmptySet DEF FilesOnce
  <1>2. CASE ~rules.valid
    <2> DEFINE bad == <<Finding("invalid_validation_policy", <<>>)>>
    <2>1. PICK v : v = ValidateSkillPackage(tree, revision, rules)  OBVIOUS
    <2>2. v.status = "blocked" /\ v.files = {} /\ v.findings = bad
      BY <1>2, <2>1 DEF ValidateSkillPackage
    <2>3. bad[1] # None  BY NoneIsNoRecord
    <2> HIDE DEF bad
    <2>4. QED  BY <1>1, <2>1, <2>2, <2>3 DEF ValidationShown
  <1>3. CASE rules.valid
    <2> DEFINE scan  == Scannable(tree)
               files == IF scan THEN ScannedFiles(tree) ELSE {}
               one   == IF revision.valid THEN <<>> ELSE <<Finding("invalid_source_revision", <<>>)>>
               root  == RootFindings(tree)
               found == ScanFindings(tree, rules) \o PolicyFindings(tree, rules) \o IdentityFindings(tree, rules)
               rest  == IF scan THEN found ELSE <<>>
               all   == one \o root \o rest
    <2>1. PICK v : v = ValidateSkillPackage(tree, revision, rules)  OBVIOUS
    <2>2. /\ v.candidate = (IF revision.valid THEN Candidate(tree, revision, files) ELSE None)
          /\ v.status = (IF all = <<>> THEN "pass" ELSE "blocked") /\ v.files = files /\ v.findings = all
      BY <1>3, <2>1 DEF ValidateSkillPackage
    <2>3. Complete(one) /\ (one = <<>> => revision.valid)
      BY NoneIsNoRecord, OneComplete, NothingComplete
    <2>4. Complete(root) /\ (root = <<>> => scan)  BY RootFound
    <2>5. Complete(ScanFindings(tree, rules) \o PolicyFindings(tree, rules))
      BY ScanFound, JoinedComplete
    <2>6. Complete(IdentityFindings(tree, rules)) /\ (IdentityFindings(tree, rules) = <<>> => SkillCaptured(tree))
      BY IdentityFound
    <2>7. Complete(found) /\ (found = <<>> => SkillCaptured(tree))
      BY <2>5, <2>6, JoinedComplete
    <2>8. FilesOnce(files) /\ (scan /\ SkillCaptured(tree) => files # {})
      BY <1>1, ScannedOnce
    <2>9. \A c : Candidate(tree, revision, c) # None /\ Candidate(tree, revision, c).content_sha256 = ContentDigest(c)
      BY DEF Candidate, NoneIsNone
    <2> HIDE DEF found, one, root, scan, files
    <2>10. Complete(rest) /\ (rest = <<>> /\ scan => SkillCaptured(tree))  BY <2>7, NothingComplete
    <2> HIDE DEF rest
    <2>11. Complete(one \o root) /\ (one \o root = <<>> => one = <<>> /\ root = <<>>)
      BY <2>3, <2>4, JoinedComplete
    <2>12. Complete(all) /\ (all = <<>> => one \o root = <<>> /\ rest = <<>>)
      BY <2>10, <2>11, JoinedComplete
    <2> HIDE DEF all
    <2>13. v.status = "pass" => all = <<>>  BY <2>2
    <2>14. v.status = "pass" => revision.valid /\ files # {}
      BY <2>3, <2>4, <2>8, <2>10, <2>11, <2>12, <2>13
    <2>15. v.status = "blocked" => v.findings[1] # None
      <3>1. v.status = "blocked" => all # <<>>  BY <2>2
      <3>2. QED  BY <2>2, <2>12, <3>1, CompleteFirst
    <2>16. QED  BY <2>1, <2>2, <2>8, <2>9, <2>14, <2>15 DEF ValidationShown
  <1>4. QED  BY <1>2, <1>3

(* A build receipt keeps its contract. *)
PackageKept(r) ==
    /\ PackageReceiptValid(r) /\ r.status \in {"built", "blocked"}
    /\ r.manifest # None => FilesOnce(r.manifest.files) /\ r.status = "built"

(* A build of such a validation keeps its contract,                        *)
LEMMA BuildsAreKept ==
  ASSUME NoneIsNone, NEW v, ValidationShown(v)
  PROVE  PackageKept(BuildSkillPackage(v))
  <1> DEFINE m == [candidate |-> v.candidate, version |-> v.identity.version, files |-> v.files,
                   source |-> {<<"SKILL.md">>}, builder |-> Builder]
  <1>1. PICK r : r = BuildSkillPackage(v)  OBVIOUS
  <1>2. CASE v.status = "blocked"
    <2>1. /\ r.status = "blocked" /\ r.blocker = v.findings[1] /\ r.package_digest = None /\ r.manifest = None
          /\ r.included = {} /\ r.excluded = {}
      BY <1>1, <1>2 DEF BuildSkillPackage
    <2>2. BlockedShape(r)  BY <1>2, <2>1 DEF BlockedShape, ValidationShown
    <2>3. QED  BY <1>1, <2>1, <2>2 DEF PackageKept, PackageReceiptValid
  <1>3. CASE v.status # "blocked"
    <2>1. /\ r.status = "built" /\ r.blocker = None /\ r.package_digest = Digest(m) /\ r.manifest = m
          /\ r.candidate = v.candidate /\ r.included = BuildEvidence(v) /\ r.excluded = {}
      BY <1>1, <1>3 DEF BuildSkillPackage
    <2>2. m # None /\ Digest(m) # None  BY DEF Digest, NoneIsNone
    <2>3. m.files = v.files /\ m.candidate = v.candidate  OBVIOUS
    <2> HIDE DEF m
    <2>4. v.candidate # None /\ v.files # {} /\ v.candidate.content_sha256 = ContentDigest(v.files) /\ FilesOnce(v.files)
      BY <1>3 DEF ValidationShown
    <2>5. r.included = ManifestPaths(r.manifest) /\ r.included # {}
      BY <2>1, <2>2, <2>3, <2>4 DEF BuildEvidence, ManifestPaths
    <2>6. BuiltShape(r)  BY <2>1, <2>2, <2>4, <2>5 DEF BuiltShape
    <2>7. PackageReceiptValid(r)  BY <2>1, <2>3, <2>4, <2>6 DEF PackageReceiptValid
    <2>8. QED  BY <1>1, <2>1, <2>3, <2>4, <2>7 DEF PackageKept
  <1>4. QED  BY <1>2, <1>3

(* So does a hardening of it, whose count is of the paths it includes.     *)
LEMMA PathsCounted ==
  ASSUME NEW files, FilesOnce(files)
  PROVE  Cardinality(files) = Cardinality({f.path : f \in files})
  <1> DEFINE paths == {f.path : f \in files}
             image == [f \in files |-> f.path]
  <1>1. image \in Bijection(files, paths)
    <2>1. \A f, g \in files : image[f] = image[g] => f = g  BY DEF FilesOnce
    <2>2. image \in [files -> paths]  OBVIOUS
    <2>3. \A p \in paths : \E f \in files : image[f] = p  OBVIOUS
    <2> HIDE DEF image
    <2>4. QED  BY <2>1, <2>2, <2>3 DEF Bijection, Injection, Surjection, IsInjective
  <1>2. ExistsBijection(files, paths)  BY <1>1 DEF ExistsBijection
  <1>3. QED  BY <1>2, FS_Bijection DEF FilesOnce

(* and so does a hardening of a build, whose sums count each file once.    *)
LEMMA HardeningsAreKept ==
  ASSUME NEW r, PackageKept(r), NEW rules
  PROVE  HardeningValid(HardenSkillPackage(r, rules))
  <1>1. PICK files : files = (IF r.manifest = None THEN {} ELSE {f \in r.manifest.files : f.path \in r.included})
    OBVIOUS
  <1>2. PICK h : h = HardenSkillPackage(r, rules)  OBVIOUS
  <1>3. /\ h.candidate = r.candidate /\ h.build_status = r.status /\ h.package_digest = r.package_digest
        /\ h.included = r.included /\ h.file_count = Cardinality(files)
        /\ h.status = IF \E c \in DOMAIN h.checks : h.checks[c] = "blocker" THEN "blocked" ELSE "pass"
    BY <1>1, <1>2 DEF HardenSkillPackage
  <1>4. HardeningSound(h)  BY <1>2, HardeningsAreSound
  <1>5. Cardinality(files) = Cardinality(r.included)
    <2>1. CASE r.manifest = None
      BY <1>1, <2>1 DEF PackageKept, PackageReceiptValid, BuiltShape, BlockedShape
    <2>2. CASE r.manifest # None
      <3>1. r.included = {f.path : f \in r.manifest.files}
        BY <2>2 DEF PackageKept, PackageReceiptValid, BuiltShape, ManifestPaths
      <3>2. files = r.manifest.files  BY <1>1, <2>2, <3>1
      <3>3. QED  BY <2>2, <3>1, <3>2, PathsCounted DEF PackageKept
    <2>3. QED  BY <2>1, <2>2
  <1>6. h.status = "pass" => Checks(h, "blocker") = {}  BY <1>3 DEF Checks
  <1>7. r.status = "built" => r.candidate # None /\ r.package_digest # None
    BY DEF PackageKept, PackageReceiptValid, BuiltShape
  <1>8. r.status # "built" => r.package_digest = None
    BY DEF PackageKept, PackageReceiptValid, BlockedShape
  <1>9. QED  BY <1>2, <1>3, <1>4, <1>5, <1>6, <1>7, <1>8 DEF HardeningValid, HardeningSound

(* And the receipt of a preparation. *)
LEMMA PreparationsAreKept ==
  ASSUME NoneIsNone, NEW r, PackageKept(r), NEW h, HardeningSound(h), NEW wish, RequestValid(wish)
  PROVE  PreparationValid(Prepare(r, h, wish))
  <1> DEFINE bs == InputBlockers(r, h, wish)
  <1>1. /\ bs # <<>> => bs[1] # None
        /\ bs = <<>> => Agreed(r, h, wish)
    BY BlockersAreSound
  <1>2. PICK p : p = Prepare(r, h, wish)  OBVIOUS
  <1>3. p.package_name = wish.package_name /\ p.version = wish.version /\ p.evidence = wish.evidence
    BY <1>2 DEF Prepare, PreparedReceipt, BlockedPreparation
  <1>4. /\ RedactionSafe(p.package_name) /\ RedactionSafe(p.version)
        /\ p.evidence # {} /\ \A e \in p.evidence : RedactionSafePath(e)
    BY <1>3 DEF RequestValid
  <1>5. CASE bs = <<>>
    <2>1. p = PreparedReceipt(r, h, wish)  BY <1>2, <1>5 DEF Prepare
    <2>2. /\ p.status = "prepared" /\ p.candidate = r.candidate /\ p.package_digest = r.package_digest
          /\ p.manifest_digest = Digest(r.manifest) /\ p.hardening_sha256 = Digest(h)
          /\ p.blocker = None /\ p.blockers = <<>>
      BY <2>1 DEF PreparedReceipt
    <2>3. Agreed(r, h, wish)  BY <1>1, <1>5
    <2>4. r.candidate # None /\ r.package_digest # None /\ r.package_digest = Digest(r.manifest)
      BY <2>3 DEF Agreed, PackageKept, PackageReceiptValid, BuiltShape
    <2>5. Present(<<p.package_digest, p.manifest_digest, p.hardening_sha256>>)
      BY <2>2, <2>4, NoneIsNoRecord DEF Present
    <2>6. QED  BY <1>2, <1>3, <1>4, <2>2, <2>3, <2>4, <2>5 DEF PreparationValid, Agreed
  <1>6. CASE bs # <<>>
    <2>1. /\ p.status = "blocked" /\ p.blocker = bs[1] /\ p.blockers = bs
          /\ p.package_digest = None /\ p.manifest_digest = None /\ p.hardening_sha256 = None
      BY <1>2, <1>6 DEF Prepare, BlockedPreparation
    <2> HIDE DEF bs
    <2>2. Absent(<<p.package_digest, p.manifest_digest, p.hardening_sha256>>)
      BY <2>1 DEF Absent
    <2>3. QED  BY <1>1, <1>2, <1>4, <1>6, <2>1, <2>2 DEF PreparationValid
  <1>7. QED  BY <1>5, <1>6

(* A text that the lifecycle screens, in what is to be planned.            *)
TextScreened(r, p) ==
    \/ ~PublicSafe(p.version) \/ ~PublicSafe(p.package_name)
    \/ r.candidate # None /\ ~PublicSafe(r.candidate.package_id)
    \/ r.manifest # None /\ \E f \in r.manifest.files : ~PublicPath(f.path)
    \/ r.manifest # None /\ ~PublicSafe(r.manifest.version)
    \/ ~PublicId(r.receipt_id) \/ ~PublicId(p.input_receipt_id)

(* The planner's own codes and operations are texts that are shown.        *)
PlanCodes == {"installation_input_receipt_mismatch", "installation_registry_blocker_not_portable",
              "installation_identity_mismatch", "installation_version_mismatch"}
PlannerWords == (\A c \in PlanCodes : PublicSafe(c)) /\ None \notin {"install", "update", "no_change"}

(* An identity leaves itself out: identified again, a plan is the same.    *)
LEMMA IdentifiedOnce ==
  ASSUME NEW x, x = [k \in DOMAIN x |-> x[k]], x.plan_id = None
  PROVE  Identified(Identified(x)) = Identified(x)
  <1> DEFINE d == Digest([x EXCEPT !.plan_id = None])
             q == Identified(x)
  <1>1. q = [x EXCEPT !.plan_id = d]  BY DEF Identified
  <1>2. [q EXCEPT !.plan_id = None] = [x EXCEPT !.plan_id = None]
    <2> HIDE DEF d, q
    <2>1. QED  BY <1>1
  <1>3. Identified(q) = [q EXCEPT !.plan_id = d]  BY <1>2 DEF Identified
  <1> HIDE DEF d, q
  <1>4. [q EXCEPT !.plan_id = d] = q  BY <1>1
  <1>5. QED  BY <1>3, <1>4 DEF q

(* A blocked plan keeps its contract unless a text is screened.            *)
LEMMA BlockedPlansKept ==
  ASSUME NoneIsNone, PlannerWords, NEW r, PackageKept(r), NEW p, PreparedSound(p), NEW l, NEW target,
         ~TextScreened(r, p), IdentityBlocker(r, p) # None
  PROVE  InstallPlanValid(BlockedPlan(r, p, l, target, IdentityBlocker(r, p)))
  <1> DEFINE b == IdentityBlocker(r, p)
             raw ==
    [plan_id |-> None, status |-> "blocked", operation |-> None, candidate |-> r.candidate,
     package_name |-> IF r.candidate # None THEN r.candidate.package_id ELSE p.package_name,
     version |-> IF r.manifest # None THEN r.manifest.version ELSE p.version,
     package_digest |-> IF r.status = "built" THEN r.package_digest ELSE None,
     package_receipt_id |-> r.receipt_id, target |-> target, registry |-> p.registry,
     preparation_id |-> p.receipt_id, registry_input |-> p.input_receipt_id,
     current |-> Digest(l), rollback |-> Digest(l), proposed |-> None, entry |-> None,
     blocker |-> b]
             offer == BlockedPlan(r, p, l, target, b)
  <1>1. offer = Identified(raw)  BY DEF BlockedPlan
  <1>2. Identified(offer) = offer
    <2>1. raw = [k \in DOMAIN raw |-> raw[k]] /\ raw.plan_id = None  OBVIOUS
    <2> HIDE DEF raw, offer
    <2>2. QED  BY <1>1, <2>1, IdentifiedOnce
  <1> HIDE DEF b
  <1>3. /\ offer.status = "blocked" /\ offer.operation = None /\ offer.proposed = None /\ offer.entry = None
        /\ offer.candidate = r.candidate /\ offer.blocker = b /\ offer.rollback = offer.current
        /\ offer.package_name = IF r.candidate # None THEN r.candidate.package_id ELSE p.package_name
        /\ offer.version = IF r.manifest # None THEN r.manifest.version ELSE p.version
        /\ offer.package_receipt_id = r.receipt_id /\ offer.preparation_id = p.receipt_id
        /\ offer.registry_input = p.input_receipt_id
    BY <1>1 DEF Identified
  <1> HIDE DEF offer, raw
  <1>4. PublicSafe(offer.package_name) /\ PublicSafe(offer.version)  BY <1>3 DEF TextScreened
  <1>a. PublicId(offer.package_receipt_id) /\ PublicId(offer.preparation_id) /\ PublicId(offer.registry_input)
    <2>1. PublicId(p.receipt_id)  BY DEF PreparedSound, PublicId
    <2>2. QED  BY <1>3, <2>1 DEF TextScreened
  <1>5. PublicSafe(b.code) /\ \A x \in b.refs : PublicPath(x)
    <2>1. \A c \in PlanCodes : PublicSafe(Plain(c).code) /\ Plain(c).refs = {}
      BY DEF PlannerWords, Plain
    <2>2. /\ "installation_input_receipt_mismatch" \in PlanCodes
          /\ "installation_registry_blocker_not_portable" \in PlanCodes
          /\ "installation_identity_mismatch" \in PlanCodes /\ "installation_version_mismatch" \in PlanCodes
      BY DEF PlanCodes
    <2>3. \/ \E c \in PlanCodes : b = Plain(c)
          \/ PublicSafe(b.code) /\ \A x \in b.refs : PublicPath(x)
      BY <2>2 DEF IdentityBlocker, b
    <2>4. QED  BY <2>1, <2>3
  <1>6. Absent(<<offer.operation, offer.proposed, offer.entry>>)  BY <1>3 DEF Absent
  <1>7. b # None  BY DEF b
  <1>8. BlockedPlanShape(offer)  BY <1>3, <1>5, <1>6, <1>7 DEF BlockedPlanShape
  <1>9. InstallPlanValid(offer)  BY <1>2, <1>3, <1>4, <1>a, <1>8 DEF InstallPlanValid
  <1>10. QED  BY <1>9 DEF offer, b

(* What a plan proposes is the lock that it found exactly when it changes  *)
(* nothing.                                                                *)
LEMMA NoChangeIs ==
  ASSUME NEW l, IsLock(l), OneEntryEach(l), NEW entry
  PROVE  Operation(l, entry) = "no_change" <=> Digest(l) = Digest(ProposedLock(l, entry))
  <1>1. Len(l) \in Nat /\ DOMAIN l = 1 .. Len(l) /\ l = [i \in 1 .. Len(l) |-> l[i]]  BY LockDomain
  <1> DEFINE replaced == [i \in DOMAIN l |-> IF EntryKey(l[i]) = EntryKey(entry) THEN entry ELSE l[i]]
             matching == {i \in DOMAIN l : EntryKey(l[i]) = EntryKey(entry)}
  <1>2. CASE matching = {}
    <2>1. ~ \E i \in DOMAIN l : EntryKey(l[i]) = EntryKey(entry)  BY <1>2
    <2>2. Operation(l, entry) = "install" /\ Len(ProposedLock(l, entry)) = Len(l) + 1  BY <2>1, Installed
    <2>3. ProposedLock(l, entry) # l  BY <1>1, <2>2
    <2>4. QED  BY <2>2, <2>3, Digests
  <1>3. CASE matching # {}
    <2>1. PICK i \in DOMAIN l : EntryKey(l[i]) = EntryKey(entry)  BY <1>3
    <2>2. matching = {i}  BY <2>1 DEF OneEntryEach
    <2>3. Operation(l, entry) = IF l[i] = entry THEN "no_change" ELSE "update"
      BY <2>2 DEF Operation
    <2>4. ProposedLock(l, entry) = replaced  BY <2>3 DEF ProposedLock
    <2>5. replaced[i] = entry  BY <2>1
    <2>6. l[i] = entry => replaced = l
      <3> SUFFICES ASSUME l[i] = entry PROVE replaced = l
        OBVIOUS
      <3>1. \A j \in DOMAIN l : EntryKey(l[j]) = EntryKey(entry) => j = i  BY <2>2
      <3>2. \A j \in DOMAIN l : replaced[j] = l[j]  BY <3>1
      <3>3. replaced = [j \in DOMAIN l |-> l[j]]  BY <3>1
      <3>4. QED  BY <1>1, <3>3
    <2> HIDE DEF replaced
    <2>7. QED  BY <2>3, <2>4, <2>5, <2>6, Digests
  <1>4. QED  BY <1>2, <1>3

(* The files of an entry have the digest of the files of its package.      *)
LEMMA RuntimeDigest ==
  ASSUME NEW m
  PROVE  /\ ContentDigest(RuntimeFiles(m)) = ContentDigest(m.files)
         /\ m.files # {} => RuntimeFiles(m) # {}
         /\ (\A f \in m.files : PublicPath(f.path)) => \A f \in RuntimeFiles(m) : PublicPath(f.path)
  <1> DEFINE row(f) == [path |-> f.path, sha256 |-> f.sha256]
  <1>1. RuntimeFiles(m) = {row(f) : f \in m.files}  BY DEF RuntimeFiles
  <1>2. \A f : row(f).path = f.path /\ row(f).sha256 = f.sha256  OBVIOUS
  <1> HIDE DEF row
  <1>3. {<<f.path, f.sha256>> : f \in RuntimeFiles(m)} = {<<f.path, f.sha256>> : f \in m.files}
    BY <1>1, <1>2
  <1>4. QED  BY <1>1, <1>2, <1>3 DEF ContentDigest

(* A planned transition keeps its contract unless a text is screened.      *)
LEMMA PlannedPlansKept ==
  ASSUME NoneIsNone, PlannerWords, NEW r, PackageKept(r), NEW p, PreparedSound(p), PreparationValid(p),
         NEW l, IsLock(l), OneEntryEach(l), NEW target, ~TextScreened(r, p), IdentityBlocker(r, p) = None
  PROVE  InstallPlanValid(PlannedTransition(r, p, l, target))
  <1> DEFINE entry == PlannedEntry(r, p, target)
             raw ==
    [plan_id |-> None, status |-> "planned", operation |-> Operation(l, entry),
     candidate |-> r.candidate, package_name |-> p.package_name,
     version |-> p.version, package_digest |-> r.package_digest,
     package_receipt_id |-> r.receipt_id, target |-> target, registry |-> p.registry,
     preparation_id |-> p.receipt_id, registry_input |-> p.input_receipt_id,
     current |-> Digest(l), rollback |-> Digest(l),
     proposed |-> Digest(ProposedLock(l, entry)), entry |-> entry, blocker |-> None]
             offer == PlannedTransition(r, p, l, target)
  <1>1. \A code : Plain(code) # None  BY DEF Plain, NoneIsNone
  <1>2. /\ p.input_receipt_id = r.receipt_id /\ p.status # "blocked" /\ r.status = "built"
        /\ r.candidate = p.candidate /\ r.package_digest = p.package_digest /\ r.manifest.version = p.version
    BY <1>1 DEF IdentityBlocker, PreparedSound
  <1>3. /\ entry.candidate = r.candidate /\ entry.target = target /\ entry.package_digest = r.package_digest
        /\ entry.package_name = p.package_name /\ entry.version = p.version
        /\ entry.package_receipt_id = r.receipt_id /\ entry.preparation_id = p.receipt_id
        /\ entry.registry = p.registry /\ entry.files = RuntimeFiles(r.manifest) /\ entry # None
    BY DEF PlannedEntry, NoneIsNone
  <1>4. offer = Identified(raw)  BY DEF PlannedTransition
  <1>5. Identified(offer) = offer
    <2>1. raw = [k \in DOMAIN raw |-> raw[k]] /\ raw.plan_id = None  OBVIOUS
    <2> HIDE DEF raw, offer
    <2>2. QED  BY <1>4, <2>1, IdentifiedOnce
  <1> HIDE DEF entry
  <1>6. /\ offer.status = "planned" /\ offer.operation = Operation(l, entry) /\ offer.candidate = r.candidate
        /\ offer.package_name = p.package_name /\ offer.version = p.version
        /\ offer.package_digest = r.package_digest /\ offer.package_receipt_id = r.receipt_id
        /\ offer.target = target /\ offer.registry = p.registry /\ offer.preparation_id = p.receipt_id
        /\ offer.registry_input = p.input_receipt_id /\ offer.current = Digest(l) /\ offer.rollback = Digest(l)
        /\ offer.proposed = Digest(ProposedLock(l, entry)) /\ offer.entry = entry /\ offer.blocker = None
    BY <1>4 DEF Identified
  <1> HIDE DEF offer, raw
  <1>7. /\ r.candidate # None /\ r.package_digest # None /\ r.manifest # None
        /\ r.candidate.content_sha256 = ContentDigest(r.manifest.files) /\ r.manifest.files # {}
    BY <1>2 DEF PackageKept, PackageReceiptValid, BuiltShape, ManifestPaths
  <1>8. p.package_name = r.candidate.package_id
    BY <1>2 DEF PreparationValid, PreparedSound
  <1>9. PublicSafe(p.package_name) /\ PublicSafe(p.version) /\ \A f \in r.manifest.files : PublicPath(f.path)
    BY <1>7 DEF TextScreened
  <1>a. PublicId(r.receipt_id) /\ PublicId(p.receipt_id) /\ PublicId(p.input_receipt_id)
    BY DEF TextScreened, PreparedSound, PublicId
  <1>10. LockEntryValid(entry)
    BY <1>3, <1>7, <1>8, <1>9, <1>a, RuntimeDigest DEF LockEntryValid
  <1>11. Operation(l, entry) # None
    BY DEF Operation, PlannerWords
  <1>12. offer.proposed # None  BY <1>6, NoneIsNoRecord
  <1>13. Present(<<offer.candidate, offer.package_digest, offer.operation, offer.proposed, offer.entry>>)
    BY <1>3, <1>6, <1>7, <1>11, <1>12 DEF Present
  <1>14. offer.operation = "no_change" <=> offer.current = offer.proposed
    BY <1>6, NoChangeIs
  <1>15. PlannedShape(offer)
    BY <1>2, <1>3, <1>6, <1>8, <1>10, <1>13, <1>14 DEF PlannedShape
  <1>16. InstallPlanValid(offer)  BY <1>5, <1>6, <1>9, <1>a, <1>15 DEF InstallPlanValid
  <1>17. QED  BY <1>16 DEF offer

(* So planning answers, unless a text is screened, and what it plans is a  *)
(* lawful entry.                                                           *)
LEMMA PlansAnswer ==
  ASSUME NoneIsNone, PlannerWords, NEW r, PackageKept(r), NEW p, PreparedSound(p), PreparationValid(p),
         NEW l, IsLock(l), OneEntryEach(l), NEW target
  PROVE  LET q == PlanRuntimeInstall(r, p, l, target)
         IN  /\ q = None => TextScreened(r, p)
             /\ q # None => q.status # "raised"
             /\ q # None /\ q.status = "planned" => LockEntryValid(q.entry)
  <1> DEFINE b == IdentityBlocker(r, p)
             offer == IF b # None THEN BlockedPlan(r, p, l, target, b) ELSE PlannedTransition(r, p, l, target)
             q == PlanRuntimeInstall(r, p, l, target)
  <1>1. q = IF InstallPlanValid(offer) THEN offer ELSE None  BY DEF PlanRuntimeInstall
  <1>2. ~TextScreened(r, p) => InstallPlanValid(offer)  BY BlockedPlansKept, PlannedPlansKept
  <1>3. offer.status \in {"blocked", "planned"}
    <2>1. BlockedPlan(r, p, l, target, b).status = "blocked"  BY DEF BlockedPlan, Identified
    <2>2. PlannedTransition(r, p, l, target).status = "planned"  BY DEF PlannedTransition, Identified
    <2>3. QED  BY <2>1, <2>2
  <1>4. offer # None
    BY DEF BlockedPlan, PlannedTransition, Identified, NoneIsNone
  <1> HIDE DEF offer, q
  <1>5. q # None => q = offer /\ InstallPlanValid(offer)  BY <1>1
  <1>6. InstallPlanValid(offer) /\ offer.status = "planned" => LockEntryValid(offer.entry)
    BY DEF InstallPlanValid, PlannedShape
  <1>7. QED  BY <1>1, <1>2, <1>3, <1>4, <1>5, <1>6 DEF q

-----------------------------------------------------------------------------
(* What the host holds keeps its contract. *)
ReceiptsInv ==
    /\ LockInv
    /\ package # None => PackageKept(package)
    /\ hardening # None => HardeningValid(hardening)
    /\ prepared # None => PreparationValid(prepared)
    /\ Planned => LockEntryValid(answer.entry)
    /\ \A e \in Range(lock) : LockEntryValid(e)
    /\ PlanningAnswers

(* Every step keeps the contracts of what the host holds.                  *)
LEMMA ReceiptsInvByStep ==
  ASSUME NoneIsNone, PlannerWords, ReceiptsInv, [Next]_vars
  PROVE  ReceiptsInv'
  <1>1. LockInv'  BY LockInvByStep DEF ReceiptsInv
  <1>2. CASE \E source \in Sources : Build(source)
    <2>1. PICK source \in Sources : Build(source)  BY <1>2
    <2>2. PICK v : v = ValidateSkillPackage(source.tree, source.revision, source.policy)  OBVIOUS
    <2>3. PICK r : r = BuildSkillPackage(v)  OBVIOUS
    <2>4. package' = r /\ answer' = None /\ UNCHANGED <<hardening, prepared, lock>>
      BY <2>1, <2>2, <2>3 DEF Build
    <2>5. Scanned(source.tree, source.policy)  BY ReleaseAssumption DEF Scanned
    <2>6. PackageKept(r)  BY <2>2, <2>3, <2>5, ValidationsShow, BuildsAreKept
    <2>7. QED  BY <1>1, <2>4, <2>6 DEF ReceiptsInv, Planned, PlanningAnswers
  <1>3. CASE \E policy \in HardeningPolicies : Harden(policy)
    <2>1. PICK policy : Harden(policy)  BY <1>3
    <2>2. PICK h : h = HardenSkillPackage(package, policy)  OBVIOUS
    <2>3. hardening' = h /\ answer' = None /\ package # None /\ UNCHANGED <<package, prepared, lock>>
      BY <2>1, <2>2 DEF Harden
    <2>4. HardeningValid(h)  BY <2>2, <2>3, HardeningsAreKept DEF ReceiptsInv
    <2>5. QED  BY <1>1, <2>3, <2>4 DEF ReceiptsInv, Planned, PlanningAnswers
  <1>4. CASE \E wish \in Requests(package) : PrepareCandidate(wish)
    <2>1. PICK wish : PrepareCandidate(wish)  BY <1>4
    <2>2. PICK p : p = Prepare(package, hardening, wish)  OBVIOUS
    <2>3. /\ prepared' = p /\ answer' = None /\ package # None /\ hardening # None /\ RequestValid(wish)
          /\ UNCHANGED <<package, hardening, lock>>
      BY <2>1, <2>2 DEF PrepareCandidate
    <2>4. HardeningSound(hardening) /\ PackageKept(package)  BY <2>3 DEF ReceiptsInv, LockInv
    <2>5. PreparationValid(p)  BY <2>2, <2>3, <2>4, PreparationsAreKept
    <2>6. QED  BY <1>1, <2>3, <2>5 DEF ReceiptsInv, Planned, PlanningAnswers
  <1>5. CASE \E target \in Targets : PlanInstall(target)
    <2>1. PICK target : PlanInstall(target)  BY <1>5
    <2>2. PICK q : q = PlanRuntimeInstall(package, prepared, lock, target)  OBVIOUS
    <2>3. /\ package # None /\ prepared # None /\ UNCHANGED <<package, hardening, prepared, lock>>
          /\ answer' = IF q = None THEN [status |-> "raised"] ELSE q
      BY <2>1, <2>2 DEF PlanInstall
    <2>4. /\ PackageKept(package) /\ PreparedSound(prepared) /\ PreparationValid(prepared)
          /\ IsLock(lock) /\ OneEntryEach(lock)
      BY <2>3 DEF ReceiptsInv, LockInv, LockKept
    <2>5. /\ q = None => TextScreened(package, prepared)
          /\ q # None => q.status # "raised"
          /\ q # None /\ q.status = "planned" => LockEntryValid(q.entry)
      BY <2>2, <2>4, PlansAnswer
    <2>6. PlanningAnswers'
      <3>1. (answer'.status = "raised" /\ answer' # None) => TextScreened(package, prepared)
        BY <2>3, <2>5
      <3>2. TextScreened(package, prepared) =>
              (\/ ~PublicSafe(prepared.version) \/ ~PublicSafe(prepared.package_name)
               \/ package.candidate # None /\ ~PublicSafe(package.candidate.package_id)
               \/ package.manifest # None /\ \E f \in package.manifest.files : ~PublicPath(f.path)
               \/ package.manifest # None /\ ~PublicSafe(package.manifest.version)
               \/ ~PublicId(package.receipt_id) \/ ~PublicId(prepared.input_receipt_id))'
        BY <2>3 DEF TextScreened, PublicSafe, PublicPath, PublicId, RedactionSafe
      <3>3. QED  BY <3>1, <3>2 DEF PlanningAnswers
    <2>7. ASSUME Planned' PROVE LockEntryValid(answer.entry)'
      <3>1. answer'.status = "planned"  BY <2>7 DEF Planned
      <3>2. answer' = q /\ q # None  BY <2>3, <3>1
      <3>3. LockEntryValid(q.entry)  BY <2>5, <3>1, <3>2
      <3>4. QED  BY <3>2, <3>3
    <2>8. QED  BY <1>1, <2>3, <2>6, <2>7 DEF ReceiptsInv
  <1>6. CASE Adopt
    <2>1. PICK e : e = answer.entry  OBVIOUS
    <2>2. /\ Planned /\ lock' = ProposedLock(lock, e) /\ answer' = None
          /\ UNCHANGED <<package, hardening, prepared>>
      BY <1>6, <2>1 DEF Adopt
    <2>3. Range(ProposedLock(lock, e)) \subseteq Range(lock) \cup {e}
      BY Proposed DEF ReceiptsInv, LockInv, LockKept
    <2>4. LockEntryValid(e) /\ \A d \in Range(lock) : LockEntryValid(d)  BY <2>1, <2>2 DEF ReceiptsInv
    <2>5. \A d \in Range(lock') : LockEntryValid(d)  BY <2>2, <2>3, <2>4
    <2>6. QED  BY <1>1, <2>2, <2>5 DEF ReceiptsInv, Planned, PlanningAnswers
  <1>7. CASE \E archive \in Archives(package), policy \in ArchivePolicies : Verify(archive, policy)
    <2>1. answer'.status = "archive" /\ UNCHANGED <<package, hardening, prepared, lock>>
      BY <1>7 DEF Verify
    <2>2. QED  BY <1>1, <2>1 DEF ReceiptsInv, Planned, PlanningAnswers
  <1>8. CASE UNCHANGED vars
    <2>1. PlanningAnswers'
      BY <1>8 DEF vars, ReceiptsInv, PlanningAnswers, PublicSafe, PublicPath, PublicId, RedactionSafe
    <2>2. QED  BY <1>1, <1>8, <2>1 DEF ReceiptsInv, Planned, vars
  <1>9. QED  BY <1>2, <1>3, <1>4, <1>5, <1>6, <1>7, <1>8 DEF Next

(* At first it holds nothing.                                              *)
LEMMA ReceiptsInitially == Init => ReceiptsInv
  <1> SUFFICES ASSUME Init PROVE ReceiptsInv
    OBVIOUS
  <1>1. LockKept /\ Range(lock) = {}  BY NoLock DEF Init, LockKept
  <1>2. QED  BY <1>1 DEF Init, LockInv, ReceiptsInv, Planned, PlanningAnswers

(* So it holds lawful receipts always,                                     *)
LEMMA ReceiptsInvariance == ASSUME NoneIsNone, PlannerWords PROVE Spec => []ReceiptsInv
  <1>1. Init => ReceiptsInv  BY ReceiptsInitially
  <1>2. ReceiptsInv /\ [Next]_vars => ReceiptsInv'  BY ReceiptsInvByStep
  <1>3. QED  BY <1>1, <1>2, PTL DEF Spec

(* and a lawful lock.                                                      *)
LEMMA LockValidHere ==
  ASSUME ReceiptsInv
  PROVE  LockValid(lock)
  <1>1. \A e \in Range(lock) : LockEntryValid(e)  BY DEF ReceiptsInv
  <1>2. OneEntryEach(lock)  BY DEF ReceiptsInv, LockInv, LockKept
  <1>3. QED  BY <1>1, <1>2 DEF LockValid, OneEntryEach, Range

(* The invariant is more than the property asks.                           *)
LEMMA ReceiptsShow == ReceiptsInv => ReceiptsValid
  BY LockValidHere DEF ReceiptsInv, ReceiptsValid, PackageKept

(* Every receipt that the SDK hands out keeps its own contract, and so     *)
(* does the lock, whatever receipts the host mixes: so the step that       *)
(* validates its inputs again never refuses one.                           *)
THEOREM ReceiptsKeepContracts ==
  ASSUME NoneIsNone, PlannerWords
  PROVE  Spec => []ReceiptsValid
  <1>1. QED  BY ReceiptsShow, ReceiptsInvariance, PTL

(* Planning answers every lawful input: a plan that its own contract would *)
(* refuse, so that the call raises, has a text in it that the lifecycle    *)
(* screens and the registry does not.                                      *)
THEOREM PlanningAlwaysAnswers ==
  ASSUME NoneIsNone, PlannerWords
  PROVE  Spec => []PlanningAnswers
  <1>1. ReceiptsInv => PlanningAnswers  BY DEF ReceiptsInv
  <1>2. QED  BY <1>1, ReceiptsInvariance, PTL
=============================================================================
