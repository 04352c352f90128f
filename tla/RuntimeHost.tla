----------------------------- MODULE RuntimeHost -----------------------------
(***************************************************************************)
(* The host adapter that carries out install plans and supplies the        *)
(* runtime observations.  The adapter is external: it tells the truth      *)
(* about the locks it saw, but it may start from a stale plan, stop half   *)
(* way, report late, and label an observation with whatever plan it        *)
(* holds by then.  An observation enters the record only if its contract   *)
(* holds and it binds to the one before it.                                *)
(***************************************************************************)
EXTENDS RuntimeEvidence

CONSTANTS
    Releases,     \* [package, prepared]: receipts the host may plan with
    HostTargets,  \* where it may install
    MaxInstalls   \* bound: installations begun

ASSUME HostAssumption == MaxInstalls \in Nat

VARIABLES
    hostLock,     \* the runtime lock in force
    plan,         \* the plan held, or None
    job,          \* the installation under way: its plan, or None
    result,       \* the last installation result of the record, or None
    undo,         \* the last rollback journal or outcome of the record, or None
    observed,     \* the last discovery, activation or outcome of the record, or None
    installs,     \* how many begun
    seen          \* what each installation met and left: [id -> [before, after]]

hostVars == <<hostLock, plan, job, result, undo, observed, installs, seen>>

HostInit ==
    /\ hostLock = <<>> /\ plan = None /\ job = None
    /\ result = None /\ undo = None /\ observed = None
    /\ installs = 0 /\ seen = [i \in 1..MaxInstalls |-> None]

Holds(record, kind) == record # None /\ record.kind = kind

MakePlan(release, target) ==
    /\ plan' = PlanRuntimeInstall(release.package, release.prepared, hostLock, target)
    /\ plan' # None /\ plan'.status = "planned"
    /\ UNCHANGED <<hostLock, job, result, undo, observed, installs, seen>>

BeginInstall ==
    /\ job = None /\ plan # None /\ installs < MaxInstalls
    /\ job' = plan
    /\ installs' = installs + 1
    /\ UNCHANGED <<hostLock, plan, result, undo, observed, seen>>

(* The observation of the job, under the label of a plan the host holds.   *)
Observed(label, status, resulting, mutated, blocker, race) ==
    [id |-> installs, bound |-> Bound(label), operation |-> job.operation,
     current |-> job.current, proposed |-> job.proposed, resulting |-> resulting,
     status |-> status, mutated |-> mutated, blocker |-> blocker, race |-> race]

(* The record takes an installation result that binds the plan it names. *)
Record(r, label) ==
    /\ result' = IF InstallationValid(r) /\ InstallationAgainst(r, label) THEN r ELSE result
    /\ job' = None
    /\ UNCHANGED <<plan, undo, observed, installs>>

Labels == IF job = None THEN {} ELSE {job, plan}

See(after) == seen' = [seen EXCEPT ![installs] = [before |-> hostLock, after |-> after]]

InstallCompletes(label) ==
    /\ job # None /\ Digest(hostLock) = job.current
    /\ hostLock' = ProposedLock(hostLock, job.entry)
    /\ See(hostLock')
    /\ Record(Observed(label, "completed", job.proposed, job.operation # "no_change", None, None), label)

(* Another installer was faster. *)
InstallRaces(label) ==
    /\ job # None /\ Digest(hostLock) # job.current
    /\ UNCHANGED <<hostLock, seen>>
    /\ Record(Observed(label, "failed", None, FALSE, "race",
                       [expected |-> job.current, observed |-> Digest(hostLock)]), label)

(* The adapter stops half way: the files are changed, the lock may be. *)
InstallBreaks(label) ==
    /\ job # None /\ Digest(hostLock) = job.current
    /\ job.operation # "no_change"
    /\ hostLock' \in {hostLock, ProposedLock(hostLock, job.entry)}
    /\ See(hostLock')
    /\ Record(Observed(label, "indeterminate", None, TRUE, "adapter", None), label)

InstallBlocked(label) ==
    /\ job # None
    /\ UNCHANGED <<hostLock, seen>>
    /\ Record(Observed(label, "blocked", None, FALSE, "policy", None), label)

-----------------------------------------------------------------------------
(* Rollback *)

(* The journal of an installation that changed something: what became of   *)
(* its restore steps.                                                      *)
WriteJournal(label, statuses) ==
    /\ result # None
    /\ LET j == [kind |-> "journal", bound |-> Bound(label), result_sha256 |-> Digest(result),
                 rollback |-> result.current,
                 entries |-> [i \in DOMAIN statuses |-> [path |-> i, status |-> statuses[i]]],
                 mutated |-> \E i \in DOMAIN statuses : statuses[i] = "applied"]
       IN  JournalValid(j) /\ JournalAgainst(j, result) /\ undo' = j
    /\ UNCHANGED <<hostLock, plan, job, result, observed, installs, seen>>

RecordRollback(label, status, resulting, blocker, race) ==
    /\ LET o == [kind |-> "rollback", bound |-> Bound(label), status |-> status, mutated |-> undo.mutated,
                 resulting |-> resulting, rollback |-> undo.rollback, journal_sha256 |-> Digest(undo),
                 blocker |-> blocker, race |-> race]
       IN  RollbackValid(o) /\ RollbackAgainst(o, undo) /\ undo' = o
    /\ UNCHANGED <<plan, job, result, observed, installs, seen>>

(* The installation a journal undoes. *)
Undone(j) == j.result_sha256[2]

MetOrLeft(j) == Digest(hostLock) \in {Undone(j).current, Undone(j).proposed}

(* The lock goes back if it is still one the installation met or left. *)
RollBack(label) ==
    /\ Holds(undo, "journal") /\ MetOrLeft(undo)
    /\ hostLock' = undo.rollback[2]
    /\ RecordRollback(label, "rolled_back", undo.rollback, None, None)

RollbackRaces(label) ==
    /\ Holds(undo, "journal") /\ ~MetOrLeft(undo)
    /\ RecordRollback(label, "rollback_failed", None, "race",
                      [expected |-> undo.rollback, observed |-> Digest(hostLock)])
    /\ UNCHANGED hostLock

-----------------------------------------------------------------------------
(* Discovery, activation, outcome *)

RuntimeBlocker(status, success) == IF status = success THEN None ELSE "runtime"

Discover(label, status) ==
    /\ result # None
    /\ LET d == [kind |-> "discovery", bound |-> Bound(label), previous |-> Digest(result),
                 status |-> status, blocker |-> RuntimeBlocker(status, "discovered")]
       IN  DiscoveryValid(d) /\ DiscoveryAgainst(d, result) /\ observed' = d
    /\ UNCHANGED <<hostLock, plan, job, result, undo, installs, seen>>

Activate(label, status) ==
    /\ Holds(observed, "discovery")
    /\ LET a == [kind |-> "activation", bound |-> Bound(label), previous |-> Digest(observed),
                 status |-> status, blocker |-> RuntimeBlocker(status, "active"),
                 mutated |-> TRUE, deactivation |-> "undo"]
       IN  ActivationValid(a) /\ ActivationAgainst(a, observed) /\ observed' = a
    /\ UNCHANGED <<hostLock, plan, job, result, undo, installs, seen>>

RunOutcome(label, status) ==
    /\ Holds(observed, "activation")
    /\ LET o == [kind |-> "outcome", bound |-> Bound(label), previous |-> Digest(observed),
                 status |-> status, blocker |-> RuntimeBlocker(status, "completed"),
                 output |-> IF status = "completed" THEN "out" ELSE None, provider_id |-> None,
                 provider_sha256 |-> None, evaluation_id |-> None, evaluation_sha256 |-> None]
       IN  OutcomeValid(o) /\ OutcomeAgainst(o, observed) /\ observed' = o
    /\ UNCHANGED <<hostLock, plan, job, result, undo, installs, seen>>

(* A label is a plan the host holds, or the one the record last named. *)
HeldPlans ==
    ({plan} \ {None}) \cup (IF result = None THEN {} ELSE {result.bound.plan_sha256[2]})

HostNext ==
    \/ \E release \in Releases, target \in HostTargets : MakePlan(release, target)
    \/ BeginInstall
    \/ \E label \in Labels : InstallCompletes(label)
    \/ \E label \in Labels : InstallRaces(label)
    \/ \E label \in Labels : InstallBreaks(label)
    \/ \E label \in Labels : InstallBlocked(label)
    \/ \E label \in HeldPlans, statuses \in [1..2 -> {"applied", "failed"}] : WriteJournal(label, statuses)
    \/ \E label \in HeldPlans : RollBack(label)
    \/ \E label \in HeldPlans : RollbackRaces(label)
    \/ \E label \in HeldPlans, status \in {"discovered", "not_discovered"} : Discover(label, status)
    \/ \E label \in HeldPlans, status \in {"active", "inactive"} : Activate(label, status)
    \/ \E label \in HeldPlans, status \in {"completed", "failed"} : RunOutcome(label, status)

HostSpec == HostInit /\ [][HostNext]_hostVars

-----------------------------------------------------------------------------
(* A runtime outcome that the record accepted, through activation,         *)
(* discovery and installation, is about a package that the installation    *)
(* it goes back to did put into the lock, for that target: no label of     *)
(* another plan, and no stale observation, slips into the chain.           *)
OutcomeTraced ==
    Holds(observed, "outcome") =>
        LET r == observed.previous[2].previous[2].previous[2]
        IN  /\ r.status = "completed"
            /\ \E e \in Range(seen[r.id].after) :
                  /\ e.candidate = observed.bound.candidate
                  /\ e.package_digest = observed.bound.package_digest
                  /\ e.target = observed.bound.target

(* "rollback journal must restore the installation current lock": a        *)
(* recorded rollback brought back the lock that the installation it undoes *)
(* met, and that installation had changed something.                       *)
RollbackRestores ==
    (Holds(undo, "rollback") /\ undo.status = "rolled_back") =>
        LET r == Undone(undo.journal_sha256[2])
        IN  /\ r.mutated
            /\ undo.resulting = Digest(seen[r.id].before)
            /\ undo.bound = r.bound

(* The chain of runtime observations leads back to what it is about. *)
EvidenceTraced == OutcomeTraced /\ RollbackRestores
=============================================================================
