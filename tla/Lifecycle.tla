------------------------------ MODULE Lifecycle ------------------------------
(***************************************************************************)
(* plan_runtime_install (lifecycle/planning.py) with the contracts of      *)
(* models/lifecycle.py: from a build receipt, a registry receipt, the      *)
(* current runtime lock and a target to an install plan that names the     *)
(* lock it starts from and the lock it proposes.                           *)
(***************************************************************************)
EXTENDS Registry

CONSTANTS
    HostShaped,        \* further texts refused as credentials or host paths
    CredentialStems    \* names that read as a credential once a hyphen follows

(* The lifecycle screens more than the registry does. *)
PublicSafe(text) == RedactionSafe(text) /\ text \notin HostShaped
PublicPath(path) == \A i \in DOMAIN path : PublicSafe(path[i])

(* A receipt id: that of a package begins with its name and a hyphen, any  *)
(* other is made of a fixed word and a digest.                             *)
PublicId(id) == id[1] = "package" => PublicSafe(id[2]) /\ id[2] \notin CredentialStems

EntryKey(entry) == <<entry.target, entry.package_name>>

RuntimeFiles(manifest) == {[path |-> f.path, sha256 |-> f.sha256] : f \in manifest.files}

LockEntryValid(entry) ==
    /\ PublicSafe(entry.package_name) /\ PublicSafe(entry.version)
    /\ PublicId(entry.package_receipt_id) /\ PublicId(entry.preparation_id)
    /\ entry.package_name = entry.candidate.package_id
    /\ entry.files # {} /\ \A f \in entry.files : PublicPath(f.path)
    /\ ContentDigest(entry.files) = entry.candidate.content_sha256

(* A lock is the sequence of its entries, one per target and package. *)
LockValid(lock) ==
    /\ \A i \in DOMAIN lock : LockEntryValid(lock[i])
    /\ \A i, j \in DOMAIN lock : EntryKey(lock[i]) = EntryKey(lock[j]) => i = j

(* Defect: the receipt id is taken for the identity of the package. *)
IdentityByReceiptId(package, prepared) ==
    IF prepared.input_receipt_id # package.receipt_id
    THEN Plain("installation_input_receipt_mismatch")
    ELSE IF prepared.status = "blocked" THEN prepared.blocker
    ELSE IF package.status # "built" THEN Plain("installation_identity_mismatch")
    ELSE None

(* What keeps a registry receipt from standing for the package receipt.    *)
IdentityBlocker(package, prepared) ==
    IF prepared.input_receipt_id # package.receipt_id
    THEN Plain("installation_input_receipt_mismatch")
    ELSE IF prepared.status = "blocked"
    THEN IF PublicSafe(prepared.blocker.code) /\ \A r \in prepared.blocker.refs : PublicPath(r)
         THEN prepared.blocker
         ELSE Plain("installation_registry_blocker_not_portable")
    ELSE IF \/ package.status # "built"
            \/ package.candidate # prepared.candidate
            \/ package.package_digest # prepared.package_digest
    THEN Plain("installation_identity_mismatch")
    ELSE IF package.manifest.version # prepared.version THEN Plain("installation_version_mismatch")
    ELSE None

(* The fields of a plan that its id binds: all of them. *)
Identified(plan) == [plan EXCEPT !.plan_id = Digest([plan EXCEPT !.plan_id = None])]

BlockedPlan(package, prepared, lock, target, blocker) ==
    Identified(
    [plan_id |-> None, status |-> "blocked", operation |-> None, candidate |-> package.candidate,
     package_name |-> IF package.candidate # None THEN package.candidate.package_id ELSE prepared.package_name,
     version |-> IF package.manifest # None THEN package.manifest.version ELSE prepared.version,
     package_digest |-> IF package.status = "built" THEN package.package_digest ELSE None,
     package_receipt_id |-> package.receipt_id, target |-> target, registry |-> prepared.registry,
     preparation_id |-> prepared.receipt_id, registry_input |-> prepared.input_receipt_id,
     current |-> Digest(lock), rollback |-> Digest(lock), proposed |-> None, entry |-> None,
     blocker |-> blocker])

(* An entry that differs in any field is an update, an equal one no change. *)
Operation(lock, entry) ==
    LET matching == {i \in DOMAIN lock : EntryKey(lock[i]) = EntryKey(entry)}
    IN  IF \E i \in matching : matching = {i} /\ lock[i] = entry THEN "no_change"
        ELSE IF matching # {} THEN "update" ELSE "install"

(* Defect: the entries of a package are replaced whatever their target. *)
ProposedByName(lock, entry) ==
    LET replaced == [i \in DOMAIN lock |-> IF lock[i].package_name = entry.package_name THEN entry ELSE lock[i]]
    IN  IF Operation(lock, entry) = "install" THEN Append(replaced, entry) ELSE replaced

ProposedLock(lock, entry) ==
    LET replaced == [i \in DOMAIN lock |-> IF EntryKey(lock[i]) = EntryKey(entry) THEN entry ELSE lock[i]]
    IN  IF Operation(lock, entry) = "install" THEN Append(replaced, entry) ELSE replaced

PlannedEntry(package, prepared, target) ==
    [package_name |-> prepared.package_name, version |-> prepared.version,
     candidate |-> package.candidate, package_digest |-> package.package_digest,
     registry |-> prepared.registry, package_receipt_id |-> package.receipt_id,
     preparation_id |-> prepared.receipt_id, target |-> target,
     files |-> RuntimeFiles(package.manifest)]

PlannedTransition(package, prepared, lock, target) ==
    LET entry == PlannedEntry(package, prepared, target)
    IN  Identified(
    [plan_id |-> None, status |-> "planned", operation |-> Operation(lock, entry),
     candidate |-> package.candidate, package_name |-> prepared.package_name,
     version |-> prepared.version, package_digest |-> package.package_digest,
     package_receipt_id |-> package.receipt_id, target |-> target, registry |-> prepared.registry,
     preparation_id |-> prepared.receipt_id, registry_input |-> prepared.input_receipt_id,
     current |-> Digest(lock), rollback |-> Digest(lock),
     proposed |-> Digest(ProposedLock(lock, entry)), entry |-> entry, blocker |-> None])

(* InstallPlan: a planned transition binds its entry field by field. *)
PlannedShape(plan) ==
    /\ plan.registry_input = plan.package_receipt_id
    /\ Present(<<plan.candidate, plan.package_digest, plan.operation, plan.proposed, plan.entry>>)
    /\ plan.entry.candidate = plan.candidate /\ plan.entry.target = plan.target
    /\ plan.entry.package_digest = plan.package_digest
    /\ plan.entry.package_name = plan.package_name /\ plan.package_name = plan.candidate.package_id
    /\ plan.entry.version = plan.version
    /\ plan.entry.package_receipt_id = plan.package_receipt_id
    /\ plan.entry.preparation_id = plan.preparation_id
    /\ plan.entry.registry = plan.registry
    /\ plan.blocker = None
    /\ plan.operation = "no_change" <=> plan.current = plan.proposed
    /\ LockEntryValid(plan.entry)

BlockedPlanShape(plan) ==
    /\ Absent(<<plan.operation, plan.proposed, plan.entry>>)
    /\ plan.blocker # None
    /\ plan.candidate # None => plan.package_name = plan.candidate.package_id
    /\ PublicSafe(plan.blocker.code) /\ \A r \in plan.blocker.refs : PublicPath(r)

InstallPlanValid(plan) ==
    /\ PublicSafe(plan.package_name) /\ PublicSafe(plan.version)
    /\ PublicId(plan.package_receipt_id) /\ PublicId(plan.preparation_id) /\ PublicId(plan.registry_input)
    /\ plan.rollback = plan.current
    /\ IF plan.status = "planned" THEN PlannedShape(plan) ELSE BlockedPlanShape(plan)
    /\ plan = Identified(plan)

(* A plan that its own contract refuses is never returned: the call raises. *)
PlanRuntimeInstall(package, prepared, lock, target) ==
    LET blocker == IdentityBlocker(package, prepared)
        plan    == IF blocker # None THEN BlockedPlan(package, prepared, lock, target, blocker)
                   ELSE PlannedTransition(package, prepared, lock, target)
    IN  IF InstallPlanValid(plan) THEN plan ELSE None
=============================================================================
