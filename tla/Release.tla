------------------------------- MODULE Release -------------------------------
(***************************************************************************)
(* A host that releases skills with the SDK: it validates and builds       *)
(* packages, hardens and prepares them and plans their installation, in    *)
(* any order and with whatever receipts it holds, so that a receipt of one *)
(* package, revision or policy meets a receipt of another.  It adopts a    *)
(* plan by storing the lock the plan proposes.                             *)
(***************************************************************************)
EXTENDS Lifecycle

CONSTANTS
    Sources,                               \* [tree, revision, policy]: what a package is built from
    HardeningPolicies,
    Requests(_),                           \* requests the host may make for a package
    Targets,
    Archives(_), ArchivePolicies,          \* archives put beside a build receipt
    MaxEntries                             \* bound: entries of a lock

(* A scan lists each path once, in order. *)
ASSUME ReleaseAssumption ==
    \A s \in Sources :
        /\ s.tree.entries \in Seq(Range(s.tree.entries))
        /\ s.policy.required_files \in Seq(Range(s.policy.required_files))
        /\ \A i, j \in DOMAIN s.tree.entries : s.tree.entries[i].path = s.tree.entries[j].path => i = j

VARIABLES
    package,    \* the build receipt held, or None
    hardening,  \* the hardening receipt held, or None
    prepared,   \* the registry receipt held, or None
    answer,     \* the last plan or archive verdict, None after anything else
    lock        \* the runtime lock in force

vars == <<package, hardening, prepared, answer, lock>>

Init ==
    /\ package = None /\ hardening = None /\ prepared = None /\ answer = None
    /\ lock = <<>>

Build(source) ==
    /\ package' = BuildSkillPackage(ValidateSkillPackage(source.tree, source.revision, source.policy))
    /\ answer' = None
    /\ UNCHANGED <<hardening, prepared, lock>>

Harden(policy) ==
    /\ package # None
    /\ hardening' = HardenSkillPackage(package, policy)
    /\ answer' = None
    /\ UNCHANGED <<package, prepared, lock>>

PrepareCandidate(request) ==
    /\ package # None /\ hardening # None
    /\ RequestValid(request)
    /\ prepared' = Prepare(package, hardening, request)
    /\ answer' = None
    /\ UNCHANGED <<package, hardening, lock>>

(* The package of the plan need not be the one that was prepared. *)
PlanInstall(target) ==
    /\ package # None /\ prepared # None
    /\ LET plan == PlanRuntimeInstall(package, prepared, lock, target)
       IN  answer' = IF plan = None THEN [status |-> "raised"] ELSE plan
    /\ UNCHANGED <<package, hardening, prepared, lock>>

Planned == answer # None /\ answer.status = "planned"

(* The host stores the lock a plan proposes, if it still holds the lock    *)
(* the plan names as current.                                              *)
Adopt ==
    /\ Planned
    /\ Digest(lock) = answer.current
    /\ Len(ProposedLock(lock, answer.entry)) <= MaxEntries
    /\ lock' = ProposedLock(lock, answer.entry)
    /\ answer' = None
    /\ UNCHANGED <<package, hardening, prepared>>

(* An archive, packed from this or another receipt and possibly spoiled,   *)
(* is verified against the receipt the host holds: the verdict reads no    *)
(* other receipt, so verifying before hardening loses no case.             *)
Verify(archive, policy) ==
    /\ package # None /\ hardening = None
    /\ answer' = [status |-> "archive", archive |-> archive,
                  verdict |-> VerifyPackageArchive(archive, None, package, policy)]
    /\ UNCHANGED <<package, hardening, prepared, lock>>

Next ==
    \/ \E source \in Sources : Build(source)
    \/ \E policy \in HardeningPolicies : Harden(policy)
    \/ \E request \in Requests(package) : PrepareCandidate(request)
    \/ \E target \in Targets : PlanInstall(target)
    \/ Adopt
    \/ \E archive \in Archives(package), policy \in ArchivePolicies : Verify(archive, policy)

Spec == Init /\ [][Next]_vars

-----------------------------------------------------------------------------
(* Every receipt the SDK hands out satisfies its own contract, so that the *)
(* next step, which validates its inputs again, never refuses it: the      *)
(* constructors and the validators are written apart.                      *)
ReceiptsValid ==
    /\ package # None => PackageReceiptValid(package)
    /\ hardening # None => HardeningValid(hardening)
    /\ prepared # None => PreparationValid(prepared)
    /\ LockValid(lock)

(* The hardening receipt whose digest a prepared receipt binds. *)
HardeningOf(preparationId) == preparationId[2][6][2]

Earned(entry) ==
    LET h == HardeningOf(entry.preparation_id)
    IN  /\ h.status = "pass" /\ h.build_status = "built"
        /\ h.candidate = entry.candidate
        /\ h.package_digest = entry.package_digest
        /\ entry.package_digest = Digest([candidate |-> entry.candidate, version |-> entry.version,
              files |-> entry.package_digest[2].files, source |-> {<<"SKILL.md">>}, builder |-> Builder])
        /\ RuntimeFiles(entry.package_digest[2]) = entry.files

(* "Package and registry preparation must bind the same built candidate    *)
(* and digest": whatever receipts were mixed on the way, an entry of the   *)
(* runtime lock is one package of one revision that was built, passed      *)
(* hardening and was prepared under its own version, with its own files.   *)
LockEarned == \A i \in DOMAIN lock : Earned(lock[i])

(* Planning answers every lawful input: the contract of the plan refuses   *)
(* it, and the call raises, only over a text the lifecycle screens and the *)
(* registry does not: a version, a name, a path, or the id of a package    *)
(* receipt, which may look like a credential although no part of it does.  *)
PlanningAnswers ==
    (answer # None /\ answer.status = "raised") =>
        \/ ~PublicSafe(prepared.version) \/ ~PublicSafe(prepared.package_name)
        \/ package.candidate # None /\ ~PublicSafe(package.candidate.package_id)
        \/ package.manifest # None /\ \E f \in package.manifest.files : ~PublicPath(f.path)
        \/ package.manifest # None /\ ~PublicSafe(package.manifest.version)
        \/ ~PublicId(package.receipt_id) \/ ~PublicId(prepared.input_receipt_id)

(* A passing archive holds the files of the expected receipt, byte for     *)
(* byte and no other, whatever was packed, spoiled or swapped.             *)
ArchiveFaithful ==
    (answer # None /\ answer.status = "archive") =>
        /\ ArchiveReceiptValid(answer.verdict)
        /\ answer.verdict.status = "pass" =>
            /\ package.status = "built"
            /\ answer.verdict.package_digest = package.package_digest
            /\ {<<e.path, e.sha>> : e \in {x \in Range(answer.archive.entries) : x.path # ArchiveManifest}}
                  = {<<f.path, f.sha256>> : f \in package.manifest.files}

(* Adopting a plan settles it: planning the same entry again changes       *)
(* nothing, and every other entry of the lock is left as it was.           *)
AdoptionSettles ==
    [][ (lock' # lock) =>
          LET entry == answer.entry
          IN  /\ Operation(lock', entry) = "no_change"
              /\ {e \in Range(lock') : EntryKey(e) # EntryKey(entry)}
                    = {e \in Range(lock) : EntryKey(e) # EntryKey(entry)} ]_vars
=============================================================================
