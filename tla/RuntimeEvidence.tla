--------------------------- MODULE RuntimeEvidence ---------------------------
(***************************************************************************)
(* The runtime observations an external host adapter supplies              *)
(* (models/runtime_evidence.py): the installation result, the rollback     *)
(* journal and outcome, discovery, activation and the runtime outcome.     *)
(* Each contract has its own shape and a validate_against_... that binds   *)
(* it to the observation before it.                                        *)
(***************************************************************************)
EXTENDS Lifecycle

(* _CandidateBoundRuntimeEvidence: the identity every observation carries. *)
Bound(plan) ==
    [candidate |-> plan.candidate, package_name |-> plan.package_name, version |-> plan.version,
     package_digest |-> plan.package_digest, plan_id |-> plan.plan_id, plan_sha256 |-> Digest(plan),
     target |-> plan.target]

BoundValid(bound) ==
    /\ PublicSafe(bound.package_name) /\ PublicSafe(bound.version)
    /\ bound.package_name = bound.candidate.package_id

(* _validate_plan_binding *)
BindsPlan(bound, plan) ==
    /\ InstallPlanValid(plan)
    /\ plan.status = "planned" /\ plan.candidate # None /\ plan.package_digest # None
    /\ bound = Bound(plan)

(* What every later observation compares with the one before it. *)
SameBinding(a, b) ==
    /\ a.candidate = b.candidate /\ a.version = b.version /\ a.package_digest = b.package_digest
    /\ a.plan_id = b.plan_id /\ a.plan_sha256 = b.plan_sha256 /\ a.target = b.target

-----------------------------------------------------------------------------
(* InstallationResult *)

RaceValid(race) == race # None => race.expected # race.observed

InstallationValid(r) ==
    /\ BoundValid(r.bound) /\ RaceValid(r.race)
    /\ r.operation = "no_change" <=> r.current = r.proposed
    /\ r.operation = "no_change" => ~r.mutated
    /\ CASE r.status = "completed" ->
              /\ r.resulting = r.proposed /\ r.blocker = None /\ r.race = None
              /\ r.operation # "no_change" => r.mutated
         [] r.status = "blocked" -> ~r.mutated /\ r.resulting = None /\ r.blocker # None
         [] OTHER -> r.blocker # None
    /\ r.race # None => r.status \in {"failed", "indeterminate"}

InstallationAgainst(r, plan) ==
    /\ BindsPlan(r.bound, plan)
    /\ r.current = plan.current /\ r.proposed = plan.proposed /\ r.operation = plan.operation
    /\ r.race # None => r.race.expected = plan.current

-----------------------------------------------------------------------------
(* RollbackJournal and RollbackOutcome *)

JournalValid(j) ==
    /\ BoundValid(j.bound)
    /\ j.entries # <<>>
    /\ \A i, k \in DOMAIN j.entries : j.entries[i].path = j.entries[k].path => i = k
    /\ j.mutated <=> \E i \in DOMAIN j.entries : j.entries[i].status = "applied"

(* Defect: a result that changed nothing may be undone. *)
JournalOfAny(j, r) ==
    /\ InstallationValid(r)
    /\ j.result_sha256 = Digest(r)
    /\ SameBinding(j.bound, r.bound)
    /\ j.rollback = r.current

JournalAgainst(j, r) ==
    /\ InstallationValid(r) /\ r.mutated
    /\ j.result_sha256 = Digest(r)
    /\ SameBinding(j.bound, r.bound)
    /\ j.rollback = r.current

RollbackValid(o) ==
    /\ BoundValid(o.bound) /\ RaceValid(o.race)
    /\ CASE o.status = "rolled_back" ->
              /\ o.mutated /\ o.resulting = o.rollback
              /\ o.blocker = None /\ o.race = None
         [] o.status = "blocked" -> ~o.mutated /\ o.resulting = None /\ o.blocker # None
         [] OTHER -> o.blocker # None

RollbackAgainst(o, j) ==
    /\ JournalValid(j)
    /\ o.status = "rolled_back" =>
        /\ j.mutated
        /\ \A i \in DOMAIN j.entries : j.entries[i].status = "applied"
    /\ o.mutated = j.mutated
    /\ o.journal_sha256 = Digest(j)
    /\ SameBinding(o.bound, j.bound)
    /\ o.rollback = j.rollback
    /\ o.race # None => o.race.expected = j.rollback

-----------------------------------------------------------------------------
(* Discovery, activation and the runtime outcome: each names the digest of *)
(* the whole observation before it and requires that one to have succeeded *)

ObservationValid(o, success) ==
    /\ BoundValid(o.bound)
    /\ o.status = success <=> o.blocker = None

DiscoveryValid(d) == ObservationValid(d, "discovered")

(* Defect: the installation is named and its package is not compared. *)
DiscoveryUnbound(d, r) ==
    /\ InstallationValid(r) /\ r.status = "completed"
    /\ d.previous = Digest(r)

DiscoveryAgainst(d, r) ==
    /\ InstallationValid(r) /\ r.status = "completed"
    /\ d.previous = Digest(r)
    /\ SameBinding(d.bound, r.bound)

ActivationValid(a) ==
    /\ ObservationValid(a, "active")
    /\ a.mutated => a.deactivation # None

ActivationAgainst(a, d) ==
    /\ DiscoveryValid(d) /\ d.status = "discovered"
    /\ a.previous = Digest(d)
    /\ SameBinding(a.bound, d.bound)

OutcomeValid(o) ==
    /\ ObservationValid(o, "completed")
    /\ o.status = "completed" => o.output # None
    /\ (o.provider_id = None) = (o.provider_sha256 = None)
    /\ (o.evaluation_id = None) = (o.evaluation_sha256 = None)

OutcomeAgainst(o, a) ==
    /\ ActivationValid(a) /\ a.status = "active"
    /\ o.previous = Digest(a)
    /\ SameBinding(o.bound, a.bound)

(* validate_against_provider_result and ..._evaluation_receipt: the        *)
(* optional references bind one exact result for the same candidate.       *)
ReferenceAgainst(id, sha, candidate, receipt) ==
    /\ id = receipt.receipt_id /\ sha = Digest(receipt)
    /\ candidate = receipt.candidate
=============================================================================
