------------------------------ MODULE Registry ------------------------------
(***************************************************************************)
(* prepare_private_registry_candidate (distribution/private_registry.py)   *)
(* and the contracts of models/registry.py: a build receipt, a hardening   *)
(* receipt and a request, each supplied by the caller, become a prepared   *)
(* or a blocked receipt.                                                   *)
(***************************************************************************)
EXTENDS Packaging

CONSTANTS
    CredentialShaped,   \* texts with a credential prefix component
    SemVer,             \* versions in canonical semantic versioning
    LongNames           \* package names over REGISTRY_PACKAGE_NAME_MAX_LENGTH

RedactionSafe(text) == text \notin CredentialShaped
RedactionSafePath(path) == \A i \in DOMAIN path : RedactionSafe(path[i])

(* RegistryPreparationRequest *)
RequestValid(request) ==
    /\ RedactionSafe(request.package_name) /\ RedactionSafe(request.version)
    /\ request.evidence # {} /\ \A e \in request.evidence : RedactionSafePath(e)

Plain(code) == [code |-> code, refs |-> {}, source |-> None]

(* Evidence that is no safe portable path survives as a digest only.  A    *)
(* code stands for its message too, and is redacted with it.               *)
RegistryBlocker(source, code, refs) ==
    [code   |-> IF RedactionSafe(code) THEN code ELSE "source_blocker_redacted",
     refs   |-> {r \in refs : RedactionSafePath(r)},
     source |-> Digest(source)]

HardeningBlockers(h) ==
    LET named == {RegistryBlocker(<<c, h.checks[c]>>, c, {}) : c \in Checks(h, "blocker")}
    IN  SetToSeq(named)

RegistryWarnings(h) == {Digest(<<c, h.checks[c]>>) : c \in Checks(h, "warning")}

SameIdentity(package, hardening) ==
    /\ hardening.candidate = package.candidate
    /\ hardening.package_digest = package.package_digest

(* Defect: a blocked package is told by its hardening receipt alone. *)
InputBlockersHardened(package, hardening, request) ==
    IF hardening.status = "blocked" THEN HardeningBlockers(hardening)
    ELSE IF request.version \notin SemVer THEN <<Plain("registry_version_unsupported")>>
    ELSE <<>>

InputBlockers(package, hardening, request) ==
    IF package.status = "blocked"
    THEN <<RegistryBlocker(package.blocker, package.blocker.code, {package.blocker.path})>>
    ELSE IF ~SameIdentity(package, hardening) THEN <<Plain("hardening_identity_mismatch")>>
    ELSE IF request.version # package.manifest.version
    THEN <<Plain("package_version_mismatch")>>
         \o (IF hardening.status = "blocked" THEN HardeningBlockers(hardening) ELSE <<>>)
    ELSE IF hardening.status = "blocked" THEN HardeningBlockers(hardening)
    ELSE IF request.package_name # package.candidate.package_id
    THEN <<Plain("package_name_mismatch")>>
    ELSE IF request.package_name \in LongNames THEN <<Plain("registry_package_name_unsupported")>>
    ELSE IF request.version \notin SemVer THEN <<Plain("registry_version_unsupported")>>
    ELSE <<>>

(* The receipt id is the digest of every input; a blocked receipt claims   *)
(* no digest of its own.                                                   *)
BlockedPreparation(package, hardening, request, blockers, warnings) ==
    [receipt_id |-> Digest(<<package.candidate, request, package.receipt_id, Digest(hardening),
                             blockers, warnings>>),
     candidate |-> package.candidate, registry |-> request.registry,
     package_name |-> request.package_name, version |-> request.version,
     input_receipt_id |-> package.receipt_id,
     package_digest |-> None, manifest_digest |-> None, hardening_sha256 |-> None,
     status |-> "blocked", evidence |-> request.evidence, blocker |-> blockers[1],
     blockers |-> blockers, warnings |-> warnings]

PreparedReceipt(package, hardening, request) ==
    [receipt_id |-> Digest(<<package.candidate, request, package.receipt_id, package.package_digest,
                             Digest(package.manifest), Digest(hardening), RegistryWarnings(hardening)>>),
     candidate |-> package.candidate, registry |-> request.registry,
     package_name |-> request.package_name, version |-> request.version,
     input_receipt_id |-> package.receipt_id,
     package_digest |-> package.package_digest, manifest_digest |-> Digest(package.manifest),
     hardening_sha256 |-> Digest(hardening),
     status |-> "prepared", evidence |-> request.evidence, blocker |-> None,
     blockers |-> <<>>, warnings |-> RegistryWarnings(hardening)]

Prepare(package, hardening, request) ==
    LET blockers == InputBlockers(package, hardening, request)
        warnings == IF \/ package.status = "blocked"
                       \/ blockers[1].code = "hardening_identity_mismatch"
                    THEN {} ELSE RegistryWarnings(hardening)
    IN  IF blockers = <<>>
        THEN PreparedReceipt(package, hardening, request)
        ELSE BlockedPreparation(package, hardening, request, blockers, warnings)

PreparationValid(p) ==
    /\ RedactionSafe(p.package_name) /\ RedactionSafe(p.version)
    /\ p.evidence # {} /\ \A e \in p.evidence : RedactionSafePath(e)
    /\ IF p.status = "prepared"
       THEN /\ p.candidate # None
            /\ Present(<<p.package_digest, p.manifest_digest, p.hardening_sha256>>)
            /\ p.package_digest = p.manifest_digest
            /\ p.package_name = p.candidate.package_id
            /\ p.package_name \notin LongNames /\ p.version \in SemVer
            /\ p.blocker = None /\ p.blockers = <<>>
       ELSE /\ p.blocker # None
            /\ p.blockers # <<>> /\ p.blockers[1] = p.blocker
            /\ Absent(<<p.package_digest, p.manifest_digest, p.hardening_sha256>>)
=============================================================================
