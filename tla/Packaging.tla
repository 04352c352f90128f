------------------------------ MODULE Packaging ------------------------------
(***************************************************************************)
(* The proof chain of one package before distribution: the build receipt   *)
(* of a validated skill (packaging/manifest.py), its hardening             *)
(* (packaging/hardening.py) and the verification of a packed archive       *)
(* (packaging/archive_verification.py), with the contracts of              *)
(* models/packaging.py.  Every step is a function of receipts: none        *)
(* touches the package.                                                    *)
(***************************************************************************)
EXTENDS SkillPackage, FiniteSetsExt

Builder == "skills-sdk.packaging.manifest/v1"

ManifestPaths(manifest) == IF manifest = None THEN {} ELSE {f.path : f \in manifest.files}

-----------------------------------------------------------------------------
(* The build receipt *)

(* A receipt is named after its package and content alone: neither the     *)
(* revision nor the verdict of the validation is in the name.              *)
BuildReceiptId(v) ==
    IF v.candidate # None
    THEN <<"package", v.candidate.package_id, v.candidate.content_sha256>>
    ELSE <<"blocked", Digest(v)>>

BuildEvidence(v) == IF v.files = {} THEN {<<"SKILL.md">>} ELSE {f.path : f \in v.files}

BuildSkillPackage(v) ==
    LET manifest == [candidate |-> v.candidate, version |-> v.identity.version, files |-> v.files,
                     source |-> {<<"SKILL.md">>}, builder |-> Builder]
    IN  IF v.status = "blocked"
        THEN [receipt_id |-> BuildReceiptId(v), candidate |-> v.candidate, status |-> "blocked",
              blocker |-> v.findings[1], package_digest |-> None, manifest |-> None,
              evidence |-> BuildEvidence(v), included |-> {}, excluded |-> {}]
        ELSE [receipt_id |-> BuildReceiptId(v), candidate |-> v.candidate, status |-> "built",
              blocker |-> None, package_digest |-> Digest(manifest), manifest |-> manifest,
              evidence |-> BuildEvidence(v), included |-> BuildEvidence(v), excluded |-> {}]

(* PackageReceipt: what its validator demands of either status. *)
BuiltShape(r) ==
    /\ r.candidate # None /\ r.package_digest # None /\ r.manifest # None
    /\ r.included # {} /\ r.included = ManifestPaths(r.manifest)
    /\ r.blocker = None

BlockedShape(r) ==
    /\ r.blocker # None /\ r.package_digest = None
    /\ r.manifest = None => r.included = {} /\ r.excluded = {}
    /\ r.included \subseteq ManifestPaths(r.manifest)
    /\ r.excluded \cap ManifestPaths(r.manifest) = {}

(* PackageReceiptV2 recomputes both digests of a built package. *)
PackageReceiptValid(r) ==
    /\ r.manifest # None => r.manifest.candidate = r.candidate
    /\ IF r.status = "built" THEN BuiltShape(r) ELSE BlockedShape(r)
    /\ r.included \cap r.excluded = {}
    /\ r.status = "built" =>
        /\ r.candidate.content_sha256 = ContentDigest(r.manifest.files)
        /\ r.package_digest = Digest(r.manifest)

-----------------------------------------------------------------------------
(* Hardening *)

TotalSize(files) == MapThenSumSet(LAMBDA f : f.size, files)

HardeningChecks(r, files, policy) ==
    LET verdict(ok, bad) == IF ok THEN "pass" ELSE bad
    IN  [package_receipt_built   |-> verdict(r.status = "built", "blocker"),
         forbidden_package_paths |-> verdict(\A p \in r.included : ~UnsafePath(p), "blocker"),
         package_size_budget     |-> verdict(/\ Cardinality(files) <= policy.max_file_count
                                             /\ TotalSize(files) <= policy.max_total_bytes, "warning"),
         provenance_trace        |-> verdict(/\ r.manifest # None
                                             /\ r.manifest.builder = Builder
                                             /\ <<"SKILL.md">> \in r.manifest.source, "blocker"),
         required_package_roles  |-> verdict(/\ \E f \in files : f.role = "skill_md"
                                             /\ policy.require_readme =>
                                                    \E f \in files : f.role = "readme", "blocker")]

Checks(h, status) == {c \in DOMAIN h.checks : h.checks[c] = status}

HardenSkillPackage(r, policy) ==
    LET files  == IF r.manifest = None THEN {}
                  ELSE {f \in r.manifest.files : f.path \in r.included}
        checks == HardeningChecks(r, files, policy)
    IN  [candidate |-> r.candidate, build_status |-> r.status,
         status |-> IF \E c \in DOMAIN checks : checks[c] = "blocker" THEN "blocked" ELSE "pass",
         package_digest |-> r.package_digest, policy |-> policy, included |-> r.included,
         file_count |-> Cardinality(files), total_size |-> TotalSize(files), checks |-> checks]

HardeningValid(h) ==
    /\ h.file_count = Cardinality(h.included)
    /\ IF h.status = "pass"
       THEN /\ Checks(h, "blocker") = {}
            /\ h.build_status = "built" /\ h.candidate # None /\ h.package_digest # None
       ELSE /\ Checks(h, "blocker") # {}
            /\ IF h.build_status = "built"
               THEN h.candidate # None /\ h.package_digest # None
               ELSE h.package_digest = None

-----------------------------------------------------------------------------
(* Archive verification.  An archive at rest is                            *)
(*   [file: missing, special, unreadable or regular, size, central: what   *)
(*    the bounded central-directory scan finds, entries, bytes]            *)
(* and an entry [path, portable, coding, link, size, sha, manifest].       *)

ArchiveManifest == <<"package-manifest.json">>

ArchiveBlocked(code) ==
    [status |-> "blocked", archive_sha256 |-> None, candidate |-> None,
     package_digest |-> None, manifest |-> None, verified |-> {}, blocker |-> code]

SnapshotRefusal(archive, policy) ==
    IF archive.file = "missing" THEN "archive_missing"
    ELSE IF archive.file = "special" THEN "archive_not_regular_file"
    ELSE IF archive.file = "unreadable" THEN "archive_unreadable"
    ELSE IF archive.size > policy.max_archive_bytes THEN "archive_invalid_zip"
    ELSE IF ~archive.central THEN "archive_invalid_zip"
    ELSE None

EntryRefused(entries, i) ==
    LET e == entries[i]
    IN  IF ~e.portable THEN "archive_path_invalid"
        ELSE IF \E j \in 1..(i - 1) : entries[j].path = e.path
        THEN IF e.path = ArchiveManifest THEN "archive_manifest_duplicate"
             ELSE "archive_entry_duplicate"
        ELSE IF e.coding = "encrypted" THEN "archive_unreadable"
        ELSE IF e.coding \in {"unsupported", "disagreeing"} THEN "archive_invalid_zip"
        ELSE IF e.link THEN "archive_symlink_forbidden"
        ELSE None

FirstRefusal(entries) ==
    LET bad == {i \in DOMAIN entries : EntryRefused(entries, i) # None}
    IN  IF bad = {} THEN None ELSE EntryRefused(entries, Min(bad))

EntriesRefusal(archive, policy) ==
    IF \/ Len(archive.entries) > policy.max_entry_count
       \/ FoldLeft(LAMBDA n, e : n + e.size, 0, archive.entries) > policy.max_total_bytes
    THEN "archive_invalid_zip"
    ELSE FirstRefusal(archive.entries)

(* Defect: only what the manifest declares is looked for. *)
PayloadDeclaredOnly(entries, manifest) ==
    IF \A f \in manifest.files :
          \E e \in Range(entries) : <<e.path, e.size, e.sha>> = <<f.path, f.size, f.sha256>>
    THEN None ELSE "archive_payload_missing"

(* The codes of a wrong size and of a wrong digest are one here. *)
PayloadRefusal(entries, manifest) ==
    LET payload    == {e \in Range(entries) : e.path # ArchiveManifest}
        carries(f)  == \E e \in payload : <<e.path, e.size, e.sha>> = <<f.path, f.size, f.sha256>>
    IN  IF ~ ManifestPaths(manifest) \subseteq {e.path : e \in payload}
        THEN "archive_payload_missing"
        ELSE IF ~ {e.path : e \in payload} \subseteq ManifestPaths(manifest)
        THEN "archive_payload_undeclared"
        ELSE IF \E f \in manifest.files : ~carries(f) THEN "archive_payload_mismatch"
        ELSE None

(* The expected receipt, when one is given, is the exact package. *)
BindingRefusal(manifest, expected) ==
    IF ContentDigest(manifest.files) # manifest.candidate.content_sha256
    THEN "archive_candidate_digest_mismatch"
    ELSE IF expected = None THEN None
    ELSE IF ~PackageReceiptValid(expected) THEN "archive_receipt_invalid"
    ELSE IF \/ expected.status # "built"
            \/ expected.candidate # manifest.candidate
            \/ expected.manifest # manifest
    THEN "archive_receipt_mismatch"
    ELSE IF expected.package_digest # Digest(manifest) THEN "archive_package_digest_mismatch"
    ELSE None

VerifyPackageArchive(archive, expectedSha, expected, policy) ==
    LET listed   == {e \in Range(archive.entries) : e.path = ArchiveManifest}
        manifest == (CHOOSE e \in listed : TRUE).manifest
        refusals == << SnapshotRefusal(archive, policy),
                       IF expectedSha # None /\ expectedSha # Digest(archive) THEN "archive_digest_mismatch" ELSE None,
                       EntriesRefusal(archive, policy),
                       IF listed = {} THEN "archive_manifest_missing" ELSE None >>
        first(s) == LET bad == {i \in DOMAIN s : s[i] # None} IN IF bad = {} THEN None ELSE s[Min(bad)]
        blocker  == IF first(refusals) # None THEN first(refusals)
                    ELSE IF manifest = None THEN "archive_manifest_invalid"
                    ELSE first(<<PayloadRefusal(archive.entries, manifest), BindingRefusal(manifest, expected)>>)
    IN  IF blocker # None THEN ArchiveBlocked(blocker)
        ELSE [status |-> "pass", archive_sha256 |-> Digest(archive), candidate |-> manifest.candidate,
              package_digest |-> Digest(manifest), manifest |-> manifest,
              verified |-> ManifestPaths(manifest), blocker |-> None]

ArchiveReceiptValid(a) ==
    IF a.status = "pass"
    THEN /\ Present(<<a.archive_sha256, a.candidate, a.package_digest, a.manifest>>)
         /\ a.blocker = None
         /\ a.candidate = a.manifest.candidate
         /\ a.candidate.content_sha256 = ContentDigest(a.manifest.files)
         /\ a.package_digest = Digest(a.manifest)
         /\ a.verified = ManifestPaths(a.manifest)
    ELSE /\ a.blocker # None
         /\ Absent(<<a.archive_sha256, a.candidate, a.package_digest, a.manifest>>)
         /\ a.verified = {}
=============================================================================
