---------------------------- MODULE SkillPackage ----------------------------
(***************************************************************************)
(* The read-only validation of one standalone skill directory              *)
(* (validation/skill_package.py, models/validation.py, models/package.py)  *)
(* as operators over a tree at rest.  A tree lists its entries in the      *)
(* order of the scan; an entry is                                          *)
(*   [path: its names from the root, kind: file, dir, symlink or special,  *)
(*    mode: readable, unreadable or unstable, sha, size: its bytes,        *)
(*    text: what the reference parser finds in them]                       *)
(* and its entrypoint, decoded, is the record tree.skill.                  *)
(***************************************************************************)
EXTENDS Naturals, FiniteSets, SequencesExt

CONSTANTS
    None,               \* the absent value
    UnsafeDirectories,  \* names of runtime and source-control directories
    UnsafeFilenames,    \* names of credential-like files
    MaxDepth            \* _MAX_PACKAGE_DIRECTORY_DEPTH

Present(values) == \A i \in DOMAIN values : values[i] # None
Absent(values)  == \A i \in DOMAIN values : values[i] = None

(* Digests are injective on what they hash. *)
Digest(value) == <<"sha256", value>>

(* candidate_content_sha256 over manifest or runtime files in path order. *)
ContentDigest(files) == Digest({<<f.path, f.sha256>> : f \in files})

(* The portable role of a file follows from its top-level name. *)
FileRole(path) ==
    CASE path = <<"SKILL.md">>      -> "skill_md"
      [] path = <<"README.md">>     -> "readme"
      [] path[1] = "references"     -> "reference"
      [] path[1] = "scripts"        -> "script"
      [] path[1] = "evals"          -> "eval"
      [] OTHER                      -> "asset"

LastName(path) == path[Len(path)]

UnsafePath(path) ==
    \/ LastName(path) \in UnsafeFilenames
    \/ \E i \in DOMAIN path : path[i] \in UnsafeDirectories

-----------------------------------------------------------------------------
(* The scan of the tree *)

Finding(code, path) == [code |-> code, path |-> path]

(* A refused directory is not entered: nothing below it is listed. *)
EntryRefusal(e) ==
    IF LastName(e.path) \in UnsafeDirectories THEN "unsafe_package_directory"
    ELSE IF e.kind = "symlink" THEN "symlink_not_allowed"
    ELSE IF e.kind = "dir" /\ Len(e.path) > MaxDepth THEN "package_depth_exceeded"
    ELSE IF e.kind = "dir" /\ e.mode = "unreadable" THEN "unreadable_package_directory"
    ELSE None

Listed(tree, i) ==
    \A j \in DOMAIN tree.entries :
        LET d == tree.entries[j]
        IN  ~ (/\ EntryRefusal(d) # None
               /\ IsStrictPrefix(d.path, tree.entries[i].path))

(* _regular_file: what keeps a file out of the manifest. *)
FileRefusal(e) ==
    IF LastName(e.path) \in UnsafeFilenames THEN "unsafe_package_file"
    ELSE IF e.kind = "special" \/ e.mode = "unreadable" THEN "unreadable_package_file"
    ELSE IF e.mode = "unstable" THEN "source_changed"
    ELSE None

TooDeep(e, policy) ==
    /\ e.path[1] = "references"
    /\ policy.max_reference_depth # None
    /\ Len(e.path) - 1 > policy.max_reference_depth

EntryFindings(e, policy) ==
    IF EntryRefusal(e) # None THEN <<Finding(EntryRefusal(e), e.path)>>
    ELSE IF e.kind = "dir"
    THEN IF e.mode = "unstable" THEN <<Finding("source_changed", e.path)>> ELSE <<>>
    ELSE (IF TooDeep(e, policy) THEN <<Finding("reference_depth_exceeded", e.path)>> ELSE <<>>)
         \o (IF FileRefusal(e) # None THEN <<Finding(FileRefusal(e), e.path)>> ELSE <<>>)

Captured(tree) ==
    {i \in DOMAIN tree.entries :
        /\ Listed(tree, i)
        /\ tree.entries[i].kind \in {"file", "special"}
        /\ EntryRefusal(tree.entries[i]) = None
        /\ FileRefusal(tree.entries[i]) = None}

ScanFindings(tree, policy) ==
    FlattenSeq([i \in DOMAIN tree.entries |->
        IF Listed(tree, i) THEN EntryFindings(tree.entries[i], policy) ELSE <<>>])

ScannedFiles(tree) ==
    {[path |-> tree.entries[i].path, sha256 |-> tree.entries[i].sha,
      size |-> tree.entries[i].size, role |-> FileRole(tree.entries[i].path)] :
        i \in Captured(tree)}

-----------------------------------------------------------------------------
(* Policy, entrypoint and identity *)

PolicyFindings(tree, policy) ==
    LET paths == {tree.entries[i].path : i \in Captured(tree)}
    IN  FlattenSeq([i \in DOMAIN policy.required_files |->
            IF policy.required_files[i] \in paths THEN <<>>
            ELSE <<Finding("required_file_missing", policy.required_files[i])>>])
        \o FlattenSeq([i \in DOMAIN tree.entries |->
            IF /\ policy.check_reference_content
               /\ i \in Captured(tree)
               /\ tree.entries[i].path[1] = "references"
               /\ tree.entries[i].text # None
            THEN <<Finding(tree.entries[i].text, tree.entries[i].path)>>
            ELSE <<>>])

(* A skill that was not captured cannot be read; one that was is judged by *)
(* its decoded front matter: tree.skill is a code or the parsed record.    *)
SkillCaptured(tree) == \E i \in Captured(tree) : tree.entries[i].path = <<"SKILL.md">>

IdentityFindings(tree, policy) ==
    LET s == tree.skill
        f(code) == <<Finding(code, <<"SKILL.md">>)>>
    IN  IF ~SkillCaptured(tree) THEN f("unreadable_skill_md")
        ELSE IF s.error # None THEN f(s.error)
        ELSE (IF s.name = None THEN f("missing_name")
              ELSE IF s.name # tree.name THEN f("name_mismatch") ELSE <<>>)
             \o (IF s.described THEN <<>> ELSE f("missing_description"))
             \o (IF s.unknown_keys THEN f("unknown_frontmatter") ELSE <<>>)
             \o (IF policy.max_lines # None /\ s.lines > policy.max_lines
                 THEN f("entrypoint_line_budget_exceeded") ELSE <<>>)
             \o (IF s.name = tree.name /\ s.described /\ ~tree.kebab
                 THEN f("invalid_identity") ELSE <<>>)

SkillIdentity(tree) ==
    LET s == tree.skill
    IN  IF /\ SkillCaptured(tree)
           /\ s.error = None
           /\ s.name = tree.name /\ s.described /\ tree.kebab
        THEN [package_id |-> s.name, version |-> s.version]
        ELSE None

(* _candidate_package_id: a directory name that is no identifier is        *)
(* replaced by one derived from it and from the content.                   *)
CandidateId(tree, files) ==
    IF tree.portable THEN tree.name ELSE <<"invalid-package", tree.name, ContentDigest(files)>>

Candidate(tree, revision, files) ==
    [package_id      |-> CandidateId(tree, files),
     source_revision |-> revision.text,
     content_sha256  |-> ContentDigest(files)]

RootFindings(tree) ==
    IF tree.root # "directory" THEN <<Finding("invalid_package_root", <<>>)>>
    ELSE (IF tree.portable THEN <<>> ELSE <<Finding("invalid_package_root", <<>>)>>)
         \o (IF \E i \in DOMAIN tree.entries :
                 tree.entries[i].path = <<"SKILL.md">> /\ tree.entries[i].kind = "file"
             THEN <<>> ELSE <<Finding("missing_skill_md", <<"SKILL.md">>)>>)

(* The scan runs only below a regular directory with a regular SKILL.md. *)
Scannable(tree) ==
    tree.root = "directory" /\ \A i \in DOMAIN RootFindings(tree) :
        RootFindings(tree)[i].code # "missing_skill_md"

ValidateSkillPackage(tree, revision, policy) ==
    IF ~policy.valid
    THEN [candidate |-> None, status |-> "blocked", identity |-> None, files |-> {},
          findings |-> <<Finding("invalid_validation_policy", <<>>)>>]
    ELSE LET scan     == Scannable(tree)
             files    == IF scan THEN ScannedFiles(tree) ELSE {}
             findings == (IF revision.valid THEN <<>> ELSE <<Finding("invalid_source_revision", <<>>)>>)
                         \o RootFindings(tree)
                         \o (IF scan THEN ScanFindings(tree, policy) \o PolicyFindings(tree, policy)
                                          \o IdentityFindings(tree, policy)
                             ELSE <<>>)
         IN  [candidate |-> IF revision.valid THEN Candidate(tree, revision, files) ELSE None,
              status    |-> IF findings = <<>> THEN "pass" ELSE "blocked",
              identity  |-> IF scan THEN SkillIdentity(tree) ELSE None,
              files     |-> files,
              findings  |-> findings]

(* SkillPackageValidation: every finding of this validator blocks. *)
ValidationValid(v) ==
    /\ v.status = "pass" <=> v.findings = <<>>
    /\ v.status = "pass" =>
        /\ v.candidate # None /\ v.identity # None /\ v.files # {}
        /\ v.identity.package_id = v.candidate.package_id
    /\ \A f, g \in v.files : f.path = g.path => f = g
=============================================================================
