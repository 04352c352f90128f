---------------------------- MODULE PluginPackage ----------------------------
(***************************************************************************)
(* The validation of a whole plugin (validation/plugin_package.py,         *)
(* plugin_manifest.py and plugin_evidence.py, models/plugin.py) as         *)
(* operators over captures.  A capture is what PluginCapture returns, a    *)
(* tree as it stood at one moment but for rewrites that stat cannot tell:  *)
(*   [files: of each path its [data, size, mode], directories: paths]      *)
(* or None when it was refused.  A path is a sequence of names, and data   *)
(* is what the parsers of the repository find in the bytes.                *)
(***************************************************************************)
EXTENDS SkillPackage

CONSTANTS
    PluginNames,   \* the portable names of plugins
    SkillNames,    \* the portable names of skills
    MaxSkills      \* 128

PluginManifest  == <<"plugin.json">>
Overlay         == <<".codex-plugin", "plugin.json">>
McpManifest     == <<"mcp.json">>
NoPolicy        == [require_version |-> FALSE, require_description |-> FALSE]

Blocker(code) == [code |-> code, severity |-> "blocker"]
Warning(code) == [code |-> code, severity |-> "warning"]
FoundIf(condition, finding) == IF condition THEN {finding} ELSE {}
BlocksAny(findings) == \E f \in findings : f.severity = "blocker"

(* Only literal immediate entrypoints, not lookalike names. *)
IsSkillEntrypoint(path) == Len(path) = 3 /\ path[1] = "skills" /\ path[3] = "SKILL.md"

(* PluginCapturedFile: bytes and ordinary permissions. *)
CapturedFiles(files) ==
    {[path |-> p, sha256 |-> Digest(files[p].data), size |-> files[p].size, mode |-> files[p].mode] : p \in DOMAIN files}

PluginCandidate(name, revision, files) ==
    [package_id |-> <<"plugin", name>>, source_revision |-> revision, content_sha256 |-> ContentDigest(files)]

-----------------------------------------------------------------------------
(* parse_plugin_manifest *)

(* One JSON object within its budget, with the supported schema, a name,   *)
(* and known fields of their types.                                        *)
KnownFields(m) == m.object /\ m.schema /\ m.typed

(* The settings OpenAI reads: those inline, or else the overlay; never     *)
(* both merged.                                                            *)
Inline(m) == IF m.extensions = "object" THEN m.inline ELSE None
SettingsSource(files) ==
    IF Inline(files[PluginManifest].data) # None THEN "inline"
    ELSE IF Overlay \in DOMAIN files THEN "compatibility" ELSE "none"
Settings(files) ==
    CASE SettingsSource(files) = "inline"        -> Inline(files[PluginManifest].data)
      [] SettingsSource(files) = "compatibility" -> files[Overlay].data
      [] OTHER                                   -> None

Parsable(files) ==
    /\ PluginManifest \in DOMAIN files /\ KnownFields(files[PluginManifest].data)
    /\ files[PluginManifest].data.name \in PluginNames
    /\ SettingsSource(files) = "compatibility" => files[Overlay].data.object

ParsePluginManifest(files) ==
    LET m == files[PluginManifest].data
    IN  [name |-> m.name, version |-> m.version, description |-> m.description, source_sha256 |-> Digest(m),
         openai_settings_source |-> SettingsSource(files),
         openai_settings_sha256 |-> IF Settings(files) = None THEN None ELSE Digest(Settings(files))]

ManifestWarnings(files) ==
    LET m == files[PluginManifest].data
    IN  FoundIf(m.unknown, Warning("plugin_unknown_fields_ignored"))
        \cup FoundIf(m.extensions = "other", Warning("plugin_extensions_ignored"))

-----------------------------------------------------------------------------
(* Components *)

SkillPaths(paths) == {SubSeq(p, 1, 2) : p \in {q \in paths : IsSkillEntrypoint(q)}}
Within(path, p)   == Len(p) > 2 /\ SubSeq(p, 1, 2) = path

ChildFiles(path, records) ==
    {[path |-> SubSeq(r.path, 3, Len(r.path)), sha256 |-> r.sha256, size |-> r.size,
      role |-> FileRole(SubSeq(r.path, 3, Len(r.path)))] : r \in {q \in records : Within(path, q.path)}}

ChildTree(leaf, skill) ==
    [name |-> leaf, portable |-> leaf \in SkillNames, kebab |-> leaf \in SkillNames, skill |-> skill,
     entries |-> <<[path |-> <<"SKILL.md">>, kind |-> "file", mode |-> "readable", sha |-> None, size |-> 0, text |-> None]>>]
ChildPolicy == [max_lines |-> None, max_reference_depth |-> None, required_files |-> <<>>, check_reference_content |-> FALSE]

(* _child: one direct skill, from the captured bytes. *)
Child(path, capture, revision) ==
    LET tree     == ChildTree(path[2], capture.files[Append(path, "SKILL.md")].data)
        files    == ChildFiles(path, CapturedFiles(capture.files))
        findings == IdentityFindings(tree, ChildPolicy) \o
                    (IF tree.portable THEN <<>> ELSE <<Finding("invalid_package_root", <<>>)>>)
    IN  [path |-> path,
         validation |-> [candidate |-> Candidate(tree, [text |-> revision], files), identity |-> SkillIdentity(tree),
                         files |-> files, status |-> IF findings = <<>> THEN "pass" ELSE "blocked",
                         findings |-> findings]]

ComponentFindings(capture) ==
    LET paths == DOMAIN capture.files
    IN  FoundIf(\/ <<"skills">> \in paths \/ McpManifest \in capture.directories
                \/ \E d \in capture.directories : IsSkillEntrypoint(d), Blocker("plugin_component_kind_invalid"))
        \cup FoundIf(McpManifest \in paths, Warning("plugin_mcp_not_assessed"))

(* What the retained evidence itself proves must be found. *)
ProvedFindings(manifest, policy, paths, skills) ==
    FoundIf(McpManifest \in paths, Warning("plugin_mcp_not_assessed"))
    \cup FoundIf(\E x \in skills : x.validation.status = "blocked", Blocker("plugin_child_blocked"))
    \cup FoundIf(policy.require_version /\ manifest.version \in {None, "blank"}, Blocker("sdk_plugin_version_required"))
    \cup FoundIf(policy.require_description /\ manifest.description \in {None, "blank"},
                 Blocker("sdk_plugin_description_required"))

-----------------------------------------------------------------------------
(* validate_plugin_package *)

Unbound(policy, code) ==
    [status |-> "blocked", candidate |-> None, manifest |-> None, policy |-> policy, files |-> {},
     mode_manifest_sha256 |-> None, skills |-> {}, findings |-> {Blocker(code)}]

ValidatePlugin(first, second, revision, policy) ==
    IF policy = None THEN Unbound(NoPolicy, "plugin_input_invalid")
    ELSE IF revision = None \/ first = None THEN Unbound(policy, "plugin_input_invalid")
    ELSE IF ~Parsable(first.files) \/ Cardinality(SkillPaths(DOMAIN first.files)) > MaxSkills
    THEN Unbound(policy, "plugin_input_invalid")
    ELSE IF second = None THEN Unbound(policy, "plugin_input_invalid")
    ELSE IF first # second THEN Unbound(policy, "plugin_source_changed")
    ELSE LET records  == CapturedFiles(first.files)
             manifest == ParsePluginManifest(first.files)
             skills   == {Child(p, first, revision) : p \in SkillPaths(DOMAIN first.files)}
             findings == ManifestWarnings(first.files) \cup ComponentFindings(first)
                         \cup ProvedFindings(manifest, policy, DOMAIN first.files, skills)
         IN  [status    |-> IF BlocksAny(findings) THEN "blocked" ELSE "pass",
              candidate |-> PluginCandidate(manifest.name, revision, records),
              manifest  |-> manifest, policy |-> policy, files |-> records,
              mode_manifest_sha256 |-> Digest(records), skills |-> skills, findings |-> findings]

(* verify_plugin_package_validation: supplied evidence is recomputed. *)
VerifyPlugin(first, second, supplied, revision, policy) ==
    IF policy = None THEN Unbound(NoPolicy, "plugin_input_invalid")
    ELSE IF supplied = None THEN Unbound(policy, "plugin_evidence_invalid")
    ELSE LET fresh == ValidatePlugin(first, second, revision, policy)
         IN  IF fresh.status = "blocked" \/ fresh = supplied THEN fresh
             ELSE Unbound(policy, "plugin_evidence_mismatch")

-----------------------------------------------------------------------------
(* PluginPackageValidation: what an envelope must show for itself. *)

ChildValid(child, records, revision) ==
    LET v == child.validation
        c == v.candidate
    IN  /\ v.files = ChildFiles(child.path, records) /\ c # None
        /\ c.source_revision = revision /\ c.content_sha256 = ContentDigest(v.files)
        /\ c.package_id = CandidateId(ChildTree(child.path[2], None), v.files)
        /\ v.identity # None => v.identity.package_id = child.path[2] /\ v.identity.package_id = c.package_id

(* A wrong kind proved by a file, or by what lies below a directory. *)
KindInvalid(paths) ==
    \/ <<"skills">> \in paths
    \/ \E p \in paths : Len(p) > 1 /\ p[1] = "mcp.json"
    \/ \E p \in paths : Len(p) > 3 /\ IsSkillEntrypoint(SubSeq(p, 1, 3))

SettingsRetained(manifest, paths) ==
    /\ (manifest.openai_settings_source = "none") = (manifest.openai_settings_sha256 = None)
    /\ manifest.openai_settings_source = "compatibility" => Overlay \in paths
    /\ manifest.openai_settings_source = "none" => Overlay \notin paths

PluginValid(v) ==
    /\ (v.status = "blocked") = BlocksAny(v.findings)
    /\ IF v.candidate = None
       THEN /\ v.status = "blocked" /\ v.manifest = None /\ v.files = {} /\ v.skills = {}
            /\ v.mode_manifest_sha256 = None
       ELSE LET paths == {r.path : r \in v.files}
            IN  /\ v.manifest # None /\ PluginManifest \in paths
                /\ Cardinality(paths) = Cardinality(v.files)
                /\ KindInvalid(paths) => Blocker("plugin_component_kind_invalid") \in v.findings
                /\ \A p, q \in paths : ~IsStrictPrefix(p, q)
                /\ v.candidate = PluginCandidate(v.manifest.name, v.candidate.source_revision, v.files)
                /\ v.mode_manifest_sha256 = Digest(v.files)
                /\ \E r \in v.files : r.path = PluginManifest /\ r.sha256 = v.manifest.source_sha256
                /\ SettingsRetained(v.manifest, paths)
                /\ {s.path : s \in v.skills} = SkillPaths(paths)
                /\ \A s \in v.skills : ChildValid(s, v.files, v.candidate.source_revision)
                /\ ProvedFindings(v.manifest, v.policy, paths, v.skills) \subseteq v.findings
=============================================================================
