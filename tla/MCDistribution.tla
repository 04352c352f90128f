--------------------------- MODULE MCDistribution ---------------------------
(* Five machines for TLC, one chosen at the start: a host that mixes the   *)
(* receipts of a release, the runtime host that carries out plans, the     *)
(* checks of a plugin, the preparation of one, and its assessment before   *)
(* it is executed.                                                         *)
EXTENDS Release, RuntimeHost, PluginQuality, PluginNormalization, PluginSafety

VARIABLE machine

allVars == <<machine, vars, hostVars, pluginVars, normVars, safetyVars>>

-----------------------------------------------------------------------------
(* Releases: three versions of one skill, two source revisions, a lax and  *)
(* a strict validation policy.                                             *)

Entry(path, kind, mode, sha, size) ==
    [path |-> path, kind |-> kind, mode |-> mode, sha |-> sha, size |-> size, text |-> None]

Skill(name, version) ==
    [error |-> None, name |-> name, described |-> TRUE, unknown_keys |-> FALSE, lines |-> 2, version |-> version]

Tree(name, version, entries) ==
    [root |-> "directory", name |-> name, portable |-> TRUE, kebab |-> TRUE,
     entries |-> entries, skill |-> Skill(name, version)]

First  == Tree("alpha", "1.0.0",
            << Entry(<<"README.md">>, "file", "readable", "readme", 1),
               Entry(<<"SKILL.md">>, "file", "readable", "one", 1) >>)
(* Without a README it does not pass hardening. *)
Second == Tree("alpha", "2.0.0", << Entry(<<"SKILL.md">>, "file", "readable", "two", 1) >>)
(* Packaged and prepared, but the lifecycle screens one of its paths. *)
Third  == Tree("alpha", "3.0.0",
            << Entry(<<".env">>, "dir", "readable", "", 0),
               Entry(<<"README.md">>, "file", "readable", "readme", 1),
               Entry(<<"SKILL.md">>, "file", "readable", "three", 1),
               Entry(<<"references">>, "dir", "readable", "", 0),
               Entry(<<"references", "home">>, "file", "readable", "x", 3) >>)

(* Its receipt id looks like a credential. *)
Stem   == Tree("sk", "1.0.0",
            << Entry(<<"README.md">>, "file", "readable", "readme", 1),
               Entry(<<"SKILL.md">>, "file", "readable", "four", 1) >>)

SkillPolicy(required, lines) ==
    [valid |-> TRUE, max_reference_depth |-> None, required_files |-> required,
     check_reference_content |-> FALSE, max_lines |-> lines]
Lax    == SkillPolicy(<<>>, None)
Strict == SkillPolicy(<<<<"evals", "cases.json">>>>, 1)

From(tree, revision, rules) ==
    [tree |-> tree, revision |-> [text |-> revision, valid |-> revision # "main"], policy |-> rules]
MCSources == { From(First, "r1", Lax), From(First, "r2", Lax), From(First, "r1", Strict),
               From(Second, "r1", Lax), From(Third, "r1", Lax), From(Third, "main", Lax),
               From(Stem, "r1", Lax) }

MCHardeningPolicies  == {[max_file_count |-> 1, max_total_bytes |-> 3, require_readme |-> TRUE]}

MCRequests(r) ==
    IF r = None THEN {} ELSE
    LET own == IF r.manifest = None THEN {} ELSE {<<r.candidate.package_id, r.manifest.version>>}
    IN  {[registry |-> "private", package_name |-> w[1], version |-> w[2], evidence |-> {<<"docs">>}] :
            w \in {<<"alpha", "1.0.0">>} \cup own}

Packed(path, size, sha, manifest) ==
    [path |-> path, portable |-> TRUE, coding |-> "stored", link |-> FALSE,
     size |-> size, sha |-> sha, manifest |-> manifest]
Pack(manifest) ==
    <<Packed(ArchiveManifest, 1, "json", manifest)>>
    \o SetToSeq({Packed(f.path, f.size, f.sha256, None) : f \in manifest.files})
File(entries) == [file |-> "regular", size |-> Len(entries), central |-> TRUE, entries |-> entries]

MCArchives(r) ==
    IF r = None \/ r.manifest = None THEN {} ELSE
    LET whole == Pack(r.manifest)
    IN  { File(whole), File(Tail(whole)), File(SubSeq(whole, 1, Len(whole) - 1)),
          File(Append(whole, Packed(<<"extra">>, 1, "x", None))), File(Append(whole, whole[1])),
          File([whole EXCEPT ![2].sha = "swapped"]),
          File(Pack([r.manifest EXCEPT !.version = "9.9.9"])),
          File(Pack([r.manifest EXCEPT !.files = {f \in @ : f.path = <<"SKILL.md">>}])),
          [File(whole) EXCEPT !.central = FALSE] }
MCArchivePolicies == {[max_archive_bytes |-> 9, max_entry_count |-> 5, max_total_bytes |-> 20]}

-----------------------------------------------------------------------------
(* Two revisions of one skill, ready to be planned. *)
Ready(from) ==
    LET p == BuildSkillPackage(ValidateSkillPackage(from.tree, from.revision, from.policy))
        h == HardenSkillPackage(p, [max_file_count |-> 9, max_total_bytes |-> 9, require_readme |-> FALSE])
        r == [registry |-> "private", package_name |-> "alpha", evidence |-> {<<"docs">>}, version |-> p.manifest.version]
    IN  [package |-> p, prepared |-> Prepare(p, h, r)]
MCReleases == {Ready(From(First, "r1", Lax)), Ready(From(Second, "r2", Lax))}

-----------------------------------------------------------------------------
(* Plugins of two skills and two images.                                   *)

Held(data) == [data |-> data, size |-> 1, mode |-> 420]
Document(name, version) ==
    [error |-> None, name |-> name, described |-> TRUE, unknown_keys |-> FALSE, lines |-> 3, version |-> version]
Image(width, height) == [format |-> "png", width |-> width, height |-> height, still |-> TRUE, complete |-> TRUE]

SkillFile(leaf) == <<"skills", leaf, "SKILL.md">>
Icon == <<"assets", "icon.png">>
Shot == <<"assets", "shot.png">>

Look == [object |-> TRUE, icons |-> [logo |-> Icon, composerIcon |-> Icon], screenshots |-> <<Shot>>, onboarding |-> None]
RootData(name, version) ==
    [object |-> TRUE, schema |-> TRUE, typed |-> TRUE, name |-> name, version |-> version, description |-> "text",
     unknown |-> FALSE, extensions |-> "object", inline |-> Look]

GoodPlugin ==
    [files |-> (PluginManifest :> Held(RootData("plugin", "1"))) @@ (SkillFile("one") :> Held(Document("one", "1")))
               @@ (SkillFile("two") :> Held(Document("two", "1"))) @@ (Icon :> Held(Image(2, 2)))
               @@ (Shot :> Held(Image(1, 3))),
     directories |-> {<<"skills">>, <<"skills", "one">>, <<"skills", "two">>, <<"assets">>}]

EditedSkill == [GoodPlugin EXCEPT !.files[SkillFile("one")] = Held(Document("one", "2"))]
EditedIcon  == [GoodPlugin EXCEPT !.files[Icon] = Held(Image(3, 3))]
Chmod       == [GoodPlugin EXCEPT !.files[Icon].mode = 384]
OtherPlugin == [GoodPlugin EXCEPT !.files[PluginManifest] = Held(RootData("other", "1"))]
PrivateText == [GoodPlugin EXCEPT !.files[PluginManifest] = Held(RootData("plugin", "private"))]
MCTrees == {GoodPlugin, EditedSkill, EditedIcon, Chmod, OtherPlugin, PrivateText, None}

MCFormats == [n \in {"icon.png", "shot.png", "SKILL.md", "plugin.json"} |-> IF n \in {"icon.png", "shot.png"} THEN "png" ELSE None]

-----------------------------------------------------------------------------
(* Calls *)

CandidateOf(t) == PluginCandidate(t.files[PluginManifest].data.name, "rev", CapturedFiles(t.files))
Modes(t)       == Digest(CapturedFiles(t.files))
Requested(t, leaf) ==
    [path |-> <<"skills", leaf>>, candidate |-> Child(<<"skills", leaf>>, t, "rev").validation.candidate,
     intent |-> "create", review |-> "supplied", sound |-> TRUE, snapshot |-> None, selected |-> None]
RequestOf(t) ==
    [candidate |-> CandidateOf(t), mode |-> Modes(t), children |-> <<Requested(t, "one"), Requested(t, "two")>>, snapshot |-> None]
Approved(t, p, kind) ==
    [candidate |-> CandidateOf(t), path |-> p, sha256 |-> Digest(t.files[p].data), kind |-> kind,
     criteria |-> IF kind = "icon" THEN TRUE ELSE None]
Presented(t) ==
    [candidate |-> CandidateOf(t), mode |-> Modes(t), approvals |-> {Approved(t, Icon, "icon"), Approved(t, Shot, "screenshot")},
     copy |-> [candidate |-> CandidateOf(t), settings |-> Digest(Settings(t.files))]]

(* The icon was approved as it was before. *)
EarlierIcon == [Approved(GoodPlugin, Icon, "icon") EXCEPT !.sha256 = Digest(Image(3, 3))]

GoodCall ==
    LET r == RequestOf(GoodPlugin)
    IN  [request |-> r, presentation |-> Presented(GoodPlugin), public |-> TRUE,
         assessments |-> [p \in {r.children[1].path, r.children[2].path} |-> Requested(GoodPlugin, p[2]).candidate]]
MCPluginCalls ==
    {GoodCall, [GoodCall EXCEPT !.presentation = None], [GoodCall EXCEPT !.presentation.approvals = {Approved(GoodPlugin, Shot, "screenshot"), EarlierIcon}],
     [GoodCall EXCEPT !.assessments = None], [GoodCall EXCEPT !.public = FALSE],
     [GoodCall EXCEPT !.request.children[1].intent = "update"],
     [GoodCall EXCEPT !.request.children[2].sound = FALSE]}

(* A second caller comes only with the good call, and a plugin that was    *)
(* edited before the call is called on as the good one was.                *)
PluginsInit ==
    /\ PluginInit /\ callers[1] = "out"
    /\ call # GoodCall => callers[2] = "absent" /\ pluginTree \in {GoodPlugin, EditedIcon}
PluginsIdle ==
    /\ pluginTree = None /\ rewrites = 0 /\ call = None /\ callers = [c \in {1, 2} |-> "out"]
    /\ jobs = [c \in {1, 2} |-> NoJob] /\ slots = 0 /\ down = FALSE

-----------------------------------------------------------------------------
(* Standalone skills *)

Standalone ==
    [files |-> (<<"SKILL.md">> :> Held(Document("one", "1")))
               @@ (<<"scripts", "run">> :> [data |-> [text |-> "run"], size |-> 1, mode |-> 493]),
     directories |-> {<<"scripts">>}]
MCSkills ==
    {Standalone, [Standalone EXCEPT !.files[<<"SKILL.md">>] = Held(Document("one", "2"))],
     [Standalone EXCEPT !.files[<<"scripts", "run">>].mode = 420],
     [Standalone EXCEPT !.directories = @ \cup {<<"empty">>}],
     [Standalone EXCEPT !.directories = @ \cup {<<"empty">>, <<"more">>}],
     [Standalone EXCEPT !.files = [p \in {<<"scripts", "run">>} |-> @[p]]]}

GoodMetadata == [name |-> "plugin", version |-> "1", description |-> "text", bounded |-> TRUE]
GoodOrder    == [revision |-> "rev", decision |-> "admit", owner |-> "owner", metadata |-> GoodMetadata]
MCOrders     ==
    {GoodOrder, [GoodOrder EXCEPT !.decision = "block"], [GoodOrder EXCEPT !.metadata.version = "blank"],
     [GoodOrder EXCEPT !.metadata.bounded = FALSE]}
Wrapped(version) ==
    [files |-> (PluginManifest :> Held([RootData("plugin", "1") EXCEPT !.extensions = "absent", !.inline = None]))
               @@ (SkillFile("one") :> Held(Document("one", version))),
     directories |-> {<<"skills">>, <<"skills", "one">>}]

MCStrangers == {Wrapped("1"), Wrapped("2")}
MCJunk      == Held([object |-> FALSE, error |-> "undecodable"])
NormIdle ==
    /\ source = None /\ made = None /\ place = None /\ order = None /\ at = "done" /\ intake = None /\ taken = None
    /\ todo = <<>> /\ first = None /\ validation = None /\ latest = None /\ receipt = None /\ edits = 0

-----------------------------------------------------------------------------
(* Assurances: as they should be for one of two plugins, and with one      *)
(* thing wrong.  The second version of a skill fetches; a mode of 493 runs *)
(* an image.                                                               *)

Fetching == {[code |-> "untrusted_external_content_acquisition", category |-> "external_service"],
             [code |-> "external_write_capability", category |-> "external_service"]}
MCIndicators(path, data) == IF path = <<"SKILL.md">> /\ data.version = "2" THEN Fetching ELSE {}

Runs      == [GoodPlugin EXCEPT !.files[Icon].mode = 493]
Demanding == [require_version |-> TRUE, require_description |-> TRUE]
ValidationOf(t) == ValidatePlugin(t, t, "rev", Demanding)

(* What the signatures find in the second version, from outside the model. *)
Fetched ==
    {[code |-> i.code, category |-> i.category, refs |-> {SkillFile("one")}] :
        i \in Fetching \cup {[code |-> "composed_capability_risk", category |-> "external_service"]}}
ScreeningOf(t, findings) ==
    [candidate |-> CandidateOf(t), sensors |-> <<"sdk-static-signature-v1">>, paths |-> DOMAIN t.files, findings |-> findings,
     status |-> IF findings = {} THEN "pass" ELSE "needs_review"]

Review(status) == [status |-> status, ids |-> {"capability-checklist"}]
AllReviewed     == [check \in Source!SafetyChecks |-> Review("reviewed_no_issue")]
Except(check)   == [AllReviewed EXCEPT ![check] = Review("not_applicable")]

Assured(v, found, checklist) ==
    [validation |-> v, screening |-> found, checklist |-> checklist, method |-> "combined", observed |-> 1,
     evidence |-> [id \in {"plugin-capture", "static-screening", "capability-checklist"} |->
         [kind   |-> "combined",
          sha256 |-> CASE id = "plugin-capture" -> v [] id = "static-screening" -> found [] OTHER -> checklist]]]
AssuranceOf(t, findings, checklist) == Assured(ValidationOf(t), ScreeningOf(t, findings), checklist)

GoodAssurance == AssuranceOf(GoodPlugin, {}, AllReviewed)
MCAssurances ==
    {None, GoodAssurance, AssuranceOf(EditedSkill, Fetched, AllReviewed), AssuranceOf(Runs, {}, AllReviewed),
     AssuranceOf(GoodPlugin, {}, Except("network_and_external_writes")),
     AssuranceOf(EditedSkill, {}, Except("network_and_external_writes")),
     AssuranceOf(EditedSkill, Fetched, Except("network_and_external_writes")),
     AssuranceOf(Runs, {}, Except("filesystem_and_subprocess")),
     [GoodAssurance EXCEPT !.method = "metadata"], [GoodAssurance EXCEPT !.method = "manual"],
     [GoodAssurance EXCEPT !.evidence["static-screening"].sha256 = None],
     [GoodAssurance EXCEPT !.validation = ValidationOf(EditedIcon)]}

MCPlugins  == MCTrees \cup {Runs}
MCPolicies == {NoPolicy, Demanding}

(* Without the policy it was made for, one assurance is enough. *)
SafetyStarts ==
    /\ SafetyInit
    /\ plugin \in {GoodPlugin, EditedSkill, Runs} /\ (policy # Demanding => given = GoodAssurance)
SafetyIdle ==
    /\ plugin = None /\ rewritten = 0 /\ given = None /\ policy = None /\ stage = "settled" /\ checked = None
    /\ former = None /\ screening = None /\ confirmed = None /\ verdict = None

-----------------------------------------------------------------------------
(* The five machines *)

MCInit ==
    /\ machine \in {"release", "host", "plugins", "normalization", "safety"}
    /\ Init /\ HostInit
    /\ IF machine = "plugins" THEN PluginsInit ELSE PluginsIdle
    /\ IF machine = "normalization" THEN NormInit ELSE NormIdle
    /\ IF machine = "safety" THEN SafetyStarts ELSE SafetyIdle

OfPlugins(A) == machine = "plugins" /\ A /\ UNCHANGED <<machine, vars, hostVars, normVars, safetyVars>>
OfNorm(A)    == machine = "normalization" /\ A /\ UNCHANGED <<machine, vars, hostVars, pluginVars, safetyVars>>
OfSafety(A)  == machine = "safety" /\ A /\ UNCHANGED <<machine, vars, hostVars, pluginVars, normVars>>

(* A check of a plugin, its preparation, or its assessment comes to its    *)
(* end.                                                                    *)
Over ==
    \/ machine = "plugins" /\ (\A c \in {1, 2} : callers[c] # "out" /\ Ended(c)) /\ UNCHANGED allVars
    \/ machine = "normalization" /\ at = "done" /\ UNCHANGED allVars
    \/ machine = "safety" /\ stage = "settled" /\ UNCHANGED allVars

MCNext ==
    \/ machine = "release" /\ Next /\ UNCHANGED <<machine, hostVars, pluginVars, normVars, safetyVars>>
    \/ machine = "host" /\ HostNext /\ UNCHANGED <<machine, vars, pluginVars, normVars, safetyVars>>
    \/ OfPlugins(PluginNext) \/ OfNorm(NormNext) \/ OfSafety(SafetyNext)
    \/ Over

MCSpec == MCInit /\ [][MCNext]_allVars

(* Whatever the SDK hands out satisfies its own contract, planning answers *)
(* every lawful input, and a plugin passes its check only as it was        *)
(* captured last, reviewed and approved.                                   *)
ContractsHold ==
    /\ machine = "release" => ReceiptsValid /\ PlanningAnswers
    /\ machine = "plugins" => PluginAnswers /\ PluginsEarned
    /\ machine = "normalization" => NormalizationAnswers
=============================================================================
