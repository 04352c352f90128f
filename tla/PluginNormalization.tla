------------------------- MODULE PluginNormalization -------------------------
(***************************************************************************)
(* normalize_standalone_skill_package (intake/plugin_normalization.py and  *)
(* models/plugin_normalization.py): a standalone skill is admitted,        *)
(* captured, and written entry by entry below a new directory; the new     *)
(* plugin is validated by its name, the source is captured again, then the *)
(* directory through its descriptor, then its name is looked up again.     *)
(* Others may meanwhile edit the source, edit what was created, and bind   *)
(* the destination's name to another directory.                            *)
(*                                                                         *)
(* A capture sees the tree at one moment: what PluginCapture promises when *)
(* no two rewrites of a file look the same to stat.  An order names the    *)
(* revision, the decision of the intake, the owner and the root metadata.  *)
(***************************************************************************)
EXTENDS PluginPackage

CONSTANTS
    Skills,      \* what the standalone skill may hold
    Strangers,   \* what another directory may hold
    Orders,
    SkillName,   \* the name of the source directory
    Junk,        \* data that somebody else writes
    CaptureFiles, CaptureResources, CaptureDepth,
    MaxEdits     \* bound on the others

VARIABLES
    source,      \* the standalone skill now
    made,        \* the directory that this call created, or None
    place,       \* what the destination names: own is the created directory
    order,
    at,          \* the next step
    intake,      \* the receipt of the intake
    taken,       \* the capture of the source
    todo,        \* the entries still to be written
    first,       \* the first capture of the validation
    validation,
    latest,      \* what the last capture of either tree returned
    receipt,
    edits        \* what the others did

held == <<intake, taken, todo, first, validation, latest, receipt>>
normVars == <<source, made, place, order, at, held, edits>>

Text(value) == value \notin {None, "blank"}

-----------------------------------------------------------------------------
(* The plugin that the source becomes *)

MetadataValid(m) == m.name \in PluginNames /\ Text(m.version) /\ Text(m.description) /\ m.bounded

(* _canonical_normalization_manifest *)
Canonical(m) ==
    [object |-> TRUE, schema |-> TRUE, typed |-> TRUE, name |-> m.name, version |-> m.version,
     description |-> m.description, unknown |-> FALSE, extensions |-> "absent", inline |-> None]
ManifestFile(m) == [data |-> Canonical(m), size |-> 1, mode |-> 420]

Below(path) == <<"skills", SkillName>> \o path
Inner(path) == SubSeq(path, 3, Len(path))

(* A capture lists the directories of its files. *)
DirectoryPaths(t) == {<<"skills">>, Below(<<>>)} \cup {Below(d) : d \in t.directories}

Wrap(t, m) ==
    [files |-> [p \in {PluginManifest} \cup {Below(q) : q \in DOMAIN t.files} |->
                   IF p = PluginManifest THEN ManifestFile(m) ELSE t.files[Inner(p)]],
     directories |-> DirectoryPaths(t)]

(* The wrapper fits what a capture may hold. *)
FitsWrapped(t) ==
    /\ Cardinality(DOMAIN t.files) + 1 <= CaptureFiles
    /\ Cardinality(DOMAIN t.files) + 1 + Cardinality(DirectoryPaths(t)) <= CaptureResources
    /\ \A d \in DirectoryPaths(t) : Len(d) <= CaptureDepth

-----------------------------------------------------------------------------
(* Intake, and receipts *)

(* Files are opened one after another: each as it is at one of two moments *)
Mixed(a, b) ==
    {[files |-> [p \in (DOMAIN a.files \ late) \cup (DOMAIN b.files \cap late) |->
                    IF p \in late THEN b.files[p] ELSE a.files[p]],
      directories |-> a.directories] :
        late \in SUBSET {p \in DOMAIN a.files \cup DOMAIN b.files :
                            p \in DOMAIN a.files \cap DOMAIN b.files => a.files[p] # b.files[p]}}

Validated(t) ==
    IF <<"SKILL.md">> \notin DOMAIN t.files
    THEN [candidate |-> None, identity |-> None, files |-> {}, status |-> "blocked"]
    ELSE LET v == Child(Below(<<>>), [t EXCEPT !.files = [p \in {Below(q) : q \in DOMAIN @} |-> @[Inner(p)]]], order.revision)
         IN  [candidate |-> v.validation.candidate, identity |-> v.validation.identity,
              files |-> v.validation.files, status |-> v.validation.status]

Admit(t) == [validation |-> Validated(t), decision |-> order.decision, owner |-> order.owner, revision |-> order.revision]

(* A passing validation is retained only when the source is its one skill. *)
RetainedMatches(i, v) ==
    (v # None /\ v.status = "pass") =>
        Cardinality(v.skills) = 1 /\ \A s \in v.skills : s.validation.candidate = i.validation.candidate

Blocked(i, v, code, created) ==
    [status |-> "blocked", source |-> i, validation |-> IF RetainedMatches(i, v) THEN v ELSE None,
     package |-> None, blocker |-> code, created |-> created]

NormalizedPackage(i, v) ==
    [identity |-> [package_id |-> v.candidate.package_id, name |-> v.manifest.name, version |-> v.manifest.version],
     source |-> [package_id |-> v.candidate.package_id, revision |-> i.revision, content_sha256 |-> v.candidate.content_sha256],
     owner |-> i.owner]

(* _prepared_output_matches_source: paths and bytes, not modes. *)
OutputMatches(i, v) ==
    LET m == [name |-> v.manifest.name, version |-> v.manifest.version, description |-> v.manifest.description]
    IN  /\ {[path |-> f.path, sha256 |-> f.sha256, size |-> f.size] : f \in v.files}
           = {[path |-> PluginManifest, sha256 |-> Digest(Canonical(m)), size |-> 1]}
             \cup {[path |-> Below(f.path), sha256 |-> f.sha256, size |-> f.size] : f \in i.validation.files}
        /\ v.manifest.source_sha256 = Digest(Canonical(m)) /\ v.manifest.openai_settings_source = "none"
        /\ \A f \in v.files : f.path = PluginManifest => f.mode = 420

(* PluginNormalizationReceipt *)
NormalizationValid(r) ==
    /\ RetainedMatches(r.source, r.validation)
    /\ IF r.status = "blocked"
       THEN r.blocker # None /\ r.package = None /\ (r.validation # None => r.created)
       ELSE /\ r.created /\ r.blocker = None /\ r.validation # None
            /\ r.source.validation.status = "pass" /\ r.source.decision = "admit"
            /\ r.validation.status = "pass" /\ Text(r.validation.manifest.version) /\ Text(r.validation.manifest.description)
            /\ r.validation.policy.require_version /\ r.validation.policy.require_description
            /\ OutputMatches(r.source, r.validation)
            /\ r.package = NormalizedPackage(r.source, r.validation)

-----------------------------------------------------------------------------
(* The steps *)

Then(step) == at' = step
Stop(r)    == at' = "done" /\ receipt' = r
Unpaid     == UNCHANGED <<source, place, order, edits>>

IntakeSource ==
    /\ at = "intake"
    /\ \E later \in {source} \cup (IF edits < MaxEdits THEN Skills ELSE {}) : \E t \in Mixed(source, later) :
           LET i == Admit(t)
           IN  /\ intake' = i
               /\ IF i.validation.status # "pass" THEN Stop(Blocked(i, None, "standalone_skill_blocked", FALSE))
                  ELSE IF i.decision # "admit" THEN Stop(Blocked(i, None, "decision_blocked", FALSE))
                  ELSE IF ~MetadataValid(order.metadata) THEN Stop(Blocked(i, None, "plugin_metadata_invalid", FALSE))
                  ELSE Then("capture") /\ UNCHANGED receipt
    /\ UNCHANGED <<made, taken, todo, first, validation, latest>> /\ Unpaid

(* _same_skill_capture: the files, by path and bytes. *)
SameSkill(t) == ChildFiles(Below(<<>>), CapturedFiles([p \in {Below(q) : q \in DOMAIN t.files} |-> t.files[Inner(p)]])) = intake.validation.files

Entries(t) ==
    SetToSortSeq(DirectoryPaths(t), LAMBDA d, e : Len(d) < Len(e)) \o <<PluginManifest>>
    \o SetToSeq({Below(p) : p \in DOMAIN t.files})

(* A capture is refused when it meets a change, an entry that no plugin    *)
(* may have, or an error of the file system.                               *)
CaptureSource ==
    /\ at = "capture"
    /\ \/ \E code \in {"standalone_source_capture_blocked", "standalone_source_unavailable"} :
              Stop(Blocked(intake, None, code, FALSE)) /\ UNCHANGED <<taken, todo>>
       \/ /\ taken' = source
          /\ IF ~SameSkill(source) THEN Stop(Blocked(intake, None, "source_changed", FALSE)) /\ UNCHANGED todo
             ELSE IF ~FitsWrapped(source)
             THEN Stop(Blocked(intake, None, "standalone_source_capacity_exceeded", FALSE)) /\ UNCHANGED todo
             ELSE Then("create") /\ todo' = Entries(source) /\ UNCHANGED receipt
    /\ UNCHANGED <<made, intake, first, validation, latest>> /\ Unpaid

(* mkdir of the destination, and its opening by name: one step, for only   *)
(* the caller may write its parent; that the opening fails is that the     *)
(* first entry does.                                                       *)
CreateDestination ==
    /\ at = "create"
    /\ \/ Stop(Blocked(intake, None, "candidate_normalization_failed", FALSE)) /\ UNCHANGED <<made, place>>
       \/ IF place.tree # None
          THEN Stop(Blocked(intake, None, "candidate_destination_exists", FALSE)) /\ UNCHANGED <<made, place>>
          ELSE /\ made' = [files |-> <<>>, directories |-> {}] /\ place' = [own |-> TRUE, tree |-> None]
               /\ Then("write") /\ UNCHANGED receipt
    /\ UNCHANGED <<source, order, edits, intake, taken, todo, first, validation, latest>>

Exists(t, path)   == path \in DOMAIN t.files \cup t.directories
Creatable(path)   == ~Exists(made, path) /\ (Len(path) > 1 => Front(path) \in made.directories)
Written(path) ==
    IF path = PluginManifest THEN ManifestFile(order.metadata) ELSE taken.files[Inner(path)]

(* Each entry is created exclusively, below the retained descriptor. *)
WriteEntry ==
    /\ at = "write" /\ todo # <<>>
    /\ LET path == Head(todo)
       IN  \/ /\ Stop(Blocked(intake, None, "candidate_normalization_failed", TRUE)) /\ UNCHANGED <<made, todo>>
           \/ /\ Creatable(path) /\ todo' = Tail(todo) /\ UNCHANGED <<receipt, at>>
              /\ made' = IF path \in DirectoryPaths(taken)
                         THEN [made EXCEPT !.directories = @ \cup {path}]
                         ELSE [made EXCEPT !.files = (path :> Written(path)) @@ @]
    /\ UNCHANGED <<intake, taken, first, validation, latest>> /\ Unpaid

(* validate_plugin_package captures, by name, twice. *)
Destination == IF place.own THEN made ELSE place.tree
Policy == [require_version |-> TRUE, require_description |-> TRUE]

ValidateFirst ==
    /\ at = "write" /\ todo = <<>>
    /\ first' = Destination /\ Then("validate")
    /\ UNCHANGED <<made, intake, taken, todo, validation, latest, receipt>> /\ Unpaid

ValidateSecond ==
    /\ at = "validate"
    /\ validation' = ValidatePlugin(first, Destination, order.revision, Policy) /\ Then("source")
    /\ UNCHANGED <<made, intake, taken, todo, first, latest, receipt>> /\ Unpaid

Refuse(code) == Stop(Blocked(intake, validation, code, TRUE))

(* Defect: the source is not captured again. *)
RecheckSourceTrusted ==
    /\ at = "source"
    /\ latest' = [latest EXCEPT !.source = source]
    /\ IF validation.status # "pass" THEN Refuse("plugin_blocked")
       ELSE IF Cardinality(validation.skills) # 1 \/ ~RetainedMatches(intake, validation)
       THEN Refuse("standalone_candidate_binding_mismatch")
       ELSE Then("made") /\ UNCHANGED receipt
    /\ UNCHANGED <<made, intake, taken, todo, first, validation>> /\ Unpaid

(* The source is captured again, empty directories and modes included.     *)
RecheckSource ==
    /\ at = "source"
    /\ \/ Refuse("source_recheck_failed") /\ UNCHANGED latest
       \/ /\ latest' = [latest EXCEPT !.source = source]
          /\ IF source # taken THEN Refuse("source_changed")
             ELSE IF validation.status # "pass" THEN Refuse("plugin_blocked")
             ELSE IF Cardinality(validation.skills) # 1 \/ ~RetainedMatches(intake, validation)
             THEN Refuse("standalone_candidate_binding_mismatch")
             ELSE Then("made") /\ UNCHANGED receipt
    /\ UNCHANGED <<made, intake, taken, todo, first, validation>> /\ Unpaid

(* The created directory is captured through its descriptor. *)
RecheckMade ==
    /\ at = "made"
    /\ \/ Refuse("normalized_candidate_recheck_failed") /\ UNCHANGED latest
       \/ latest' = [latest EXCEPT !.made = made] /\ Then("name") /\ UNCHANGED receipt
    /\ UNCHANGED <<made, intake, taken, todo, first, validation>> /\ Unpaid

(* What was captured, and what was validated, is what was to be written.   *)
AsWritten ==
    LET expected == Wrap(taken, order.metadata)
        m        == validation.manifest
    IN  /\ latest.made = expected /\ validation.files = CapturedFiles(expected.files)
        /\ m.name = order.metadata.name /\ m.version = order.metadata.version /\ m.description = order.metadata.description
        /\ m.source_sha256 = Digest(Canonical(order.metadata))
        /\ validation.candidate.source_revision = order.revision
        /\ validation.candidate.content_sha256 = ContentDigest(CapturedFiles(expected.files))

Prepared == [status |-> "prepared", source |-> intake, validation |-> validation,
             package |-> NormalizedPackage(intake, validation), blocker |-> None, created |-> TRUE]

(* _same_created_directory: the name is looked up again. *)
RecheckName ==
    /\ at = "name"
    /\ latest' = [latest EXCEPT !.own = place.own]
    /\ \/ Refuse("normalized_candidate_recheck_failed")
       \/ /\ place.own \/ place.tree # None
          /\ IF ~place.own \/ ~AsWritten THEN Refuse("normalized_candidate_changed") ELSE Stop(Prepared)
    /\ UNCHANGED <<made, intake, taken, todo, first, validation>> /\ Unpaid

-----------------------------------------------------------------------------
(* The others *)

Edits == at \notin {"intake", "done"} /\ edits < MaxEdits /\ edits' = edits + 1 /\ UNCHANGED <<order, at, held>>

EditSource == source' \in Skills \ {source} /\ UNCHANGED <<made, place>> /\ Edits

Tampered(t) ==
    {[t EXCEPT !.files = (Below(<<"extra">>) :> Junk) @@ @], [t EXCEPT !.directories = @ \cup {Below(<<"empty">>)}]}
    \cup {[t EXCEPT !.files[p] = Junk] : p \in DOMAIN t.files}
    \cup {[t EXCEPT !.files[p].mode = 511] : p \in DOMAIN t.files}
    \cup {[t EXCEPT !.directories = @ \ {d}] : d \in {e \in t.directories : ~ \E p \in DOMAIN t.files \cup t.directories : IsStrictPrefix(e, p)}}
EditMade == made # None /\ made' \in Tampered(made) /\ UNCHANGED <<source, place>> /\ Edits

MoveDestination ==
    /\ made # None
    /\ place' \in {[own |-> TRUE, tree |-> None]} \cup {[own |-> FALSE, tree |-> t] : t \in Strangers \cup {None}}
    /\ place' # place
    /\ UNCHANGED <<source, made>> /\ Edits

-----------------------------------------------------------------------------
NormInit ==
    /\ source \in Skills /\ order \in Orders /\ made = None
    /\ place \in {[own |-> FALSE, tree |-> t] : t \in Strangers \cup {None}}
    /\ at = "intake" /\ intake = None /\ taken = None /\ todo = <<>> /\ first = None /\ validation = None
    /\ latest = [source |-> None, made |-> None, own |-> FALSE] /\ receipt = None /\ edits = 0

Normalize ==
    \/ IntakeSource \/ CaptureSource \/ CreateDestination \/ WriteEntry \/ ValidateFirst \/ ValidateSecond
    \/ RecheckSource \/ RecheckMade \/ RecheckName
Others == EditSource \/ EditMade \/ MoveDestination

NormNext == Normalize \/ Others

NormSpec == NormInit /\ [][NormNext]_normVars

-----------------------------------------------------------------------------
(* A prepared candidate is the admitted skill: what the created directory  *)
(* held when it was last captured is the wrapping of what the source held  *)
(* when it was last captured, its bytes, modes and empty directories; the  *)
(* destination's name still was that directory; and the skill validated in *)
(* it is the candidate the intake admitted, although each of these was     *)
(* read at another moment, some of them by name.                           *)
PreparedFaithful ==
    (receipt # None /\ receipt.status = "prepared") =>
        /\ latest.made = Wrap(latest.source, order.metadata) /\ latest.own
        /\ validation.files = CapturedFiles(latest.made.files)
        /\ \A s \in validation.skills : s.validation.candidate = intake.validation.candidate
        /\ intake = Admit(latest.source)

(* Each receipt keeps its contract, and says that a candidate was created  *)
(* if and only if this call made the directory.                            *)
NormalizationAnswers ==
    receipt # None => NormalizationValid(receipt) /\ receipt.created = (made # None)
=============================================================================
