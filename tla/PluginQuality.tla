---------------------------- MODULE PluginQuality ----------------------------
(***************************************************************************)
(* check_plugin_quality (evaluation/plugin_quality.py) and its result      *)
(* (models/plugin_quality.py): callers that share two slots and the two    *)
(* worker threads of an executor, each of which captures the plugin,       *)
(* checks its children and its presentation in order, stops at the first   *)
(* blocker, and captures the plugin again, while the plugin is rewritten.  *)
(*                                                                         *)
(* A call is [request, assessments, presentation, public]; a request       *)
(*   [candidate, mode, children, snapshot] names for each child            *)
(*   [path, candidate, intent, review, sound, snapshot, selected], where   *)
(* snapshot and selected are the release and the path its source names.    *)
(* A child's own workflow is QualityWorkflow: here it passes only what is  *)
(* the requested candidate at its first and at its last capture.           *)
(***************************************************************************)
EXTENDS PluginPresentation

CONSTANTS Callers, Slots, Trees, PluginCalls, MaxRewrites

(* Finitely many callers share the slots. *)
SlotConstants == IsFiniteSet(Callers) /\ Slots \in Nat
ASSUME SlotAssumption == SlotConstants

(* The capture of a tree: finitely many files at proper paths, each below  *)
(* directories that are captured with it.                                  *)
TreeCaptured(t) ==
    /\ IsFiniteSet(DOMAIN t.files) /\ t.directories \cap DOMAIN t.files = {}
    /\ \A p \in DOMAIN t.files :
           /\ p \in Seq(ToSet(p)) /\ p # <<>> /\ t.files[p].data # None
           /\ \A k \in 1 .. Len(p) - 1 : SubSeq(p, 1, k) \in t.directories

(* What is captured, and what is asked, are lists and records of that kind. *)
ASSUME PluginAssumption ==
    /\ \A t \in Trees : t # None => TreeCaptured(t)
    /\ \A c \in PluginCalls :
           /\ c.request # None /\ c.request.children \in Seq(ToSet(c.request.children))
           /\ c.presentation # None => c.presentation.copy # None

VARIABLES
    pluginTree, \* what a capture of the plugin would return now
    rewrites,   \* how often it was rewritten
    call,       \* the arguments each caller passes
    callers,    \* of each caller: absent, out, waiting, cancelled, raised or answered
    jobs,       \* of each caller: its future, [state, evidence, result]
    slots,      \* slots acquired
    down        \* the executor takes no more work

pluginVars == <<pluginTree, rewrites, call, callers, jobs, slots, down>>

request  == call.request
Revision == request.candidate.source_revision
RootPolicy == [require_version |-> TRUE, require_description |-> TRUE]

Empty == [request |-> None, initial |-> None, children |-> <<>>, presentation |-> None, final |-> None]
NoJob == [state |-> "none", evidence |-> Empty, result |-> None]

(* A capture may see the plugin as it is now, or, when it captures more    *)
(* than once, as it is in between.                                         *)
Moments == {pluginTree} \cup (IF rewrites < MaxRewrites THEN Trees ELSE {})
Series(n) == {[i \in 1 .. n |-> IF i < k THEN pluginTree ELSE t] : k \in 2 .. n, t \in Moments}

-----------------------------------------------------------------------------
(* PluginQualityRequest to V3 *)

ChildSupported(child) == child.intent # "update" /\ child.review = "supplied"

PluginRequestValid(r) ==
    /\ r.children # <<>> /\ Len(r.children) <= MaxSkills
    /\ IsInjective([i \in DOMAIN r.children |-> r.children[i].path])
    /\ \A c \in ToSet(r.children) :
           ChildSupported(c) /\ c.candidate.source_revision = r.candidate.source_revision
    /\ r.snapshot # None =>
           /\ r.snapshot.root_candidate = r.candidate /\ r.snapshot.mode = r.mode
           /\ \A c \in ToSet(r.children) : c.snapshot = r.snapshot /\ c.selected = c.path

(* supported_quality_root: skills only, and exactly those requested. *)
SupportedRoot(r, capture) ==
    /\ capture.status = "pass" /\ capture.policy = RootPolicy
    /\ capture.candidate = r.candidate /\ capture.mode_manifest_sha256 = r.mode
    /\ {<<s.path, s.validation.candidate>> : s \in capture.skills} = {<<c.path, c.candidate>> : c \in ToSet(r.children)}
    /\ ~ \E f \in capture.files : f.path = McpManifest
    /\ r.snapshot # None => capture.manifest.version = r.snapshot.version

AssessmentsFit(assessments, r) == assessments # None /\ DOMAIN assessments \subseteq {c.path : c \in ToSet(r.children)}

(* Text that must not be retained. *)
Private(capture) == capture.manifest # None /\ capture.manifest.version = "private"

-----------------------------------------------------------------------------
(* Results, and what they must show (PluginQualityResult) *)

CheckOutcome(evidence, status, blocker) == [evidence |-> evidence, status |-> status, blocker |-> blocker]
Block(evidence, code) == CheckOutcome(evidence, "blocked", code)

ChildPassed(child) == child.status = "local_checks_passed"
ChildrenComplete(e) == Len(e.children) = Len(e.request.children) /\ \A c \in ToSet(e.children) : ChildPassed(c)

BoundTo(p, r) == p.candidate = r.candidate /\ p.mode = r.mode
PresentationBound(e) == e.presentation # None /\ e.presentation.status = "pass" /\ BoundTo(e.presentation, e.request)

BindChildren(e) ==
    /\ e.initial.candidate = e.request.candidate /\ e.initial.mode_manifest_sha256 = e.request.mode
    /\ {s.path : s \in e.initial.skills} = {c.path : c \in ToSet(e.request.children)}
    /\ Len(e.children) <= Len(e.request.children)
    /\ \A i \in DOMAIN e.children :
           /\ e.children[i].request = e.request.children[i]
           /\ \E s \in e.initial.skills :
                  s.path = e.request.children[i].path /\ s.validation.candidate = e.request.children[i].candidate
           /\ i < Len(e.children) => ChildPassed(e.children[i])

(* The presentation is about the settings and the image bytes captured. *)
BindPresentation(e) ==
    /\ e.presentation.source = e.initial.manifest.openai_settings_source
    /\ e.presentation.settings = e.initial.manifest.openai_settings_sha256
    /\ \A i \in e.presentation.images :
           \E f \in e.initial.files : f.path = i.path /\ f.sha256 = i.sha256 /\ f.size = i.size

RequireSuccess(e) ==
    /\ e.request # None /\ e.initial # None /\ e.final = e.initial
    /\ SupportedRoot(e.request, e.initial) /\ ChildrenComplete(e)
    /\ PresentationBound(e) /\ BindPresentation(e)

(* Each code stands for the evidence that its stage retains. *)
Retained(e) ==
    FoundIf(e.request # None, "request") \cup FoundIf(e.initial # None, "initial") \cup FoundIf(e.children # <<>>, "children")
    \cup FoundIf(e.presentation # None, "presentation") \cup FoundIf(e.final # None, "final")

BlockerStage(e, code) ==
    LET rooted == {"request", "initial"}
    IN  IF code \in {"input_invalid", "request_invalid", "capacity_exceeded"} THEN Retained(e) = {}
        ELSE IF code = "root_mismatch"
        THEN /\ Retained(e) = rooted /\ e.initial.policy = RootPolicy /\ ~SupportedRoot(e.request, e.initial)
             /\ e.initial.candidate # None => e.initial.candidate.source_revision = e.request.candidate.source_revision
        ELSE /\ rooted \subseteq Retained(e) /\ SupportedRoot(e.request, e.initial)
             /\ CASE code = "assessments_invalid"  -> Retained(e) = rooted
                  [] code = "child_blocked"        -> /\ Retained(e) = rooted \cup {"children"}
                                                      /\ ~ChildPassed(Last(e.children))
                  [] code = "presentation_missing" -> Retained(e) = rooted \cup {"children"} /\ ChildrenComplete(e)
                  [] code = "presentation_blocked" ->
                         /\ Retained(e) = rooted \cup {"children", "presentation"} /\ ChildrenComplete(e)
                         /\ ~PresentationBound(e)
                  [] code = "source_changed"       ->
                         /\ ChildrenComplete(e) /\ PresentationBound(e) /\ BindPresentation(e)
                         /\ e.final # None /\ e.final.policy = e.initial.policy /\ e.final # e.initial
                         /\ e.final.candidate # None =>
                                /\ e.final.candidate.package_id = e.request.candidate.package_id
                                /\ e.final.candidate.source_revision = e.request.candidate.source_revision

PluginResultValid(r) ==
    /\ (r.status = "blocked") = (r.blocker # None)
    /\ (r.evidence.request # None /\ r.evidence.presentation # None /\ r.evidence.presentation.candidate # None) =>
           r.evidence.presentation.candidate.source_revision = r.evidence.request.candidate.source_revision
    /\ r.evidence.children # <<>> => r.evidence.request # None /\ r.evidence.initial # None /\ BindChildren(r.evidence)
    /\ IF r.status = "blocked" THEN BlockerStage(r.evidence, r.blocker) ELSE RequireSuccess(r.evidence)

-----------------------------------------------------------------------------
(* Slots, futures and callers *)

Ended(c) == callers[c] # "waiting" /\ jobs[c].state \in {"none", "over"}
Holding == {c \in Callers : jobs[c].state \in {"queued", "running", "finished"}}
Busy    == {c \in Callers : jobs[c].state \in {"running", "finished"}}

(* A call takes a free slot and submits its work, or is refused at once.   *)
CheckPlugin(c) ==
    /\ callers[c] = "out"
    /\ IF slots >= Slots
       THEN /\ callers' = [callers EXCEPT ![c] = "answered"]
            /\ jobs' = [jobs EXCEPT ![c].result = Block(Empty, "capacity_exceeded")] /\ UNCHANGED slots
       ELSE IF down THEN callers' = [callers EXCEPT ![c] = "raised"] /\ UNCHANGED <<jobs, slots>>
       ELSE /\ callers' = [callers EXCEPT ![c] = "waiting"]
            /\ jobs' = [jobs EXCEPT ![c].state = "queued"] /\ slots' = slots + 1
    /\ UNCHANGED <<pluginTree, rewrites, call, down>>

StartJob(c) ==
    /\ jobs[c].state = "queued" /\ Cardinality(Busy) < Slots
    /\ jobs' = [jobs EXCEPT ![c].state = "running"]
    /\ UNCHANGED <<pluginTree, rewrites, call, callers, slots, down>>

(* The done callback of a future: first the slot, *)
ReleaseSlot(c) ==
    /\ jobs[c].state = "finished"
    /\ jobs' = [jobs EXCEPT ![c].state = "over"] /\ slots' = slots - 1
    /\ UNCHANGED <<pluginTree, rewrites, call, callers, down>>

(* then the caller's event loop. *)
Deliver(c) ==
    /\ jobs[c].state = "over" /\ callers[c] = "waiting"
    /\ callers' = [callers EXCEPT ![c] = "answered"]
    /\ UNCHANGED <<pluginTree, rewrites, call, jobs, slots, down>>

(* Defect: a cancelled caller gives its slot back. *)
CancelCallerReleases(c) ==
    /\ callers[c] = "waiting" /\ jobs[c].state # "over"
    /\ callers' = [callers EXCEPT ![c] = "cancelled"]
    /\ IF jobs[c].state = "queued"
       THEN jobs' = [jobs EXCEPT ![c].state = "over"] /\ slots' = slots - 1
       ELSE slots' = slots - 1 /\ UNCHANGED jobs
    /\ UNCHANGED <<pluginTree, rewrites, call, down>>

(* Cancelling a caller cancels work that has not started; work that runs   *)
(* goes on, and keeps its slot.                                            *)
CancelCaller(c) ==
    /\ callers[c] = "waiting" /\ jobs[c].state # "over"
    /\ callers' = [callers EXCEPT ![c] = "cancelled"]
    /\ IF jobs[c].state = "queued"
       THEN jobs' = [jobs EXCEPT ![c].state = "over"] /\ slots' = slots - 1
       ELSE UNCHANGED <<jobs, slots>>
    /\ UNCHANGED <<pluginTree, rewrites, call, down>>

Shutdown == ~down /\ down' = TRUE /\ UNCHANGED <<pluginTree, rewrites, call, callers, jobs, slots>>

-----------------------------------------------------------------------------
(* _check_plugin_quality, in a worker thread *)

Goes(c, evidence) ==
    /\ jobs' = [jobs EXCEPT ![c].evidence = evidence]
    /\ UNCHANGED <<pluginTree, rewrites, call, callers, slots, down>>
Ends(c, result) ==
    /\ jobs' = [jobs EXCEPT ![c] = [@ EXCEPT !.state = "finished", !.evidence = Empty, !.result = result]]
    /\ UNCHANGED <<pluginTree, rewrites, call, callers, slots, down>>

Evidence(c)   == jobs[c].evidence
Running(c)    == jobs[c].state = "running"
InChildren(c) == Running(c) /\ Evidence(c).initial # None /\ Len(Evidence(c).children) < Len(request.children)
Presenting(c) ==
    Running(c) /\ Evidence(c).initial # None /\ Len(Evidence(c).children) = Len(request.children)
    /\ Evidence(c).presentation = None

InitialCapture(c) ==
    /\ Running(c) /\ Evidence(c).initial = None
    /\ \E second \in Moments :
           LET capture == ValidatePlugin(pluginTree, second, Revision, RootPolicy)
               e       == [Empty EXCEPT !.request = request, !.initial = capture]
           IN  IF ~call.public THEN Ends(c, Block(Empty, "input_invalid"))
               ELSE IF ~PluginRequestValid(request) THEN Ends(c, Block(Empty, "request_invalid"))
               ELSE IF Private(capture) THEN Ends(c, Block(Empty, "input_invalid"))
               ELSE IF ~SupportedRoot(request, capture) THEN Ends(c, Block(e, "root_mismatch"))
               ELSE IF ~AssessmentsFit(call.assessments, request) THEN Ends(c, Block(e, "assessments_invalid"))
               ELSE Goes(c, e)

(* What a child's own workflow shows of it in a capture. *)
Fresh(child, capture) ==
    /\ capture # None /\ Append(child.path, "SKILL.md") \in DOMAIN capture.files
    /\ LET v == Child(child.path, capture, Revision).validation
       IN  v.status = "pass" /\ v.candidate = child.candidate

CheckChild(c) ==
    /\ InChildren(c)
    /\ \E last \in Moments :
           LET e      == Evidence(c)
               child  == request.children[Len(e.children) + 1]
               passes == /\ Fresh(child, pluginTree) /\ Fresh(child, last) /\ child.sound
                         /\ child.path \in DOMAIN call.assessments /\ call.assessments[child.path] = child.candidate
               result == [request |-> child, status |-> IF passes THEN "local_checks_passed" ELSE "blocked"]
               after  == [e EXCEPT !.children = Append(@, result)]
           IN  IF passes THEN Goes(c, after) ELSE Ends(c, Block(after, "child_blocked"))

CheckPresented(c) ==
    /\ Presenting(c)
    /\ LET e == Evidence(c)
       IN  IF call.presentation = None THEN Ends(c, Block(e, "presentation_missing"))
           ELSE \E moments \in Series(4) :
                    LET check == CheckPresentation(moments, call.presentation, Revision)
                        after == [e EXCEPT !.presentation = check]
                    IN  IF check.status = "pass" /\ BoundTo(check, request) THEN Goes(c, after)
                        ELSE Ends(c, Block(after, "presentation_blocked"))

(* A final capture of another plugin is not retained. *)
Final(capture) ==
    IF /\ capture.candidate # None
       /\ \/ capture.candidate.package_id # request.candidate.package_id
          \/ capture.candidate.source_revision # Revision
    THEN Unbound(RootPolicy, "plugin_quality_source_changed") ELSE capture

(* What a child's result, the presentation or, at last, the whole result   *)
(* says is text that must not be retained.                                 *)
Withhold(c) ==
    /\ Running(c) /\ Evidence(c).initial # None
    /\ Presenting(c) => call.presentation # None
    /\ Ends(c, Block(Empty, "input_invalid"))

(* Defect: the last capture is only required to pass. *)
FinalCapturePasses(c) ==
    /\ Running(c) /\ Evidence(c).presentation # None
    /\ \E second \in Moments :
           LET capture == ValidatePlugin(pluginTree, second, Revision, RootPolicy)
               e       == [Evidence(c) EXCEPT !.final = Final(capture)]
           IN  IF Private(capture) THEN Ends(c, Block(Empty, "input_invalid"))
               ELSE IF e.final.status # "pass" THEN Ends(c, Block(e, "source_changed"))
               ELSE Ends(c, CheckOutcome(e, "local_checks_passed", None))

FinalCapture(c) ==
    /\ Running(c) /\ Evidence(c).presentation # None
    /\ \E second \in Moments :
           LET capture == ValidatePlugin(pluginTree, second, Revision, RootPolicy)
               e       == [Evidence(c) EXCEPT !.final = Final(capture)]
           IN  IF Private(capture) THEN Ends(c, Block(Empty, "input_invalid"))
               ELSE IF e.final # e.initial THEN Ends(c, Block(e, "source_changed"))
               ELSE Ends(c, CheckOutcome(e, "local_checks_passed", None))

Rewrite ==
    /\ rewrites < MaxRewrites /\ \E c \in Callers : jobs[c].state \in {"queued", "running"}
    /\ pluginTree' \in Trees \ {pluginTree} /\ rewrites' = rewrites + 1
    /\ UNCHANGED <<call, callers, jobs, slots, down>>

-----------------------------------------------------------------------------
PluginInit ==
    /\ pluginTree \in Trees /\ rewrites = 0 /\ call \in PluginCalls
    /\ callers \in [Callers -> {"out", "absent"}] /\ jobs = [c \in Callers |-> NoJob]
    /\ slots = 0 /\ down = FALSE

Job(c)    == InitialCapture(c) \/ CheckChild(c) \/ CheckPresented(c) \/ FinalCapture(c) \/ Withhold(c)
Future(c) == StartJob(c) \/ ReleaseSlot(c) \/ Deliver(c)

PluginNext ==
    \/ \E c \in Callers : CheckPlugin(c) \/ Future(c) \/ Job(c) \/ CancelCaller(c)
    \/ Shutdown \/ Rewrite

PluginSpec == PluginInit /\ [][PluginNext]_pluginVars

-----------------------------------------------------------------------------
(* "At most two process-wide workers": a slot is held by exactly the work  *)
(* that was submitted and is not over, whoever was cancelled meanwhile,    *)
(* and a caller is refused only while both are held.                       *)
SlotsKept == slots = Cardinality(Holding) /\ slots <= Slots /\ Cardinality(Busy) <= slots

(* A passing check is about the plugin of its request as it was captured   *)
(* last: every skill of it was reviewed as it is, every image it names was *)
(* approved as it is, and the request's snapshot is its version.           *)
PassEarned(e) ==
    /\ PluginValid(e.final) /\ e.final.candidate = request.candidate /\ e.final.mode_manifest_sha256 = request.mode
    /\ \A s \in e.final.skills : s.validation.status = "pass" /\ call.assessments[s.path] = s.validation.candidate
    /\ \A i \in e.presentation.images :
           \E f \in e.final.files, a \in call.presentation.approvals :
               f.path = i.path /\ a.path = i.path /\ f.sha256 = a.sha256
    /\ Required \subseteq UNION {i.roles : i \in e.presentation.images}
    /\ request.snapshot # None => e.final.manifest.version = request.snapshot.version

PluginsEarned ==
    \A c \in Callers :
        (jobs[c].state = "finished" /\ jobs[c].result.status = "local_checks_passed") => PassEarned(jobs[c].result.evidence)

(* Every answer keeps its contract and the contracts of what it retains.   *)
PluginAnswers ==
    \A c \in Callers :
        jobs[c].state = "finished" =>
            LET r == jobs[c].result
            IN  /\ PluginResultValid(r)
                /\ \A v \in {r.evidence.initial, r.evidence.final} \ {None} : PluginValid(v)
                /\ r.evidence.presentation # None => CheckValid(r.evidence.presentation)
=============================================================================
