-------------------------- MODULE PluginPresentation --------------------------
(***************************************************************************)
(* The check of a plugin's presentation (validation/plugin_presentation.py *)
(* and plugin_images.py, models/plugin_presentation.py) over the captures  *)
(* it makes: two for the validation, one to inspect, one to confirm.       *)
(* A request is [candidate, mode, approvals, copy]; an approval is         *)
(*   [candidate, path, sha256, kind, criteria]                             *)
(* and the data of an image [format, width, height, still, complete].      *)
(***************************************************************************)
EXTENDS PluginPackage

CONSTANTS
    Formats,        \* of each file name: the format its suffix stands for, or None
    MaxScreenshots,  \* 20
    MaxImageBytes,   \* 5 MiB
    MinIcon, MaxRaster   \* 48 and 4096

IconFields == {"logo", "composerIcon", "logoDark", "composerIconDark"}
Required   == {"logo", "composerIcon"}
KindOf(roles) == IF roles \cap IconFields # {} THEN "icon" ELSE "screenshot"

(* PluginImageApproval: an icon is reviewed by every icon criterion, a     *)
(* screenshot by none of them.                                             *)
ApprovalValid(a) == (a.kind = "icon" /\ a.criteria = TRUE) \/ (a.kind = "screenshot" /\ a.criteria = None)

PresentationRequestValid(r) ==
    /\ \A a \in r.approvals : ApprovalValid(a) /\ a.candidate = r.candidate
    /\ \A a, b \in r.approvals : a.path = b.path => a = b
    /\ r.copy.candidate = r.candidate

-----------------------------------------------------------------------------
(* inspect_plugin_image *)

Square(image) == image.width = image.height /\ image.width >= MinIcon

(* A drawing has static geometry in plain colours; a raster is decoded     *)
(* completely, and is one still picture.                                   *)
InspectRaster(image, kind) ==
    /\ image.complete /\ image.still
    /\ image.width \in 1..MaxRaster /\ image.height \in 1..MaxRaster
    /\ kind = "icon" => Square(image)
InspectSvg(image) == image.complete /\ Square(image)

Inspected(path, file, kind) ==
    LET expected == Formats[LastName(path)]
    IN  /\ file.size \in 1..MaxImageBytes /\ expected # None
        /\ ~(kind = "screenshot" /\ expected = "svg")
        /\ file.data.format = expected
        /\ IF expected = "svg" THEN InspectSvg(file.data) ELSE InspectRaster(file.data, kind)

-----------------------------------------------------------------------------
(* _references: the roles of each path the selected settings name. *)

References(settings) ==
    LET named == {settings.icons[f] : f \in DOMAIN settings.icons} \cup ToSet(settings.screenshots)
    IN  [p \in named |-> {f \in DOMAIN settings.icons : settings.icons[f] = p}
                         \cup FoundIf(p \in ToSet(settings.screenshots), "screenshot")]

ReferencesSound(settings, capture, skills) ==
    /\ settings # None /\ Required \subseteq DOMAIN settings.icons
    /\ DOMAIN References(settings) \subseteq DOMAIN capture.files
    /\ Len(settings.screenshots) <= MaxScreenshots /\ IsInjective(settings.screenshots)
    /\ settings.onboarding # None =>
           \E s \in skills : s.validation.status = "pass" /\ settings.onboarding = Append(s.path, "SKILL.md")

(* _inspect_images: approvals cover exactly the images named, by kind and  *)
(* captured bytes.                                                         *)
Approval(request, path) == CHOOSE a \in request.approvals : a.path = path

ImagesSound(references, capture, request) ==
    /\ {a.path : a \in request.approvals} = DOMAIN references
    /\ \A p \in DOMAIN references :
           LET a    == Approval(request, p)
               file == capture.files[p]
           IN  /\ a.kind = KindOf(references[p]) /\ a.sha256 = Digest(file.data)
               /\ Inspected(p, file, a.kind)
               /\ ~("screenshot" \in references[p] /\ file.data.format = "svg")

Images(references, capture, request) ==
    {[path |-> p, sha256 |-> Digest(capture.files[p].data), size |-> capture.files[p].size, roles |-> references[p],
      format |-> capture.files[p].data.format, width |-> capture.files[p].data.width,
      height |-> capture.files[p].data.height, approval |-> Approval(request, p)] : p \in DOMAIN references}

-----------------------------------------------------------------------------
(* check_plugin_presentation *)

CheckResult(validation, findings, images, copy) ==
    LET bound == validation # None /\ validation.candidate # None
    IN  [status    |-> IF BlocksAny(findings) THEN "blocked" ELSE "pass",
         candidate |-> IF bound THEN validation.candidate ELSE None,
         mode      |-> IF bound THEN validation.mode_manifest_sha256 ELSE None,
         source    |-> IF bound THEN validation.manifest.openai_settings_source ELSE "none",
         settings  |-> IF bound THEN validation.manifest.openai_settings_sha256 ELSE None,
         images    |-> images, copy |-> copy, findings |-> findings]
Stopped(validation, code) == CheckResult(validation, {Blocker(code)}, {}, None)

(* captures: the four, in their order.  The raster decoder is installed. *)
CheckPresentation(captures, request, revision) ==
    LET v        == ValidatePlugin(captures[1], captures[2], revision, NoPolicy)
        capture  == captures[3]
        settings == Settings(capture.files)
        named    == References(settings)
    IN  IF ~PresentationRequestValid(request) \/ request.candidate.source_revision # revision
        THEN Stopped(None, "plugin_presentation_input_invalid")
        ELSE IF v.status # "pass" THEN CheckResult(v, v.findings, {}, None)
        ELSE IF \/ v.candidate # request.candidate \/ v.mode_manifest_sha256 # request.mode
                \/ request.copy.settings # v.manifest.openai_settings_sha256
        THEN Stopped(v, "plugin_presentation_binding_mismatch")
        ELSE IF capture = None THEN Stopped(None, "plugin_source_changed")
        ELSE IF CapturedFiles(capture.files) # v.files THEN Stopped(None, "plugin_source_changed")
        ELSE IF ~ReferencesSound(settings, capture, v.skills)
        THEN Stopped(v, "plugin_presentation_references_invalid")
        ELSE IF ~ImagesSound(named, capture, request) THEN Stopped(v, "plugin_presentation_images_invalid")
        ELSE IF captures[4] # capture THEN Stopped(None, "plugin_source_changed")
        ELSE CheckResult(v, v.findings, Images(named, capture, request), request.copy)

-----------------------------------------------------------------------------
(* PluginPresentationImage and PluginPresentationCheck *)

ImageValid(i, candidate) ==
    /\ i.path = i.approval.path /\ i.sha256 = i.approval.sha256 /\ i.approval.candidate = candidate
    /\ i.roles # {} /\ i.approval.kind = KindOf(i.roles)
    /\ KindOf(i.roles) = "icon" => i.width = i.height /\ i.width >= MinIcon
    /\ "screenshot" \in i.roles => i.format # "svg"
    /\ i.format # "svg" => i.width \in 1..MaxRaster /\ i.height \in 1..MaxRaster

CheckValid(r) ==
    /\ (r.status = "blocked") = BlocksAny(r.findings)
    /\ (r.candidate = None) = (r.mode = None) /\ (r.source = "none") = (r.settings = None)
    /\ IF r.candidate = None
       THEN r.status = "blocked" /\ r.images = {} /\ r.copy = None /\ r.source = "none"
       ELSE /\ \A i \in r.images : ImageValid(i, r.candidate)
            /\ r.copy # None => r.copy.candidate = r.candidate /\ r.copy.settings = r.settings
            /\ r.status = "pass" =>
                   /\ r.source # "none" /\ r.copy # None
                   /\ Required \subseteq UNION {i.roles : i \in r.images}
            /\ \A i, j \in r.images : i # j => i.path # j.path /\ i.roles \cap j.roles \cap IconFields = {}
=============================================================================
