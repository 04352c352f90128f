----------------------------- MODULE PluginSafety -----------------------------
(***************************************************************************)
(* The assessment of a whole plugin before it is executed                  *)
(* (evaluation/plugin_safety.py, models/plugin_safety.py).  Supplied       *)
(* evidence is checked against the plugin, which is captured five times:   *)
(* twice to verify the supplied validation, once for the bytes that are    *)
(* screened, and twice to confirm the validation.  An action is what       *)
(* happens up to and including one capture; others may rewrite the plugin  *)
(* between any two.                                                        *)
(*                                                                         *)
(* An assurance is [validation, screening, checklist, method, observed,    *)
(* evidence], where evidence maps ids to [sha256, kind].                   *)
(***************************************************************************)
EXTENDS PluginPackage

CONSTANTS
    Indicators(_, _),    \* what the signatures find in data at a path
    MaxAge, LongestAge,  \* max_age_seconds, and the longest it may be
    MaxTime,             \* bound on the clock
    Plugins,             \* what the plugin may hold
    Assurances,          \* evidence that a host may supply
    Policies,            \* validation policies it may ask for
    MaxChanges           \* bound on rewrites

VARIABLES
    plugin, rewritten,   \* what a capture would return now, and how often it was rewritten
    given, policy,       \* the arguments
    stage,               \* the next step
    checked,             \* the time read at the start
    former,              \* the first capture of a validation
    screening,           \* what the signatures found
    confirmed,           \* history: the last capture
    verdict              \* clear, or the code of a blocker

safetyVars == <<plugin, rewritten, given, policy, stage, checked, former, screening, confirmed, verdict>>

Source == INSTANCE SafetyEvidence

-----------------------------------------------------------------------------
(* Below a skill the path within the skill decides what a file is. *)
ScannerPath(path) == IF Len(path) > 2 /\ path[1] = "skills" THEN SubSeq(path, 3, Len(path)) ELSE path

PluginIndicators(files, path) ==
    Source!SourceIndicators([indicators |-> Indicators(ScannerPath(path), files[path].data)])

(* One finding for a code, at every path that shows it. *)
AggregateFindings(files) ==
    {[code |-> i.code, category |-> i.category, refs |-> {p \in DOMAIN files : i \in PluginIndicators(files, p)}] :
        i \in UNION {PluginIndicators(files, p) : p \in DOMAIN files}}

PluginScreening(candidate, files) ==
    LET findings == AggregateFindings(files)
    IN  [candidate |-> candidate, sensors |-> <<"sdk-static-signature-v1">>, paths |-> DOMAIN files, findings |-> findings,
         status |-> IF findings = {} THEN "pass" ELSE "needs_review"]

-----------------------------------------------------------------------------
(* permission_mode & 0o111 *)
ExecutableMode(mode) == \E group \in {1, 8, 64} : (mode \div group) % 2 = 1

RequiredPluginChecks(e) ==
    LET categories == {f.category : f \in e.screening.findings}
        codes      == {f.code : f \in e.screening.findings}
        files      == e.validation.files
        runs       == \E f \in files : ExecutableMode(f.mode) \/ "scripts" \in ToSet(Front(f.path))
        needed(check) ==
            CASE check = "network_and_external_writes" -> "external_service" \in categories
              [] check = "dependencies_and_binaries"   -> "dependency" \in categories \/ runs
              [] check = "filesystem_and_subprocess"   ->
                    \/ "unsafe_path" \in categories \/ runs
                    \/ codes \cap {"executable_source_capability", "pipe_to_shell_download"} # {}
              [] check = "tools_and_privileges"        ->
                    \/ "mcp_auth" \in categories \/ "system_service_modification" \in codes
                    \/ \E f \in files : Last(f.path) = "mcp.json"
              [] OTHER -> TRUE
    IN  {check \in Source!SafetyChecks : needed(check)}

(* What applies was reviewed, by the method that the reviewer names. *)
ChecklistBinds(e) ==
    /\ DOMAIN e.checklist = Source!SafetyChecks
    /\ \A check \in Source!SafetyChecks :
          /\ e.checklist[check].ids \subseteq DOMAIN e.evidence
          /\ check \in RequiredPluginChecks(e) =>
                /\ e.checklist[check].status = "reviewed_no_issue"
                /\ \E id \in e.checklist[check].ids : e.evidence[id].kind = e.method

DigestsBind(e) ==
    /\ {"plugin-capture", "static-screening", "capability-checklist"} \subseteq DOMAIN e.evidence
    /\ e.evidence["plugin-capture"].sha256 = e.validation
    /\ e.evidence["static-screening"].sha256 = e.screening
    /\ e.evidence["capability-checklist"].sha256 = e.checklist

(* PluginPreExecutionSafetyEvidence *)
AssuranceValid(e) ==
    LET paths == {f.path : f \in e.validation.files}
    IN  /\ PluginValid(e.validation) /\ e.validation.status = "pass" /\ e.validation.candidate # None
        /\ Source!ScreeningValid(e.screening)
        /\ e.screening.candidate = e.validation.candidate
        /\ e.screening.sensors = <<"sdk-static-signature-v1">> /\ e.screening.status # "blocked"
        /\ e.screening.paths = paths /\ UNION {f.refs : f \in e.screening.findings} \subseteq paths
        /\ e.method # "metadata"
        /\ DigestsBind(e) /\ ChecklistBinds(e)

-----------------------------------------------------------------------------
(* assess_plugin_pre_execution_safety *)

Arguments == <<given, policy, plugin, rewritten>>
Settles(code) == stage' = "settled" /\ verdict' = code
Proceeds(next) == stage' = next /\ UNCHANGED verdict

Ask ==
    /\ stage = "ask"
    /\ checked' \in 0 .. MaxTime
    /\ IF given = None THEN Settles("plugin_safety_evidence_required")
       ELSE IF MaxAge \notin 1..LongestAge THEN Settles("invalid_plugin_safety_freshness_policy")
       ELSE IF ~AssuranceValid(given) THEN Settles("invalid_plugin_safety_evidence")
       ELSE Proceeds("verify")
    /\ UNCHANGED <<Arguments, former, screening, confirmed>>

(* validate_plugin_package captures twice. *)
CaptureFormer(now, next) ==
    /\ stage = now
    /\ former' = plugin /\ Proceeds(next)
    /\ UNCHANGED <<Arguments, checked, screening, confirmed>>

Verified == VerifyPlugin(former, plugin, given.validation, given.validation.candidate.source_revision, policy)

VerifySupplied ==
    /\ stage = "verified"
    /\ IF Verified.status # "pass" \/ Verified # given.validation \/ given.validation.policy # policy
       THEN Settles("plugin_security_source_changed") ELSE Proceeds("screen")
    /\ UNCHANGED <<Arguments, checked, former, screening, confirmed>>

ScreenPlugin ==
    /\ stage = "screen"
    /\ IF plugin = None THEN Settles("invalid_plugin_security_source") /\ UNCHANGED screening
       ELSE IF CapturedFiles(plugin.files) # given.validation.files
       THEN Settles("plugin_security_source_changed") /\ UNCHANGED screening
       ELSE Proceeds("confirm") /\ screening' = PluginScreening(given.validation.candidate, plugin.files)
    /\ UNCHANGED <<Arguments, checked, former, confirmed>>

(* Defect: the plugin that was screened is not validated again. *)
ConfirmSuppliedOnce ==
    /\ stage = "confirmed"
    /\ confirmed' = plugin
    /\ IF screening # given.screening THEN Settles("plugin_security_screening_mismatch")
       ELSE IF given.observed > checked THEN Settles("plugin_safety_evidence_future")
       ELSE IF checked - given.observed > MaxAge THEN Settles("plugin_safety_evidence_stale")
       ELSE Settles("clear")
    /\ UNCHANGED <<Arguments, checked, former, screening>>

(* The screening is compared and the age checked last. *)
ConfirmSupplied ==
    /\ stage = "confirmed"
    /\ confirmed' = plugin
    /\ IF Verified.status # "pass" \/ Verified # given.validation THEN Settles("plugin_security_source_changed")
       ELSE IF screening # given.screening THEN Settles("plugin_security_screening_mismatch")
       ELSE IF given.observed > checked THEN Settles("plugin_safety_evidence_future")
       ELSE IF checked - given.observed > MaxAge THEN Settles("plugin_safety_evidence_stale")
       ELSE Settles("clear")
    /\ UNCHANGED <<Arguments, checked, former, screening>>

RewritePlugin ==
    /\ stage # "settled" /\ rewritten < MaxChanges
    /\ plugin' \in Plugins \ {plugin} /\ rewritten' = rewritten + 1
    /\ UNCHANGED <<given, policy, stage, checked, former, screening, confirmed, verdict>>

-----------------------------------------------------------------------------
SafetyInit ==
    /\ plugin \in Plugins /\ rewritten = 0 /\ given \in Assurances /\ policy \in Policies
    /\ stage = "ask" /\ checked = None /\ former = None /\ screening = None /\ confirmed = None /\ verdict = None

Assess ==
    \/ Ask \/ CaptureFormer("verify", "verified") \/ VerifySupplied \/ ScreenPlugin
    \/ CaptureFormer("confirm", "confirmed") \/ ConfirmSupplied

SafetyNext == Assess \/ RewritePlugin

SafetySpec == SafetyInit /\ [][SafetyNext]_safetyVars

-----------------------------------------------------------------------------
(* A plugin is cleared only as it was captured last: its files and modes   *)
(* are those of the supplied validation, the supplied screening names      *)
(* everything that its own bytes show, whatever reaches the network or can *)
(* be run was reviewed, and the evidence was in its time.                  *)
ClearedAsCaptured ==
    verdict = "clear" =>
        LET reviewed(check) == given.checklist[check].status = "reviewed_no_issue"
            files           == confirmed.files
        IN  /\ confirmed # None /\ given.validation.files = CapturedFiles(files)
            /\ given.screening.findings = AggregateFindings(files)
            /\ \A p \in DOMAIN files :
                  /\ (\E i \in PluginIndicators(files, p) : i.category = "external_service") =>
                        reviewed("network_and_external_writes")
                  /\ ExecutableMode(files[p].mode) => reviewed("filesystem_and_subprocess")
            /\ checked \in given.observed .. (given.observed + MaxAge)
=============================================================================
