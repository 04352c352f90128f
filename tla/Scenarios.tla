------------------------------ MODULE Scenarios ------------------------------
(***************************************************************************)
(* Scenario definitions and their coverage: assess_scenario_quality        *)
(* (evaluation/quality.py), assess_scenario_coverage                       *)
(* (evaluation/coverage.py) and their receipts.                            *)
(*                                                                         *)
(* The evals document of a package is None, Unreadable, or a record        *)
(* [defects, cases, sets]: what is wrong with its header, its cases        *)
(* [id, defects, acceptance, required, release, category] and its release  *)
(* sets [id, budget, groups, cases], in order.  The groups of a set are    *)
(* None, or [sound, ids]: whether each is a non-empty list of text, and    *)
(* what iterating over them gives, where None is what cannot be iterated   *)
(* or is no text; the cases of a set may hold None likewise.  An assertion *)
(* [type, field, verdict] is sound, is unsound, or has a pattern on which  *)
(* re.compile gives up (raises).  A case without a text id has a name of   *)
(* its own that no set lists; sets that are no list, or an empty one, are  *)
(* a defect of the header, and none.                                       *)
(***************************************************************************)
EXTENDS ContentReview, SequencesExt

CONSTANT Unreadable    \* the content of a document that does not parse

AssertionTypes ==
    {"contains", "not_contains", "regex", "not_regex", "skill_selected", "skill_not_selected",
     "expected_signal", "semantic_requirements", "discovery_question", "text_field_equals",
     "text_field_in", "text_field_present", "text_field_absent", "must_not"}
FieldAssertions == {"text_field_equals", "text_field_in", "text_field_present"}

Sound(assertion) == assertion.type \in AssertionTypes /\ assertion.verdict = "sound"

(* _case_findings: every required output field has an assertion that looks *)
(* at that field.                                                          *)
CaseFindings(case) ==
    LET proved == {a.field : a \in {b \in case.acceptance : Sound(b) /\ b.type \in FieldAssertions}}
    IN  case.defects
        \cup If(case.acceptance = {}, "missing_acceptance")
        \cup If(\E a \in case.acceptance : a.type \notin AssertionTypes, "unsupported_acceptance_assertion")
        \cup If(\E a \in case.acceptance : a.type \in AssertionTypes /\ ~Sound(a), "invalid_acceptance_assertion")
        \cup If(~(case.required \subseteq proved), "missing_field_assertion")

Distinct(s)  == IsInjective(s)
Ids(cases)   == [i \in DOMAIN cases |-> cases[i].id]

Budgets(version) == IF version = "v2" THEN {"10/10/10"} ELSE {"5/8/10"}
SetSound(s, version, selected) ==
    /\ s.budget \in IF s.id = selected THEN Budgets(version) ELSE {"5/8/10", "10/10/10"}
    /\ \/ s.groups # None /\ s.groups.sound
       \/ s.cases # <<>> /\ None \notin ToSet(s.cases)

(* _release_sets: the sound ones, none of them when two have one name. *)
ReleaseSets(document, version, selected) ==
    LET sound  == {i \in DOMAIN document.sets : SetSound(document.sets[i], version, selected)}
        unique == \A i, j \in sound : document.sets[i].id = document.sets[j].id => i = j
    IN  [sets |-> IF unique THEN {document.sets[i] : i \in sound} ELSE {},
         findings |-> If(sound # DOMAIN document.sets \/ ~unique, "invalid_scenario_set")]

(* The last case of that name. *)
CaseNamed(cases, id) ==
    cases[CHOOSE i \in DOMAIN cases : cases[i].id = id /\ \A j \in DOMAIN cases : cases[j].id = id => j <= i]

(* _release_set_case_ids: groups go before cases, sound or not. *)
SetIds(s) == IF s.groups = None THEN s.cases ELSE s.groups.ids

(* What the set of that name lists, and what is known of it. *)
Wanted(sets, selected) ==
    LET matching == {s \in sets : s.id = selected}
    IN  IF matching = {} THEN <<>> ELSE SetIds(CHOOSE s \in matching : TRUE)
Unknown(cases, wanted) == ToSet(wanted) \ ToSet(Ids(cases))
At(s, places) ==
    [k \in 1..Cardinality(places) |-> s[CHOOSE i \in places : Cardinality({j \in places : j <= i}) = k]]
Known(cases, wanted) ==
    IF Unknown(cases, wanted) = {} THEN wanted
    ELSE At(wanted, {i \in DOMAIN wanted : wanted[i] \notin Unknown(cases, wanted)})

(* _select_release_cases: the cases of the one set of that name, in order. *)
SelectReleaseCases(cases, sets, selected) ==
    LET wanted == Wanted(sets, selected)
        known  == Known(cases, wanted)
    IN  IF selected = None THEN [cases |-> cases, findings |-> Clean]
        ELSE [cases |-> [i \in DOMAIN known |-> CaseNamed(cases, known[i])],
              findings |-> If(wanted = <<>>, "invalid_scenario_set")
                           \cup If(Unknown(cases, wanted) # {}, "unknown_scenario_id")]

Count(cases, categories) == Cardinality({i \in DOMAIN cases : cases[i].category \in categories})

(* The portable release policy; version 2 fixes ten cases. *)
ReleaseFindings(cases, version) ==
    If(\E i \in DOMAIN cases : ~cases[i].release, "release_case_not_eligible")
    \cup If(Len(cases) < 5, "release_case_floor") \cup If(Len(cases) > 10, "release_case_ceiling")
    \cup If(version = "v2" /\ Len(cases) # 10, "active_case_count")
    \cup If(Count(cases, {"pressure", "regression"}) < 1, "release_pressure_floor")
    \cup If(Count(cases, {"negative", "edge"}) < 1, "release_negative_floor")

Blank == [defects |-> Clean, cases |-> <<>>, sets |-> <<>>]

(* What the document of a valid package is worth. *)
DocumentFindings(document) ==
    CASE document = None         -> {"missing_evals_yaml"}
      [] document = Unreadable -> {"invalid_evals_yaml"}
      [] OTHER                   -> document.defects \cup If(document.cases = <<>>, "missing_scenarios")
Loaded(document) == IF document \in {None, Unreadable} THEN Blank ELSE document

QualityReceipt(candidate, selected, cases, findings) ==
    [candidate |-> candidate, scenario_set_id |-> selected,
     scope |-> IF selected = None THEN "all" ELSE "release", status |-> StatusOf(findings),
     scenario_count |-> Len(cases), findings |-> findings,
     pressure |-> IF selected = None THEN 0 ELSE Count(cases, {"pressure", "regression"}),
     negative |-> IF selected = None THEN 0 ELSE Count(cases, {"negative", "edge"})]

AssessScenarioQuality(package, selected, version) ==
    LET document == Loaded(Content[package].evals)
        sets     == ReleaseSets(document, version, selected)
        chosen   == SelectReleaseCases(document.cases, sets.sets, selected)
        findings == If(version = "v2" /\ selected = None, "active_scenario_set_required")
                    \cup DocumentFindings(Content[package].evals) \cup sets.findings \cup chosen.findings
                    \cup If(~Distinct(Ids(document.cases)) \/ ~Distinct(Ids(chosen.cases)), "duplicate_scenario_id")
                    \cup (UNION {CaseFindings(chosen.cases[i]) : i \in DOMAIN chosen.cases})
                    \cup (IF selected = None THEN Clean ELSE ReleaseFindings(chosen.cases, version))
    IN  IF Content[package].valid THEN QualityReceipt(CandidateOf(package), selected, chosen.cases, findings)
        ELSE QualityReceipt(CandidateOf(package), selected, <<>>, Validation(package).findings)

(* The assessment raises, and gives no receipt: the selected set was kept  *)
(* for its cases but has groups that cannot be iterated, or names that     *)
(* cannot be joined into the message of a finding; or a pattern of a       *)
(* selected case is too large to compile.                                  *)
Raises(package, selected, version) ==
    LET document == Loaded(Content[package].evals)
        sets     == ReleaseSets(document, version, selected).sets
    IN  /\ Content[package].valid
        /\ \/ selected # None /\ None \in ToSet(Wanted(sets, selected))
           \/ \E case \in ToSet(document.cases) :
                  /\ case \in ToSet(SelectReleaseCases(document.cases, sets, selected).cases)
                  /\ \E a \in case.acceptance : a.type \in AssertionTypes /\ a.verdict = "raises"

(* ScenarioQualityReceipt and ScenarioQualityReceiptV2 *)
QualityReceiptValid(r, version) ==
    /\ (r.scope = "release") = (r.scenario_set_id # None)
    /\ r.pressure <= r.scenario_count /\ r.negative <= r.scenario_count
    /\ IF r.status = "pass"
       THEN /\ r.findings = Clean /\ r.candidate # None /\ r.scenario_count > 0
            /\ r.scope = "release" => /\ r.scenario_count \in 5..10
                                      /\ r.pressure >= 1 /\ r.negative >= 1
            /\ version = "v2" => r.scope = "release" /\ r.scenario_count = 10
       ELSE r.findings # Clean

-----------------------------------------------------------------------------
(* Coverage: a plan [candidate, scenario_set_id, claims, mappings, gaps]   *)
(* maps each claim to active cases or to declared gaps.                    *)

DeclarationFindings(plan) ==
    LET mapped == [i \in DOMAIN plan.mappings |-> plan.mappings[i].claim]
    IN  If(~Distinct(plan.claims) \/ ~Distinct(plan.gaps) \/ ~Distinct(mapped), "duplicate_coverage_id")
        \cup If(\E m \in ToSet(plan.mappings) :
                    \/ m.cases = <<>> /\ m.gaps = <<>>
                    \/ m.claim \notin ToSet(plan.claims)
                    \/ ~Distinct(m.cases) \/ ~Distinct(m.gaps)
                    \/ ~(ToSet(m.gaps) \subseteq ToSet(plan.gaps)), "invalid_claim_mapping")
        \cup If(UNION {ToSet(m.gaps) : m \in ToSet(plan.mappings)} # ToSet(plan.gaps), "unused_coverage_gap")

PlanValid(plan) == plan.claims # <<>> /\ DeclarationFindings(plan) = Clean

Audit(plan, active) ==
    DeclarationFindings(plan)
    \cup If({m.claim : m \in ToSet(plan.mappings)} # ToSet(plan.claims), "unmapped_claim")
    \cup If(\E m \in ToSet(plan.mappings) : ~(ToSet(m.cases) \subseteq ToSet(active)), "invalid_claim_mapping")

ActiveIds(package, selected) ==
    LET document == Loaded(Content[package].evals)
        sets     == ReleaseSets(document, "v2", selected)
    IN  Ids(SelectReleaseCases(document.cases, sets.sets, selected).cases)

(* Defect: the package is taken to be what the quality assessment saw. *)
CoverageUnconfirmed(package, later, last, selected, supplied) ==
    LET quality  == AssessScenarioQuality(package, selected, "v2")
        plan     == IF supplied # None /\ PlanValid(supplied) THEN supplied ELSE None
        active   == IF quality.status = "pass" THEN ActiveIds(later, selected) ELSE <<>>
        findings == quality.findings \cup If(plan = None, "invalid_coverage_plan")
                    \cup (IF plan # None /\ active # <<>> THEN Audit(plan, active) ELSE Clean)
    IN  [candidate |-> quality.candidate, scenario_set_id |-> selected, status |-> StatusOf(findings),
         quality |-> quality, plan |-> plan, active |-> active,
         open_gaps |-> IF plan = None THEN {} ELSE ToSet(plan.gaps),
         complete |-> findings = Clean /\ plan.gaps = <<>>, findings |-> findings]

(* The rest of the coverage assessment, given that of the scenarios. *)
CoverageOf(quality, plan, later, last, selected) ==
    LET same(p)  == Content[p].valid /\ CandidateOf(p) = quality.candidate
        active   == IF quality.status = "pass" /\ same(later) THEN ActiveIds(later, selected) ELSE <<>>
        findings == quality.findings
                    \cup If(plan = None, "invalid_coverage_plan")
                    \cup If(quality.status = "pass" /\ ~same(later), "candidate_changed")
                    \cup If(plan # None /\ <<plan.candidate, plan.scenario_set_id>> # <<quality.candidate, selected>>,
                            "coverage_identity_mismatch")
                    \cup (IF plan # None /\ active # <<>> THEN Audit(plan, active) ELSE Clean)
                    \cup If(active # <<>> /\ ~same(last), "candidate_changed")
    IN  [candidate |-> quality.candidate, scenario_set_id |-> selected, status |-> StatusOf(findings),
         quality |-> quality, plan |-> plan, active |-> active,
         open_gaps |-> IF plan = None THEN {} ELSE ToSet(plan.gaps),
         complete |-> findings = Clean /\ plan # None /\ plan.gaps = <<>>, findings |-> findings]

(* assess_scenario_coverage reads the package three times: to assess its   *)
(* scenarios, to list the active ones, and to confirm that it is the same. *)
(* An evals.yaml that changes between its capture and the read of it       *)
(* (evals_source_changed) blocks like a candidate that changed.            *)
AssessScenarioCoverage(package, later, last, selected, supplied) ==
    LET plan == IF supplied # None /\ PlanValid(supplied) THEN supplied ELSE None
    IN  CoverageOf(AssessScenarioQuality(package, selected, "v2"), plan, later, last, selected)

(* ScenarioCoverageResult *)
CoverageValid(r) ==
    /\ QualityReceiptValid(r.quality, "v2")
    /\ r.candidate = r.quality.candidate /\ r.scenario_set_id = r.quality.scenario_set_id
    /\ Distinct(r.active)
    /\ r.plan # None => PlanValid(r.plan)
    /\ r.open_gaps = IF r.plan = None THEN {} ELSE ToSet(r.plan.gaps)
    /\ IF r.status = "pass"
       THEN /\ r.findings = Clean /\ r.quality.status = "pass" /\ r.plan # None /\ Len(r.active) = 10
            /\ r.plan.candidate = r.candidate /\ r.plan.scenario_set_id = r.scenario_set_id
            /\ Audit(r.plan, r.active) = Clean
       ELSE r.findings # Clean
    /\ r.complete = (r.status = "pass" /\ r.open_gaps = {})
=============================================================================
