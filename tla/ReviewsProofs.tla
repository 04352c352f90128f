---------------------------- MODULE ReviewsProofs ----------------------------
(***************************************************************************)
(* What passes a review was earned, and a capture is of one moment as far  *)
(* as metadata tell: for any packages, documents and callers, any disk and *)
(* any writer.                                                             *)
(*                                                                         *)
(* A content review (ReviewInv).  The pipe carries what the worker wrote   *)
(* and loses at most its end (Wire), so the answer the parent read is the  *)
(* one the worker returned, and it came in time (Reported); the worker was *)
(* given the documents of the candidate the parent bound (Given); and what *)
(* was returned as passing endorses that candidate (Accepted).             *)
(*                                                                         *)
(* A quality run (WorkflowInv).  Its stages are those expected, in order,  *)
(* each about the candidate it was asked for, and each receipt is the      *)
(* answer its gate gave about some package (Progress): stages read the     *)
(* tree at different moments, and all an edit leaves of them is that the   *)
(* receipt named the candidate.  So what a passing gate proves is stated   *)
(* once for every package (ScenariosProved, ScoresProved, Endorses), and   *)
(* the last capture ties the candidate to the tree that is left (Kept).    *)
(*                                                                         *)
(* Every answer keeps its contract, passing or not (AnswersInv).  A review *)
(* that fails gives a reason and no review, and what passes is what was    *)
(* observed after the invitation that declared the reviewer (HonestInv);   *)
(* each gate's receipt keeps its own contract for every package            *)
(* (GatesAreHonest); and the receipts of one result agree, because each    *)
(* was made of the candidate or names it (QualityAnswers).                 *)
(*                                                                         *)
(* A capture (CaptureInv).  An entry is related to the disk only as long   *)
(* as its metadata is what it was (Agrees), and no change hid behind them  *)
(* (Tied): then its bytes, its names and its own name are still those the  *)
(* traversal saw.  It holds of the disk at every step, so of the moment    *)
(* between the passes; and an entry the second pass confirms had, at that  *)
(* moment, the metadata it had when it was opened, because metadata never  *)
(* goes back.                                                              *)
(***************************************************************************)
EXTENDS QualityWorkflow, PluginCapture, FiniteSetTheorems, SequenceTheorems, TLAPS

(* A receipt passes exactly when it has no finding. *)
LEMMA StatusPass == ASSUME NEW findings PROVE StatusOf(findings) = "pass" <=> findings = Clean
BY DEF StatusOf

(* What a passing capture says. *)
LEMMA CaptureValid ==
    ASSUME NEW required, NEW package
    PROVE  LET v == ValidationUnder(required, package)
           IN  /\ v.candidate = CandidateOf(package)
               /\ v.files = Content[package].files
               /\ v.status = "pass" <=> v.findings = Clean
               /\ v.status = "pass" <=> (Content[package].valid /\ required \subseteq DOMAIN Content[package].files)
<1>. DEFINE F == If(~Content[package].valid, "invalid_package")
                \cup If(~(required \subseteq DOMAIN Content[package].files), "required_file_missing")
<1>1. F = Clean <=> (Content[package].valid /\ required \subseteq DOMAIN Content[package].files)
  BY DEF If, Clean
<1>. HIDE DEF F
<1>2. ValidationUnder(required, package) =
          [candidate |-> CandidateOf(package), status |-> StatusOf(F), files |-> Content[package].files, findings |-> F]
  BY DEF ValidationUnder, F
<1>. QED  BY <1>1, <1>2, StatusPass

(* A valid package is the one its candidate stands for. *)
LEMMA ValidCandidate == ASSUME NEW package \in DOMAIN Content, Content[package].valid PROVE CandidateOf(package) = package
BY ContentAssumption

(* None is no text and no receipt. *)
Reasons ==
    {"unsupported_content_review_isolation", "cancelled", "content_review_adapter_failed", "content_review_timeout",
     "invalid_content_review_adapter", "content_review_output_limit", "invalid_content_review"}
Blockers ==
    {"invalid_quality_request", "unexpected_quality_baseline", "quality_input_missing", "quality_candidate_changed",
     "quality_stage_incomplete", "quality_final_capture_changed"}
NoneIsNone ==
    /\ None \notin Reasons \cup Blockers \cup ToSet(StageNames) \cup {"candidate_changed", "final-capture"}
    /\ None # [x \in DOMAIN None |-> None[x]]

(* The documents that a gate reads are sequences where the code has lists. *)
ListsOf(package) ==
    /\ LET cases == Loaded(Content[package].evals).cases IN cases \in Seq(ToSet(cases))
    /\ \A s \in ToSet(Loaded(Content[package].evals).sets) : SetIds(s) \in Seq(ToSet(SetIds(s)))
PlanLists(plan) == \A m \in ToSet(plan.mappings) : m.gaps \in Seq(ToSet(m.gaps))

(* The cases that a passing quality assessment selects. *)
Chosen(package, selected) ==
    LET document == Loaded(Content[package].evals)
    IN  SelectReleaseCases(document.cases, ReleaseSets(document, "v2", selected).sets, selected)

LEMMA QualityPass ==
    ASSUME NEW package, NEW selected, AssessScenarioQuality(package, selected, "v2").status = "pass"
    PROVE  /\ Content[package].valid /\ selected # None
           /\ AssessScenarioQuality(package, selected, "v2").findings = Clean
           /\ AssessScenarioQuality(package, selected, "v2").candidate = CandidateOf(package)
           /\ Loaded(Content[package].evals) = Content[package].evals
           /\ Distinct(Ids(Content[package].evals.cases))
           /\ Chosen(package, selected).findings = Clean
           /\ Distinct(Ids(Chosen(package, selected).cases))
           /\ \A i \in DOMAIN Chosen(package, selected).cases :
                  CaseFindings(Chosen(package, selected).cases[i]) = Clean
           /\ ReleaseFindings(Chosen(package, selected).cases, "v2") = Clean
<1>. DEFINE quality  == AssessScenarioQuality(package, selected, "v2")
            document == Loaded(Content[package].evals)
            sets     == ReleaseSets(document, "v2", selected)
            chosen   == SelectReleaseCases(document.cases, sets.sets, selected)
            each     == UNION {CaseFindings(chosen.cases[i]) : i \in DOMAIN chosen.cases}
            unnamed  == If("v2" = "v2" /\ selected = None, "active_scenario_set_required")
            twice    == If(~Distinct(Ids(document.cases)) \/ ~Distinct(Ids(chosen.cases)), "duplicate_scenario_id")
            release  == IF selected = None THEN Clean ELSE ReleaseFindings(chosen.cases, "v2")
            findings == unnamed \cup DocumentFindings(Content[package].evals) \cup sets.findings \cup chosen.findings
                        \cup twice \cup each \cup release
<1>. HIDE DEF document, sets, chosen, each, unnamed, twice, release, findings
<1>. DEFINE candidate == CandidateOf(package)
<1>. HIDE DEF candidate
<1>1. quality = IF Content[package].valid THEN QualityReceipt(candidate, selected, chosen.cases, findings)
                ELSE QualityReceipt(candidate, selected, <<>>, Validation(package).findings)
  BY DEF candidate, AssessScenarioQuality, document, sets, chosen, each, unnamed, twice, release, findings
<1>2. \A c, f : /\ QualityReceipt(candidate, selected, c, f).status = StatusOf(f)
               /\ QualityReceipt(candidate, selected, c, f).findings = f
               /\ QualityReceipt(candidate, selected, c, f).candidate = candidate
  BY DEF QualityReceipt
<1>3. Content[package].valid
  BY <1>1, <1>2, CaptureValid, StatusPass DEF Validation
<1>4. findings = Clean /\ quality.findings = Clean /\ quality.candidate = candidate
  BY <1>1, <1>2, <1>3, StatusPass
<1>5. /\ unnamed = Clean /\ DocumentFindings(Content[package].evals) = Clean /\ chosen.findings = Clean
      /\ twice = Clean /\ each = Clean /\ release = Clean
  <2>. DEFINE D == DocumentFindings(Content[package].evals)  G == sets.findings  C == chosen.findings
  <2>1. findings = unnamed \cup D \cup G \cup C \cup twice \cup each \cup release  BY DEF findings
  <2>. HIDE DEF D, G, C
  <2>2. D = Clean /\ C = Clean /\ unnamed = Clean /\ twice = Clean /\ each = Clean /\ release = Clean
    BY <1>4, <2>1 DEF Clean
  <2>. QED  BY <2>2 DEF D, C
<1>6. selected # None /\ release = ReleaseFindings(chosen.cases, "v2")
  BY <1>5 DEF unnamed, If, Clean, release
<1>7. Content[package].evals \notin {None, Unreadable}
  BY <1>5 DEF DocumentFindings, Clean
<1>8. document = Content[package].evals
  BY <1>7 DEF Loaded, document
<1>9. Distinct(Ids(document.cases)) /\ Distinct(Ids(chosen.cases))
  BY <1>5 DEF twice, If, Clean
<1>10. \A i \in DOMAIN chosen.cases : CaseFindings(chosen.cases[i]) = Clean
  BY <1>5 DEF each, Clean
<1>11. chosen = Chosen(package, selected)
  BY DEF Chosen, chosen, document, sets
<1>. QED  BY <1>3, <1>4, <1>5, <1>6, <1>8, <1>9, <1>10, <1>11 DEF document, candidate

(* A function on an initial segment is a sequence. *)
LEMMA Listed ==
    ASSUME NEW n \in Nat, NEW f, f = [i \in 1..n |-> f[i]]
    PROVE  f \in Seq(ToSet(f)) /\ Len(f) = n /\ DOMAIN f = 1..n
<1>1. \A i \in 1..n : f[i] \in ToSet(f)  BY DEF ToSet
<1>. QED  BY <1>1

LEMMA OneOfThatName ==
    ASSUME NEW cases, cases \in Seq(ToSet(cases)), Distinct(Ids(cases)), NEW i \in DOMAIN cases
    PROVE  CaseNamed(cases, cases[i].id) = cases[i]
<1>1. DOMAIN cases \subseteq Nat  BY LenProperties
<1>2. \A j \in DOMAIN cases : cases[j].id = cases[i].id => j = i  BY DEF Distinct, Ids, IsInjective
<1>3. \A j \in DOMAIN cases : cases[j].id = cases[i].id => j <= i  BY <1>1, <1>2
<1>. QED  BY <1>2, <1>3 DEF CaseNamed

(* The active cases of a passing assessment are the ten that its set       *)
(* lists: each is the case of its name, and none is listed twice.          *)
LEMMA ActiveCases ==
    ASSUME NEW package, NEW selected, ListsOf(package),
           AssessScenarioQuality(package, selected, "v2").status = "pass"
    PROVE  LET active == ActiveIds(package, selected)
               chosen == Chosen(package, selected).cases
           IN  /\ active \in Seq(ToSet(active)) /\ chosen \in Seq(ToSet(chosen))
               /\ DOMAIN active = DOMAIN chosen /\ Len(active) = Len(chosen) /\ Len(active) = 10
               /\ Distinct(active)
               /\ \A i \in DOMAIN active :
                      /\ active[i] = chosen[i].id
                      /\ CaseNamed(Content[package].evals.cases, active[i]) = chosen[i]
<1>. DEFINE evals  == Content[package].evals
            sets   == ReleaseSets(evals, "v2", selected)
            wanted == Wanted(sets.sets, selected)
            known  == Known(evals.cases, wanted)
            chosen == [i \in DOMAIN known |-> CaseNamed(evals.cases, known[i])]
            active == Ids(chosen)
<1>1. /\ selected # None /\ Loaded(evals) = evals
      /\ Distinct(Ids(evals.cases))
      /\ Chosen(package, selected).findings = Clean
      /\ Distinct(Ids(Chosen(package, selected).cases))
      /\ ReleaseFindings(Chosen(package, selected).cases, "v2") = Clean
  BY QualityPass
<1>2. ActiveIds(package, selected) = Ids(Chosen(package, selected).cases)
  BY DEF ActiveIds, Chosen
<1>3. /\ Chosen(package, selected).cases = chosen
      /\ Chosen(package, selected).findings =
             If(wanted = <<>>, "invalid_scenario_set") \cup If(Unknown(evals.cases, wanted) # {}, "unknown_scenario_id")
  BY <1>1 DEF Chosen, SelectReleaseCases
<1>. HIDE DEF evals, wanted, sets
<1>4. wanted # <<>> /\ Unknown(evals.cases, wanted) = {} /\ known = wanted
  BY <1>1, <1>3 DEF If, Clean, Known
<1>5. wanted \in Seq(ToSet(wanted))
  <2>. DEFINE matching == {s \in sets.sets : s.id = selected}
  <2>1. sets.sets \subseteq ToSet(evals.sets)  BY DEF sets, ReleaseSets, ToSet
  <2>2. matching # {} /\ wanted = SetIds(CHOOSE s \in matching : TRUE)  BY <1>4 DEF wanted, Wanted
  <2>3. PICK s \in ToSet(evals.sets) : wanted = SetIds(s)  BY <2>1, <2>2
  <2>. QED  BY <2>3, <1>1 DEF ListsOf, evals
<1>6. \A i \in DOMAIN wanted : \E j \in DOMAIN evals.cases : wanted[i] = evals.cases[j].id
  BY <1>4 DEF Unknown, ToSet, Ids
<1>7. \A i \in DOMAIN wanted : CaseNamed(evals.cases, wanted[i]).id = wanted[i]
  BY <1>6, <1>1, OneOfThatName DEF ListsOf, evals
<1>8. DOMAIN wanted = 1..Len(wanted) /\ Len(wanted) \in Nat  BY <1>5, LenProperties
<1>9. chosen = [i \in 1..Len(wanted) |-> CaseNamed(evals.cases, wanted[i])]  BY <1>4, <1>8
<1>10. active = [i \in 1..Len(wanted) |-> chosen[i].id]  BY <1>9 DEF Ids
<1>11. /\ chosen \in Seq(ToSet(chosen)) /\ Len(chosen) = Len(wanted)
       /\ active \in Seq(ToSet(active)) /\ Len(active) = Len(wanted)
  <2>. HIDE DEF chosen, active
  <2>1. chosen = [i \in 1..Len(wanted) |-> chosen[i]] /\ active = [i \in 1..Len(wanted) |-> active[i]]
    BY <1>9, <1>10
  <2>. QED  BY <1>8, <2>1, Listed
<1>12. Len(chosen) = 10
  BY <1>1, <1>3 DEF ReleaseFindings, If, Clean
<1>13. \A i \in DOMAIN active : active[i] = chosen[i].id /\ CaseNamed(evals.cases, active[i]) = chosen[i]
  BY <1>4, <1>7, <1>9, <1>10
<1>. HIDE DEF chosen, active, known
<1>. QED
  BY <1>1, <1>2, <1>3, <1>8, <1>11, <1>12, <1>13, LenProperties DEF active, evals

LEMMA NotEmpty == ASSUME NEW s, Len(s) = 10 PROVE s # <<>>
<1>1. Len(<<>>) = 0  OBVIOUS
<1>. QED  BY <1>1

LEMMA NoElements == ASSUME NEW s, s \in Seq(ToSet(s)), ToSet(s) = {} PROVE s = <<>>
<1>1. Len(s) \in Nat /\ DOMAIN s = 1..Len(s)  BY LenProperties
<1>2. 1 \notin DOMAIN s  BY DEF ToSet
<1>3. Len(s) = 0  BY <1>1, <1>2
<1>. QED  BY <1>3, EmptySeq

LEMMA SetOfDistinct ==
    ASSUME NEW s, s \in Seq(ToSet(s)), Distinct(s)
    PROVE  IsFiniteSet(ToSet(s)) /\ Cardinality(ToSet(s)) = Len(s)
<1>1. Len(s) \in Nat /\ DOMAIN s = 1..Len(s) /\ s \in [1..Len(s) -> ToSet(s)]  BY LenProperties DEF ToSet
<1>2. s \in Bijection(1..Len(s), ToSet(s))
  BY <1>1 DEF Distinct, IsInjective, Bijection, Injection, Surjection, ToSet
<1>3. IsFiniteSet(1..Len(s)) /\ Cardinality(1..Len(s)) = Len(s)  BY <1>1, FS_Interval
<1>. QED  BY <1>2, <1>3, FS_Bijection DEF ExistsBijection

(* What assess_scenario_coverage calls complete is: the active set has ten *)
(* distinct sound cases of the kinds the policy asks for, and each claim   *)
(* of the plan is mapped to some of them, whatever was read in between.    *)
THEOREM CoverageProves ==
    ASSUME NEW package \in DOMAIN Content, NEW later \in DOMAIN Content, NEW last, NEW plan,
           ListsOf(package), PlanLists(plan),
           AssessScenarioCoverage(package, later, last, plan.scenario_set_id, plan).complete
    PROVE  ScenariosProved(package, plan) /\ plan.gaps = <<>>
<1>. DEFINE selected == plan.scenario_set_id
            coverage == AssessScenarioCoverage(package, later, last, selected, plan)
            quality  == AssessScenarioQuality(package, selected, "v2")
            chosen   == Chosen(package, selected).cases
            active   == ActiveIds(package, selected)
            same(p)  == Content[p].valid /\ CandidateOf(p) = quality.candidate
<1>1. /\ quality.findings = Clean /\ plan # None /\ PlanValid(plan) /\ plan.gaps = <<>>
      /\ quality.status = "pass" => same(later)
      /\ (quality.status = "pass" /\ ActiveIds(later, selected) # <<>>) => Audit(plan, ActiveIds(later, selected)) = Clean
  <2>. DEFINE given == IF plan # None /\ PlanValid(plan) THEN plan ELSE None
              acts  == IF quality.status = "pass" /\ same(later) THEN ActiveIds(later, selected) ELSE <<>>
              A == quality.findings
              B == If(given = None, "invalid_coverage_plan")
              C == If(quality.status = "pass" /\ ~same(later), "candidate_changed")
              D == If(given # None /\ <<given.candidate, given.scenario_set_id>> # <<quality.candidate, selected>>,
                      "coverage_identity_mismatch")
              E == IF given # None /\ acts # <<>> THEN Audit(given, acts) ELSE Clean
              F == If(acts # <<>> /\ ~same(last), "candidate_changed")
  <2>1. coverage.complete <=> (A \cup B \cup C \cup D \cup E \cup F = Clean /\ given # None /\ given.gaps = <<>>)
    BY DEF AssessScenarioCoverage, CoverageOf
  <2>2. A \cup B \cup C \cup D \cup E \cup F = Clean /\ given # None /\ given.gaps = <<>>
    BY <2>1
  <2>3. A = Clean /\ C = Clean /\ E = Clean
    <3>. HIDE DEF A, B, C, D, E, F
    <3>. QED  BY <2>2 DEF Clean
  <2>4. plan # None /\ PlanValid(plan) /\ given = plan  BY <2>2
  <2>5. quality.status = "pass" => same(later)  BY <2>3 DEF If, Clean
  <2>. QED  BY <2>2, <2>3, <2>4, <2>5
<1>. HIDE DEF coverage
<1>2. quality.status = "pass"
  <2>1. quality.status = StatusOf(quality.findings)  BY DEF AssessScenarioQuality, QualityReceipt
  <2>. QED  BY <1>1, <2>1, StatusPass
<1>3. later = package  BY <1>1, <1>2, QualityPass, ValidCandidate
<1>4. /\ active \in Seq(ToSet(active)) /\ chosen \in Seq(ToSet(chosen))
      /\ DOMAIN active = DOMAIN chosen /\ Len(active) = Len(chosen) /\ Len(active) = 10
      /\ Distinct(active)
      /\ \A i \in DOMAIN active :
             /\ active[i] = chosen[i].id
             /\ CaseNamed(Content[package].evals.cases, active[i]) = chosen[i]
  BY <1>2, ActiveCases
<1>5. active # <<>>  BY <1>4, NotEmpty
<1>6. Audit(plan, active) = Clean  BY <1>1, <1>2, <1>3, <1>5
<1>7. Cardinality(ToSet(active)) = 10  BY <1>4, SetOfDistinct
<1>8. /\ \A i \in DOMAIN chosen : CaseFindings(chosen[i]) = Clean
      /\ ReleaseFindings(chosen, "v2") = Clean
  BY <1>2, QualityPass
<1>9. /\ \A i \in DOMAIN chosen : chosen[i].release
      /\ ~(Count(chosen, {"pressure", "regression"}) < 1) /\ ~(Count(chosen, {"negative", "edge"}) < 1)
  BY <1>8 DEF ReleaseFindings, If, Clean
<1>10. \A S : ~(Count(chosen, S) < 1) => \E i \in DOMAIN chosen : chosen[i].category \in S
  <2>. SUFFICES ASSUME NEW S, {i \in DOMAIN chosen : chosen[i].category \in S} = {} PROVE Count(chosen, S) < 1
    OBVIOUS
  <2>. QED  BY FS_EmptySet DEF Count
<1>11. /\ DeclarationFindings(plan) = Clean
       /\ {m.claim : m \in ToSet(plan.mappings)} = ToSet(plan.claims)
       /\ \A m \in ToSet(plan.mappings) : ToSet(m.cases) \subseteq ToSet(active)
  <2>. DEFINE A == DeclarationFindings(plan)
              B == If({m.claim : m \in ToSet(plan.mappings)} # ToSet(plan.claims), "unmapped_claim")
              C == If(\E m \in ToSet(plan.mappings) : ~(ToSet(m.cases) \subseteq ToSet(active)), "invalid_claim_mapping")
  <2>1. A \cup B \cup C = Clean  BY <1>6 DEF Audit
  <2>2. A = Clean /\ B = Clean /\ C = Clean
    <3>. HIDE DEF A, B, C
    <3>. QED  BY <2>1 DEF Clean
  <2>. QED  BY <2>2 DEF If, Clean
<1>12. \A m \in ToSet(plan.mappings) : m.cases # <<>>
  <2>. SUFFICES ASSUME NEW m \in ToSet(plan.mappings), m.cases = <<>> PROVE FALSE
    OBVIOUS
  <2>1. m.gaps # <<>> /\ ToSet(m.gaps) \subseteq ToSet(plan.gaps)
    BY <1>11 DEF DeclarationFindings, If, Clean
  <2>2. ToSet(plan.gaps) = {}  BY <1>1 DEF ToSet
  <2>3. m.gaps \in Seq(ToSet(m.gaps)) /\ ToSet(m.gaps) = {}  BY <2>1, <2>2 DEF PlanLists
  <2>. QED  BY <2>1, <2>3, NoElements
<1>13. \A id \in ToSet(active) : \E i \in DOMAIN chosen :
           id = active[i] /\ CaseNamed(Content[package].evals.cases, id) = chosen[i]
  BY <1>4 DEF ToSet
<1>14. \A i \in DOMAIN chosen : active[i] \in ToSet(active)  BY <1>4 DEF ToSet
<1>. DEFINE Case(id) == CaseNamed(Content[package].evals.cases, id)
<1>15. \A id \in ToSet(active) : Case(id).release /\ CaseFindings(Case(id)) = Clean  BY <1>8, <1>9, <1>13
<1>16. \E id \in ToSet(active) : Case(id).category \in {"pressure", "regression"}
  <2>1. PICK i \in DOMAIN chosen : chosen[i].category \in {"pressure", "regression"}  BY <1>9, <1>10
  <2>. QED  BY <2>1, <1>4, <1>14
<1>17. \E id \in ToSet(active) : Case(id).category \in {"negative", "edge"}
  <2>1. PICK i \in DOMAIN chosen : chosen[i].category \in {"negative", "edge"}  BY <1>9, <1>10
  <2>. QED  BY <2>1, <1>4, <1>14
<1>18. \A c \in ToSet(plan.claims) :
           \E m \in ToSet(plan.mappings) : m.claim = c /\ m.cases # <<>> /\ ToSet(m.cases) \subseteq ToSet(active)
  BY <1>11, <1>12
<1>. HIDE DEF active
<1>. QED  BY <1>1, <1>4, <1>7, <1>15, <1>16, <1>17, <1>18 DEF ScenariosProved, active

(* Counts are of some of the cases. *)
LEMMA CountBound ==
    ASSUME NEW cases, cases \in Seq(ToSet(cases)), NEW categories
    PROVE  Len(cases) \in Nat /\ Count(cases, categories) \in Nat /\ Count(cases, categories) <= Len(cases)
<1>1. Len(cases) \in Nat /\ DOMAIN cases = 1..Len(cases)  BY LenProperties
<1>2. IsFiniteSet(1..Len(cases)) /\ Cardinality(1..Len(cases)) = Len(cases)  BY <1>1, FS_Interval
<1>. DEFINE some == {i \in DOMAIN cases : cases[i].category \in categories}
<1>3. some \in SUBSET (1..Len(cases))  BY <1>1
<1>. HIDE DEF some
<1>4. IsFiniteSet(some) /\ Cardinality(some) <= Len(cases)  BY <1>2, <1>3, FS_Subset
<1>5. Cardinality(some) \in Nat  BY <1>4, FS_CardinalityType
<1>. QED  BY <1>1, <1>4, <1>5 DEF Count, some

(* What a named set lists is a list. *)
LEMMA WantedListed ==
    ASSUME NEW package, NEW selected, NEW version, ListsOf(package)
    PROVE  LET document == Loaded(Content[package].evals)
               wanted   == Wanted(ReleaseSets(document, version, selected).sets, selected)
           IN  wanted \in Seq(ToSet(wanted))
<1>. DEFINE document == Loaded(Content[package].evals)
            sets     == ReleaseSets(document, version, selected).sets
            wanted   == Wanted(sets, selected)
            matching == {s \in sets : s.id = selected}
<1>1. \A s \in ToSet(document.sets) : SetIds(s) \in Seq(ToSet(SetIds(s)))  BY DEF ListsOf
<1>2. sets \subseteq ToSet(document.sets)  BY DEF ReleaseSets, ToSet
<1>. HIDE DEF document, sets
<1>3. CASE matching = {}
  <2>1. wanted = <<>>  BY <1>3 DEF Wanted
  <2>. QED  BY <2>1, EmptySeq DEF document, sets
<1>4. CASE matching # {}
  <2>1. wanted = SetIds(CHOOSE s \in matching : TRUE)  BY <1>4 DEF Wanted
  <2>2. PICK s \in ToSet(document.sets) : wanted = SetIds(s)  BY <1>2, <1>4, <2>1
  <2>. QED  BY <1>1, <2>2 DEF document, sets
<1>. QED  BY <1>3, <1>4

(* The cases that are assessed are a list, whatever they are. *)
LEMMA CasesListed ==
    ASSUME NEW package, NEW selected, NEW version, ListsOf(package)
    PROVE  LET document == Loaded(Content[package].evals)
               sets     == ReleaseSets(document, version, selected).sets
               cases    == SelectReleaseCases(document.cases, sets, selected).cases
           IN  cases \in Seq(ToSet(cases))
<1>. DEFINE document == Loaded(Content[package].evals)
            sets     == ReleaseSets(document, version, selected).sets
            wanted   == Wanted(sets, selected)
            known    == Known(document.cases, wanted)
            named    == [i \in DOMAIN known |-> CaseNamed(document.cases, known[i])]
            cases    == SelectReleaseCases(document.cases, sets, selected).cases
<1>1. document.cases \in Seq(ToSet(document.cases))  BY DEF ListsOf
<1>2. wanted \in Seq(ToSet(wanted))  BY WantedListed
<1>. HIDE DEF document, sets, wanted
<1>3. cases = IF selected = None THEN document.cases ELSE named
  BY DEF SelectReleaseCases, wanted
<1>4. Len(wanted) \in Nat /\ DOMAIN wanted = 1..Len(wanted)  BY <1>2, LenProperties
<1>5. PICK n \in Nat : DOMAIN known = 1..n
  <2>1. CASE Unknown(document.cases, wanted) = {}  BY <1>4, <2>1 DEF Known
  <2>2. CASE Unknown(document.cases, wanted) # {}
    <3>. DEFINE places == {i \in DOMAIN wanted : wanted[i] \notin Unknown(document.cases, wanted)}
    <3>1. places \in SUBSET (1..Len(wanted))  BY <1>4
    <3>2. known = At(wanted, places)  BY <2>2 DEF Known
    <3>. HIDE DEF places
    <3>3. Cardinality(places) \in Nat
      <4>1. IsFiniteSet(1..Len(wanted))  BY <1>4, FS_Interval
      <4>2. IsFiniteSet(places)  BY <3>1, <4>1, FS_Subset
      <4>. QED  BY <4>2, FS_CardinalityType
    <3>4. DOMAIN known = 1..Cardinality(places)  BY <3>2 DEF At
    <3>. QED  BY <3>3, <3>4
  <2>. QED  BY <2>1, <2>2
<1>6. named = [i \in 1..n |-> named[i]]  BY <1>5
<1>. HIDE DEF named, known
<1>7. named \in Seq(ToSet(named))  BY <1>6, Listed
<1>. QED  BY <1>1, <1>3, <1>7 DEF document, sets

(* A receipt of scenario quality keeps its contract: what passes has the   *)
(* cases its policy asks for, and counts are within what is counted.       *)
LEMMA ReceiptHonest ==
    ASSUME NEW candidate, candidate # None, NEW selected, NEW version,
           NEW cases, cases \in Seq(ToSet(cases)), NEW findings,
           findings = Clean =>
               /\ cases # <<>> /\ (version = "v2" => selected # None)
               /\ selected # None => ReleaseFindings(cases, version) = Clean
    PROVE  QualityReceiptValid(QualityReceipt(candidate, selected, cases, findings), version)
<1>. DEFINE r == QualityReceipt(candidate, selected, cases, findings)
            pressure == Count(cases, {"pressure", "regression"})
            negative == Count(cases, {"negative", "edge"})
<1>1. /\ r.candidate = candidate /\ r.scenario_set_id = selected
      /\ r.scope = (IF selected = None THEN "all" ELSE "release") /\ r.status = StatusOf(findings)
      /\ r.scenario_count = Len(cases) /\ r.findings = findings
      /\ r.pressure = (IF selected = None THEN 0 ELSE pressure)
      /\ r.negative = (IF selected = None THEN 0 ELSE negative)
  BY DEF QualityReceipt
<1>2. /\ Len(cases) \in Nat /\ pressure \in Nat /\ pressure <= Len(cases)
      /\ negative \in Nat /\ negative <= Len(cases)
  BY CountBound
<1>3. cases # <<>> => Len(cases) > 0  BY <1>2, EmptySeq
<1>4. ReleaseFindings(cases, version) = Clean =>
          /\ ~(Len(cases) < 5) /\ ~(Len(cases) > 10) /\ (version = "v2" => Len(cases) = 10)
          /\ ~(pressure < 1) /\ ~(negative < 1)
  BY DEF ReleaseFindings, If, Clean
<1>. HIDE DEF r, pressure, negative
<1>5. (r.scope = "release") = (r.scenario_set_id # None)  BY <1>1
<1>6. r.pressure <= r.scenario_count /\ r.negative <= r.scenario_count  BY <1>1, <1>2
<1>7. CASE findings = Clean
  <2>1. r.scope = "release" => r.scenario_count \in 5..10 /\ r.pressure >= 1 /\ r.negative >= 1
    <3>. SUFFICES ASSUME r.scope = "release"
                  PROVE  r.scenario_count \in 5..10 /\ r.pressure >= 1 /\ r.negative >= 1
      OBVIOUS
    <3>1. selected # None  BY <1>1
    <3>2. r.scenario_count = Len(cases) /\ r.pressure = pressure /\ r.negative = negative  BY <1>1, <3>1
    <3>3. /\ ~(Len(cases) < 5) /\ ~(Len(cases) > 10) /\ ~(pressure < 1) /\ ~(negative < 1)
      BY <1>4, <1>7, <3>1
    <3>4. \A n, p, q \in Nat :
              ~(n < 5) /\ ~(n > 10) /\ ~(p < 1) /\ ~(q < 1) => n \in 5..10 /\ p >= 1 /\ q >= 1
      OBVIOUS
    <3>5. Len(cases) \in 5..10 /\ pressure >= 1 /\ negative >= 1  BY <1>2, <3>3, <3>4, Zenon
    <3>. QED  BY <3>2, <3>5
  <2>2. version = "v2" => r.scope = "release" /\ r.scenario_count = 10  BY <1>1, <1>4, <1>7
  <2>3. r.status = "pass" /\ r.findings = Clean /\ r.candidate # None /\ r.scenario_count > 0
    BY <1>1, <1>3, <1>7, StatusPass
  <2>. QED  BY <1>5, <1>6, <2>1, <2>2, <2>3 DEF QualityReceiptValid, r
<1>8. CASE findings # Clean
  BY <1>1, <1>5, <1>6, <1>8, StatusPass DEF QualityReceiptValid, r
<1>. QED  BY <1>7, <1>8

(* So does the receipt of a whole assessment. *)
LEMMA QualityHonest ==
    ASSUME NEW package, CandidateOf(package) # None, ListsOf(package), NEW selected, NEW version
    PROVE  QualityReceiptValid(AssessScenarioQuality(package, selected, version), version)
<1>. DEFINE document == Loaded(Content[package].evals)
            sets     == ReleaseSets(document, version, selected)
            chosen   == SelectReleaseCases(document.cases, sets.sets, selected)
            U == If(version = "v2" /\ selected = None, "active_scenario_set_required")
            D == DocumentFindings(Content[package].evals)
            G == sets.findings
            C == chosen.findings
            T == If(~Distinct(Ids(document.cases)) \/ ~Distinct(Ids(chosen.cases)), "duplicate_scenario_id")
            E == UNION {CaseFindings(chosen.cases[i]) : i \in DOMAIN chosen.cases}
            R == IF selected = None THEN Clean ELSE ReleaseFindings(chosen.cases, version)
            findings == U \cup D \cup G \cup C \cup T \cup E \cup R
            candidate == CandidateOf(package)
<1>1. chosen.cases \in Seq(ToSet(chosen.cases))  BY CasesListed
<1>2. AssessScenarioQuality(package, selected, version) =
          IF Content[package].valid THEN QualityReceipt(candidate, selected, chosen.cases, findings)
          ELSE QualityReceipt(candidate, selected, <<>>, Validation(package).findings)
  BY DEF AssessScenarioQuality
<1>3. CASE ~Content[package].valid
  <2>1. Validation(package).findings # Clean  BY <1>3, CaptureValid DEF Validation
  <2>2. <<>> \in Seq(ToSet(<<>>))  BY EmptySeq
  <2>. HIDE DEF findings, chosen, candidate
  <2>. QED  BY <1>2, <1>3, <2>1, <2>2, ReceiptHonest DEF candidate
<1>4. CASE Content[package].valid
  <2>. SUFFICES QualityReceiptValid(QualityReceipt(candidate, selected, chosen.cases, findings), version)
    <3>. HIDE DEF findings, chosen, candidate
    <3>. QED  BY <1>2, <1>4
  <2>1. findings = Clean => U = Clean /\ D = Clean /\ R = Clean
    <3>. HIDE DEF U, D, G, C, T, E, R
    <3>. QED  BY DEF Clean
  <2>2. U = Clean => (version = "v2" => selected # None)  BY DEF If, Clean
  <2>3. R = Clean => (selected # None => ReleaseFindings(chosen.cases, version) = Clean)  OBVIOUS
  <2>4. D = Clean /\ R = Clean => chosen.cases # <<>>
    <3>1. CASE selected = None
      <4>1. chosen.cases = document.cases  BY <3>1 DEF SelectReleaseCases
      <4>2. D = Clean => document.cases # <<>>
        <5>. SUFFICES ASSUME D = Clean PROVE document.cases # <<>>
          OBVIOUS
        <5>1. Content[package].evals \notin {None, Unreadable}  BY DEF DocumentFindings, Clean
        <5>2. document = Content[package].evals  BY <5>1 DEF Loaded
        <5>3. If(document.cases = <<>>, "missing_scenarios") = Clean
          BY <5>1, <5>2 DEF DocumentFindings, Clean
        <5>. QED  BY <5>3 DEF If, Clean
      <4>. HIDE DEF document, chosen, D
      <4>. QED  BY <4>1, <4>2
    <3>2. CASE selected # None
      <4>1. R = Clean => ~(Len(chosen.cases) < 5)  BY <3>2 DEF ReleaseFindings, If, Clean
      <4>2. Len(<<>>) = 0  OBVIOUS
      <4>. HIDE DEF R, chosen
      <4>. QED  BY <4>1, <4>2
    <3>. QED  BY <3>1, <3>2
  <2>. HIDE DEF findings, chosen, U, D, R
  <2>. QED  BY <1>1, <2>1, <2>2, <2>3, <2>4, ReceiptHonest
<1>. QED  BY <1>3, <1>4

(* What is listed as active is the cases of the package that was assessed; *)
(* a passing coverage audits all ten of them.                              *)
LEMMA CoverageHonest ==
    ASSUME NEW package \in DOMAIN Content, CandidateOf(package) # None, ListsOf(package),
           NEW later \in DOMAIN Content, NEW last, NEW selected,
           NEW supplied, supplied.gaps \in Seq(ToSet(supplied.gaps))
    PROVE  CoverageValid(AssessScenarioCoverage(package, later, last, selected, supplied))
<1>. DEFINE quality == AssessScenarioQuality(package, selected, "v2")
            plan    == IF supplied # None /\ PlanValid(supplied) THEN supplied ELSE None
            same(p) == Content[p].valid /\ CandidateOf(p) = quality.candidate
            active  == IF quality.status = "pass" /\ same(later) THEN ActiveIds(later, selected) ELSE <<>>
            A == quality.findings
            B == If(plan = None, "invalid_coverage_plan")
            C == If(quality.status = "pass" /\ ~same(later), "candidate_changed")
            D == If(plan # None /\ <<plan.candidate, plan.scenario_set_id>> # <<quality.candidate, selected>>,
                    "coverage_identity_mismatch")
            E == IF plan # None /\ active # <<>> THEN Audit(plan, active) ELSE Clean
            F == If(active # <<>> /\ ~same(last), "candidate_changed")
            findings == A \cup B \cup C \cup D \cup E \cup F
            r == AssessScenarioCoverage(package, later, last, selected, supplied)
<1>1. r = [candidate |-> quality.candidate, scenario_set_id |-> selected, status |-> StatusOf(findings),
           quality |-> quality, plan |-> plan, active |-> active,
           open_gaps |-> IF plan = None THEN {} ELSE ToSet(plan.gaps),
           complete |-> findings = Clean /\ plan # None /\ plan.gaps = <<>>, findings |-> findings]
  BY DEF AssessScenarioCoverage, CoverageOf
<1>2. QualityReceiptValid(quality, "v2")  BY QualityHonest
<1>. DEFINE candidate == CandidateOf(package)
<1>3. quality.candidate = candidate /\ quality.scenario_set_id = selected /\ quality.status = StatusOf(quality.findings)
  <2>1. \A c, f : LET q == QualityReceipt(candidate, selected, c, f)
                  IN  q.candidate = candidate /\ q.scenario_set_id = selected /\ q.status = StatusOf(q.findings)
    BY DEF QualityReceipt
  <2>2. \E c, f : quality = QualityReceipt(candidate, selected, c, f)  BY Zenon DEF AssessScenarioQuality
  <2>. HIDE DEF quality, candidate
  <2>. QED  BY <2>1, <2>2
<1>4. (quality.status = "pass" /\ same(later)) =>
          Len(ActiveIds(later, selected)) = 10 /\ Distinct(ActiveIds(later, selected))
  BY <1>3, QualityPass, ValidCandidate, ActiveCases
<1>5. Distinct(<<>>)  BY DEF Distinct, IsInjective
<1>6. Distinct(active) /\ (active # <<>> => Len(active) = 10)
  <2>1. CASE quality.status = "pass" /\ same(later)  BY <1>4, <2>1
  <2>2. CASE ~(quality.status = "pass" /\ same(later))  BY <1>5, <2>2
  <2>. QED  BY <2>1, <2>2
<1>7. plan # None => PlanValid(plan) /\ plan = supplied  OBVIOUS
<1>8. ToSet(<<>>) = {}  BY DEF ToSet
<1>9. plan # None => (ToSet(plan.gaps) = {} <=> plan.gaps = <<>>)  BY <1>7, <1>8, NoElements
<1>10. findings = Clean =>
           /\ quality.status = "pass" /\ plan # None /\ active # <<>>
           /\ plan.candidate = quality.candidate /\ plan.scenario_set_id = selected /\ Audit(plan, active) = Clean
  <2>. SUFFICES ASSUME findings = Clean
                PROVE  /\ quality.status = "pass" /\ plan # None /\ active # <<>>
                       /\ plan.candidate = quality.candidate /\ plan.scenario_set_id = selected
                       /\ Audit(plan, active) = Clean
    OBVIOUS
  <2>1. A = Clean /\ B = Clean /\ C = Clean /\ D = Clean /\ E = Clean
    <3>. HIDE DEF A, B, C, D, E, F
    <3>. QED  BY DEF Clean
  <2>2. quality.status = "pass"  BY <1>3, <2>1, StatusPass
  <2>3. plan # None  BY <2>1 DEF If, Clean
  <2>4. same(later)  BY <2>1, <2>2 DEF If, Clean
  <2>5. active # <<>>
    <3>1. active = ActiveIds(later, selected) /\ Len(active) = 10  BY <1>4, <2>2, <2>4
    <3>. HIDE DEF active
    <3>. QED  BY <3>1, NotEmpty
  <2>6. <<plan.candidate, plan.scenario_set_id>> = <<quality.candidate, selected>>
    BY <2>1, <2>3 DEF If, Clean
  <2>7. plan.candidate = quality.candidate /\ plan.scenario_set_id = selected
    <3>. HIDE DEF plan, quality
    <3>. QED  BY <2>6
  <2>8. Audit(plan, active) = Clean  BY <2>1, <2>3, <2>5
  <2>. QED  BY <2>2, <2>3, <2>5, <2>7, <2>8
<1>. SUFFICES CoverageValid(r)
  OBVIOUS
<1>. HIDE DEF quality, plan, active, findings, r
<1>11. /\ r.candidate = quality.candidate /\ r.scenario_set_id = selected /\ r.status = StatusOf(findings)
       /\ r.quality = quality /\ r.plan = plan /\ r.active = active /\ r.findings = findings
       /\ r.open_gaps = IF plan = None THEN {} ELSE ToSet(plan.gaps)
       /\ r.complete = (findings = Clean /\ plan # None /\ plan.gaps = <<>>)
  BY <1>1
<1>12. r.complete = (r.status = "pass" /\ r.open_gaps = {})
  BY <1>9, <1>10, <1>11, StatusPass
<1>13. CASE findings = Clean
  BY <1>2, <1>3, <1>6, <1>7, <1>10, <1>11, <1>12, <1>13, StatusPass DEF CoverageValid
<1>14. CASE findings # Clean
  BY <1>2, <1>3, <1>6, <1>7, <1>11, <1>12, <1>14, StatusPass DEF CoverageValid
<1>. QED  BY <1>13, <1>14

(* A limit is an integer, or is absent. *)
LimitsOf(package) ==
    Content[package].bundle # None => \A f \in LimitFields : Content[package].bundle.limits[f] \in Int \cup {None}

(* What a passing declaration is worth. *)
LEMMA DeclarationPass ==
    ASSUME NEW package, AssessScorerQuality(package).status = "pass"
    PROVE  LET s == Content[package].scorer
               r == AssessScorerQuality(package)
           IN  /\ Content[package].valid /\ r.candidate = CandidateOf(package)
               /\ r.scorer_id = s.id /\ r.version = s.version /\ r.threshold = s.threshold
               /\ r.parameters = s.parameters
               /\ {c.probe : c \in ToSet(s.cases)} = Probes
<1>. DEFINE s        == Content[package].scorer
            readable == Content[package].valid /\ s # None
            A == Validation(package).findings
            B == If(Content[package].valid /\ s = None, "scorer_quality_declared")
            C == IF readable THEN ScorerFindings(s) ELSE Clean
            r == AssessScorerQuality(package)
<1>1. /\ r.status = StatusOf(A \cup B \cup C) /\ r.candidate = CandidateOf(package)
      /\ r.scorer_id = (IF readable THEN s.id ELSE None) /\ r.version = (IF readable THEN s.version ELSE None)
      /\ r.parameters = (IF readable THEN s.parameters ELSE None)
      /\ r.threshold = (IF readable /\ Threshold(s.threshold) THEN s.threshold ELSE None)
  BY DEF AssessScorerQuality
<1>2. A = Clean /\ B = Clean /\ C = Clean
  <2>1. A \cup B \cup C = Clean  BY <1>1, StatusPass
  <2>. HIDE DEF A, B, C
  <2>. QED  BY <2>1 DEF Clean
<1>3. Content[package].valid  BY <1>2, CaptureValid DEF Validation
<1>4. readable  BY <1>2, <1>3 DEF If, Clean
<1>5. Threshold(s.threshold) /\ ProbeFindings(s) = Clean
  <2>. DEFINE T == If(~Threshold(s.threshold), "invalid_pass_threshold")
              P == ProbeFindings(s)
              R == s.defects \cup If(s.id = None, "invalid_scorer_id")
                   \cup If(s.version = None, "invalid_scorer_version_or_digest")
                   \cup If(s.type \notin ScorerTypes, "invalid_scorer_type")
              U == If(~s.checks_first, "deterministic_checks_first")
              J == JudgeFindings(s)
  <2>1. R \cup T \cup U \cup J \cup P = Clean  BY <1>2, <1>4 DEF ScorerFindings
  <2>2. T = Clean /\ P = Clean
    <3>. HIDE DEF R, T, U, J, P
    <3>. QED  BY <2>1 DEF Clean
  <2>. QED  BY <2>2 DEF If, Clean
<1>6. {c.probe : c \in ToSet(s.cases)} = Probes
  <2>. DEFINE known == {c.probe : c \in ToSet(s.cases)} \cap Probes
              A1 == If(~IsInjective([i \in DOMAIN s.cases |-> s.cases[i].id]), "duplicate_calibration_case")
              A2 == If(\E c \in ToSet(s.cases) : c.probe \notin Probes, "invalid_calibration_case")
              A3 == If(\E c \in ToSet(s.cases) : ~ExpectedOutcome(c, s.threshold), "calibration_expected_outcomes")
              A4 == If(known # Probes, "calibration_probe_coverage")
  <2>1. A1 \cup A2 \cup A3 \cup A4 = Clean  BY <1>5 DEF ProbeFindings, Clean
  <2>2. A2 = Clean /\ A4 = Clean
    <3>. HIDE DEF A1, A2, A3, A4
    <3>. QED  BY <2>1 DEF Clean
  <2>3. known = Probes /\ \A c \in ToSet(s.cases) : c.probe \in Probes  BY <2>2 DEF If, Clean
  <2>. QED  BY <2>3
<1>. QED  BY <1>1, <1>3, <1>4, <1>5, <1>6

(* What there is behind a passing calibration. *)
LEMMA CalibrationPass ==
    ASSUME NEW package, NEW later, AssessScorerCalibration(package, later).status = "pass"
    PROVE  LET b == Content[package].bundle
           IN  /\ Content[package].valid /\ b # None
               /\ AssessScorerCalibration(package, later).findings = Clean
               /\ BundleFindings(b) = Clean /\ RowsFindings(b) = Clean /\ LimitFindings(b) = Clean
               /\ DeclarationJoin(b, package, later) = Clean
               /\ b.split = "held_out" /\ Threshold(b.threshold) /\ \A f \in LimitFields : LimitSound(b.limits, f)
               /\ b.id # None /\ b.version # None /\ b.prompt # None /\ b.parameters # None
<1>. DEFINE b == Content[package].bundle
<1>1. /\ Content[package].valid /\ b # None /\ AssessScorerCalibration(package, later).findings = Clean
      /\ BundleFindings(b) = Clean /\ RowsFindings(b) = Clean /\ LimitFindings(b) = Clean
      /\ DeclarationJoin(b, package, later) = Clean
  <2>. DEFINE c == IF Content[package].valid /\ b # None THEN b ELSE NoBundle
              A == Validation(package).findings
              B == IF Content[package].valid THEN BundleFindings(c) \cup RowsFindings(c) ELSE Clean
              C == LimitFindings(c)
              D == IF Content[package].valid THEN DeclarationJoin(c, package, later) ELSE Clean
  <2>1. A \cup B \cup C \cup D = Clean /\ AssessScorerCalibration(package, later).findings = Clean
    BY StatusPass DEF AssessScorerCalibration
  <2>2. A = Clean /\ B = Clean /\ C = Clean /\ D = Clean
    <3>. HIDE DEF A, B, C, D
    <3>. QED  BY <2>1 DEF Clean
  <2>3. Content[package].valid  BY <2>2, CaptureValid DEF Validation
  <2>4. BundleFindings(c) = Clean /\ RowsFindings(c) = Clean  BY <2>2, <2>3 DEF Clean
  <2>5. c # NoBundle  BY <2>4 DEF BundleFindings, NoBundle, Clean
  <2>. QED  BY <2>1, <2>2, <2>3, <2>4, <2>5
<1>2. /\ b.split = "held_out" /\ Threshold(b.threshold) /\ \A f \in LimitFields : LimitSound(b.limits, f)
      /\ b.id # None /\ b.version # None /\ b.prompt # None /\ b.parameters # None
  <2>. DEFINE A == If(b.split # "held_out", "calibration_split_held_out")
              T == If(~Threshold(b.threshold), "threshold_valid")
              L == {f \in LimitFields : ~LimitSound(b.limits, f)}
              I == If(b.id = None, "scorer_id_present")
              V == If(b.version = None, "scorer_version_or_digest_present")
              R == If(b.prompt = None, "prompt_version_present")
              J == If(b.parameters = None, "judge_parameters_present")
  <2>1. \A x \in A \cup T \cup L \cup I \cup V \cup R \cup J : x \in BundleFindings(b)  BY DEF BundleFindings
  <2>2. A = {} /\ T = {} /\ L = {} /\ I = {} /\ V = {} /\ R = {} /\ J = {}
    <3>. HIDE DEF A, T, L, I, V, R, J
    <3>. QED  BY <1>1, <2>1 DEF Clean
  <2>. QED  BY <2>2 DEF If
<1>. QED  BY <1>1, <1>2

(* What assess_scorer_calibration passes is calibrated: the rows agree     *)
(* with the threshold of the scorer that the same package declares, and    *)
(* what they get wrong is within the limits.                               *)
THEOREM CalibrationProves ==
    ASSUME NEW package \in DOMAIN Content, NEW later \in DOMAIN Content,
           LimitsOf(package), AssessScorerCalibration(package, later).status = "pass"
    PROVE  ScoresProved(package)
<1>. DEFINE b == Content[package].bundle
            s == Content[package].scorer
<1>1. /\ Content[package].valid /\ b # None
      /\ RowsFindings(b) = Clean /\ LimitFindings(b) = Clean /\ DeclarationJoin(b, package, later) = Clean
  BY CalibrationPass
<1>2. b.split = "held_out" /\ Threshold(b.threshold) /\ \A f \in LimitFields : LimitSound(b.limits, f)
  BY CalibrationPass
<1>3. ~Duplicated(b.rows) /\ \A r \in ToSet(b.rows) : RowFindings(r) = Clean /\ ArtifactFindings(r, b) = Clean
  BY <1>1 DEF RowsFindings, Clean
<1>4. \A r \in ToSet(b.rows) :
          /\ r.id # None /\ r.path # None /\ r.score # None
          /\ r.predicted = Label(r.score, b.threshold) /\ r.raw # None /\ r.raw.score = r.score
  <2>. SUFFICES ASSUME NEW r \in ToSet(b.rows)
                PROVE  /\ r.id # None /\ r.path # None /\ r.score # None
                       /\ r.predicted = Label(r.score, b.threshold) /\ r.raw # None /\ r.raw.score = r.score
    OBVIOUS
  <2>1. r.id # None /\ r.path # None /\ r.score # None  BY <1>3 DEF RowFindings, If, Clean
  <2>2. b.threshold # None  BY <1>2 DEF Threshold
  <2>3. r.predicted = Label(r.score, b.threshold)  BY <1>3, <2>1, <2>2 DEF ArtifactFindings, If, Clean
  <2>4. r.raw # None /\ r.raw.score = r.score  BY <1>3 DEF ArtifactFindings, If, Clean
  <2>. QED  BY <2>1, <2>3, <2>4
<1>5. \A i, j \in DOMAIN b.rows : i # j => b.rows[i].id # b.rows[j].id /\ b.rows[i].path # b.rows[j].path
  <2>. SUFFICES ASSUME NEW i \in DOMAIN b.rows, NEW j \in DOMAIN b.rows, i # j
                PROVE  b.rows[i].id # b.rows[j].id /\ b.rows[i].path # b.rows[j].path
    OBVIOUS
  <2>1. b.rows[i].id # None /\ b.rows[i].path # None  BY <1>4 DEF ToSet
  <2>. QED  BY <1>3, <2>1 DEF Duplicated, Repeated
<1>. DEFINE right(e, p) == {i \in DOMAIN b.rows : b.rows[i].expected = e /\ b.rows[i].predicted = p}
            m == Measured(b.rows, Matrix(b.rows))
<1>6. \A f \in LimitFields : LimitMet(m, b.limits, f)
  BY <1>1, <1>2 DEF LimitFindings, LimitSound, Clean
<1>7. /\ m.minimum_true_positives = Cardinality(right("pass", "pass"))
      /\ m.minimum_true_negatives = Cardinality(right("fail", "fail"))
      /\ m.max_false_positives = Cardinality(right("fail", "pass"))
      /\ m.max_false_negatives = Cardinality(right("pass", "fail"))
  BY DEF Measured, Matrix, Matched
<1>8. /\ m.minimum_true_positives >= b.limits.minimum_true_positives
      /\ m.minimum_true_negatives >= b.limits.minimum_true_negatives
      /\ m.max_false_positives <= b.limits.max_false_positives
      /\ m.max_false_negatives <= b.limits.max_false_negatives
  <2>. HIDE DEF m
  <2>. QED  BY <1>6 DEF LimitMet, LimitFields, Minimum
<1>9. /\ b.limits.minimum_true_positives \in Int /\ b.limits.minimum_true_positives >= 1
      /\ b.limits.minimum_true_negatives \in Int /\ b.limits.minimum_true_negatives >= 1
  BY <1>1, <1>2 DEF LimitSound, LimitsOf, LimitFields, Minimum
<1>10. right("pass", "pass") # {} /\ right("fail", "fail") # {}
  <2>. HIDE DEF m, right
  <2>1. /\ Cardinality(right("pass", "pass")) >= b.limits.minimum_true_positives
        /\ Cardinality(right("fail", "fail")) >= b.limits.minimum_true_negatives
    BY <1>7, <1>8
  <2>2. Cardinality({}) = 0  BY FS_EmptySet
  <2>. QED  BY <1>9, <2>1, <2>2
<1>11. /\ AssessScorerQuality(later).status = "pass" /\ later = package
       /\ b.id = s.id /\ b.version = s.version /\ b.threshold = s.threshold
       /\ {c.probe : c \in ToSet(s.cases)} = Probes
  <2>1. LET d == AssessScorerQuality(later)
        IN  /\ d.status = "pass" /\ d.candidate = CandidateOf(package)
            /\ b.id = d.scorer_id /\ b.version = d.version /\ b.threshold = d.threshold
    BY <1>1 DEF DeclarationJoin, Clean
  <2>2. later = package  BY <1>1, <2>1, DeclarationPass, ValidCandidate
  <2>. QED  BY <2>1, <2>2, DeclarationPass
<1>. QED
  BY <1>2, <1>4, <1>5, <1>7, <1>8, <1>10, <1>11 DEF ScoresProved

(* The rows and the probes are lists. *)
RowsOf(package) ==
    /\ Content[package].scorer # None =>
           LET probes == Content[package].scorer.cases IN probes \in Seq(ToSet(probes))
    /\ Content[package].bundle # None =>
           LET rows == Content[package].bundle.rows IN rows \in Seq(ToSet(rows))

LEMMA SixProbes == IsFiniteSet(Probes) /\ Cardinality(Probes) = 6
<1>. DEFINE one   == {"obvious_correct"}
            two   == one \cup {"obvious_wrong"}
            three == two \cup {Contest}
            four  == three \cup {"rubric_copying_rejected"}
            five  == four \cup {"skill_name_mention_not_enough"}
            six   == five \cup {"evidence_lane_overclaim_rejected"}
<1>1. IsFiniteSet(one) /\ Cardinality(one) = 1  BY FS_Singleton
<1>2. IsFiniteSet(two) /\ Cardinality(two) = 2
  <2>1. "obvious_wrong" \notin one  OBVIOUS
  <2>. HIDE DEF one
  <2>. QED  BY <1>1, <2>1, FS_AddElement
<1>3. IsFiniteSet(three) /\ Cardinality(three) = 3
  <2>1. Contest \notin two  BY DEF Contest
  <2>. HIDE DEF two
  <2>. QED  BY <1>2, <2>1, FS_AddElement
<1>4. IsFiniteSet(four) /\ Cardinality(four) = 4
  <2>1. "rubric_copying_rejected" \notin three  BY DEF Contest
  <2>. HIDE DEF three
  <2>. QED  BY <1>3, <2>1, FS_AddElement
<1>5. IsFiniteSet(five) /\ Cardinality(five) = 5
  <2>1. "skill_name_mention_not_enough" \notin four  BY DEF Contest
  <2>. HIDE DEF four
  <2>. QED  BY <1>4, <2>1, FS_AddElement
<1>6. IsFiniteSet(six) /\ Cardinality(six) = 6
  <2>1. "evidence_lane_overclaim_rejected" \notin five  BY DEF Contest
  <2>. HIDE DEF five
  <2>. QED  BY <1>5, <2>1, FS_AddElement
<1>7. Probes = six  BY DEF Probes
<1>. QED  BY <1>6, <1>7

(* Whoever has all the probes has six cases. *)
LEMMA ProbesCounted ==
    ASSUME NEW cases, cases \in Seq(ToSet(cases)), {c.probe : c \in ToSet(cases)} = Probes
    PROVE  Len(cases) \in Nat /\ Len(cases) >= 6
<1>1. Len(cases) \in Nat /\ DOMAIN cases = 1..Len(cases)  BY LenProperties
<1>. DEFINE probe == [i \in 1..Len(cases) |-> cases[i].probe]
<1>2. {c.probe : c \in ToSet(cases)} = {cases[i].probe : i \in 1..Len(cases)}  BY <1>1 DEF ToSet
<1>3. probe \in Surjection(1..Len(cases), Probes)
  <2>1. probe \in [1..Len(cases) -> Probes]  BY <1>2
  <2>2. \A p \in Probes : \E i \in 1..Len(cases) : probe[i] = p  BY <1>2
  <2>. HIDE DEF probe
  <2>. QED  BY <2>1, <2>2 DEF Surjection
<1>4. IsFiniteSet(1..Len(cases)) /\ Cardinality(1..Len(cases)) = Len(cases)  BY <1>1, FS_Interval
<1>. HIDE DEF probe
<1>5. Cardinality(Probes) <= Cardinality(1..Len(cases))  BY <1>3, <1>4, FS_Surjection
<1>. QED  BY <1>1, <1>4, <1>5, SixProbes

(* A passing declaration names its scorer, its version and its threshold,  *)
(* and comes with all the probes.                                          *)
LEMMA ScorerHonest ==
    ASSUME NEW package, CandidateOf(package) # None, RowsOf(package)
    PROVE  ScorerQualityValid(AssessScorerQuality(package))
<1>. DEFINE s        == Content[package].scorer
            readable == Content[package].valid /\ s # None
            A == Validation(package).findings
            B == If(Content[package].valid /\ s = None, "scorer_quality_declared")
            C == IF readable THEN ScorerFindings(s) ELSE Clean
            r == AssessScorerQuality(package)
<1>1. /\ r.status = StatusOf(A \cup B \cup C) /\ r.findings = A \cup B \cup C /\ r.candidate = CandidateOf(package)
      /\ r.scorer_id = (IF readable THEN s.id ELSE None) /\ r.version = (IF readable THEN s.version ELSE None)
      /\ r.threshold = (IF readable /\ Threshold(s.threshold) THEN s.threshold ELSE None)
      /\ r.probes = (IF readable THEN Len(s.cases) ELSE 0)
  BY DEF AssessScorerQuality
<1>2. CASE A \cup B \cup C = Clean
  <2>1. A = Clean /\ B = Clean /\ C = Clean
    <3>. HIDE DEF A, B, C
    <3>. QED  BY <1>2 DEF Clean
  <2>2. readable
    <3>1. Content[package].valid  BY <2>1, CaptureValid DEF Validation
    <3>. QED  BY <2>1, <3>1 DEF If, Clean
  <2>3. s.id # None /\ s.version # None /\ Threshold(s.threshold)
    <3>. DEFINE I == If(s.id = None, "invalid_scorer_id")
                V == If(s.version = None, "invalid_scorer_version_or_digest")
                T == If(~Threshold(s.threshold), "invalid_pass_threshold")
    <3>1. \A x \in I \cup V \cup T : x \in ScorerFindings(s)  BY DEF ScorerFindings
    <3>2. ScorerFindings(s) = {}  BY <2>1, <2>2 DEF Clean
    <3>3. I = {} /\ V = {} /\ T = {}
      <4>. HIDE DEF I, V, T
      <4>. QED  BY <3>1, <3>2
    <3>. QED  BY <3>3 DEF If
  <2>4. r.status = "pass"  BY <1>1, <1>2, StatusPass
  <2>5. {c.probe : c \in ToSet(s.cases)} = Probes  BY <2>4, DeclarationPass
  <2>6. Len(s.cases) >= 6  BY <2>2, <2>5, ProbesCounted DEF RowsOf
  <2>7. s.threshold # None  BY <2>3 DEF Threshold
  <2>. QED  BY <1>1, <1>2, <2>2, <2>3, <2>4, <2>6, <2>7 DEF ScorerQualityValid
<1>3. CASE A \cup B \cup C # Clean
  <2>1. r.status # "pass"  BY <1>1, <1>3, StatusPass
  <2>. QED  BY <1>1, <1>3, <2>1 DEF ScorerQualityValid
<1>. QED  BY <1>2, <1>3

(* The matrix counts each labelled row once. *)
LEMMA MatrixCounts ==
    ASSUME NEW rows, rows \in Seq(ToSet(rows)),
           \A i \in DOMAIN rows : rows[i].expected \in Labels /\ rows[i].predicted \in Labels
    PROVE  LET m == Matrix(rows)
           IN  /\ m.tp \in Nat /\ m.tn \in Nat /\ m.fp \in Nat /\ m.fn \in Nat
               /\ Len(rows) \in Nat /\ Len(rows) = m.tp + m.tn + m.fp + m.fn
<1>. DEFINE S == DOMAIN rows
            are(e, p) == {i \in DOMAIN rows : rows[i].expected = e /\ rows[i].predicted = p}
            A == are("pass", "pass")  B == are("fail", "fail")
            C == are("fail", "pass")  D == are("pass", "fail")
<1>1. Len(rows) \in Nat /\ S = 1..Len(rows)  BY LenProperties
<1>2. IsFiniteSet(S) /\ Cardinality(S) = Len(rows)
  <2>1. Len(rows) \in Nat  BY <1>1
  <2>2. IsFiniteSet(1..Len(rows)) /\ Cardinality(1..Len(rows)) = Len(rows)  BY <2>1, FS_Interval
  <2>. HIDE DEF S
  <2>. QED  BY <1>1, <2>2
<1>3. A \cup B \cup C \cup D = S  BY DEF Labels
<1>4. A \cap B = {} /\ C \cap D = {} /\ (A \cup B) \cap (C \cup D) = {}  OBVIOUS
<1>5. LET m == Matrix(rows)
      IN  /\ m.tp = Cardinality(A) /\ m.tn = Cardinality(B)
          /\ m.fp = Cardinality(C) /\ m.fn = Cardinality(D)
  BY DEF Matrix, Matched
<1>. HIDE DEF S, A, B, C, D
<1>6. A \in SUBSET S /\ B \in SUBSET S /\ C \in SUBSET S /\ D \in SUBSET S  BY <1>3
<1>7. IsFiniteSet(A) /\ IsFiniteSet(B) /\ IsFiniteSet(C) /\ IsFiniteSet(D)  BY <1>2, <1>6, FS_Subset
<1>8. Cardinality(A) \in Nat /\ Cardinality(B) \in Nat /\ Cardinality(C) \in Nat /\ Cardinality(D) \in Nat
  BY <1>7, FS_CardinalityType
<1>9. Cardinality({}) = 0  BY FS_EmptySet
<1>10. IsFiniteSet(A \cup B) /\ Cardinality(A \cup B) = Cardinality(A) + Cardinality(B)
  <2>1. /\ IsFiniteSet(A \cup B)
        /\ Cardinality(A \cup B) = Cardinality(A) + Cardinality(B) - Cardinality(A \cap B)
    BY <1>7, FS_Union
  <2>2. Cardinality(A \cap B) = 0  BY <1>4, <1>9
  <2>. QED  BY <1>8, <2>1, <2>2
<1>11. IsFiniteSet(C \cup D) /\ Cardinality(C \cup D) = Cardinality(C) + Cardinality(D)
  <2>1. /\ IsFiniteSet(C \cup D)
        /\ Cardinality(C \cup D) = Cardinality(C) + Cardinality(D) - Cardinality(C \cap D)
    BY <1>7, FS_Union
  <2>2. Cardinality(C \cap D) = 0  BY <1>4, <1>9
  <2>. QED  BY <1>8, <2>1, <2>2
<1>12. Cardinality(S) = Cardinality(A) + Cardinality(B) + Cardinality(C) + Cardinality(D)
  <2>. DEFINE U == A \cup B  V == C \cup D
  <2>1. U \cup V = S /\ U \cap V = {}  BY <1>3, <1>4
  <2>2. IsFiniteSet(U) /\ IsFiniteSet(V) /\ Cardinality(U) = Cardinality(A) + Cardinality(B)
        /\ Cardinality(V) = Cardinality(C) + Cardinality(D)
    BY <1>10, <1>11
  <2>. HIDE DEF U, V
  <2>3. Cardinality(U \cup V) = Cardinality(U) + Cardinality(V) - Cardinality(U \cap V)  BY <2>2, FS_Union
  <2>4. Cardinality(U \cap V) = 0  BY <1>9, <2>1
  <2>5. Cardinality(U) \in Nat /\ Cardinality(V) \in Nat  BY <1>8, <2>2
  <2>6. Cardinality(U \cup V) = Cardinality(U) + Cardinality(V)  BY <2>3, <2>4, <2>5
  <2>7. Cardinality(U \cup V) = Cardinality(S)  BY <2>1, Zenon
  <2>. QED  BY <1>8, <2>2, <2>6, <2>7
<1>. QED  BY <1>1, <1>2, <1>5, <1>8, <1>12

(* A passing calibration has as many examples as its matrix counts, and    *)
(* rates that are over something.                                          *)
LEMMA CalibrationHonest ==
    ASSUME NoneIsNone, NEW package, CandidateOf(package) # None, LimitsOf(package), RowsOf(package), NEW later
    PROVE  CalibrationValid(AssessScorerCalibration(package, later))
<1>. DEFINE r == AssessScorerCalibration(package, later)
            b == Content[package].bundle
            m == Matrix(b.rows)
<1>1. r.status = StatusOf(r.findings) /\ r.candidate = CandidateOf(package)
  BY DEF AssessScorerCalibration
<1>2. CASE r.status # "pass"
  BY <1>1, <1>2, StatusPass DEF CalibrationValid
<1>3. CASE r.status = "pass"
  <2>1. /\ Content[package].valid /\ b # None /\ r.findings = Clean
        /\ RowsFindings(b) = Clean /\ LimitFindings(b) = Clean
        /\ Threshold(b.threshold) /\ \A f \in LimitFields : LimitSound(b.limits, f)
        /\ b.id # None /\ b.version # None /\ b.prompt # None /\ b.parameters # None
    BY <1>3, CalibrationPass
  <2>2. /\ r.scorer_id = b.id /\ r.version = b.version /\ r.prompt = b.prompt /\ r.parameters = b.parameters
        /\ r.examples = Len(b.rows) /\ r.policy = AppliedPolicy(b) /\ r.matrix = m /\ r.metrics = Metrics(m)
    BY <2>1 DEF AssessScorerCalibration
  <2>3. r.policy # None /\ r.policy.limits = b.limits
    <3>1. r.policy = [threshold |-> b.threshold, limits |-> b.limits]  BY <2>1, <2>2 DEF AppliedPolicy
    <3>. QED  BY <3>1 DEF NoneIsNone
  <2>4. b.rows \in Seq(ToSet(b.rows))  BY <2>1 DEF RowsOf
  <2>6. \A i \in DOMAIN b.rows : b.rows[i].expected \in Labels /\ b.rows[i].predicted \in Labels
    <3>1. \A x \in ToSet(b.rows) : RowFindings(x) = Clean  BY <2>1 DEF RowsFindings, Clean
    <3>2. \A x \in ToSet(b.rows) : x.expected \in Labels /\ x.predicted \in Labels
      BY <3>1 DEF RowFindings, If, Clean
    <3>. QED  BY <3>2 DEF ToSet
  <2>8. /\ m.tp \in Nat /\ m.tn \in Nat /\ m.fp \in Nat /\ m.fn \in Nat
        /\ Len(b.rows) \in Nat /\ Len(b.rows) = m.tp + m.tn + m.fp + m.fn
    BY <2>4, <2>6, MatrixCounts
  <2>. DEFINE measured == Measured(b.rows, m)
  <2>9. /\ measured.minimum_examples = Len(b.rows)
        /\ measured.minimum_true_positives = m.tp /\ measured.minimum_true_negatives = m.tn
        /\ measured.max_false_positives = m.fp /\ measured.max_false_negatives = m.fn
    BY DEF Measured
  <2>10. \A f \in LimitFields : LimitMet(measured, b.limits, f)
    BY <2>1 DEF LimitFindings, LimitSound, Clean
  <2>. HIDE DEF measured, m, r, b
  <2>11. /\ Len(b.rows) >= b.limits.minimum_examples
         /\ m.tp >= b.limits.minimum_true_positives /\ m.tn >= b.limits.minimum_true_negatives
         /\ m.fp <= b.limits.max_false_positives /\ m.fn <= b.limits.max_false_negatives
    BY <2>9, <2>10 DEF LimitMet, LimitFields, Minimum
  <2>12. /\ b.limits.minimum_true_positives \in Int /\ b.limits.minimum_true_positives >= 1
         /\ b.limits.minimum_true_negatives \in Int /\ b.limits.minimum_true_negatives >= 1
    BY <2>1 DEF LimitSound, LimitsOf, LimitFields, Minimum, b
  <2>13. m.tp >= 1 /\ m.tn >= 1  BY <2>8, <2>11, <2>12
  <2>14. /\ m.tp + m.fn # 0 /\ m.tn + m.fp # 0 /\ m.tp + m.fp # 0 /\ m.tp + m.tn + m.fp + m.fn # 0
         /\ Len(b.rows) > 0
    BY <2>8, <2>13
  <2>15. r.metrics = [tpr |-> <<m.tp, m.tp + m.fn>>, tnr |-> <<m.tn, m.tn + m.fp>>,
                      precision |-> <<m.tp, m.tp + m.fp>>, accuracy |-> <<m.tp + m.tn, r.examples>>]
    BY <2>2, <2>8, <2>14 DEF Metrics, Ratio
  <2>. SUFFICES CalibrationValid(r)
    BY DEF r
  <2>. QED
    BY <1>1, <1>3, <2>1, <2>2, <2>3, <2>8, <2>11, <2>14, <2>15 DEF CalibrationValid
<1>. QED  BY <1>2, <1>3

-----------------------------------------------------------------------------
(* What a passing review is worth. *)
Endorses(a, package) ==
    /\ a.candidate = package
    /\ Reviewed(a) = Referenced(Content[package].files)
    /\ EvidenceFits(a, Content[package].files)
    /\ \A item \in a.items : item.status = "clear"

(* assess_content_review passes only an assessment that endorses.          *)
LEMMA ReviewPass ==
    ASSUME NEW package \in DOMAIN Content, NEW supplied, AssessContentReview(Validation(package), supplied).findings = Clean
    PROVE  LET r == AssessContentReview(Validation(package), supplied)
           IN  supplied # None /\ r.assessment = supplied /\ r.candidate = package /\ Endorses(supplied, package)
<1>. DEFINE v      == Validation(package)
            usable == supplied # None /\ AssessmentValid(supplied)
            A == v.findings
            B == If(~usable, "invalid_content_review")
            C == IF v.status = "pass" /\ usable THEN ReviewGaps(v, supplied) ELSE Clean
            r == AssessContentReview(v, supplied)
<1>1. r = [candidate |-> v.candidate, status |-> StatusOf(A \cup B \cup C),
           assessment |-> IF usable THEN supplied ELSE None, findings |-> A \cup B \cup C]
  BY DEF AssessContentReview
<1>2. A = Clean /\ B = Clean /\ C = Clean
  <2>1. A \cup B \cup C = Clean  BY <1>1
  <2>. HIDE DEF A, B, C
  <2>. QED  BY <2>1 DEF Clean
<1>3. usable  BY <1>2 DEF If, Clean
<1>4. v.candidate = package /\ v.files = Content[package].files /\ v.status = "pass"
  BY <1>2, CaptureValid, ValidCandidate DEF Validation
<1>5. ReviewGaps(v, supplied) = Clean  BY <1>2, <1>3, <1>4
<1>6. Endorses(supplied, package)
  <2>. HIDE DEF v
  <2>. QED  BY <1>4, <1>5 DEF ReviewGaps, If, Clean, Endorses
<1>. QED  BY <1>1, <1>3, <1>4, <1>6

(* What assess_content_review answers keeps its contract. *)
LEMMA ReviewHonest ==
    ASSUME NEW package \in DOMAIN Content, NEW supplied
    PROVE  LET r == AssessContentReview(Validation(package), supplied)
           IN  /\ ReviewResultValid(r) /\ r.candidate = CandidateOf(package) /\ r.status = StatusOf(r.findings)
               /\ r.assessment # None => r.assessment = supplied
               /\ r.status = "pass" => r.assessment = supplied /\ supplied # None
<1>. DEFINE v      == Validation(package)
            usable == supplied # None /\ AssessmentValid(supplied)
            r      == AssessContentReview(v, supplied)
<1>1. /\ r.candidate = v.candidate /\ r.status = StatusOf(r.findings)
      /\ r.assessment = IF usable THEN supplied ELSE None
  BY DEF AssessContentReview
<1>2. v.candidate = CandidateOf(package)  BY CaptureValid DEF Validation
<1>3. CASE r.findings = Clean
  <2>1. supplied # None /\ r.assessment = supplied /\ r.candidate = package /\ Endorses(supplied, package)
    BY <1>3, ReviewPass
  <2>. HIDE DEF r, v
  <2>. QED  BY <1>1, <1>2, <1>3, <2>1, StatusPass DEF ReviewResultValid, Endorses, r, v
<1>4. CASE r.findings # Clean
  <2>1. r.status # "pass"  BY <1>1, <1>4, StatusPass
  <2>2. r.assessment # None => AssessmentValid(r.assessment) /\ r.assessment = supplied  BY <1>1
  <2>. HIDE DEF r
  <2>. QED  BY <1>1, <1>2, <1>4, <2>1, <2>2 DEF ReviewResultValid, r
<1>. QED  BY <1>3, <1>4

-----------------------------------------------------------------------------
(* The review that a worker process makes: execute_content_review. *)
PacketCodes ==
    {"invalid_content_review_adapter", "content_review_output_limit", "content_review_adapter_failed",
     "invalid_content_review"}
Packet ==
    [kind : {"invoked"}, reviewer : Reviewers, late : BOOLEAN]
    \cup [kind : {"returned"}, assessment : Assessments, late : BOOLEAN]
    \cup [kind : {"blocked", "refused"}, code : PacketCodes, late : BOOLEAN]

Over == worker \in {"finished", "gone"}

(* A packet that carries an assessment carries the one that was returned. *)
Wire ==
    /\ packets \in Seq(Packet) /\ startupOver \in BOOLEAN /\ reviewOver \in BOOLEAN
    /\ \A i \in DOMAIN packets : packets[i].kind = "returned" =>
           Over /\ returned = [assessment |-> packets[i].assessment, late |-> packets[i].late]

(* The worker was given what the bound candidate holds. *)
Given == pc \in {"start", "read", "stop", "raise", "assess"} => documents = Content[bound].files

(* What was read is what was returned, in time. *)
Reported == assessment # None => Over /\ returned = [assessment |-> assessment, late |-> FALSE]

(* What passes endorses the candidate whose documents were given. *)
Accepted ==
    (pc = "done" /\ execution # Cancelled /\ execution.status = "pass") =>
        /\ assessment # None /\ execution.review.assessment = assessment
        /\ assessment.reviewer = reviewer
        /\ Endorses(assessment, execution.candidate) /\ documents = Content[execution.candidate].files

ReviewInv == Wire /\ Given /\ Reported /\ Accepted

LEMMA ReviewInvEarned == ReviewInv => ReviewEarned
BY DEF ReviewInv, Reported, Accepted, ReviewEarned, Endorses

LEMMA ReviewInit == Init => ReviewInv
<1>. SUFFICES ASSUME Init PROVE ReviewInv
  OBVIOUS
<1>1. packets = <<>> /\ packets \in Seq(Packet) /\ DOMAIN packets = {}  BY EmptySeq DEF Init, Idle
<1>. QED  BY <1>1 DEF Init, Idle, ReviewInv, Wire, Given, Reported, Accepted

(* Nothing of a review depends on what the directories hold afterwards. *)
LEMMA ReviewSame == ASSUME ReviewInv, UNCHANGED review PROVE ReviewInv'
BY DEF review, process, time, seen, ReviewInv, Wire, Over, Given, Reported, Accepted, Endorses

(* A blocked execution passes nothing. *)
LEMMA BlockedExecution ==
    ASSUME NEW candidate, NEW code1 PROVE Execution(candidate, None, {code1}).status # "pass"
BY StatusPass DEF Execution, Clean

LEMMA ValidateStep == ASSUME ReviewInv, Validate PROVE ReviewInv'
<1>. USE DEF Validate, world, process, time, seen
<1>1. Wire' /\ Given' /\ Reported'  BY DEF ReviewInv, Wire, Over, Given, Reported, Return
<1>2. Accepted'  BY BlockedExecution DEF Return, Accepted
<1>. QED  BY <1>1, <1>2 DEF ReviewInv

LEMMA CaptureStep == ASSUME ReviewInv, Capture PROVE ReviewInv'
<1>. USE DEF Capture, world, process, time, seen
<1>1. Wire' /\ Given' /\ Reported'  BY DEF ReviewInv, Wire, Over, Given, Reported, Return
<1>2. Accepted'  BY BlockedExecution DEF Return, Accepted
<1>. QED  BY <1>1, <1>2 DEF ReviewInv

(* A step towards the result that leaves the result open. *)
LEMMA ParentMoves ==
    ASSUME ReviewInv, StartFails \/ StartReturns \/ Cancel \/ Stop PROVE ReviewInv'
<1>. USE DEF StartFails, StartReturns, Cancel, Stop, world, process, time, seen
<1>1. Wire'  BY DEF ReviewInv, Wire, Over
<1>2. Given' /\ Reported'  BY DEF ReviewInv, Over, Given, Reported
<1>3. Accepted'  BY DEF Accepted
<1>. QED  BY <1>1, <1>2, <1>3 DEF ReviewInv

(* A packet is written once, and read once. *)
LEMMA Written ==
    ASSUME Wire, NEW packet \in Packet, Writes(packet),
           packet.kind = "returned" => Over' /\ returned' = [assessment |-> packet.assessment, late |-> packet.late],
           packet.kind = "returned" => \A i \in DOMAIN packets : packets[i].kind # "returned",
           packet.kind # "returned" => returned' = returned /\ (Over => Over'),
           UNCHANGED time
    PROVE  Wire'
<1>1. packets \in Seq(Packet) /\ Len(packets) \in Nat /\ DOMAIN packets = 1..Len(packets)  BY LenProperties DEF Wire
<1>2. /\ packets' \in Seq(Packet) /\ DOMAIN packets' = 1..Len(packets) + 1
      /\ \A i \in 1..Len(packets) : packets'[i] = packets[i]
      /\ packets'[Len(packets) + 1] = packet
  BY <1>1, AppendProperties, LenProperties DEF Writes
<1>3. \A i \in DOMAIN packets' : (i \in DOMAIN packets /\ packets'[i] = packets[i]) \/ packets'[i] = packet
  BY <1>1, <1>2
<1>. QED  BY <1>2, <1>3 DEF Wire, time

LEMMA Prefix ==
    ASSUME Wire, packets # <<>>, UNCHANGED <<time, returned>>, Over => Over',
           packets' = Tail(packets) \/ packets' = SubSeq(packets, 1, Len(packets) - 1)
    PROVE  Wire'
<1>1. packets \in Seq(Packet) /\ Len(packets) \in Nat /\ DOMAIN packets = 1..Len(packets) /\ Len(packets) # 0
  BY LenProperties, EmptySeq DEF Wire
<1>2. packets' \in Seq(Packet) /\ \A i \in DOMAIN packets' : \E j \in DOMAIN packets : packets'[i] = packets[j]
  <2>1. CASE packets' = Tail(packets)
    BY <1>1, <2>1, HeadTailProperties, LenProperties
  <2>2. CASE packets' = SubSeq(packets, 1, Len(packets) - 1)
    BY <1>1, <2>2, SubSeqProperties, LenProperties
  <2>. QED  BY <2>1, <2>2
<1>. QED  BY <1>2 DEF Wire, time

(* While the adapter runs nothing was returned, so nothing was read. *)
LEMMA Unanswered ==
    ASSUME ReviewInv, ~Over
    PROVE  assessment = None /\ \A i \in DOMAIN packets : packets[i].kind # "returned"
BY DEF ReviewInv, Wire, Reported

LEMMA WorkerStep == ASSUME ReviewInv, Worker \/ WorkerStarts PROVE ReviewInv'
<1>. USE DEF world, process, time, seen
<1>1. UNCHANGED <<pc, bound, documents, assessment, reviewer, execution>> /\ UNCHANGED time
  BY DEF Worker, WorkerRefuses, WorkerInvokes, AdapterReturns, AdapterFails, WorkerStarts
<1>2. Given' /\ Accepted'  BY <1>1 DEF ReviewInv, Given, Accepted, Endorses
<1>3. ~Over  BY DEF Worker, WorkerRefuses, WorkerInvokes, AdapterReturns, AdapterFails, WorkerStarts, Over
<1>4. Reported'  BY <1>1, <1>3, Unanswered DEF Reported
<1>5. Wire'
  <2>. USE <1>3, Unanswered DEF ReviewInv
  <2>1. startupOver \in BOOLEAN /\ reviewOver \in BOOLEAN  BY DEF Wire
  <2>2. CASE WorkerStarts
    BY <2>2 DEF WorkerStarts, Wire, Over
  <2>3. CASE WorkerRefuses
    <3>1. PICK c \in {"invalid_content_review_adapter", "content_review_output_limit"} :
              Writes([kind |-> "refused", code |-> c, late |-> startupOver])
      BY <2>3 DEF WorkerRefuses
    <3>. QED  BY <3>1, <2>1, <2>3, Written DEF WorkerRefuses, Packet, PacketCodes
  <2>4. CASE WorkerInvokes
    <3>1. PICK r \in Reviewers : Writes([kind |-> "invoked", reviewer |-> r, late |-> startupOver])
      BY <2>4 DEF WorkerInvokes
    <3>. QED  BY <3>1, <2>1, <2>4, Written DEF WorkerInvokes, Packet
  <2>5. CASE AdapterFails
    <3>1. PICK c \in {"content_review_adapter_failed", "content_review_output_limit"} :
              Writes([kind |-> "blocked", code |-> c, late |-> reviewOver])
      BY <2>5 DEF AdapterFails
    <3>. QED  BY <3>1, <2>1, <2>5, Written DEF AdapterFails, Packet, PacketCodes
  <2>6. ASSUME NEW a \in Assessments \cup {None}, AdapterReturns(a) PROVE Wire'
    <3>1. worker' = "finished" /\ returned' = [assessment |-> a, late |-> reviewOver]
      BY <2>6 DEF AdapterReturns
    <3>2. CASE a # None /\ AssessmentValid(a)
      <4>. DEFINE packet == [kind |-> "returned", assessment |-> a, late |-> reviewOver]
      <4>1. Writes(packet) /\ packet \in Packet  BY <2>1, <2>6, <3>2 DEF AdapterReturns, Packet
      <4>. QED  BY <1>1, <3>1, <4>1, Written DEF Over
    <3>3. CASE ~(a # None /\ AssessmentValid(a))
      <4>. DEFINE packet == [kind |-> "blocked", code |-> "invalid_content_review", late |-> reviewOver]
      <4>1. Writes(packet) /\ packet \in Packet  BY <2>1, <2>6, <3>3 DEF AdapterReturns, Packet, PacketCodes
      <4>2. \A i \in DOMAIN packets : packets[i].kind # "returned"  OBVIOUS
      <4>3. packets' = Append(packets, packet) /\ packets \in Seq(Packet) /\ DOMAIN packets = 1..Len(packets)
            /\ Len(packets) \in Nat
        BY <4>1, LenProperties DEF Writes, Wire
      <4>4. packets' \in Seq(Packet) /\ \A i \in DOMAIN packets' : packets'[i].kind # "returned"
        BY <4>1, <4>2, <4>3, AppendProperties, LenProperties
      <4>. QED  BY <1>1, <2>1, <4>4 DEF Wire, time
    <3>. QED  BY <3>2, <3>3
  <2>. QED  BY <2>2, <2>3, <2>4, <2>5, <2>6 DEF Worker
<1>. QED  BY <1>2, <1>4, <1>5 DEF ReviewInv

LEMMA WorkerEndsStep == ASSUME ReviewInv, WorkerEnds PROVE ReviewInv'
<1>. USE DEF WorkerEnds, world, process, time, seen
<1>1. Given' /\ Reported' /\ Accepted'  BY DEF ReviewInv, Given, Reported, Accepted, Endorses, Over
<1>2. CASE UNCHANGED packets
  <2>1. Wire'  BY <1>2 DEF ReviewInv, Wire, Over
  <2>. QED  BY <1>1, <2>1 DEF ReviewInv
<1>3. CASE packets # <<>> /\ packets' = SubSeq(packets, 1, Len(packets) - 1)
  <2>1. Wire'  BY <1>3, Prefix DEF ReviewInv, Over
  <2>. QED  BY <1>1, <2>1 DEF ReviewInv
<1>. QED  BY <1>2, <1>3

LEMMA TimeStep == ASSUME ReviewInv, StartupPasses \/ ReviewPasses PROVE ReviewInv'
BY DEF StartupPasses, ReviewPasses, world, process, seen, ReviewInv, Wire, Given, Reported, Accepted, Endorses, Over

LEMMA ReadInvokedStep == ASSUME ReviewInv, ReadInvoked PROVE ReviewInv'
<1>. USE DEF ReadInvoked, Observed, world, process, time, seen
<1>1. Given' /\ Reported' /\ Accepted'  BY DEF ReviewInv, Given, Reported, Accepted, Endorses, Over
<1>2. Wire'  BY Prefix DEF ReviewInv, Over
<1>. QED  BY <1>1, <1>2 DEF ReviewInv

LEMMA ReadAnswerStep == ASSUME ReviewInv, ReadAnswer PROVE ReviewInv'
<1>. USE DEF ReadAnswer, Observed, world, process, time, seen
<1>1. Given' /\ Accepted'  BY DEF ReviewInv, Given, Accepted, Endorses, Over
<1>2. Wire'  BY Prefix DEF ReviewInv, Over
<1>3. packets \in Seq(Packet) /\ packets # <<>> /\ Head(packets) = packets[1] /\ 1 \in DOMAIN packets
  BY HeadTailProperties, LenProperties, EmptySeq DEF ReviewInv, Wire
<1>4. packets[1] \in Packet  BY <1>3, ElementOfSeq, LenProperties
<1>5. packets[1].late \in BOOLEAN  BY <1>4 DEF Packet
<1>6. Reported'
  <2>1. CASE packets[1].kind = "returned" /\ ~packets[1].late
    BY <2>1, <1>3, <1>5 DEF ReviewInv, Wire, Reported, Over
  <2>2. CASE ~(packets[1].kind = "returned" /\ ~packets[1].late)
    BY <2>2, <1>3 DEF Reported
  <2>. QED  BY <2>1, <2>2
<1>. QED  BY <1>1, <1>2, <1>6 DEF ReviewInv

LEMMA ReadGivesUp == ASSUME ReviewInv, ReadEnds \/ ReadExpires PROVE ReviewInv'
BY DEF ReadEnds, ReadExpires, Observed, world, process, time, seen, ReviewInv, Wire, Given, Reported, Accepted,
       Endorses, Over

LEMMA RaiseStep == ASSUME ReviewInv, Raise PROVE ReviewInv'
BY DEF Raise, Return, world, process, time, seen, ReviewInv, Wire, Given, Reported, Accepted, Over

LEMMA AssessFailedStep == ASSUME ReviewInv, AssessFailed PROVE ReviewInv'
<1>. USE DEF AssessFailed, Return, world, process, time, seen
<1>1. Wire' /\ Given' /\ Reported'  BY DEF ReviewInv, Wire, Over, Given, Reported
<1>2. Accepted'  BY BlockedExecution DEF Accepted
<1>. QED  BY <1>1, <1>2 DEF ReviewInv

(* The package that is assessed is the one whose documents were given. *)
LEMMA AssessStep == ASSUME ReviewInv, tree \in DOMAIN Content, Assess PROVE ReviewInv'
<1>. USE DEF Assess, Return, world, process, time, seen
<1>1. Wire' /\ Given' /\ Reported'  BY DEF ReviewInv, Wire, Over, Given, Reported
<1>2. Accepted'
  <2>. DEFINE r == AssessContentReview(Validation(tree), assessment)
              B == If(r.candidate # bound, "content_review_candidate_changed")
              C == If(r.assessment # None /\ r.assessment.reviewer # reviewer, "content_review_reviewer_mismatch")
  <2>1. execution' = Execution(bound, r, r.findings \cup B \cup C)  OBVIOUS
  <2>. HIDE DEF r
  <2>. SUFFICES ASSUME execution'.status = "pass"
                PROVE  /\ assessment # None /\ execution'.review.assessment = assessment
                       /\ assessment.reviewer = reviewer
                       /\ Endorses(assessment, execution'.candidate) /\ documents = Content[execution'.candidate].files
    BY DEF Accepted, Endorses
  <2>2. /\ r.findings \cup B \cup C = Clean /\ execution'.review = r /\ execution'.candidate = bound
    BY <2>1, StatusPass DEF Execution
  <2>3. r.findings = Clean /\ B = Clean /\ C = Clean
    <3>. HIDE DEF B, C
    <3>. QED  BY <2>2 DEF Clean
  <2>4. assessment # None /\ r.assessment = assessment /\ r.candidate = tree /\ Endorses(assessment, tree)
    BY <2>3, ReviewPass DEF r
  <2>5. tree = bound /\ assessment.reviewer = reviewer  BY <2>3, <2>4 DEF If, Clean
  <2>6. documents = Content[bound].files  BY DEF ReviewInv, Given
  <2>. QED  BY <2>2, <2>4, <2>5, <2>6
<1>. QED  BY <1>1, <1>2 DEF ReviewInv

LEMMA ParentStep == ASSUME ReviewInv, tree \in DOMAIN Content, Parent PROVE ReviewInv'
BY ValidateStep, CaptureStep, ParentMoves, ReadInvokedStep, ReadAnswerStep, ReadGivesUp, RaiseStep, AssessFailedStep,
   AssessStep DEF Parent

-----------------------------------------------------------------------------
(* What a review returns keeps its contract *)

(* An answer comes after the invitation that declared the reviewer. *)
Heralded ==
    /\ pc # "idle" => bound \in DOMAIN Content
    /\ reviewer \in Reviewers \cup {None}
    /\ worker = "invoked" => reviewer # None \/ (packets # <<>> /\ packets[Len(packets)].kind = "invoked")
    /\ \A i \in DOMAIN packets : packets[i].kind = "returned" =>
           reviewer # None \/ (i > 1 /\ packets[i - 1].kind = "invoked")
    /\ (pc \in {"stop", "assess"} /\ code = None) => reviewer # None

Observation == (pc = "done" /\ execution # Cancelled) => ExecutionValid(execution)

HonestInv == ReviewInv /\ Heralded /\ Observation

(* What fails says why, and hands out no review. *)
LEMMA FailedExecution ==
    ASSUME reviewer \in Reviewers \cup {None}, NEW candidate \in DOMAIN Content, NEW why
    PROVE  ExecutionValid(Execution(candidate, None, {why}))
<1>. DEFINE x == Execution(candidate, None, {why})
<1>1. /\ x.candidate = candidate /\ x.status = StatusOf({why}) /\ x.adapter_invoked = (reviewer # None)
      /\ x.reviewer = reviewer /\ x.review = None /\ x.findings = {why}
  BY DEF Execution
<1>2. {why} # Clean /\ candidate # None
  BY ContentAssumption DEF Clean
<1>3. x.status # "pass"  BY <1>1, <1>2, StatusPass
<1>. QED  BY <1>1, <1>2, <1>3 DEF ExecutionValid

(* What was observed is what is returned, if it is about the candidate and *)
(* by the reviewer who was declared.                                       *)
LEMMA AssessHonest ==
    ASSUME NoneIsNone, reviewer # None, tree \in DOMAIN Content, NEW candidate \in DOMAIN Content
    PROVE  LET review1 == AssessContentReview(Validation(tree), assessment)
           IN  ExecutionValid(Execution(candidate, review1,
                   review1.findings
                   \cup If(review1.candidate # candidate, "content_review_candidate_changed")
                   \cup If(review1.assessment # None /\ review1.assessment.reviewer # reviewer,
                           "content_review_reviewer_mismatch")))
<1>. DEFINE r == AssessContentReview(Validation(tree), assessment)
            A == r.findings
            B == If(r.candidate # candidate, "content_review_candidate_changed")
            C == If(r.assessment # None /\ r.assessment.reviewer # reviewer, "content_review_reviewer_mismatch")
            x == Execution(candidate, r, A \cup B \cup C)
<1>1. r # None
  <2>1. r = [candidate |-> r.candidate, status |-> r.status, assessment |-> r.assessment, findings |-> r.findings]
    BY DEF AssessContentReview
  <2>. HIDE DEF r
  <2>. QED  BY <2>1 DEF NoneIsNone
<1>2. /\ ReviewResultValid(r) /\ r.status = StatusOf(r.findings)
      /\ r.status = "pass" => r.assessment # None
  BY ReviewHonest
<1>. HIDE DEF r
<1>3. /\ x.candidate = candidate /\ x.status = StatusOf(A \cup B \cup C) /\ x.adapter_invoked = TRUE
      /\ x.reviewer = reviewer /\ x.review = r /\ x.findings = A \cup B \cup C
  BY DEF Execution
<1>4. candidate # None  BY ContentAssumption
<1>5. CASE A \cup B \cup C = Clean
  <2>1. A = Clean /\ B = Clean /\ C = Clean
    <3>. HIDE DEF A, B, C
    <3>. QED  BY <1>5 DEF Clean
  <2>2. r.status = "pass" /\ r.candidate = candidate /\ r.assessment # None /\ r.assessment.reviewer = reviewer
    BY <1>2, <2>1, StatusPass DEF If, Clean
  <2>3. x.status = "pass"  BY <1>3, <1>5, StatusPass
  <2>. HIDE DEF A, B, C
  <2>. QED  BY <1>1, <1>2, <1>3, <1>4, <1>5, <2>2, <2>3 DEF ExecutionValid, r, A, B, C
<1>6. CASE A \cup B \cup C # Clean
  <2>1. x.status # "pass"  BY <1>3, <1>6, StatusPass
  <2>. HIDE DEF A, B, C
  <2>. QED  BY <1>2, <1>3, <1>4, <1>6, <2>1 DEF ExecutionValid, r, A, B, C
<1>. QED  BY <1>5, <1>6

(* Why an observation failed is not None. *)
LEMMA ReasonGiven ==
    ASSUME NoneIsNone
    PROVE  /\ None # "unsupported_content_review_isolation" /\ None # "cancelled"
           /\ None # "content_review_adapter_failed" /\ None # "content_review_timeout"
           /\ None \notin PacketCodes
BY DEF NoneIsNone, Reasons, PacketCodes

LEMMA HonestInit == Init => HonestInv
<1>. SUFFICES ASSUME Init PROVE HonestInv
  OBVIOUS
<1>1. DOMAIN packets = {}  BY EmptySeq DEF Init, Idle
<1>2. Heralded /\ Observation  BY <1>1 DEF Init, Idle, Heralded, Observation
<1>. QED  BY <1>2, ReviewInit DEF HonestInv

LEMMA HonestSame == ASSUME HonestInv, UNCHANGED review PROVE HonestInv'
<1>1. ReviewInv'  BY ReviewSame DEF HonestInv
<1>2. Heralded' /\ Observation'  BY DEF HonestInv, Heralded, Observation, review, process, seen
<1>. QED  BY <1>1, <1>2 DEF HonestInv

(* The end of a review that was not observed. *)
LEMMA HonestFailure ==
    ASSUME NoneIsNone, HonestInv, tree \in DOMAIN Content, Validate \/ Capture \/ Raise \/ AssessFailed
    PROVE  Heralded' /\ Observation'
<1>. USE DEF Validate, Capture, Raise, AssessFailed, world, process, seen, Return
<1>1. /\ reviewer \in Reviewers \cup {None} /\ (pc # "idle" => bound \in DOMAIN Content)
      /\ CandidateOf(tree) \in DOMAIN Content
  BY ContentAssumption DEF HonestInv, Heralded
<1>2. Heralded'  BY <1>1 DEF HonestInv, Heralded
<1>3. Observation'
  <2>1. CASE Validate
    <3>1. ExecutionValid(Execution(CandidateOf(tree), None, {"invalid_package"}))  BY <1>1, FailedExecution
    <3>. QED  BY <2>1, <3>1 DEF Observation
  <2>2. CASE Capture
    <3>1. /\ ExecutionValid(Execution(bound, None, {"content_review_candidate_changed"}))
          /\ ExecutionValid(Execution(bound, None, {"content_review_input_limit"}))
      BY <1>1, <2>2, FailedExecution
    <3>. QED  BY <2>2, <3>1 DEF Observation
  <2>3. CASE AssessFailed
    <3>1. ExecutionValid(Execution(bound, None, {code}))  BY <1>1, <2>3, FailedExecution
    <3>. QED  BY <2>3, <3>1 DEF Observation
  <2>4. CASE Raise  BY <2>4 DEF Observation
  <2>. QED  BY <2>1, <2>2, <2>3, <2>4
<1>. QED  BY <1>2, <1>3

LEMMA HonestAssess ==
    ASSUME NoneIsNone, HonestInv, tree \in DOMAIN Content, Assess PROVE Heralded' /\ Observation'
<1>. USE DEF Assess, world, process, seen, Return
<1>1. reviewer # None /\ bound \in DOMAIN Content  BY DEF HonestInv, Heralded
<1>2. ExecutionValid(execution')  BY <1>1, AssessHonest
<1>. QED  BY <1>2 DEF HonestInv, Heralded, Observation

LEMMA HonestMoves ==
    ASSUME NoneIsNone, HonestInv, StartFails \/ StartReturns \/ Cancel \/ Stop \/ ReadEnds \/ ReadExpires
    PROVE  Heralded' /\ Observation'
<1>. USE DEF StartFails, StartReturns, Cancel, Stop, ReadEnds, ReadExpires, Observed, world, process, seen
<1>. QED  BY ReasonGiven DEF HonestInv, Heralded, Observation

LEMMA HonestTime ==
    ASSUME HonestInv, StartupPasses \/ ReviewPasses \/ WorkerStarts PROVE Heralded' /\ Observation'
BY DEF StartupPasses, ReviewPasses, WorkerStarts, world, process, seen, HonestInv, Heralded, Observation

(* The end of the line is heard first: what is written comes last, and     *)
(* what is read comes first.                                               *)
HeraldedIn(sent, heard) ==
    \A i \in DOMAIN sent : sent[i].kind = "returned" => heard # None \/ (i > 1 /\ sent[i - 1].kind = "invoked")

LEMMA HeardAppended ==
    ASSUME Wire, NEW packet \in Packet, Writes(packet), HeraldedIn(packets, reviewer),
           packet.kind = "returned" => reviewer # None \/ (packets # <<>> /\ packets[Len(packets)].kind = "invoked")
    PROVE  HeraldedIn(packets', reviewer) /\ packets' # <<>> /\ packets'[Len(packets')] = packet
<1>1. packets \in Seq(Packet) /\ Len(packets) \in Nat /\ DOMAIN packets = 1..Len(packets)  BY LenProperties DEF Wire
<1>2. /\ packets' \in Seq(Packet) /\ Len(packets') = Len(packets) + 1 /\ DOMAIN packets' = 1..Len(packets) + 1
      /\ \A i \in 1..Len(packets) : packets'[i] = packets[i]
      /\ packets'[Len(packets) + 1] = packet
  BY <1>1, AppendProperties, LenProperties DEF Writes
<1>3. packets # <<>> => Len(packets) >= 1  BY <1>1, EmptySeq
<1>4. packets' # <<>>  BY <1>1, <1>2, EmptySeq
<1>5. ASSUME NEW i \in DOMAIN packets', packets'[i].kind = "returned"
      PROVE  reviewer # None \/ (i > 1 /\ packets'[i - 1].kind = "invoked")
  <2>1. CASE i \in 1..Len(packets)
    BY <1>1, <1>2, <1>5, <2>1 DEF HeraldedIn
  <2>2. CASE i = Len(packets) + 1
    BY <1>1, <1>2, <1>3, <1>5, <2>2
  <2>. QED  BY <1>1, <1>2, <2>1, <2>2
<1>. QED  BY <1>2, <1>4, <1>5 DEF HeraldedIn

LEMMA HeardPrefix ==
    ASSUME Wire, packets # <<>>, HeraldedIn(packets, reviewer), packets' = SubSeq(packets, 1, Len(packets) - 1)
    PROVE  HeraldedIn(packets', reviewer)
<1>1. packets \in Seq(Packet) /\ Len(packets) \in Nat /\ DOMAIN packets = 1..Len(packets) /\ Len(packets) # 0
  BY LenProperties, EmptySeq DEF Wire
<1>2. DOMAIN packets' = 1..(Len(packets) - 1) /\ \A i \in DOMAIN packets' : packets'[i] = packets[i]
  BY <1>1, SubSeqProperties, LenProperties
<1>. QED  BY <1>1, <1>2 DEF HeraldedIn

(* The first packet is read: the rest is one place further on. *)
LEMMA HeardTail ==
    ASSUME Wire, packets # <<>>, HeraldedIn(packets, reviewer), packets' = Tail(packets), NEW heard,
           heard # None \/ (heard = reviewer /\ packets[1].kind # "invoked")
    PROVE  /\ HeraldedIn(packets', heard)
           /\ packets[Len(packets)].kind = "invoked" =>
                  heard # None \/ (packets' # <<>> /\ packets'[Len(packets')].kind = "invoked")
<1>1. packets \in Seq(Packet) /\ Len(packets) \in Nat /\ DOMAIN packets = 1..Len(packets) /\ Len(packets) # 0
  BY LenProperties, EmptySeq DEF Wire
<1>2. /\ packets' \in Seq(Packet) /\ Len(packets') = Len(packets) - 1 /\ DOMAIN packets' = 1..(Len(packets) - 1)
      /\ \A i \in DOMAIN packets' : packets'[i] = packets[i + 1]
  BY <1>1, HeadTailProperties, LenProperties
<1>3. ASSUME NEW i \in DOMAIN packets', packets'[i].kind = "returned", heard = None
      PROVE  i > 1 /\ packets'[i - 1].kind = "invoked"
  <2>1. i + 1 \in DOMAIN packets /\ packets[i + 1].kind = "returned" /\ reviewer = None /\ packets[1].kind # "invoked"
    BY <1>1, <1>2, <1>3
  <2>2. packets[i].kind = "invoked"
    <3>. DEFINE j == i + 1
    <3>1. j \in DOMAIN packets /\ packets[j].kind = "returned" /\ j - 1 = i  BY <1>2, <2>1
    <3>. HIDE DEF j
    <3>2. packets[j - 1].kind = "invoked"  BY <2>1, <3>1 DEF HeraldedIn
    <3>. QED  BY <3>1, <3>2
  <2>3. i > 1  BY <1>2, <2>1, <2>2
  <2>. QED  BY <1>1, <1>2, <2>2, <2>3
<1>4. ASSUME packets[Len(packets)].kind = "invoked", heard = None
      PROVE  packets' # <<>> /\ packets'[Len(packets')].kind = "invoked"
  <2>1. Len(packets) # 1  BY <1>4
  <2>2. Len(packets) - 1 \in 1..(Len(packets) - 1)  BY <1>1, <2>1
  <2>3. packets'[Len(packets')] = packets[Len(packets)]  BY <1>1, <1>2, <2>2
  <2>4. packets' # <<>>  BY <1>1, <1>2, <2>1, EmptySeq
  <2>. QED  BY <1>4, <2>3, <2>4
<1>. QED  BY <1>3, <1>4 DEF HeraldedIn

LEMMA HonestEnds == ASSUME HonestInv, WorkerEnds PROVE Heralded' /\ Observation'
<1>. USE DEF WorkerEnds, world, process, time, seen
<1>1. Wire /\ HeraldedIn(packets, reviewer)  BY DEF HonestInv, ReviewInv, Heralded, HeraldedIn
<1>2. HeraldedIn(packets', reviewer)  BY <1>1, HeardPrefix
<1>. QED  BY <1>2 DEF HonestInv, Heralded, HeraldedIn, Observation

(* The worker announces the invocation before it answers. *)
LEMMA HonestWorker == ASSUME HonestInv, Worker PROVE Heralded' /\ Observation'
<1>. USE DEF world, process, time, seen
<1>1. UNCHANGED <<pc, bound, documents, reviewer, code, execution>>
  BY DEF Worker, WorkerRefuses, WorkerInvokes, AdapterReturns, AdapterFails
<1>2. /\ Wire /\ HeraldedIn(packets, reviewer) /\ Heralded /\ Observation
      /\ startupOver \in BOOLEAN /\ reviewOver \in BOOLEAN
  BY DEF HonestInv, ReviewInv, Wire, Heralded, HeraldedIn
<1>3. /\ HeraldedIn(packets', reviewer)
      /\ worker' = "invoked" => packets' # <<>> /\ packets'[Len(packets')].kind = "invoked"
  <2>1. CASE WorkerRefuses
    <3>1. PICK c \in {"invalid_content_review_adapter", "content_review_output_limit"} :
              Writes([kind |-> "refused", code |-> c, late |-> startupOver])
      BY <2>1 DEF WorkerRefuses
    <3>. DEFINE packet == [kind |-> "refused", code |-> c, late |-> startupOver]
    <3>2. packet \in Packet /\ packet.kind = "refused"  BY <1>2 DEF Packet, PacketCodes
    <3>. HIDE DEF packet
    <3>3. Writes(packet)  BY <3>1 DEF packet
    <3>. QED  BY <1>2, <2>1, <3>2, <3>3, HeardAppended DEF WorkerRefuses
  <2>2. CASE WorkerInvokes
    <3>1. PICK r \in Reviewers : Writes([kind |-> "invoked", reviewer |-> r, late |-> startupOver])
      BY <2>2 DEF WorkerInvokes
    <3>. DEFINE packet == [kind |-> "invoked", reviewer |-> r, late |-> startupOver]
    <3>2. packet \in Packet /\ packet.kind = "invoked"  BY <1>2 DEF Packet
    <3>. HIDE DEF packet
    <3>3. Writes(packet)  BY <3>1 DEF packet
    <3>. QED  BY <1>2, <3>2, <3>3, HeardAppended
  <2>3. CASE AdapterFails
    <3>1. PICK c \in {"content_review_adapter_failed", "content_review_output_limit"} :
              Writes([kind |-> "blocked", code |-> c, late |-> reviewOver])
      BY <2>3 DEF AdapterFails
    <3>. DEFINE packet == [kind |-> "blocked", code |-> c, late |-> reviewOver]
    <3>2. packet \in Packet /\ packet.kind = "blocked"  BY <1>2 DEF Packet, PacketCodes
    <3>. HIDE DEF packet
    <3>3. Writes(packet)  BY <3>1 DEF packet
    <3>. QED  BY <1>2, <2>3, <3>2, <3>3, HeardAppended DEF AdapterFails
  <2>4. ASSUME NEW a \in Assessments \cup {None}, AdapterReturns(a)
        PROVE  HeraldedIn(packets', reviewer) /\ worker' # "invoked"
    <3>. DEFINE packet == IF a # None /\ AssessmentValid(a)
                          THEN [kind |-> "returned", assessment |-> a, late |-> reviewOver]
                          ELSE [kind |-> "blocked", code |-> "invalid_content_review", late |-> reviewOver]
    <3>1. packet \in Packet  BY <1>2 DEF Packet, PacketCodes
    <3>2. Writes(packet) /\ worker = "invoked" /\ worker' = "finished"  BY <2>4 DEF AdapterReturns
    <3>. HIDE DEF packet
    <3>3. reviewer # None \/ (packets # <<>> /\ packets[Len(packets)].kind = "invoked")  BY <1>2, <3>2 DEF Heralded
    <3>. QED  BY <1>2, <3>1, <3>2, <3>3, HeardAppended
  <2>. QED  BY <2>1, <2>2, <2>3, <2>4 DEF Worker
<1>. QED  BY <1>1, <1>2, <1>3 DEF Heralded, HeraldedIn, Observation

(* The parent reads the announcement before the answer. *)
LEMMA HonestRead ==
    ASSUME NoneIsNone, HonestInv, ReadInvoked \/ ReadAnswer PROVE Heralded' /\ Observation'
<1>. USE DEF world, process, time, seen, Observed
<1>1. Wire /\ HeraldedIn(packets, reviewer) /\ Heralded /\ Observation
  BY DEF HonestInv, ReviewInv, Heralded, HeraldedIn
<1>2. /\ pc = "read" /\ packets # <<>> /\ packets' = Tail(packets)
      /\ UNCHANGED <<bound, worker, execution>> /\ pc' \in {"read", "stop"}
  BY DEF ReadInvoked, ReadAnswer
<1>3. packets \in Seq(Packet) /\ Head(packets) = packets[1] /\ 1 \in DOMAIN packets
  BY <1>1, <1>2, HeadTailProperties, LenProperties, EmptySeq DEF Wire
<1>4. packets[1] \in Packet  BY <1>3, ElementOfSeq, LenProperties
<1>5. /\ packets[1].kind = "invoked" => packets[1].reviewer \in Reviewers
      /\ packets[1].kind \in {"blocked", "refused"} => packets[1].code \in PacketCodes
  BY <1>4 DEF Packet
<1>6. /\ reviewer' \in Reviewers \cup {None}
      /\ reviewer' # None \/ (reviewer' = reviewer /\ packets[1].kind # "invoked")
      /\ (pc' = "stop" /\ code' = None) => reviewer' # None
  <2>1. None \notin Reviewers  BY QualityAssumption
  <2>2. CASE ReadInvoked  BY <1>2, <1>3, <1>5, <2>1, <2>2, ReasonGiven DEF ReadInvoked
  <2>3. CASE ReadAnswer
    <3>1. /\ packets[1].kind \in {"returned", "blocked", "refused"}
          /\ reviewer' = reviewer /\ reviewer \in Reviewers \cup {None}
      BY <1>1, <1>3, <2>3 DEF ReadAnswer, Heralded
    <3>2. packets[1].kind = "returned" => reviewer # None  BY <1>1, <1>3 DEF HeraldedIn
    <3>3. packets[1].kind # "returned" => code' # None
      BY <1>3, <1>5, <2>3, <3>1, ReasonGiven DEF ReadAnswer
    <3>. QED  BY <3>1, <3>2, <3>3
  <2>. QED  BY <2>2, <2>3
<1>7. /\ HeraldedIn(packets', reviewer')
      /\ packets[Len(packets)].kind = "invoked" =>
             reviewer' # None \/ (packets' # <<>> /\ packets'[Len(packets')].kind = "invoked")
  BY <1>1, <1>2, <1>6, HeardTail
<1>8. reviewer # None => reviewer' # None  BY <1>6
<1>. QED  BY <1>1, <1>2, <1>6, <1>7, <1>8 DEF Heralded, HeraldedIn, Observation

(* Each step of a review, of its worker and of the clock keeps all of it. *)
LEMMA HonestStep ==
    ASSUME NoneIsNone, HonestInv, tree \in DOMAIN Content,
           \/ Parent \/ WorkerStarts \/ Worker \/ WorkerEnds \/ Cancel \/ StartupPasses \/ ReviewPasses
    PROVE  HonestInv'
<1>1. ReviewInv'
  BY ParentStep, WorkerStep, WorkerEndsStep, ParentMoves, TimeStep DEF HonestInv
<1>2. Heralded' /\ Observation'
  BY HonestFailure, HonestAssess, HonestMoves, HonestTime, HonestEnds, HonestWorker, HonestRead DEF Parent
<1>. QED  BY <1>1, <1>2 DEF HonestInv

-----------------------------------------------------------------------------
(* The stages *)

(* What is named is there, and its documents are lists. *)
LEMMA Documents ==
    /\ \A p \in DOMAIN Content : CandidateOf(p) # None /\ ListsOf(p) /\ LimitsOf(p) /\ RowsOf(p)
    /\ \A c \in Calls :
           /\ PlanLists(c.request.plan) /\ List(c.request.plan.gaps)
           /\ c.request # None /\ c.request.plan # None /\ c.request.intake.checks \subseteq Checks
    /\ \A s \in Subjects : PlanLists(s.plan) /\ List(s.plan.gaps)
    /\ Packages \subseteq DOMAIN Content /\ Baselines \subseteq DOMAIN Content
<1>1. \A p \in DOMAIN Content : ListsOf(p) /\ LimitsOf(p)
  BY QualityAssumption DEF ListsOf, LimitsOf, List, SetIds
<1>2. \A p \in DOMAIN Content : CandidateOf(p) # None /\ RowsOf(p)
  BY QualityAssumption, ContentAssumption DEF RowsOf, List
<1>3. /\ \A c \in Calls :
             /\ PlanLists(c.request.plan) /\ List(c.request.plan.gaps)
             /\ c.request # None /\ c.request.plan # None /\ c.request.intake.checks \subseteq Checks
      /\ \A s \in Subjects : PlanLists(s.plan) /\ List(s.plan.gaps)
  BY QualityAssumption DEF PlanLists, List
<1>. QED  BY <1>1, <1>2, <1>3, QualityAssumption

(* The scenarios of a package are assessed, or its evals are malformed. *)
LEMMA RaisesMalformed ==
    ASSUME NEW p \in DOMAIN Content, NEW selected, NEW version, Raises(p, selected, version)
    PROVE  EvalsMalformed(p)
<1>. DEFINE document == Loaded(Content[p].evals)
            sets     == ReleaseSets(document, version, selected).sets
            matching == {s \in sets : s.id = selected}
<1>1. \A s \in ToSet(document.sets) : s.groups # None /\ s.groups.sound => None \notin ToSet(s.groups.ids)
  BY QualityAssumption
<1>2. \A s \in sets : s \in ToSet(document.sets) /\ SetSound(s, version, selected)
  BY DEF ReleaseSets, ToSet
<1>3. \/ None \in ToSet(Wanted(sets, selected))
      \/ \E case \in ToSet(document.cases) : \E a \in case.acceptance : a.verdict = "raises"
  BY DEF Raises
<1>. HIDE DEF document, sets
<1>4. CASE None \in ToSet(Wanted(sets, selected))
  <2>1. matching # {}
    <3>1. CASE matching = {}
      <4>1. Wanted(sets, selected) = <<>>  BY <3>1 DEF Wanted
      <4>. QED  BY <1>4, <4>1 DEF ToSet
    <3>. QED  BY <3>1
  <2>2. PICK s \in sets : None \in ToSet(SetIds(s))  BY <1>4, <2>1 DEF Wanted
  <2>3. s.groups # None  BY <1>2, <2>2 DEF SetIds, SetSound
  <2>4. ~s.groups.sound  BY <1>1, <1>2, <2>2, <2>3 DEF SetIds
  <2>. QED  BY <1>2, <2>3, <2>4 DEF EvalsMalformed, document
<1>5. CASE \E case \in ToSet(document.cases) : \E a \in case.acceptance : a.verdict = "raises"
  BY <1>5 DEF EvalsMalformed, document
<1>. QED  BY <1>3, <1>4, <1>5

(* Every gate answers with a receipt that keeps its contract. *)
LEMMA GatesAreHonest == ASSUME NoneIsNone PROVE GatesHonest
<1>. SUFFICES ASSUME NEW s \in Subjects
     PROVE  /\ IF Raises(s.first, s.plan.scenario_set_id, "v2") THEN EvalsMalformed(s.first)
               ELSE /\ CoverageValid(AssessScenarioCoverage(s.first, s.later, s.first, s.plan.scenario_set_id, s.plan))
                    /\ AssessScenarioCoverage(s.first, s.later, s.first, s.plan.scenario_set_id, s.plan).complete =>
                           ScenariosProved(s.first, s.plan)
            /\ CalibrationValid(AssessScorerCalibration(s.first, s.later))
            /\ AssessScorerCalibration(s.first, s.later).status = "pass" => ScoresProved(s.first)
            /\ ScorerQualityValid(AssessScorerQuality(s.first))
            /\ \A selected \in {s.plan.scenario_set_id, None} :
                   IF Raises(s.first, selected, "v1") THEN EvalsMalformed(s.first)
                   ELSE QualityReceiptValid(AssessScenarioQuality(s.first, selected, "v1"), "v1")
  BY DEF GatesHonest
<1>1. s.first \in DOMAIN Content /\ s.later \in DOMAIN Content  BY QualityAssumption
<1>2. CandidateOf(s.first) # None /\ ListsOf(s.first) /\ LimitsOf(s.first) /\ RowsOf(s.first)  BY <1>1, Documents
<1>3. PlanLists(s.plan) /\ s.plan.gaps \in Seq(ToSet(s.plan.gaps))  BY Documents DEF List
<1>4. CoverageValid(AssessScenarioCoverage(s.first, s.later, s.first, s.plan.scenario_set_id, s.plan))
  BY <1>1, <1>2, <1>3, CoverageHonest
<1>5. AssessScenarioCoverage(s.first, s.later, s.first, s.plan.scenario_set_id, s.plan).complete =>
          ScenariosProved(s.first, s.plan)
  BY <1>1, <1>2, <1>3, CoverageProves
<1>6. CalibrationValid(AssessScorerCalibration(s.first, s.later))  BY <1>2, CalibrationHonest
<1>7. AssessScorerCalibration(s.first, s.later).status = "pass" => ScoresProved(s.first)
  BY <1>1, <1>2, CalibrationProves
<1>8. ScorerQualityValid(AssessScorerQuality(s.first))  BY <1>2, ScorerHonest
<1>9. \A selected : QualityReceiptValid(AssessScenarioQuality(s.first, selected, "v1"), "v1")
  BY <1>2, QualityHonest
<1>10. \A selected, version : Raises(s.first, selected, version) => EvalsMalformed(s.first)
  BY <1>1, RaisesMalformed
<1>. QED  BY <1>4, <1>5, <1>6, <1>7, <1>8, <1>9, <1>10

(* The four stages that a result must show are expected of every request. *)
LEMMA ExpectedNames ==
    ASSUME NEW r
    PROVE  /\ Len(Expected(r)) \in Nat
           /\ \A name \in {"intake", "scenario-coverage", "scorer-calibration", "content-review"} :
                  \E i \in 1..Len(Expected(r)) : Expected(r)[i] = name
<1>1. CASE r.intent = "update"
  <2>1. Expected(r) = StageNames  BY <1>1 DEF Expected
  <2>2. /\ Len(StageNames) = 7 /\ StageNames[2] = "intake" /\ StageNames[4] = "scenario-coverage"
        /\ StageNames[6] = "scorer-calibration" /\ StageNames[7] = "content-review"
    BY DEF StageNames
  <2>. QED  BY <2>1, <2>2
<1>2. CASE r.intent # "update"
  <2>1. Expected(r) =
            <<"intake", "validate", "scenario-coverage", "scorer-quality", "scorer-calibration", "content-review">>
    BY <1>2 DEF Expected, StageNames
  <2>. DEFINE names == <<"intake", "validate", "scenario-coverage", "scorer-quality", "scorer-calibration", "content-review">>
  <2>2. /\ Len(names) = 6 /\ names[1] = "intake" /\ names[3] = "scenario-coverage"
        /\ names[5] = "scorer-calibration" /\ names[6] = "content-review"
    OBVIOUS
  <2>. QED  BY <2>1, <2>2
<1>. QED  BY <1>1, <1>2

(* No stage is expected twice, and each comes after those it is compared with. *)
LEMMA ExpectedOrder ==
    ASSUME NEW r
    PROVE  LET e == Expected(r)
           IN  /\ Len(e) \in Nat /\ DOMAIN e = 1..Len(e) /\ e # <<>>
               /\ \A i \in DOMAIN e : e[i] \in ToSet(StageNames)
               /\ \A i, j \in DOMAIN e : e[i] = e[j] => i = j
               /\ \A i \in DOMAIN e : e[i] = "scorer-calibration" =>
                      \E j \in DOMAIN e : j < i /\ e[j] = "scorer-quality"
               /\ \A i \in DOMAIN e : e[i] = "content-review" => \E j \in DOMAIN e : j < i /\ e[j] = "validate"
               /\ \A i \in DOMAIN e : e[i] = "baseline" => i = 1 /\ r.intent = "update"
               /\ r.intent = "update" => e[1] = "baseline"
<1>. DEFINE six ==
                <<"intake", "validate", "scenario-coverage", "scorer-quality", "scorer-calibration", "content-review">>
<1>1. ToSet(StageNames) = {"baseline", "intake", "validate", "scenario-coverage", "scorer-quality",
                           "scorer-calibration", "content-review"}
  <2>1. DOMAIN StageNames = {1, 2, 3, 4, 5, 6, 7}  BY DEF StageNames
  <2>. QED  BY <2>1 DEF ToSet, StageNames
<1>2. CASE r.intent = "update"
  <2>1. Expected(r) = StageNames  BY <1>2 DEF Expected
  <2>2. DOMAIN StageNames = {1, 2, 3, 4, 5, 6, 7} /\ Len(StageNames) = 7 /\ 1..7 = {1, 2, 3, 4, 5, 6, 7}
    BY DEF StageNames
  <2>3. /\ StageNames[1] = "baseline" /\ StageNames[2] = "intake" /\ StageNames[3] = "validate"
        /\ StageNames[4] = "scenario-coverage" /\ StageNames[5] = "scorer-quality"
        /\ StageNames[6] = "scorer-calibration" /\ StageNames[7] = "content-review"
    BY DEF StageNames
  <2>4. StageNames # <<>>  BY <2>2
  <2>. QED  BY <1>1, <1>2, <2>1, <2>2, <2>3, <2>4
<1>3. CASE r.intent # "update"
  <2>1. Expected(r) = six  BY <1>3 DEF Expected, StageNames
  <2>2. DOMAIN six = {1, 2, 3, 4, 5, 6} /\ Len(six) = 6 /\ 1..6 = {1, 2, 3, 4, 5, 6}  OBVIOUS
  <2>3. /\ six[1] = "intake" /\ six[2] = "validate" /\ six[3] = "scenario-coverage"
        /\ six[4] = "scorer-quality" /\ six[5] = "scorer-calibration" /\ six[6] = "content-review"
    OBVIOUS
  <2>4. six # <<>>  BY <2>2
  <2>. HIDE DEF six
  <2>. QED  BY <1>1, <1>3, <2>1, <2>2, <2>3, <2>4
<1>. QED  BY <1>2, <1>3

(* An admission has confirmed every check. *)
LEMMA IntakeAdmits ==
    ASSUME NEW package, NEW context, NEW required, context.checks \subseteq Checks,
           Admitted(IntakeSkillPackage(package, context, required))
    PROVE  context.checks = Checks
<1>. DEFINE v == BoundToSource(ValidationUnder(required, package), context)
            r == IntakeSkillPackage(package, context, required)
<1>1. r.status = "normalized" /\ r.decision.decision = "admit"  BY DEF Admitted
<1>2. r.decision = BuildIntakeDecision(v.candidate, context.checks, {})
  <2>. HIDE DEF v
  <2>. QED  BY <1>1 DEF IntakeSkillPackage, v
<1>3. "owner_unchanged" \in context.checks /\ Checks \ {"owner_unchanged"} \subseteq context.checks
  <2>. HIDE DEF v, r
  <2>. QED  BY <1>1, <1>2 DEF BuildIntakeDecision
<1>. QED  BY <1>3 DEF Checks

(* A capture passes for its source only when it is what was saved there. *)
LEMMA SourceBound ==
    ASSUME NEW package, NEW context, NEW required
    PROVE  LET w == ValidationUnder(required, package)
               v == BoundToSource(w, context)
           IN  /\ v.candidate = CandidateOf(package) /\ v.files = Content[package].files
               /\ v.status \in {"pass", "blocked"}
               /\ v.status = "blocked" => v.findings # Clean
               /\ v.status = "pass" => v = w /\ (context.saved # None => v.candidate = context.saved)
<1>. DEFINE w == ValidationUnder(required, package)
            v == BoundToSource(w, context)
<1>1. /\ w.candidate = CandidateOf(package) /\ w.files = Content[package].files
      /\ (w.status = "pass" <=> w.findings = Clean) /\ w.status \in {"pass", "blocked"}
  <2>1. \A f : StatusOf(f) \in {"pass", "blocked"}  BY DEF StatusOf
  <2>. QED  BY <2>1, CaptureValid DEF ValidationUnder
<1>2. w = [candidate |-> w.candidate, status |-> w.status, files |-> w.files, findings |-> w.findings]
  BY DEF ValidationUnder
<1>. HIDE DEF w
<1>3. CASE context.saved # None /\ w.status = "pass" /\ w.candidate # context.saved
  <2>1. v = [w EXCEPT !.status = "blocked", !.findings = {"saved_source_candidate_mismatch"}]
    BY <1>3 DEF BoundToSource
  <2>2. /\ v.candidate = w.candidate /\ v.files = w.files /\ v.status = "blocked"
        /\ v.findings = {"saved_source_candidate_mismatch"}
    BY <1>2, <2>1
  <2>. QED  BY <1>1, <2>2 DEF Clean, w
<1>4. CASE ~(context.saved # None /\ w.status = "pass" /\ w.candidate # context.saved)
  <2>1. v = w  BY <1>4 DEF BoundToSource
  <2>. QED  BY <1>1, <1>4, <2>1 DEF w
<1>. QED  BY <1>3, <1>4

(* What intake answers is bound to its candidate, admitted or not. *)
LEMMA IntakeHonest ==
    ASSUME NoneIsNone, NEW package, CandidateOf(package) # None, NEW context, NEW required
    PROVE  IntakeReceiptValid(IntakeSkillPackage(package, context, required))
<1>. DEFINE v == BoundToSource(ValidationUnder(required, package), context)
            r == IntakeSkillPackage(package, context, required)
<1>2. /\ v.candidate # None /\ v.status \in {"pass", "blocked"}
      /\ v.status = "blocked" => v.findings # Clean
      /\ v.status = "pass" => (context.saved # None => v.candidate = context.saved)
  BY SourceBound
<1>. DEFINE source == IntakeSource(v.candidate, context)
<1>3. CASE v.status = "blocked"
  <2>. DEFINE blocker == Primary(v.findings)
  <2>1. r = [status |-> "blocked", context |-> context, candidate |-> v.candidate, validation |-> v,
             source |-> None, normalized |-> None, blocker |-> blocker,
             decision |-> BuildIntakeDecision(v.candidate, context.checks, {blocker})]
    BY <1>3 DEF IntakeSkillPackage
  <2>2. LET d == BuildIntakeDecision(v.candidate, context.checks, {blocker})
        IN  d # None /\ d.candidate = v.candidate /\ d.checks = context.checks /\ d.decision = "block"
    BY DEF BuildIntakeDecision, NoneIsNone
  <2>. SUFFICES IntakeReceiptValid(r)
    OBVIOUS
  <2>. HIDE DEF v, blocker, r
  <2>. QED  BY <1>2, <1>3, <2>1, <2>2 DEF IntakeReceiptValid, blocker
<1>4. CASE v.status = "pass"
  <2>1. r = [status |-> "normalized", context |-> context, candidate |-> v.candidate, validation |-> v,
             source |-> source, blocker |-> None, normalized |-> [source |-> source, owner |-> context.owner],
             decision |-> BuildIntakeDecision(v.candidate, context.checks, {})]
    BY <1>4 DEF IntakeSkillPackage
  <2>2. LET d == BuildIntakeDecision(v.candidate, context.checks, {})
        IN  d # None /\ d.candidate = v.candidate /\ d.checks = context.checks
    BY DEF BuildIntakeDecision, NoneIsNone
  <2>3. source # None /\ [source |-> source, owner |-> context.owner] # None
    BY DEF IntakeSource, NoneIsNone
  <2>. SUFFICES IntakeReceiptValid(r)
    OBVIOUS
  <2>. HIDE DEF v, source, r
  <2>. QED  BY <1>2, <1>4, <2>1, <2>2, <2>3 DEF IntakeReceiptValid, source
<1>. QED  BY <1>2, <1>3, <1>4

(* What intake answers keeps its context, and what it captured lists what  *)
(* the policy requires.                                                    *)
LEMMA IntakeCaptures ==
    ASSUME NEW p, NEW context, NEW required
    PROVE  LET r == IntakeSkillPackage(p, context, required)
           IN  /\ r.context = context
               /\ r.validation.status = "pass" => required \subseteq DOMAIN r.validation.files
<1>. DEFINE w == ValidationUnder(required, p)
            v == BoundToSource(w, context)
            r == IntakeSkillPackage(p, context, required)
<1>1. v.status = "pass" => v = w  BY SourceBound
<1>2. w.status = "pass" => required \subseteq DOMAIN w.files  BY CaptureValid
<1>. HIDE DEF w, v
<1>3. r.context = context /\ r.validation = v  BY DEF IntakeSkillPackage, v, w
<1>. QED  BY <1>1, <1>2, <1>3

(* Where the receipt of a stage comes from. *)
StageTrue(record) ==
    LET receipt == record.receipt
        name    == record.name
    IN  /\ name = "baseline" => \E p \in Baselines : receipt = Validation(p)
        /\ name = "intake" => \E p \in Packages : receipt = IntakeSkillPackage(p, request.intake, request.required)
        /\ name = "validate" => \E p \in Packages : receipt = ValidationUnder(request.required, p)
        /\ name = "scenario-coverage" =>
               \E p, later, last \in Packages :
                   receipt = AssessScenarioCoverage(p, later, last, request.plan.scenario_set_id, request.plan)
        /\ name = "scorer-quality" => \E p \in Packages : receipt = AssessScorerQuality(p)
        /\ name = "scorer-calibration" => \E p, later \in Packages : receipt = AssessScorerCalibration(p, later)
        /\ name = "content-review" =>
               IF request.mode = "observed" THEN pc = "done" /\ execution # Cancelled /\ receipt = execution
               ELSE \E p \in Packages : receipt = AssessContentReview(Validation(p), call.assessment)

(* The stages so far are those expected; each passed, about the candidate  *)
(* requested.                                                              *)
Recorded ==
    /\ stages \in Seq(ToSet(stages)) /\ Len(stages) <= Len(Expected(request))
    /\ \A i \in DOMAIN stages :
           /\ stages[i].name = Expected(request)[i] /\ Passed(stages[i])
           /\ stages[i].receipt.candidate = Selected(request, stages[i].name)
           /\ StageTrue(stages[i])

(* What is checked is a valid request. *)
Bound ==
    /\ tree \in Packages /\ base \in Baselines /\ call \in Calls /\ phase \in {"request", "stages", "review", "done"}
    /\ phase \in {"stages", "review"} => RequestValid(request)

AtReview ==
    /\ Len(stages) < Len(Expected(request)) /\ Expected(request)[Len(stages) + 1] = "content-review"
    /\ request.mode = "observed"

Progress ==
    /\ phase = "request" => stages = <<>>
    /\ phase \in {"stages", "review"} => Recorded
    /\ phase = "review" => AtReview

(* An answer that passes is true, and stays it: nothing is edited any      *)
(* more, and the review is what was returned.                              *)
Kept == QualityEarned /\ (LocalPass => (request.mode = "observed" => assessment # None))

WorkflowInv == ReviewInv /\ Bound /\ Progress /\ Kept

LEMMA Appended ==
    ASSUME NEW s, s \in Seq(ToSet(s)), NEW e
    PROVE  LET t == Append(s, e)
           IN  /\ Len(s) \in Nat /\ DOMAIN s = 1..Len(s)
               /\ t \in Seq(ToSet(t)) /\ Len(t) = Len(s) + 1 /\ DOMAIN t = 1..Len(s) + 1
               /\ t[Len(s) + 1] = e /\ \A i \in DOMAIN s : t[i] = s[i]
<1>. DEFINE S == ToSet(s) \cup {e}
            t == Append(s, e)
<1>1. s \in Seq(S) /\ e \in S  BY SeqMonotonic
<1>2. Len(s) \in Nat /\ DOMAIN s = 1..Len(s)  BY LenProperties
<1>. HIDE DEF S
<1>3. /\ t \in Seq(S) /\ Len(t) = Len(s) + 1 /\ t[Len(s) + 1] = e /\ \A i \in 1..Len(s) : t[i] = s[i]
  BY <1>1, AppendProperties
<1>4. DOMAIN t = 1..Len(s) + 1 /\ Len(t) \in Nat  BY <1>3, LenProperties
<1>. HIDE DEF t
<1>5. t = [i \in 1..Len(t) |-> t[i]]  BY <1>3, <1>4, LenProperties
<1>6. t \in Seq(ToSet(t))  BY <1>4, <1>5, Listed
<1>. QED  BY <1>2, <1>3, <1>4, <1>6 DEF t

(* A receipt that is recorded is the next stage of the workflow, or its    *)
(* last one.                                                               *)
LEMMA RecordStep ==
    ASSUME Bound, Recorded, phase \in {"stages", "review"}, NEW name, NEW receipt,
           Len(stages) < Len(Expected(request)), Expected(request)[Len(stages) + 1] = name,
           Record(name, receipt), StageTrue([name |-> name, receipt |-> receipt]),
           UNCHANGED <<world, review>>
    PROVE  Bound' /\ Progress' /\ Kept'
<1>. DEFINE new == [name |-> name, receipt |-> receipt]
<1>1. UNCHANGED <<call, base, tree, pc, execution, assessment>> /\ stages' = Append(stages, new)
  BY DEF Record, world, review, seen
<1>2. /\ Len(stages) \in Nat /\ DOMAIN stages = 1..Len(stages)
      /\ stages' \in Seq(ToSet(stages')) /\ Len(stages') = Len(stages) + 1 /\ DOMAIN stages' = 1..Len(stages) + 1
      /\ stages'[Len(stages) + 1] = new /\ \A i \in DOMAIN stages : stages'[i] = stages[i]
  BY <1>1, Appended DEF Recorded
<1>3. CASE phase' = "stages" /\ Passed(new) /\ receipt.candidate = Selected(request, name)
  <2>1. \A i \in DOMAIN stages' : i \in DOMAIN stages \/ i = Len(stages) + 1  BY <1>2
  <2>2. request' = request  BY <1>1 DEF request
  <2>3. \A x : StageTrue(x)' = StageTrue(x)
    BY <1>1, <2>2 DEF StageTrue
  <2>4. Len(stages') <= Len(Expected(request'))  BY <1>2, <2>2, ExpectedOrder
  <2>5. \A i \in DOMAIN stages' :
            /\ stages'[i].name = Expected(request')[i] /\ Passed(stages'[i])
            /\ stages'[i].receipt.candidate = Selected(request', stages'[i].name)
            /\ StageTrue(stages[i])'
    <3>. SUFFICES ASSUME NEW i \in DOMAIN stages'
                  PROVE  /\ stages'[i].name = Expected(request)[i] /\ Passed(stages'[i])
                         /\ stages'[i].receipt.candidate = Selected(request, stages'[i].name)
                         /\ StageTrue(stages'[i])
      BY <2>2, <1>1 DEF StageTrue
    <3>1. CASE i \in DOMAIN stages  BY <3>1, <1>2 DEF Recorded
    <3>2. CASE i = Len(stages) + 1  BY <3>2, <1>2, <1>3
    <3>. QED  BY <2>1, <3>1, <3>2
  <2>6. Recorded'  BY <1>2, <2>4, <2>5 DEF Recorded
  <2>7. Bound'  BY <1>1, <1>3, <2>2 DEF Bound
  <2>. QED  BY <1>3, <2>6, <2>7 DEF Progress, Kept, QualityEarned, LocalPass
<1>4. CASE phase' = "done" /\ checked'.status = "blocked"
  BY <1>1, <1>4 DEF Bound, Progress, Kept, QualityEarned, LocalPass
<1>5. \/ phase' = "stages" /\ Passed(new) /\ receipt.candidate = Selected(request, name)
      \/ phase' = "done" /\ checked'.status = "blocked"
  BY DEF Record, Answer, Blocked
<1>. QED  BY <1>3, <1>4, <1>5

LEMMA AcceptStep == ASSUME WorkflowInv, Accept PROVE Bound' /\ Progress' /\ Kept'
<1>1. UNCHANGED <<tree, base, call, stages>> /\ phase = "request" /\ stages = <<>>
  BY DEF Accept, world, WorkflowInv, Progress
<1>2. CASE phase' = "done" /\ checked'.status = "blocked"
  BY <1>1, <1>2 DEF WorkflowInv, Bound, Progress, Kept, QualityEarned, LocalPass
<1>3. CASE phase' = "stages" /\ RequestValid(request)
  <2>1. request' = request /\ Bound'  BY <1>1, <1>3 DEF WorkflowInv, Bound, request, RequestValid
  <2>2. stages' \in Seq(ToSet(stages')) /\ Len(stages') = 0 /\ DOMAIN stages' = {}  BY <1>1, EmptySeq
  <2>3. Recorded'  BY <2>1, <2>2, ExpectedOrder DEF Recorded
  <2>. QED  BY <1>3, <2>1, <2>3 DEF Progress, Kept, QualityEarned, LocalPass
<1>4. (phase' = "done" /\ checked'.status = "blocked") \/ (phase' = "stages" /\ RequestValid(request))
  BY DEF Accept, Answer, Blocked
<1>. QED  BY <1>2, <1>3, <1>4

LEMMA AtStageNext ==
    ASSUME WorkflowInv, NEW name, AtStage(name)
    PROVE  /\ Bound /\ Recorded /\ phase \in {"stages", "review"}
           /\ Len(stages) < Len(Expected(request)) /\ Expected(request)[Len(stages) + 1] = name
BY DEF WorkflowInv, Progress, AtStage

LEMMA MissingReviewStep == ASSUME WorkflowInv, MissingReview PROVE Bound' /\ Progress' /\ Kept'
BY DEF MissingReview, Answer, Blocked, world, WorkflowInv, Bound, Progress, Kept, QualityEarned, LocalPass

LEMMA RaisesStep == ASSUME WorkflowInv, StageRaises PROVE Bound' /\ Progress' /\ Kept'
BY DEF StageRaises, Answer, world, WorkflowInv, Bound, Progress, Kept, QualityEarned, LocalPass

LEMMA StartReviewStep == ASSUME WorkflowInv, StartReview PROVE Bound' /\ Progress' /\ Kept'
<1>1. UNCHANGED <<tree, base, call, stages, pc, execution>> /\ phase = "stages" /\ phase' = "review" /\ AtReview
  BY DEF StartReview, world, review, AtStage, AtReview
<1>2. request' = request  BY <1>1 DEF request
<1>3. Recorded'  BY <1>1, <1>2 DEF WorkflowInv, Progress, Recorded, StageTrue
<1>4. Bound' /\ AtReview'  BY <1>1, <1>2 DEF WorkflowInv, Bound, AtReview
<1>. QED  BY <1>1, <1>3, <1>4 DEF Progress, Kept, QualityEarned, LocalPass

(* What each gate answers is recorded with where it comes from. *)
LEMMA RecordedStage ==
    ASSUME WorkflowInv, CheckBaseline \/ CheckStage \/ ReviewSupplied \/ (ReviewReturns /\ execution # Cancelled)
    PROVE  \E name, receipt :
               /\ Bound /\ Recorded /\ phase \in {"stages", "review"}
               /\ Len(stages) < Len(Expected(request)) /\ Expected(request)[Len(stages) + 1] = name
               /\ Record(name, receipt) /\ StageTrue([name |-> name, receipt |-> receipt])
               /\ UNCHANGED <<world, review>>
<1>1. tree \in Packages /\ base \in Baselines  BY DEF WorkflowInv, Bound
<1>2. CASE CheckBaseline
  <2>1. AtStage("baseline") /\ Record("baseline", Validation(base)) /\ UNCHANGED <<world, review>>
    BY <1>2 DEF CheckBaseline
  <2>2. StageTrue([name |-> "baseline", receipt |-> Validation(base)])  BY <1>1 DEF StageTrue
  <2>. QED  BY <2>1, <2>2, AtStageNext
<1>3. CASE CheckStage
  <2>1. PICK name \in Deterministic, later \in Packages, last \in Packages :
            AtStage(name) /\ Record(name, StageReceipt(name, request, tree, later, last))
    BY <1>3 DEF CheckStage
  <2>2. StageTrue([name |-> name, receipt |-> StageReceipt(name, request, tree, later, last)])
    BY <1>1 DEF StageTrue, StageReceipt, Deterministic
  <2>3. UNCHANGED <<world, review>>  BY <1>3 DEF CheckStage
  <2>. QED  BY <2>1, <2>2, <2>3, AtStageNext
<1>4. CASE ReviewSupplied
  <2>. DEFINE receipt == AssessContentReview(Validation(tree), call.assessment)
  <2>1. /\ AtStage("content-review") /\ request.mode = "supplied" /\ Record("content-review", receipt)
        /\ UNCHANGED <<world, review>>
    BY <1>4 DEF ReviewSupplied
  <2>2. StageTrue([name |-> "content-review", receipt |-> receipt])  BY <1>1, <2>1 DEF StageTrue
  <2>. HIDE DEF receipt
  <2>. QED  BY <2>1, <2>2, AtStageNext
<1>5. CASE ReviewReturns /\ execution # Cancelled
  <2>1. phase = "review" /\ pc = "done" /\ UNCHANGED <<world, review>> /\ Bound /\ Recorded /\ AtReview
    BY <1>5 DEF ReviewReturns, WorkflowInv, Progress
  <2>2. Record("content-review", execution)  BY <1>5 DEF ReviewReturns
  <2>3. StageTrue([name |-> "content-review", receipt |-> execution])  BY <1>5, <2>1 DEF StageTrue, AtReview
  <2>. QED  BY <2>1, <2>2, <2>3 DEF AtReview
<1>. QED  BY <1>2, <1>3, <1>4, <1>5

LEMMA RecordingStep ==
    ASSUME WorkflowInv, CheckBaseline \/ CheckStage \/ ReviewSupplied \/ ReviewReturns PROVE Bound' /\ Progress' /\ Kept'
<1>1. CASE ReviewReturns /\ execution = Cancelled
  <2>1. phase = "review" /\ phase' = "done" /\ checked' = Cancelled /\ UNCHANGED <<world, call, base, stages>>
    BY <1>1 DEF ReviewReturns, Answer
  <2>. QED  BY <2>1 DEF world, WorkflowInv, Bound, Progress, Kept, QualityEarned, LocalPass
<1>2. CASE ~(ReviewReturns /\ execution = Cancelled)
  BY <1>2, RecordedStage, RecordStep
<1>. QED  BY <1>1, <1>2

-----------------------------------------------------------------------------
(* The answer that passes *)

(* A receipt is about the package it was made of. *)
LEMMA QualityCandidate ==
    ASSUME NEW package, NEW selected, NEW version
    PROVE  AssessScenarioQuality(package, selected, version).candidate = CandidateOf(package)
<1>. DEFINE candidate == CandidateOf(package)
<1>1. \A c, f : QualityReceipt(candidate, selected, c, f).candidate = candidate  BY DEF QualityReceipt
<1>2. \E c, f : AssessScenarioQuality(package, selected, version) = QualityReceipt(candidate, selected, c, f)
  BY Zenon DEF AssessScenarioQuality
<1>. QED  BY <1>1, <1>2

LEMMA CoverageCandidate ==
    ASSUME NEW package, NEW later, NEW last, NEW selected, NEW plan
    PROVE  AssessScenarioCoverage(package, later, last, selected, plan).candidate = CandidateOf(package)
<1>. DEFINE quality  == AssessScenarioQuality(package, selected, "v2")
            coverage == AssessScenarioCoverage(package, later, last, selected, plan)
<1>1. coverage.candidate = quality.candidate  BY SMTT(60) DEF AssessScenarioCoverage, CoverageOf
<1>2. quality.candidate = CandidateOf(package)  BY QualityCandidate
<1>. QED  BY <1>1, <1>2

(* What is complete was assessed as passing, so of a valid package. *)
LEMMA CompleteValid ==
    ASSUME NEW package \in DOMAIN Content, NEW later, NEW last, NEW selected, NEW plan,
           AssessScenarioCoverage(package, later, last, selected, plan).complete
    PROVE  AssessScenarioCoverage(package, later, last, selected, plan).candidate = package
<1>. DEFINE quality  == AssessScenarioQuality(package, selected, "v2")
            given    == IF plan # None /\ PlanValid(plan) THEN plan ELSE None
            same(p)  == Content[p].valid /\ CandidateOf(p) = quality.candidate
            active   == IF quality.status = "pass" /\ same(later) THEN ActiveIds(later, selected) ELSE <<>>
            A == quality.findings
            B == If(given = None, "invalid_coverage_plan")
            C == If(quality.status = "pass" /\ ~same(later), "candidate_changed")
            D == If(given # None /\ <<given.candidate, given.scenario_set_id>> # <<quality.candidate, selected>>,
                    "coverage_identity_mismatch")
            E == IF given # None /\ active # <<>> THEN Audit(given, active) ELSE Clean
            F == If(active # <<>> /\ ~same(last), "candidate_changed")
            coverage == AssessScenarioCoverage(package, later, last, selected, plan)
<1>1. coverage.complete <=> (A \cup B \cup C \cup D \cup E \cup F = Clean /\ given # None /\ given.gaps = <<>>)
  BY DEF AssessScenarioCoverage, CoverageOf
<1>2. quality.findings = Clean
  <2>1. A \cup B \cup C \cup D \cup E \cup F = Clean  BY <1>1
  <2>. HIDE DEF A, B, C, D, E, F
  <2>2. A = Clean  BY <2>1 DEF Clean
  <2>. QED  BY <2>2 DEF A
<1>3. quality.status = StatusOf(quality.findings)  BY DEF AssessScenarioQuality, QualityReceipt
<1>4. Content[package].valid  BY <1>2, <1>3, StatusPass, QualityPass
<1>. QED  BY <1>4, CoverageCandidate, ValidCandidate

(* What stands behind all the stages, when they are all there.             *)
LEMMA AllEarned ==
    ASSUME WorkflowInv, phase = "stages", Len(stages) = Len(Expected(request))
    PROVE  /\ request.intake.checks = Checks
           /\ ScenariosProved(request.candidate, request.plan) /\ request.plan.gaps = <<>>
           /\ ScoresProved(request.candidate)
           /\ IF request.mode = "observed" THEN assessment # None /\ Endorses(returned.assessment, request.candidate)
              ELSE Endorses(call.assessment, request.candidate)
<1>1. Bound /\ Recorded /\ ReviewInv  BY DEF WorkflowInv, Progress
<1>2. call \in Calls /\ PlanLists(request.plan) /\ request.intake.checks \subseteq Checks
  BY <1>1, Documents DEF Bound, request
<1>3. DOMAIN stages = 1..Len(Expected(request))  BY <1>1, LenProperties DEF Recorded
<1>4. \A name \in {"intake", "scenario-coverage", "scorer-calibration", "content-review"} :
          \E i \in DOMAIN stages :
              /\ stages[i].name = name /\ Passed(stages[i])
              /\ stages[i].receipt.candidate = request.candidate /\ StageTrue(stages[i])
  <2>. SUFFICES ASSUME NEW name \in {"intake", "scenario-coverage", "scorer-calibration", "content-review"}
                PROVE  \E i \in DOMAIN stages :
                           /\ stages[i].name = name /\ Passed(stages[i])
                           /\ stages[i].receipt.candidate = request.candidate /\ StageTrue(stages[i])
    OBVIOUS
  <2>1. PICK i \in DOMAIN stages : Expected(request)[i] = name  BY <1>3, ExpectedNames
  <2>2. /\ stages[i].name = name /\ Passed(stages[i]) /\ StageTrue(stages[i])
        /\ stages[i].receipt.candidate = Selected(request, name)
    BY <1>1, <2>1 DEF Recorded
  <2>. QED  BY <2>2 DEF Selected
<1>5. request.intake.checks = Checks
  <2>1. PICK i \in DOMAIN stages : stages[i].name = "intake" /\ Passed(stages[i]) /\ StageTrue(stages[i])
    BY <1>4
  <2>2. PICK p \in Packages : stages[i].receipt = IntakeSkillPackage(p, request.intake, request.required)
    BY <2>1 DEF StageTrue
  <2>3. Admitted(stages[i].receipt)  BY <2>1 DEF Passed
  <2>. QED  BY <1>2, <2>2, <2>3, IntakeAdmits
<1>6. ScenariosProved(request.candidate, request.plan) /\ request.plan.gaps = <<>>
  <2>1. PICK i \in DOMAIN stages :
            /\ stages[i].name = "scenario-coverage" /\ Passed(stages[i]) /\ StageTrue(stages[i])
            /\ stages[i].receipt.candidate = request.candidate
    BY <1>4
  <2>2. PICK p \in Packages, later \in Packages, last \in Packages :
            stages[i].receipt = AssessScenarioCoverage(p, later, last, request.plan.scenario_set_id, request.plan)
    BY <2>1 DEF StageTrue
  <2>3. stages[i].receipt.complete  BY <2>1 DEF Passed
  <2>4. p \in DOMAIN Content /\ later \in DOMAIN Content  BY Documents
  <2>5. stages[i].receipt.candidate = p  BY <2>2, <2>3, <2>4, CompleteValid
  <2>6. ListsOf(p)  BY <2>4, Documents
  <2>7. AssessScenarioCoverage(p, later, last, request.plan.scenario_set_id, request.plan).complete  BY <2>2, <2>3
  <2>8. ScenariosProved(p, request.plan) /\ request.plan.gaps = <<>>  BY <1>2, <2>4, <2>6, <2>7, CoverageProves
  <2>. QED  BY <2>1, <2>5, <2>8
<1>7. ScoresProved(request.candidate)
  <2>1. PICK i \in DOMAIN stages :
            /\ stages[i].name = "scorer-calibration" /\ Passed(stages[i]) /\ StageTrue(stages[i])
            /\ stages[i].receipt.candidate = request.candidate
    BY <1>4
  <2>2. PICK p \in Packages, later \in Packages : stages[i].receipt = AssessScorerCalibration(p, later)
    BY <2>1 DEF StageTrue
  <2>3. stages[i].receipt.status = "pass"  BY <2>1 DEF Passed
  <2>4. p \in DOMAIN Content /\ later \in DOMAIN Content  BY Documents
  <2>5. Content[p].valid  BY <2>2, <2>3, CalibrationPass
  <2>6. stages[i].receipt.candidate = p  BY <2>2, <2>4, <2>5, ValidCandidate DEF AssessScorerCalibration
  <2>. QED  BY <2>1, <2>2, <2>3, <2>4, <2>6, Documents, CalibrationProves
<1>8. PICK i \in DOMAIN stages :
          /\ stages[i].name = "content-review" /\ Passed(stages[i]) /\ StageTrue(stages[i])
          /\ stages[i].receipt.candidate = request.candidate
  BY <1>4
<1>9. stages[i].receipt.status = "pass"  BY <1>8 DEF Passed
<1>10. CASE request.mode = "observed"
  <2>1. pc = "done" /\ execution # Cancelled /\ stages[i].receipt = execution  BY <1>8, <1>10 DEF StageTrue
  <2>2. assessment # None /\ Endorses(assessment, execution.candidate)  BY <1>1, <1>9, <2>1 DEF ReviewInv, Accepted
  <2>3. returned.assessment = assessment  BY <1>1, <2>2 DEF ReviewInv, Reported
  <2>. QED  BY <1>5, <1>6, <1>7, <1>8, <1>10, <2>1, <2>2, <2>3
<1>11. CASE request.mode # "observed"
  <2>1. PICK p \in Packages : stages[i].receipt = AssessContentReview(Validation(p), call.assessment)
    BY <1>8, <1>11 DEF StageTrue
  <2>2. AssessContentReview(Validation(p), call.assessment).findings = Clean
    BY <1>9, <2>1, StatusPass DEF AssessContentReview
  <2>3. stages[i].receipt.candidate = p /\ Endorses(call.assessment, p)  BY <2>1, <2>2, Documents, ReviewPass
  <2>. QED  BY <1>5, <1>6, <1>7, <1>8, <1>11, <2>3
<1>. QED  BY <1>10, <1>11

LEMMA FinalStep == ASSUME WorkflowInv, Final PROVE Bound' /\ Progress' /\ Kept'
<1>. DEFINE current   == ValidationUnder(request.required, tree)
            baseline  == IF request.update_baseline = None THEN None ELSE Validation(base)
            unchanged == Captured(request, current, baseline)
<1>1. /\ phase = "stages" /\ Len(stages) = Len(Expected(request)) /\ phase' = "done"
      /\ UNCHANGED <<tree, base, call, stages, returned, assessment>>
      /\ checked'.status = (IF unchanged THEN "local_checks_passed" ELSE "blocked")
  BY DEF Final, Answer, world, review, process, seen
<1>2. request' = request  BY <1>1 DEF request
<1>3. Bound' /\ Progress'  BY <1>1 DEF WorkflowInv, Bound, Progress
<1>4. Kept'
  <2>. SUFFICES ASSUME LocalPass' PROVE QualityEarned' /\ (request'.mode = "observed" => assessment' # None)
    BY DEF Kept, QualityEarned
  <2>1. unchanged  BY <1>1 DEF LocalPass
  <2>2. /\ current.status = "pass" /\ current.candidate = request.candidate
        /\ request.update_baseline # None =>
               Validation(base).status = "pass" /\ Validation(base).candidate = request.update_baseline
    BY <2>1 DEF Captured
  <2>3. CandidateOf(tree) = tree /\ (Content[base].valid => CandidateOf(base) = base)
    <3>1. tree \in DOMAIN Content /\ base \in DOMAIN Content  BY Documents DEF WorkflowInv, Bound
    <3>2. Content[tree].valid  BY <2>2, CaptureValid
    <3>. QED  BY <3>1, <3>2, ValidCandidate
  <2>4. /\ tree = request.candidate /\ Content[tree].valid /\ request.required \subseteq DOMAIN Content[tree].files
    BY <2>2, <2>3, CaptureValid
  <2>5. request.intent = "update" => base = request.update_baseline /\ Content[base].valid
    BY <1>1, <2>2, <2>3, CaptureValid DEF Validation, WorkflowInv, Bound, RequestValid
  <2>6. /\ request.intake.checks = Checks
        /\ ScenariosProved(request.candidate, request.plan) /\ request.plan.gaps = <<>>
        /\ ScoresProved(request.candidate)
        /\ IF request.mode = "observed" THEN assessment # None /\ Endorses(returned.assessment, request.candidate)
           ELSE Endorses(call.assessment, request.candidate)
    BY <1>1, AllEarned
  <2>7. request'.mode = "observed" => assessment' # None  BY <1>1, <1>2, <2>6
  <2>. DEFINE a == IF request.mode = "observed" THEN returned.assessment ELSE call.assessment
  <2>8. Endorses(a, tree)  BY <2>4, <2>6
  <2>9. QualityEarned'
    BY <1>1, <1>2, <2>4, <2>5, <2>6, <2>8 DEF QualityEarned, Endorses
  <2>. QED  BY <2>7, <2>9
<1>. QED  BY <1>3, <1>4

-----------------------------------------------------------------------------
(* The other steps *)

(* While a result is out, the review it rests on cannot change.            *)
LEMMA ResultKept ==
    ASSUME WorkflowInv, ReviewInv', UNCHANGED workflow,
           phase = "done" => UNCHANGED <<tree, assessment>>
    PROVE  Kept'
<1>1. UNCHANGED <<call, base, phase, stages, checked>> /\ request' = request  BY DEF workflow, request
<1>. SUFFICES ASSUME LocalPass' PROVE QualityEarned' /\ (request'.mode = "observed" => assessment' # None)
  BY DEF Kept, QualityEarned
<1>2. LocalPass /\ phase = "done"  BY <1>1 DEF LocalPass
<1>3. UNCHANGED <<tree, assessment>>  BY <1>2
<1>4. request.mode = "observed" => assessment # None  BY <1>2 DEF WorkflowInv, Kept
<1>5. request.mode = "observed" => returned'.assessment = returned.assessment
  BY <1>3, <1>4 DEF WorkflowInv, ReviewInv, Reported
<1>6. QualityEarned'
  BY <1>1, <1>2, <1>3, <1>5 DEF WorkflowInv, Kept, QualityEarned
<1>. QED  BY <1>1, <1>3, <1>4, <1>6

LEMMA ProgressKept ==
    ASSUME WorkflowInv, UNCHANGED workflow, tree' \in Packages, pc = "done" => UNCHANGED <<pc, execution>>
    PROVE  Bound' /\ Progress'
<1>1. UNCHANGED <<call, base, phase, stages, checked>> /\ request' = request  BY DEF workflow, request
<1>2. Bound'  BY <1>1 DEF WorkflowInv, Bound
<1>3. Recorded => Recorded'
  <2>1. CASE pc = "done"
    <3>1. UNCHANGED <<pc, execution>>  BY <2>1
    <3>. QED  BY <1>1, <3>1 DEF Recorded, StageTrue
  <2>2. CASE pc # "done"
    BY <1>1, <2>2 DEF Recorded, StageTrue
  <2>. QED  BY <2>1, <2>2
<1>4. Progress'  BY <1>1, <1>3 DEF WorkflowInv, Progress, AtReview
<1>. QED  BY <1>2, <1>4

LEMMA ReviewingStep == ASSUME WorkflowInv, Reviewing PROVE WorkflowInv'
<1>1. Parent /\ phase = "review" /\ UNCHANGED workflow  BY DEF Reviewing
<1>2. pc # "done" /\ UNCHANGED tree
  BY <1>1 DEF Parent, Validate, Capture, StartFails, StartReturns, ReadInvoked, ReadAnswer, ReadEnds, ReadExpires,
              Observed, Stop, Raise, AssessFailed, Assess, world
<1>3. ReviewInv'  BY <1>1, Documents, ParentStep DEF WorkflowInv, Bound
<1>4. Bound' /\ Progress'  BY <1>1, <1>2, ProgressKept DEF WorkflowInv, Bound
<1>5. Kept'  BY <1>1, <1>2, <1>3, ResultKept
<1>. QED  BY <1>3, <1>4, <1>5 DEF WorkflowInv

LEMMA WorkerSideStep ==
    ASSUME WorkflowInv, UNCHANGED workflow,
           WorkerStarts \/ Worker \/ WorkerEnds \/ Cancel \/ StartupPasses \/ ReviewPasses
    PROVE  WorkflowInv'
<1>1. UNCHANGED <<tree, assessment, execution>> /\ (pc = "done" => UNCHANGED pc)
  BY DEF WorkerStarts, Worker, WorkerRefuses, WorkerInvokes, AdapterReturns, AdapterFails, WorkerEnds, Cancel,
         StartupPasses, ReviewPasses, world, seen
<1>2. ReviewInv'  BY WorkerStep, WorkerEndsStep, ParentMoves, TimeStep DEF WorkflowInv
<1>3. Bound' /\ Progress'  BY <1>1, ProgressKept DEF WorkflowInv, Bound
<1>4. Kept'  BY <1>1, <1>2, ResultKept
<1>. QED  BY <1>2, <1>3, <1>4 DEF WorkflowInv

LEMMA EditsStep == ASSUME WorkflowInv, Edits PROVE WorkflowInv'
<1>1. phase # "done" /\ UNCHANGED review /\ UNCHANGED <<call, phase, stages, checked>>
  BY DEF Edits, EditBaseline, Edit, review, workflow
<1>2. tree' \in Packages /\ base' \in Baselines  BY DEF Edits, EditBaseline, Edit, workflow, WorkflowInv, Bound
<1>3. ReviewInv'  BY <1>1, ReviewSame DEF WorkflowInv
<1>4. request' = request /\ UNCHANGED <<pc, execution>>  BY <1>1 DEF request, review
<1>5. Bound'  BY <1>1, <1>2, <1>4 DEF WorkflowInv, Bound
<1>6. Progress'
  <2>1. Recorded => Recorded'  BY <1>1, <1>4 DEF Recorded, StageTrue
  <2>. QED  BY <1>1, <1>4, <2>1 DEF WorkflowInv, Progress, AtReview
<1>7. Kept'  BY <1>1 DEF Kept, QualityEarned, LocalPass
<1>. QED  BY <1>3, <1>5, <1>6, <1>7 DEF WorkflowInv

LEMMA OrchestrationStep == ASSUME WorkflowInv, Orchestration \/ CheckStage \/ StageRaises PROVE WorkflowInv'
<1>1. UNCHANGED review
  BY DEF Orchestration, CheckStage, StageRaises, Accept, CheckBaseline, MissingReview, ReviewSupplied, StartReview, ReviewReturns, Final
<1>2. ReviewInv'  BY <1>1, ReviewSame DEF WorkflowInv
<1>3. Bound' /\ Progress' /\ Kept'
  BY AcceptStep, RecordingStep, RaisesStep, MissingReviewStep, StartReviewStep, FinalStep DEF Orchestration
<1>. QED  BY <1>2, <1>3 DEF WorkflowInv

LEMMA StutterStep == ASSUME WorkflowInv, UNCHANGED <<vars, workflow>> PROVE WorkflowInv'
<1>1. UNCHANGED review /\ UNCHANGED <<tree, pc, execution, assessment>>
  BY DEF vars, review, world, seen
<1>2. ReviewInv'  BY <1>1, ReviewSame DEF WorkflowInv
<1>3. Bound' /\ Progress'  BY <1>1, ProgressKept DEF WorkflowInv, Bound
<1>4. Kept'  BY <1>1, <1>2, ResultKept
<1>. QED  BY <1>2, <1>3, <1>4 DEF WorkflowInv

LEMMA WorkflowInitInv == WorkflowInit => WorkflowInv
<1>. SUFFICES ASSUME WorkflowInit PROVE WorkflowInv
  OBVIOUS
<1>1. ReviewInv  BY ReviewInit DEF WorkflowInit
<1>2. Bound  BY DEF WorkflowInit, Init, Bound
<1>3. Progress /\ Kept  BY DEF WorkflowInit, Progress, Kept, QualityEarned, LocalPass
<1>. QED  BY <1>1, <1>2, <1>3 DEF WorkflowInv

(* What passes was earned, whatever the packages hold, whoever edits them  *)
(* between two stages and whatever the adapter of the host does:           *)
(* content_review.py and quality_workflow.py pass nothing else.            *)
THEOREM ChecksAreEarned == WorkflowSpec => []ChecksEarned
<1>1. WorkflowInit => WorkflowInv  BY WorkflowInitInv
<1>2. WorkflowInv /\ [WorkflowNext]_<<vars, workflow>> => WorkflowInv'
  BY OrchestrationStep, ReviewingStep, EditsStep, StutterStep, WorkerSideStep DEF WorkflowNext, Finished
<1>3. WorkflowInv => ChecksEarned
  BY ReviewInvEarned DEF WorkflowInv, Kept, ChecksEarned
<1>. QED  BY <1>1, <1>2, <1>3, PTL DEF WorkflowSpec

-----------------------------------------------------------------------------
(* The answers *)

(* Each receipt of a stage keeps its contract. *)
LEMMA TrueReceipt ==
    ASSUME NoneIsNone, call \in Calls, Observation, NEW s, s.name \in ToSet(StageNames), StageTrue(s)
    PROVE  ReceiptValid(s)
<1>. DEFINE r == s.receipt
<1>1. \A p \in Packages : p \in DOMAIN Content /\ CandidateOf(p) # None /\ ListsOf(p) /\ LimitsOf(p) /\ RowsOf(p)
  BY Documents
<1>2. request.plan.gaps \in Seq(ToSet(request.plan.gaps))  BY Documents DEF request, List
<1>3. CASE s.name = "intake"
  <2>1. PICK p \in Packages : r = IntakeSkillPackage(p, request.intake, request.required)  BY <1>3 DEF StageTrue
  <2>. QED  BY <1>1, <1>3, <2>1, IntakeHonest DEF ReceiptValid
<1>4. CASE s.name = "scenario-coverage"
  <2>1. PICK p \in Packages, later \in Packages, last \in Packages :
            r = AssessScenarioCoverage(p, later, last, request.plan.scenario_set_id, request.plan)
    BY <1>4 DEF StageTrue
  <2>2. CoverageValid(r)  BY <1>1, <1>2, <2>1, CoverageHonest
  <2>. QED  BY <1>4, <2>2 DEF ReceiptValid
<1>5. CASE s.name = "scorer-quality"
  <2>1. PICK p \in Packages : r = AssessScorerQuality(p)  BY <1>5 DEF StageTrue
  <2>. QED  BY <1>1, <1>5, <2>1, ScorerHonest DEF ReceiptValid
<1>6. CASE s.name = "scorer-calibration"
  <2>1. PICK p \in Packages, later \in Packages : r = AssessScorerCalibration(p, later)  BY <1>6 DEF StageTrue
  <2>. QED  BY <1>1, <1>6, <2>1, CalibrationHonest DEF ReceiptValid
<1>7. CASE s.name = "content-review" /\ request.mode = "observed"
  <2>1. ExecutionValid(r)  BY <1>7 DEF StageTrue, Observation
  <2>. QED  BY <1>7, <2>1 DEF ReceiptValid
<1>8. CASE s.name = "content-review" /\ request.mode # "observed"
  <2>1. PICK p \in Packages : r = AssessContentReview(Validation(p), call.assessment)  BY <1>8 DEF StageTrue
  <2>2. ReviewResultValid(r) /\ r.status = StatusOf(r.findings)  BY <1>1, <2>1, ReviewHonest
  <2>3. (r.status = "pass") = (r.findings = Clean)  BY <2>2, StatusPass
  <2>. HIDE DEF r
  <2>. QED  BY <1>8, <2>2, <2>3 DEF ReceiptValid, r
<1>9. CASE s.name \in {"baseline", "validate"}
  <2>1. (r.status = "pass") = (r.findings = Clean)
    <3>1. \E required, p : r = ValidationUnder(required, p)  BY <1>9 DEF StageTrue, Validation
    <3>. QED  BY <3>1, CaptureValid
  <2>. HIDE DEF r
  <2>. QED  BY <1>9, <2>1 DEF ReceiptValid, r
<1>10. s.name \in {"baseline", "intake", "validate", "scenario-coverage", "scorer-quality", "scorer-calibration",
                   "content-review"}
  BY DEF StageNames, ToSet
<1>. QED  BY <1>3, <1>4, <1>5, <1>6, <1>7, <1>8, <1>9, <1>10

(* Stages that are those expected, each made by its gate, and before the   *)
(* last one passed about the candidate requested.                          *)
Settles(record) == Passed(record) /\ record.receipt.candidate = Selected(request, record.name)
Traced(s) ==
    /\ s \in Seq(ToSet(s)) /\ Len(s) <= Len(Expected(request))
    /\ \A i \in DOMAIN s :
           s[i].name = Expected(request)[i] /\ StageTrue(s[i]) /\ (i < Len(s) => Settles(s[i]))

LEMMA TracedPlaces ==
    ASSUME NEW s, Traced(s)
    PROVE  /\ Len(s) \in Nat /\ DOMAIN s = 1..Len(s) /\ DOMAIN s \subseteq DOMAIN Expected(request)
           /\ \A i, j \in DOMAIN s : s[i].name = s[j].name => i = j
           /\ \A i \in DOMAIN s : s[i].name \in ToSet(StageNames)
<1>1. Len(s) \in Nat /\ DOMAIN s = 1..Len(s)  BY LenProperties DEF Traced
<1>2. Len(Expected(request)) \in Nat /\ DOMAIN Expected(request) = 1..Len(Expected(request))  BY ExpectedOrder
<1>3. DOMAIN s \subseteq DOMAIN Expected(request)  BY <1>1, <1>2 DEF Traced
<1>4. \A i \in DOMAIN s : s[i].name = Expected(request)[i]  BY DEF Traced
<1>5. /\ \A i, j \in DOMAIN Expected(request) : Expected(request)[i] = Expected(request)[j] => i = j
      /\ \A i \in DOMAIN Expected(request) : Expected(request)[i] \in ToSet(StageNames)
  BY ExpectedOrder
<1>. QED  BY <1>1, <1>3, <1>4, <1>5

(* A result finds the receipt of a stage by its name. *)
LEMMA ReceiptNamed ==
    ASSUME NEW s, Traced(s), NEW r, r.stages = s, NEW i \in DOMAIN s
    PROVE  s[i].name \in DOMAIN Receipts(r) /\ Receipts(r)[s[i].name] = s[i].receipt
<1>1. s[i] \in ToSet(s) /\ \A x \in ToSet(s) : x.name = s[i].name => x = s[i]
  <2>1. \A x \in ToSet(s) : \E j \in DOMAIN s : x = s[j]  BY DEF ToSet
  <2>2. \A j \in DOMAIN s : s[j].name = s[i].name => s[j] = s[i]  BY TracedPlaces
  <2>. QED  BY <2>1, <2>2 DEF ToSet
<1>2. (CHOOSE x \in ToSet(s) : x.name = s[i].name) = s[i]  BY <1>1
<1>. QED  BY <1>2 DEF Receipts

LEMMA ReceiptOfName ==
    ASSUME NEW s, Traced(s), NEW r, r.stages = s, NEW name, name \in DOMAIN Receipts(r)
    PROVE  \E i \in DOMAIN s : s[i].name = name /\ Receipts(r)[name] = s[i].receipt
<1>1. PICK i \in DOMAIN s : s[i].name = name  BY DEF Receipts
<1>. QED  BY <1>1, ReceiptNamed

(* The receipts that a later stage is compared with. *)
LEMMA EarlierReceipts ==
    ASSUME NEW s, Traced(s), NEW r, r.stages = s, NEW i \in DOMAIN s
    PROVE  /\ s[i].name = "scorer-calibration" =>
                  LET declared == Receipts(r)["scorer-quality"]
                  IN  declared = AssessScorerQuality(request.candidate) /\ declared.status = "pass"
           /\ s[i].name = "content-review" =>
                  Receipts(r)["validate"] = ValidationUnder(request.required, request.candidate)
<1>1. \A j \in DOMAIN Expected(request) : j < i => j \in DOMAIN s /\ j < Len(s)
  <2>1. Len(s) \in Nat /\ DOMAIN s = 1..Len(s)  BY TracedPlaces
  <2>2. DOMAIN Expected(request) = 1..Len(Expected(request)) /\ Len(Expected(request)) \in Nat  BY ExpectedOrder
  <2>. QED  BY <2>1, <2>2
<1>2. i \in DOMAIN Expected(request) /\ s[i].name = Expected(request)[i]  BY TracedPlaces DEF Traced
<1>3. ASSUME s[i].name = "scorer-calibration"
      PROVE  LET declared == Receipts(r)["scorer-quality"]
             IN  declared = AssessScorerQuality(request.candidate) /\ declared.status = "pass"
  <2>1. PICK j \in DOMAIN Expected(request) : j < i /\ Expected(request)[j] = "scorer-quality"
    BY <1>2, <1>3, ExpectedOrder
  <2>2. j \in DOMAIN s /\ s[j].name = "scorer-quality" /\ StageTrue(s[j]) /\ Settles(s[j])
    BY <1>1, <2>1 DEF Traced
  <2>3. PICK p \in Packages : s[j].receipt = AssessScorerQuality(p)  BY <2>2 DEF StageTrue
  <2>4. s[j].receipt.status = "pass" /\ s[j].receipt.candidate = request.candidate
    BY <2>2 DEF Settles, Passed, Selected
  <2>5. AssessScorerQuality(p).candidate = p  BY <2>3, <2>4, Documents, DeclarationPass, ValidCandidate
  <2>6. Receipts(r)["scorer-quality"] = s[j].receipt  BY <2>2, ReceiptNamed
  <2>. QED  BY <2>3, <2>5, <2>4, <2>6
<1>4. ASSUME s[i].name = "content-review"
      PROVE  Receipts(r)["validate"] = ValidationUnder(request.required, request.candidate)
  <2>1. PICK j \in DOMAIN Expected(request) : j < i /\ Expected(request)[j] = "validate"
    BY <1>2, <1>4, ExpectedOrder
  <2>2. j \in DOMAIN s /\ s[j].name = "validate" /\ StageTrue(s[j]) /\ Settles(s[j])
    BY <1>1, <2>1 DEF Traced
  <2>3. PICK p \in Packages : s[j].receipt = ValidationUnder(request.required, p)  BY <2>2 DEF StageTrue
  <2>4. s[j].receipt.status = "pass" /\ s[j].receipt.candidate = request.candidate
    BY <2>2 DEF Settles, Passed, Selected
  <2>5. ValidationUnder(request.required, p).candidate = p  BY <2>3, <2>4, Documents, CaptureValid, ValidCandidate
  <2>6. Receipts(r)["validate"] = s[j].receipt  BY <2>2, ReceiptNamed
  <2>. QED  BY <2>3, <2>5, <2>4, <2>6
<1>. QED  BY <1>3, <1>4

(* A calibration of the candidate is about the scorer it declares. *)
LEMMA CalibrationAgrees ==
    ASSUME NoneIsNone, NEW package \in DOMAIN Content, NEW later \in DOMAIN Content
    PROVE  CalibrationMatches(AssessScorerCalibration(package, later), AssessScorerQuality(package))
<1>. DEFINE r == AssessScorerCalibration(package, later)
            d == AssessScorerQuality(later)
            b == Content[package].bundle
<1>. SUFFICES ASSUME r.status = "pass"
              PROVE  CalibrationMatches(r, AssessScorerQuality(package))
  BY DEF CalibrationMatches
<1>1. /\ Content[package].valid /\ b # None /\ DeclarationJoin(b, package, later) = Clean
      /\ Threshold(b.threshold) /\ \A f \in LimitFields : LimitSound(b.limits, f)
  BY CalibrationPass
<1>2. r.scorer_id = b.id /\ r.version = b.version /\ r.parameters = b.parameters /\ r.policy = AppliedPolicy(b)
  BY <1>1 DEF AssessScorerCalibration
<1>3. r.policy # None /\ r.policy.threshold = b.threshold
  <2>1. r.policy = [threshold |-> b.threshold, limits |-> b.limits]  BY <1>1, <1>2 DEF AppliedPolicy
  <2>. QED  BY <2>1 DEF NoneIsNone
<1>. HIDE DEF b, r
<1>4. /\ d.status = "pass" /\ d.candidate = CandidateOf(package)
      /\ <<b.id, b.version, b.threshold>> = <<d.scorer_id, d.version, d.threshold>>
      /\ If(d.parameters # None /\ b.parameters # d.parameters, "judge_parameters_mismatch") = Clean
  BY <1>1 DEF DeclarationJoin, Clean
<1>5. d.parameters # None => b.parameters = d.parameters  BY <1>4 DEF If, Clean
<1>6. d.candidate = later  BY <1>4, DeclarationPass, ValidCandidate
<1>7. d = AssessScorerQuality(package)  BY <1>1, <1>4, <1>6, ValidCandidate
<1>. HIDE DEF d
<1>8. b.id = d.scorer_id /\ b.version = d.version /\ b.threshold = d.threshold  BY <1>4
<1>. QED  BY <1>2, <1>3, <1>5, <1>7, <1>8 DEF CalibrationMatches

(* A passing review is about the files of the candidate. *)
LEMMA ReviewAgrees ==
    ASSUME NoneIsNone, HonestInv, NEW record, record.name = "content-review", StageTrue(record),
           record.receipt.candidate = request.candidate
    PROVE  ReviewMatches(record.receipt, request.mode = "observed", ValidationUnder(request.required, request.candidate))
<1>. DEFINE capture == ValidationUnder(request.required, request.candidate)
            receipt == record.receipt
            reviewed == IF request.mode = "observed" THEN receipt.review ELSE receipt
<1>1. capture.files = Content[request.candidate].files  BY CaptureValid
<1>. SUFFICES ASSUME receipt.status = "pass"
              PROVE  /\ reviewed # None /\ reviewed.assessment # None
                     /\ Endorses(reviewed.assessment, request.candidate)
  BY <1>1 DEF ReviewMatches, Endorses
<1>2. CASE request.mode = "observed"
  <2>1. pc = "done" /\ execution # Cancelled /\ receipt = execution  BY <1>2 DEF StageTrue
  <2>2. /\ assessment # None /\ execution.review.assessment = assessment
        /\ Endorses(assessment, execution.candidate)
    BY <2>1 DEF HonestInv, ReviewInv, Accepted
  <2>3. execution.review # None  BY <2>1 DEF HonestInv, Observation, ExecutionValid
  <2>. QED  BY <1>2, <2>1, <2>2, <2>3
<1>3. CASE request.mode # "observed"
  <2>1. PICK p \in Packages : receipt = AssessContentReview(Validation(p), call.assessment)  BY <1>3 DEF StageTrue
  <2>2. AssessContentReview(Validation(p), call.assessment).findings = Clean
    BY <2>1, Documents, ReviewHonest, StatusPass
  <2>3. /\ call.assessment # None /\ receipt.assessment = call.assessment /\ receipt.candidate = p
        /\ Endorses(call.assessment, p)
    BY <2>1, <2>2, Documents, ReviewPass
  <2>4. receipt # None
    <3>1. \A v, a : LET r == AssessContentReview(v, a)
                    IN  r = [candidate |-> r.candidate, status |-> r.status, assessment |-> r.assessment,
                             findings |-> r.findings]
      BY DEF AssessContentReview
    <3>2. receipt = [candidate |-> receipt.candidate, status |-> receipt.status, assessment |-> receipt.assessment,
                     findings |-> receipt.findings]
      BY <2>1, <3>1
    <3>. QED  BY <3>2 DEF NoneIsNone
  <2>. QED  BY <1>3, <2>3, <2>4
<1>. QED  BY <1>2, <1>3

LEMMA CoveragePlan ==
    ASSUME NEW package, NEW later, NEW last, NEW selected, NEW plan, plan # None, PlanValid(plan)
    PROVE  AssessScenarioCoverage(package, later, last, selected, plan).plan = plan
<1>. DEFINE coverage == AssessScenarioCoverage(package, later, last, selected, plan)
<1>1. coverage.plan = IF plan # None /\ PlanValid(plan) THEN plan ELSE None  BY SMTT(60) DEF AssessScenarioCoverage, CoverageOf
<1>. HIDE DEF coverage
<1>. QED  BY <1>1 DEF coverage

(* What a result must show of each of its stages. *)
LEMMA StagesBound ==
    ASSUME NoneIsNone, HonestInv, call \in Calls, RequestValid(request), NEW s, Traced(s),
           NEW r, r.request = request, r.stages = s,
           \A i \in DOMAIN s :
               s[i].receipt.candidate = Selected(request, s[i].name) \/ r.blocked_stage = "candidate_changed"
    PROVE  \A i \in DOMAIN r.stages : r.stages[i].name = Expected(r.request)[i] /\ StageBound(r, i)
<1>. SUFFICES ASSUME NEW i \in DOMAIN s PROVE s[i].name = Expected(request)[i] /\ StageBound(r, i)
  OBVIOUS
<1>. DEFINE record   == s[i]
            receipt == record.receipt
            agrees  == i \notin Mismatches(r)
<1>1. s[i].name = Expected(request)[i] /\ StageTrue(record) /\ (i < Len(s) => Settles(record))  BY DEF Traced
<1>2. Len(s) \in Nat /\ DOMAIN s = 1..Len(s)  BY TracedPlaces
<1>3. agrees <=> receipt.candidate = Selected(request, record.name)  BY DEF Mismatches
<1>4. agrees \/ (r.blocked_stage = "candidate_changed" /\ i = Len(s))  BY <1>1, <1>2, <1>3 DEF Settles
<1>5. i < Len(s) => Passed(record)  BY <1>1 DEF Settles
<1>6. record.name = "intake" =>
          /\ receipt.context = request.intake
          /\ receipt.validation.status = "pass" => request.required \subseteq DOMAIN receipt.validation.files
  BY <1>1, IntakeCaptures DEF StageTrue
<1>7. record.name = "validate" => (receipt.status = "pass" => request.required \subseteq DOMAIN receipt.files)
  BY <1>1, CaptureValid DEF StageTrue
<1>8. record.name = "scenario-coverage" => receipt.plan = request.plan
  <2>. SUFFICES ASSUME record.name = "scenario-coverage" PROVE receipt.plan = request.plan
    OBVIOUS
  <2>1. PICK p \in Packages, later \in Packages, last \in Packages :
            receipt = AssessScenarioCoverage(p, later, last, request.plan.scenario_set_id, request.plan)
    BY <1>1 DEF StageTrue
  <2>2. request.plan # None /\ PlanValid(request.plan)  BY QualityAssumption DEF request, RequestValid
  <2>. QED  BY <2>1, <2>2, CoveragePlan
<1>9. (record.name = "scorer-calibration" /\ agrees) => CalibrationMatches(receipt, Receipts(r)["scorer-quality"])
  <2>. SUFFICES ASSUME record.name = "scorer-calibration", agrees
                PROVE  CalibrationMatches(receipt, Receipts(r)["scorer-quality"])
    OBVIOUS
  <2>1. PICK p \in Packages, later \in Packages : receipt = AssessScorerCalibration(p, later)  BY <1>1 DEF StageTrue
  <2>. SUFFICES ASSUME receipt.status = "pass" PROVE CalibrationMatches(receipt, Receipts(r)["scorer-quality"])
    BY DEF CalibrationMatches
  <2>2. AssessScorerCalibration(p, later).candidate = p
    <3>1. Content[p].valid  BY <2>1, CalibrationPass
    <3>. QED  BY <3>1, Documents, ValidCandidate DEF AssessScorerCalibration
  <2>3. p = request.candidate  BY <1>3, <2>1, <2>2 DEF Selected
  <2>4. Receipts(r)["scorer-quality"] = AssessScorerQuality(request.candidate)  BY EarlierReceipts
  <2>. QED  BY <2>1, <2>3, <2>4, Documents, CalibrationAgrees
<1>10. (record.name = "content-review" /\ agrees) =>
           ReviewMatches(receipt, request.mode = "observed", Receipts(r)["validate"])
  <2>. SUFFICES ASSUME record.name = "content-review", agrees
                PROVE  ReviewMatches(receipt, request.mode = "observed", Receipts(r)["validate"])
    OBVIOUS
  <2>1. receipt.candidate = request.candidate  BY <1>3 DEF Selected
  <2>2. Receipts(r)["validate"] = ValidationUnder(request.required, request.candidate)  BY EarlierReceipts
  <2>. QED  BY <1>1, <2>1, <2>2, ReviewAgrees
<1>. HIDE DEF agrees, receipt, record
<1>. QED  BY <1>1, <1>4, <1>5, <1>6, <1>7, <1>8, <1>9, <1>10 DEF StageBound, PolicyMatches, agrees, receipt, record

-----------------------------------------------------------------------------
LEMMA BlockedFields ==
    ASSUME NEW r, NEW s, NEW where, NEW why
    PROVE  LET b == Blocked(r, s, where, why)
           IN  /\ b.status = "blocked" /\ b.request = r /\ b.stages = s /\ b.final = None /\ b.baseline_final = None
               /\ b.blocked_stage = where /\ b.blocker = why
               /\ b.applied = IF r = None THEN None ELSE Applied(r, s)
BY DEF Blocked

(* Two captures of one directory agree: what the candidate stands for is   *)
(* the same, and there is one valid package of it.                         *)
LEMMA CapturesAgree ==
    ASSUME NEW p \in DOMAIN Content, NEW q \in DOMAIN Content, NEW v, NEW w,
           v.candidate = CandidateOf(p), v.files = Content[p].files,
           w.candidate = CandidateOf(q), w.files = Content[q].files,
           v.status = "pass" => Content[p].valid, w.status = "pass" => Content[q].valid,
           (v.status = "pass" /\ w.status = "pass" /\ p = q) => v = w
    PROVE  Agree(v, w)
<1>1. CandidateOf(p) = CandidateOf(q) => Content[p].files = Content[q].files  BY ContentAssumption
<1>2. (Content[p].valid /\ Content[q].valid /\ CandidateOf(p) = CandidateOf(q)) => p = q  BY ValidCandidate
<1>. QED  BY <1>1, <1>2 DEF Agree

LEMMA IntakeAgrees ==
    ASSUME NEW s, Traced(s), NEW r, r.stages = s, {"intake", "validate"} \subseteq DOMAIN Receipts(r)
    PROVE  Agree(Receipts(r)["intake"].validation, Receipts(r)["validate"])
<1>1. PICK i \in DOMAIN s : s[i].name = "intake" /\ Receipts(r)["intake"] = s[i].receipt  BY ReceiptOfName
<1>2. PICK j \in DOMAIN s : s[j].name = "validate" /\ Receipts(r)["validate"] = s[j].receipt  BY ReceiptOfName
<1>3. StageTrue(s[i]) /\ StageTrue(s[j])  BY DEF Traced
<1>4. PICK p \in Packages : s[i].receipt = IntakeSkillPackage(p, request.intake, request.required)
  BY <1>1, <1>3 DEF StageTrue
<1>5. PICK q \in Packages : s[j].receipt = ValidationUnder(request.required, q)  BY <1>2, <1>3 DEF StageTrue
<1>. DEFINE u == ValidationUnder(request.required, p)
            v == BoundToSource(u, request.intake)
            w == ValidationUnder(request.required, q)
<1>6. s[i].receipt.validation = v
  <2>. HIDE DEF v
  <2>1. \A x : x = v => x.candidate = v.candidate  OBVIOUS
  <2>. QED  BY <1>4 DEF IntakeSkillPackage, v
<1>7. /\ v.candidate = CandidateOf(p) /\ v.files = Content[p].files /\ (v.status = "pass" => v = u)
  BY SourceBound
<1>8. /\ u.status = "pass" => Content[p].valid
      /\ w.candidate = CandidateOf(q) /\ w.files = Content[q].files /\ (w.status = "pass" => Content[q].valid)
  BY CaptureValid
<1>9. p = q => u = w  OBVIOUS
<1>. HIDE DEF u, v, w
<1>10. Agree(v, w)  BY <1>7, <1>8, <1>9, Documents, CapturesAgree
<1>. QED  BY <1>1, <1>2, <1>5, <1>6, <1>10 DEF w

LEMMA BlockedValid ==
    ASSUME NoneIsNone, HonestInv, call \in Calls, RequestValid(request), NEW s, Traced(s), NEW where, NEW why,
           where # None, why # None, BlockerFits(Blocked(request, s, where, why)),
           \A i \in DOMAIN s :
               s[i].receipt.candidate = Selected(request, s[i].name) \/ where = "candidate_changed"
    PROVE  ResultValid(Blocked(request, s, where, why))
<1>. DEFINE b == Blocked(request, s, where, why)
<1>1. request # None  BY QualityAssumption DEF request
<1>2. /\ b.status = "blocked" /\ b.request = request /\ b.stages = s /\ b.final = None /\ b.baseline_final = None
      /\ b.blocked_stage = where /\ b.blocker = why /\ b.applied = Applied(request, s)
  BY <1>1, BlockedFields
<1>. HIDE DEF b
<1>3. \A i \in DOMAIN b.stages : b.stages[i].name = Expected(b.request)[i] /\ StageBound(b, i)
  BY <1>2, StagesBound
<1>4. Len(s) <= Len(Expected(request))  BY DEF Traced
<1>5. BlockerFits(b)  BY DEF b
<1>6. \A x : Agree(x, None) /\ SameSource(None, x)  BY DEF Agree, SameSource
<1>7. {"intake", "validate"} \subseteq DOMAIN Receipts(b) => Agree(Receipts(b)["intake"].validation, Receipts(b)["validate"])
  BY <1>2, IntakeAgrees
<1>. HIDE DEF BlockerFits
<1>8. ResultValid(b)  BY <1>1, <1>2, <1>3, <1>4, <1>5, <1>6, <1>7 DEF ResultValid
<1>. QED  BY <1>8 DEF b

(* The requests that are refused. *)
LEMMA RefusedValid ==
    ASSUME NEW why \in {"invalid_quality_request", "unexpected_quality_baseline"}
    PROVE  ResultValid(Blocked(None, <<>>, "request", why))
<1>. DEFINE b == Blocked(None, <<>>, "request", why)
<1>1. /\ b.status = "blocked" /\ b.request = None /\ b.stages = <<>> /\ b.final = None /\ b.baseline_final = None
      /\ b.blocked_stage = "request" /\ b.blocker = why /\ b.applied = None
  BY BlockedFields
<1>. HIDE DEF b
<1>2. ResultValid(b)  BY <1>1 DEF ResultValid
<1>. QED  BY <1>2 DEF b

(* Why a check was blocked is not None. *)
LEMMA BlockerGiven ==
    ASSUME NoneIsNone
    PROVE  /\ None # "quality_input_missing" /\ None # "quality_candidate_changed"
           /\ None # "quality_stage_incomplete" /\ None # "quality_final_capture_changed"
           /\ None # "candidate_changed" /\ None # "final-capture" /\ \A name \in ToSet(StageNames) : None # name
BY DEF NoneIsNone, Blockers

LEMMA StageNamed ==
    ASSUME NEW name \in ToSet(StageNames) PROVE name \notin {"candidate_changed", "final-capture"}
BY DEF StageNames, ToSet

(* What is recorded is traced; what is added to it is the next stage. *)
LEMMA RecordedTraced == ASSUME Recorded PROVE Traced(stages)
BY DEF Recorded, Traced, Settles

(* What is recorded next is traced too. *)
LEMMA AddedTraced ==
    ASSUME Recorded, NEW new, StageTrue(new), Len(stages) < Len(Expected(request)),
           new.name = Expected(request)[Len(stages) + 1]
    PROVE  LET s == Append(stages, new)
           IN  /\ Traced(s) /\ Len(s) \in Nat /\ DOMAIN s = 1..Len(s) /\ Len(s) # 0 /\ s # <<>>
               /\ s[Len(s)] = new /\ \A i \in DOMAIN s : i = Len(s) \/ (i < Len(s) /\ Settles(s[i]))
<1>. DEFINE s == Append(stages, new)
<1>1. /\ Len(stages) \in Nat /\ DOMAIN stages = 1..Len(stages)
      /\ s \in Seq(ToSet(s)) /\ Len(s) = Len(stages) + 1 /\ DOMAIN s = 1..Len(stages) + 1
      /\ s[Len(stages) + 1] = new /\ \A i \in DOMAIN stages : s[i] = stages[i]
  BY Appended DEF Recorded
<1>. HIDE DEF s
<1>2. Len(Expected(request)) \in Nat  BY ExpectedOrder
<1>3. \A i \in DOMAIN stages :
          stages[i].name = Expected(request)[i] /\ StageTrue(stages[i]) /\ Settles(stages[i])
  BY DEF Recorded, Settles
<1>4. \A i \in DOMAIN s : (i \in DOMAIN stages /\ s[i] = stages[i] /\ i < Len(s)) \/ (i = Len(s) /\ s[i] = new)
  BY <1>1
<1>5. \A i \in DOMAIN s : s[i].name = Expected(request)[i] /\ StageTrue(s[i]) /\ (i < Len(s) => Settles(s[i]))
  BY <1>1, <1>3, <1>4
<1>6. Traced(s)  BY <1>1, <1>2, <1>5 DEF Traced
<1>7. s # <<>>  BY <1>1, EmptySeq
<1>. QED  BY <1>1, <1>3, <1>4, <1>6, <1>7 DEF s

(* What _record answers. *)
LEMMA RecordAnswers ==
    ASSUME NoneIsNone, HonestInv, Bound, Recorded, phase \in {"stages", "review"}, NEW name, NEW receipt,
           Len(stages) < Len(Expected(request)), Expected(request)[Len(stages) + 1] = name,
           Record(name, receipt), StageTrue([name |-> name, receipt |-> receipt]), phase' = "done"
    PROVE  ResultValid(checked') /\ \A s \in ToSet(checked'.stages) : ReceiptValid(s)
<1>. DEFINE new == [name |-> name, receipt |-> receipt]
            s   == Append(stages, new)
<1>1. new.name = name /\ new.receipt = receipt  OBVIOUS
<1>2. /\ Traced(s) /\ Len(s) \in Nat /\ DOMAIN s = 1..Len(s) /\ Len(s) # 0 /\ s # <<>>
      /\ s[Len(s)] = new /\ \A i \in DOMAIN s : i = Len(s) \/ (i < Len(s) /\ Settles(s[i]))
  BY <1>1, AddedTraced
<1>3. \/ receipt.candidate # Selected(request, name)
         /\ checked' = Blocked(request, s, "candidate_changed", "quality_candidate_changed")
      \/ /\ receipt.candidate = Selected(request, name) /\ ~Passed(new)
         /\ checked' = Blocked(request, s, name, "quality_stage_incomplete")
  BY DEF Record, Answer
<1>. HIDE DEF new, s
<1>4. RequestValid(request) /\ call \in Calls  BY DEF Bound
<1>5. \A i \in DOMAIN s : s[i].name \in ToSet(StageNames) /\ StageTrue(s[i])  BY <1>2, TracedPlaces DEF Traced
<1>6. name \in ToSet(StageNames)  BY <1>1, <1>2, <1>5
<1>7. \A i \in DOMAIN s : ReceiptValid(s[i])  BY <1>4, <1>5, TrueReceipt DEF HonestInv
<1>8. checked'.stages = s  BY <1>3, BlockedFields
<1>9. \A x \in ToSet(checked'.stages) : ReceiptValid(x)  BY <1>7, <1>8 DEF ToSet
<1>10. CASE receipt.candidate # Selected(request, name)
  <2>. DEFINE b == Blocked(request, s, "candidate_changed", "quality_candidate_changed")
  <2>1. /\ b.request = request /\ b.stages = s /\ b.blocked_stage = "candidate_changed"
        /\ b.blocker = "quality_candidate_changed"
    BY BlockedFields
  <2>. HIDE DEF b
  <2>2. Mismatches(b) = {Len(s)}
    <3>1. \A i \in DOMAIN s : s[i].receipt.candidate # Selected(request, s[i].name) <=> i = Len(s)
      BY <1>1, <1>2, <1>10 DEF Settles
    <3>. QED  BY <1>2, <2>1, <3>1 DEF Mismatches
  <2>3. BlockerFits(b)  BY <2>1, <2>2 DEF BlockerFits
  <2>4. ResultValid(b)  BY <1>2, <1>4, <2>3, BlockedValid, BlockerGiven DEF b
  <2>. QED  BY <1>3, <1>9, <1>10, <2>4 DEF b
<1>11. CASE receipt.candidate = Selected(request, name)
  <2>. DEFINE b == Blocked(request, s, name, "quality_stage_incomplete")
  <2>1. /\ b.request = request /\ b.stages = s /\ b.blocked_stage = name
        /\ b.blocker = "quality_stage_incomplete"
    BY BlockedFields
  <2>. HIDE DEF b
  <2>2. ~Passed(new)  BY <1>3, <1>11
  <2>3. Last(s) = new  BY <1>2 DEF Last
  <2>4. name # "candidate_changed" /\ name # "final-capture"  BY <1>6, StageNamed
  <2>5. BlockerFits(b)  BY <1>1, <1>2, <2>1, <2>2, <2>3, <2>4 DEF BlockerFits
  <2>6. \A i \in DOMAIN s : s[i].receipt.candidate = Selected(request, s[i].name)
    BY <1>1, <1>2, <1>11 DEF Settles
  <2>7. ResultValid(b)  BY <1>2, <1>4, <1>6, <2>5, <2>6, BlockedValid, BlockerGiven DEF b
  <2>. QED  BY <1>3, <1>9, <1>11, <2>7 DEF b
<1>. QED  BY <1>10, <1>11

(* Something is missing for the next stage: the answer keeps what there is *)
(* so far.                                                                 *)
LEMMA MissingValid ==
    ASSUME NoneIsNone, HonestInv, call \in Calls, RequestValid(request), Recorded,
           NEW where \in {"baseline", "content-review"}, Len(stages) < Len(Expected(request)),
           Expected(request)[Len(stages) + 1] = where
    PROVE  LET b == Blocked(request, stages, where, "quality_input_missing")
           IN  ResultValid(b) /\ \A s \in ToSet(b.stages) : ReceiptValid(s)
<1>. DEFINE b == Blocked(request, stages, where, "quality_input_missing")
<1>1. /\ b.request = request /\ b.stages = stages /\ b.blocked_stage = where /\ b.blocker = "quality_input_missing"
  BY BlockedFields
<1>. HIDE DEF b
<1>2. where # "candidate_changed" /\ where # "final-capture" /\ where # None
  BY BlockerGiven DEF StageNames, ToSet, NoneIsNone
<1>3. BlockerFits(b)  BY <1>1, <1>2 DEF BlockerFits, Recorded
<1>4. Traced(stages)  BY RecordedTraced
<1>5. ResultValid(b)  BY <1>2, <1>3, <1>4, BlockedValid, BlockerGiven DEF Recorded, b
<1>6. \A i \in DOMAIN stages : ReceiptValid(stages[i])
  BY <1>4, TracedPlaces, TrueReceipt DEF HonestInv, Traced
<1>7. \A s \in ToSet(b.stages) : ReceiptValid(s)  BY <1>1, <1>6 DEF ToSet
<1>. QED  BY <1>5, <1>7 DEF b

(* A request that is refused is answered as such. *)
LEMMA AcceptAnswers ==
    ASSUME NoneIsNone, HonestInv, WorkflowInv, Accept, phase' = "done"
    PROVE  ResultValid(checked') /\ \A s \in ToSet(checked'.stages) : ReceiptValid(s)
<1>1. stages = <<>> /\ call \in Calls /\ phase = "request"  BY DEF Accept, WorkflowInv, Progress, Bound
<1>2. \/ checked' = Blocked(None, <<>>, "request", "invalid_quality_request")
      \/ checked' = Blocked(None, <<>>, "request", "unexpected_quality_baseline")
      \/ /\ RequestValid(request) /\ request.intent = "update"
         /\ checked' = Blocked(request, <<>>, "baseline", "quality_input_missing")
  BY <1>1 DEF Accept, Answer
<1>3. ASSUME NEW why \in {"invalid_quality_request", "unexpected_quality_baseline"},
             checked' = Blocked(None, <<>>, "request", why)
      PROVE  ResultValid(checked') /\ \A s \in ToSet(checked'.stages) : ReceiptValid(s)
  <2>1. checked'.stages = <<>>  BY <1>3, BlockedFields
  <2>2. ToSet(checked'.stages) = {}  BY <2>1 DEF ToSet
  <2>. QED  BY <1>3, <2>2, RefusedValid
<1>4. CASE /\ RequestValid(request) /\ request.intent = "update"
           /\ checked' = Blocked(request, <<>>, "baseline", "quality_input_missing")
  <2>1. /\ Expected(request)[1] = "baseline" /\ Len(Expected(request)) \in Nat
        /\ DOMAIN Expected(request) = 1..Len(Expected(request)) /\ \E i \in DOMAIN Expected(request) : TRUE
    BY <1>4, ExpectedOrder
  <2>2. Recorded /\ Len(stages) = 0
    <3>1. stages \in Seq(ToSet(stages)) /\ Len(stages) = 0 /\ DOMAIN stages = {}  BY <1>1, EmptySeq
    <3>. QED  BY <2>1, <3>1 DEF Recorded
  <2>3. Len(stages) < Len(Expected(request)) /\ Expected(request)[Len(stages) + 1] = "baseline"  BY <2>1, <2>2
  <2>. QED  BY <1>1, <1>4, <2>2, <2>3, MissingValid
<1>. QED  BY <1>2, <1>3, <1>4

LEMMA MissingReviewAnswers ==
    ASSUME NoneIsNone, HonestInv, WorkflowInv, MissingReview
    PROVE  ResultValid(checked') /\ \A s \in ToSet(checked'.stages) : ReceiptValid(s)
<1>1. AtStage("content-review") /\ checked' = Blocked(request, stages, "content-review", "quality_input_missing")
  BY DEF MissingReview, Answer
<1>2. /\ Bound /\ Recorded /\ phase \in {"stages", "review"}
      /\ Len(stages) < Len(Expected(request)) /\ Expected(request)[Len(stages) + 1] = "content-review"
  BY <1>1, AtStageNext
<1>3. RequestValid(request) /\ call \in Calls  BY <1>2 DEF Bound
<1>. QED  BY <1>1, <1>2, <1>3, MissingValid

(* The last answer: both directories as they are then. *)
LEMMA FinalAnswers ==
    ASSUME NoneIsNone, HonestInv, WorkflowInv, Final
    PROVE  ResultValid(checked') /\ \A s \in ToSet(checked'.stages) : ReceiptValid(s)
<1>. DEFINE current   == ValidationUnder(request.required, tree)
            baseline  == IF request.update_baseline = None THEN None ELSE Validation(base)
            unchanged == Captured(request, current, baseline)
            r         == [status |-> IF unchanged THEN "local_checks_passed" ELSE "blocked",
                          request |-> request, applied |-> request.required, stages |-> stages,
                          final |-> current, baseline_final |-> baseline,
                          blocked_stage |-> IF unchanged THEN None ELSE "final-capture",
                          blocker |-> IF unchanged THEN None ELSE "quality_final_capture_changed"]
<1>1. phase = "stages" /\ Len(stages) = Len(Expected(request)) /\ checked' = r
  BY DEF Final, Answer
<1>2. Recorded /\ call \in Calls /\ RequestValid(request)  BY <1>1 DEF WorkflowInv, Progress, Bound
<1>3. Traced(stages)  BY <1>2, RecordedTraced
<1>4. \A i \in DOMAIN stages :
          /\ Passed(stages[i]) /\ stages[i].receipt.candidate = Selected(request, stages[i].name)
          /\ StageTrue(stages[i])
  BY <1>2 DEF Recorded
<1>5. current # None /\ (baseline # None <=> request.update_baseline # None)
  <2>1. \A required, p : ValidationUnder(required, p) # None
    <3>1. \A required, p : LET v == ValidationUnder(required, p)
                           IN  v = [candidate |-> v.candidate, status |-> v.status, files |-> v.files,
                                    findings |-> v.findings]
      BY DEF ValidationUnder
    <3>. QED  BY <3>1 DEF NoneIsNone
  <2>. QED  BY <2>1 DEF Validation
<1>6. /\ r.request = request /\ r.applied = request.required /\ r.stages = stages
      /\ r.final = current /\ r.baseline_final = baseline
      /\ unchanged => r.status = "local_checks_passed" /\ r.blocked_stage = None /\ r.blocker = None
      /\ ~unchanged => /\ r.status = "blocked" /\ r.blocked_stage = "final-capture"
                       /\ r.blocker = "quality_final_capture_changed"
  OBVIOUS
<1>7. /\ current.candidate = CandidateOf(tree) /\ current.files = Content[tree].files
      /\ current.status = "pass" => Content[tree].valid
      /\ PolicyMatches(request.required, current)
  BY CaptureValid DEF PolicyMatches
<1>8. baseline # None =>
          /\ baseline = Validation(base) /\ baseline.candidate = CandidateOf(base)
          /\ baseline.files = Content[base].files /\ (baseline.status = "pass" => Content[base].valid)
  BY CaptureValid DEF Validation
<1>9. current = ValidationUnder(request.required, tree)  OBVIOUS
<1>10. tree \in Packages /\ base \in Baselines /\ Packages \subseteq DOMAIN Content /\ Baselines \subseteq DOMAIN Content
  BY Documents DEF WorkflowInv, Bound
<1>. HIDE DEF current, baseline, unchanged, r
<1>11. request # None  BY <1>2, QualityAssumption DEF request
<1>12. \A i \in DOMAIN r.stages : r.stages[i].name = Expected(r.request)[i] /\ StageBound(r, i)
  BY <1>2, <1>3, <1>4, <1>6, StagesBound
<1>13. AllPassed(r)  BY <1>1, <1>4, <1>6 DEF AllPassed
<1>14. r.applied = Applied(r.request, r.stages)
  <2>1. PICK i \in 1..Len(Expected(request)) : Expected(request)[i] = "intake"  BY ExpectedNames
  <2>3. i \in DOMAIN stages /\ stages[i].name = "intake"
    BY <1>1, <1>2, <1>3, <2>1, TracedPlaces DEF Recorded
  <2>4. \E x \in ToSet(stages) : x.name = "intake"  BY <2>3 DEF ToSet
  <2>. QED  BY <1>6, <2>4 DEF Applied
<1>15. CapturesPassed(r) <=> unchanged  BY <1>5, <1>6 DEF CapturesPassed, unchanged
<1>16. /\ request.intent # "update" => r.baseline_final = None
       /\ request.intent = "update" => r.baseline_final # None
  BY <1>2, <1>5, <1>6 DEF RequestValid
<1>17. "validate" \in DOMAIN Receipts(r) => Agree(Receipts(r)["validate"], r.final)
  <2>. SUFFICES ASSUME "validate" \in DOMAIN Receipts(r) PROVE Agree(Receipts(r)["validate"], r.final)
    OBVIOUS
  <2>1. PICK i \in DOMAIN stages : stages[i].name = "validate" /\ Receipts(r)["validate"] = stages[i].receipt
    BY <1>3, <1>6, ReceiptOfName
  <2>2. PICK p \in Packages : stages[i].receipt = ValidationUnder(request.required, p)
    BY <1>4, <2>1 DEF StageTrue
  <2>. DEFINE v == Receipts(r)["validate"]
  <2>3. /\ v.candidate = CandidateOf(p) /\ v.files = Content[p].files /\ (v.status = "pass" => Content[p].valid)
        /\ p = tree => v = current
    BY <1>9, <2>1, <2>2, CaptureValid
  <2>. HIDE DEF v
  <2>4. Agree(v, current)  BY <1>7, <1>10, <2>3, CapturesAgree
  <2>. QED  BY <1>6, <2>4 DEF v
<1>18. "baseline" \in DOMAIN Receipts(r) => Agree(Receipts(r)["baseline"], r.baseline_final)
  <2>. SUFFICES ASSUME "baseline" \in DOMAIN Receipts(r) PROVE Agree(Receipts(r)["baseline"], r.baseline_final)
    OBVIOUS
  <2>1. PICK i \in DOMAIN stages : stages[i].name = "baseline" /\ Receipts(r)["baseline"] = stages[i].receipt
    BY <1>3, <1>6, ReceiptOfName
  <2>2. PICK p \in Baselines : stages[i].receipt = Validation(p)  BY <1>4, <2>1 DEF StageTrue
  <2>. DEFINE v == Receipts(r)["baseline"]
  <2>3. /\ v.candidate = CandidateOf(p) /\ v.files = Content[p].files /\ (v.status = "pass" => Content[p].valid)
        /\ v = Validation(p)
    BY <2>1, <2>2, CaptureValid DEF Validation
  <2>. HIDE DEF v
  <2>4. Agree(v, None)  BY DEF Agree
  <2>5. baseline # None => Agree(v, baseline)  BY <1>8, <1>10, <2>3, CapturesAgree
  <2>. QED  BY <1>6, <2>4, <2>5 DEF v
<1>19. r.blocked_stage # "candidate_changed"  BY <1>6, BlockerGiven
<1>20. ~unchanged => BlockerFits(r)  BY <1>5, <1>6, <1>15 DEF BlockerFits
<1>21. ~unchanged => r.blocker # None /\ r.blocked_stage # None  BY <1>6, BlockerGiven
<1>22. Len(r.stages) <= Len(Expected(r.request))  BY <1>2, <1>6 DEF Recorded
<1>23. {"intake", "validate"} \subseteq DOMAIN Receipts(r) => Agree(Receipts(r)["intake"].validation, Receipts(r)["validate"])
  BY <1>3, <1>6, IntakeAgrees
<1>24. SameSource(r.final, r.request.candidate)
  <2>1. PICK i \in 1..Len(Expected(request)) : Expected(request)[i] = "intake"  BY ExpectedNames
  <2>2. i \in DOMAIN stages /\ stages[i].name = "intake"
    BY <1>1, <1>2, <1>3, <2>1, TracedPlaces DEF Recorded
  <2>3. PICK p \in Packages : stages[i].receipt = IntakeSkillPackage(p, request.intake, request.required)
    BY <1>4, <2>2 DEF StageTrue
  <2>4. stages[i].receipt.candidate = request.candidate  BY <1>4, <2>2 DEF Selected
  <2>5. IntakeSkillPackage(p, request.intake, request.required).candidate = CandidateOf(p)
    <3>. DEFINE v == BoundToSource(ValidationUnder(request.required, p), request.intake)
    <3>1. v.candidate = CandidateOf(p)  BY SourceBound
    <3>. HIDE DEF v
    <3>2. IntakeSkillPackage(p, request.intake, request.required).candidate = v.candidate  BY DEF IntakeSkillPackage, v
    <3>. QED  BY <3>1, <3>2
  <2>6. Content[CandidateOf(p)].name = Content[p].name /\ Content[CandidateOf(tree)].name = Content[tree].name
    BY <1>10, ContentAssumption
  <2>7. Content[p].name = Content[tree].name  BY <1>10, QualityAssumption
  <2>. QED  BY <1>6, <1>7, <2>3, <2>4, <2>5, <2>6, <2>7 DEF SameSource
<1>25. SameSource(r.baseline_final, r.request.update_baseline)
  <2>. SUFFICES ASSUME baseline # None
                PROVE  Content[baseline.candidate].name = Content[request.update_baseline].name
    BY <1>6 DEF SameSource
  <2>1. request.intent = "update"  BY <1>2, <1>5 DEF RequestValid
  <2>2. Expected(request)[1] = "baseline" /\ 1 \in DOMAIN Expected(request)
    <3>1. /\ Expected(request)[1] = "baseline" /\ Len(Expected(request)) \in Nat
          /\ DOMAIN Expected(request) = 1..Len(Expected(request)) /\ Expected(request) # <<>>
      BY <2>1, ExpectedOrder
    <3>2. \E i \in 1..Len(Expected(request)) : TRUE  BY ExpectedNames
    <3>. QED  BY <3>1, <3>2
  <2>3. 1 \in DOMAIN stages /\ stages[1].name = "baseline"
    <3>1. DOMAIN stages = DOMAIN Expected(request)  BY <1>1, <1>3, TracedPlaces, ExpectedOrder
    <3>. QED  BY <2>2, <3>1, <1>2 DEF Recorded
  <2>4. PICK p \in Baselines : stages[1].receipt = Validation(p)  BY <1>4, <2>3 DEF StageTrue
  <2>5. CandidateOf(p) = request.update_baseline
    <3>1. stages[1].receipt.candidate = request.update_baseline  BY <1>4, <2>3 DEF Selected
    <3>. QED  BY <2>4, <3>1, CaptureValid DEF Validation
  <2>6. Content[CandidateOf(p)].name = Content[p].name /\ Content[CandidateOf(base)].name = Content[base].name
    BY <1>10, ContentAssumption
  <2>7. Content[p].name = Content[base].name  BY <1>10, QualityAssumption
  <2>. QED  BY <1>8, <2>5, <2>6, <2>7
<1>26. ResultValid(r)
  <2>1. CASE unchanged
    BY <1>23, <1>24, <1>25, <1>6, <1>7, <1>11, <1>12, <1>13, <1>14, <1>15, <1>16, <1>17, <1>18, <1>19, <1>22, <2>1 DEF ResultValid
  <2>2. CASE ~unchanged
    BY <1>23, <1>24, <1>25, <1>6, <1>7, <1>11, <1>12, <1>13, <1>14, <1>16, <1>17, <1>18, <1>19, <1>20, <1>21, <1>22, <2>2 DEF ResultValid
  <2>. QED  BY <2>1, <2>2
<1>27. \A i \in DOMAIN stages : ReceiptValid(stages[i])
  BY <1>2, <1>3, <1>4, TracedPlaces, TrueReceipt DEF HonestInv
<1>28. \A s \in ToSet(checked'.stages) : ReceiptValid(s)  BY <1>1, <1>6, <1>27 DEF ToSet
<1>. QED  BY <1>1, <1>26, <1>28

(* Once given, an answer stays. *)
LEMMA AnswerKept ==
    ASSUME QualityAnswers, UNCHANGED <<call, phase, checked>>, phase = "done" => UNCHANGED tree PROVE QualityAnswers'
<1>1. request' = request  BY DEF request
<1>2. \A s : ReceiptValid(s)' = ReceiptValid(s)  BY <1>1 DEF ReceiptValid
<1>. QED  BY <1>2 DEF QualityAnswers

LEMMA AnswerGiven ==
    ASSUME call' = call,
           \/ phase' # "done" \/ checked' = Cancelled \/ (checked' = Raised /\ EvalsMalformed(tree'))
           \/ ResultValid(checked') /\ \A s \in ToSet(checked'.stages) : ReceiptValid(s)
    PROVE  QualityAnswers'
<1>1. request' = request  BY DEF request
<1>2. \A s : ReceiptValid(s)' = ReceiptValid(s)  BY <1>1 DEF ReceiptValid
<1>. QED  BY <1>2 DEF QualityAnswers

AnswersInv == WorkflowInv /\ HonestInv /\ QualityAnswers

(* Each step of the check, and each step elsewhere, leaves answers honest. *)
LEMMA OrchestrationAnswers ==
    ASSUME NoneIsNone, AnswersInv, Orchestration \/ CheckStage \/ StageRaises PROVE AnswersInv'
<1>1. UNCHANGED review /\ call' = call /\ UNCHANGED tree
  BY DEF Orchestration, CheckStage, StageRaises, Accept, CheckBaseline, MissingReview, ReviewSupplied, StartReview,
         ReviewReturns, Final, Record, world
<1>2. WorkflowInv' /\ HonestInv'  BY <1>1, OrchestrationStep, HonestSame DEF AnswersInv
<1>3. QualityAnswers'
  <2>. SUFFICES ASSUME phase' = "done", checked' # Cancelled, ~(checked' = Raised /\ EvalsMalformed(tree'))
                PROVE  ResultValid(checked') /\ \A s \in ToSet(checked'.stages) : ReceiptValid(s)
    BY <1>1, AnswerGiven
  <2>1. CASE Accept  BY <2>1, AcceptAnswers DEF AnswersInv
  <2>2. CASE MissingReview  BY <2>2, MissingReviewAnswers DEF AnswersInv
  <2>3. CASE Final  BY <2>3, FinalAnswers DEF AnswersInv
  <2>4. CASE StartReview  BY <2>4 DEF StartReview
  <2>5. CASE ReviewReturns /\ execution = Cancelled  BY <2>5 DEF ReviewReturns, Answer
  <2>6. CASE CheckBaseline \/ CheckStage \/ ReviewSupplied \/ (ReviewReturns /\ execution # Cancelled)
    BY <2>6, RecordedStage, RecordAnswers DEF AnswersInv
  <2>7. CASE StageRaises
    <3>1. tree \in DOMAIN Content  BY Documents DEF AnswersInv, WorkflowInv, Bound
    <3>2. EvalsMalformed(tree)  BY <2>7, <3>1, RaisesMalformed DEF StageRaises, ScenariosRaise
    <3>. QED  BY <1>1, <2>7, <3>2 DEF StageRaises, Answer
  <2>. QED  BY <2>1, <2>2, <2>3, <2>4, <2>5, <2>6, <2>7 DEF Orchestration
<1>. QED  BY <1>2, <1>3 DEF AnswersInv

LEMMA ElsewhereAnswers ==
    ASSUME NoneIsNone, AnswersInv, WorkflowNext, ~(Orchestration \/ CheckStage \/ StageRaises) PROVE AnswersInv'
<1>1. WorkflowInv'
  BY OrchestrationStep, ReviewingStep, EditsStep, StutterStep, WorkerSideStep DEF WorkflowNext, Finished, AnswersInv
<1>2. UNCHANGED <<call, phase, checked>>
  BY DEF WorkflowNext, Reviewing, Edits, EditBaseline, Finished, workflow
<1>3. HonestInv'
  <2>1. tree \in DOMAIN Content  BY Documents DEF AnswersInv, WorkflowInv, Bound
  <2>2. CASE Reviewing  BY <2>1, <2>2, HonestStep DEF AnswersInv, Reviewing
  <2>3. CASE WorkerStarts \/ Worker \/ WorkerEnds \/ Cancel \/ StartupPasses \/ ReviewPasses
    BY <2>1, <2>3, HonestStep DEF AnswersInv
  <2>4. CASE Edits
    <3>1. UNCHANGED review  BY <2>4 DEF Edits, EditBaseline, Edit, review
    <3>. QED  BY <3>1, HonestSame DEF AnswersInv
  <2>5. CASE Finished
    <3>1. UNCHANGED review  BY <2>5 DEF Finished, vars, review
    <3>. QED  BY <3>1, HonestSame DEF AnswersInv
  <2>. QED  BY <2>2, <2>3, <2>4, <2>5 DEF WorkflowNext
<1>4. phase = "done" => UNCHANGED tree
  BY DEF WorkflowNext, Reviewing, Edits, Finished, vars, world, AnswersInv, WorkflowInv, WorkerStarts, Worker,
         WorkerRefuses, WorkerInvokes, AdapterReturns, AdapterFails, WorkerEnds, Cancel, StartupPasses, ReviewPasses
<1>. QED  BY <1>1, <1>2, <1>3, <1>4, AnswerKept DEF AnswersInv

(* Every answer keeps its contract, and so does every receipt it retains:  *)
(* LocalCheckResultV2 refuses nothing that check_local_quality returns,    *)
(* and no answer is lost but to an evals.yaml with malformed groups or a   *)
(* pattern that re.compile gives up on.                                    *)
THEOREM AnswersAreHonest == ASSUME NoneIsNone PROVE WorkflowSpec => []AnswersHonest
<1>1. WorkflowInit => AnswersInv
  <2>1. WorkflowInit => QualityAnswers  BY DEF WorkflowInit, QualityAnswers
  <2>2. WorkflowInit => HonestInv  BY HonestInit DEF WorkflowInit
  <2>. QED  BY <2>1, <2>2, WorkflowInitInv DEF AnswersInv
<1>2. AnswersInv /\ [WorkflowNext]_<<vars, workflow>> => AnswersInv'
  <2>. SUFFICES ASSUME AnswersInv, UNCHANGED <<vars, workflow>> PROVE AnswersInv'
    BY OrchestrationAnswers, ElsewhereAnswers
  <2>1. UNCHANGED review /\ UNCHANGED <<call, phase, checked, tree>>  BY DEF vars, review, workflow, world
  <2>. QED  BY <2>1, StutterStep, HonestSame, AnswerKept DEF AnswersInv
<1>3. AnswersInv => AnswersHonest  BY GatesAreHonest DEF AnswersInv, AnswersHonest
<1>. QED  BY <1>1, <1>2, <1>3, PTL DEF WorkflowSpec

-----------------------------------------------------------------------------
(* A capture *)

Typed ==
    /\ listing \in [Directories -> Listings]
    /\ bytes \in [Files -> Bytes]
    /\ meta \in [Inodes -> Nat]
    /\ stage \in {"traverse", "confirm", "captured", "refused"}
    /\ moment.listing \in [Directories -> Listings]
    /\ moment.bytes \in [Files -> Bytes]
    /\ moment.meta \in [Inodes -> Nat]

Shape ==
    /\ DOMAIN entries \subseteq Seq(Names) /\ DOMAIN listed \subseteq DOMAIN entries
    /\ DOMAIN todo = DOMAIN listed
    /\ Top \in DOMAIN entries /\ entries[Top].inode = Root
    /\ \A p \in DOMAIN entries :
           entries[p].inode \in Directories \cup Files /\ entries[p].meta \in Nat
    /\ \A p \in DOMAIN listed :
           listed[p] \in Listings /\ todo[p] \subseteq Names /\ entries[p].inode \in Directories
    /\ \A p \in open : p \in DOMAIN entries /\ entries[p].inode \in Directories

(* An entry below the root was found in a listed directory. *)
Placed ==
    \A p \in DOMAIN entries \ {Top} :
        /\ entries[p].name \in Names /\ entries[p].up \in DOMAIN listed
        /\ p = Append(entries[p].up, entries[p].name)

Reading ==
    file.path # Top =>
        /\ file.entry.inode \in Files /\ file.entry.meta \in Nat
        /\ file.entry.name \in Names /\ file.entry.up \in DOMAIN listed
        /\ file.path = Append(file.entry.up, file.entry.name)
        /\ file.path \notin DOMAIN entries
        /\ file.entry.meta <= meta[file.entry.inode]
        /\ LET d == entries[file.entry.up]
           IN  meta[d.inode] = d.meta /\ ~Tied(d) => listing[d.inode][file.entry.name] = file.entry.inode
        /\ (file.read /\ meta[file.entry.inode] = file.entry.meta /\ ~Tied(file.entry)) => file.bytes = bytes[file.entry.inode]

(* What a name still to be visited, and one already visited, stand for. *)
Visits ==
    \A p \in DOMAIN listed : \A n \in Names :
        /\ n \in todo[p] => Append(p, n) \notin DOMAIN entries /\ (file.path # Top => file.path # Append(p, n))
        /\ listed[p][n] # Missing =>
               n \in todo[p] \/ Append(p, n) \in DOMAIN entries \/ (file.path # Top /\ file.path = Append(p, n))

Left ==
    \A p \in DOMAIN entries :
        entries[p].inode \in Directories => p \in open \/ (p \in DOMAIN listed /\ todo[p] = {})

(* As long as an entry has its metadata, it is what the traversal saw. *)
Agrees(l, b, m) ==
    \A p \in DOMAIN entries :
        /\ entries[p].meta <= m[entries[p].inode]
        /\ entries[p].inode \in Files =>
               p \in DOMAIN payloads /\ (m[entries[p].inode] = entries[p].meta /\ ~Tied(entries[p]) => b[entries[p].inode] = payloads[p])
        /\ (p \in DOMAIN listed /\ m[entries[p].inode] = entries[p].meta /\ ~Tied(entries[p])) => l[entries[p].inode] = listed[p]
        /\ p # Top =>
               LET d == entries[entries[p].up]
               IN  m[d.inode] = d.meta /\ ~Tied(d) => l[d.inode][entries[p].name] = entries[p].inode

Between ==
    stage \in {"confirm", "captured"} =>
        /\ open = {} /\ file.path = Top
        /\ \A i \in Inodes : moment.meta[i] <= meta[i]
        /\ Agrees(moment.listing, moment.bytes, moment.meta)
        /\ confirmed \subseteq DOMAIN entries
        /\ \A p \in confirmed : moment.meta[entries[p].inode] = entries[p].meta
        /\ stage = "captured" => confirmed = DOMAIN entries

NotYet == stage = "traverse" => confirmed = {}

CaptureInv ==
    /\ Typed /\ Shape /\ Placed /\ Reading /\ Visits /\ Left /\ Between /\ NotYet
    /\ Agrees(listing, bytes, meta)

-----------------------------------------------------------------------------
(* The path of a name in a directory is a path below the root. *)
LEMMA AppendNotTop == ASSUME NEW p \in Seq(Names), NEW n \in Names PROVE Append(p, n) # Top /\ Append(p, n) \in Seq(Names)
BY AppendProperties DEF Top

(* A path is below one directory, under one name. *)
LEMMA OneParent ==
    \A p, q \in Seq(Names) : \A n, m \in Names : Append(p, n) = Append(q, m) => p = q /\ n = m
BY AppendInjective

(* Init: the root is opened, of a disk at rest. *)
LEMMA InitInv == CaptureInit => CaptureInv
<1>. SUFFICES ASSUME CaptureInit PROVE CaptureInv
  OBVIOUS
<1>. USE CaptureAssumption DEF CaptureInit, NoFile
<1>1. Typed
  BY DEF Typed, Inodes
<1>2. DOMAIN entries = {Top} /\ entries[Top].inode = Root /\ entries[Top].meta = 0 /\ DOMAIN listed = {} /\ DOMAIN todo = {}
  BY DEF Entry, Inodes
<1>3. Shape
  BY <1>2, EmptySeq DEF Shape, Top, Inodes
<1>4. Placed /\ Reading /\ Visits /\ Left /\ Between /\ NotYet
  BY <1>2 DEF Placed, Reading, Visits, Left, Between, NotYet
<1>5. Agrees(listing, bytes, meta)
  BY <1>2 DEF Agrees, Inodes
<1>. QED  BY <1>1, <1>3, <1>4, <1>5 DEF CaptureInv

(* A refusal returns nothing, and changes nothing. *)
LEMMA RefuseInv == ASSUME CaptureInv, Refuse PROVE CaptureInv'
<1>. USE DEF Refuse, disk, traversal
<1>1. Typed' /\ Shape' /\ Placed' /\ Left'
  BY DEF CaptureInv, Typed, Shape, Placed, Left
<1>2. Reading' /\ Visits'
  BY DEF CaptureInv, Reading, Visits, Tied
<1>3. Between' /\ NotYet'
  BY DEF CaptureInv, Between, NotYet
<1>4. Agrees(listing, bytes, meta)'
  BY DEF CaptureInv, Agrees, Tied
<1>. QED  BY <1>1, <1>2, <1>3, <1>4 DEF CaptureInv

(* What an inode was seen to be is left behind by every change of it. *)
LEMMA WriterInv == ASSUME CaptureInv, Writer, stage \in {"traverse", "confirm"} PROVE CaptureInv'
<1>. USE CaptureAssumption DEF CaptureInv, traversal
<1>1. UNCHANGED <<stage, traversal, confirmed, moment>>
  BY DEF Writer, WriteFile, Rebind
<1>2. PICK i \in Inodes : /\ Shows(i) \/ Hides(i)
                          /\ (\A f \in Files : f # i => bytes'[f] = bytes[f])
                          /\ (\A d \in Directories : d # i => listing'[d] = listing[d])
  BY DEF Writer, WriteFile, Rebind, Changes, Typed, Inodes
<1>3. Typed'
  <2>1. listing' \in [Directories -> Listings]
    BY DEF Writer, WriteFile, Rebind, Typed, Listings
  <2>2. bytes' \in [Files -> Bytes]
    BY DEF Writer, WriteFile, Rebind, Typed
  <2>3. meta' \in [Inodes -> Nat]
    BY <1>2 DEF Typed, Shows, Hides
  <2>. QED  BY <1>1, <2>1, <2>2, <2>3 DEF Typed
<1>4. Shape' /\ Placed' /\ Visits' /\ Left' /\ NotYet'
  BY <1>1 DEF Shape, Placed, Visits, Left, NotYet
<1>5. /\ \A j \in Inodes : meta[j] \in Nat /\ meta'[j] \in Nat /\ meta[j] <= meta'[j]
      /\ \A j \in Inodes, k \in Nat :
             k <= meta[j] /\ meta'[j] = k /\ <<j, k>> \notin ties' => j # i /\ meta[j] = k /\ <<j, k>> \notin ties
  <2>1. CASE Shows(i)  BY <2>1 DEF Shows, Typed
  <2>2. CASE Hides(i)  BY <2>2 DEF Hides, Typed
  <2>. QED  BY <1>2, <2>1, <2>2
<1>6. Agrees(listing, bytes, meta)'
  <2>. SUFFICES ASSUME NEW p \in DOMAIN entries
                PROVE  /\ entries[p].meta <= meta'[entries[p].inode]
                       /\ entries[p].inode \in Files =>
                              p \in DOMAIN payloads
                              /\ (meta'[entries[p].inode] = entries[p].meta /\ ~Tied(entries[p])' => bytes'[entries[p].inode] = payloads[p])
                       /\ (p \in DOMAIN listed /\ meta'[entries[p].inode] = entries[p].meta /\ ~Tied(entries[p])') => listing'[entries[p].inode] = listed[p]
                       /\ p # Top =>
                              LET d == entries[entries[p].up]
                              IN  meta'[d.inode] = d.meta /\ <<d.inode, d.meta>> \notin ties' => listing'[d.inode][entries[p].name] = entries[p].inode
    BY <1>1 DEF Agrees, Tied
  <2>1. /\ entries[p].inode \in Inodes /\ entries[p].meta \in Nat
        /\ entries[p].meta <= meta[entries[p].inode]
    BY DEF Shape, Agrees, Inodes
  <2>2. entries[p].meta <= meta'[entries[p].inode] /\ (meta'[entries[p].inode] = entries[p].meta /\ ~Tied(entries[p])' => entries[p].inode # i /\ meta[entries[p].inode] = entries[p].meta /\ ~Tied(entries[p]))
    BY <2>1, <1>1, <1>5 DEF Tied
  <2>3. (p \in DOMAIN listed /\ meta'[entries[p].inode] = entries[p].meta /\ ~Tied(entries[p])') => listing'[entries[p].inode] = listed[p]
    BY <2>1, <2>2, <1>2, <1>5 DEF Agrees, Shape
  <2>4. ASSUME p # Top PROVE LET d == entries[entries[p].up]
                             IN  meta'[d.inode] = d.meta /\ <<d.inode, d.meta>> \notin ties' => listing'[d.inode][entries[p].name] = entries[p].inode
    <3>1. entries[p].up \in DOMAIN listed /\ entries[p].up \in DOMAIN entries
      BY <2>4 DEF Placed, Shape
    <3>. DEFINE d == entries[entries[p].up]
    <3>2. d.inode \in Directories /\ d.meta \in Nat /\ d.meta <= meta[d.inode]
      BY <3>1 DEF Shape, Agrees
    <3>3. meta'[d.inode] = d.meta /\ <<d.inode, d.meta>> \notin ties' => d.inode # i /\ meta[d.inode] = d.meta /\ ~Tied(d)
      BY <3>2, <1>5 DEF Inodes, Tied
    <3>. QED  BY <3>2, <3>3, <1>2, <2>4 DEF Agrees
  <2>. QED  BY <2>1, <2>2, <2>3, <2>4, <1>2, <1>5 DEF Agrees
<1>7. Reading'
  <2>. SUFFICES ASSUME file.path # Top PROVE Reading'
    BY <1>1 DEF Reading
  <2>1. /\ file.entry.inode \in Inodes /\ file.entry.meta \in Nat /\ file.entry.meta <= meta[file.entry.inode]
        /\ file.entry.up \in DOMAIN listed
    BY DEF Reading, Inodes
  <2>2. /\ file.entry.meta <= meta'[file.entry.inode]
        /\ meta'[file.entry.inode] = file.entry.meta /\ ~Tied(file.entry)' =>
               file.entry.inode # i /\ meta[file.entry.inode] = file.entry.meta /\ ~Tied(file.entry)
    BY <2>1, <1>1, <1>5 DEF Tied
  <2>. DEFINE d == entries[file.entry.up]
  <2>3. d.inode \in Directories /\ d.meta \in Nat /\ d.meta <= meta[d.inode]
    BY <2>1 DEF Shape, Agrees
  <2>4. meta'[d.inode] = d.meta /\ <<d.inode, d.meta>> \notin ties' => d.inode # i /\ meta[d.inode] = d.meta /\ ~Tied(d)
    BY <2>3, <1>5 DEF Inodes, Tied
  <2>5. meta'[d.inode] = d.meta /\ <<d.inode, d.meta>> \notin ties' => listing'[d.inode][file.entry.name] = file.entry.inode
    BY <2>3, <2>4, <1>2 DEF Reading
  <2>. QED  BY <2>1, <2>2, <2>5, <1>1, <1>2 DEF Reading, Tied
<1>8. Between'
  <2>1. CASE stage = "traverse"
    BY <1>1, <2>1 DEF Between
  <2>2. CASE stage = "confirm"
    <3>1. \A j \in Inodes : moment.meta[j] <= meta'[j]
      BY <1>5, <2>2 DEF Between, Typed
    <3>2. Agrees(moment.listing, moment.bytes, moment.meta)
      BY <2>2 DEF Between
    <3>3. \A p \in DOMAIN entries : ~Tied(entries[p])' => ~Tied(entries[p])
      BY <1>1, <1>2 DEF Shows, Hides, Tied
    <3>4. Agrees(moment.listing, moment.bytes, moment.meta)'
      <4>. SUFFICES ASSUME NEW p \in DOMAIN entries
                    PROVE  /\ entries[p].meta <= moment.meta[entries[p].inode]
                           /\ entries[p].inode \in Files =>
                                  p \in DOMAIN payloads
                                  /\ (moment.meta[entries[p].inode] = entries[p].meta /\ ~Tied(entries[p])'
                                          => moment.bytes[entries[p].inode] = payloads[p])
                           /\ (p \in DOMAIN listed /\ moment.meta[entries[p].inode] = entries[p].meta /\ ~Tied(entries[p])')
                                  => moment.listing[entries[p].inode] = listed[p]
                           /\ p # Top =>
                                  LET d == entries[entries[p].up]
                                  IN  moment.meta[d.inode] = d.meta /\ <<d.inode, d.meta>> \notin ties'
                                          => moment.listing[d.inode][entries[p].name] = entries[p].inode
        BY <1>1 DEF Agrees, Tied
      <4>1. p # Top => entries[p].up \in DOMAIN entries
        BY DEF Placed, Shape
      <4>2. p # Top => LET d == entries[entries[p].up] IN <<d.inode, d.meta>> \notin ties' => ~Tied(d)
        BY <4>1, <1>1, <3>3 DEF Tied
      <4>. QED  BY <3>2, <3>3, <4>2 DEF Agrees
    <3>. QED  BY <1>1, <2>2, <3>1, <3>4 DEF Between
  <2>. QED  BY <2>1, <2>2
<1>. QED  BY <1>3, <1>4, <1>6, <1>7, <1>8

-----------------------------------------------------------------------------
(* The steps of the traversal *)

(* A listing is the one the directory's metadata stand for. *)
LEMMA ListInv == ASSUME CaptureInv, ListDirectory PROVE CaptureInv'
<1>. USE CaptureAssumption DEF CaptureInv
<1>. DEFINE l == listing[entries[at].inode]
<1>1. /\ InDirectory /\ at \notin DOMAIN listed /\ at \in DOMAIN entries /\ entries[at].inode \in Directories
      /\ listed' = Extend(listed, at, l) /\ todo' = Extend(todo, at, Present(l))
      /\ UNCHANGED <<disk, stage, entries, payloads, open, at, file, confirmed, moment>>
  BY DEF ListDirectory, InDirectory, Shape
<1>2. /\ DOMAIN listed' = DOMAIN listed \cup {at} /\ listed'[at] = l
      /\ DOMAIN todo' = DOMAIN listed \cup {at} /\ todo'[at] = Present(l)
      /\ \A p \in DOMAIN listed : listed'[p] = listed[p] /\ todo'[p] = todo[p] /\ p # at
  BY <1>1 DEF Extend, Shape
<1>3. l \in Listings
  BY <1>1 DEF Typed
<1>4. Typed' /\ NotYet'
  BY <1>1 DEF Typed, NotYet, disk
<1>5. Shape'
  BY <1>1, <1>2, <1>3 DEF Shape, Present
<1>6. Placed' /\ Left'
  BY <1>1, <1>2 DEF Placed, Left, InDirectory
<1>7. Reading'
  BY <1>1, <1>2 DEF Reading, InDirectory, disk
<1>8. Visits'
  <2>1. \A n \in Names : Append(at, n) \notin DOMAIN entries
    <3>. SUFFICES ASSUME NEW n \in Names, Append(at, n) \in DOMAIN entries PROVE FALSE
      OBVIOUS
    <3>1. at \in Seq(Names) /\ Append(at, n) # Top
      BY <1>1, AppendNotTop DEF Shape
    <3>. DEFINE q == Append(at, n)
    <3>2. entries[q].name \in Names /\ entries[q].up \in DOMAIN listed /\ q = Append(entries[q].up, entries[q].name)
      BY <3>1 DEF Placed
    <3>3. entries[q].up \in Seq(Names)
      BY <3>2 DEF Shape
    <3>. QED  BY <3>1, <3>2, <3>3, OneParent, <1>1
  <2>. QED  BY <1>1, <1>2, <2>1 DEF Visits, Present, InDirectory
<1>9. Between'
  BY <1>1 DEF Between, InDirectory
<1>10. Agrees(listing, bytes, meta)'
  BY <1>1, <1>2 DEF Agrees, Tied, disk
<1>. QED  BY <1>4, <1>5, <1>6, <1>7, <1>8, <1>9, <1>10

(* A directory is entered under the name it was found at. *)
LEMMA Below == ASSUME CaptureInv, NEW n \in Names, Visiting(n)
               PROVE  /\ at \in DOMAIN entries /\ entries[at].inode \in Directories /\ at \in Seq(Names)
                      /\ Append(at, n) # Top /\ Append(at, n) \in Seq(Names)
                      /\ Append(at, n) \notin DOMAIN entries /\ file.path = Top
BY AppendNotTop DEF Visiting, InDirectory, CaptureInv, Shape, Visits

LEMMA EnterInv == ASSUME CaptureInv, EnterDirectory PROVE CaptureInv'
<1>. USE CaptureAssumption DEF CaptureInv
<1>1. PICK n \in Names :
        /\ Visiting(n) /\ Found(n) \in Directories /\ Visited(n)
        /\ entries' = Extend(entries, Append(at, n), Entry(Found(n), at, n))
        /\ open' = open \cup {Append(at, n)} /\ at' = Append(at, n)
        /\ UNCHANGED <<disk, stage, listed, payloads, file, confirmed, moment>>
  BY DEF EnterDirectory
<1>. DEFINE q == Append(at, n)
<1>2. /\ at \in DOMAIN entries /\ entries[at].inode \in Directories /\ at \in Seq(Names)
      /\ q # Top /\ q \in Seq(Names) /\ q \notin DOMAIN entries /\ file.path = Top
  BY <1>1, Below
<1>3. /\ DOMAIN entries' = DOMAIN entries \cup {q}
      /\ \A p \in DOMAIN entries : entries'[p] = entries[p] /\ p # q
      /\ entries'[q].inode = Found(n) /\ entries'[q].meta = meta[Found(n)]
      /\ entries'[q].up = at /\ entries'[q].name = n
  BY <1>1, <1>2 DEF Extend, Entry
<1>4. /\ DOMAIN todo' = DOMAIN todo /\ at \in DOMAIN listed /\ n \in todo[at] /\ todo'[at] = todo[at] \ {n}
      /\ \A p \in DOMAIN todo : p # at => todo'[p] = todo[p]
  BY <1>1 DEF Visited, Visiting, Shape
<1>5. Typed' /\ NotYet' /\ Between'
  BY <1>1 DEF Typed, NotYet, Between, disk, Visiting, InDirectory
<1>6. meta[Found(n)] \in Nat /\ Found(n) \in Inodes
  BY <1>1 DEF Typed, Inodes
<1>7. Shape'
  BY <1>1, <1>2, <1>3, <1>4, <1>6 DEF Shape, Visiting, InDirectory
<1>8. Placed'
  BY <1>1, <1>2, <1>3, <1>4 DEF Placed
<1>9. Reading'
  BY <1>1, <1>2 DEF Reading
<1>10. Visits'
  <2>1. \A p \in DOMAIN listed, m \in Names : Append(p, m) = q => p = at /\ m = n
    BY <1>2, OneParent DEF Shape
  <2>2. ASSUME NEW p \in DOMAIN listed, NEW m \in Names
        PROVE  /\ m \in todo'[p] => Append(p, m) \notin DOMAIN entries'
               /\ listed[p][m] # Missing => m \in todo'[p] \/ Append(p, m) \in DOMAIN entries'
    <3>1. CASE p = at
      BY <3>1, <2>1, <1>2, <1>3, <1>4 DEF Visits
    <3>2. CASE p # at
      <4>1. todo'[p] = todo[p]
        BY <3>2, <1>4 DEF Shape
      <4>. QED  BY <3>2, <4>1, <2>1, <1>2, <1>3 DEF Visits
    <3>. QED  BY <3>1, <3>2
  <2>. QED  BY <1>1, <1>2, <2>2 DEF Visits
<1>11. Left'
  BY <1>1, <1>2, <1>3, <1>4 DEF Left, Visiting, InDirectory, Shape
<1>12. Agrees(listing, bytes, meta)'
  <2>. SUFFICES ASSUME NEW p \in DOMAIN entries'
                PROVE  /\ entries'[p].meta <= meta[entries'[p].inode]
                       /\ entries'[p].inode \in Files =>
                              p \in DOMAIN payloads
                              /\ (meta[entries'[p].inode] = entries'[p].meta /\ ~Tied(entries'[p]) => bytes[entries'[p].inode] = payloads[p])
                       /\ (p \in DOMAIN listed /\ meta[entries'[p].inode] = entries'[p].meta /\ ~Tied(entries'[p])) => listing[entries'[p].inode] = listed[p]
                       /\ p # Top =>
                              LET d == entries'[entries'[p].up]
                              IN  meta[d.inode] = d.meta /\ ~Tied(d) => listing[d.inode][entries'[p].name] = entries'[p].inode
    BY <1>1 DEF Agrees, Tied, disk
  <2>1. CASE p = q
    BY <2>1, <1>1, <1>2, <1>3, <1>6 DEF Found, Shape
  <2>2. CASE p \in DOMAIN entries
    <3>1. entries'[p] = entries[p]
      BY <2>2, <1>3
    <3>2. p # Top => entries'[entries[p].up] = entries[entries[p].up]
      BY <2>2, <1>3 DEF Placed, Shape
    <3>. QED  BY <2>2, <3>1, <3>2 DEF Agrees
  <2>. QED  BY <2>1, <2>2, <1>3
<1>. QED  BY <1>5, <1>7, <1>8, <1>9, <1>10, <1>11, <1>12

LEMMA OpenInv == ASSUME CaptureInv, OpenFile PROVE CaptureInv'
<1>. USE CaptureAssumption DEF CaptureInv
<1>1. PICK n \in Names :
        /\ Visiting(n) /\ Found(n) \in Files /\ Visited(n)
        /\ file' = [path |-> Append(at, n), entry |-> Entry(Found(n), at, n), read |-> FALSE, bytes |-> Missing]
        /\ UNCHANGED <<disk, stage, entries, listed, payloads, open, at, confirmed, moment>>
  BY DEF OpenFile
<1>. DEFINE q == Append(at, n)
<1>2. /\ at \in DOMAIN entries /\ entries[at].inode \in Directories /\ at \in Seq(Names)
      /\ q # Top /\ q \in Seq(Names) /\ q \notin DOMAIN entries /\ file.path = Top
  BY <1>1, Below
<1>3. /\ file'.path = q /\ file'.entry.inode = Found(n) /\ file'.entry.meta = meta[Found(n)]
      /\ file'.entry.up = at /\ file'.entry.name = n /\ file'.read = FALSE
  BY <1>1 DEF Entry
<1>4. /\ DOMAIN todo' = DOMAIN todo /\ at \in DOMAIN listed /\ n \in todo[at] /\ todo'[at] = todo[at] \ {n}
      /\ \A p \in DOMAIN todo : p # at => todo'[p] = todo[p]
  BY <1>1 DEF Visited, Visiting, Shape
<1>5. Typed' /\ NotYet' /\ Between'
  BY <1>1 DEF Typed, NotYet, Between, disk, Visiting, InDirectory
<1>6. meta[Found(n)] \in Nat /\ Found(n) \in Inodes
  BY <1>1 DEF Typed, Inodes
<1>7. Shape' /\ Placed'
  BY <1>1, <1>4 DEF Shape, Placed
<1>8. Reading'
  <2>1. /\ file'.entry.inode \in Files /\ file'.entry.meta \in Nat /\ file'.entry.meta <= meta[file'.entry.inode]
        /\ file'.entry.name \in Names /\ file'.entry.up \in DOMAIN listed
        /\ file'.path = Append(file'.entry.up, file'.entry.name) /\ file'.path \notin DOMAIN entries
    BY <1>1, <1>2, <1>3, <1>4, <1>6
  <2>2. listing[entries[file'.entry.up].inode][file'.entry.name] = file'.entry.inode
    BY <1>3 DEF Found
  <2>3. UNCHANGED <<listing, bytes, meta, entries, listed>>
    BY <1>1 DEF disk
  <2>. QED  BY <1>3, <2>1, <2>2, <2>3 DEF Reading
<1>9. Visits'
  <2>1. \A p \in DOMAIN listed, m \in Names : Append(p, m) = q => p = at /\ m = n
    BY <1>2, OneParent DEF Shape
  <2>2. file'.path # Top
    BY <1>1, <1>2, <1>3
  <2>. QED  BY <1>1, <1>2, <1>3, <1>4, <2>1, <2>2 DEF Visits, Shape
<1>10. Left'
  BY <1>1, <1>2, <1>4 DEF Left, Visiting, InDirectory, Shape
<1>11. Agrees(listing, bytes, meta)'
  BY <1>1 DEF Agrees, Tied, disk
<1>. QED  BY <1>5, <1>7, <1>8, <1>9, <1>10, <1>11

LEMMA ReadInv == ASSUME CaptureInv, ReadFile PROVE CaptureInv'
<1>. USE CaptureAssumption DEF CaptureInv, ReadFile, disk
<1>1. Typed' /\ Shape' /\ Placed' /\ Left' /\ NotYet' /\ Between'
  BY DEF Typed, Shape, Placed, Left, NotYet, Between
<1>2. Reading' /\ Visits'
  BY DEF Reading, Visits, Tied
<1>3. Agrees(listing, bytes, meta)'
  BY DEF Agrees, Tied
<1>. QED  BY <1>1, <1>2, <1>3

LEMMA CloseInv == ASSUME CaptureInv, CloseFile PROVE CaptureInv'
<1>. USE CaptureAssumption DEF CaptureInv
<1>1. CASE Refuse
  BY <1>1, RefuseInv
<1>2. CASE /\ stage = "traverse" /\ file.path # Top /\ file.read
           /\ file.entry.meta = meta[file.entry.inode]
           /\ entries' = Extend(entries, file.path, file.entry)
           /\ payloads' = Extend(payloads, file.path, file.bytes)
           /\ file' = NoFile
           /\ UNCHANGED <<disk, stage, listed, todo, open, at, confirmed, moment>>
  <2>. DEFINE q == file.path
              e == file.entry
  <2>. USE <1>2
  <2>1. /\ e.inode \in Files /\ e.inode \in Inodes /\ e.meta \in Nat /\ e.meta = meta[e.inode] /\ e.name \in Names
        /\ e.up \in DOMAIN listed /\ e.up \in DOMAIN entries /\ e.up \in Seq(Names)
        /\ q = Append(e.up, e.name) /\ q \notin DOMAIN entries /\ (~Tied(e) => file.bytes = bytes[e.inode]) /\ e.inode \notin Directories
    BY DEF Reading, Shape, Inodes
  <2>2. q # Top /\ q \in Seq(Names) /\ file'.path = Top
    BY <2>1, AppendNotTop DEF NoFile
  <2>3. /\ DOMAIN entries' = DOMAIN entries \cup {q} /\ entries'[q] = e
        /\ \A p \in DOMAIN entries : entries'[p] = entries[p] /\ p # q
        /\ DOMAIN payloads' = DOMAIN payloads \cup {q} /\ (~Tied(e) => payloads'[q] = bytes[e.inode])
        /\ \A p \in DOMAIN payloads : p # q => payloads'[p] = payloads[p]
    BY <2>1 DEF Extend
  <2>4. Typed' /\ NotYet' /\ Between'
    BY DEF Typed, NotYet, Between, disk
  <2>5. Shape'
    <3>1. \A p \in DOMAIN entries' : entries'[p].inode \in Directories \cup Files /\ entries'[p].meta \in Nat
      BY <2>1, <2>3 DEF Shape
    <3>2. \A p \in DOMAIN listed : p \in DOMAIN entries /\ entries'[p] = entries[p]
      BY <2>3 DEF Shape
    <3>3. \A p \in open : p \in DOMAIN entries' /\ entries'[p].inode \in Directories
      BY <2>3 DEF Shape
    <3>4. entries'[Top].inode = Root
      BY <2>2, <2>3 DEF Shape
    <3>. QED  BY <2>2, <2>3, <3>1, <3>2, <3>3, <3>4 DEF Shape
  <2>6. Placed' /\ Reading'
    <3>1. ASSUME NEW p \in DOMAIN entries \cup {q}, p # Top
          PROVE  /\ entries'[p].name \in Names /\ entries'[p].up \in DOMAIN listed
                 /\ p = Append(entries'[p].up, entries'[p].name)
      <4>1. CASE p = q
        BY <4>1, <2>1, <2>3
      <4>2. CASE p # q
        <5>1. p \in DOMAIN entries /\ entries'[p] = entries[p]
          BY <3>1, <4>2, <2>3
        <5>. QED  BY <5>1, <3>1 DEF Placed
      <4>. QED  BY <4>1, <4>2
    <3>2. Placed'
      BY <3>1, <2>3 DEF Placed
    <3>. QED  BY <3>2, <2>2 DEF Reading
  <2>7. Visits'
    BY <2>1, <2>2, <2>3 DEF Visits
  <2>8. Left'
    BY <2>1, <2>3 DEF Left
  <2>9. Agrees(listing, bytes, meta)'
    <3>. SUFFICES ASSUME NEW p \in DOMAIN entries'
                  PROVE  /\ entries'[p].meta <= meta[entries'[p].inode]
                         /\ entries'[p].inode \in Files =>
                                p \in DOMAIN payloads'
                                /\ (meta[entries'[p].inode] = entries'[p].meta /\ ~Tied(entries'[p]) => bytes[entries'[p].inode] = payloads'[p])
                         /\ (p \in DOMAIN listed /\ meta[entries'[p].inode] = entries'[p].meta /\ ~Tied(entries'[p])) => listing[entries'[p].inode] = listed[p]
                         /\ p # Top =>
                                LET d == entries'[entries'[p].up]
                                IN  meta[d.inode] = d.meta /\ ~Tied(d) => listing[d.inode][entries'[p].name] = entries'[p].inode
      BY DEF Agrees, Tied, disk
    <3>1. CASE p = q
      <4>1. entries'[entries'[p].up] = entries[e.up] /\ p \notin DOMAIN listed /\ entries'[p] = e
        BY <3>1, <2>1, <2>3 DEF Shape
      <4>2. meta[entries[e.up].inode] = entries[e.up].meta /\ ~Tied(entries[e.up]) => listing[entries[e.up].inode][e.name] = e.inode
        BY DEF Reading
      <4>. QED  BY <3>1, <4>1, <4>2, <2>1, <2>3
    <3>2. CASE p \in DOMAIN entries
      <4>1. entries'[p] = entries[p] /\ p # q
        BY <3>2, <2>3
      <4>2. p # Top => entries'[entries[p].up] = entries[entries[p].up]
        BY <3>2, <2>3 DEF Placed, Shape
      <4>. QED  BY <3>2, <4>1, <4>2, <2>3 DEF Agrees
    <3>. QED  BY <3>1, <3>2, <2>3
  <2>. QED  BY <2>4, <2>5, <2>6, <2>7, <2>8, <2>9
<1>. QED  BY <1>1, <1>2 DEF CloseFile

(* The visit of the root ends a traversal: no directory is open, and no    *)
(* name is left to visit.                                                  *)
LEMMA LeaveInv == ASSUME CaptureInv, LeaveDirectory PROVE CaptureInv'
<1>. USE CaptureAssumption DEF CaptureInv
<1>1. CASE Refuse
  BY <1>1, RefuseInv
<1>2. CASE entries[at].meta = meta[entries[at].inode]
  <2>1. /\ stage = "traverse" /\ file.path = Top /\ at \in open /\ at \in DOMAIN listed /\ todo[at] = {}
        /\ open' = open \ {at} /\ at' = entries[at].up
        /\ UNCHANGED <<listing, bytes, meta, ties, entries, listed, payloads, todo, file, confirmed>>
    BY <1>2 DEF LeaveDirectory, InDirectory, disk
  <2>2. /\ UNCHANGED <<stage, moment>>
        \/ /\ open' = {} /\ stage' = "confirm"
           /\ moment' = [listing |-> listing, bytes |-> bytes, meta |-> meta]
    BY <1>2 DEF LeaveDirectory
  <2>3. Typed' /\ NotYet'
    BY <2>1, <2>2 DEF Typed, NotYet
  <2>5. Shape' /\ Placed' /\ Reading' /\ Visits' /\ Left'
    BY <2>1 DEF Shape, Placed, Reading, Visits, Left
  <2>6. Agrees(listing, bytes, meta)'
    BY <2>1 DEF Agrees, Tied
  <2>7. Between'
    <3>1. CASE UNCHANGED <<stage, moment>>
      BY <2>1, <3>1 DEF Between, Typed
    <3>2. CASE /\ open' = {} /\ stage' = "confirm"
               /\ moment' = [listing |-> listing, bytes |-> bytes, meta |-> meta]
      <4>1. moment'.listing = listing' /\ moment'.bytes = bytes' /\ moment'.meta = meta'
        BY <2>1, <3>2
      <4>2. Agrees(moment.listing, moment.bytes, moment.meta)'
        BY <2>6, <4>1 DEF Agrees
      <4>3. \A i \in Inodes : moment'.meta[i] <= meta'[i]
        BY <4>1, <2>1 DEF Typed
      <4>4. confirmed' = {}
        BY <2>1 DEF NotYet
      <4>. QED  BY <2>1, <3>2, <4>2, <4>3, <4>4 DEF Between
    <3>. QED  BY <2>2, <3>1, <3>2
  <2>. QED  BY <2>3, <2>5, <2>6, <2>7
<1>. QED  BY <1>1, <1>2 DEF LeaveDirectory

-----------------------------------------------------------------------------
(* The second pass *)

(* Metadata that are what they were when an entry was opened were that at  *)
(* every moment since.                                                     *)
LEMMA RecheckInv == ASSUME CaptureInv, Confirm \/ Deliver PROVE CaptureInv'
<1>. USE CaptureAssumption DEF CaptureInv, Confirm, Deliver, disk, traversal
<1>1. Typed' /\ Shape' /\ Placed' /\ Left' /\ NotYet'
  BY DEF Typed, Shape, Placed, Left, NotYet
<1>2. Reading' /\ Visits'
  BY DEF Reading, Visits, Tied
<1>3. Agrees(listing, bytes, meta)'
  BY DEF Agrees, Tied
<1>4. Agrees(moment.listing, moment.bytes, moment.meta)'
  BY DEF Between, Agrees, Tied
<1>5. \A p \in confirmed' : p \in DOMAIN entries /\ moment.meta[entries[p].inode] = entries[p].meta
  <2>1. CASE Deliver
    BY <2>1 DEF Between
  <2>2. CASE Confirm
    <3>1. PICK p \in DOMAIN entries : meta[entries[p].inode] = entries[p].meta /\ confirmed' = confirmed \cup {p}
      BY <2>2
    <3>2. /\ entries[p].inode \in Inodes
          /\ entries[p].meta <= moment.meta[entries[p].inode] /\ moment.meta[entries[p].inode] <= meta[entries[p].inode]
      BY <2>2 DEF Shape, Inodes, Between, Agrees
    <3>3. moment.meta[entries[p].inode] = entries[p].meta
      BY <3>1, <3>2 DEF Typed, Shape
    <3>. QED  BY <2>2, <3>1, <3>3 DEF Between
  <2>. QED  BY <2>1, <2>2
<1>6. Between'
  BY <1>4, <1>5 DEF Between
<1>. QED  BY <1>1, <1>2, <1>3, <1>6

(* CaptureInv holds throughout. *)
THEOREM Inductive == CaptureSpec => []CaptureInv
<1>1. CaptureInit => CaptureInv
  BY InitInv
<1>2. CaptureInv /\ [CaptureNext]_captureVars => CaptureInv'
  <2>. SUFFICES ASSUME CaptureInv, [CaptureNext]_captureVars PROVE CaptureInv'
    OBVIOUS
  <2>1. CASE Traversal
    BY <2>1, ListInv, EnterInv, OpenInv, ReadInv, CloseInv, RefuseInv, LeaveInv DEF Traversal, RefuseEntry
  <2>2. CASE Recheck
    BY <2>2, RecheckInv, RefuseInv DEF Recheck, Drift
  <2>3. CASE stage \in {"traverse", "confirm"} /\ Writer
    BY <2>3, WriterInv
  <2>4. CASE UNCHANGED captureVars
    <3>. USE <2>4 DEF captureVars, disk, traversal, CaptureInv
    <3>1. Typed' /\ Shape' /\ Placed' /\ Left' /\ NotYet'
      BY DEF Typed, Shape, Placed, Left, NotYet
    <3>2. Reading' /\ Visits'
      BY DEF Reading, Visits, Tied
    <3>3. Agrees(listing, bytes, meta)' /\ Between'
      BY DEF Between, Agrees, Tied
    <3>. QED  BY <3>1, <3>2, <3>3
  <2>. QED  BY <2>1, <2>2, <2>3, <2>4 DEF CaptureNext, Settled
<1>. QED  BY <1>1, <1>2, PTL DEF CaptureSpec

(* What a capture returns is the disk as it stood at the moment between    *)
(* its two passes, whatever was written while it ran, but for the entries  *)
(* that were changed under the metadata they were captured with.           *)
THEOREM Snapshot == CaptureSpec => []CaptureIsSnapshot
<1>1. CaptureInv => CaptureIsSnapshot
  <2>. SUFFICES ASSUME CaptureInv, stage = "captured", NEW p \in DOMAIN entries, ~Tied(entries[p])
                PROVE  IF entries[p].inode \in Files
                       THEN p \in DOMAIN payloads /\ payloads[p] = moment.bytes[entries[p].inode]
                       ELSE \A n \in Names :
                                LET inode == moment.listing[entries[p].inode][n]
                                IN  IF inode = Missing THEN Append(p, n) \notin DOMAIN entries
                                    ELSE Append(p, n) \in DOMAIN entries /\ entries[Append(p, n)].inode = inode
    BY DEF CaptureIsSnapshot, CaptureInv, Shape
  <2>. USE CaptureAssumption DEF CaptureInv
  <2>1. /\ \A q \in DOMAIN entries : moment.meta[entries[q].inode] = entries[q].meta
        /\ Agrees(moment.listing, moment.bytes, moment.meta) /\ open = {} /\ file.path = Top
    BY DEF Between
  <2>2. CASE entries[p].inode \in Files
    BY <2>1, <2>2 DEF Agrees
  <2>3. CASE entries[p].inode \notin Files
    <3>. SUFFICES ASSUME NEW n \in Names
                  PROVE  LET inode == moment.listing[entries[p].inode][n]
                         IN  IF inode = Missing THEN Append(p, n) \notin DOMAIN entries
                             ELSE Append(p, n) \in DOMAIN entries /\ entries[Append(p, n)].inode = inode
      BY <2>3
    <3>. DEFINE q == Append(p, n)
    <3>1. p \in DOMAIN listed /\ todo[p] = {} /\ p \in Seq(Names)
      BY <2>1, <2>3 DEF Shape, Left
    <3>2. moment.listing[entries[p].inode] = listed[p]
      BY <2>1, <3>1 DEF Agrees
    <3>3. q # Top
      BY <3>1, AppendNotTop
    <3>4. listed[p][n] # Missing => q \in DOMAIN entries
      BY <3>1, <2>1, <3>3 DEF Visits
    <3>5. ASSUME q \in DOMAIN entries PROVE entries[q].inode = listed[p][n] /\ entries[q].inode # Missing
      <4>1. entries[q].name \in Names /\ entries[q].up \in DOMAIN listed /\ q = Append(entries[q].up, entries[q].name)
        BY <3>5, <3>3 DEF Placed
      <4>2. entries[q].up = p /\ entries[q].name = n
        BY <4>1, <3>1, OneParent DEF Shape
      <4>3. moment.listing[entries[p].inode][n] = entries[q].inode
        BY <4>2, <3>5, <3>3, <2>1 DEF Agrees
      <4>4. entries[q].inode \in Inodes
        BY <3>5 DEF Shape, Inodes
      <4>. QED  BY <4>3, <4>4, <3>2
    <3>. QED  BY <3>2, <3>4, <3>5
  <2>. QED  BY <2>2, <2>3
<1>. QED  BY <1>1, Inductive, PTL
=============================================================================
