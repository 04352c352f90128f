------------------------------ MODULE MCReviews ------------------------------
(* Two machines for TLC, one chosen at the start: quality checks of one    *)
(* skill, and the capture of a tree; and many defective packages for the   *)
(* gates.                                                                  *)
EXTENDS QualityWorkflow, PluginCapture

VARIABLE machine

Skill     == "SKILL.md"
Reference == "references/a.md"

-----------------------------------------------------------------------------
(* Documents, as they should be and with one defect each. *)

GoodCase(n) ==
    [id |-> n, defects |-> Clean, release |-> TRUE,
     category   |-> CASE n = 1 -> "pressure" [] n = 2 -> "edge" [] OTHER -> "happy",
     acceptance |-> {[type |-> "text_field_equals", field |-> "answer", verdict |-> "sound"]},
     required   |-> {"answer"}]
Release(n) == [id |-> "release", budget |-> "10/10/10", groups |-> None, cases |-> [i \in 1..n |-> i]]
GoodEvals ==
    [defects |-> Clean, cases |-> [n \in 1..11 |-> GoodCase(n)], sets |-> <<Release(10)>>]

Grouped(sound, ids) == [GoodEvals EXCEPT !.sets[1].groups = [sound |-> sound, ids |-> ids]]
Ungrouped(ids)      == [Grouped(TRUE, ids) EXCEPT !.sets[1].cases = <<>>]

Saying == [type |-> "contains", field |-> None, verdict |-> "sound"]
Third(c)  == [GoodEvals EXCEPT !.cases[3] = c]
BadEvals  ==
    <<None, Unreadable, [GoodEvals EXCEPT !.defects = {"unsupported_field"}], [GoodEvals EXCEPT !.cases = <<>>],
      Third([GoodCase(3) EXCEPT !.id = 4]), Third([GoodCase(3) EXCEPT !.acceptance = {}]),
      Third([GoodCase(3) EXCEPT !.acceptance = {Saying}]),
      Third([GoodCase(3) EXCEPT !.acceptance = @ \cup {[Saying EXCEPT !.type = "vibes"]}]),
      Third([GoodCase(3) EXCEPT !.acceptance = @ \cup {[Saying EXCEPT !.verdict = "unsound"]}]),
      Third([GoodCase(3) EXCEPT !.acceptance = @ \cup {[Saying EXCEPT !.verdict = "raises"]}]),
      Third([GoodCase(3) EXCEPT !.required = {"answer", "reason"}]), Third([GoodCase(3) EXCEPT !.release = FALSE]),
      Third([GoodCase(3) EXCEPT !.defects = {"missing_scenario_id"}]),
      [GoodEvals EXCEPT !.cases[1].category = "happy"], [GoodEvals EXCEPT !.cases[2].category = "happy"],
      [GoodEvals EXCEPT !.sets = <<>>],
      [GoodEvals EXCEPT !.sets = <<>>, !.defects = {"invalid_scenario_set"}], [GoodEvals EXCEPT !.sets = <<Release(10), Release(10)>>],
      [GoodEvals EXCEPT !.sets = <<[Release(10) EXCEPT !.budget = "5/8/10"]>>],
      [GoodEvals EXCEPT !.sets[1].cases[3] = 12], [GoodEvals EXCEPT !.sets[1].cases[3] = 4],
      [GoodEvals EXCEPT !.sets = <<Release(9)>>], [GoodEvals EXCEPT !.sets = <<Release(11)>>],
      Grouped(TRUE, [i \in 1..10 |-> 12 - i]), Ungrouped([i \in 1..10 |-> i]), Ungrouped([i \in 1..9 |-> i]),
      Grouped(FALSE, <<>>), Grouped(FALSE, <<12>>), Grouped(FALSE, <<None>>),
      [GoodEvals EXCEPT !.sets[1].cases[3] = None]>>

Probe(p) ==
    [id |-> p, probe |-> p, score |-> None,
     label     |-> CASE p = "obvious_correct" -> "pass" [] p = Contest -> None [] OTHER -> "fail",
     direction |-> IF p = Contest THEN "short_correct_wins" ELSE None]
GoodScorer ==
    [defects |-> Clean, id |-> "rubric", version |-> 1, type |-> "deterministic", threshold |-> 2,
     checks_first |-> TRUE, parameters |-> None, audited |-> FALSE, samples |-> 0,
     cases |-> <<Probe("obvious_correct"), Probe("obvious_wrong"), Probe(Contest), Probe("rubric_copying_rejected"),
                 Probe("skill_name_mention_not_enough"), Probe("evidence_lane_overclaim_rejected")>>]

Judge == [GoodScorer EXCEPT !.type = "llm_judge", !.parameters = "p", !.audited = TRUE, !.samples = 1]
BadScorers ==
    <<None, [GoodScorer EXCEPT !.defects = {"unsupported_field"}], [GoodScorer EXCEPT !.id = None],
      [GoodScorer EXCEPT !.version = None], [GoodScorer EXCEPT !.type = "oracle"], [GoodScorer EXCEPT !.threshold = 0],
      [GoodScorer EXCEPT !.threshold = 1], [GoodScorer EXCEPT !.checks_first = FALSE], Judge,
      [Judge EXCEPT !.parameters = "other"], [Judge EXCEPT !.parameters = None], [Judge EXCEPT !.audited = FALSE],
      [Judge EXCEPT !.samples = 0], [GoodScorer EXCEPT !.cases = <<>>], [GoodScorer EXCEPT !.cases[2].label = "pass"],
      [GoodScorer EXCEPT !.cases[2].score = 2], [GoodScorer EXCEPT !.cases[2].id = "obvious_correct"],
      [GoodScorer EXCEPT !.cases[2] = [Probe("obvious_correct") EXCEPT !.id = "again"]],
      [GoodScorer EXCEPT !.cases[3].score = 3, !.cases[3].label = "fail"]>>

Row(id, expected, score) ==
    [id |-> id, path |-> id, expected |-> expected, predicted |-> Label(score, 2), score |-> score,
     raw |-> [id |-> id, predicted |-> Label(score, 2), score |-> score, scorer_id |-> "rubric"]]
GoodBundle ==
    [defects |-> Clean, id |-> "rubric", version |-> 1, prompt |-> 1, threshold |-> 2, split |-> "held_out",
     parameters |-> "p", limits |-> [f \in LimitFields |-> Minimum(f)],
     rows |-> <<Row("one", "pass", 3), Row("two", "fail", 1)>>]

Third3(row) == [GoodBundle EXCEPT !.rows = Append(@, row)]
BadBundles ==
    <<None, [GoodBundle EXCEPT !.split = "train"], [GoodBundle EXCEPT !.id = "other"], [GoodBundle EXCEPT !.threshold = 1],
      [GoodBundle EXCEPT !.threshold = None], [GoodBundle EXCEPT !.parameters = None],
      Third3(Row("one", "pass", 3)), Third3([Row("three", "pass", 3) EXCEPT !.path = "one"]),
      Third3(Row("three", "fail", 3)), [Third3(Row("three", "fail", 3)) EXCEPT !.limits.max_false_positives = 1],
      Third3(Row("three", "pass", 1)), [GoodBundle EXCEPT !.limits.minimum_examples = 3],
      [GoodBundle EXCEPT !.limits.minimum_examples = 0], [GoodBundle EXCEPT !.rows = <<Row("one", "pass", 3)>>],
      [GoodBundle EXCEPT !.rows = <<>>], [GoodBundle EXCEPT !.rows[1].predicted = "fail"],
      [GoodBundle EXCEPT !.rows[1].raw = None], [GoodBundle EXCEPT !.rows[1].raw.score = 2],
      [GoodBundle EXCEPT !.rows[2].score = 4], [GoodBundle EXCEPT !.rows[2].expected = "maybe"]>>

-----------------------------------------------------------------------------
(* Packages *)

Package(valid, large, digest, evals, scorer, bundle) ==
    [candidate |-> None, name |-> "skill", valid |-> valid, large |-> large,
     files |-> [f \in {Skill, Reference} |-> IF f = Reference THEN 1 ELSE digest],
     evals |-> evals, scorer |-> scorer, bundle |-> bundle]

Good   == <<"good", 0>>
Edited == <<"edited", 0>>
Heavy  == <<"heavy", 0>>
Broken == <<"broken", 0>>
Linked == <<"linked", 0>>     \* Good and a symbolic link
Old    == <<"old", 0>>
MCPackages  == {Good, Edited, Heavy, Broken, Linked}
MCBaselines == {Old, Broken}
Variants    ==
    {<<"evals", i>> : i \in DOMAIN BadEvals} \cup {<<"scorer", i>> : i \in DOMAIN BadScorers}
    \cup {<<"bundle", i>> : i \in DOMAIN BadBundles}

MCContent ==
    LET Healthy(large, digest) == Package(TRUE, large, digest, GoodEvals, GoodScorer, GoodBundle)
        Named(candidate, package) == [package EXCEPT !.candidate = candidate]
    IN  [p \in MCPackages \cup MCBaselines \cup Variants |-> Named(IF p = Linked THEN Good ELSE p,
            CASE p = Good          -> Healthy(FALSE, 1)
              [] p = Edited        -> Package(TRUE, FALSE, 2, Grouped(FALSE, <<None>>), GoodScorer, GoodBundle)
              [] p = Heavy         -> Healthy(TRUE, 3)
              [] p = Linked        -> [Healthy(FALSE, 1) EXCEPT !.valid = FALSE]
              [] p = Broken        -> Package(FALSE, FALSE, 1, None, None, None)
              [] p = Old           -> Package(TRUE, FALSE, 0, None, None, None)
              [] p[1] = "evals"    -> Package(TRUE, FALSE, 1, BadEvals[p[2]], GoodScorer, GoodBundle)
              [] p[1] = "scorer"   -> Package(TRUE, FALSE, 1, GoodEvals, BadScorers[p[2]], GoodBundle)
              [] p[1] = "bundle"   -> Package(TRUE, FALSE, 1, GoodEvals, GoodScorer, BadBundles[p[2]]))]

-----------------------------------------------------------------------------
(* Reviews, plans and calls *)

Item(dimension, path, status) ==
    [dimension |-> dimension, path |-> path, status |-> status,
     owner |-> IF status = "gap" THEN "owner" ELSE None,
     evidence_ids |-> IF status = "gap" THEN {} ELSE {path}]
Assessment(package, items) ==
    LET cited == UNION {i.evidence_ids : i \in items}
    IN  [candidate |-> package, reviewer |-> "reviewer", items |-> items,
         evidence |-> {[id |-> p, ref |-> p, sha256 |-> MCContent[package].files[p]] : p \in cited}]
Items(status) ==
    {Item("description", Skill, "clear"), Item("progressive_disclosure", Skill, "clear"),
     Item("reference", Reference, status)}
Complete(package) == Assessment(package, Items("clear"))
Partial  == Assessment(Good, {i \in Items("clear") : i.path = Skill})
Gap      == Assessment(Good, Items("gap"))
Stale    == [Complete(Good) EXCEPT !.candidate = Edited]
Forged   == [Complete(Edited) EXCEPT !.candidate = Good]
Unproved == [Complete(Good) EXCEPT !.evidence = {}]
MCAssessments == {Complete(Good), Partial, Stale}

Mapping(claim, cases, gaps) == [claim |-> claim, cases |-> cases, gaps |-> gaps]
Plan(package, last_claim, gaps) ==
    [candidate |-> package, scenario_set_id |-> "release", claims |-> <<"first", "second">>,
     mappings |-> <<Mapping("first", <<1, 2>>, <<>>), last_claim>>, gaps |-> gaps]
Sound2 == Mapping("second", <<3>>, <<>>)
Plans(package) ==
    {Plan(package, Sound2, <<>>), Plan(package, Mapping("second", <<>>, <<"gap">>), <<"gap">>),
     Plan(package, Mapping("second", <<11>>, <<>>), <<>>), Plan(package, Mapping("second", <<>>, <<>>), <<>>),
     Plan(package, Mapping("third", <<3>>, <<>>), <<>>), Plan(package, Mapping("first", <<3>>, <<>>), <<>>),
     [Plan(package, Sound2, <<>>) EXCEPT !.mappings = <<Sound2>>], Plan(package, Sound2, <<"gap">>),
     Plan(Edited, Sound2, <<>>)}

Request(intent, mode) ==
    [intent |-> intent, candidate |-> Good, required |-> {Skill}, mode |-> mode,
     plan |-> Plan(Good, Sound2, <<>>), update_baseline |-> IF intent = "update" THEN Old ELSE None,
     intake |-> [saved |-> IF intent = "external-check" THEN Good ELSE None, checks |-> Checks,
                 owner |-> "owner", path |-> "skills/skill", current |-> TRUE]]
Call(r, baseline, supplied, host) ==
    [request |-> r, baseline_root |-> baseline, assessment |-> supplied, adapter |-> host]

Create(mode) == Request("create", mode)
Reviewed1(r) == Call(r, FALSE, Complete(Good), FALSE)
MCCalls ==
    {Call(Create("observed"), FALSE, None, TRUE), Call(Request("update", "observed"), TRUE, None, TRUE)}
    \cup {Call(Create("supplied"), FALSE, a, FALSE) : a \in MCAssessments \cup {None, Gap, Forged, Unproved}}
    \cup {Call(Create("supplied"), FALSE, Complete(Good), TRUE), Call(Create("observed"), FALSE, None, FALSE),
          Call(Create("supplied"), TRUE, None, FALSE), Call(Request("update", "supplied"), FALSE, None, FALSE)}
    \cup {Reviewed1(r) : r \in
             {Request("external-check", "supplied"), [Create("supplied") EXCEPT !.required = {"LICENSE"}],
              [Create("supplied") EXCEPT !.intake.checks = {"identity"}],
              [Create("supplied") EXCEPT !.intake.current = FALSE],
              [Create("supplied") EXCEPT !.intake.checks = Checks \ {"owner_unchanged"}]}
             \cup {[Create("supplied") EXCEPT !.plan = p] : p \in Plans(Good)}}

-----------------------------------------------------------------------------
(* The gates alone: a package that changes, or not, between two reads.     *)

MCSubjects ==
    {[first |-> p, later |-> l, plan |-> Plan(p, Sound2, <<>>)] : p \in Variants, l \in {Good}}
    \cup UNION {{[first |-> p, later |-> p, plan |-> q] : q \in Plans(p)} : p \in Variants \cup {Good, Broken}}

(* A directory of a file and a directory, and in it a file.                *)
MCDirectories == {"root", "sub"}
MCFiles       == {"f", "g"}
MCListing ==
    [d \in MCDirectories |->
        [n \in Names |-> CASE d = "root" -> IF n = "a" THEN "f" ELSE "sub" [] OTHER -> IF n = "a" THEN "g" ELSE Missing]]

-----------------------------------------------------------------------------
machines == <<machine, vars, workflow, captureVars>>

MCInit ==
    /\ machine \in {"quality", "capture"}
    /\ machine # "quality" => call = Reviewed1(Create("supplied")) /\ tree = Good /\ base = Old
    /\ WorkflowInit
    /\ request.intent # "update" => base = Old
    /\ listing = MCListing /\ bytes = [f \in MCFiles |-> 1] /\ CaptureInit

MCNext ==
    \/ machine = "quality" /\ WorkflowNext /\ UNCHANGED <<machine, captureVars>>
    \/ machine = "capture" /\ CaptureNext /\ UNCHANGED <<machine, vars, workflow>>

MCSpec == MCInit /\ [][MCNext]_machines /\ WorkflowFairness
=============================================================================
