------------------------------- MODULE MCSupplied -------------------------------
(* Values for SuppliedCase and Evaluation: four contents of a package, what *)
(* a host may hand over with a definition of theirs (a good request, and    *)
(* the same with one thing wrong), and small sets of cases to be scored.    *)
EXTENDS SelectedCase, SuppliedCase, TLC

File(indicators, script, reference) == [indicators |-> indicators, script |-> script, reference |-> reference]
Fetches == {[code |-> "untrusted_external_content_acquisition", category |-> "external_service"],
            [code |-> "external_write_capability", category |-> "external_service"]}

Plain == ("SKILL.md" :> File({}, FALSE, FALSE)) @@ ("guide.md" :> File({}, FALSE, TRUE))
Busy  == ("SKILL.md" :> File({}, FALSE, FALSE)) @@ ("guide.md" :> File(Fetches, FALSE, TRUE))
Tool  == ("SKILL.md" :> File({}, FALSE, FALSE)) @@ ("run.sh" :> File({}, TRUE, FALSE))

Asserted(type, value)      == [type |-> type, value |-> value, requirements |-> <<>>]
Required(requirements)     == [type |-> "semantic_requirements", value |-> "", requirements |-> requirements]
Requirement(id, all, any)  == [id |-> id, all |-> all, any |-> any]
EvalCase(id, prompt, acceptance) ==
    [id |-> id, modes |-> {"smoke"}, category |-> "edge", prompt |-> prompt, acceptance |-> acceptance,
     forbidden |-> {"rm"}, structured |-> FALSE]

GreetCase(prompt) ==
    EvalCase("greet", prompt, <<Asserted("expected_signal", "greets"), Asserted("contains", "done"),
                                Asserted("must_not", "sorry")>>)
RulesCase ==
    EvalCase("rules", "state the rules",
             <<Required(<<Requirement("a", <<"one">>, <<>>), Requirement("b", <<>>, <<"two", "three">>)>>)>>)

Evals(prompt) == [sound |-> TRUE, name |-> "skill", cases |-> <<GreetCase(prompt), RulesCase>>]

Package(name, valid, files, evals) == [name |-> name, valid |-> valid, files |-> files, evals |-> evals]
Broken   == Package("skill", FALSE, Plain, Evals("greet"))
PackageContents ==
    {Package("skill", TRUE, Busy, Evals("greet")), Package("skill", TRUE, Plain, Evals("greet")),
     Package("skill", TRUE, Tool, Evals("greet us")), Broken}

PrivateTexts  == {"secret"}
UnusableTexts == {"", " padded "}
Good    == {"hello", "done"}
Wild    == {"hello", "done", "rm"}
Outputs == {Good, {"hello", "done", "sorry"}, Wild}

-----------------------------------------------------------------------------
Built(c)      == [id |-> "receipt", candidate |-> c, digest |-> c, status |-> "built", finished |-> 1]
Outcome(status) == [status |-> status, ids |-> {"capability-checklist"}]
Reviewed      == [check \in SafetyChecks |-> Outcome("reviewed_no_issue")]

Review(c, screening, checklist) ==
    [candidate |-> c, input |-> "receipt", digest |-> c, method |-> "combined", status |-> "reviewed_no_issue", observed |-> 1,
     evidence |-> ("static-screening" :> screening) @@ ("capability-checklist" :> checklist),
     findings |-> {}, blockers |-> <<>>, blocker |-> None]
Assured(c, screening, checklist) ==
    [package |-> Built(c), safety |-> Review(c, screening, checklist), screening |-> screening, checklist |-> checklist]
Safe(c) == Assured(c, Screening(c), Reviewed)

(* A review of what the screening named before the tool was added, which   *)
(* leaves the network aside.                                               *)
Unscreened(c) == [Screening(c) EXCEPT !.findings = {}, !.status = "pass"]
Unaware(c) == Assured(c, Unscreened(c), [Reviewed EXCEPT !["network_and_external_writes"] = Outcome("not_applicable")])

Payload(d)            == [prompt |-> d.case.prompt, documents |-> None, candidate |-> d.candidate, plain |-> TRUE]
WithDocuments(d, documents) == [Payload(d) EXCEPT !.documents = documents]
Request(d, payload, safety) ==
    [candidate |-> d.candidate, set |-> d.set, case |-> d.case.id, provider |-> "provider", input |-> payload,
     safety |-> safety, status |-> "prepared", blocker |-> None]
Evidence(d) ==
    [candidate |-> d.candidate, set |-> d.set, case |-> d.case.id, provider |-> "provider", output |-> Good,
     contract |-> d.semantic, satisfied |-> SetToSeq(Signals(d.semantic)), cited |-> TRUE,
     judge |-> "judge", refs |-> {"judged"}]
Ask(d, payload, safety) ==
    [request |-> Request(d, payload, safety.safety), payload |-> payload, safety |-> safety, adapter |-> TRUE,
     evidence |-> Evidence(d)]

Sound(d)      == Ask(d, Payload(d), Safe(d.candidate))
Reviewing(d) == Ask(d, Payload(d), Unaware(d.candidate))

SafetyVariants(d) ==
    LET good == Safe(d.candidate)
        reviewed(review) == Ask(d, Payload(d), [good EXCEPT !.safety = review])
        review == good.safety
    IN  {[Sound(d) EXCEPT !.safety = None], Reviewing(d), reviewed([review EXCEPT !.observed = 0]),
         reviewed([review EXCEPT !.observed = 3]), reviewed([review EXCEPT !.method = "metadata"]),
         reviewed([review EXCEPT !.status = "not_reviewed"]), reviewed([review EXCEPT !.candidate = Broken]),
         Ask(d, Payload(d), [good EXCEPT !.checklist["tools_and_privileges"] = Outcome("blocked")])}

RequestVariants(d) ==
    {[Sound(d) EXCEPT !.adapter = FALSE], [Sound(d) EXCEPT !.payload.plain = FALSE, !.request.input.plain = FALSE],
     [Sound(d) EXCEPT !.payload.prompt = "else"], [Sound(d) EXCEPT !.request.candidate = Broken],
     [Sound(d) EXCEPT !.request.provider = "secret"],
     [Sound(d) EXCEPT !.request.status = "blocked", !.request.blocker = "denied"],
     Ask(d, WithDocuments(d, <<"SKILL.md", "guide.md">>), Safe(d.candidate)),
     [Ask(d, WithDocuments(d, <<"SKILL.md">>), Safe(d.candidate)) EXCEPT !.request.status = "blocked", !.request.blocker = "denied"],
     Ask(d, WithDocuments(d, <<"SKILL.md", "run.sh">>), Safe(d.candidate)),
     Ask(d, WithDocuments(d, <<>>), Safe(d.candidate))}

EvidenceVariants(d) ==
    LET e == Evidence(d)
    IN  {[Sound(d) EXCEPT !.evidence = x] :
            x \in {None, [e EXCEPT !.refs = {}], [e EXCEPT !.case = "other"], [e EXCEPT !.cited = FALSE],
                   [e EXCEPT !.output = Wild], [e EXCEPT !.satisfied = Tail(@)], [e EXCEPT !.satisfied = <<<<9>>>>]}}

HostHands(d) == {Sound(d)} \cup SafetyVariants(d) \cup RequestVariants(d) \cup EvidenceVariants(d)

-----------------------------------------------------------------------------
(* Sets of one or two cases, observations of them, scorers and probes.     *)
Case(id, oracle, expected) ==
    [id |-> id, category |-> "regression", signals |-> {"s"}, forbidden |-> {"rm"}, oracle |-> oracle, expected |-> expected]
Sets ==
    {[candidate |-> "c", id |-> "set", release |-> TRUE, cases |-> cases] :
        cases \in {<<Case("x", "expected_signal", None)>>, <<Case("x", "structured", None)>>,
                   <<Case("x", "exact_match", "out")>>, <<Case("x", "exact_match", None)>>,
                   <<Case("x", "expected_signal", None), Case("y", "expected_signal", None)>>}}

Observing(case, status, signals, commands) ==
    [candidate |-> "c", set |-> "set", case |-> case, provider |-> "p", status |-> status, signals |-> signals,
     commands |-> commands, output |-> IF status = "completed" THEN "out" ELSE None, runner |-> "r",
     blocker |-> IF status = "completed" THEN None ELSE "failed"]
Observations ==
    {Observing(case, "completed", signals, commands) : case \in {"x", "y"}, signals \in {{}, {"s", "t"}}, commands \in {{}, {"rm"}}}
      \cup {Observing("x", "blocked", {}, {}), [Observing("x", "completed", {"s"}, {}) EXCEPT !.candidate = "d"],
            [Observing("y", "completed", {"s"}, {}) EXCEPT !.provider = "q"],
            [Observing("x", "completed", {"s"}, {}) EXCEPT !.output = "else"],
            Observing("z", "completed", {"s"}, {})}

Scorer(type, threshold, calibrated) ==
    [candidate |-> "c", type |-> type, threshold |-> threshold, first |-> TRUE, calibrated |-> calibrated, probes |-> <<"q1", "q2">>]
ScorerProfiles ==
    {Scorer("deterministic", <<1, 1>>, b) : b \in BOOLEAN}
      \cup {Scorer("llm_judge", <<1, 1>>, TRUE), [Scorer("deterministic", <<1, 1>>, FALSE) EXCEPT !.candidate = "d"]}
Probes == {<<>>, <<"q2", "q1">>, <<"q1", "q1">>, <<"q1">>, <<"q3">>, <<"blank">>}

Given(set, observations, scorer, probes) ==
    [set |-> set, observations |-> observations, scorer |-> scorer, probes |-> probes]

Strict == Scorer("deterministic", <<1, 1>>, FALSE)
Half   == Scorer("deterministic", <<1, 2>>, FALSE)
Simple == <<Case("x", "expected_signal", None)>>

(* Every set with every observations, and every scorer with every probes.  *)
MCSubmissions ==
    {s \in {Given(set, o, scorer, <<>>) :
               set \in Sets, scorer \in {Strict, Half}, o \in UNION {[1..n -> Observations] : n \in 0..2}}
         \cup {Given(set, <<Observing("x", "completed", {"s"}, {})>>, scorer, probes) :
                   set \in {x \in Sets : x.cases = Simple}, scorer \in ScorerProfiles, probes \in Probes} :
        Acceptable(s.set, s.observations, s.scorer)}
=============================================================================
