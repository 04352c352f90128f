----------------------------- MODULE SuppliedCase -----------------------------
(***************************************************************************)
(* One selected case with judge evidence supplied beforehand:              *)
(* load_selected_case and execute_selected_case of                         *)
(* evaluation/selected_case.py, and the skill context of                   *)
(* evaluation/skill_context.py.                                            *)
(*                                                                         *)
(* The package directory is read again and again: to validate it, to take  *)
(* the bytes of its evals document, to collect documents for the provider, *)
(* to screen it.  An action is what happens up to the next read or await;  *)
(* another process may replace the content between any two.                *)
(***************************************************************************)
EXTENDS SafetyEvidence

CONSTANTS
    Cases, Modes,       \* ids and modes a host may ask for
    Private,            \* texts that are credential-shaped or name a host path
    Unusable,           \* texts that are blank, padded or beyond a limit
    Texts,              \* outputs: each is the set of phrases it contains
    Contents,           \* what the package directory may hold
    Handed(_),          \* of a definition: what a host may hand over with it, a
                        \* set of [request, payload, safety, adapter, evidence]
    MaxReplacements, MaxTicks   \* bounds: replacements of the content, ticks

VARIABLES
    step, purpose,        \* the next step, and for whom the package is read
    wanted,             \* [case, mode] of the definition that is loaded
    tree,               \* content of the package directory
    seen,               \* content that was validated last
    definition,         \* the definition in hand
    ask,                \* what the host handed over
    screened,           \* history: content and time of the safety assessment
    output,             \* what the provider answered
    answer,             \* the receipt, unless a ContractError was raised
    replacements, now

suppliedVars == <<step, purpose, wanted, tree, seen, definition, ask, screened, output, answer, replacements, now>>

UsableText(text) == text \notin Unusable
Public(text) == text \notin Private

-----------------------------------------------------------------------------
(* The definition of a case *)

SemanticTypes      == {"discovery_question", "expected_signal", "semantic_requirements"}
DeterministicTypes == {"contains", "must_not", "not_contains"}

RequirementSound(r) ==
    /\ UsableText(r.id) /\ Public(r.id)
    /\ r.all \o r.any # <<>> /\ \A t \in ToSet(r.all \o r.any) : UsableText(t)

(* _assertion_signal: what an acceptance assertion has to be. *)
AssertionSound(a) ==
    \/ /\ a.type = "semantic_requirements"
       /\ a.requirements # <<>> /\ \A r \in ToSet(a.requirements) : RequirementSound(r)
       /\ IsInjective([i \in DOMAIN a.requirements |-> a.requirements[i].id])
    \/ a.type \in (SemanticTypes \cup DeterministicTypes) \ {"semantic_requirements"} /\ UsableText(a.value)

SemanticOf(a, i) ==
    CASE a.type = "semantic_requirements" ->
            {[id |-> <<i, r.id>>, type |-> a.type, all |-> r.all, any |-> r.any] : r \in ToSet(a.requirements)}
      [] a.type \in SemanticTypes \ {"semantic_requirements"} ->
            {[id |-> <<i>>, type |-> a.type, all |-> <<a.value>>, any |-> <<>>]}
      [] OTHER -> {}
DeterministicOf(a, i) ==
    IF a.type \in DeterministicTypes THEN {[id |-> <<i>>, type |-> a.type, value |-> a.value]} ELSE {}

(* Each has its place in its id. *)
Semantic(case)      == UNION {SemanticOf(case.acceptance[i], i) : i \in DOMAIN case.acceptance}
Deterministic(case) == UNION {DeterministicOf(case.acceptance[i], i) : i \in DOMAIN case.acceptance}
Signals(assertions) == {a.id : a \in assertions}

EvalsSound(c) == c.evals # None /\ c.evals.sound /\ c.evals.name = c.name

Matching(c, id) == {i \in DOMAIN c.evals.cases : c.evals.cases[i].id = id}
CaseOf(c, id)   == c.evals.cases[CHOOSE i \in Matching(c, id) : TRUE]

Selectable(c, w) ==
    /\ Cardinality(Matching(c, w.case)) = 1
    /\ CaseOf(c, w.case).modes \subseteq {"smoke", "release"} /\ w.mode \in CaseOf(c, w.case).modes

Category(text) == IF text \in {"edge", "negative"} THEN "boundary" ELSE text

CaseSound(case) ==
    /\ ~case.structured
    /\ case.acceptance # <<>> /\ \A a \in ToSet(case.acceptance) : AssertionSound(a)
    /\ \A f \in case.forbidden : UsableText(f) /\ Public(f)
    /\ UsableText(case.prompt)
    /\ Category(case.category) \in {"happy", "pressure", "boundary", "regression"}
    /\ UsableText(case.id) /\ Public(case.id)

Loads(c, w) == /\ w.mode \in {"smoke", "release"}
               /\ Public(c.name)
               /\ EvalsSound(c) /\ Selectable(c, w)
               /\ CaseSound(CaseOf(c, w.case))

(* SelectedCaseDefinition *)
Definition(c, w) ==
    LET case == CaseOf(c, w.case)
    IN  [candidate |-> c, set |-> <<c.name, w.case, w.mode>>,
         case |-> [id |-> w.case, category |-> Category(case.category), prompt |-> case.prompt,
                   signals |-> Signals(Semantic(case)) \cup Signals(Deterministic(case)),
                   forbidden |-> case.forbidden, oracle |-> "expected_signal", expected |-> None],
         semantic |-> Semantic(case), deterministic |-> Deterministic(case)]

ScenarioSetOf(d) == [candidate |-> d.candidate, id |-> d.set, release |-> FALSE, cases |-> <<d.case>>]
ScorerOf(d) ==
    [candidate |-> d.candidate, type |-> "deterministic", threshold |-> <<1, 1>>, first |-> TRUE,
     calibrated |-> FALSE, probes |-> <<>>]

-----------------------------------------------------------------------------
(* Observations of the case *)

Observation(d, status, provider, runner) ==
    [candidate |-> d.candidate, set |-> d.set, case |-> d.case.id, provider |-> provider, status |-> status,
     signals |-> {}, commands |-> {}, output |-> None, runner |-> runner, blocker |-> None]

BlockedObservation(d, request, code, runner) ==
    [Observation(d, "blocked", request.provider, runner)
        EXCEPT !.blocker = IF Public(code) THEN code ELSE "private_provider_blocker_code"]

DeterministicSignals(text, assertions) ==
    Signals({a \in assertions : (a.value \in text) = (a.type = "contains")})
ObservedCommands(text, commands) == commands \cap text

(* The evidence names the case, the provider and the assertions ... *)
EvidenceNames(d, request, e) ==
    /\ e.candidate = d.candidate /\ e.set = d.set /\ e.case = d.case.id
    /\ e.provider = request.provider /\ e.contract = d.semantic

(* ... and the output; what it finds satisfied are assertions of the case. *)
EvidenceRefusal(d, request, e, text) ==
    When(~EvidenceNames(d, request, e) \/ e.output # text, "selected_case_identity_mismatch")
    \o When(~(ToSet(e.satisfied) \subseteq Signals(d.semantic)), "missing_semantic_evidence")
    \o When(~e.cited, "judge_result_ref_required")

ValidatedObservation(d, request, e, text) ==
    LET refusal == EvidenceRefusal(d, request, e, text)
    IN  IF refusal # <<>> THEN BlockedObservation(d, request, FirstOf(refusal), e.judge)
        ELSE [Observation(d, "completed", request.provider, e.judge)
                EXCEPT !.signals = ToSet(e.satisfied) \cup DeterministicSignals(text, d.deterministic),
                       !.commands = ObservedCommands(text, d.case.forbidden), !.output = text]

(* SelectedCaseJudgeEvidence *)
JudgeEvidenceValid(e) ==
    /\ e.refs # {} /\ IsInjective(e.satisfied)
    /\ \A r \in e.refs : Public(r)
    /\ Public(e.judge) /\ Public(e.provider) /\ Public(e.candidate.name)

Score(o) == EvaluateScenarioSetV2(ScenarioSetOf(definition), <<o>>, ScorerOf(definition), <<>>)

-----------------------------------------------------------------------------
(* What the execution itself refuses for. *)
RefusalCodes ==
    {"provider_adapter_required", "selected_case_identity_mismatch", "selected_case_request_mismatch",
     "missing_semantic_evidence", "judge_result_ref_required", "invalid_judge_evidence", "private_provider_blocker_code",
     "private_provider_evidence_ref", "provider_failed", "invalid_provider_failure", "provider_output_too_large"}

(* A request names its provider, and why it is blocked; a review is dated. *)
AskShaped(a) ==
    /\ a.request.provider # None
    /\ a.request.status = "blocked" => a.request.blocker # None
    /\ a.safety # None => a.safety.safety.observed \in Nat

ASSUME SuppliedAssumption ==
    /\ None \notin RefusalCodes /\ None \notin Texts
    /\ \A c \in Contents, w \in [case : Cases, mode : Modes] :
          Loads(c, w) =>
              /\ Listed(CaseOf(c, w.case).acceptance)
              /\ \A a \in ToSet(CaseOf(c, w.case).acceptance) : Listed(a.requirements)
              /\ \A a \in Handed(Definition(c, w)) : AskShaped(a)

Over == step \in {"done", "raised"}

Raises ==
    /\ step' = "raised"
    /\ UNCHANGED answer

Delivers(o) ==
    /\ step' = "done"
    /\ answer' = Score(o)

Blocks(code) == Delivers(BlockedObservation(definition, ask.request, code, ask.request.provider))

(* validate_skill_package, as the first read of a load. *)
Validate ==
    /\ step = "validate"
    /\ seen' = tree
    /\ \/ tree.valid /\ step' = "evals" /\ UNCHANGED answer
       \/ ~tree.valid /\ purpose # "context" /\ Raises
       \/ ~tree.valid /\ purpose = "context" /\ Blocks("selected_case_request_mismatch")
    /\ UNCHANGED <<purpose, wanted, tree, definition, ask, screened, output, replacements, now>>

(* _capture_evals takes the document whose digest was validated. *)
Captured == tree.evals = seen.evals /\ Loads(seen, wanted)

Loaded ==
    /\ step = "evals" /\ purpose = "load"
    /\ \/ Captured /\ definition' = Definition(seen, wanted) /\ step' = "ask" /\ UNCHANGED answer
       \/ ~Captured /\ Raises /\ UNCHANGED definition
    /\ UNCHANGED <<purpose, wanted, tree, seen, ask, screened, output, replacements, now>>

HostAsks ==
    /\ step = "ask"
    /\ ask' \in Handed(definition)
    /\ step' = "validate" /\ purpose' = "revalidate"
    /\ UNCHANGED <<wanted, tree, seen, definition, screened, output, answer, replacements, now>>

(* _revalidate_definition: what is loaded now is what was loaded then. *)
Reloads == Captured /\ Definition(seen, wanted) = definition

(* The request's identity is public and its payload plain JSON in bounds. *)
RequestSound == Public(ask.request.provider) /\ ask.payload.plain

(* A payload with documents is prepared again, and compared. *)
ContextShaped ==
    /\ ask.payload.documents # None
    /\ ask.payload.documents # <<>> /\ Head(ask.payload.documents) = "SKILL.md"

RequestMatches(inputMatches) ==
    /\ inputMatches
    /\ ask.request.candidate = definition.candidate /\ ask.request.set = definition.set
    /\ ask.request.case = definition.case.id /\ ask.request.input = ask.payload

Admits(inputMatches) ==
    \/ ~RequestMatches(inputMatches) /\ Blocks("selected_case_request_mismatch")
    \/ RequestMatches(inputMatches) /\ ask.request.status = "blocked" /\ Blocks(ask.request.blocker)
    \/ RequestMatches(inputMatches) /\ ask.request.status = "prepared" /\ step' = "screen" /\ UNCHANGED answer

Revalidated ==
    /\ step = "evals" /\ purpose = "revalidate"
    /\ \/ ~(Reloads /\ RequestSound) /\ Raises /\ UNCHANGED purpose
       \/ Reloads /\ RequestSound /\ ContextShaped /\ step' = "validate" /\ purpose' = "context" /\ UNCHANGED answer
       \/ /\ Reloads /\ RequestSound /\ ~ContextShaped
          /\ Admits(ask.payload.documents = None /\ ask.payload.prompt = definition.case.prompt)
          /\ UNCHANGED purpose
    /\ UNCHANGED <<wanted, tree, seen, definition, ask, screened, output, replacements, now>>

(* prepare_selected_case_context revalidates once more, then scans. *)
ContextLoaded ==
    /\ step = "evals" /\ purpose = "context"
    /\ \/ Reloads /\ step' = "scan" /\ UNCHANGED answer
       \/ ~Reloads /\ Blocks("selected_case_request_mismatch")
    /\ UNCHANGED <<purpose, wanted, tree, seen, definition, ask, screened, output, replacements, now>>

(* References that are Markdown and keep nothing of the evaluation. *)
SelectionSound(documents) ==
    /\ IsInjective(documents)
    /\ ToSet(documents) \subseteq {p \in DOMAIN Files(definition.candidate) : p = "SKILL.md" \/ Files(definition.candidate)[p].reference}

ContextScanned ==
    /\ step = "scan"
    /\ Admits(/\ tree = definition.candidate
              /\ SelectionSound(ask.payload.documents)
              /\ ask.payload.prompt = definition.case.prompt
              /\ ask.payload.candidate = definition.candidate)
    /\ UNCHANGED <<purpose, wanted, tree, seen, definition, ask, screened, output, replacements, now>>

(* What is refused before the provider is called, in the order of the code. *)
Supplied(e) ==
    IF ~ask.adapter \/ e = None THEN <<"provider_adapter_required">>
    ELSE When(~JudgeEvidenceValid(e), "invalid_judge_evidence")
         \o When(~EvidenceNames(definition, ask.request, e), "selected_case_identity_mismatch")
         \o When(~e.cited, "judge_result_ref_required")

Screen ==
    /\ step = "screen"
    /\ screened' = [tree |-> tree, at |-> now]
    /\ LET blocker == AssessPreExecutionSafety(ask.request, ask.safety, now, tree)
       IN  \/ blocker # None /\ Blocks(blocker)
           \/ blocker = None /\ Supplied(ask.evidence) # <<>> /\ Blocks(Head(Supplied(ask.evidence)))
           \/ blocker = None /\ Supplied(ask.evidence) = <<>> /\ step' = "call" /\ UNCHANGED answer
    /\ UNCHANGED <<purpose, wanted, tree, seen, definition, ask, output, replacements, now>>

(* The provider call ends with a text, with a failure, or with one of the  *)
(* ContractErrors of which two become blocked receipts.                    *)
CallAnswers ==
    /\ step = "call"
    /\ \E text \in Texts, refs \in BOOLEAN :
          /\ output' = text
          /\ IF refs THEN Delivers(ValidatedObservation(definition, ask.request, ask.evidence, text))
             ELSE Blocks("private_provider_evidence_ref")
    /\ UNCHANGED <<purpose, wanted, tree, seen, definition, ask, screened, replacements, now>>

CallFails ==
    /\ step = "call"
    /\ \/ \E code \in {"provider_failed", "invalid_provider_failure", "provider_output_too_large"} \cup Private : Blocks(code)
       \/ Raises
    /\ UNCHANGED <<purpose, wanted, tree, seen, definition, ask, screened, output, replacements, now>>

(* Another process replaces the content of the directory. *)
Replace ==
    /\ ~Over /\ replacements < MaxReplacements
    /\ tree' \in Contents \ {tree}
    /\ replacements' = replacements + 1
    /\ UNCHANGED <<step, purpose, wanted, seen, definition, ask, screened, output, answer, now>>

Ticks ==
    /\ ~Over /\ now < MaxTicks
    /\ now' = now + 1
    /\ UNCHANGED <<step, purpose, wanted, tree, seen, definition, ask, screened, output, answer, replacements>>

-----------------------------------------------------------------------------
(* Time starts after the package was built and reviewed. *)
SuppliedInit ==
    /\ step = "validate" /\ purpose = "load"
    /\ wanted \in [case : Cases, mode : Modes]
    /\ tree \in Contents
    /\ seen = None /\ definition = None /\ ask = None /\ screened = None /\ output = None /\ answer = None
    /\ replacements = 0 /\ now = 2

Executes ==
    \/ Validate \/ Loaded \/ HostAsks \/ Revalidated \/ ContextLoaded \/ ContextScanned \/ Screen
    \/ CallAnswers \/ CallFails

Settled == Over /\ UNCHANGED suppliedVars

SuppliedNext == Executes \/ Replace \/ Ticks \/ Settled

-----------------------------------------------------------------------------
Answered == answer # None

(* A score is earned.  It is of the content that was reloaded and that lay *)
(* there when its safety was assessed, of a request with that content's    *)
(* prompt, reviewed in time and in all that its own source shows; and it   *)
(* passes exactly if the text that came back holds what the case wants,    *)
(* and the supplied evidence is about that text and finds the rest.        *)
AnswerEarned ==
    (Answered /\ answer.status # "blocked") =>
        LET c      == answer.candidate
            case   == CaseOf(c, wanted.case)
            e      == ask.evidence
            safety == ask.safety.safety
        IN  /\ seen = c /\ screened.tree = c
            /\ ask.request.input.prompt = case.prompt
            /\ safety.candidate = c /\ safety.status = "reviewed_no_issue"
            /\ screened.at \in safety.observed..(safety.observed + MaxAge)
            /\ \A p \in DOMAIN Files(c) : \A i \in Files(c)[p].indicators :
                  i.category = "external_service" =>
                      safety.evidence["capability-checklist"]["network_and_external_writes"].status = "reviewed_no_issue"
            /\ e.output = output
            /\ (answer.status = "pass") =
                  /\ ToSet(e.satisfied) = Signals(Semantic(case))
                  /\ \A a \in ToSet(case.acceptance) :
                        a.type \in DeterministicTypes => ((a.value \in output) = (a.type = "contains"))
                  /\ case.forbidden \cap output = {}

(* Every receipt passes its own validation: none ends in an exception. *)
AnswerValid == Answered => EvaluationReceiptV2Valid(answer)
=============================================================================
