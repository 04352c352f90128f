------------------------------ MODULE Evaluation ------------------------------
(***************************************************************************)
(* Scoring of observations that somebody else produced:                    *)
(* evaluate_scenario_set (evaluation/deterministic.py) and                 *)
(* evaluate_scenario_set_v2 (evaluation/deterministic_v2.py) with the      *)
(* contracts of models/evaluation.py and models/evaluation_v2.py.          *)
(*                                                                         *)
(* A case is [id, category, signals, forbidden, oracle, expected], an      *)
(* observation [candidate, set, case, provider, status, signals, commands, *)
(* output, runner, blocker] and a scorer [candidate, type, threshold,      *)
(* first, calibrated, probes].  Of version 1 an observation's provider     *)
(* and a case's expected output are not read.  A digest is the text it is  *)
(* taken of, a blocker its code, and the score the pair of passed and all  *)
(* cases, beside a threshold that is a fraction <<n, d>>.  Signals and     *)
(* commands are sets, and the probes that were completed the set of their  *)
(* positions in the scorer profile, whose order they keep.                 *)
(***************************************************************************)
EXTENDS Naturals, FiniteSets, SequencesExt

CONSTANT None

(* What a scenario or a scoring may be refused for, but for the blocker of *)
(* an observation.                                                         *)
EvaluationCodes ==
    {"scorer_candidate_mismatch", "provider_adapter_required", "invalid_calibration_probe", "duplicate_calibration_probe",
     "unknown_calibration_probe", "calibration_incomplete", "duplicate_observation", "observation_set_mismatch",
     "observation_identity_mismatch", "provider_identity_mismatch", "scenario_blocked", "unsupported_oracle",
     "exact_match_digest_required"}

ASSUME EvaluationAssumption == None \notin EvaluationCodes

When(condition, code) == IF condition THEN <<code>> ELSE <<>>
FirstOf(codes)        == IF codes = <<>> THEN None ELSE Head(codes)

Listed(entries) == entries \in Seq(ToSet(entries))

CaseIds(cases) == [i \in DOMAIN cases |-> cases[i].id]

(* ScenarioSet and ScenarioSetV2 with their cases. *)
ScenarioSetValid(set) ==
    /\ set.cases # <<>> /\ IsInjective(CaseIds(set.cases))
    /\ set.release => \E i \in DOMAIN set.cases : set.cases[i].category = "regression"
    /\ \A i \in DOMAIN set.cases : set.cases[i].signals # {}
ExpectationValid(case) == case.oracle # "exact_match" => case.expected = None

ScorerValid(s) ==
    /\ s.calibrated => s.probes # <<>>
    /\ s.type \in {"llm_judge", "external"} => s.calibrated /\ s.first
    /\ IsInjective(s.probes)

ObservationValid(o) ==
    IF o.status = "completed" THEN o.blocker = None /\ o.output # None
    ELSE o.blocker # None /\ o.output = None /\ o.signals = {} /\ o.commands = {}

(* What may be handed over for a scoring: each part is valid by itself.    *)
Acceptable(set, observations, scorer) ==
    /\ Listed(set.cases) /\ Listed(observations)
    /\ ScenarioSetValid(set) /\ ScorerValid(scorer)
    /\ \A case \in ToSet(set.cases) : ExpectationValid(case)
    /\ \A o \in ToSet(observations) :
          ObservationValid(o) /\ o.provider # None /\ o.status \in {"completed", "blocked"}

-----------------------------------------------------------------------------
(* One case *)

Missing(case, o)   == case.signals \ o.signals
Forbidden(case, o) == o.commands \cap case.forbidden

CaseResult(o, status) ==
    [candidate |-> o.candidate, set |-> o.set, case |-> o.case, provider |-> o.provider, runner |-> o.runner,
     status |-> status, missing |-> {}, forbidden |-> {}, output |-> None, expected |-> None,
     mismatch |-> FALSE, blocker |-> None]
BlockedCase(o, code) == [CaseResult(o, "blocked") EXCEPT !.blocker = code]

DecidedCase(o, missing, forbidden, expected, mismatch) ==
    [CaseResult(o, IF missing # {} \/ forbidden # {} \/ mismatch THEN "fail" ELSE "pass")
        EXCEPT !.missing = missing, !.forbidden = forbidden, !.output = o.output,
               !.expected = expected, !.mismatch = mismatch]

EvaluateCase(case, o) ==
    IF o.status = "blocked" THEN BlockedCase(o, o.blocker)
    ELSE IF case.oracle # "expected_signal" THEN BlockedCase(o, "unsupported_oracle")
    ELSE DecidedCase(o, Missing(case, o), Forbidden(case, o), None, FALSE)

(* Version 2 compares an exact match by digest, and asks it for no signal. *)
EvaluateCaseV2(case, o) ==
    LET exact   == case.oracle = "exact_match"
        refused == When(case.oracle = "structured", "unsupported_oracle")
                   \o When(exact /\ case.expected = None, "exact_match_digest_required")
    IN  IF o.status = "blocked" THEN BlockedCase(o, o.blocker)
        ELSE IF refused # <<>> THEN BlockedCase(o, FirstOf(refused))
        ELSE DecidedCase(o, IF exact THEN {} ELSE Missing(case, o), Forbidden(case, o), case.expected,
                         exact /\ o.output # case.expected)

Failed(r) == r.missing # {} \/ r.forbidden # {} \/ r.mismatch

CaseResultValid(r) ==
    CASE r.status = "pass" -> ~Failed(r) /\ r.blocker = None /\ r.output # None
      [] r.status = "fail" -> Failed(r) /\ r.blocker = None /\ r.output # None
      [] OTHER             -> ~Failed(r) /\ r.blocker # None /\ r.output = None

DigestsAgree(r) ==
    /\ r.mismatch => r.expected # None
    /\ r.expected # None /\ r.output # None => r.mismatch = (r.expected # r.output)

-----------------------------------------------------------------------------
(* A scenario set.  The probes are those that were completed, "blank" for  *)
(* one without text.                                                       *)

ScorerRefusals(set, scorer, probes) ==
    When(scorer.candidate # set.candidate, "scorer_candidate_mismatch")
    \o When(scorer.type # "deterministic", "provider_adapter_required")
    \o When("blank" \in ToSet(probes), "invalid_calibration_probe")
    \o When(~IsInjective(probes), "duplicate_calibration_probe")
    \o When(~(ToSet(probes) \subseteq ToSet(scorer.probes)), "unknown_calibration_probe")

Observed(observations) == [i \in DOMAIN observations |-> observations[i].case]

ObservationRefusals(set, scorer, probes, observations) ==
    When(scorer.calibrated /\ ToSet(probes) # ToSet(scorer.probes), "calibration_incomplete")
    \o When(~IsInjective(Observed(observations)), "duplicate_observation")
    \o When(ToSet(Observed(observations)) # ToSet(CaseIds(set.cases)), "observation_set_mismatch")
    \o When(\E o \in ToSet(observations) : o.candidate # set.candidate \/ o.set # set.id, "observation_identity_mismatch")

Providers(observations) == {o.provider : o \in ToSet(observations)}
ObservationOf(observations, id) == CHOOSE o \in ToSet(observations) : o.case = id

Refused(set, scorer, code, provider, results, completed) ==
    [candidate |-> set.candidate, set |-> set.id, provider |-> provider, scorer |-> scorer, status |-> "blocked",
     score |-> None, results |-> results, probes |-> completed, blocker |-> code]

PassedCases(results)    == {i \in DOMAIN results : results[i].status = "pass"}
ScoreOf(results)        == <<Cardinality(PassedCases(results)), Len(results)>>
Meets(score, threshold) == score[1] * threshold[2] >= threshold[1] * score[2]

Scored(set, scorer, provider, results, completed) ==
    LET score == ScoreOf(results)
    IN  IF \E i \in DOMAIN results : results[i].status = "blocked"
        THEN Refused(set, scorer, "scenario_blocked", provider, results, completed)
        ELSE [candidate |-> set.candidate, set |-> set.id, provider |-> provider, scorer |-> scorer,
              status |-> IF Meets(score, scorer.threshold) THEN "pass" ELSE "fail",
              score |-> score, results |-> results, probes |-> completed, blocker |-> None]

CompletedProbes(scorer, probes) == {i \in DOMAIN scorer.probes : scorer.probes[i] \in ToSet(probes)}

(* A refusal on the scorer's account names no completed probe. *)
EvaluateScenarioSet(set, observations, scorer, probes) ==
    LET early     == ScorerRefusals(set, scorer, probes)
        late      == ObservationRefusals(set, scorer, probes, observations)
        completed == CompletedProbes(scorer, probes)
        results   == [i \in DOMAIN set.cases |->
                        EvaluateCase(set.cases[i], ObservationOf(observations, set.cases[i].id))]
    IN  IF early # <<>> THEN Refused(set, scorer, FirstOf(early), None, <<>>, {})
        ELSE IF late # <<>> THEN Refused(set, scorer, FirstOf(late), None, <<>>, completed)
        ELSE Scored(set, scorer, None, results, completed)

EvaluateScenarioSetV2(set, observations, scorer, probes) ==
    LET early     == ScorerRefusals(set, scorer, probes)
        late      == ObservationRefusals(set, scorer, probes, observations)
                     \o When(Cardinality(Providers(observations)) # 1, "provider_identity_mismatch")
        completed == CompletedProbes(scorer, probes)
        results   == [i \in DOMAIN set.cases |->
                        EvaluateCaseV2(set.cases[i], ObservationOf(observations, set.cases[i].id))]
    IN  IF early # <<>> THEN Refused(set, scorer, FirstOf(early), None, <<>>, {})
        ELSE IF late # <<>> THEN Refused(set, scorer, FirstOf(late), None, <<>>, completed)
        ELSE Scored(set, scorer, observations[1].provider, results, completed)

-----------------------------------------------------------------------------
(* The contracts of the receipts *)

ReceiptShape(r) ==
    /\ r.scorer.candidate # r.candidate => r.blocker = "scorer_candidate_mismatch"
    /\ IsInjective([i \in DOMAIN r.results |-> r.results[i].case])
    /\ \A x \in ToSet(r.results) : x.candidate = r.candidate /\ x.set = r.set /\ CaseResultValid(x)
    /\ r.probes \subseteq DOMAIN r.scorer.probes
    /\ IF r.status = "blocked" THEN r.score = None /\ r.blocker # None
       ELSE /\ r.blocker = None /\ r.results # <<>> /\ r.scorer.type = "deterministic"
            /\ \A x \in ToSet(r.results) : x.status # "blocked"
            /\ r.score = ScoreOf(r.results)
            /\ r.status = IF Meets(r.score, r.scorer.threshold) THEN "pass" ELSE "fail"
            /\ r.scorer.calibrated => r.probes = DOMAIN r.scorer.probes

EvaluationReceiptValid(r) == ReceiptShape(r)

(* EvaluationReceiptV2 binds one provider besides. *)
EvaluationReceiptV2Valid(r) ==
    /\ ReceiptShape(r)
    /\ r.results # <<>> => r.provider # None
    /\ \A x \in ToSet(r.results) : x.provider = r.provider /\ DigestsAgree(x)

-----------------------------------------------------------------------------
(* What a score says, told from the observations alone: each case was      *)
(* observed once, for this candidate and set, and the passed ones are      *)
(* those whose output shows all that is expected and nothing forbidden.    *)
Shown(case, o) ==
    /\ o.commands \cap case.forbidden = {}
    /\ IF case.oracle = "exact_match" THEN o.output = case.expected ELSE case.signals \subseteq o.signals

ScoreEarnedBy(r, set, observations, scorer, probes) ==
    r.status # "blocked" =>
        LET passed == {c \in ToSet(set.cases) : \E o \in ToSet(observations) : o.case = c.id /\ Shown(c, o)}
        IN  /\ scorer.type = "deterministic" /\ scorer.candidate = set.candidate
            /\ scorer.calibrated => ToSet(probes) = ToSet(scorer.probes)
            /\ Len(observations) = Len(set.cases)
            /\ \A o \in ToSet(observations) :
                  /\ o.status = "completed" /\ o.candidate = set.candidate /\ o.set = set.id
                  /\ o.case \in ToSet(CaseIds(set.cases))
            /\ (r.status = "pass") = Meets(<<Cardinality(passed), Len(set.cases)>>, scorer.threshold)

(* Over what both versions can express they say the same. *)
VersionsAgree(v1, v2, set, observations) ==
    (/\ Cardinality(Providers(observations)) = 1
     /\ \A i \in DOMAIN set.cases : set.cases[i].oracle = "expected_signal")
        => v1 = [v2 EXCEPT !.provider = None]
=============================================================================
