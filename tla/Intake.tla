------------------------------- MODULE Intake -------------------------------
(***************************************************************************)
(* The intake of a standalone skill: intake_skill_package                  *)
(* (intake/normalization.py) and the receipts of models/intake.py.         *)
(***************************************************************************)
EXTENDS ContentReview

Checks == {"identity", "provenance", "rights", "owner_unchanged"}
CheckBlockers ==
    [identity |-> "identity_unconfirmed", provenance |-> "provenance_unconfirmed",
     rights |-> "rights_unconfirmed", owner_unchanged |-> "owner_decision_required"]

(* A context names the confirmed checks, the owner, the source path,       *)
(* whether its revision is the candidate's and, for a saved release or an  *)
(* archive, the child it was saved from.                                   *)
BuildIntakeDecision(candidate, confirmed, additional) ==
    [candidate |-> candidate,
     checks    |-> confirmed,
     decision  |-> IF additional # {} \/ ~(Checks \ {"owner_unchanged"} \subseteq confirmed) THEN "block"
                   ELSE IF "owner_unchanged" \notin confirmed THEN "needs_owner_decision"
                   ELSE "admit",
     blocker_codes |-> additional \cup {CheckBlockers[c] : c \in Checks \ confirmed}]

(* The first blocker of a validation. *)
Primary(findings) == CHOOSE f \in findings : TRUE

(* A saved child is the candidate that was captured, or nothing. *)
BoundToSource(validation, context) ==
    IF context.saved # None /\ validation.status = "pass" /\ validation.candidate # context.saved
    THEN [validation EXCEPT !.status = "blocked", !.findings = {"saved_source_candidate_mismatch"}]
    ELSE validation

IntakeSource(candidate, context) ==
    IF context.saved # None
    THEN [package |-> candidate, provenance |-> context.saved]
    ELSE [package |-> candidate, provenance |-> <<context.path, candidate>>]

IntakeSkillPackage(package, context, required) ==
    LET v == BoundToSource(ValidationUnder(required, package), context)
        source == IntakeSource(v.candidate, context)
    IN  IF v.status = "blocked"
        THEN [status |-> "blocked", context |-> context, candidate |-> v.candidate, validation |-> v,
              source |-> None, normalized |-> None, blocker |-> Primary(v.findings),
              decision |-> BuildIntakeDecision(v.candidate, context.checks, {Primary(v.findings)})]
        ELSE [status |-> "normalized", context |-> context, candidate |-> v.candidate, validation |-> v,
              source |-> source, blocker |-> None,
              normalized |-> [source |-> source, owner |-> context.owner],
              decision |-> BuildIntakeDecision(v.candidate, context.checks, {})]

(* SkillPackageIntakeReceipt: the proof is bound to its candidate. *)
IntakeReceiptValid(r) ==
    /\ r.candidate # None /\ r.decision # None
    /\ r.candidate = r.validation.candidate
    /\ r.decision.candidate = r.candidate /\ r.decision.checks = r.context.checks
    /\ IF r.status = "normalized"
       THEN /\ r.validation.status = "pass" /\ r.blocker = None
            /\ r.source # None /\ r.normalized # None
            /\ r.source = IntakeSource(r.candidate, r.context)
            /\ r.context.saved # None => r.candidate = r.context.saved
            /\ r.decision = BuildIntakeDecision(r.candidate, r.context.checks, {})
            /\ r.normalized = [source |-> r.source, owner |-> r.context.owner]
       ELSE /\ r.validation.findings # Clean /\ r.blocker = Primary(r.validation.findings)
            /\ r.source = None /\ r.normalized = None
            /\ r.decision.decision # "admit"
            /\ r.decision = BuildIntakeDecision(r.candidate, r.context.checks, {r.blocker})

Admitted(r) == r.status = "normalized" /\ r.decision.decision = "admit"
=============================================================================
