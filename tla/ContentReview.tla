---------------------------- MODULE ContentReview ----------------------------
(***************************************************************************)
(* Supplied and observed content reviews: the contracts of                 *)
(* models/content_review.py and assess_content_review                      *)
(* (validation/content_review.py).                                         *)
(*                                                                         *)
(* A package is what one capture of a directory sees, file after file in a *)
(* single pass: while others write, a mixture of what the directory held   *)
(* meanwhile.  Its Content says whether it is valid, whether it is too     *)
(* large for a reviewer, the name of the directory, the files that were    *)
(* accepted, by digest, and the documents that Scenarios and Scorers read  *)
(* in them.                                                                *)
(*                                                                         *)
(* The candidate identity covers the accepted files alone, and stands for  *)
(* the package of just these.  A link, an unsafe file, or a directory that *)
(* changed under the pass spoils a package and leaves its candidate as it  *)
(* was, so a candidate has at most one valid package and any number of     *)
(* blocked ones.                                                           *)
(***************************************************************************)
EXTENDS Naturals, FiniteSets, Sequences, Functions

CONSTANTS
    None,
    Content,           \* of a package: [candidate, name, valid, large, files, evals, scorer, bundle]
    ReferencePaths     \* paths below references/

CandidateOf(package) == Content[package].candidate

(* Digests are injective, and a valid package is all accepted files. *)
ASSUME ContentAssumption ==
    /\ None \notin DOMAIN Content
    /\ \A p \in DOMAIN Content :
           /\ CandidateOf(p) \in DOMAIN Content
           /\ Content[p].files = Content[CandidateOf(p)].files /\ Content[p].name = Content[CandidateOf(p)].name
           /\ Content[p].valid => CandidateOf(p) = p

Clean == {}            \* no findings: a set of codes, each a blocker

If(condition, finding) == IF condition THEN {finding} ELSE {}
StatusOf(findings)  == IF findings = Clean THEN "pass" ELSE "blocked"

(* What validate_skill_package says of a package, under a policy that      *)
(* requires some files.                                                    *)
ValidationUnder(required, package) ==
    LET findings == If(~Content[package].valid, "invalid_package")
                    \cup If(~(required \subseteq DOMAIN Content[package].files), "required_file_missing")
    IN  [candidate |-> CandidateOf(package), status |-> StatusOf(findings), files |-> Content[package].files, findings |-> findings]

Validation(package) == ValidationUnder({}, package)

(* ContentReviewItem: a gap has an owner, anything else has evidence. *)
ItemValid(item) ==
    /\ IF item.status = "gap" THEN item.owner # None ELSE item.evidence_ids # {}
    /\ IF item.dimension = "reference" THEN item.path \in ReferencePaths ELSE item.path = "SKILL.md"

ItemKeys(items) == {<<i.dimension, i.path>> : i \in items}

(* ContentReviewAssessment: closed coverage.  Each disposition is made     *)
(* once, and each piece of evidence is declared, used and on the spot.     *)
AssessmentValid(a) ==
    /\ a.evidence # {} /\ \A i \in a.items : ItemValid(i)
    /\ Cardinality({e.id : e \in a.evidence}) = Cardinality(a.evidence)
    /\ Cardinality(ItemKeys(a.items)) = Cardinality(a.items)
    /\ {<<"description", "SKILL.md">>, <<"progressive_disclosure", "SKILL.md">>} \subseteq ItemKeys(a.items)
    /\ UNION {i.evidence_ids : i \in a.items} = {e.id : e \in a.evidence}
    /\ \A i \in a.items : i.status # "gap" =>
           \E e \in a.evidence : e.id \in i.evidence_ids /\ e.ref = i.path

Referenced(files) == DOMAIN files \cap ReferencePaths
Reviewed(a)       == {i.path : i \in {j \in a.items : j.dimension = "reference"}}
EvidenceFits(a, files) ==
    \A e \in a.evidence : e.ref \in DOMAIN files /\ files[e.ref] = e.sha256

(* What keeps a valid assessment from passing for a valid package. *)
ReviewGaps(v, a) ==
    If(a.candidate # v.candidate, "content_review_candidate_mismatch")
    \cup If(Reviewed(a) # Referenced(v.files), "content_review_coverage_gap")
    \cup If(~EvidenceFits(a, v.files), "content_review_evidence_mismatch")
    \cup If(\E i \in a.items : i.status # "clear", "content_review_unresolved")

(* assess_content_review *)
AssessContentReview(v, supplied) ==
    LET usable   == supplied # None /\ AssessmentValid(supplied)
        findings == v.findings
                    \cup If(~usable, "invalid_content_review")
                    \cup (IF v.status = "pass" /\ usable THEN ReviewGaps(v, supplied) ELSE Clean)
    IN  [candidate |-> v.candidate, status |-> StatusOf(findings),
         assessment |-> IF usable THEN supplied ELSE None, findings |-> findings]

(* ContentReviewResult *)
ReviewResultValid(r) ==
    /\ r.assessment # None => AssessmentValid(r.assessment)
    /\ IF r.status = "pass"
       THEN /\ r.findings = Clean /\ r.assessment # None
            /\ r.candidate = r.assessment.candidate
            /\ \A i \in r.assessment.items : i.status = "clear"
       ELSE r.findings # Clean

(* ContentReviewExecutionResult: what was returned was observed. *)
ExecutionValid(x) ==
    /\ ~x.adapter_invoked => x.review = None
    /\ x.adapter_invoked => x.candidate # None /\ x.reviewer # None
    /\ x.review # None => ReviewResultValid(x.review)
    /\ IF x.status = "pass"
       THEN /\ x.adapter_invoked /\ x.findings = Clean
            /\ x.review # None /\ x.review.status = "pass"
            /\ x.reviewer = x.review.assessment.reviewer
            /\ x.candidate = x.review.candidate
       ELSE x.findings # Clean
=============================================================================
