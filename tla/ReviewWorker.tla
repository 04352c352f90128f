----------------------------- MODULE ReviewWorker -----------------------------
(***************************************************************************)
(* execute_content_review (evaluation/content_review.py): the package is   *)
(* captured, a fresh process runs the host's offline adapter on the        *)
(* captured documents and writes packets to a socket, the parent reads     *)
(* them under two deadlines, stops the process, and assesses what it got   *)
(* against the package as it is then.                                      *)
(*                                                                         *)
(* The adapter may hang, raise, return anything or kill its process; the   *)
(* package may be edited at any moment.  Time is two flags: the startup    *)
(* deadline, and the review deadline that runs from the invocation, have   *)
(* passed.  Packets carry the worker's own reading of them.                *)
(***************************************************************************)
EXTENDS ContentReview

CONSTANTS
    Cancelled,     \* a call that raised CancelledError
    Packages,      \* what a capture of the package directory may see
    Assessments,   \* what the adapter may return; None stands for junk
    Reviewers,     \* what the adapter may declare
    MaxEdits,      \* bound: edits of the package directory
    MaxCancels     \* bound: cancellations by the caller

VARIABLES
    tree,          \* what a capture of the package directory sees
    edits,         \* its edits so far
    pc,            \* where execute_content_review is
    bound,         \* the candidate of the first validation
    documents,     \* the files the adapter is given
    worker,        \* the process: none, starting, invoked, finished or gone
    killed,        \* SIGKILL was sent
    packets,       \* written and not yet read
    startupOver, reviewOver,
    reviewer,      \* the reviewer of the invoked packet
    assessment,    \* of the returned packet
    code,          \* why the observation failed
    cancels,       \* cancellations so far
    returned,      \* history: what the adapter returned, and whether in time
    execution      \* the result, Cancelled, or None

world   == <<tree, edits>>
process == <<worker, killed, packets, returned>>
time    == <<startupOver, reviewOver>>
seen    == <<reviewer, assessment, code>>
vars    == <<world, pc, bound, documents, process, time, seen, cancels, execution>>

Idle ==
    /\ pc = "idle" /\ bound = None /\ documents = None
    /\ worker = "none" /\ killed = FALSE /\ packets = <<>> /\ returned = None
    /\ startupOver = FALSE /\ reviewOver = FALSE
    /\ reviewer = None /\ assessment = None /\ code = None
    /\ cancels = 0 /\ execution = None

Init == Idle /\ tree \in Packages /\ edits = 0

Execution(candidate, review, findings) ==
    [candidate |-> candidate, status |-> StatusOf(findings),
     adapter_invoked |-> reviewer # None, reviewer |-> reviewer, review |-> review, findings |-> findings]

Return(x) == pc' = "done" /\ execution' = x

(* The first validation, and the capture of what the adapter will read,    *)
(* compared by the digest of its files.                                    *)
Validate ==
    /\ pc = "idle"
    /\ bound' = CandidateOf(tree)
    /\ IF Content[tree].valid THEN pc' = "scan" /\ UNCHANGED execution
                     ELSE Return(Execution(CandidateOf(tree), None, {"invalid_package"}))
    /\ UNCHANGED <<world, documents, process, time, seen, cancels>>

Capture ==
    /\ pc = "scan"
    /\ IF ~Content[tree].valid \/ Content[tree].files # Content[bound].files
       THEN Return(Execution(bound, None, {"content_review_candidate_changed"})) /\ UNCHANGED documents
       ELSE IF Content[tree].large
       THEN Return(Execution(bound, None, {"content_review_input_limit"})) /\ UNCHANGED documents
       ELSE pc' = "start" /\ documents' = Content[tree].files /\ UNCHANGED execution
    /\ UNCHANGED <<world, bound, process, time, seen, cancels>>

(* No socket, a daemonic parent, or inputs that cannot be transferred. *)
StartFails ==
    /\ pc = "start" /\ worker = "none"
    /\ code' = "unsupported_content_review_isolation"
    /\ pc' = "stop"
    /\ UNCHANGED <<world, bound, documents, process, time, reviewer, assessment, cancels, execution>>

(* process.start() runs in a task of its own. *)
WorkerStarts ==
    /\ pc = "start" /\ worker = "none"
    /\ worker' = "starting"
    /\ UNCHANGED <<world, pc, bound, documents, killed, packets, returned, time, seen, cancels, execution>>

StartReturns ==
    /\ pc = "start" /\ worker # "none"
    /\ pc' = "read"
    /\ UNCHANGED <<world, bound, documents, process, time, seen, cancels, execution>>

-----------------------------------------------------------------------------
(* The worker *)

Writes(packet) == packets' = Append(packets, packet)

(* Its metadata is refused, or does not fit on the wire. *)
WorkerRefuses ==
    /\ worker = "starting" /\ ~killed
    /\ \E c \in {"invalid_content_review_adapter", "content_review_output_limit"} :
           Writes([kind |-> "refused", code |-> c, late |-> startupOver])
    /\ worker' = "finished"
    /\ UNCHANGED <<world, pc, bound, documents, killed, returned, time, seen, cancels, execution>>

WorkerInvokes ==
    /\ worker = "starting" /\ ~killed
    /\ \E r \in Reviewers : Writes([kind |-> "invoked", reviewer |-> r, late |-> startupOver])
    /\ worker' = "invoked"
    /\ UNCHANGED <<world, pc, bound, documents, killed, returned, time, seen, cancels, execution>>

AdapterReturns(a) ==
    /\ worker = "invoked" /\ ~killed
    /\ Writes(IF a # None /\ AssessmentValid(a)
              THEN [kind |-> "returned", assessment |-> a, late |-> reviewOver]
              ELSE [kind |-> "blocked", code |-> "invalid_content_review", late |-> reviewOver])
    /\ returned' = [assessment |-> a, late |-> reviewOver]
    /\ worker' = "finished"
    /\ UNCHANGED <<world, pc, bound, documents, killed, time, seen, cancels, execution>>

(* It raises, or returns more than the wire takes. *)
AdapterFails ==
    /\ worker = "invoked" /\ ~killed
    /\ \E c \in {"content_review_adapter_failed", "content_review_output_limit"} :
           Writes([kind |-> "blocked", code |-> c, late |-> reviewOver])
    /\ worker' = "finished"
    /\ UNCHANGED <<world, pc, bound, documents, killed, returned, time, seen, cancels, execution>>

(* The process ends, by itself or by a signal; a packet may be cut short. *)
WorkerEnds ==
    /\ worker \in {"starting", "invoked", "finished"}
    /\ worker' = "gone"
    /\ \/ UNCHANGED packets
       \/ packets # <<>> /\ packets' = SubSeq(packets, 1, Len(packets) - 1)
    /\ UNCHANGED <<world, pc, bound, documents, killed, returned, time, seen, cancels, execution>>

-----------------------------------------------------------------------------
(* The parent reads *)

Observed(r, a, c) ==
    /\ reviewer' = r /\ assessment' = a /\ code' = c
    /\ pc' = "stop"
    /\ UNCHANGED <<world, bound, documents, worker, killed, returned, time, cancels, execution>>

ReadInvoked ==
    /\ pc = "read" /\ packets # <<>> /\ Head(packets).kind = "invoked"
    /\ packets' = Tail(packets)
    /\ IF Head(packets).late
       THEN Observed(Head(packets).reviewer, None, "content_review_timeout")
       ELSE /\ reviewer' = Head(packets).reviewer
            /\ UNCHANGED <<world, pc, bound, documents, worker, killed, returned, time,
                           assessment, code, cancels, execution>>

ReadAnswer ==
    /\ pc = "read" /\ packets # <<>> /\ Head(packets).kind \in {"returned", "blocked", "refused"}
    /\ packets' = Tail(packets)
    /\ IF Head(packets).late THEN Observed(reviewer, None, "content_review_timeout")
       ELSE IF Head(packets).kind = "returned" THEN Observed(reviewer, Head(packets).assessment, None)
                                               ELSE Observed(reviewer, None, Head(packets).code)

ReadEnds ==
    /\ pc = "read" /\ packets = <<>> /\ worker \in {"finished", "gone"}
    /\ UNCHANGED packets
    /\ Observed(reviewer, None, "content_review_adapter_failed")

(* asyncio.timeout: the startup deadline until the invoked packet is read, *)
(* the review deadline from then on.                                       *)
ReadExpires ==
    /\ pc = "read"
    /\ IF reviewer = None THEN startupOver ELSE reviewOver
    /\ UNCHANGED packets
    /\ Observed(reviewer, None, "content_review_timeout")

(* The caller cancels: the worker is stopped all the same. *)
Cancel ==
    /\ pc \in {"start", "read"} /\ cancels < MaxCancels
    /\ cancels' = cancels + 1
    /\ code' = "cancelled"
    /\ pc' = "stop"
    /\ UNCHANGED <<world, bound, documents, process, time, reviewer, assessment, execution>>

-----------------------------------------------------------------------------
(* The parent stops the worker and assesses *)

(* Defect: a worker that ignores SIGTERM is left alone. *)
StopTerminates ==
    /\ pc = "stop"
    /\ pc' = IF code = "cancelled" THEN "raise" ELSE "assess"
    /\ UNCHANGED <<world, bound, documents, process, time, seen, cancels, execution>>

(* _stop_worker waits, terminates, waits, kills and waits, each time for a *)
(* moment only; the adapter may ignore SIGTERM, nobody can ignore SIGKILL. *)
Stop ==
    /\ pc = "stop"
    /\ killed' = (worker \in {"starting", "invoked", "finished"})
    /\ pc' = IF code = "cancelled" THEN "raise" ELSE "assess"
    /\ UNCHANGED <<world, bound, documents, worker, packets, returned, time, seen, cancels, execution>>

Raise ==
    /\ pc = "raise"
    /\ Return(Cancelled)
    /\ UNCHANGED <<world, bound, documents, process, time, seen, cancels>>

AssessFailed ==
    /\ pc = "assess" /\ code # None
    /\ Return(Execution(bound, None, {code}))
    /\ UNCHANGED <<world, bound, documents, process, time, seen, cancels>>

Assess ==
    /\ pc = "assess" /\ code = None
    /\ LET review == AssessContentReview(Validation(tree), assessment)
       IN  Return(Execution(bound, review,
               review.findings
               \cup If(review.candidate # bound, "content_review_candidate_changed")
               \cup If(review.assessment # None /\ review.assessment.reviewer # reviewer,
                       "content_review_reviewer_mismatch")))
    /\ UNCHANGED <<world, bound, documents, process, time, seen, cancels>>

-----------------------------------------------------------------------------
(* The world *)

Edit ==
    /\ edits < MaxEdits
    /\ tree' \in Packages \ {tree}
    /\ edits' = edits + 1
    /\ UNCHANGED <<pc, bound, documents, process, time, seen, cancels, execution>>

StartupPasses ==
    /\ worker \in {"starting", "invoked"} /\ ~startupOver
    /\ startupOver' = TRUE
    /\ UNCHANGED <<world, pc, bound, documents, process, reviewOver, seen, cancels, execution>>

ReviewPasses ==
    /\ worker \in {"invoked", "finished"} /\ ~reviewOver
    /\ reviewOver' = TRUE
    /\ UNCHANGED <<world, pc, bound, documents, process, startupOver, seen, cancels, execution>>

Parent ==
    \/ Validate \/ Capture \/ StartFails \/ StartReturns
    \/ ReadInvoked \/ ReadAnswer \/ ReadEnds \/ ReadExpires
    \/ Stop \/ Raise \/ AssessFailed \/ Assess

Worker ==
    \/ WorkerRefuses \/ WorkerInvokes
    \/ \E a \in Assessments \cup {None} : AdapterReturns(a)
    \/ AdapterFails

Killed == killed /\ WorkerEnds

-----------------------------------------------------------------------------
(* A review that passes was earned: the adapter was given the documents of *)
(* the candidate, returned this very assessment in time, under the         *)
(* reviewer it had declared, and the assessment covers every reference of  *)
(* the candidate with evidence of its files.                               *)
ReviewEarned ==
    (pc = "done" /\ execution # Cancelled /\ execution.status = "pass") =>
        /\ documents = Content[execution.candidate].files
        /\ returned = [assessment |-> execution.review.assessment, late |-> FALSE]
        /\ execution.review.assessment.reviewer = reviewer
        /\ Reviewed(returned.assessment) = Referenced(documents)
        /\ EvidenceFits(returned.assessment, documents)
=============================================================================
