----------------------------- MODULE CodexJudge -----------------------------
(***************************************************************************)
(* CodexJudgeAdapter (providers/codex_judge.py): tasks that each call      *)
(* assess or judge on one adapter, through a version probe and a judging   *)
(* process, the host's retention callback, cancellations, and the cleanup  *)
(* hook at any moment.  A process is an OwnedProcess; JudgeSupervisor      *)
(* implements it.  An action is what one task does between two             *)
(* suspensions.                                                            *)
(***************************************************************************)
EXTENDS Naturals, FiniteSets

CONSTANTS
    Tasks,             \* asyncio tasks that use the adapter
    Hooks,             \* calls of its cleanup hook
    TaskCancels,       \* bound: cancellations of one task by its caller
    Nobody

(* What a call comes to; how a process ends. *)
Replies  == {"closed", "busy", "failed", "cancelled", "observed", "evidence"}
Outcomes == {"output", "failed", "cancelled"}

ASSUME AdapterAssumption ==
    /\ TaskCancels \in Nat
    /\ Nobody \notin Tasks \cup Replies \cup Outcomes

VARIABLES
    step,          \* of each task: idle, probe, judging, retain or done
    kind,          \* what it called: assess or judge
    process,       \* its current process
    asked,         \* how often it was cancelled: cancelling()
    answer,        \* what its call returned or raised
    assessor,      \* _assessment_task; _busy is that there is one
    judger,        \* _judge_task
    closed, cleanupError,
    observation,   \* last_observation: the task that observed it
    kept,          \* the tasks whose result the host has retained
    hook,          \* of each cleanup call: none, waiting, or how it ended
    awaited        \* the tasks it waits for

tasks     == <<step, kind, process, asked, answer>>
adapter   == <<assessor, judger, closed, cleanupError, observation, kept>>
hooks     == <<hook, awaited>>
judgeVars == <<tasks, adapter, hooks>>

Own(p) == INSTANCE OwnedProcess WITH None <- Nobody, process <- p
NewProcess == Own(Nobody)!Fresh

Active(t) == step[t] \in {"probe", "judging", "retain"}
Running(t) == step[t] \in {"probe", "judging"}

-----------------------------------------------------------------------------
(* The guards of judge and assess, in their order. *)
Guarded(t, k) ==
    IF closed THEN "closed"
    ELSE IF k = "judge" /\ judger # Nobody THEN "busy"
    ELSE IF assessor # Nobody \/ judger \notin {Nobody, t} THEN "busy"
    ELSE Nobody

(* A call that is refused leaves the one under way alone; judge binds its  *)
(* inputs between its own guard and that of assess.                        *)
Refuse ==
    /\ \E t \in Tasks, k \in {"assess", "judge"} :
           /\ step[t] = "idle"
           /\ \/ Guarded(t, k) # Nobody /\ answer' = [answer EXCEPT ![t] = Guarded(t, k)]
              \/ k = "judge" /\ ~closed /\ judger = Nobody /\ answer' = [answer EXCEPT ![t] = "failed"]
           /\ step' = [step EXCEPT ![t] = "done"]
           /\ kind' = [kind EXCEPT ![t] = k]
    /\ UNCHANGED <<process, asked, adapter, hooks>>

(* Defect: the overlapping call is let in. *)
BeginOverlapping ==
    /\ \E t \in Tasks, k \in {"assess", "judge"} :
           /\ step[t] = "idle" /\ ~closed
           /\ observation' = Nobody
           /\ kind' = [kind EXCEPT ![t] = k]
           /\ step' = [step EXCEPT ![t] = "probe"]
           /\ process' = [process EXCEPT ![t] = NewProcess]
           /\ assessor' = t
           /\ judger' = IF k = "judge" THEN t ELSE judger
           /\ UNCHANGED answer
    /\ UNCHANGED <<asked, closed, cleanupError, kept, hooks>>

(* The last observation is forgotten; then the input or the workspace is   *)
(* refused, or the version probe starts.                                   *)
Begin ==
    /\ \E t \in Tasks, k \in {"assess", "judge"} :
           /\ step[t] = "idle" /\ Guarded(t, k) = Nobody
           /\ observation' = Nobody
           /\ kind' = [kind EXCEPT ![t] = k]
           /\ \/ /\ step' = [step EXCEPT ![t] = "done"]
                 /\ answer' = [answer EXCEPT ![t] = "failed"]
                 /\ UNCHANGED <<process, assessor, judger>>
              \/ /\ step' = [step EXCEPT ![t] = "probe"]
                 /\ process' = [process EXCEPT ![t] = NewProcess]
                 /\ assessor' = t
                 /\ judger' = IF k = "judge" THEN t ELSE judger
                 /\ UNCHANGED answer
    /\ UNCHANGED <<asked, closed, cleanupError, kept, hooks>>

-----------------------------------------------------------------------------
(* The process of a task goes on, lives or dies, or is undercut.  What a   *)
(* call has left behind can only cease, and is left as it was.             *)
ProcessGoes ==
    /\ \E t \in Tasks :
           /\ Running(t)
           /\ \E p \in Own(process[t])!Lives(process[t]) \cup Own(process[t])!Undercuts(process[t])
                        \cup Own(process[t])!Proceeds(process[t]) :
                  p # process[t] /\ process' = [process EXCEPT ![t] = p]
    /\ UNCHANGED <<step, kind, asked, answer, adapter, hooks>>

Answers(t, how) ==
    /\ step' = [step EXCEPT ![t] = "done"]
    /\ answer' = [answer EXCEPT ![t] = how]
    /\ judger' = IF judger = t THEN Nobody ELSE judger

(* The probe printed the bound version: the judging process starts, unless *)
(* the shared deadline is over or the schema cannot be written.            *)
ProbeReturns ==
    /\ \E t \in Tasks :
           /\ step[t] = "probe"
           /\ \E p \in Own(process[t])!Endings(process[t]) : p.how = "output"
           /\ step' = [step EXCEPT ![t] = "judging"]
           /\ process' = [process EXCEPT ![t] = NewProcess]
    /\ UNCHANGED <<kind, asked, answer, adapter, hooks>>

(* Defect: what a teardown reports beside a cancellation is forgotten. *)
AssessForgets ==
    /\ \E t \in Tasks, scratch \in BOOLEAN :
           /\ Running(t)
           /\ \E p \in Own(process[t])!Endings(process[t]) :
                  /\ process' = [process EXCEPT ![t] = p]
                  /\ cleanupError' = (cleanupError \/ (p.how # "cancelled" /\ p.report) \/ scratch)
                  /\ Answers(t, IF p.how = "cancelled" THEN "cancelled" ELSE "failed")
    /\ assessor' = Nobody
    /\ UNCHANGED <<kind, asked, closed, observation, kept, hooks>>

(* A process ends otherwise, or what it printed is not accepted, or        *)
(* removing the workspace fails.  Every teardown failure is remembered,    *)
(* and a cancellation stays one.                                           *)
AssessFails ==
    /\ \E t \in Tasks, scratch \in BOOLEAN :
           /\ Running(t)
           /\ \E p \in Own(process[t])!Endings(process[t]) :
                  /\ process' = [process EXCEPT ![t] = p]
                  /\ cleanupError' = (cleanupError \/ p.report \/ scratch)
                  /\ Answers(t, IF p.how = "cancelled" THEN "cancelled" ELSE "failed")
    /\ assessor' = Nobody
    /\ UNCHANGED <<kind, asked, closed, observation, kept, hooks>>

(* The verdict is observed; judge goes on to the host's retention.         *)
Observe ==
    /\ \E t \in Tasks :
           /\ step[t] = "judging"
           /\ \E p \in Own(process[t])!Endings(process[t]) :
                  p.how = "output" /\ process' = [process EXCEPT ![t] = p]
           /\ observation' = t
           /\ IF kind[t] = "judge"
              THEN step' = [step EXCEPT ![t] = "retain"] /\ UNCHANGED <<answer, judger>>
              ELSE Answers(t, "observed")
    /\ assessor' = Nobody
    /\ UNCHANGED <<kind, asked, closed, cleanupError, kept, hooks>>

(* The callback returns or raises, in its own time.  Evidence needs a      *)
(* callback that returns nothing to a task that was not cancelled.         *)
RetainReturns ==
    /\ \E t \in Tasks, stored \in BOOLEAN, how \in {"evidence", "failed", "cancelled"} :
           /\ step[t] = "retain"
           /\ how = "evidence" => stored
           /\ Answers(t, IF asked[t] > 0 THEN "cancelled" ELSE how)
           /\ kept' = IF stored THEN kept \cup {t} ELSE kept
    /\ UNCHANGED <<kind, process, asked, assessor, closed, cleanupError, observation, hooks>>

-----------------------------------------------------------------------------
(* Cancellation of a task reaches the process it waits for. *)
Cancelling(S) ==
    /\ asked' = [t \in Tasks |-> IF t \in S THEN asked[t] + 1 ELSE asked[t]]
    /\ process' = [t \in Tasks |-> IF t \in S /\ Running(t) THEN Own(process[t])!Asked(process[t]) ELSE process[t]]

CallerCancelsTask ==
    /\ \E t \in Tasks :
           Active(t) /\ asked[t] < TaskCancels /\ Cancelling({t})
    /\ UNCHANGED <<step, kind, answer, adapter, hooks>>

-----------------------------------------------------------------------------
(* cleanup() *)

Verdict(S) ==
    IF (\E t \in S : answer[t] = "failed") \/ cleanupError THEN "failed" ELSE "ok"

(* A deadline of the process may be about to end it: then the task is      *)
(* being cancelled too, and will fail.                                     *)
MayExpire(p) == p.phase = "teardown" \/ p.how = Nobody

(* It closes the adapter, and cancels what is active unless somebody has,  *)
(* or a deadline has.                                                      *)
HookBegins ==
    /\ \E h \in Hooks :
           /\ hook[h] = "none"
           /\ LET active == {assessor, judger} \ {Nobody}
                  alone  == {t \in active : asked[t] = 0}
              IN  /\ awaited' = [awaited EXCEPT ![h] = active]
                  /\ hook' = [hook EXCEPT ![h] = IF active = {} THEN Verdict({}) ELSE "waiting"]
                  /\ \/ Cancelling(alone)
                     \/ \E t \in alone :
                           /\ Running(t) /\ MayExpire(process[t])
                           /\ process' = [process EXCEPT ![t].how = "failed"]
                           /\ UNCHANGED asked
    /\ closed' = TRUE
    /\ UNCHANGED <<step, kind, answer, assessor, judger, cleanupError, observation, kept>>

HookReturns ==
    /\ \E h \in Hooks :
           /\ hook[h] = "waiting" /\ \A t \in awaited[h] : answer[t] # Nobody
           /\ hook' = [hook EXCEPT ![h] = Verdict(awaited[h])]
    /\ UNCHANGED <<tasks, adapter, awaited>>

(* Six seconds are over, or the waiter is cancelled; the teardown is not. *)
HookExpires ==
    /\ \E h \in Hooks :
           /\ hook[h] = "waiting" /\ \E t \in awaited[h] : answer[t] = Nobody
           /\ \E how \in {"timeout", "cancelled"} : hook' = [hook EXCEPT ![h] = how]
    /\ UNCHANGED <<tasks, adapter, awaited>>

-----------------------------------------------------------------------------
JudgeInit ==
    /\ step = [t \in Tasks |-> "idle"] /\ kind = [t \in Tasks |-> Nobody]
    /\ process = [t \in Tasks |-> Nobody] /\ asked = [t \in Tasks |-> 0]
    /\ answer = [t \in Tasks |-> Nobody]
    /\ assessor = Nobody /\ judger = Nobody /\ closed = FALSE /\ cleanupError = FALSE
    /\ observation = Nobody /\ kept = {}
    /\ hook = [h \in Hooks |-> "none"] /\ awaited = [h \in Hooks |-> {}]

Judging == Refuse \/ Begin \/ ProbeReturns \/ AssessFails \/ Observe \/ RetainReturns
Hooked  == HookBegins \/ HookReturns \/ HookExpires

Rest ==
    /\ \A t \in Tasks : step[t] = "done"
    /\ \A h \in Hooks : hook[h] \notin {"none", "waiting"}
    /\ UNCHANGED judgeVars

JudgeNext == Judging \/ ProcessGoes \/ CallerCancelsTask \/ Hooked \/ Rest

JudgeSpec == JudgeInit /\ [][JudgeNext]_judgeVars

-----------------------------------------------------------------------------
(* "Use a separate adapter for overlapping judgments": one task at a time  *)
(* owns a process, the adapter knows it, and an observation is the last    *)
(* one's.  Evidence was observed from a process that is gone, unless it    *)
(* was undercut, retained, and not cancelled; who was cancelled, by its    *)
(* caller or by a cleanup, ends so.  After a cleanup has begun nothing     *)
(* goes on that was not cancelled or has failed by its deadline, and one   *)
(* that succeeds leaves no judgment active, and no teardown failure of     *)
(* this adapter, however long ago, unreported.                             *)
JudgmentsKept ==
    /\ \A t \in Tasks : Running(t) => assessor = t
    /\ \A t \in Tasks : kind[t] = "judge" /\ Active(t) => judger = t
    /\ \A t \in Tasks : step[t] = "retain" => observation = t
    /\ \A t \in Tasks : answer[t] \in {"evidence", "observed"} =>
           process[t].how = "output" /\ (process[t].alive => process[t].undercut) /\ (kind[t] = "judge" => t \in kept)
    /\ \A t \in Tasks : asked[t] > 0 => Active(t) \/ answer[t] = "cancelled"
    /\ \A t \in Tasks : closed /\ Active(t) =>
           asked[t] > 0 \/ (Running(t) /\ process[t].how = "failed")
    /\ \A h \in Hooks : hook[h] = "ok" =>
           \A t \in Tasks : ~Active(t) /\ (process[t] # Nobody => ~process[t].report)
=============================================================================
