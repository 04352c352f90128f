-------------------------- MODULE CodexJudgeProofs --------------------------
(***************************************************************************)
(* One adapter, any number of tasks and of calls of its cleanup hook: the  *)
(* judgments are kept apart, cancellations arrive, and a cleanup that      *)
(* succeeds has left nothing unfinished or unreported.                     *)
(***************************************************************************)
EXTENDS CodexJudge, TLAPS

Phases == {"launching", "working", "teardown", "ended"}
Procs  == [phase : Phases, how : Outcomes \cup {Nobody},
           report : BOOLEAN, alive : BOOLEAN, pending : BOOLEAN, undercut : BOOLEAN]

(* A process under way: it has reported nothing yet, and no exchange has   *)
(* ended before the handle is returned, unless it is about to fail.        *)
Underway(p) ==
    /\ p \in Procs /\ p.phase # "ended" /\ ~p.report
    /\ p.phase = "launching" => p.how \in {Nobody, "failed"}

(* A cancellation is on its way to it, or has ended its exchange. *)
Marked(p) == p.pending \/ p.how = "cancelled"

(* A deadline ends it, and no cancellation takes the place of that. *)
Doomed(p) == p.how = "failed" /\ ~p.pending

(* A process that printed the verdict and is gone, or was undercut. *)
Delivered(p) == p \in Procs /\ p.phase = "ended" /\ p.how = "output" /\ (p.alive => p.undercut)

-----------------------------------------------------------------------------
(* What OwnedProcess lets a process do, as the adapter relies on it. *)

(* A process begins unmarked. *)
LEMMA FreshProcess == Underway(NewProcess) /\ ~NewProcess.pending
  BY DEF NewProcess, Own!Fresh, Underway, Procs, Phases, Outcomes

(* Task.cancel() marks it, and changes nothing else. *)
LEMMA AskedProcess ==
  ASSUME NEW p, NEW q, Underway(p)
  PROVE  /\ Underway(Own(q)!Asked(p)) /\ Marked(Own(q)!Asked(p))
         /\ Own(q)!Asked(p).how = p.how
  BY DEF Own!Asked, Underway, Marked, Procs, Phases, Outcomes

(* Its group lives or dies; after the end it only dies. *)
LEMMA LivingProcess ==
  ASSUME NEW p \in Procs, NEW q, NEW r \in Own(q)!Lives(p)
  PROVE  /\ r \in Procs /\ r.report = p.report
         /\ Underway(p) => Underway(r)
         /\ Marked(p) => Marked(r)
         /\ Doomed(p) => Doomed(r)
         /\ r.pending => p.pending
  <1>1. PICK a \in BOOLEAN : r = [p EXCEPT !.alive = a] /\ (a => Own(q)!Going(p))
    BY DEF Own!Lives
  <1>2. r \in Procs /\ r.phase = p.phase /\ r.how = p.how /\ r.report = p.report /\ r.pending = p.pending
    BY <1>1 DEF Procs, Outcomes
  <1>3. QED  BY <1>1, <1>2 DEF Underway, Marked, Doomed

(* Undercutting it says nothing of how it ends. *)
LEMMA UndercutProcess ==
  ASSUME NEW p \in Procs, NEW q, NEW r \in Own(q)!Undercuts(p)
  PROVE  /\ r \in Procs /\ r.report = p.report
         /\ Underway(p) => Underway(r)
         /\ Marked(p) => Marked(r)
         /\ Doomed(p) => Doomed(r)
         /\ r.pending => p.pending
  <1>1. PICK a \in BOOLEAN : r = Own(q)!Undercut(p, a)
    BY DEF Own!Undercuts
  <1>2. r \in Procs /\ r.phase = p.phase /\ r.how = p.how /\ r.report = p.report /\ r.pending = p.pending
    BY <1>1 DEF Own!Undercut, Procs, Outcomes
  <1>3. QED  BY <1>1, <1>2 DEF Underway, Marked, Doomed

(* The exchange goes on to its end: neither a mark nor a deadline is lost. *)
LEMMA ProceedingProcess ==
  ASSUME Nobody # "cancelled", Nobody # "failed",
         NEW p \in Procs, NEW q, NEW r \in Own(q)!Proceeds(p)
  PROVE  /\ p.phase # "ended"
         /\ r \in Procs /\ r.report = p.report
         /\ Underway(p) => Underway(r)
         /\ Marked(p) => Marked(r)
         /\ Doomed(p) => Doomed(r)
         /\ r.pending => p.pending
  <1>1. CASE p.phase = "launching" /\ ~p.pending
    <2>1. r = [p EXCEPT !.phase = "working"]  BY <1>1 DEF Own!Proceeds
    <2>2. r \in Procs /\ r.phase = "working" /\ r.how = p.how /\ r.report = p.report /\ r.pending = p.pending
      BY <2>1 DEF Procs, Phases, Outcomes
    <2>3. QED  BY <1>1, <2>2 DEF Underway, Marked, Doomed
  <1>2. CASE p.phase = "working" /\ (p.pending \/ p.how = Nobody)
    <2>1. PICK h \in {"output", "failed", "cancelled"} :
              /\ r = Own(q)!Exchanged(p, h)
              /\ p.pending => h = "cancelled"
      BY <1>2 DEF Own!Proceeds
    <2>2. r \in Procs /\ r.phase = "working" /\ r.how = h /\ r.report = p.report /\ ~r.pending
      BY <2>1 DEF Own!Exchanged, Procs, Phases, Outcomes
    <2>3. QED  BY <1>2, <2>1, <2>2 DEF Underway, Marked, Doomed
  <1>3. CASE p.phase = "working" /\ ~p.pending /\ p.how # Nobody
    <2>1. r = [p EXCEPT !.phase = "teardown"]  BY <1>3 DEF Own!Proceeds
    <2>2. r \in Procs /\ r.phase = "teardown" /\ r.how = p.how /\ r.report = p.report /\ r.pending = p.pending
      BY <2>1 DEF Procs, Phases, Outcomes
    <2>3. QED  BY <1>3, <2>2 DEF Underway, Marked, Doomed
  <1>4. CASE ~(p.phase = "launching" /\ ~p.pending) /\ p.phase # "working"
    BY <1>4 DEF Own!Proceeds
  <1>5. QED  BY <1>1, <1>2, <1>3, <1>4

(* The call ends: as cancelled if it was marked, and with output only of a *)
(* process that no deadline ended, has nothing to report, and is gone or   *)
(* undercut.                                                               *)
LEMMA EndingProcess ==
  ASSUME Nobody # "cancelled", Nobody # "output",
         NEW p, NEW q, Underway(p), NEW r \in Own(q)!Endings(p)
  PROVE  /\ r \in Procs /\ r.phase = "ended"
         /\ Marked(p) => r.how = "cancelled"
         /\ r.how = "output" => Delivered(r) /\ ~r.report /\ ~Doomed(p)
  <1>1. CASE p.phase = "launching"
    <2>1. r \in Own(q)!Unstarted(p)  BY <1>1 DEF Own!Endings
    <2>2. PICK a \in BOOLEAN : r = Own(q)!Ended(p, IF p.pending THEN "cancelled" ELSE "failed", FALSE, a)
      BY <2>1 DEF Own!Unstarted, Underway, Procs
    <2>3. r \in Procs /\ r.phase = "ended" /\ r.how = IF p.pending THEN "cancelled" ELSE "failed"
      BY <2>2 DEF Own!Ended, Procs, Phases, Outcomes, Underway
    <2>4. p.how # "cancelled"  BY <1>1 DEF Underway
    <2>5. QED  BY <2>3, <2>4 DEF Marked
  <1>2. CASE p.phase = "teardown" /\ ~p.pending
    <2>1. r \in Own(q)!TornDown(p)  BY <1>2 DEF Own!Endings
    <2>2. PICK report \in BOOLEAN :
              /\ ~report => ~p.alive \/ p.undercut
              /\ r = Own(q)!Ended(p, IF report /\ p.how = "output" THEN "failed" ELSE p.how, report, p.alive)
      BY <2>1 DEF Own!TornDown
    <2>3. /\ r \in Procs /\ r.phase = "ended" /\ r.report = report /\ r.alive = p.alive /\ r.undercut = p.undercut
          /\ r.how = IF report /\ p.how = "output" THEN "failed" ELSE p.how
      BY <2>2 DEF Own!Ended, Procs, Phases, Outcomes, Underway
    <2>4. QED  BY <1>2, <2>2, <2>3 DEF Marked, Delivered, Doomed
  <1>3. CASE p.phase = "teardown" /\ p.pending
    <2>1. r = Own(q)!Ended(p, "cancelled", FALSE, p.alive)  BY <1>3 DEF Own!Endings
    <2>2. r \in Procs /\ r.phase = "ended" /\ r.how = "cancelled"
      BY <2>1 DEF Own!Ended, Procs, Phases, Outcomes, Underway
    <2>3. QED  BY <2>2
  <1>4. CASE p.phase \notin {"launching", "teardown"}
    BY <1>4 DEF Own!Endings
  <1>5. QED  BY <1>1, <1>2, <1>3, <1>4

-----------------------------------------------------------------------------
Steps    == {"idle", "probe", "judging", "retain", "done"}
HookEnds == {"none", "waiting", "ok", "failed", "timeout", "cancelled"}

JudgeTyped ==
    /\ step \in [Tasks -> Steps] /\ kind \in [Tasks -> {"assess", "judge", Nobody}]
    /\ process \in [Tasks -> Procs \cup {Nobody}] /\ asked \in [Tasks -> Nat]
    /\ answer \in [Tasks -> Replies \cup {Nobody}]
    /\ assessor \in Tasks \cup {Nobody} /\ judger \in Tasks \cup {Nobody}
    /\ closed \in BOOLEAN /\ cleanupError \in BOOLEAN
    /\ observation \in Tasks \cup {Nobody} /\ kept \in SUBSET Tasks
    /\ hook \in [Hooks -> HookEnds] /\ awaited \in [Hooks -> SUBSET Tasks]

(* The adapter knows whom it works for, and nobody else. *)
Known ==
    /\ assessor # Nobody => Running(assessor)
    /\ judger # Nobody => Active(judger) /\ kind[judger] = "judge"

(* Of each task, by its step. *)
TaskKept(t) ==
    /\ step[t] = "idle" => asked[t] = 0
    /\ Active(t) \/ step[t] = "idle" => answer[t] = Nobody
    /\ Active(t) /\ kind[t] = "judge" => judger = t
    /\ Running(t) => assessor = t /\ Underway(process[t]) /\ (asked[t] > 0 => Marked(process[t])) /\ (process[t].pending => asked[t] > 0)
    /\ step[t] = "retain" =>
           kind[t] = "judge" /\ assessor = Nobody /\ observation = t /\ Delivered(process[t])
    /\ answer[t] \in {"evidence", "observed"} =>
           Delivered(process[t]) /\ (kind[t] = "judge" => t \in kept)
    /\ asked[t] > 0 => Active(t) \/ answer[t] = "cancelled"
    /\ closed /\ Active(t) => asked[t] > 0 \/ (Running(t) /\ Doomed(process[t]))
    /\ process[t] # Nobody /\ process[t].report => cleanupError

(* Of each cleanup: it waits for everybody, and success stays true. *)
HookKept(h) ==
    /\ hook[h] # "none" => closed
    /\ hook[h] = "waiting" => \A t \in Tasks : Active(t) => t \in awaited[h]
    /\ hook[h] = "ok" => \A t \in Tasks : ~Active(t) /\ (process[t] # Nobody => ~process[t].report)

JudgeInv ==
    /\ JudgeTyped /\ Known
    /\ \A t \in Tasks : TaskKept(t)
    /\ \A h \in Hooks : HookKept(h)

(* Nobody works on a new adapter. *)
LEMMA JudgeInvInit == JudgeInit => JudgeInv
  <1> SUFFICES ASSUME JudgeInit PROVE JudgeInv
    OBVIOUS
  <1> USE DEF JudgeInit
  <1>1. JudgeTyped  BY DEF JudgeTyped, Steps, HookEnds
  <1>2. Known  BY DEF Known
  <1>3. ASSUME NEW t \in Tasks PROVE TaskKept(t)
    BY AdapterAssumption DEF TaskKept, Active, Running, AdapterAssumption, Replies
  <1>4. ASSUME NEW h \in Hooks PROVE HookKept(h)
    BY DEF HookKept
  <1>5. QED  BY <1>1, <1>2, <1>3, <1>4 DEF JudgeInv

(* No task, answer or outcome is the one that says there is none. *)
LEMMA NobodyElse ==
    /\ \A r \in Replies \cup Outcomes : Nobody # r
    /\ Nobody # "output" /\ Nobody # "cancelled" /\ Nobody # "evidence" /\ Nobody # "observed"
    /\ Nobody # "closed" /\ Nobody # "busy" /\ Nobody # "failed"
    /\ Nobody \notin Tasks
  BY AdapterAssumption DEF AdapterAssumption, Replies, Outcomes

(* A refused call touches nothing of the call that is under way. *)
LEMMA RefuseKeeps == JudgeInv /\ Refuse => JudgeInv'
  <1> SUFFICES ASSUME JudgeInv, Refuse PROVE JudgeInv'
    OBVIOUS
  <1>1. PICK t \in Tasks, k \in {"assess", "judge"}, r \in {"closed", "busy", "failed"} :
            /\ step[t] = "idle" /\ answer' = [answer EXCEPT ![t] = r]
            /\ step' = [step EXCEPT ![t] = "done"] /\ kind' = [kind EXCEPT ![t] = k]
            /\ UNCHANGED <<process, asked, adapter, hooks>>
    BY DEF Refuse, Guarded
  <1> USE NobodyElse DEF JudgeInv, adapter, hooks
  <1>2. JudgeTyped'  BY <1>1 DEF JudgeTyped, Steps, Replies
  <1>3. Known'  BY <1>1 DEF Known, Active, Running, JudgeTyped
  <1>4. ASSUME NEW u \in Tasks PROVE TaskKept(u)'
    <2>1. CASE u = t  BY <1>1, <2>1 DEF JudgeTyped, TaskKept, Active, Running
    <2>2. CASE u # t  BY <1>1, <2>2 DEF JudgeTyped, TaskKept, Active, Running
    <2>3. QED  BY <2>1, <2>2
  <1>5. ASSUME NEW h \in Hooks PROVE HookKept(h)'
    BY <1>1 DEF JudgeTyped, HookKept, Active, Running
  <1>6. QED  BY <1>2, <1>3, <1>4, <1>5 DEF JudgeInv

(* A call is let in only when nobody is active, so that the adapter is its *)
(* own and the last observation may be forgotten.                          *)
LEMMA BeginKeeps == JudgeInv /\ Begin => JudgeInv'
  <1> SUFFICES ASSUME JudgeInv, Begin PROVE JudgeInv'
    OBVIOUS
  <1>1. PICK t \in Tasks, k \in {"assess", "judge"} :
            /\ step[t] = "idle" /\ Guarded(t, k) = Nobody
            /\ observation' = Nobody
            /\ kind' = [kind EXCEPT ![t] = k]
            /\ \/ /\ step' = [step EXCEPT ![t] = "done"]
                  /\ answer' = [answer EXCEPT ![t] = "failed"]
                  /\ UNCHANGED <<process, assessor, judger>>
               \/ /\ step' = [step EXCEPT ![t] = "probe"]
                  /\ process' = [process EXCEPT ![t] = NewProcess]
                  /\ assessor' = t
                  /\ judger' = IF k = "judge" THEN t ELSE judger
                  /\ UNCHANGED answer
    BY DEF Begin
  <1>2. UNCHANGED <<asked, closed, cleanupError, kept, hook, awaited>>
    BY DEF Begin, hooks
  <1> USE NobodyElse DEF JudgeInv
  <1>3. ~closed /\ assessor = Nobody /\ judger = Nobody
    <2>1. judger # t  BY <1>1 DEF Known, Active
    <2>2. QED  BY <1>1, <2>1 DEF Guarded
  <1>4. \A u \in Tasks : ~Active(u)
    BY <1>3 DEF TaskKept, Active, Running, JudgeTyped
  <1>5. Underway(NewProcess) /\ NewProcess \in Procs /\ ~NewProcess.report /\ ~NewProcess.pending
    BY FreshProcess DEF Underway
  <1>6. CASE step' = [step EXCEPT ![t] = "done"] /\ answer' = [answer EXCEPT ![t] = "failed"] /\ UNCHANGED <<process, assessor, judger>>
    <2>1. JudgeTyped'  BY <1>1, <1>2, <1>6 DEF JudgeTyped, Steps, Replies
    <2>2. Known'  BY <1>3, <1>6 DEF Known
    <2>3. ASSUME NEW u \in Tasks PROVE TaskKept(u)'
      BY <1>1, <1>2, <1>3, <1>4, <1>6 DEF JudgeTyped, TaskKept, Active, Running
    <2>4. ASSUME NEW h \in Hooks PROVE HookKept(h)'
      BY <1>2, <1>3 DEF HookKept, JudgeTyped
    <2>5. QED  BY <2>1, <2>2, <2>3, <2>4
  <1>7. CASE /\ step' = [step EXCEPT ![t] = "probe"] /\ process' = [process EXCEPT ![t] = NewProcess]
             /\ assessor' = t /\ judger' = (IF k = "judge" THEN t ELSE judger) /\ UNCHANGED answer
    <2>1. JudgeTyped'  BY <1>1, <1>2, <1>5, <1>7 DEF JudgeTyped, Steps
    <2>2. Known'  BY <1>1, <1>3, <1>7 DEF Known, Active, Running, JudgeTyped
    <2>3. ASSUME NEW u \in Tasks PROVE TaskKept(u)'
      <3>1. CASE u = t
        BY <1>1, <1>2, <1>3, <1>5, <1>7, <3>1 DEF JudgeTyped, TaskKept, Active, Running
      <3>2. CASE u # t
        BY <1>1, <1>2, <1>3, <1>4, <1>7, <3>2 DEF JudgeTyped, TaskKept, Active, Running
      <3>3. QED  BY <3>1, <3>2
    <2>4. ASSUME NEW h \in Hooks PROVE HookKept(h)'
      BY <1>2, <1>3 DEF HookKept, JudgeTyped
    <2>5. QED  BY <2>1, <2>2, <2>3, <2>4
  <1>8. QED  BY <1>1, <1>6, <1>7

(* A process goes on below the adapter: its marks and its deadline stay. *)
LEMMA ProcessGoesKeeps == JudgeInv /\ ProcessGoes => JudgeInv'
  <1> SUFFICES ASSUME JudgeInv, ProcessGoes PROVE JudgeInv'
    OBVIOUS
  <1> USE NobodyElse DEF JudgeInv
  <1>0. PICK t \in Tasks :
            /\ Running(t)
            /\ \E q \in Own(process[t])!Lives(process[t]) \cup Own(process[t])!Undercuts(process[t])
                         \cup Own(process[t])!Proceeds(process[t]) :
                  process' = [process EXCEPT ![t] = q]
    BY DEF ProcessGoes
  <1>1. PICK p :
            /\ Running(t)
            /\ p \in Own(process[t])!Lives(process[t]) \cup Own(process[t])!Undercuts(process[t])
                         \cup Own(process[t])!Proceeds(process[t])
            /\ process' = [process EXCEPT ![t] = p]
    BY <1>0
  <1>2. UNCHANGED <<step, kind, asked, answer, adapter, hooks>>
    BY DEF ProcessGoes
  <1> DEFINE o == process[t]
  <1>3. Underway(o) /\ o \in Procs  BY <1>1 DEF TaskKept, Underway
  <1> HIDE DEF o
  <1>4. /\ p \in Procs /\ p.report = o.report
        /\ Underway(p) /\ ~p.report
        /\ Marked(o) => Marked(p)
        /\ Doomed(o) => Doomed(p)
        /\ p.pending => o.pending
    <2>1. CASE p \in Own(o)!Lives(o)
      BY <1>3, <2>1, LivingProcess DEF Underway
    <2>2. CASE p \in Own(o)!Undercuts(o)
      BY <1>3, <2>2, UndercutProcess DEF Underway
    <2>3. CASE p \in Own(o)!Proceeds(o)
      BY <1>3, <2>3, ProceedingProcess DEF Underway
    <2>4. QED  BY <1>1, <2>1, <2>2, <2>3 DEF o, Underway
  <1>5. JudgeTyped'  BY <1>1, <1>2, <1>4 DEF JudgeTyped, adapter, hooks
  <1>6. Known'  BY <1>2 DEF Known, Active, Running, adapter
  <1>7. ASSUME NEW u \in Tasks PROVE TaskKept(u)'
    <2>1. CASE u = t
      BY <1>1, <1>2, <1>4, <2>1 DEF JudgeTyped, TaskKept, Active, Running, adapter, o
    <2>2. CASE u # t
      BY <1>1, <1>2, <2>2 DEF JudgeTyped, TaskKept, Active, Running, adapter
    <2>3. QED  BY <2>1, <2>2
  <1>8. ASSUME NEW h \in Hooks PROVE HookKept(h)'
    BY <1>1, <1>2, <1>4 DEF JudgeTyped, HookKept, Active, Running, adapter, hooks, o
  <1>9. QED  BY <1>5, <1>6, <1>7, <1>8

(* A probe that printed was not cancelled, nor ended by a deadline, so no  *)
(* cleanup has begun.                                                      *)
LEMMA ProbeReturnsKeeps == JudgeInv /\ ProbeReturns => JudgeInv'
  <1> SUFFICES ASSUME JudgeInv, ProbeReturns PROVE JudgeInv'
    OBVIOUS
  <1> USE NobodyElse DEF JudgeInv
  <1>0. PICK t \in Tasks :
            \E p :
               /\ p \in Own(process[t])!Endings(process[t])
               /\ step[t] = "probe" /\ p.how = "output"
               /\ step' = [step EXCEPT ![t] = "judging"]
               /\ process' = [process EXCEPT ![t] = NewProcess]
    BY DEF ProbeReturns
  <1>1. PICK p :
            /\ p \in Own(process[t])!Endings(process[t])
            /\ step[t] = "probe" /\ p.how = "output"
            /\ step' = [step EXCEPT ![t] = "judging"]
            /\ process' = [process EXCEPT ![t] = NewProcess]
    BY <1>0
  <1>2. UNCHANGED <<kind, asked, answer, adapter, hooks>>
    BY DEF ProbeReturns
  <1>3. asked[t] = 0 /\ ~closed
    <2>1. Underway(process[t]) /\ (asked[t] > 0 => Marked(process[t]))
      BY <1>1 DEF TaskKept, Running
    <2>2. ~Marked(process[t]) /\ ~Doomed(process[t])  BY <1>1, <2>1, EndingProcess
    <2>3. asked[t] = 0  BY <2>1, <2>2 DEF JudgeTyped
    <2>4. QED  BY <1>1, <2>2, <2>3 DEF TaskKept, Active, Running
  <1>4. Underway(NewProcess) /\ NewProcess \in Procs /\ ~NewProcess.report /\ ~NewProcess.pending
    BY FreshProcess DEF Underway
  <1>5. JudgeTyped'  BY <1>1, <1>2, <1>4 DEF JudgeTyped, Steps, adapter, hooks
  <1>6. Known'  BY <1>1, <1>2 DEF Known, Active, Running, adapter, JudgeTyped
  <1>7. ASSUME NEW u \in Tasks PROVE TaskKept(u)'
    <2>1. CASE u = t
      BY <1>1, <1>2, <1>3, <1>4, <2>1 DEF JudgeTyped, TaskKept, Active, Running, adapter
    <2>2. CASE u # t
      BY <1>1, <1>2, <2>2 DEF JudgeTyped, TaskKept, Active, Running, adapter
    <2>3. QED  BY <2>1, <2>2
  <1>8. ASSUME NEW h \in Hooks PROVE HookKept(h)'
    BY <1>1, <1>2, <1>4 DEF JudgeTyped, HookKept, Active, Running, adapter, hooks
  <1>9. QED  BY <1>5, <1>6, <1>7, <1>8

(* A call that fails takes its mark and its teardown failure with it. *)
LEMMA AssessFailsKeeps == JudgeInv /\ AssessFails => JudgeInv'
  <1> SUFFICES ASSUME JudgeInv, AssessFails PROVE JudgeInv'
    OBVIOUS
  <1> USE NobodyElse DEF JudgeInv
  <1>0. PICK t \in Tasks, scratch \in BOOLEAN :
            \E p :
               /\ Running(t) /\ p \in Own(process[t])!Endings(process[t])
               /\ process' = [process EXCEPT ![t] = p]
               /\ cleanupError' = (cleanupError \/ p.report \/ scratch)
               /\ Answers(t, IF p.how = "cancelled" THEN "cancelled" ELSE "failed")
    BY DEF AssessFails
  <1>a. PICK p :
            /\ Running(t) /\ p \in Own(process[t])!Endings(process[t])
            /\ process' = [process EXCEPT ![t] = p]
            /\ cleanupError' = (cleanupError \/ p.report \/ scratch)
            /\ Answers(t, IF p.how = "cancelled" THEN "cancelled" ELSE "failed")
    BY <1>0
  <1>b. PICK r \in {"cancelled", "failed"} : r = IF p.how = "cancelled" THEN "cancelled" ELSE "failed"
    OBVIOUS
  <1>1. /\ Running(t) /\ p \in Own(process[t])!Endings(process[t])
        /\ p.how = "cancelled" => r = "cancelled"
        /\ step' = [step EXCEPT ![t] = "done"] /\ answer' = [answer EXCEPT ![t] = r]
        /\ process' = [process EXCEPT ![t] = p]
        /\ cleanupError \/ p.report => cleanupError'
        /\ cleanupError' \in BOOLEAN
        /\ judger' = IF judger = t THEN Nobody ELSE judger
    BY <1>a, <1>b DEF Answers
  <1>2. assessor' = Nobody /\ UNCHANGED <<kind, asked, closed, observation, kept, hook, awaited>>
    BY DEF AssessFails, hooks
  <1>3. /\ p \in Procs /\ (asked[t] > 0 => r = "cancelled")
        /\ assessor = t /\ step[t] \in {"probe", "judging"} /\ answer[t] = Nobody
    <2>1. Underway(process[t]) /\ (asked[t] > 0 => Marked(process[t])) /\ assessor = t /\ answer[t] = Nobody
      BY <1>1 DEF TaskKept, Running, Active
    <2>2. p \in Procs /\ (Marked(process[t]) => p.how = "cancelled")
      BY <1>1, <2>1, EndingProcess
    <2>3. QED  BY <1>1, <2>1, <2>2 DEF Running
  <1>4. JudgeTyped'  BY <1>1, <1>2, <1>3 DEF JudgeTyped, Steps, Replies
  <1>5. Known'  BY <1>1, <1>2, <1>3 DEF Known, Active, Running, JudgeTyped
  <1>6. ASSUME NEW u \in Tasks PROVE TaskKept(u)'
    <2>1. CASE u = t
      BY <1>1, <1>2, <1>3, <2>1 DEF JudgeTyped, TaskKept, Active, Running
    <2>2. CASE u # t
      BY <1>1, <1>2, <1>3, <2>2 DEF JudgeTyped, TaskKept, Active, Running
    <2>3. QED  BY <2>1, <2>2
  <1>7. ASSUME NEW h \in Hooks PROVE HookKept(h)'
    BY <1>1, <1>2, <1>3 DEF JudgeTyped, HookKept, Active, Running
  <1>8. QED  BY <1>4, <1>5, <1>6, <1>7

(* What is observed comes from an unmarked process. *)
LEMMA ObserveKeeps == JudgeInv /\ Observe => JudgeInv'
  <1> SUFFICES ASSUME JudgeInv, Observe PROVE JudgeInv'
    OBVIOUS
  <1> USE NobodyElse DEF JudgeInv
  <1>0. PICK t \in Tasks :
            \E p :
               /\ step[t] = "judging" /\ p \in Own(process[t])!Endings(process[t]) /\ p.how = "output"
               /\ process' = [process EXCEPT ![t] = p]
               /\ observation' = t
               /\ IF kind[t] = "judge"
                  THEN step' = [step EXCEPT ![t] = "retain"] /\ UNCHANGED <<answer, judger>>
                  ELSE Answers(t, "observed")
    BY DEF Observe
  <1>1. PICK p :
            /\ step[t] = "judging" /\ p \in Own(process[t])!Endings(process[t]) /\ p.how = "output"
            /\ process' = [process EXCEPT ![t] = p]
            /\ observation' = t
            /\ IF kind[t] = "judge"
               THEN step' = [step EXCEPT ![t] = "retain"] /\ UNCHANGED <<answer, judger>>
               ELSE Answers(t, "observed")
    BY <1>0
  <1>2. assessor' = Nobody /\ UNCHANGED <<kind, asked, closed, cleanupError, kept, hook, awaited>>
    BY DEF Observe, hooks
  <1>3. p \in Procs /\ Delivered(p) /\ ~p.report /\ asked[t] = 0 /\ ~closed /\ assessor = t /\ answer[t] = Nobody
    <2>1. Underway(process[t]) /\ (asked[t] > 0 => Marked(process[t])) /\ assessor = t /\ answer[t] = Nobody
      BY <1>1 DEF TaskKept, Running, Active
    <2>2. p \in Procs /\ ~Marked(process[t]) /\ Delivered(p) /\ ~p.report /\ ~Doomed(process[t])
      BY <1>1, <2>1, EndingProcess
    <2>3. asked[t] = 0  BY <2>1, <2>2 DEF JudgeTyped
    <2>4. QED  BY <1>1, <2>1, <2>2, <2>3 DEF TaskKept, Active, Running
  <1>4. CASE kind[t] = "judge"
    <2>1. step' = [step EXCEPT ![t] = "retain"] /\ UNCHANGED <<answer, judger>>  BY <1>1, <1>4
    <2>2. JudgeTyped'  BY <1>1, <1>2, <1>3, <2>1 DEF JudgeTyped, Steps
    <2>3. Known'  BY <1>1, <1>2, <1>4, <2>1 DEF Known, Active, Running, JudgeTyped
    <2>4. ASSUME NEW u \in Tasks PROVE TaskKept(u)'
      <3>1. CASE u = t
        BY <1>1, <1>2, <1>3, <1>4, <2>1, <3>1 DEF JudgeTyped, TaskKept, Active, Running
      <3>2. CASE u # t
        BY <1>1, <1>2, <1>3, <2>1, <3>2 DEF JudgeTyped, TaskKept, Active, Running
      <3>3. QED  BY <3>1, <3>2
    <2>5. ASSUME NEW h \in Hooks PROVE HookKept(h)'
      BY <1>1, <1>2, <1>3, <2>1 DEF JudgeTyped, HookKept, Active, Running
    <2>6. QED  BY <2>2, <2>3, <2>4, <2>5
  <1>5. CASE kind[t] # "judge"
    <2>1. /\ step' = [step EXCEPT ![t] = "done"] /\ answer' = [answer EXCEPT ![t] = "observed"]
          /\ judger' = judger
      BY <1>1, <1>5 DEF Answers, Known
    <2>2. JudgeTyped'  BY <1>1, <1>2, <1>3, <2>1 DEF JudgeTyped, Steps, Replies
    <2>3. Known'  BY <1>1, <1>2, <1>5, <2>1 DEF Known, Active, Running, JudgeTyped
    <2>4. ASSUME NEW u \in Tasks PROVE TaskKept(u)'
      <3>1. CASE u = t
        BY <1>1, <1>2, <1>3, <1>5, <2>1, <3>1 DEF JudgeTyped, TaskKept, Active, Running
      <3>2. CASE u # t
        BY <1>1, <1>2, <1>3, <2>1, <3>2 DEF JudgeTyped, TaskKept, Active, Running
      <3>3. QED  BY <3>1, <3>2
    <2>5. ASSUME NEW h \in Hooks PROVE HookKept(h)'
      BY <1>1, <1>2, <1>3, <2>1 DEF JudgeTyped, HookKept, Active, Running
    <2>6. QED  BY <2>2, <2>3, <2>4, <2>5
  <1>6. QED  BY <1>4, <1>5

(* The callback returns; a cancellation that came meanwhile decides. *)
LEMMA RetainReturnsKeeps == JudgeInv /\ RetainReturns => JudgeInv'
  <1> SUFFICES ASSUME JudgeInv, RetainReturns PROVE JudgeInv'
    OBVIOUS
  <1> USE NobodyElse DEF JudgeInv
  <1>1. PICK t \in Tasks, r \in {"evidence", "failed", "cancelled"} :
            /\ step[t] = "retain"
            /\ asked[t] > 0 => r = "cancelled"
            /\ r = "evidence" => t \in kept'
            /\ kept \subseteq kept' /\ kept' \subseteq kept \cup {t}
            /\ step' = [step EXCEPT ![t] = "done"] /\ answer' = [answer EXCEPT ![t] = r]
            /\ judger' = IF judger = t THEN Nobody ELSE judger
    BY DEF RetainReturns, Answers
  <1>2. UNCHANGED <<kind, process, asked, assessor, closed, cleanupError, observation, hook, awaited>>
    BY DEF RetainReturns, hooks
  <1>3. assessor = Nobody /\ judger = t  BY <1>1 DEF TaskKept, Active
  <1>4. JudgeTyped'  BY <1>1, <1>2 DEF JudgeTyped, Steps, Replies
  <1>5. Known'  BY <1>1, <1>2, <1>3 DEF Known
  <1>6. ASSUME NEW u \in Tasks PROVE TaskKept(u)'
    <2>1. CASE u = t
      BY <1>1, <1>2, <2>1 DEF JudgeTyped, TaskKept, Active, Running
    <2>2. CASE u # t
      BY <1>1, <1>2, <1>3, <2>2 DEF JudgeTyped, TaskKept, Active, Running
    <2>3. QED  BY <2>1, <2>2
  <1>7. ASSUME NEW h \in Hooks PROVE HookKept(h)'
    BY <1>1, <1>2 DEF JudgeTyped, HookKept, Active, Running
  <1>8. QED  BY <1>4, <1>5, <1>6, <1>7

(* Cancelling a set of active tasks marks their processes, and nothing of  *)
(* the others.                                                             *)
LEMMA CancellingKeeps ==
  ASSUME JudgeInv, NEW S \in SUBSET Tasks, \A t \in S : Active(t), Cancelling(S)
  PROVE  /\ asked' \in [Tasks -> Nat] /\ process' \in [Tasks -> Procs \cup {Nobody}]
         /\ \A t \in Tasks :
               /\ asked[t] > 0 \/ t \in S => asked'[t] > 0
               /\ asked'[t] > 0 => asked[t] > 0 \/ t \in S
               /\ ~Running(t) => process'[t] = process[t]
               /\ Running(t) => /\ Underway(process'[t]) /\ ~process'[t].report
                                /\ asked'[t] > 0 => Marked(process'[t])
                                /\ process'[t].pending => asked'[t] > 0
                                /\ Doomed(process[t]) => Doomed(process'[t]) \/ asked'[t] > 0
  <1>1. asked' = [t \in Tasks |-> IF t \in S THEN asked[t] + 1 ELSE asked[t]]
        /\ process' = [t \in Tasks |-> IF t \in S /\ Running(t) THEN Own(process[t])!Asked(process[t]) ELSE process[t]]
    BY DEF Cancelling
  <1>2. asked \in [Tasks -> Nat] /\ process \in [Tasks -> Procs \cup {Nobody}]
    BY DEF JudgeInv, JudgeTyped
  <1>3. ASSUME NEW t \in Tasks, Running(t)
        PROVE  Underway(process[t]) /\ (asked[t] > 0 => Marked(process[t])) /\ (process[t].pending => asked[t] > 0)
    BY <1>3 DEF JudgeInv, TaskKept
  <1>4. ASSUME NEW t \in Tasks, Running(t)
        PROVE  /\ Underway(Own(process[t])!Asked(process[t])) /\ Marked(Own(process[t])!Asked(process[t]))
               /\ Own(process[t])!Asked(process[t]) \in Procs
               /\ ~Own(process[t])!Asked(process[t]).report /\ ~process[t].report
    BY <1>3, <1>4, AskedProcess DEF Underway
  <1>5. asked' \in [Tasks -> Nat] /\ process' \in [Tasks -> Procs \cup {Nobody}]
    BY <1>1, <1>2, <1>4
  <1>6. ASSUME NEW t \in Tasks
        PROVE  /\ asked[t] > 0 \/ t \in S => asked'[t] > 0
               /\ asked'[t] > 0 => asked[t] > 0 \/ t \in S
    BY <1>1, <1>2
  <1>7. ASSUME NEW t \in Tasks, ~Running(t)
        PROVE  process'[t] = process[t]
    BY <1>1, <1>7
  <1>8. ASSUME NEW t \in Tasks, Running(t)
        PROVE  /\ Underway(process'[t]) /\ ~process'[t].report
               /\ asked'[t] > 0 => Marked(process'[t])
               /\ process'[t].pending => asked'[t] > 0
               /\ Doomed(process[t]) => Doomed(process'[t]) \/ asked'[t] > 0
    <2>1. CASE t \in S
      BY <1>1, <1>4, <1>6, <1>8, <2>1
    <2>2. CASE t \notin S
      BY <1>1, <1>3, <1>4, <1>6, <1>8, <2>2
    <2>3. QED  BY <2>1, <2>2
  <1>9. QED  BY <1>5, <1>6, <1>7, <1>8

(* The caller cancels one task. *)
LEMMA CallerCancelsKeeps == JudgeInv /\ CallerCancelsTask => JudgeInv'
  <1> SUFFICES ASSUME JudgeInv, CallerCancelsTask PROVE JudgeInv'
    OBVIOUS
  <1>1. PICK t \in Tasks : Active(t) /\ Cancelling({t})
    BY DEF CallerCancelsTask
  <1>2. UNCHANGED <<step, kind, answer, adapter, hooks>>
    BY DEF CallerCancelsTask
  <1>3. /\ asked' \in [Tasks -> Nat] /\ process' \in [Tasks -> Procs \cup {Nobody}]
        /\ \A u \in Tasks :
               /\ asked[u] > 0 \/ u \in {t} => asked'[u] > 0
               /\ asked'[u] > 0 => asked[u] > 0 \/ u \in {t}
               /\ ~Running(u) => process'[u] = process[u]
               /\ Running(u) => /\ Underway(process'[u]) /\ ~process'[u].report
                                /\ asked'[u] > 0 => Marked(process'[u])
                                /\ process'[u].pending => asked'[u] > 0
                                /\ Doomed(process[u]) => Doomed(process'[u]) \/ asked'[u] > 0
    <2>1. {t} \in SUBSET Tasks /\ \A u \in {t} : Active(u)  BY <1>1
    <2>2. QED  BY <1>1, <2>1, CancellingKeeps
  <1> USE DEF JudgeInv, adapter, hooks
  <1>4. JudgeTyped'  BY <1>2, <1>3 DEF JudgeTyped
  <1>5. Known'  BY <1>2 DEF Known, Active, Running
  <1>6. ASSUME NEW u \in Tasks PROVE TaskKept(u)'
    <2>1. step[u] = "idle" => asked'[u] = 0
      BY <1>1, <1>3 DEF TaskKept, Active, JudgeTyped
    <2>2. CASE Running(u)
      BY <1>1, <1>2, <1>3, <2>1, <2>2, NobodyElse DEF TaskKept, Active, Running
    <2>3. CASE ~Running(u)
      BY <1>1, <1>2, <1>3, <2>1, <2>3, NobodyElse DEF TaskKept, Active, Running
    <2>4. QED  BY <2>2, <2>3
  <1>7. ASSUME NEW h \in Hooks PROVE HookKept(h)'
    BY <1>2, <1>3 DEF HookKept, Active, Running
  <1>8. QED  BY <1>4, <1>5, <1>6, <1>7

(* At most one task is active. *)
LEMMA OneActive ==
  JudgeInv => \A t, u \in Tasks : Active(t) /\ Active(u) => t = u
  <1> SUFFICES ASSUME JudgeInv, NEW t \in Tasks, NEW u \in Tasks, Active(t), Active(u)
               PROVE  t = u
    OBVIOUS
  <1>1. TaskKept(t) /\ TaskKept(u)  BY DEF JudgeInv
  <1>2. QED  BY <1>1, NobodyElse DEF TaskKept, Active, Running

(* What a cleanup does to the task it finds: it cancels it, unless a       *)
(* cancellation or a deadline ends it already.                             *)
LEMMA HookReaches ==
  ASSUME JudgeInv, HookBegins
  PROVE  /\ asked' \in [Tasks -> Nat] /\ process' \in [Tasks -> Procs \cup {Nobody}]
         /\ \A u \in Tasks :
               /\ asked[u] > 0 => asked'[u] > 0
               /\ asked'[u] > 0 => asked[u] > 0 \/ Active(u)
               /\ ~Running(u) => process'[u] = process[u]
               /\ Running(u) => /\ Underway(process'[u]) /\ ~process'[u].report
                                /\ asked'[u] > 0 => Marked(process'[u])
                                /\ process'[u].pending => asked'[u] > 0
               /\ Active(u) => asked'[u] > 0 \/ (Running(u) /\ Doomed(process'[u]))
  <1> DEFINE active == {assessor, judger} \ {Nobody}
             S == {t \in active : asked[t] = 0}
  <1>1. \/ Cancelling(S)
        \/ \E t \in S : /\ Running(t)
                        /\ process' = [process EXCEPT ![t].how = "failed"]
                        /\ UNCHANGED asked
    BY DEF HookBegins
  <1>2. active \in SUBSET Tasks /\ \A t \in active : Active(t)
    BY DEF JudgeInv, JudgeTyped, Known, Active, Running
  <1>3. \A t \in Tasks : Active(t) => t \in active
    <2>1. ASSUME NEW t \in Tasks, Active(t) PROVE t \in {assessor, judger}
      BY <2>1 DEF JudgeInv, TaskKept, Active, Running
    <2>2. QED  BY <2>1, NobodyElse
  <1>4. asked \in [Tasks -> Nat] /\ process \in [Tasks -> Procs \cup {Nobody}]
    BY DEF JudgeInv, JudgeTyped
  <1>5. S \in SUBSET Tasks /\ \A t \in S : Active(t) /\ asked[t] = 0
    BY <1>2
  <1>6. \A t \in Tasks : Active(t) => asked[t] > 0 \/ t \in S
    BY <1>3, <1>4
  <1> HIDE DEF active, S
  <1>7. CASE Cancelling(S)
    <2>1. /\ asked' \in [Tasks -> Nat] /\ process' \in [Tasks -> Procs \cup {Nobody}]
          /\ \A u \in Tasks :
               /\ asked[u] > 0 \/ u \in S => asked'[u] > 0
               /\ asked'[u] > 0 => asked[u] > 0 \/ u \in S
               /\ ~Running(u) => process'[u] = process[u]
               /\ Running(u) => /\ Underway(process'[u]) /\ ~process'[u].report
                                /\ asked'[u] > 0 => Marked(process'[u])
                                /\ process'[u].pending => asked'[u] > 0
      BY <1>5, <1>7, CancellingKeeps
    <2>2. QED  BY <1>5, <1>6, <2>1
  <1>8. CASE \E t \in S : Running(t) /\ process' = [process EXCEPT ![t].how = "failed"] /\ UNCHANGED asked
    <2>1. PICK t \in S : Running(t) /\ process' = [process EXCEPT ![t].how = "failed"] /\ UNCHANGED asked
      BY <1>8
    <2>2. t \in Tasks /\ asked[t] = 0 /\ Active(t)  BY <1>5
    <2>3. ASSUME NEW u \in Tasks, Running(u)
          PROVE  u = t
      BY <2>2, <2>3, OneActive DEF Active, Running
    <2>4. Underway(process[t]) /\ ~process[t].pending /\ process[t] \in Procs /\ ~process[t].report
      BY <2>1, <2>2 DEF JudgeInv, TaskKept, Underway
    <2>5. PICK p : p = [process[t] EXCEPT !.how = "failed"]
      OBVIOUS
    <2>6. Underway(p) /\ Doomed(p) /\ p \in Procs /\ ~p.report /\ ~p.pending
      BY <2>4, <2>5 DEF Underway, Doomed, Procs, Outcomes
    <2>7. process' = [process EXCEPT ![t] = p]
      BY <2>1, <2>5
    <2>8. \A u \in Tasks : Active(u) => u = t
      BY <2>2, OneActive
    <2>9. process' \in [Tasks -> Procs \cup {Nobody}] /\ process'[t] = p
          /\ \A u \in Tasks : u # t => process'[u] = process[u]
      BY <1>4, <2>2, <2>6, <2>7
    <2>10. asked' = asked /\ Running(t)  BY <2>1
    <2>11. QED  BY <1>4, <2>2, <2>3, <2>6, <2>8, <2>9, <2>10
  <1>9. QED  BY <1>1, <1>7, <1>8

(* A cleanup closes the adapter and waits for every task that is active:   *)
(* the adapter knows them all.                                             *)
LEMMA HookBeginsKeeps == JudgeInv /\ HookBegins => JudgeInv'
  <1> SUFFICES ASSUME JudgeInv, HookBegins PROVE JudgeInv'
    OBVIOUS
  <1> DEFINE active == {assessor, judger} \ {Nobody}
  <1>1. PICK h \in Hooks :
            /\ hook[h] = "none"
            /\ awaited' = [awaited EXCEPT ![h] = active]
            /\ hook' = [hook EXCEPT ![h] = IF active = {} THEN Verdict({}) ELSE "waiting"]
    BY DEF HookBegins
  <1>2. closed' = TRUE /\ UNCHANGED <<step, kind, answer, assessor, judger, cleanupError, observation, kept>>
    BY DEF HookBegins
  <1>3. active \in SUBSET Tasks
    BY DEF JudgeInv, JudgeTyped
  <1>4. \A t \in Tasks : Active(t) => t \in active
    <2>1. ASSUME NEW t \in Tasks, Active(t) PROVE t \in {assessor, judger}
      BY <2>1 DEF JudgeInv, TaskKept, Active, Running
    <2>2. QED  BY <2>1, NobodyElse
  <1> HIDE DEF active
  <1>7. /\ asked' \in [Tasks -> Nat] /\ process' \in [Tasks -> Procs \cup {Nobody}]
        /\ \A u \in Tasks :
               /\ asked[u] > 0 => asked'[u] > 0
               /\ asked'[u] > 0 => asked[u] > 0 \/ Active(u)
               /\ ~Running(u) => process'[u] = process[u]
               /\ Running(u) => /\ Underway(process'[u]) /\ ~process'[u].report
                                /\ asked'[u] > 0 => Marked(process'[u])
                                /\ process'[u].pending => asked'[u] > 0
               /\ Active(u) => asked'[u] > 0 \/ (Running(u) /\ Doomed(process'[u]))
    BY HookReaches
  <1>8. PICK v \in {"ok", "failed", "waiting"} :
            /\ hook' = [hook EXCEPT ![h] = v]
            /\ v = "waiting" <=> active # {}
            /\ v = "ok" => ~cleanupError
    BY <1>1 DEF Verdict
  <1> USE DEF JudgeInv
  <1>9. JudgeTyped'  BY <1>1, <1>2, <1>3, <1>7, <1>8 DEF JudgeTyped, HookEnds
  <1>10. Known'  BY <1>2 DEF Known, Active, Running
  <1>11. ASSUME NEW u \in Tasks PROVE TaskKept(u)'
    <2>1. step[u] = "idle" => asked'[u] = 0
      BY <1>7 DEF TaskKept, Active, JudgeTyped
    <2>2. asked'[u] > 0 => Active(u) \/ answer[u] = "cancelled"
      BY <1>7 DEF TaskKept
    <2>3. CASE Running(u)
      BY <1>2, <1>7, <2>1, <2>2, <2>3, NobodyElse DEF TaskKept, Active, Running
    <2>4. CASE ~Running(u)
      BY <1>2, <1>7, <2>1, <2>2, <2>4, NobodyElse DEF TaskKept, Active, Running
    <2>5. QED  BY <2>3, <2>4
  <1>12. ASSUME NEW g \in Hooks PROVE HookKept(g)'
    <2>1. CASE g = h
      <3>1. hook'[h] = v /\ awaited'[h] = active  BY <1>1, <1>8 DEF JudgeTyped
      <3>2. v = "ok" => \A t \in Tasks : ~Active(t) /\ process'[t] = process[t] /\ (process[t] # Nobody => ~process[t].report)
        BY <1>4, <1>7, <1>8 DEF TaskKept, Active, Running
      <3>3. QED  BY <1>2, <1>4, <2>1, <3>1, <3>2 DEF HookKept, Active, Running
    <2>2. CASE g # h
      <3>1. hook'[g] = hook[g] /\ awaited'[g] = awaited[g]  BY <1>1, <1>8, <2>2 DEF JudgeTyped
      <3>2. hook[g] = "ok" => \A t \in Tasks : process'[t] = process[t]
        BY <1>7 DEF HookKept, Active, Running
      <3>3. QED  BY <1>2, <3>1, <3>2 DEF HookKept, Active, Running
    <2>3. QED  BY <2>1, <2>2
  <1>13. QED  BY <1>9, <1>10, <1>11, <1>12

(* A cleanup that returns ok has seen everybody answer and no failure. *)
LEMMA HookEndsKeeps == JudgeInv /\ (HookReturns \/ HookExpires) => JudgeInv'
  <1> SUFFICES ASSUME JudgeInv, HookReturns \/ HookExpires PROVE JudgeInv'
    OBVIOUS
  <1>1. PICK h \in Hooks, v \in {"ok", "failed", "timeout", "cancelled"} :
            /\ hook[h] = "waiting" /\ hook' = [hook EXCEPT ![h] = v]
            /\ v = "ok" => ~cleanupError /\ \A t \in awaited[h] : answer[t] # Nobody
    BY DEF HookReturns, HookExpires, Verdict
  <1>2. UNCHANGED <<tasks, adapter, awaited>>
    BY DEF HookReturns, HookExpires
  <1> USE DEF JudgeInv, tasks, adapter
  <1>3. JudgeTyped'  BY <1>1, <1>2 DEF JudgeTyped, HookEnds
  <1>4. Known'  BY <1>2 DEF Known, Active, Running
  <1>5. ASSUME NEW u \in Tasks PROVE TaskKept(u)'
    BY <1>2 DEF TaskKept, Active, Running
  <1>6. ASSUME NEW g \in Hooks PROVE HookKept(g)'
    <2>1. CASE g = h
      <3>1. v = "ok" => \A t \in Tasks : ~Active(t) /\ (process[t] # Nobody => ~process[t].report)
        BY <1>1 DEF HookKept, TaskKept
      <3>2. hook'[h] = v  BY <1>1 DEF JudgeTyped
      <3>3. QED  BY <1>1, <1>2, <2>1, <3>1, <3>2 DEF HookKept, Active, Running
    <2>2. CASE g # h
      BY <1>1, <1>2, <2>2 DEF HookKept, Active, Running, JudgeTyped
    <2>3. QED  BY <2>1, <2>2
  <1>7. QED  BY <1>3, <1>4, <1>5, <1>6

(* Every step of the adapter, its tasks, its hooks and their callers. *)
LEMMA JudgeInvNext == JudgeInv /\ [JudgeNext]_judgeVars => JudgeInv'
  <1> SUFFICES ASSUME JudgeInv, [JudgeNext]_judgeVars PROVE JudgeInv'
    OBVIOUS
  <1>1. CASE UNCHANGED judgeVars
    BY <1>1 DEF judgeVars, tasks, adapter, hooks, JudgeInv, JudgeTyped, Known, TaskKept, HookKept, Active, Running
  <1>2. CASE JudgeNext
    BY <1>1, <1>2, RefuseKeeps, BeginKeeps, ProbeReturnsKeeps, AssessFailsKeeps, ObserveKeeps, RetainReturnsKeeps,
       ProcessGoesKeeps, CallerCancelsKeeps, HookBeginsKeeps, HookEndsKeeps
       DEF JudgeNext, Judging, Hooked, Rest
  <1>3. QED  BY <1>1, <1>2

-----------------------------------------------------------------------------
(* The invariant holds of every behaviour of the adapter. *)
THEOREM Invariance == JudgeSpec => []JudgeInv
  <1>1. QED  BY JudgeInvInit, JudgeInvNext, PTL DEF JudgeSpec

(* assess, judge and cleanup of one adapter, called by any number of tasks *)
(* that are cancelled at any moment: JudgmentsKept holds throughout.       *)
THEOREM JudgmentsAreKept == JudgeSpec => []JudgmentsKept
  <1>1. JudgeInv => JudgmentsKept
    BY DEF JudgeInv, TaskKept, HookKept, JudgmentsKept, Active, Running, Delivered, Doomed
  <1>2. QED  BY <1>1, Invariance, PTL
=============================================================================
