----------------------------- MODULE PluginProofs -----------------------------
(***************************************************************************)
(* What is proved of the three machines that work on whole plugins.  Of    *)
(* plugin quality, for any number of callers and slots: the semaphore      *)
(* counts the work in flight exactly, whatever is cancelled, refused,      *)
(* rewritten or shut down meanwhile; and for any trees, calls and          *)
(* rewrites: every answer keeps its contract, and a pass was earned by the *)
(* plugin as it was captured last.  Of normalization, for any skills,      *)
(* orders and strangers and any number of edits: every receipt keeps its   *)
(* contract, and what was receipted is the admitted skill.  Of the         *)
(* assessment before execution, for any plugins, evidence and signatures   *)
(* and any number of rewrites: what was cleared is the plugin as it was    *)
(* captured last.  The last section puts the machines together with those  *)
(* of DistributionProofs, as the model-checked host does.                  *)
(***************************************************************************)
EXTENDS MCDistribution, DistributionProofs

-----------------------------------------------------------------------------
(* The slots of plugin quality.                                            *)

(* A future, whatever its evidence and its result are. *)
Shape(j) == j = [state |-> j.state, evidence |-> j.evidence, result |-> j.result]

JobStates == {"none", "queued", "running", "finished", "over"}

Futures ==
    /\ DOMAIN jobs = Callers /\ DOMAIN callers = Callers
    /\ jobs = [c \in Callers |-> jobs[c]] /\ callers = [c \in Callers |-> callers[c]]
    /\ \A c \in Callers : Shape(jobs[c]) /\ jobs[c].state \in JobStates

(* A caller that has not called has submitted nothing. *)
Unsubmitted == \A c \in Callers : callers[c] = "out" => jobs[c].state = "none"

SlotInv == Futures /\ Unsubmitted /\ slots = Cardinality(Holding) /\ slots <= Slots

(* The work that runs is some of the work that holds a slot. *)
LEMMA Fewer ==
  ASSUME SlotConstants
  PROVE  /\ IsFiniteSet(Holding) /\ Cardinality(Holding) \in Nat
         /\ IsFiniteSet(Busy) /\ Cardinality(Busy) <= Cardinality(Holding)
  <1>1. Holding \in SUBSET Callers /\ Busy \in SUBSET Holding  BY DEF Holding, Busy
  <1>2. IsFiniteSet(Holding)  BY <1>1, FS_Subset DEF SlotConstants
  <1>3. QED  BY <1>1, <1>2, FS_Subset, FS_CardinalityType

(* Of one job at most the state changes. *)
Moves(c, from, to) ==
    /\ jobs[c].state = from /\ jobs'[c].state = to
    /\ DOMAIN jobs' = Callers /\ jobs' = [d \in Callers |-> jobs'[d]]
    /\ Shape(jobs'[c])
    /\ \A d \in Callers \ {c} : jobs'[d] = jobs[d]

(* A state that is assigned, with or without the rest of the job. *)
LEMMA StateMoves ==
  ASSUME Futures, NEW c \in Callers, NEW s, jobs' = [jobs EXCEPT ![c].state = s]
  PROVE  Moves(c, jobs[c].state, s)
  <1>1. Shape(jobs[c]) /\ jobs = [d \in Callers |-> jobs[d]]  BY DEF Futures
  <1>2. jobs'[c] = [jobs[c] EXCEPT !.state = s]  BY <1>1
  <1>3. DOMAIN jobs' = Callers /\ jobs' = [d \in Callers |-> jobs'[d]]  BY <1>1
  <1>4. \A d \in Callers \ {c} : jobs'[d] = jobs[d]  BY <1>1
  <1>5. ASSUME NEW j, Shape(j)
        PROVE  [j EXCEPT !.state = s].state = s /\ Shape([j EXCEPT !.state = s])
    <2>1. [j EXCEPT !.state = s] = [state |-> s, evidence |-> j.evidence, result |-> j.result]
      BY <1>5 DEF Shape
    <2>2. QED  BY <2>1 DEF Shape
  <1>6. QED  BY <1>1, <1>2, <1>3, <1>4, <1>5 DEF Moves

(* Its evidence or its result. *)
LEMMA RestMoves ==
  ASSUME Futures, NEW c \in Callers, NEW x,
         jobs' = [jobs EXCEPT ![c].evidence = x] \/ jobs' = [jobs EXCEPT ![c].result = x]
  PROVE  Moves(c, jobs[c].state, jobs[c].state)
  <1>1. Shape(jobs[c]) /\ jobs = [d \in Callers |-> jobs[d]]  BY DEF Futures
  <1>2. jobs'[c] = [jobs[c] EXCEPT !.evidence = x] \/ jobs'[c] = [jobs[c] EXCEPT !.result = x]  BY <1>1
  <1>3. DOMAIN jobs' = Callers /\ jobs' = [d \in Callers |-> jobs'[d]]  BY <1>1
  <1>4. \A d \in Callers \ {c} : jobs'[d] = jobs[d]  BY <1>1
  <1>5. ASSUME NEW j, Shape(j)
        PROVE  /\ [j EXCEPT !.evidence = x].state = j.state /\ Shape([j EXCEPT !.evidence = x])
               /\ [j EXCEPT !.result = x].state = j.state /\ Shape([j EXCEPT !.result = x])
    <2>1. /\ [j EXCEPT !.evidence = x] = [state |-> j.state, evidence |-> x, result |-> j.result]
          /\ [j EXCEPT !.result = x] = [state |-> j.state, evidence |-> j.evidence, result |-> x]
      BY <1>5 DEF Shape
    <2>2. QED  BY <2>1 DEF Shape
  <1>6. jobs'[c].state = jobs[c].state /\ Shape(jobs'[c])  BY <1>1, <1>2, <1>5
  <1>7. QED  BY <1>3, <1>4, <1>6 DEF Moves

(* A job that ends keeps neither evidence nor an open result. *)
LEMMA EndMoves ==
  ASSUME Futures, NEW c \in Callers, NEW r, Ends(c, r)
  PROVE  Moves(c, jobs[c].state, "finished")
  <1>1. Shape(jobs[c]) /\ jobs = [d \in Callers |-> jobs[d]]  BY DEF Futures
  <1>2. jobs' = [jobs EXCEPT ![c] = [@ EXCEPT !.state = "finished", !.evidence = Empty, !.result = r]]
    BY DEF Ends
  <1>3. jobs'[c] = [jobs[c] EXCEPT !.state = "finished", !.evidence = Empty, !.result = r]
    BY <1>1, <1>2
  <1>4. jobs'[c] = [state |-> "finished", evidence |-> Empty, result |-> r]
    BY <1>1, <1>3 DEF Shape
  <1>5. jobs'[c].state = "finished" /\ Shape(jobs'[c])  BY <1>4 DEF Shape
  <1>6. DOMAIN jobs' = Callers /\ jobs' = [d \in Callers |-> jobs'[d]]  BY <1>1, <1>2
  <1>7. \A d \in Callers \ {c} : jobs'[d] = jobs[d]  BY <1>1, <1>2
  <1>8. QED  BY <1>5, <1>6, <1>7 DEF Moves

(* What a moving job does to the work that holds a slot. *)
LEMMA HoldingMoves ==
  ASSUME NEW c \in Callers, NEW from, NEW to, Moves(c, from, to)
  PROVE  LET inflight == {"queued", "running", "finished"}
         IN  /\ from \notin inflight /\ to \in inflight => Holding' = Holding \cup {c} /\ c \notin Holding
             /\ from \in inflight /\ to \notin inflight => Holding' = Holding \ {c} /\ c \in Holding
             /\ (from \in inflight <=> to \in inflight) => Holding' = Holding
  BY DEF Moves, Holding

(* A move to a state of jobs, by a caller that has called, keeps the rest. *)
LEMMA FuturesMove ==
  ASSUME Futures, Unsubmitted, NEW c \in Callers, NEW from, NEW to \in JobStates, Moves(c, from, to),
         callers' = callers \/ \E s : callers' = [callers EXCEPT ![c] = s],
         callers'[c] # "out" \/ (to = from /\ callers' = callers)
  PROVE  Futures' /\ Unsubmitted'
  <1>1. /\ DOMAIN callers' = Callers /\ callers' = [d \in Callers |-> callers'[d]]
        /\ \A d \in Callers \ {c} : callers'[d] = callers[d]
    BY DEF Futures
  <1>2. Futures'  BY <1>1 DEF Futures, Moves
  <1>3. Unsubmitted'  BY <1>1 DEF Unsubmitted, Moves
  <1>4. QED  BY <1>2, <1>3

(* A move that neither takes nor returns a slot. *)
LEMMA SlotKept ==
  ASSUME SlotInv, NEW c \in Callers, NEW from, NEW to \in JobStates, Moves(c, from, to), slots' = slots,
         from \in {"queued", "running", "finished"} <=> to \in {"queued", "running", "finished"},
         Futures', Unsubmitted'
  PROVE  SlotInv'
  <1>1. Holding' = Holding  BY HoldingMoves
  <1>2. QED  BY <1>1 DEF SlotInv

(* The calls, the futures and the cancellations. *)
LEMMA CheckPluginInv == ASSUME SlotConstants, SlotInv, NEW c \in Callers, CheckPlugin(c) PROVE SlotInv'
  <1>1. Futures /\ Unsubmitted /\ slots = Cardinality(Holding) /\ slots <= Slots  BY DEF SlotInv
  <1>2. callers[c] = "out" /\ jobs[c].state = "none"  BY <1>1 DEF CheckPlugin, Unsubmitted
  <1>3. CASE slots >= Slots
    <2>1. /\ callers' = [callers EXCEPT ![c] = "answered"] /\ slots' = slots
          /\ jobs' = [jobs EXCEPT ![c].result = Block(Empty, "capacity_exceeded")]
      BY <1>3 DEF CheckPlugin
    <2>2. Moves(c, "none", "none")  BY <1>1, <1>2, <2>1, RestMoves
    <2>3. callers'[c] # "out"  BY <1>1, <2>1 DEF Futures
    <2>4. Futures' /\ Unsubmitted'  BY <1>1, <2>1, <2>2, <2>3, FuturesMove DEF JobStates
    <2>5. QED  BY <2>1, <2>2, <2>4, SlotKept DEF JobStates
  <1>4. CASE ~(slots >= Slots) /\ down
    <2>1. callers' = [callers EXCEPT ![c] = "raised"] /\ slots' = slots /\ jobs' = jobs
      BY <1>4 DEF CheckPlugin
    <2>2. Moves(c, "none", "none")  BY <1>1, <1>2, <2>1 DEF Moves, Futures
    <2>3. callers'[c] # "out"  BY <1>1, <2>1 DEF Futures
    <2>4. Futures' /\ Unsubmitted'  BY <1>1, <2>1, <2>2, <2>3, FuturesMove DEF JobStates
    <2>5. QED  BY <2>1, <2>2, <2>4, SlotKept DEF JobStates
  <1>5. CASE ~(slots >= Slots) /\ ~down
    <2>1. /\ callers' = [callers EXCEPT ![c] = "waiting"] /\ slots' = slots + 1
          /\ jobs' = [jobs EXCEPT ![c].state = "queued"]
      BY <1>5 DEF CheckPlugin
    <2>2. Moves(c, "none", "queued")  BY <1>1, <1>2, <2>1, StateMoves
    <2>3. callers'[c] # "out"  BY <1>1, <2>1 DEF Futures
    <2>4. Futures' /\ Unsubmitted'  BY <1>1, <2>1, <2>2, <2>3, FuturesMove DEF JobStates
    <2>5. Holding' = Holding \cup {c} /\ c \notin Holding  BY <2>2, HoldingMoves
    <2>6. Cardinality(Holding') = Cardinality(Holding) + 1 /\ Cardinality(Holding) \in Nat
      BY <2>5, Fewer, FS_AddElement
    <2>7. slots' <= Slots  BY <1>1, <1>5, <2>1, <2>6 DEF SlotConstants
    <2>8. QED  BY <1>1, <2>1, <2>4, <2>6, <2>7 DEF SlotInv
  <1>6. QED  BY <1>3, <1>4, <1>5

(* A slot that is given back was counted. *)
LEMMA SlotReturned ==
  ASSUME SlotConstants, SlotInv, NEW c \in Callers, NEW from \in {"queued", "finished"},
         Moves(c, from, "over"), slots' = slots - 1, Futures', Unsubmitted'
  PROVE  SlotInv'
  <1>1. slots = Cardinality(Holding) /\ slots <= Slots /\ Slots \in Nat  BY DEF SlotInv, SlotConstants
  <1>2. Holding' = Holding \ {c} /\ c \in Holding  BY HoldingMoves
  <1>3. Cardinality(Holding') = Cardinality(Holding) - 1 /\ Cardinality(Holding) \in Nat
    BY <1>2, Fewer, FS_RemoveElement
  <1>4. QED  BY <1>1, <1>3 DEF SlotInv

(* Work in flight has a caller that has called. *)
LEMMA Called ==
  ASSUME Unsubmitted, NEW c \in Callers, jobs[c].state # "none"
  PROVE  callers[c] # "out"
  BY DEF Unsubmitted

(* A future that starts, ends or is delivered gives back its slot once.    *)
LEMMA FutureInv == ASSUME SlotConstants, SlotInv, NEW c \in Callers, Future(c) PROVE SlotInv'
  <1>1. Futures /\ Unsubmitted  BY DEF SlotInv
  <1>2. CASE StartJob(c)
    <2>1. /\ jobs[c].state = "queued" /\ jobs' = [jobs EXCEPT ![c].state = "running"]
          /\ slots' = slots /\ callers' = callers
      BY <1>2 DEF StartJob
    <2>2. Moves(c, "queued", "running")  BY <1>1, <2>1, StateMoves
    <2>3. Futures' /\ Unsubmitted'  BY <1>1, <2>1, <2>2, Called, FuturesMove DEF JobStates
    <2>4. QED  BY <2>1, <2>2, <2>3, SlotKept DEF JobStates
  <1>3. CASE ReleaseSlot(c)
    <2>1. /\ jobs[c].state = "finished" /\ jobs' = [jobs EXCEPT ![c].state = "over"]
          /\ slots' = slots - 1 /\ callers' = callers
      BY <1>3 DEF ReleaseSlot
    <2>2. Moves(c, "finished", "over")  BY <1>1, <2>1, StateMoves
    <2>3. Futures' /\ Unsubmitted'  BY <1>1, <2>1, <2>2, Called, FuturesMove DEF JobStates
    <2>4. QED  BY <2>1, <2>2, <2>3, SlotReturned
  <1>4. CASE Deliver(c)
    <2>1. /\ jobs[c].state = "over" /\ jobs' = jobs
          /\ slots' = slots /\ callers' = [callers EXCEPT ![c] = "answered"]
      BY <1>4 DEF Deliver
    <2>2. Moves(c, "over", "over")  BY <1>1, <2>1 DEF Moves, Futures
    <2>3. callers'[c] # "out"  BY <1>1, <2>1 DEF Futures
    <2>4. Futures' /\ Unsubmitted'  BY <1>1, <2>1, <2>2, <2>3, FuturesMove DEF JobStates
    <2>5. QED  BY <2>1, <2>2, <2>4, SlotKept DEF JobStates
  <1>5. QED  BY <1>2, <1>3, <1>4 DEF Future

(* A cancelled caller takes back only work that has not started.           *)
LEMMA CancelCallerInv == ASSUME SlotConstants, SlotInv, NEW c \in Callers, CancelCaller(c) PROVE SlotInv'
  <1>1. Futures /\ Unsubmitted  BY DEF SlotInv
  <1>2. callers' = [callers EXCEPT ![c] = "cancelled"]  BY DEF CancelCaller
  <1>3. callers'[c] # "out"  BY <1>1, <1>2 DEF Futures
  <1>4. CASE jobs[c].state = "queued"
    <2>1. jobs' = [jobs EXCEPT ![c].state = "over"] /\ slots' = slots - 1  BY <1>4 DEF CancelCaller
    <2>2. Moves(c, "queued", "over")  BY <1>1, <1>4, <2>1, StateMoves
    <2>3. Futures' /\ Unsubmitted'  BY <1>1, <1>2, <1>3, <2>2, FuturesMove DEF JobStates
    <2>4. QED  BY <2>1, <2>2, <2>3, SlotReturned
  <1>5. CASE jobs[c].state # "queued"
    <2>1. jobs' = jobs /\ slots' = slots  BY <1>5 DEF CancelCaller
    <2>2. Moves(c, jobs[c].state, jobs[c].state) /\ jobs[c].state \in JobStates
      BY <1>1, <2>1 DEF Moves, Futures
    <2>3. Futures' /\ Unsubmitted'  BY <1>1, <1>2, <1>3, <2>2, FuturesMove
    <2>4. QED  BY <2>1, <2>2, <2>3, SlotKept
  <1>6. QED  BY <1>4, <1>5

(* The work itself: it goes on, or it ends and still holds its slot. *)
LEMMA JobInv == ASSUME SlotConstants, SlotInv, NEW c \in Callers, Job(c) PROVE SlotInv'
  <1>1. Futures /\ Unsubmitted  BY DEF SlotInv
  <1>2. jobs[c].state = "running"
    BY DEF Job, InitialCapture, CheckChild, CheckPresented, FinalCapture, Withhold, InChildren, Presenting, Running
  <1>3. (\E e : Goes(c, e)) \/ (\E r : Ends(c, r))
    <2>1. CASE InitialCapture(c)  BY <2>1 DEF InitialCapture
    <2>2. CASE CheckChild(c)  BY <2>2 DEF CheckChild
    <2>3. CASE CheckPresented(c)  BY <2>3 DEF CheckPresented
    <2>4. CASE FinalCapture(c)  BY <2>4 DEF FinalCapture
    <2>5. CASE Withhold(c)  BY <2>5 DEF Withhold
    <2>6. QED  BY <2>1, <2>2, <2>3, <2>4, <2>5 DEF Job
  <1>4. slots' = slots /\ callers' = callers  BY <1>3 DEF Goes, Ends
  <1>5. Moves(c, "running", "running") \/ Moves(c, "running", "finished")
    BY <1>1, <1>2, <1>3, RestMoves, EndMoves DEF Goes
  <1>6. PICK to \in {"running", "finished"} : Moves(c, "running", to)  BY <1>5
  <1>7. Futures' /\ Unsubmitted'  BY <1>1, <1>2, <1>4, <1>6, Called, FuturesMove DEF JobStates
  <1>8. QED  BY <1>4, <1>6, <1>7, SlotKept DEF JobStates

-----------------------------------------------------------------------------
(* No slot is held at first.                                               *)
LEMMA SlotInitially == ASSUME PluginInit, SlotConstants PROVE SlotInv
  <1>1. jobs = [c \in Callers |-> NoJob] /\ callers \in [Callers -> {"out", "absent"}] /\ slots = 0
    BY DEF PluginInit
  <1>2. ASSUME NEW c \in Callers PROVE Shape(jobs[c]) /\ jobs[c].state = "none"
    BY <1>1 DEF NoJob, Shape
  <1>3. Futures /\ Unsubmitted  BY <1>1, <1>2 DEF Futures, Unsubmitted, JobStates
  <1>4. Holding = {}  BY <1>2 DEF Holding
  <1>5. Cardinality(Holding) = 0  BY <1>4, FS_EmptySet
  <1>6. QED  BY <1>1, <1>3, <1>5 DEF SlotInv, SlotConstants

(* So every step keeps the count of the slots.                             *)
LEMMA SlotStep == ASSUME SlotConstants, SlotInv, [PluginNext]_pluginVars PROVE SlotInv'
  <1>1. CASE \E c \in Callers : CheckPlugin(c) \/ Future(c) \/ Job(c) \/ CancelCaller(c)
    BY <1>1, CheckPluginInv, FutureInv, JobInv, CancelCallerInv
  <1>2. CASE Shutdown \/ Rewrite \/ UNCHANGED pluginVars
    <2>1. UNCHANGED <<jobs, callers, slots>>  BY <1>2 DEF Shutdown, Rewrite, pluginVars
    <2>2. QED  BY <2>1 DEF SlotInv, Futures, Unsubmitted, Holding
  <1>3. QED  BY <1>1, <1>2 DEF PluginNext

(* The slots, futures and callers stay consistent, whatever happens to     *)
(* them.                                                                   *)
THEOREM Invariance == PluginSpec => []SlotInv
  <1>1. PluginInit => SlotInv  BY SlotAssumption, SlotInitially
  <1>2. SlotInv /\ [PluginNext]_pluginVars => SlotInv'  BY SlotAssumption, SlotStep
  <1>3. QED  BY <1>1, <1>2, PTL DEF PluginSpec

(* A slot is held by exactly the work that was submitted and is not over,  *)
(* for any number of callers and of slots, whoever is cancelled or refused *)
(* and whenever the executor shuts down: none leaks, none is given back    *)
(* twice, and no more work runs than there are slots.                      *)
THEOREM SlotsAreExact == PluginSpec => []SlotsKept
  <1>1. SlotInv => SlotsKept  BY SlotAssumption, Fewer DEF SlotInv, SlotsKept
  <1>2. QED  BY <1>1, Invariance, PTL

-----------------------------------------------------------------------------
(* Validations, presentations and the work of plugin quality.              *)

(* A missing value is no record, no digest and no code. *)
BlockerCodes == {"input_invalid", "request_invalid", "capacity_exceeded", "root_mismatch", "assessments_invalid",
                 "child_blocked", "presentation_missing", "presentation_blocked", "source_changed"}
NoneIsMissing == None # [x \in DOMAIN None |-> None[x]] /\ None \notin BlockerCodes

(* What a validation retains of a plugin that was captured unchanged. *)
EvidenceOf(t, revision, rules) ==
    LET records  == CapturedFiles(t.files)
        m        == ParsePluginManifest(t.files)
        skills   == {Child(p, t, revision) : p \in SkillPaths(DOMAIN t.files)}
        findings == ManifestWarnings(t.files) \cup ComponentFindings(t)
                    \cup ProvedFindings(m, rules, DOMAIN t.files, skills)
    IN  [status    |-> IF BlocksAny(findings) THEN "blocked" ELSE "pass",
         candidate |-> PluginCandidate(m.name, revision, records),
         manifest  |-> m, policy |-> rules, files |-> records,
         mode_manifest_sha256 |-> Digest(records), skills |-> skills, findings |-> findings]

(* A validation that is bound to nothing retains only its blocker.         *)
LEMMA UnboundFields ==
  ASSUME NEW rules, NEW code
  PROVE  LET u == Unbound(rules, code)
         IN  /\ u.status = "blocked" /\ u.candidate = None /\ u.manifest = None /\ u.policy = rules
             /\ u.files = {} /\ u.mode_manifest_sha256 = None /\ u.skills = {} /\ u.findings = {Blocker(code)}
  BY DEF Unbound

(* A validation that is bound retains what the capture shows.              *)
LEMMA EvidenceFields ==
  ASSUME NEW t, NEW revision, NEW rules
  PROVE  LET v == EvidenceOf(t, revision, rules)
             m == ParsePluginManifest(t.files)
         IN  /\ v.files = CapturedFiles(t.files) /\ v.manifest = m /\ v.policy = rules
             /\ v.candidate = PluginCandidate(m.name, revision, v.files)
             /\ v.mode_manifest_sha256 = Digest(v.files)
             /\ v.skills = {Child(p, t, revision) : p \in SkillPaths(DOMAIN t.files)}
             /\ v.findings = ManifestWarnings(t.files) \cup ComponentFindings(t)
                             \cup ProvedFindings(m, rules, DOMAIN t.files, v.skills)
             /\ v.status = IF BlocksAny(v.findings) THEN "blocked" ELSE "pass"
  BY DEF EvidenceOf

(* A validation is bound to nothing, or it is of one capture. *)
LEMMA ValidationIs ==
  ASSUME NEW one, NEW two, NEW revision, NEW rules, rules # None
  PROVE  LET v == ValidatePlugin(one, two, revision, rules)
         IN  \/ \E code : v = Unbound(rules, code)
             \/ one # None /\ one = two /\ Parsable(one.files) /\ v = EvidenceOf(one, revision, rules)
  <1>1. CASE /\ revision # None /\ one # None /\ Parsable(one.files)
             /\ ~(Cardinality(SkillPaths(DOMAIN one.files)) > MaxSkills) /\ two # None /\ one = two
    BY <1>1 DEF ValidatePlugin, EvidenceOf
  <1>2. CASE ~(/\ revision # None /\ one # None /\ Parsable(one.files)
               /\ ~(Cardinality(SkillPaths(DOMAIN one.files)) > MaxSkills) /\ two # None /\ one = two)
    BY <1>2 DEF ValidatePlugin
  <1>3. QED  BY <1>1, <1>2

(* What is recorded of a file shows where it is and what it holds. *)
Row(files, p) == [path |-> p, sha256 |-> Digest(files[p].data), size |-> files[p].size, mode |-> files[p].mode]

(* The records of a capture are one for each of its files.                 *)
LEMMA RowsCaptured ==
  ASSUME NEW files
  PROVE  /\ CapturedFiles(files) = {Row(files, p) : p \in DOMAIN files}
         /\ \A p : Row(files, p).path = p /\ Row(files, p).sha256 = Digest(files[p].data) /\ Row(files, p).size = files[p].size
         /\ {r.path : r \in CapturedFiles(files)} = DOMAIN files
  <1>1. CapturedFiles(files) = {Row(files, p) : p \in DOMAIN files}  BY DEF CapturedFiles, Row
  <1>2. \A p : Row(files, p).path = p /\ Row(files, p).sha256 = Digest(files[p].data) /\ Row(files, p).size = files[p].size
    BY DEF Row
  <1>3. {r.path : r \in {Row(files, p) : p \in DOMAIN files}} = DOMAIN files  BY <1>2
  <1>4. QED  BY <1>1, <1>2, <1>3

(* No two files share a record.                                            *)
LEMMA RowsCounted ==
  ASSUME NEW files, IsFiniteSet(DOMAIN files)
  PROVE  Cardinality(DOMAIN files) = Cardinality(CapturedFiles(files))
  <1> DEFINE f == [p \in DOMAIN files |-> Row(files, p)]
  <1>0. /\ CapturedFiles(files) = {Row(files, p) : p \in DOMAIN files}
        /\ \A p \in DOMAIN files : Row(files, p).path = p
    BY RowsCaptured
  <1>1. f \in Bijection(DOMAIN files, CapturedFiles(files))
    <2>1. \A p, q \in DOMAIN files : f[p] = f[q] => p = q  BY <1>0
    <2>2. f \in [DOMAIN files -> CapturedFiles(files)]  BY <1>0
    <2>3. \A r \in CapturedFiles(files) : \E p \in DOMAIN files : f[p] = r  BY <1>0
    <2> HIDE DEF f
    <2>4. QED  BY <2>1, <2>2, <2>3 DEF Bijection, Injection, Surjection, IsInjective
  <1>2. ExistsBijection(DOMAIN files, CapturedFiles(files))  BY <1>1 DEF ExistsBijection
  <1>3. QED  BY <1>2, FS_Bijection

(* A file is below no file. *)
LEMMA NoFileBelow ==
  ASSUME NEW t, TreeCaptured(t), NEW p \in DOMAIN t.files, NEW q \in DOMAIN t.files
  PROVE  ~IsStrictPrefix(p, q)
  <1> SUFFICES ASSUME IsStrictPrefix(p, q) PROVE FALSE
    OBVIOUS
  <1>1. /\ p \in Seq(ToSet(p)) /\ q \in Seq(ToSet(q)) /\ p # <<>>
        /\ \A k \in 1 .. Len(q) - 1 : SubSeq(q, 1, k) \in t.directories
    BY DEF TreeCaptured
  <1>2. Len(p) \in Nat /\ Len(q) \in Nat /\ Len(p) # 0  BY <1>1, EmptySeq
  <1>3. Len(p) <= Len(q) /\ SubSeq(p, 1, Len(p)) = SubSeq(q, 1, Len(p)) /\ p # q
    BY DEF IsStrictPrefix, IsPrefix
  <1>4. p = SubSeq(q, 1, Len(p)) /\ q = SubSeq(q, 1, Len(q))  BY <1>1, <1>3, SubSeqFull
  <1>5. Len(p) \in 1 .. Len(q) - 1  BY <1>2, <1>3, <1>4
  <1>6. p \in t.directories  BY <1>1, <1>4, <1>5
  <1>7. QED  BY <1>6 DEF TreeCaptured

(* What is of a wrong kind is found. *)
LEMMA KindFound ==
  ASSUME NEW t, TreeCaptured(t), KindInvalid(DOMAIN t.files)
  PROVE  Blocker("plugin_component_kind_invalid") \in ComponentFindings(t)
  <1>1. CASE <<"skills">> \in DOMAIN t.files  BY <1>1 DEF ComponentFindings, FoundIf
  <1>2. ASSUME NEW p \in DOMAIN t.files, Len(p) > 1, p[1] = "mcp.json"
        PROVE  McpManifest \in t.directories
    <2>1. p \in Seq(ToSet(p)) /\ \A k \in 1 .. Len(p) - 1 : SubSeq(p, 1, k) \in t.directories
      BY DEF TreeCaptured
    <2>2. Len(p) \in Nat /\ 1 \in 1 .. Len(p) - 1  BY <1>2, <2>1
    <2>3. SubSeq(p, 1, 1) = <<p[1]>>
      <3> DEFINE s == SubSeq(p, 1, 1)
      <3>1. s \in Seq(ToSet(p)) /\ Len(s) = 1 /\ s[1] = p[1]  BY <2>1, <2>2, SubSeqProperties
      <3> HIDE DEF s
      <3>2. s = <<s[1]>>  BY <3>1
      <3>3. QED  BY <3>1, <3>2 DEF s
    <2>4. QED  BY <1>2, <2>1, <2>2, <2>3 DEF McpManifest
  <1>3. ASSUME NEW p \in DOMAIN t.files, Len(p) > 3, IsSkillEntrypoint(SubSeq(p, 1, 3))
        PROVE  \E d \in t.directories : IsSkillEntrypoint(d)
    <2>1. p \in Seq(ToSet(p)) /\ \A k \in 1 .. Len(p) - 1 : SubSeq(p, 1, k) \in t.directories
      BY DEF TreeCaptured
    <2>2. Len(p) \in Nat /\ 3 \in 1 .. Len(p) - 1  BY <1>3, <2>1
    <2>3. QED  BY <1>3, <2>1, <2>2
  <1>4. CASE \E p \in DOMAIN t.files : Len(p) > 1 /\ p[1] = "mcp.json"
    BY <1>2, <1>4 DEF ComponentFindings, FoundIf
  <1>5. CASE \E p \in DOMAIN t.files : Len(p) > 3 /\ IsSkillEntrypoint(SubSeq(p, 1, 3))
    BY <1>3, <1>5 DEF ComponentFindings, FoundIf
  <1>6. QED  BY <1>1, <1>4, <1>5 DEF KindInvalid

(* A child shows the skill that was captured. *)
LEMMA ChildShown ==
  ASSUME NoneIsMissing, NEW t, NEW revision, NEW path
  PROVE  LET x == Child(path, t, revision)
         IN  x.path = path /\ ChildValid(x, CapturedFiles(t.files), revision)
  <1> DEFINE tree  == ChildTree(path[2], t.files[Append(path, "SKILL.md")].data)
             files == ChildFiles(path, CapturedFiles(t.files))
             x     == Child(path, t, revision)
             c     == Candidate(tree, [text |-> revision], files)
  <1>1. /\ x.path = path /\ x.validation.files = files /\ x.validation.candidate = c
        /\ x.validation.identity = SkillIdentity(tree)
    BY DEF Child
  <1>2. /\ tree.name = path[2] /\ tree.portable = (path[2] \in SkillNames) /\ tree.kebab = tree.portable
        /\ tree.skill = t.files[Append(path, "SKILL.md")].data
    BY DEF ChildTree
  <1>3. CandidateId(tree, files) = CandidateId(ChildTree(path[2], None), files)
    <2>1. /\ ChildTree(path[2], None).name = path[2]
          /\ ChildTree(path[2], None).portable = (path[2] \in SkillNames)
      BY DEF ChildTree
    <2> HIDE DEF tree, files
    <2>2. QED  BY <1>2, <2>1 DEF CandidateId
  <1> HIDE DEF tree, files, x
  <1>4. /\ c.package_id = CandidateId(tree, files) /\ c.source_revision = revision
        /\ c.content_sha256 = ContentDigest(files) /\ c # None
    BY DEF Candidate, NoneIsMissing
  <1> HIDE DEF c
  <1>5. SkillIdentity(tree) # None =>
            SkillIdentity(tree).package_id = path[2] /\ SkillIdentity(tree).package_id = c.package_id
    <2> SUFFICES ASSUME SkillIdentity(tree) # None
                 PROVE  SkillIdentity(tree).package_id = path[2] /\ tree.portable
      BY <1>2, <1>4 DEF CandidateId
    <2>1. tree.skill.name = tree.name /\ tree.kebab
          /\ SkillIdentity(tree) = [package_id |-> tree.skill.name, version |-> tree.skill.version]
      BY DEF SkillIdentity
    <2>2. QED  BY <1>2, <2>1
  <1>6. QED  BY <1>1, <1>3, <1>4, <1>5 DEF ChildValid, x, files


(* What was retained of a capture keeps the contract of a validation.      *)
LEMMA EvidenceValid ==
  ASSUME NoneIsMissing, NEW t, TreeCaptured(t), Parsable(t.files), NEW revision, NEW rules
  PROVE  PluginValid(EvidenceOf(t, revision, rules))
  <1> DEFINE v == EvidenceOf(t, revision, rules)
             m == ParsePluginManifest(t.files)
  <1>1. /\ v.files = CapturedFiles(t.files) /\ v.manifest = m /\ v.policy = rules
        /\ v.candidate = PluginCandidate(m.name, revision, v.files)
        /\ v.mode_manifest_sha256 = Digest(v.files)
        /\ v.skills = {Child(p, t, revision) : p \in SkillPaths(DOMAIN t.files)}
        /\ v.findings = ManifestWarnings(t.files) \cup ComponentFindings(t)
                        \cup ProvedFindings(m, rules, DOMAIN t.files, v.skills)
        /\ v.status = IF BlocksAny(v.findings) THEN "blocked" ELSE "pass"
    BY EvidenceFields
  <1> HIDE DEF v
  <1>2. {r.path : r \in v.files} = DOMAIN t.files  BY <1>1, RowsCaptured
  <1>3. (v.status = "blocked") = BlocksAny(v.findings)  BY <1>1 DEF BlocksAny
  <1>4. v.candidate # None /\ v.candidate.source_revision = revision
    BY <1>1 DEF PluginCandidate, NoneIsMissing
  <1>5. m # None /\ m.source_sha256 = Digest(t.files[PluginManifest].data)
        /\ m.openai_settings_source = SettingsSource(t.files)
        /\ m.openai_settings_sha256 = IF Settings(t.files) = None THEN None ELSE Digest(Settings(t.files))
    BY DEF ParsePluginManifest, NoneIsMissing
  <1> HIDE DEF m
  <1>6. PluginManifest \in DOMAIN t.files  BY DEF Parsable
  <1>7. Cardinality(DOMAIN t.files) = Cardinality(v.files)  BY <1>1, RowsCounted DEF TreeCaptured
  <1>8. KindInvalid(DOMAIN t.files) => Blocker("plugin_component_kind_invalid") \in v.findings
    BY <1>1, KindFound
  <1>9. \A p, q \in DOMAIN t.files : ~IsStrictPrefix(p, q)  BY NoFileBelow
  <1>10. \E r \in v.files : r.path = PluginManifest /\ r.sha256 = m.source_sha256
    <2>1. Row(t.files, PluginManifest) \in v.files  BY <1>1, <1>6 DEF CapturedFiles, Row
    <2>2. Row(t.files, PluginManifest).path = PluginManifest /\ Row(t.files, PluginManifest).sha256 = m.source_sha256
      BY <1>5 DEF Row
    <2>3. QED  BY <2>1, <2>2
  <1>11. SettingsRetained(m, DOMAIN t.files)
    <2>1. \A x : Digest(x) # None  BY DEF Digest, NoneIsMissing
    <2>2. SettingsSource(t.files) \in {"inline", "compatibility", "none"}  BY DEF SettingsSource
    <2>3. SettingsSource(t.files) = "none" <=> Settings(t.files) = None
      <3>1. CASE SettingsSource(t.files) = "inline"
        BY <3>1 DEF SettingsSource, Settings
      <3>2. CASE SettingsSource(t.files) = "compatibility"
        BY <3>2 DEF SettingsSource, Settings, TreeCaptured
      <3>3. CASE SettingsSource(t.files) = "none"
        BY <3>3 DEF Settings
      <3>4. QED  BY <2>2, <3>1, <3>2, <3>3
    <2>4. /\ SettingsSource(t.files) = "compatibility" => Overlay \in DOMAIN t.files
          /\ SettingsSource(t.files) = "none" => Overlay \notin DOMAIN t.files
      BY DEF SettingsSource
    <2>5. QED  BY <1>5, <2>1, <2>3, <2>4 DEF SettingsRetained
  <1>12. {s.path : s \in v.skills} = SkillPaths(DOMAIN t.files)  BY <1>1, ChildShown
  <1>13. \A s \in v.skills : ChildValid(s, v.files, revision)  BY <1>1, ChildShown
  <1>14. ProvedFindings(m, rules, DOMAIN t.files, v.skills) \subseteq v.findings  BY <1>1
  <1>15. QED
    BY <1>1, <1>2, <1>3, <1>4, <1>5, <1>6, <1>7, <1>8, <1>9, <1>10, <1>11, <1>12, <1>13, <1>14 DEF PluginValid, v

(* So does every validation.                                               *)
LEMMA ValidationsValid ==
  ASSUME NoneIsMissing, NEW one, NEW two, NEW revision, NEW rules, rules # None, one # None => TreeCaptured(one)
  PROVE  PluginValid(ValidatePlugin(one, two, revision, rules))
  <1> DEFINE v == ValidatePlugin(one, two, revision, rules)
  <1>1. ASSUME NEW code, v = Unbound(rules, code)
        PROVE  PluginValid(v)
    <2>1. v.status = "blocked" /\ v.candidate = None /\ v.manifest = None /\ v.files = {} /\ v.skills = {}
          /\ v.mode_manifest_sha256 = None /\ v.findings = {Blocker(code)}
      BY <1>1, UnboundFields
    <2>2. BlocksAny(v.findings)  BY <2>1 DEF BlocksAny, Blocker
    <2> HIDE DEF v
    <2>3. (v.status = "blocked") = BlocksAny(v.findings)  BY <2>1, <2>2 DEF BlocksAny
    <2>4. QED  BY <2>1, <2>3 DEF PluginValid
  <1>2. CASE one # None /\ Parsable(one.files) /\ v = EvidenceOf(one, revision, rules)
    BY <1>2, EvidenceValid
  <1>3. QED  BY <1>1, <1>2, ValidationIs

(* A validation that passes blocks nothing, none of its skills included.   *)
LEMMA PassingValidation ==
  ASSUME NEW one, NEW two, NEW revision, NEW rules, rules # None,
         ValidatePlugin(one, two, revision, rules).status = "pass"
  PROVE  LET v == ValidatePlugin(one, two, revision, rules)
         IN  /\ one # None /\ one = two /\ v = EvidenceOf(one, revision, rules)
             /\ ~BlocksAny(v.findings) /\ \A s \in v.skills : s.validation.status = "pass"
  <1> DEFINE v == ValidatePlugin(one, two, revision, rules)
  <1>1. \A code : v # Unbound(rules, code)  BY UnboundFields
  <1>2. one # None /\ one = two /\ v = EvidenceOf(one, revision, rules)  BY <1>1, ValidationIs
  <1> HIDE DEF v
  <1>3. ~BlocksAny(v.findings)  BY <1>2, EvidenceFields DEF v
  <1>4. ASSUME NEW s \in v.skills PROVE s.validation.status = "pass"
    <2>1. v.skills = {Child(p, one, revision) : p \in SkillPaths(DOMAIN one.files)}
          /\ ProvedFindings(ParsePluginManifest(one.files), rules, DOMAIN one.files, v.skills) \subseteq v.findings
      BY <1>2, EvidenceFields
    <2>2. s.validation.status \in {"pass", "blocked"}  BY <2>1 DEF Child
    <2>3. s.validation.status # "blocked"
      <3> SUFFICES ASSUME s.validation.status = "blocked" PROVE FALSE
        OBVIOUS
      <3>1. Blocker("plugin_child_blocked") \in v.findings  BY <2>1 DEF ProvedFindings, FoundIf
      <3>2. QED  BY <1>3, <3>1 DEF BlocksAny, Blocker
    <2>4. QED  BY <2>2, <2>3
  <1>5. QED  BY <1>2, <1>3, <1>4 DEF v

-----------------------------------------------------------------------------
(* What a check of a presentation found: the validation it begins with,    *)
(* and of a check that passes what was captured for it.                    *)
LEMMA CheckFields ==
  ASSUME NEW v, NEW findings, NEW images, NEW copy
  PROVE  LET r == CheckResult(v, findings, images, copy)
         IN  /\ r.findings = findings /\ r.images = images /\ r.copy = copy
             /\ r.status = IF BlocksAny(findings) THEN "blocked" ELSE "pass"
             /\ (v # None /\ v.candidate # None) =>
                    /\ r.candidate = v.candidate /\ r.mode = v.mode_manifest_sha256
                    /\ r.source = v.manifest.openai_settings_source /\ r.settings = v.manifest.openai_settings_sha256
             /\ ~(v # None /\ v.candidate # None) =>
                    r.candidate = None /\ r.mode = None /\ r.source = "none" /\ r.settings = None
  BY DEF CheckResult

Inspection(captures, ask, revision) ==
    LET v       == ValidatePlugin(captures[1], captures[2], revision, NoPolicy)
        capture == captures[3]
        named   == References(Settings(capture.files))
    IN  /\ PresentationRequestValid(ask) /\ v.status = "pass"
        /\ v.candidate = ask.candidate /\ v.mode_manifest_sha256 = ask.mode
        /\ ask.copy.settings = v.manifest.openai_settings_sha256
        /\ CapturedFiles(capture.files) = v.files
        /\ ReferencesSound(Settings(capture.files), capture, v.skills) /\ ImagesSound(named, capture, ask)
        /\ CheckPresentation(captures, ask, revision) = CheckResult(v, v.findings, Images(named, capture, ask), ask.copy)

(* A check of a presentation stops at a blocker, passes on the findings of *)
(* its validation, or inspects the images.                                 *)
LEMMA CheckIs ==
  ASSUME NEW captures, NEW ask, NEW revision
  PROVE  LET v == ValidatePlugin(captures[1], captures[2], revision, NoPolicy)
             r == CheckPresentation(captures, ask, revision)
         IN  \/ \E code : r = Stopped(None, code) \/ (v.status = "pass" /\ r = Stopped(v, code))
             \/ v.status # "pass" /\ r = CheckResult(v, v.findings, {}, None)
             \/ Inspection(captures, ask, revision)
  <1> DEFINE v        == ValidatePlugin(captures[1], captures[2], revision, NoPolicy)
             r        == CheckPresentation(captures, ask, revision)
             settings == Settings(captures[3].files)
  <1>1. CASE ~(PresentationRequestValid(ask) /\ ask.candidate.source_revision = revision)
    BY <1>1 DEF CheckPresentation
  <1>2. CASE /\ PresentationRequestValid(ask) /\ ask.candidate.source_revision = revision /\ v.status # "pass"
    BY <1>2 DEF CheckPresentation
  <1>3. CASE /\ PresentationRequestValid(ask) /\ ask.candidate.source_revision = revision /\ v.status = "pass"
             /\ ~(/\ v.candidate = ask.candidate /\ v.mode_manifest_sha256 = ask.mode
                  /\ ask.copy.settings = v.manifest.openai_settings_sha256
                  /\ captures[3] # None /\ CapturedFiles(captures[3].files) = v.files
                  /\ ReferencesSound(settings, captures[3], v.skills)
                  /\ ImagesSound(References(settings), captures[3], ask) /\ captures[4] = captures[3])
    <2> HIDE DEF v, settings
    <2>1. \E code : r = Stopped(None, code) \/ r = Stopped(v, code)
      BY <1>3 DEF CheckPresentation, v, settings
    <2>2. QED  BY <1>3, <2>1 DEF v
  <1>4. CASE /\ PresentationRequestValid(ask) /\ ask.candidate.source_revision = revision /\ v.status = "pass"
             /\ v.candidate = ask.candidate /\ v.mode_manifest_sha256 = ask.mode
             /\ ask.copy.settings = v.manifest.openai_settings_sha256
             /\ captures[3] # None /\ CapturedFiles(captures[3].files) = v.files
             /\ ReferencesSound(settings, captures[3], v.skills)
             /\ ImagesSound(References(settings), captures[3], ask) /\ captures[4] = captures[3]
    <2> HIDE DEF v, settings
    <2>1. r = CheckResult(v, v.findings, Images(References(settings), captures[3], ask), ask.copy)
      BY <1>4 DEF CheckPresentation, v, settings
    <2>2. Inspection(captures, ask, revision)  BY <1>4, <2>1 DEF Inspection, v, settings
    <2>3. QED  BY <2>2
  <1>5. QED  BY <1>1, <1>2, <1>3, <1>4

(* A check that passes is an inspection.                                   *)
LEMMA PassingCheck ==
  ASSUME NEW captures, NEW ask, NEW revision, CheckPresentation(captures, ask, revision).status = "pass"
  PROVE  Inspection(captures, ask, revision)
  <1> DEFINE v == ValidatePlugin(captures[1], captures[2], revision, NoPolicy)
             r == CheckPresentation(captures, ask, revision)
  <1>1. ASSUME NEW w, NEW code PROVE Stopped(w, code).status = "blocked"
    <2>1. Stopped(w, code).status = IF BlocksAny({Blocker(code)}) THEN "blocked" ELSE "pass"
      BY CheckFields DEF Stopped
    <2>2. QED  BY <2>1 DEF BlocksAny, Blocker
  <1>2. ASSUME v.status # "pass" PROVE CheckResult(v, v.findings, {}, None).status = "blocked"
    <2>1. NoPolicy # None \/ v = Unbound(NoPolicy, "plugin_input_invalid")  BY DEF ValidatePlugin
    <2>2. BlocksAny(v.findings)
      <3>1. ASSUME NEW code, v = Unbound(NoPolicy, code) PROVE BlocksAny(v.findings)
        <4>1. v.findings = {Blocker(code)}  BY <3>1, UnboundFields
        <4>2. QED  BY <4>1 DEF BlocksAny, Blocker
      <3>2. ASSUME v = EvidenceOf(captures[1], revision, NoPolicy) PROVE BlocksAny(v.findings)
        <4>1. v.status = IF BlocksAny(v.findings) THEN "blocked" ELSE "pass"  BY <3>2, EvidenceFields
        <4>2. QED  BY <1>2, <4>1
      <3>3. QED  BY <2>1, <3>1, <3>2, ValidationIs
    <2> HIDE DEF v
    <2>3. QED  BY <2>2, CheckFields
  <1>3. QED  BY <1>1, <1>2, CheckIs

(* Every image that a passing check lists was approved as it was captured, *)
(* and the required ones are there.                                        *)
LEMMA ImagesApproved ==
  ASSUME NEW captures, NEW ask, NEW revision, Inspection(captures, ask, revision)
  PROVE  LET r == CheckPresentation(captures, ask, revision)
             v == ValidatePlugin(captures[1], captures[2], revision, NoPolicy)
         IN  /\ \A i \in r.images :
                    \E f \in v.files, a \in ask.approvals : f.path = i.path /\ a.path = i.path /\ f.sha256 = a.sha256
             /\ Required \subseteq UNION {i.roles : i \in r.images}
  <1> DEFINE v        == ValidatePlugin(captures[1], captures[2], revision, NoPolicy)
             r        == CheckPresentation(captures, ask, revision)
             capture  == captures[3]
             settings == Settings(capture.files)
             named    == References(settings)
             image(p) == [path |-> p, sha256 |-> Digest(capture.files[p].data), size |-> capture.files[p].size,
                          roles |-> named[p], format |-> capture.files[p].data.format,
                          width |-> capture.files[p].data.width, height |-> capture.files[p].data.height,
                          approval |-> Approval(ask, p)]
  <1>1. r.images = {image(p) : p \in DOMAIN named}
    <2>1. r = CheckResult(v, v.findings, Images(named, capture, ask), ask.copy)  BY DEF Inspection
    <2> HIDE DEF v, r, named
    <2>2. r.images = Images(named, capture, ask)  BY <2>1, CheckFields
    <2>3. QED  BY <2>2 DEF Images
  <1>2. /\ CapturedFiles(capture.files) = v.files /\ ReferencesSound(settings, capture, v.skills)
        /\ ImagesSound(named, capture, ask)
    BY DEF Inspection
  <1>3. \A p : image(p).path = p /\ image(p).roles = named[p]
    OBVIOUS
  <1> HIDE DEF v, r, image
  <1>4. ASSUME NEW p \in DOMAIN named
        PROVE  \E f \in v.files, a \in ask.approvals : f.path = p /\ a.path = p /\ f.sha256 = a.sha256
    <2> HIDE DEF named, settings
    <2>1. p \in DOMAIN capture.files  BY <1>2 DEF ReferencesSound, named
    <2>2. Row(capture.files, p) \in v.files /\ Row(capture.files, p).path = p
          /\ Row(capture.files, p).sha256 = Digest(capture.files[p].data)
      BY <1>2, <2>1 DEF CapturedFiles, Row
    <2>3. \E a \in ask.approvals : a.path = p  BY <1>2 DEF ImagesSound
    <2>4. Approval(ask, p) \in ask.approvals /\ Approval(ask, p).path = p  BY <2>3 DEF Approval
    <2>5. Approval(ask, p).sha256 = Digest(capture.files[p].data)  BY <1>2 DEF ImagesSound
    <2>6. QED  BY <2>2, <2>4, <2>5
  <1>5. ASSUME NEW f \in Required PROVE \E p \in DOMAIN named : f \in named[p]
    <2>1. f \in DOMAIN settings.icons  BY <1>2 DEF ReferencesSound
    <2>2. settings.icons[f] \in DOMAIN named /\ f \in named[settings.icons[f]]  BY <2>1 DEF References
    <2>3. QED  BY <2>2
  <1> HIDE DEF named
  <1>6. \A i \in r.images : \E p \in DOMAIN named : i.path = p /\ i.roles = named[p]  BY <1>1, <1>3
  <1>7. \A p \in DOMAIN named : \E i \in r.images : i.roles = named[p]  BY <1>1, <1>3
  <1>8. \A i \in r.images :
            \E f \in v.files, a \in ask.approvals : f.path = i.path /\ a.path = i.path /\ f.sha256 = a.sha256
    BY <1>4, <1>6
  <1>9. Required \subseteq UNION {i.roles : i \in r.images}  BY <1>5, <1>7
  <1>10. QED  BY <1>8, <1>9 DEF r, v

(* What is recorded of two captures tells their files apart.               *)
LEMMA SameRows ==
  ASSUME NEW f, NEW g, CapturedFiles(f) = CapturedFiles(g)
  PROVE  DOMAIN f = DOMAIN g /\ \A p \in DOMAIN f : f[p].data = g[p].data /\ f[p].size = g[p].size
  <1>1. DOMAIN f = DOMAIN g  BY RowsCaptured
  <1>2. ASSUME NEW p \in DOMAIN f PROVE f[p].data = g[p].data /\ f[p].size = g[p].size
    <2>1. \E q \in DOMAIN g : Row(f, p) = Row(g, q)
      <3>1. CapturedFiles(f) = {Row(f, q) : q \in DOMAIN f}  BY RowsCaptured
      <3>2. CapturedFiles(g) = {Row(g, q) : q \in DOMAIN g}  BY RowsCaptured
      <3>3. Row(f, p) \in {Row(g, q) : q \in DOMAIN g}  BY <3>1, <3>2
      <3>4. QED  BY <3>3
    <2>2. PICK q \in DOMAIN g : Row(f, p) = Row(g, q)  BY <2>1
    <2>3. q = p
      <3>1. Row(f, p).path = p  BY RowsCaptured
      <3>2. Row(g, q).path = q  BY RowsCaptured
      <3>3. QED  BY <2>2, <3>1, <3>2
    <2>4. Row(f, p) = Row(g, p)  BY <2>2, <2>3
    <2>5. Digest(f[p].data) = Digest(g[p].data) /\ f[p].size = g[p].size
      <3>1. \A h : Row(h, p).sha256 = Digest(h[p].data) /\ Row(h, p).size = h[p].size  BY RowsCaptured
      <3>2. QED  BY <2>4, <3>1
    <2>6. QED  BY <2>5 DEF Digest
  <1>3. QED  BY <1>1, <1>2

(* So they hold the same manifest and the same settings.                   *)
LEMMA SameSettings ==
  ASSUME NEW f, NEW g, CapturedFiles(f) = CapturedFiles(g), PluginManifest \in DOMAIN f
  PROVE  Settings(f) = Settings(g) /\ ParsePluginManifest(f) = ParsePluginManifest(g)
  <1>1. DOMAIN f = DOMAIN g /\ \A p \in DOMAIN f : f[p].data = g[p].data  BY SameRows
  <1>2. f[PluginManifest].data = g[PluginManifest].data  BY <1>1
  <1>3. SettingsSource(f) = SettingsSource(g)  BY <1>1, <1>2 DEF SettingsSource
  <1>4. Overlay \in DOMAIN f => f[Overlay].data = g[Overlay].data  BY <1>1
  <1>5. SettingsSource(f) = "compatibility" => Overlay \in DOMAIN f  BY DEF SettingsSource
  <1>6. Settings(f) = Settings(g)  BY <1>2, <1>3, <1>4, <1>5 DEF Settings
  <1>7. QED  BY <1>2, <1>3, <1>6 DEF ParsePluginManifest

(* The pictures of a plugin, one of each path its settings name. *)
Picture(p, named, capture, ask) ==
    [path |-> p, sha256 |-> Digest(capture.files[p].data), size |-> capture.files[p].size, roles |-> named[p],
     format |-> capture.files[p].data.format, width |-> capture.files[p].data.width,
     height |-> capture.files[p].data.height, approval |-> Approval(ask, p)]

(* What is recorded of an image.                                           *)
LEMMA PictureIs ==
  ASSUME NEW p, NEW named, NEW capture, NEW ask
  PROVE  LET i    == Picture(p, named, capture, ask)
             file == capture.files[p]
         IN  /\ i.path = p /\ i.sha256 = Digest(file.data) /\ i.size = file.size /\ i.roles = named[p]
             /\ i.format = file.data.format /\ i.width = file.data.width /\ i.height = file.data.height
             /\ i.approval = Approval(ask, p)
  BY DEF Picture

(* An image that is named has a role, and no icon field names two images.  *)
LEMMA RolesAre ==
  ASSUME NEW settings, NEW p \in DOMAIN References(settings)
  PROVE  /\ References(settings)[p] # {}
         /\ References(settings)[p] \cap IconFields \subseteq {f \in DOMAIN settings.icons : settings.icons[f] = p}
  <1> DEFINE roles == {f \in DOMAIN settings.icons : settings.icons[f] = p}
                      \cup FoundIf(p \in ToSet(settings.screenshots), "screenshot")
  <1>1. p \in {settings.icons[f] : f \in DOMAIN settings.icons} \cup ToSet(settings.screenshots)
    BY DEF References
  <1>2. References(settings)[p] = roles  BY <1>1 DEF References
  <1>3. roles # {}  BY <1>1 DEF FoundIf
  <1>4. roles \cap IconFields \subseteq {f \in DOMAIN settings.icons : settings.icons[f] = p}
    BY DEF FoundIf, IconFields
  <1>5. QED  BY <1>2, <1>3, <1>4

(* An image that was approved and inspected keeps its contract.            *)
LEMMA PictureValid ==
  ASSUME NEW settings, NEW capture, NEW ask, NEW p \in DOMAIN References(settings),
         PresentationRequestValid(ask), ImagesSound(References(settings), capture, ask)
  PROVE  ImageValid(Picture(p, References(settings), capture, ask), ask.candidate)
  <1> DEFINE named == References(settings)
             file  == capture.files[p]
             a     == Approval(ask, p)
             i     == Picture(p, named, capture, ask)
  <1>1. /\ a.kind = KindOf(named[p]) /\ a.sha256 = Digest(file.data) /\ Inspected(p, file, a.kind)
        /\ ~("screenshot" \in named[p] /\ file.data.format = "svg")
    BY DEF ImagesSound
  <1>2. a \in ask.approvals /\ a.path = p
    <2>1. \E b \in ask.approvals : b.path = p  BY DEF ImagesSound
    <2>2. QED  BY <2>1 DEF Approval
  <1>3. a.candidate = ask.candidate  BY <1>2 DEF PresentationRequestValid
  <1>4. named[p] # {}  BY RolesAre
  <1> HIDE DEF named, file, a
  <1>5. /\ i.path = p /\ i.sha256 = Digest(file.data) /\ i.roles = named[p] /\ i.format = file.data.format
        /\ i.width = file.data.width /\ i.height = file.data.height /\ i.approval = a
    BY PictureIs DEF named, file, a
  <1> HIDE DEF i
  <1>6. KindOf(named[p]) = "icon" => Square(file.data)
    BY <1>1 DEF Inspected, InspectSvg, InspectRaster
  <1>7. file.data.format # "svg" => file.data.width \in 1 .. MaxRaster /\ file.data.height \in 1 .. MaxRaster
    BY <1>1 DEF Inspected, InspectRaster
  <1>8. ImageValid(i, ask.candidate)  BY <1>1, <1>2, <1>3, <1>4, <1>5, <1>6, <1>7 DEF ImageValid, Square
  <1>9. QED  BY <1>8 DEF i, named

(* What a validation is bound to, every check of it is bound to.           *)
LEMMA BoundValidation ==
  ASSUME NoneIsMissing, NEW one, NEW two, NEW revision, NEW rules, rules # None, one # None => TreeCaptured(one)
  PROVE  LET v == ValidatePlugin(one, two, revision, rules)
         IN  /\ v # None /\ v.policy = rules /\ PluginValid(v) /\ v.status \in {"pass", "blocked"}
             /\ v.status # "pass" => BlocksAny(v.findings)
             /\ v.candidate # None =>
                    /\ v = EvidenceOf(one, revision, rules) /\ v.candidate.source_revision = revision
                    /\ v.mode_manifest_sha256 = Digest(v.files) /\ v.mode_manifest_sha256 # None
                    /\ v.manifest = ParsePluginManifest(one.files) /\ PluginManifest \in DOMAIN one.files
                    /\ v.files = CapturedFiles(one.files)
                    /\ (v.manifest.openai_settings_source = "none") = (v.manifest.openai_settings_sha256 = None)
             /\ v.status = "pass" => v.candidate # None
  <1> DEFINE v == ValidatePlugin(one, two, revision, rules)
  <1>1. PluginValid(v)  BY ValidationsValid
  <1>2. ASSUME NEW code, v = Unbound(rules, code)
        PROVE  /\ v # None /\ v.policy = rules /\ v.status = "blocked" /\ BlocksAny(v.findings) /\ v.candidate = None
    <2>1. v.policy = rules /\ v.status = "blocked" /\ v.candidate = None /\ v.findings = {Blocker(code)}
      BY <1>2, UnboundFields
    <2>2. v # None  BY <1>2 DEF Unbound, NoneIsMissing
    <2>3. BlocksAny(v.findings)  BY <2>1 DEF BlocksAny, Blocker
    <2>4. QED  BY <2>1, <2>2, <2>3
  <1>3. ASSUME Parsable(one.files), v = EvidenceOf(one, revision, rules)
        PROVE  /\ v # None /\ v.policy = rules /\ v.candidate # None /\ v.candidate.source_revision = revision
               /\ v.status = (IF BlocksAny(v.findings) THEN "blocked" ELSE "pass")
               /\ v.mode_manifest_sha256 = Digest(v.files) /\ v.mode_manifest_sha256 # None
               /\ v.manifest = ParsePluginManifest(one.files) /\ PluginManifest \in DOMAIN one.files
               /\ v.files = CapturedFiles(one.files)
               /\ (v.manifest.openai_settings_source = "none") = (v.manifest.openai_settings_sha256 = None)
    <2>1. v # None  BY <1>3 DEF EvidenceOf, NoneIsMissing
    <2> HIDE DEF v
    <2>2. /\ v.files = CapturedFiles(one.files) /\ v.manifest = ParsePluginManifest(one.files) /\ v.policy = rules
          /\ v.candidate = PluginCandidate(v.manifest.name, revision, v.files) /\ v.mode_manifest_sha256 = Digest(v.files)
          /\ v.status = IF BlocksAny(v.findings) THEN "blocked" ELSE "pass"
      BY <1>3, EvidenceFields
    <2>3. v.candidate # None /\ v.candidate.source_revision = revision
      BY <2>2 DEF PluginCandidate, NoneIsMissing
    <2>4. v.mode_manifest_sha256 # None  BY <2>2 DEF Digest, NoneIsMissing
    <2>5. PluginManifest \in DOMAIN one.files  BY <1>3 DEF Parsable
    <2>6. (v.manifest.openai_settings_source = "none") = (v.manifest.openai_settings_sha256 = None)
      BY <1>1, <2>3 DEF PluginValid, SettingsRetained, v
    <2>7. QED  BY <2>1, <2>2, <2>3, <2>4, <2>5, <2>6
  <1> HIDE DEF v
  <1>4. (\E code : v = Unbound(rules, code)) \/ (Parsable(one.files) /\ v = EvidenceOf(one, revision, rules))
    BY ValidationIs DEF v
  <1>5. QED  BY <1>1, <1>2, <1>3, <1>4 DEF v

(* Whatever a check of a presentation finds, it keeps its contract.        *)
LEMMA ChecksValid ==
  ASSUME NoneIsMissing, NEW captures, NEW ask, NEW revision, ask.copy # None,
         captures[1] # None => TreeCaptured(captures[1])
  PROVE  LET r == CheckPresentation(captures, ask, revision)
         IN  /\ r # None /\ CheckValid(r)
             /\ r.candidate # None => r.candidate.source_revision = revision
  <1> DEFINE v == ValidatePlugin(captures[1], captures[2], revision, NoPolicy)
             r == CheckPresentation(captures, ask, revision)
             settings == Settings(captures[3].files)
             named    == References(settings)
             images   == Images(named, captures[3], ask)
  <1>1. NoPolicy # None  BY DEF NoPolicy, NoneIsMissing
  <1>2. /\ v # None
        /\ v.status # "pass" => BlocksAny(v.findings)
        /\ v.candidate # None =>
               /\ v.candidate.source_revision = revision /\ v.mode_manifest_sha256 # None
               /\ v.manifest = ParsePluginManifest(captures[1].files) /\ PluginManifest \in DOMAIN captures[1].files
               /\ v.files = CapturedFiles(captures[1].files)
               /\ (v.manifest.openai_settings_source = "none") = (v.manifest.openai_settings_sha256 = None)
        /\ v.status = "pass" => v.candidate # None
    BY <1>1, BoundValidation
  <1> HIDE DEF v, r, images
  <1>3. \A w, found, pictures, copy : CheckResult(w, found, pictures, copy) # None
    BY DEF CheckResult, NoneIsMissing
  <1>4. ASSUME NEW w, w = None \/ w = v, NEW found, BlocksAny(found), r = CheckResult(w, found, {}, None)
        PROVE  /\ r # None /\ CheckValid(r)
               /\ r.candidate # None => r.candidate.source_revision = revision
    <2>1. /\ r.findings = found /\ r.images = {} /\ r.copy = None /\ r.status = "blocked"
          /\ (w # None /\ w.candidate # None) =>
                 /\ r.candidate = w.candidate /\ r.mode = w.mode_manifest_sha256
                 /\ r.source = w.manifest.openai_settings_source /\ r.settings = w.manifest.openai_settings_sha256
          /\ ~(w # None /\ w.candidate # None) =>
                 r.candidate = None /\ r.mode = None /\ r.source = "none" /\ r.settings = None
      BY <1>4, CheckFields
    <2>2. r # None  BY <1>3, <1>4
    <2>3. CASE w # None /\ w.candidate # None
      BY <1>2, <1>4, <2>1, <2>2, <2>3 DEF CheckValid
    <2>4. CASE ~(w # None /\ w.candidate # None)
      BY <1>4, <2>1, <2>2, <2>4 DEF CheckValid
    <2>5. QED  BY <2>3, <2>4
  <1>5. ASSUME NEW code, r = Stopped(None, code) \/ r = Stopped(v, code)
        PROVE  /\ r # None /\ CheckValid(r)
               /\ r.candidate # None => r.candidate.source_revision = revision
    <2>1. BlocksAny({Blocker(code)})  BY DEF BlocksAny, Blocker
    <2>2. QED  BY <1>4, <1>5, <2>1 DEF Stopped
  <1>6. ASSUME Inspection(captures, ask, revision)
        PROVE  /\ r # None /\ CheckValid(r)
               /\ r.candidate # None => r.candidate.source_revision = revision
    <2>1. /\ PresentationRequestValid(ask) /\ v.status = "pass" /\ v.candidate = ask.candidate
          /\ ask.copy.settings = v.manifest.openai_settings_sha256 /\ CapturedFiles(captures[3].files) = v.files
          /\ ReferencesSound(settings, captures[3], v.skills) /\ ImagesSound(named, captures[3], ask)
          /\ r = CheckResult(v, v.findings, images, ask.copy)
      BY <1>6 DEF Inspection, v, r, images
    <2>2. /\ r.findings = v.findings /\ r.images = images /\ r.copy = ask.copy /\ r.candidate = v.candidate
          /\ r.mode = v.mode_manifest_sha256 /\ r.source = v.manifest.openai_settings_source
          /\ r.settings = v.manifest.openai_settings_sha256
          /\ r.status = IF BlocksAny(r.findings) THEN "blocked" ELSE "pass"
      <3> HIDE DEF named, settings
      <3>1. r = CheckResult(v, v.findings, images, ask.copy) /\ v # None /\ v.candidate # None  BY <1>2, <2>1
      <3>2. /\ r.findings = v.findings /\ r.images = images /\ r.copy = ask.copy
            /\ r.status = IF BlocksAny(v.findings) THEN "blocked" ELSE "pass"
        BY <3>1, CheckFields
      <3>3. /\ r.candidate = v.candidate /\ r.mode = v.mode_manifest_sha256
            /\ r.source = v.manifest.openai_settings_source /\ r.settings = v.manifest.openai_settings_sha256
        BY <3>1, CheckFields
      <3>4. QED  BY <3>2, <3>3
    <2>3. images = {Picture(p, named, captures[3], ask) : p \in DOMAIN named}
      BY DEF images, Images, Picture
    <2>4. r.source # "none"
      <3>1. Settings(captures[1].files) = settings  BY <1>2, <2>1, SameSettings
      <3>2. settings # None  BY <2>1 DEF ReferencesSound
      <3>3. v.manifest.openai_settings_sha256 = Digest(Settings(captures[1].files))
        <4> HIDE DEF settings
        <4>1. QED  BY <1>2, <2>1, <3>1, <3>2 DEF ParsePluginManifest
      <3>4. v.manifest.openai_settings_sha256 # None  BY <3>3 DEF Digest, NoneIsMissing
      <3>5. QED  BY <1>2, <2>1, <2>2, <3>4
    <2>5. \A i \in images : ImageValid(i, ask.candidate)  BY <2>1, <2>3, PictureValid
    <2>6. Required \subseteq UNION {i.roles : i \in r.images}  BY <1>6, ImagesApproved DEF r
    <2>7. ASSUME NEW i \in images, NEW j \in images, i # j
          PROVE  i.path # j.path /\ i.roles \cap j.roles \cap IconFields = {}
      <3>1. PICK p \in DOMAIN named : i = Picture(p, named, captures[3], ask)  BY <2>3
      <3>2. PICK q \in DOMAIN named : j = Picture(q, named, captures[3], ask)  BY <2>3
      <3>3. p # q  BY <2>7, <3>1, <3>2
      <3>4. i.path = p /\ i.roles = named[p]  BY <3>1, PictureIs
      <3>5. j.path = q /\ j.roles = named[q]  BY <3>2, PictureIs
      <3>6. named[p] \cap IconFields \subseteq {f \in DOMAIN settings.icons : settings.icons[f] = p}  BY RolesAre
      <3>7. named[q] \cap IconFields \subseteq {f \in DOMAIN settings.icons : settings.icons[f] = q}  BY RolesAre
      <3>8. QED  BY <3>3, <3>4, <3>5, <3>6, <3>7
    <2>8. ask.copy.candidate = ask.candidate  BY <2>1 DEF PresentationRequestValid
    <2>9. (r.status = "blocked") = BlocksAny(r.findings)  BY <2>2 DEF BlocksAny
    <2>10. CheckValid(r)  BY <1>2, <2>1, <2>2, <2>4, <2>5, <2>6, <2>7, <2>8, <2>9 DEF CheckValid
    <2>11. QED  BY <1>2, <1>3, <2>1, <2>2, <2>10
  <1>7. \/ \E code : r = Stopped(None, code) \/ r = Stopped(v, code)
        \/ v.status # "pass" /\ r = CheckResult(v, v.findings, {}, None)
        \/ Inspection(captures, ask, revision)
    BY CheckIs DEF v, r
  <1>8. CASE v.status # "pass" /\ r = CheckResult(v, v.findings, {}, None)  BY <1>2, <1>4, <1>8 DEF r
  <1>9. QED  BY <1>5, <1>6, <1>7, <1>8 DEF r

-----------------------------------------------------------------------------
(* A check of plugin quality. *)

(* What a piece of work that runs has found of the plugin of its request:  *)
(* it was captured as requested, the children so far were reviewed as they *)
(* are, and its presentation passed as it is.                              *)
Reviewing(e) ==
    /\ e = [request |-> e.request, initial |-> e.initial, children |-> e.children, presentation |-> e.presentation,
            final |-> e.final]
    /\ e.request = request /\ PluginRequestValid(request) /\ SupportedRoot(request, e.initial)
    /\ \E t \in Trees, two \in Trees : t # None /\ e.initial = ValidatePlugin(t, two, Revision, RootPolicy)
    /\ AssessmentsFit(call.assessments, request)
    /\ e.children \in Seq(ToSet(e.children)) /\ Len(e.children) <= Len(request.children)
    /\ \A i \in DOMAIN e.children :
           LET child == request.children[i]
           IN  e.children[i].request = child /\ ChildPassed(e.children[i]) /\ call.assessments[child.path] = child.candidate
    /\ e.final = None
    /\ e.presentation # None =>
           /\ Len(e.children) = Len(request.children) /\ e.presentation.status = "pass" /\ BoundTo(e.presentation, request)
           /\ CheckValid(e.presentation)
           /\ \E captures : e.presentation = CheckPresentation(captures, call.presentation, Revision)
                            /\ \A i \in 1 .. 4 : captures[i] \in Trees

(* An answer that keeps its contract and the contracts of what it retains. *)
Lawful(r) ==
    /\ PluginResultValid(r)
    /\ \A v \in {r.evidence.initial, r.evidence.final} \ {None} : PluginValid(v)
    /\ r.evidence.presentation # None => CheckValid(r.evidence.presentation)

(* What is handed out was earned and is lawful, and nothing is found       *)
(* before the work.                                                        *)
Working(j) == (j.state = "running" /\ Reviewing(j.evidence)) \/ j.evidence = Empty

WorkInv ==
    /\ pluginTree \in Trees /\ call \in PluginCalls
    /\ \A c \in Callers : Working(jobs[c])
    /\ PluginsEarned /\ PluginAnswers

(* What is being reviewed is a list of children of a captured root.        *)
LEMMA InitialIs ==
  ASSUME NoneIsMissing, call \in PluginCalls, NEW e, Reviewing(e)
  PROVE  /\ e.request # None /\ e.initial # None /\ e.initial.policy = RootPolicy /\ PluginValid(e.initial)
         /\ e.initial.candidate = request.candidate /\ e.initial.mode_manifest_sha256 = request.mode
         /\ request.children \in Seq(ToSet(request.children)) /\ request.children # <<>>
         /\ Len(request.children) \in Nat \ {0}
  <1>1. PICK t \in Trees, two \in Trees : t # None /\ e.initial = ValidatePlugin(t, two, Revision, RootPolicy)
    BY DEF Reviewing
  <1>2. RootPolicy # None  BY DEF RootPolicy, NoneIsMissing
  <1>3. t # None => TreeCaptured(t)  BY PluginAssumption
  <1>4. e.initial # None /\ e.initial.policy = RootPolicy /\ PluginValid(e.initial)
    BY <1>1, <1>2, <1>3, BoundValidation
  <1>5. e.request # None /\ request.children \in Seq(ToSet(request.children))
    BY PluginAssumption DEF Reviewing, request
  <1>6. request.children # <<>>  BY DEF Reviewing, PluginRequestValid
  <1>7. Len(request.children) \in Nat \ {0}  BY <1>5, <1>6, EmptySeq
  <1>8. QED  BY <1>4, <1>5, <1>6, <1>7 DEF Reviewing, SupportedRoot

(* Its presentation is about the files that were captured for it.          *)
LEMMA PresentedLawful ==
  ASSUME NoneIsMissing, call \in PluginCalls, NEW e, Reviewing(e), e.presentation # None
  PROVE  /\ BindPresentation(e)
         /\ \A i \in e.presentation.images :
                \E f \in e.initial.files, a \in call.presentation.approvals :
                    f.path = i.path /\ a.path = i.path /\ f.sha256 = a.sha256
         /\ Required \subseteq UNION {i.roles : i \in e.presentation.images}
  <1> DEFINE v == e.initial
  <1>1. PICK t \in Trees, two \in Trees : t # None /\ v = ValidatePlugin(t, two, Revision, RootPolicy)
    BY DEF Reviewing
  <1>2. v.status = "pass" /\ v.mode_manifest_sha256 = request.mode  BY DEF Reviewing, SupportedRoot
  <1>3. RootPolicy # None /\ NoPolicy # None  BY DEF RootPolicy, NoPolicy, NoneIsMissing
  <1>4. TreeCaptured(t)  BY <1>1, PluginAssumption
  <1>5. /\ v.files = CapturedFiles(t.files) /\ v.manifest = ParsePluginManifest(t.files)
        /\ v.mode_manifest_sha256 = Digest(v.files)
    BY <1>1, <1>2, <1>3, <1>4, BoundValidation
  <1> HIDE DEF v
  <1>6. PICK captures : /\ e.presentation = CheckPresentation(captures, call.presentation, Revision)
                        /\ \A i \in 1 .. 4 : captures[i] \in Trees
    BY DEF Reviewing
  <1>7. Inspection(captures, call.presentation, Revision)  BY <1>6, PassingCheck DEF Reviewing
  <1> DEFINE w      == ValidatePlugin(captures[1], captures[2], Revision, NoPolicy)
             named  == References(Settings(captures[3].files))
             images == Images(named, captures[3], call.presentation)
  <1>8. /\ w.status = "pass" /\ CapturedFiles(captures[3].files) = w.files
        /\ e.presentation = CheckResult(w, w.findings, images, call.presentation.copy)
    BY <1>6, <1>7 DEF Inspection
  <1>9. captures[1] # None => TreeCaptured(captures[1])  BY <1>6, PluginAssumption
  <1>10. /\ w # None /\ w.candidate # None /\ w.files = CapturedFiles(captures[1].files)
         /\ w.mode_manifest_sha256 = Digest(w.files) /\ w.manifest = ParsePluginManifest(captures[1].files)
         /\ PluginManifest \in DOMAIN captures[1].files
    BY <1>3, <1>8, <1>9, BoundValidation
  <1> HIDE DEF w, images
  <1>11. /\ e.presentation.mode = w.mode_manifest_sha256 /\ e.presentation.images = images
         /\ e.presentation.source = w.manifest.openai_settings_source
         /\ e.presentation.settings = w.manifest.openai_settings_sha256
    <2> HIDE DEF named
    <2>1. QED  BY <1>8, <1>10, CheckFields
  <1>12. w.files = v.files
    <2>1. w.mode_manifest_sha256 = v.mode_manifest_sha256  BY <1>2, <1>11 DEF Reviewing, BoundTo
    <2>2. QED  BY <1>5, <1>10, <2>1 DEF Digest
  <1>13. w.manifest = v.manifest  BY <1>5, <1>10, <1>12, SameSettings
  <1>14. ASSUME NEW i \in e.presentation.images
         PROVE  \E f \in v.files : f.path = i.path /\ f.sha256 = i.sha256 /\ f.size = i.size
    <2> DEFINE files == captures[3].files
    <2>1. images = {Picture(p, named, captures[3], call.presentation) : p \in DOMAIN named}
      BY DEF images, Images, Picture
    <2>2. DOMAIN named \subseteq DOMAIN files
      BY <1>7 DEF Inspection, ReferencesSound
    <2> HIDE DEF named
    <2>3. PICK p \in DOMAIN named : i = Picture(p, named, captures[3], call.presentation)  BY <1>11, <2>1
    <2>4. i.path = p /\ i.sha256 = Digest(files[p].data) /\ i.size = files[p].size  BY <2>3, PictureIs
    <2>5. Row(files, p) \in CapturedFiles(files)
      <3>1. CapturedFiles(files) = {Row(files, q) : q \in DOMAIN files}  BY RowsCaptured
      <3>2. QED  BY <2>2, <3>1
    <2>6. Row(files, p).path = p /\ Row(files, p).sha256 = Digest(files[p].data) /\ Row(files, p).size = files[p].size
      BY RowsCaptured
    <2>7. QED  BY <1>8, <1>12, <2>4, <2>5, <2>6
  <1>15. BindPresentation(e)  BY <1>11, <1>13, <1>14 DEF BindPresentation, v
  <1>16. /\ \A i \in e.presentation.images :
               \E f \in v.files, a \in call.presentation.approvals : f.path = i.path /\ a.path = i.path /\ f.sha256 = a.sha256
         /\ Required \subseteq UNION {i.roles : i \in e.presentation.images}
    BY <1>6, <1>7, <1>12, ImagesApproved DEF w
  <1>17. QED  BY <1>15, <1>16 DEF v

(* What was reviewed and presented, and is captured again as it was, has   *)
(* earned its pass.                                                        *)
LEMMA ReviewedEarned ==
  ASSUME NoneIsMissing, call \in PluginCalls, NEW e, Reviewing(e), e.presentation # None, NEW x,
         x.initial = e.initial, x.presentation = e.presentation, x.final = e.initial
  PROVE  PassEarned(x)
  <1> DEFINE v == e.initial
  <1>1. PICK t \in Trees, two \in Trees : t # None /\ v = ValidatePlugin(t, two, Revision, RootPolicy)
    BY DEF Reviewing
  <1>2. /\ v.status = "pass" /\ v.candidate = request.candidate /\ v.mode_manifest_sha256 = request.mode
        /\ {<<s.path, s.validation.candidate>> : s \in v.skills} = {<<k.path, k.candidate>> : k \in ToSet(request.children)}
        /\ request.snapshot # None => v.manifest.version = request.snapshot.version
    BY DEF Reviewing, SupportedRoot
  <1>3. PluginValid(v)  BY InitialIs
  <1>4. \A s \in v.skills : s.validation.status = "pass"
    <2>1. RootPolicy # None  BY DEF RootPolicy, NoneIsMissing
    <2>2. QED  BY <1>1, <1>2, <2>1, PassingValidation
  <1> HIDE DEF v
  <1>5. ASSUME NEW s \in v.skills PROVE call.assessments[s.path] = s.validation.candidate
    <2>1. PICK k \in ToSet(request.children) : <<s.path, s.validation.candidate>> = <<k.path, k.candidate>>
      BY <1>2
    <2>2. PICK i \in DOMAIN request.children : request.children[i] = k  BY <2>1 DEF ToSet
    <2>3. i \in DOMAIN e.children
      <3>1. request.children \in Seq(ToSet(request.children))  BY InitialIs
      <3>2. e.children \in Seq(ToSet(e.children)) /\ Len(e.children) = Len(request.children)  BY DEF Reviewing
      <3>3. QED  BY <3>1, <3>2
    <2>4. call.assessments[k.path] = k.candidate  BY <2>2, <2>3 DEF Reviewing
    <2>5. QED  BY <2>1, <2>4
  <1>6. /\ \A i \in e.presentation.images :
               \E f \in v.files, a \in call.presentation.approvals : f.path = i.path /\ a.path = i.path /\ f.sha256 = a.sha256
        /\ Required \subseteq UNION {i.roles : i \in e.presentation.images}
    BY PresentedLawful DEF v
  <1>7. x.final = v /\ x.presentation = e.presentation  BY DEF v
  <1>8. QED  BY <1>2, <1>3, <1>4, <1>5, <1>6, <1>7 DEF PassEarned

(* What was found of a plugin stays found: the call does not change.       *)
LEMMA SameCall ==
  ASSUME call' = call, NEW e
  PROVE  Reviewing(e)' = Reviewing(e) /\ PassEarned(e)' = PassEarned(e)
  BY DEF Reviewing, PassEarned, request, Revision

(* Of one job at most something changes, and that is in order.             *)
LEMMA WorkMoves ==
  ASSUME WorkInv, call' = call, pluginTree' \in Trees, NEW c \in Callers,
         \A d \in Callers \ {c} : jobs'[d] = jobs[d],
         Working(jobs'[c]),
         jobs'[c].state = "finished" =>
             /\ Lawful(jobs'[c].result)
             /\ jobs'[c].result.status = "local_checks_passed" => PassEarned(jobs'[c].result.evidence)
  PROVE  WorkInv'
  <1>1. \A e : Reviewing(e)' = Reviewing(e) /\ PassEarned(e)' = PassEarned(e)  BY SameCall
  <1>2. \A d \in Callers : Working(jobs[d])'
    <2>1. ASSUME NEW d \in Callers PROVE Working(jobs'[d])
      BY DEF WorkInv
    <2>2. ASSUME NEW d \in Callers PROVE Working(jobs[d])' = Working(jobs'[d])
      BY <1>1 DEF Working
    <2>3. QED  BY <2>1, <2>2
  <1>3. PluginsEarned'
    <2> SUFFICES ASSUME NEW d \in Callers, jobs'[d].state = "finished", jobs'[d].result.status = "local_checks_passed"
                 PROVE  PassEarned(jobs'[d].result.evidence)
      BY <1>1 DEF PluginsEarned
    <2>1. QED  BY DEF WorkInv, PluginsEarned
  <1>4. PluginAnswers'
    <2> SUFFICES ASSUME NEW d \in Callers, jobs'[d].state = "finished"
                 PROVE  Lawful(jobs'[d].result)
      BY DEF PluginAnswers, Lawful
    <2>1. CASE d # c
      <3>1. jobs'[d] = jobs[d] /\ PluginAnswers  BY <2>1 DEF WorkInv
      <3>2. QED  BY <3>1 DEF PluginAnswers, Lawful
    <2>2. QED  BY <2>1
  <1>5. QED  BY <1>2, <1>3, <1>4 DEF WorkInv

(* Work that goes on changes its own evidence only.                        *)
LEMMA WorkGoes ==
  ASSUME SlotInv, NEW c \in Callers, NEW x, jobs' = [jobs EXCEPT ![c].evidence = x]
  PROVE  /\ jobs'[c].state = jobs[c].state /\ jobs'[c].evidence = x /\ jobs'[c].result = jobs[c].result
         /\ \A d \in Callers \ {c} : jobs'[d] = jobs[d]
  <1>1. Shape(jobs[c]) /\ jobs = [d \in Callers |-> jobs[d]]  BY DEF SlotInv, Futures
  <1>2. jobs'[c] = [jobs[c] EXCEPT !.evidence = x] /\ \A d \in Callers \ {c} : jobs'[d] = jobs[d]  BY <1>1
  <1>3. [jobs[c] EXCEPT !.evidence = x] = [state |-> jobs[c].state, evidence |-> x, result |-> jobs[c].result]
    BY <1>1 DEF Shape
  <1>4. QED  BY <1>2, <1>3

(* Work that ends hands out its result and keeps no evidence.              *)
LEMMA WorkEnds ==
  ASSUME SlotInv, NEW c \in Callers, NEW x, Ends(c, x)
  PROVE  /\ jobs'[c].state = "finished" /\ jobs'[c].evidence = Empty /\ jobs'[c].result = x
         /\ \A d \in Callers \ {c} : jobs'[d] = jobs[d]
  <1>1. Shape(jobs[c]) /\ jobs = [d \in Callers |-> jobs[d]]  BY DEF SlotInv, Futures
  <1>2. jobs'[c] = [jobs[c] EXCEPT !.state = "finished", !.evidence = Empty, !.result = x]
        /\ \A d \in Callers \ {c} : jobs'[d] = jobs[d]
    BY <1>1 DEF Ends
  <1>3. jobs'[c] = [state |-> "finished", evidence |-> Empty, result |-> x]
    BY <1>1, <1>2 DEF Shape
  <1>4. QED  BY <1>2, <1>3

(* A state that is assigned leaves what was found.                         *)
LEMMA WorkState ==
  ASSUME SlotInv, NEW c \in Callers, NEW s, jobs' = [jobs EXCEPT ![c].state = s]
  PROVE  /\ jobs'[c].state = s /\ jobs'[c].evidence = jobs[c].evidence
         /\ \A d \in Callers \ {c} : jobs'[d] = jobs[d]
  <1>1. Shape(jobs[c]) /\ jobs = [d \in Callers |-> jobs[d]]  BY DEF SlotInv, Futures
  <1>2. jobs'[c] = [jobs[c] EXCEPT !.state = s] /\ \A d \in Callers \ {c} : jobs'[d] = jobs[d]  BY <1>1
  <1>3. [jobs[c] EXCEPT !.state = s] = [state |-> s, evidence |-> jobs[c].evidence, result |-> jobs[c].result]
    BY <1>1 DEF Shape
  <1>4. QED  BY <1>2, <1>3

(* Before it runs, and after, a piece of work holds no evidence.           *)
LEMMA WorkElsewhere ==
  ASSUME SlotInv, WorkInv, NEW c \in Callers, CheckPlugin(c) \/ Future(c) \/ CancelCaller(c)
  PROVE  WorkInv'
  <1>1. call' = call /\ pluginTree' \in Trees
    BY DEF WorkInv, CheckPlugin, Future, StartJob, ReleaseSlot, Deliver, CancelCaller
  <1>2. CASE UNCHANGED jobs
    <2>1. Working(jobs'[c])  BY <1>2 DEF WorkInv
    <2>2. QED  BY <1>1, <1>2, <2>1, WorkMoves DEF WorkInv, PluginsEarned, PluginAnswers, Lawful
  <1>3. ASSUME NEW s \in {"queued", "running", "over"}, jobs' = [jobs EXCEPT ![c].state = s], jobs[c].state # "running"
        PROVE  WorkInv'
    <2>1. jobs'[c].evidence = Empty /\ jobs'[c].state # "finished" /\ \A d \in Callers \ {c} : jobs'[d] = jobs[d]
      BY <1>3, WorkState DEF WorkInv, Working
    <2>2. QED  BY <1>1, <2>1, WorkMoves DEF Working
  <1>4. ASSUME jobs' = [jobs EXCEPT ![c].result = Block(Empty, "capacity_exceeded")], callers[c] = "out"
        PROVE  WorkInv'
    <2>1. jobs[c].state = "none"  BY <1>4 DEF SlotInv, Unsubmitted
    <2>2. Shape(jobs[c]) /\ jobs = [d \in Callers |-> jobs[d]]  BY DEF SlotInv, Futures
    <2>3. jobs'[c] = [jobs[c] EXCEPT !.result = Block(Empty, "capacity_exceeded")] /\ \A d \in Callers \ {c} : jobs'[d] = jobs[d]
      BY <1>4, <2>2
    <2>4. jobs'[c].state = "none" /\ jobs'[c].evidence = jobs[c].evidence
      BY <2>1, <2>2, <2>3 DEF Shape
    <2>5. jobs'[c].evidence = Empty  BY <2>1, <2>4 DEF WorkInv, Working
    <2>6. QED  BY <1>1, <2>3, <2>4, <2>5, WorkMoves DEF Working
  <1>5. CASE CheckPlugin(c)
    <2>1. callers[c] = "out" /\ jobs[c].state # "running"  BY <1>5 DEF CheckPlugin, SlotInv, Unsubmitted
    <2>2. \/ UNCHANGED jobs \/ jobs' = [jobs EXCEPT ![c].state = "queued"]
          \/ jobs' = [jobs EXCEPT ![c].result = Block(Empty, "capacity_exceeded")]
      BY <1>5 DEF CheckPlugin
    <2>3. QED  BY <1>2, <1>3, <1>4, <2>1, <2>2
  <1>6. CASE Future(c) \/ CancelCaller(c)
    <2>1. \/ UNCHANGED jobs
          \/ jobs[c].state # "running" /\ \E s \in {"queued", "running", "over"} : jobs' = [jobs EXCEPT ![c].state = s]
      BY <1>6 DEF Future, StartJob, ReleaseSlot, Deliver, CancelCaller
    <2>2. QED  BY <1>2, <1>3, <2>1
  <1>7. QED  BY <1>5, <1>6

(* Work that is blocked hands out no pass, and work that goes on has found *)
(* what it goes on with.                                                   *)
LEMMA BlockedIs ==
  ASSUME NEW e, NEW code
  PROVE  Block(e, code).status = "blocked" /\ Block(e, code).evidence = e /\ Block(e, code).blocker = code
  BY DEF Block, CheckOutcome

(* A lawful blocker keeps the invariant.                                   *)
LEMMA BlockedKeeps ==
  ASSUME SlotInv, WorkInv, NEW c \in Callers, NEW e, NEW code, Ends(c, Block(e, code)), Lawful(Block(e, code))
  PROVE  WorkInv'
  <1>1. Block(e, code).status = "blocked"  BY BlockedIs
  <1>2. call' = call /\ pluginTree' \in Trees  BY DEF Ends, WorkInv
  <1> DEFINE r == Block(e, code)
  <1> HIDE DEF r
  <1>3. jobs'[c].state = "finished" /\ jobs'[c].evidence = Empty /\ jobs'[c].result = r
        /\ \A d \in Callers \ {c} : jobs'[d] = jobs[d]
    BY WorkEnds DEF r
  <1>4. r.status # "local_checks_passed" /\ Lawful(r)  BY <1>1 DEF r
  <1>5. QED  BY <1>2, <1>3, <1>4, WorkMoves DEF Working

(* A refusal retains nothing.                                              *)
LEMMA RefusedLawful ==
  ASSUME NoneIsMissing, NEW code \in {"input_invalid", "request_invalid"}
  PROVE  Lawful(Block(Empty, code))
  <1>1. Empty.request = None /\ Empty.initial = None /\ Empty.children = <<>> /\ Empty.presentation = None /\ Empty.final = None
    BY DEF Empty
  <1>2. Retained(Empty) = {}  BY <1>1 DEF Retained, FoundIf
  <1>3. code # None  BY DEF NoneIsMissing, BlockerCodes
  <1>4. BlockerStage(Empty, code)  BY <1>2 DEF BlockerStage
  <1>5. PluginResultValid(Block(Empty, code))
    BY <1>1, <1>3, <1>4, BlockedIs DEF PluginResultValid
  <1>6. QED  BY <1>1, <1>5, BlockedIs DEF Lawful

(* So does evidence that was found.                                        *)
LEMMA GoesKeeps ==
  ASSUME SlotInv, WorkInv, NEW c \in Callers, Running(c), NEW e, Goes(c, e), Reviewing(e)
  PROVE  WorkInv'
  <1>1. call' = call /\ pluginTree' \in Trees  BY DEF Goes, WorkInv
  <1>2. /\ jobs'[c].state = "running" /\ jobs'[c].evidence = e /\ \A d \in Callers \ {c} : jobs'[d] = jobs[d]
    BY WorkGoes DEF Goes, Running
  <1>3. QED  BY <1>1, <1>2, WorkMoves DEF Working

(* Every moment of a capture is one of the trees.                          *)
LEMMA MomentsCaptured == ASSUME pluginTree \in Trees PROVE Moments \subseteq Trees
  BY DEF Moments

(* Evidence of a root that was captured, and of nothing more yet.          *)
LEMMA RootBegun ==
  ASSUME NEW asked, NEW capture
  PROVE  LET e == [Empty EXCEPT !.request = asked, !.initial = capture]
         IN  /\ e.request = asked /\ e.initial = capture /\ e.children = <<>> /\ e.presentation = None /\ e.final = None
             /\ e = [request |-> e.request, initial |-> e.initial, children |-> e.children, presentation |-> e.presentation,
                     final |-> e.final]
  <1> DEFINE e == [Empty EXCEPT !.request = asked, !.initial = capture]
  <1>1. e = [[Empty EXCEPT !.request = asked] EXCEPT !.initial = capture]  BY Zenon
  <1>2. [Empty EXCEPT !.request = asked]
            = [request |-> asked, initial |-> None, children |-> <<>>, presentation |-> None, final |-> None]
    BY DEF Empty
  <1>3. [[request |-> asked, initial |-> None, children |-> <<>>, presentation |-> None, final |-> None]
            EXCEPT !.initial = capture]
            = [request |-> asked, initial |-> capture, children |-> <<>>, presentation |-> None, final |-> None]
    OBVIOUS
  <1>4. e = [request |-> asked, initial |-> capture, children |-> <<>>, presentation |-> None, final |-> None]
    BY <1>1, <1>2, <1>3, Zenon
  <1> HIDE DEF e
  <1>5. /\ e.request = asked /\ e.initial = capture /\ e.children = <<>> /\ e.presentation = None /\ e.final = None
        /\ e = [request |-> e.request, initial |-> e.initial, children |-> e.children, presentation |-> e.presentation,
                final |-> e.final]
    BY <1>4
  <1>6. QED  BY <1>5 DEF e

(* Another root, and assessments that do not fit it, are lawful answers.   *)
LEMMA RootLawful ==
  ASSUME NoneIsMissing, NEW e, NEW code,
         e.request # None, e.initial # None, e.children = <<>>, e.presentation = None, e.final = None,
         e.initial.policy = RootPolicy, PluginValid(e.initial),
         e.initial.candidate # None => e.initial.candidate.source_revision = e.request.candidate.source_revision,
         \/ code = "root_mismatch" /\ ~SupportedRoot(e.request, e.initial)
         \/ code = "assessments_invalid" /\ SupportedRoot(e.request, e.initial)
  PROVE  Lawful(Block(e, code))
  <1>1. Retained(e) = {"request", "initial"}  BY DEF Retained, FoundIf
  <1>2. code # None  BY DEF NoneIsMissing, BlockerCodes
  <1>3. BlockerStage(e, code)  BY <1>1 DEF BlockerStage
  <1>4. PluginResultValid(Block(e, code))  BY <1>2, <1>3, BlockedIs DEF PluginResultValid
  <1>5. QED  BY <1>4, BlockedIs DEF Lawful

(* The first capture: the root asked for, or a refusal.                    *)
LEMMA InitialCaptureInv ==
  ASSUME NoneIsMissing, SlotInv, WorkInv, NEW c \in Callers, InitialCapture(c)
  PROVE  WorkInv'
  <1>1. PICK second \in Moments :
            LET capture == ValidatePlugin(pluginTree, second, Revision, RootPolicy)
                e       == [Empty EXCEPT !.request = request, !.initial = capture]
            IN  \/ \E code \in {"input_invalid", "request_invalid"} : Ends(c, Block(Empty, code))
                \/ ~SupportedRoot(request, capture) /\ Ends(c, Block(e, "root_mismatch"))
                \/ SupportedRoot(request, capture) /\ Ends(c, Block(e, "assessments_invalid"))
                \/ /\ PluginRequestValid(request) /\ SupportedRoot(request, capture)
                   /\ AssessmentsFit(call.assessments, request) /\ Goes(c, e)
    BY DEF InitialCapture
  <1> DEFINE capture == ValidatePlugin(pluginTree, second, Revision, RootPolicy)
             e       == [Empty EXCEPT !.request = request, !.initial = capture]
  <1>2. CASE \E code \in {"input_invalid", "request_invalid"} : Ends(c, Block(Empty, code))
    BY <1>2, RefusedLawful, BlockedKeeps
  <1>3. pluginTree \in Trees /\ second \in Trees  BY MomentsCaptured DEF WorkInv
  <1>4. RootPolicy # None  BY DEF RootPolicy, NoneIsMissing
  <1>5. /\ capture # None /\ capture.policy = RootPolicy /\ PluginValid(capture)
        /\ capture.candidate # None => capture.candidate.source_revision = request.candidate.source_revision
    <2>1. pluginTree # None => TreeCaptured(pluginTree)  BY <1>3, PluginAssumption
    <2>2. QED  BY <1>4, <2>1, BoundValidation DEF Revision
  <1>6. request # None /\ request.children \in Seq(ToSet(request.children))
    BY PluginAssumption DEF WorkInv, request
  <1>7. capture.status = "pass" => pluginTree # None  BY <1>4, PassingValidation
  <1>8. \E two \in Trees : capture = ValidatePlugin(pluginTree, two, Revision, RootPolicy)  BY <1>3
  <1> HIDE DEF capture
  <1>9. /\ e.request = request /\ e.initial = capture /\ e.children = <<>> /\ e.presentation = None /\ e.final = None
        /\ e = [request |-> e.request, initial |-> e.initial, children |-> e.children, presentation |-> e.presentation,
                final |-> e.final]
    BY RootBegun
  <1> HIDE DEF e
  <1>10. CASE \/ ~SupportedRoot(request, capture) /\ Ends(c, Block(e, "root_mismatch"))
              \/ SupportedRoot(request, capture) /\ Ends(c, Block(e, "assessments_invalid"))
    BY <1>5, <1>6, <1>9, <1>10, RootLawful, BlockedKeeps
  <1>11. CASE /\ PluginRequestValid(request) /\ SupportedRoot(request, capture)
              /\ AssessmentsFit(call.assessments, request) /\ Goes(c, e)
    <2>1. capture.status = "pass"  BY <1>11 DEF SupportedRoot
    <2>2. /\ <<>> \in Seq(ToSet(<<>>)) /\ Len(<<>>) = 0 /\ DOMAIN <<>> = {} /\ Len(request.children) \in Nat
      BY <1>6 DEF ToSet
    <2>3. Reviewing(e)  BY <1>3, <1>7, <1>8, <1>9, <1>11, <2>1, <2>2 DEF Reviewing
    <2>4. Running(c)  BY DEF InitialCapture
    <2>5. QED  BY <1>11, <2>3, <2>4, GoesKeeps
  <1>12. QED  BY <1>1, <1>2, <1>10, <1>11 DEF e, capture

(* Evidence that is there was found by this work.                          *)
LEMMA InReview ==
  ASSUME WorkInv, NEW c \in Callers, Evidence(c).initial # None \/ Evidence(c).presentation # None
  PROVE  Reviewing(Evidence(c))
  BY DEF WorkInv, Working, Evidence, Empty

(* A child is added to those reviewed.                                     *)
LEMMA ChildAdded ==
  ASSUME NEW e, Reviewing(e), NEW child
  PROVE  LET after == [e EXCEPT !.children = Append(@, child)]
             s     == after.children
             n     == Len(e.children)
         IN  /\ after.request = e.request /\ after.initial = e.initial
             /\ after.presentation = e.presentation /\ after.final = e.final
             /\ after = [request |-> after.request, initial |-> after.initial, children |-> s,
                         presentation |-> after.presentation, final |-> after.final]
             /\ s \in Seq(ToSet(s)) /\ n \in Nat /\ Len(s) = n + 1 /\ s # <<>> /\ Last(s) = child
             /\ s[n + 1] = child /\ \A i \in 1 .. n : i \in DOMAIN e.children /\ s[i] = e.children[i]
  <1> DEFINE t     == Append(e.children, child)
             after == [e EXCEPT !.children = t]
             S     == ToSet(e.children) \cup {child}
  <1>1. /\ e = [request |-> e.request, initial |-> e.initial, children |-> e.children, presentation |-> e.presentation,
                final |-> e.final]
        /\ e.children \in Seq(ToSet(e.children))
    BY DEF Reviewing
  <1>2. /\ t \in Seq(S) /\ Len(t) = Len(e.children) + 1 /\ Len(e.children) \in Nat
        /\ \A i \in 1 .. Len(e.children) : t[i] = e.children[i]
        /\ t[Len(e.children) + 1] = child
    <2>1. e.children \in Seq(S)  BY <1>1 DEF ToSet
    <2>2. QED  BY <2>1, AppendProperties
  <1> HIDE DEF t, S
  <1>3. /\ after.request = e.request /\ after.initial = e.initial /\ after.children = t
        /\ after.presentation = e.presentation /\ after.final = e.final
        /\ after = [request |-> after.request, initial |-> after.initial, children |-> after.children,
                    presentation |-> after.presentation, final |-> after.final]
    BY <1>1
  <1>4. t \in Seq(ToSet(t)) /\ t # <<>>  BY <1>2 DEF ToSet
  <1>5. Last(t) = child  BY <1>2 DEF Last
  <1>6. \A i \in 1 .. Len(e.children) : i \in DOMAIN e.children  BY <1>1
  <1> HIDE DEF after
  <1>7. QED  BY <1>2, <1>3, <1>4, <1>5, <1>6 DEF after, t

(* Children that were reviewed in order are bound to the captured root.    *)
LEMMA ChildrenBound ==
  ASSUME NEW x, SupportedRoot(x.request, x.initial), x.request.children \in Seq(ToSet(x.request.children)),
         x.children \in Seq(ToSet(x.children)), Len(x.children) <= Len(x.request.children),
         \A i \in DOMAIN x.children :
             x.children[i].request = x.request.children[i] /\ (i < Len(x.children) => ChildPassed(x.children[i]))
  PROVE  BindChildren(x)
  <1>1. /\ x.initial.candidate = x.request.candidate /\ x.initial.mode_manifest_sha256 = x.request.mode
        /\ {<<s.path, s.validation.candidate>> : s \in x.initial.skills}
               = {<<k.path, k.candidate>> : k \in ToSet(x.request.children)}
    BY DEF SupportedRoot
  <1>2. ASSUME NEW k \in ToSet(x.request.children)
        PROVE  \E s \in x.initial.skills : s.path = k.path /\ s.validation.candidate = k.candidate
    <2>1. <<k.path, k.candidate>> \in {<<s.path, s.validation.candidate>> : s \in x.initial.skills}  BY <1>1
    <2>2. QED  BY <2>1
  <1>3. ASSUME NEW s \in x.initial.skills PROVE \E k \in ToSet(x.request.children) : s.path = k.path
    <2>1. <<s.path, s.validation.candidate>> \in {<<k.path, k.candidate>> : k \in ToSet(x.request.children)}  BY <1>1
    <2>2. QED  BY <2>1
  <1>4. {s.path : s \in x.initial.skills} = {k.path : k \in ToSet(x.request.children)}  BY <1>2, <1>3
  <1>5. \A i \in DOMAIN x.children : x.request.children[i] \in ToSet(x.request.children)
    <2>1. \A i \in DOMAIN x.children : i \in DOMAIN x.request.children
      <3>1. Len(x.children) \in Nat /\ Len(x.request.children) \in Nat  OBVIOUS
      <3>2. QED  BY <3>1
    <2>2. QED  BY <2>1 DEF ToSet
  <1>6. QED  BY <1>1, <1>2, <1>4, <1>5 DEF BindChildren

(* An answer after some children retains them, bound and in order.         *)
LEMMA ChildrenLawful ==
  ASSUME NoneIsMissing, call \in PluginCalls, NEW e, Reviewing(e), NEW x, NEW code \in BlockerCodes,
         x.request = e.request, x.initial = e.initial, x.final = None \/ PluginValid(x.final),
         x.presentation # None =>
             /\ CheckValid(x.presentation)
             /\ x.presentation.candidate # None => x.presentation.candidate.source_revision = Revision,
         x.children # <<>>, BindChildren(x), BlockerStage(x, code)
  PROVE  Lawful(Block(x, code))
  <1>1. x.request # None /\ x.initial # None /\ PluginValid(x.initial)  BY InitialIs
  <1>2. code # None  BY DEF NoneIsMissing
  <1>3. x.request.candidate.source_revision = Revision  BY DEF Reviewing, Revision
  <1>4. PluginResultValid(Block(x, code))  BY <1>1, <1>2, <1>3, BlockedIs DEF PluginResultValid
  <1>5. QED  BY <1>1, <1>4, BlockedIs DEF Lawful

(* A child that was reviewed, or that blocks.                              *)
LEMMA CheckChildInv ==
  ASSUME NoneIsMissing, SlotInv, WorkInv, NEW c \in Callers, CheckChild(c)
  PROVE  WorkInv'
  <1> DEFINE e       == Evidence(c)
             child   == request.children[Len(e.children) + 1]
             passed  == [request |-> child, status |-> "local_checks_passed"]
             refused == [request |-> child, status |-> "blocked"]
             after(row) == [e EXCEPT !.children = Append(@, row)]
  <1>1. Running(c) /\ e.initial # None /\ Len(e.children) < Len(request.children)
    BY DEF CheckChild, InChildren
  <1>2. \/ Ends(c, Block(after(refused), "child_blocked"))
        \/ call.assessments[child.path] = child.candidate /\ Goes(c, after(passed))
    BY DEF CheckChild
  <1>3. Reviewing(e)  BY <1>1, InReview
  <1>4. call \in PluginCalls  BY DEF WorkInv
  <1>5. /\ e.request = request /\ SupportedRoot(request, e.initial)
        /\ \A i \in DOMAIN e.children :
               LET k == request.children[i]
               IN  e.children[i].request = k /\ ChildPassed(e.children[i]) /\ call.assessments[k.path] = k.candidate
    BY <1>3 DEF Reviewing
  <1>6. request.children \in Seq(ToSet(request.children)) /\ Len(request.children) \in Nat /\ e.request # None /\ e.initial # None
    BY <1>3, <1>4, InitialIs
  <1>7. e.presentation = None /\ e.final = None  BY <1>1, <1>3, <1>6 DEF Reviewing
  <1>8. /\ passed.request = child /\ passed.status = "local_checks_passed"
        /\ refused.request = child /\ refused.status = "blocked"
    OBVIOUS
  <1> HIDE DEF e, child, passed, refused, after
  <1>9. ASSUME NEW row
        PROVE  LET x == after(row)
                   n == Len(e.children)
               IN  /\ x.request = request /\ x.initial = e.initial /\ x.presentation = None /\ x.final = None
                   /\ x = [request |-> x.request, initial |-> x.initial, children |-> x.children,
                           presentation |-> x.presentation, final |-> x.final]
                   /\ x.children \in Seq(ToSet(x.children)) /\ n \in Nat /\ Len(x.children) = n + 1
                   /\ x.children # <<>> /\ Last(x.children) = row /\ x.children[n + 1] = row
                   /\ \A i \in 1 .. n : i \in DOMAIN e.children /\ x.children[i] = e.children[i]
    <2> DEFINE x == [e EXCEPT !.children = Append(@, row)]
    <2>1. /\ x.request = e.request /\ x.initial = e.initial /\ x.presentation = e.presentation /\ x.final = e.final
          /\ x = [request |-> x.request, initial |-> x.initial, children |-> x.children,
                  presentation |-> x.presentation, final |-> x.final]
          /\ x.children \in Seq(ToSet(x.children)) /\ Len(e.children) \in Nat /\ Len(x.children) = Len(e.children) + 1
          /\ x.children # <<>> /\ Last(x.children) = row /\ x.children[Len(e.children) + 1] = row
          /\ \A i \in 1 .. Len(e.children) : i \in DOMAIN e.children /\ x.children[i] = e.children[i]
      BY <1>3, ChildAdded
    <2>2. after(row) = x  BY DEF after
    <2> HIDE DEF x
    <2>3. QED  BY <1>5, <1>7, <2>1, <2>2
  <1>10. CASE Ends(c, Block(after(refused), "child_blocked"))
    <2> DEFINE x == after(refused)
    <2>1. /\ x.request = request /\ x.initial = e.initial /\ x.presentation = None /\ x.final = None
          /\ x.children \in Seq(ToSet(x.children)) /\ Len(e.children) \in Nat /\ Len(x.children) = Len(e.children) + 1
          /\ x.children # <<>> /\ Last(x.children) = refused /\ x.children[Len(e.children) + 1] = refused
          /\ \A i \in 1 .. Len(e.children) : i \in DOMAIN e.children /\ x.children[i] = e.children[i]
      BY <1>9
    <2> HIDE DEF x
    <2>2. \A i \in DOMAIN x.children :
              x.children[i].request = request.children[i] /\ (i < Len(x.children) => ChildPassed(x.children[i]))
      <3> SUFFICES ASSUME NEW i \in DOMAIN x.children
                   PROVE  x.children[i].request = request.children[i] /\ (i < Len(x.children) => ChildPassed(x.children[i]))
        OBVIOUS
      <3>1. CASE i \in 1 .. Len(e.children)  BY <1>5, <2>1, <3>1
      <3>2. CASE i = Len(e.children) + 1  BY <1>8, <2>1, <3>2 DEF child
      <3>3. QED  BY <2>1, <3>1, <3>2
    <2>3. BindChildren(x)  BY <1>1, <1>5, <1>6, <2>1, <2>2, ChildrenBound
    <2>4. Retained(x) = {"request", "initial", "children"}  BY <1>5, <1>6, <2>1 DEF Retained, FoundIf
    <2>5. ~ChildPassed(Last(x.children))  BY <1>8, <2>1 DEF ChildPassed
    <2>6. BlockerStage(x, "child_blocked")  BY <1>5, <2>1, <2>4, <2>5 DEF BlockerStage
    <2>7. Lawful(Block(x, "child_blocked"))
      BY <1>3, <1>4, <1>5, <2>1, <2>3, <2>6, ChildrenLawful DEF BlockerCodes
    <2>8. QED  BY <1>10, <2>7, BlockedKeeps DEF x
  <1>11. CASE call.assessments[child.path] = child.candidate /\ Goes(c, after(passed))
    <2> DEFINE x == after(passed)
    <2>1. /\ x.request = request /\ x.initial = e.initial /\ x.presentation = None /\ x.final = None
          /\ x = [request |-> x.request, initial |-> x.initial, children |-> x.children,
                  presentation |-> x.presentation, final |-> x.final]
          /\ x.children \in Seq(ToSet(x.children)) /\ Len(e.children) \in Nat /\ Len(x.children) = Len(e.children) + 1
          /\ x.children[Len(e.children) + 1] = passed
          /\ \A i \in 1 .. Len(e.children) : i \in DOMAIN e.children /\ x.children[i] = e.children[i]
      BY <1>9
    <2> HIDE DEF x
    <2>2. \A i \in DOMAIN x.children :
              LET k == request.children[i]
              IN  x.children[i].request = k /\ ChildPassed(x.children[i]) /\ call.assessments[k.path] = k.candidate
      <3> SUFFICES ASSUME NEW i \in DOMAIN x.children
                   PROVE  /\ x.children[i].request = request.children[i] /\ ChildPassed(x.children[i])
                          /\ call.assessments[request.children[i].path] = request.children[i].candidate
        OBVIOUS
      <3>1. CASE i \in 1 .. Len(e.children)  BY <1>5, <2>1, <3>1
      <3>2. CASE i = Len(e.children) + 1  BY <1>8, <1>11, <2>1, <3>2 DEF child, ChildPassed
      <3>3. QED  BY <2>1, <3>1, <3>2
    <2>3. Reviewing(x)  BY <1>1, <1>3, <1>6, <2>1, <2>2 DEF Reviewing
    <2>4. QED  BY <1>1, <1>11, <2>3, GoesKeeps DEF x
  <1>12. QED  BY <1>2, <1>10, <1>11 DEF after

(* Every child was reviewed, and passed.                                   *)
LEMMA EveryChildReviewed ==
  ASSUME NoneIsMissing, call \in PluginCalls, NEW e, Reviewing(e), Len(e.children) = Len(request.children), NEW x,
         x.request = e.request, x.initial = e.initial, x.children = e.children
  PROVE  /\ x.request = request /\ x.request # None /\ x.initial # None /\ x.children # <<>>
         /\ SupportedRoot(x.request, x.initial) /\ BindChildren(x) /\ ChildrenComplete(x)
  <1>1. /\ e.request = request /\ SupportedRoot(request, e.initial) /\ e.children \in Seq(ToSet(e.children))
        /\ \A i \in DOMAIN e.children : e.children[i].request = request.children[i] /\ ChildPassed(e.children[i])
    BY DEF Reviewing
  <1>2. /\ request.children \in Seq(ToSet(request.children)) /\ Len(request.children) \in Nat \ {0}
        /\ e.request # None /\ e.initial # None
    BY InitialIs
  <1>3. x.children # <<>>  BY <1>1, <1>2
  <1>4. BindChildren(x)  BY <1>1, <1>2, ChildrenBound
  <1>5. \A k \in ToSet(x.children) : ChildPassed(k)  BY <1>1 DEF ToSet
  <1>6. QED  BY <1>1, <1>2, <1>3, <1>4, <1>5 DEF ChildrenComplete

(* The captures of a presentation are trees.                               *)
LEMMA MomentsOf ==
  ASSUME pluginTree \in Trees, NEW moments \in Series(4)
  PROVE  \A i \in 1 .. 4 : moments[i] \in Trees
  BY MomentsCaptured DEF Series

(* The presentation: missing, blocked or passed.                           *)
LEMMA CheckPresentedInv ==
  ASSUME NoneIsMissing, SlotInv, WorkInv, NEW c \in Callers, CheckPresented(c)
  PROVE  WorkInv'
  <1> DEFINE e == Evidence(c)
  <1>1. Running(c) /\ e.initial # None /\ Len(e.children) = Len(request.children) /\ e.presentation = None
    BY DEF CheckPresented, Presenting
  <1>2. Reviewing(e) /\ call \in PluginCalls /\ pluginTree \in Trees  BY <1>1, InReview DEF WorkInv
  <1>3. /\ e = [request |-> e.request, initial |-> e.initial, children |-> e.children, presentation |-> e.presentation,
                final |-> e.final]
        /\ e.request = request /\ e.final = None
    BY <1>2 DEF Reviewing
  <1>4. \/ Ends(c, Block(e, "presentation_missing"))
        \/ /\ call.presentation # None
           /\ \E moments \in Series(4) :
                  LET check == CheckPresentation(moments, call.presentation, Revision)
                      after == [e EXCEPT !.presentation = check]
                  IN  \/ check.status = "pass" /\ BoundTo(check, request) /\ Goes(c, after)
                      \/ ~(check.status = "pass" /\ BoundTo(check, request)) /\ Ends(c, Block(after, "presentation_blocked"))
    BY DEF CheckPresented
  <1> HIDE DEF e
  <1>5. CASE Ends(c, Block(e, "presentation_missing"))
    <2>1. /\ e.request # None /\ e.initial # None /\ e.children # <<>>
          /\ SupportedRoot(e.request, e.initial) /\ BindChildren(e) /\ ChildrenComplete(e)
      BY <1>1, <1>2, EveryChildReviewed
    <2>2. Retained(e) = {"request", "initial", "children"}  BY <1>1, <1>3, <2>1 DEF Retained, FoundIf
    <2>3. BlockerStage(e, "presentation_missing")  BY <2>1, <2>2 DEF BlockerStage
    <2>4. Lawful(Block(e, "presentation_missing"))
      BY <1>1, <1>2, <1>3, <2>1, <2>3, ChildrenLawful DEF BlockerCodes
    <2>5. QED  BY <1>5, <2>4, BlockedKeeps
  <1>6. ASSUME call.presentation # None, NEW moments \in Series(4),
               LET check == CheckPresentation(moments, call.presentation, Revision)
                   after == [e EXCEPT !.presentation = check]
               IN  \/ check.status = "pass" /\ BoundTo(check, request) /\ Goes(c, after)
                   \/ ~(check.status = "pass" /\ BoundTo(check, request)) /\ Ends(c, Block(after, "presentation_blocked"))
        PROVE  WorkInv'
    <2> DEFINE check == CheckPresentation(moments, call.presentation, Revision)
               after == [e EXCEPT !.presentation = check]
    <2>1. \A i \in 1 .. 4 : moments[i] \in Trees  BY <1>2, MomentsOf
    <2>2. \E captures : check = CheckPresentation(captures, call.presentation, Revision)
                        /\ \A i \in 1 .. 4 : captures[i] \in Trees
      BY <2>1
    <2>3. /\ check # None /\ CheckValid(check)
          /\ check.candidate # None => check.candidate.source_revision = Revision
      <3>1. moments[1] # None => TreeCaptured(moments[1])  BY <2>1, PluginAssumption
      <3>2. call.presentation.copy # None  BY <1>2, <1>6, PluginAssumption
      <3>3. QED  BY <3>1, <3>2, ChecksValid
    <2>4. \/ check.status = "pass" /\ BoundTo(check, request) /\ Goes(c, after)
          \/ ~(check.status = "pass" /\ BoundTo(check, request)) /\ Ends(c, Block(after, "presentation_blocked"))
      BY <1>6
    <2> HIDE DEF check
    <2>5. /\ after.request = e.request /\ after.initial = e.initial /\ after.children = e.children
          /\ after.presentation = check /\ after.final = None
          /\ after = [request |-> after.request, initial |-> after.initial, children |-> after.children,
                      presentation |-> after.presentation, final |-> after.final]
      BY <1>3
    <2> HIDE DEF after
    <2>6. CASE check.status = "pass" /\ BoundTo(check, request) /\ Goes(c, after)
      <3>1. Reviewing(after)  BY <1>1, <1>2, <2>2, <2>3, <2>5, <2>6 DEF Reviewing
      <3>2. QED  BY <1>1, <2>6, <3>1, GoesKeeps
    <2>7. CASE ~(check.status = "pass" /\ BoundTo(check, request)) /\ Ends(c, Block(after, "presentation_blocked"))
      <3>1. /\ after.request = request /\ after.request # None /\ after.initial # None /\ after.children # <<>>
            /\ SupportedRoot(after.request, after.initial) /\ BindChildren(after) /\ ChildrenComplete(after)
        BY <1>1, <1>2, <2>5, EveryChildReviewed
      <3>2. Retained(after) = {"request", "initial", "children", "presentation"}
        BY <2>3, <2>5, <3>1 DEF Retained, FoundIf
      <3>3. ~PresentationBound(after)  BY <2>5, <2>7, <3>1 DEF PresentationBound
      <3>4. BlockerStage(after, "presentation_blocked")  BY <3>1, <3>2, <3>3 DEF BlockerStage
      <3>5. Lawful(Block(after, "presentation_blocked"))
        BY <1>2, <2>3, <2>5, <3>1, <3>4, ChildrenLawful DEF BlockerCodes
      <3>6. QED  BY <2>7, <3>5, BlockedKeeps
    <2>8. QED  BY <2>4, <2>6, <2>7
  <1>7. QED  BY <1>4, <1>5, <1>6

(* What is retained of a last capture is a validation of the root asked    *)
(* for.                                                                    *)
LEMMA FinalIs ==
  ASSUME NoneIsMissing, pluginTree \in Trees, NEW second
  PROVE  LET f == Final(ValidatePlugin(pluginTree, second, Revision, RootPolicy))
         IN  /\ f # None /\ f.policy = RootPolicy /\ PluginValid(f)
             /\ f.candidate # None => f.candidate.package_id = request.candidate.package_id
                                      /\ f.candidate.source_revision = Revision
  <1> DEFINE v       == ValidatePlugin(pluginTree, second, Revision, RootPolicy)
             changed == Unbound(RootPolicy, "plugin_quality_source_changed")
  <1>1. RootPolicy # None  BY DEF RootPolicy, NoneIsMissing
  <1>2. v # None /\ v.policy = RootPolicy /\ PluginValid(v)
    <2>1. pluginTree # None => TreeCaptured(pluginTree)  BY PluginAssumption
    <2>2. QED  BY <1>1, <2>1, BoundValidation
  <1>3. changed # None /\ changed.policy = RootPolicy /\ changed.candidate = None /\ PluginValid(changed)
    <2>1. /\ changed.status = "blocked" /\ changed.candidate = None /\ changed.manifest = None /\ changed.files = {}
          /\ changed.skills = {} /\ changed.mode_manifest_sha256 = None /\ changed.policy = RootPolicy
          /\ changed.findings = {Blocker("plugin_quality_source_changed")}
      BY UnboundFields
    <2>2. changed # None  BY DEF Unbound, NoneIsMissing
    <2> HIDE DEF changed
    <2>3. BlocksAny({Blocker("plugin_quality_source_changed")})  BY DEF BlocksAny, Blocker
    <2>4. (changed.status = "blocked") = BlocksAny(changed.findings)  BY <2>1, <2>3 DEF BlocksAny
    <2>5. QED  BY <2>1, <2>2, <2>4 DEF PluginValid
  <1> HIDE DEF v
  <1>4. \/ Final(v) = changed
        \/ Final(v) = v /\ (v.candidate # None => v.candidate.package_id = request.candidate.package_id
                                                  /\ v.candidate.source_revision = Revision)
    BY DEF Final
  <1> HIDE DEF changed
  <1>5. QED  BY <1>2, <1>3, <1>4 DEF v

(* The last capture: of the plugin as it was, or of another.               *)
LEMMA FinalCaptureInv ==
  ASSUME NoneIsMissing, SlotInv, WorkInv, NEW c \in Callers, FinalCapture(c)
  PROVE  WorkInv'
  <1> DEFINE e == Evidence(c)
  <1>1. Running(c) /\ e.presentation # None /\ Reviewing(e) /\ call \in PluginCalls /\ pluginTree \in Trees
    BY InReview DEF FinalCapture, WorkInv
  <1>2. PICK second \in Moments :
            LET x == [e EXCEPT !.final = Final(ValidatePlugin(pluginTree, second, Revision, RootPolicy))]
            IN  \/ Ends(c, Block(Empty, "input_invalid"))
                \/ x.final # x.initial /\ Ends(c, Block(x, "source_changed"))
                \/ x.final = x.initial /\ Ends(c, CheckOutcome(x, "local_checks_passed", None))
    BY DEF FinalCapture
  <1>3. CASE Ends(c, Block(Empty, "input_invalid"))  BY <1>3, RefusedLawful, BlockedKeeps
  <1> DEFINE last == Final(ValidatePlugin(pluginTree, second, Revision, RootPolicy))
             x    == [e EXCEPT !.final = last]
  <1>4. /\ e = [request |-> e.request, initial |-> e.initial, children |-> e.children, presentation |-> e.presentation,
                final |-> e.final]
        /\ e.request = request /\ Len(e.children) = Len(request.children) /\ e.presentation.status = "pass"
        /\ BoundTo(e.presentation, request) /\ CheckValid(e.presentation)
    BY <1>1 DEF Reviewing
  <1>5. /\ last # None /\ last.policy = RootPolicy /\ PluginValid(last)
        /\ last.candidate # None => last.candidate.package_id = request.candidate.package_id
                                    /\ last.candidate.source_revision = Revision
    BY <1>1, FinalIs
  <1> HIDE DEF e, last
  <1>6. /\ x.request = e.request /\ x.initial = e.initial /\ x.children = e.children
        /\ x.presentation = e.presentation /\ x.final = last
    BY <1>4
  <1> HIDE DEF x
  <1>7. /\ x.request = request /\ x.request # None /\ x.initial # None /\ x.children # <<>>
        /\ SupportedRoot(x.request, x.initial) /\ BindChildren(x) /\ ChildrenComplete(x)
    BY <1>1, <1>4, <1>6, EveryChildReviewed
  <1>8. PresentationBound(x)  BY <1>1, <1>4, <1>6 DEF PresentationBound
  <1>9. BindPresentation(x)
    <2>1. BindPresentation(e)  BY <1>1, PresentedLawful
    <2>2. QED  BY <1>6, <2>1 DEF BindPresentation
  <1>10. x.initial.policy = RootPolicy /\ PluginValid(x.initial)  BY <1>1, <1>6, InitialIs
  <1>11. x.presentation.candidate.source_revision = Revision  BY <1>4, <1>6 DEF BoundTo, Revision
  <1>12. CASE x.final # x.initial /\ Ends(c, Block(x, "source_changed"))
    <2>1. {"request", "initial"} \subseteq Retained(x)  BY <1>7 DEF Retained, FoundIf
    <2>2. x.request.candidate.source_revision = Revision  BY <1>7 DEF Revision
    <2>3. BlockerStage(x, "source_changed")
      BY <1>5, <1>6, <1>7, <1>8, <1>9, <1>10, <1>12, <2>1, <2>2 DEF BlockerStage
    <2>4. Lawful(Block(x, "source_changed"))
      BY <1>1, <1>4, <1>5, <1>6, <1>7, <1>11, <2>3, ChildrenLawful DEF BlockerCodes
    <2>5. QED  BY <1>12, <2>4, BlockedKeeps
  <1>13. CASE x.final = x.initial /\ Ends(c, CheckOutcome(x, "local_checks_passed", None))
    <2> DEFINE r == CheckOutcome(x, "local_checks_passed", None)
    <2>1. r.evidence = x /\ r.status = "local_checks_passed" /\ r.blocker = None  BY DEF CheckOutcome
    <2>2. PassEarned(x)  BY <1>1, <1>6, <1>13, ReviewedEarned
    <2> HIDE DEF r
    <2>3. RequireSuccess(x)  BY <1>7, <1>8, <1>9, <1>13 DEF RequireSuccess
    <2>4. PluginResultValid(r)
      <3>1. x.request.candidate.source_revision = Revision  BY <1>7 DEF Revision
      <3>2. QED  BY <1>7, <1>11, <2>1, <2>3, <3>1 DEF PluginResultValid
    <2>5. Lawful(r)  BY <1>4, <1>5, <1>6, <1>10, <2>1, <2>4 DEF Lawful
    <2>6. Ends(c, r)  BY <1>13 DEF r
    <2>7. call' = call /\ pluginTree' \in Trees  BY <2>6 DEF Ends, WorkInv
    <2>8. /\ jobs'[c].state = "finished" /\ jobs'[c].evidence = Empty /\ jobs'[c].result = r
          /\ \A d \in Callers \ {c} : jobs'[d] = jobs[d]
      BY <2>6, WorkEnds
    <2>9. QED  BY <2>1, <2>2, <2>5, <2>7, <2>8, WorkMoves DEF Working
  <1>14. QED  BY <1>2, <1>3, <1>12, <1>13 DEF x, last, e

(* Nothing is retained of text that must not be.                           *)
LEMMA WithholdInv ==
  ASSUME NoneIsMissing, SlotInv, WorkInv, NEW c \in Callers, Withhold(c)
  PROVE  WorkInv'
  <1>1. Running(c) /\ Ends(c, Block(Empty, "input_invalid"))  BY DEF Withhold
  <1>2. QED  BY <1>1, RefusedLawful, BlockedKeeps DEF WorkInv

(* Every step of the plugin machine keeps the invariant.                   *)
LEMMA WorkStep == ASSUME NoneIsMissing, SlotInv, WorkInv, [PluginNext]_pluginVars PROVE WorkInv'
  <1>1. ASSUME NEW c \in Callers, Job(c) PROVE WorkInv'
    BY <1>1, InitialCaptureInv, CheckChildInv, CheckPresentedInv, FinalCaptureInv, WithholdInv DEF Job
  <1>2. CASE Shutdown \/ Rewrite \/ UNCHANGED pluginVars
    <2>1. call' = call /\ jobs' = jobs /\ pluginTree' \in Trees
      BY <1>2 DEF Shutdown, Rewrite, pluginVars, WorkInv
    <2>2. \A e : Reviewing(e)' = Reviewing(e) /\ PassEarned(e)' = PassEarned(e)  BY <2>1, SameCall
    <2>3. QED  BY <2>1, <2>2 DEF WorkInv, Working, PluginsEarned, PluginAnswers
  <1>3. QED  BY <1>1, <1>2, WorkElsewhere DEF PluginNext

(* Nothing was found and nothing was answered at first.                    *)
LEMMA WorkInitially == PluginInit => WorkInv
  BY DEF PluginInit, WorkInv, Working, NoJob, PluginsEarned, PluginAnswers

(* So what running work has found, and every answer, is as the invariant   *)
(* says.                                                                   *)
LEMMA WorkInvariance == ASSUME NoneIsMissing PROVE PluginSpec => []WorkInv
  <1>1. PluginInit => WorkInv  BY WorkInitially
  <1>2. SlotInv /\ WorkInv /\ [PluginNext]_pluginVars => WorkInv'  BY WorkStep
  <1>3. QED  BY <1>1, <1>2, Invariance, PTL DEF PluginSpec

(* Where None is no record, no digest and no code: a passing check is      *)
(* about the plugin of its request as it was captured last, whatever was   *)
(* rewritten between its captures, for any number of callers, children,    *)
(* trees and rewrites: every skill was reviewed as it is, and every image  *)
(* it names was approved as it is.                                         *)
THEOREM PassingPluginsEarned == ASSUME NoneIsMissing PROVE PluginSpec => []PluginsEarned
  <1>1. WorkInv => PluginsEarned  BY DEF WorkInv
  <1>2. QED  BY <1>1, WorkInvariance, PTL

(* And every answer, whatever it blocks on, keeps its contract and the     *)
(* contracts of the validations and of the presentation it retains: the    *)
(* code stands for what its stage retained.                                *)
THEOREM PluginChecksAnswer == ASSUME NoneIsMissing PROVE PluginSpec => []PluginAnswers
  <1>1. WorkInv => PluginAnswers  BY DEF WorkInv
  <1>2. QED  BY <1>1, WorkInvariance, PTL

-----------------------------------------------------------------------------
(* Normalization: from the skill that was admitted to the one receipted.   *)

(* A capture: files at proper paths, and directories. *)
Capturable(Names, t) ==
    /\ t = [files |-> t.files, directories |-> t.directories]
    /\ DOMAIN t.files \subseteq Seq(Names) \ {<<>>}

(* The files of a standalone skill, as they are listed below its plugin. *)
Placed(t)  == [p \in {Below(q) : q \in DOMAIN t.files} |-> t.files[Inner(p)]]
Listing(t) ==
    {[path |-> q, sha256 |-> Digest(t.files[q].data), size |-> t.files[q].size, role |-> FileRole(q)] : q \in DOMAIN t.files}

(* A path is found again below the skill's directory. *)
LEMMA BelowAndBack ==
  ASSUME NEW Names, NEW q \in Seq(Names)
  PROVE  /\ Inner(Below(q)) = q /\ Len(Below(q)) = Len(q) + 2
         /\ SubSeq(Below(q), 1, 2) = Below(<<>>) /\ SubSeq(Below(q), 3, Len(Below(q))) = q
  <1> DEFINE top == <<"skills", SkillName>>
             all == Names \cup {"skills", SkillName}
  <1>1. top \in Seq(all) /\ Len(top) = 2 /\ q \in Seq(all) /\ Len(q) \in Nat
    OBVIOUS
  <1>2. /\ Len(top \o q) = Len(q) + 2 /\ top \o q \in Seq(all)
        /\ \A i \in 1 .. Len(q) + 2 : (top \o q)[i] = IF i <= 2 THEN top[i] ELSE q[i - 2]
    BY <1>1, ConcatProperties
  <1>3. SubSeq(top \o q, 1, 2) = SubSeq(top, 1, 2) /\ SubSeq(top, 1, 2) = top
    <2>1. SubSeq(top \o q, 1, 2) = SubSeq(top, 1, 2)  BY <1>1, SubSeqOfConcat1
    <2>2. SubSeq(top, 1, 2) = top  BY <1>1, SubSeqFull
    <2>3. QED  BY <2>1, <2>2
  <1>4. SubSeq(top \o q, 3, Len(q) + 2) = q
    <2>1. SubSeq(top \o q, 3, Len(q) + 2) = SubSeq(q, 3 - 2, (Len(q) + 2) - 2)  BY <1>1, SubSeqOfConcat2
    <2>2. SubSeq(q, 1, Len(q)) = q  BY SubSeqFull
    <2>3. QED  BY <1>1, <2>1, <2>2
  <1>5. Below(<<>>) = top
    BY DEF Below
  <1>6. QED  BY <1>2, <1>3, <1>4, <1>5 DEF Below, Inner

(* What is listed below the plugin is what the skill holds. *)
LEMMA ListedBelow ==
  ASSUME NEW Names, NEW t, Capturable(Names, t)
  PROVE  ChildFiles(Below(<<>>), CapturedFiles(Placed(t))) = Listing(t)
  <1>1. \A q \in DOMAIN t.files :
          /\ q \in Seq(Names) /\ Len(q) > 0
          /\ Inner(Below(q)) = q /\ Len(Below(q)) > 2
          /\ SubSeq(Below(q), 1, 2) = Below(<<>>) /\ SubSeq(Below(q), 3, Len(Below(q))) = q
    <2>1. SUFFICES ASSUME NEW q \in DOMAIN t.files
                   PROVE  /\ q \in Seq(Names) /\ Len(q) > 0
                          /\ Inner(Below(q)) = q /\ Len(Below(q)) > 2
                          /\ SubSeq(Below(q), 1, 2) = Below(<<>>) /\ SubSeq(Below(q), 3, Len(Below(q))) = q
      OBVIOUS
    <2>2. q \in Seq(Names) /\ q # <<>>  BY DEF Capturable
    <2>3. Len(q) \in Nat /\ Len(q) > 0  BY <2>2, EmptySeq
    <2>4. QED  BY <2>2, <2>3, BelowAndBack
  <1> DEFINE row(p) == [path |-> SubSeq(p, 3, Len(p)), sha256 |-> Digest(Placed(t)[p].data), size |-> Placed(t)[p].size,
                        role |-> FileRole(SubSeq(p, 3, Len(p)))]
  <1>2. ChildFiles(Below(<<>>), CapturedFiles(Placed(t))) = {row(p) : p \in {Below(q) : q \in DOMAIN t.files}}
    <2>1. DOMAIN Placed(t) = {Below(q) : q \in DOMAIN t.files}  BY DEF Placed
    <2>2. \A p \in DOMAIN Placed(t) : Within(Below(<<>>), p)  BY <1>1, <2>1 DEF Within
    <2> DEFINE rec(p)   == [path |-> p, sha256 |-> Digest(Placed(t)[p].data), size |-> Placed(t)[p].size, mode |-> Placed(t)[p].mode]
               child(r) == [path |-> SubSeq(r.path, 3, Len(r.path)), sha256 |-> r.sha256, size |-> r.size,
                            role |-> FileRole(SubSeq(r.path, 3, Len(r.path)))]
    <2>3. \A p \in DOMAIN Placed(t) : rec(p).path = p /\ child(rec(p)) = row(p)
      OBVIOUS
    <2>4. ChildFiles(Below(<<>>), CapturedFiles(Placed(t)))
            = {child(r) : r \in {x \in {rec(p) : p \in DOMAIN Placed(t)} : Within(Below(<<>>), x.path)}}
      BY DEF ChildFiles, CapturedFiles
    <2> HIDE DEF rec, child, row
    <2>5. {x \in {rec(p) : p \in DOMAIN Placed(t)} : Within(Below(<<>>), x.path)} = {rec(p) : p \in DOMAIN Placed(t)}
      BY <2>2, <2>3
    <2>6. {child(r) : r \in {rec(p) : p \in DOMAIN Placed(t)}} = {row(p) : p \in DOMAIN Placed(t)}
      BY <2>3
    <2>7. QED  BY <2>1, <2>4, <2>5, <2>6
  <1> DEFINE line(q) == [path |-> q, sha256 |-> Digest(t.files[q].data), size |-> t.files[q].size, role |-> FileRole(q)]
  <1>3. \A q \in DOMAIN t.files : row(Below(q)) = line(q)
    BY <1>1 DEF Placed
  <1>4. Listing(t) = {line(q) : q \in DOMAIN t.files}
    BY DEF Listing
  <1> HIDE DEF row, line
  <1>5. {row(p) : p \in {Below(q) : q \in DOMAIN t.files}} = {line(q) : q \in DOMAIN t.files}
    BY <1>3
  <1>6. QED  BY <1>2, <1>4, <1>5

(* The same listing is the same bytes. *)
LEMMA SameBytes ==
  ASSUME NEW s, NEW t, Listing(s) = Listing(t)
  PROVE  DOMAIN s.files = DOMAIN t.files /\ \A q \in DOMAIN s.files : s.files[q].data = t.files[q].data
  <1> DEFINE line(u, q) == [path |-> q, sha256 |-> Digest(u.files[q].data), size |-> u.files[q].size, role |-> FileRole(q)]
  <1>1. \A u : Listing(u) = {line(u, q) : q \in DOMAIN u.files}  BY DEF Listing
  <1>2. \A u, v, q, r : line(u, q) = line(v, r) => q = r /\ u.files[q].data = v.files[r].data
    <2>1. SUFFICES ASSUME NEW u, NEW v, NEW q, NEW r, line(u, q) = line(v, r)
                   PROVE  q = r /\ u.files[q].data = v.files[r].data
      OBVIOUS
    <2>2. q = line(u, q).path /\ r = line(v, r).path  OBVIOUS
    <2>3. Digest(u.files[q].data) = line(u, q).sha256 /\ Digest(v.files[r].data) = line(v, r).sha256  OBVIOUS
    <2>4. QED  BY <2>1, <2>2, <2>3 DEF Digest
  <1> HIDE DEF line
  <1>3. \A q \in DOMAIN s.files : q \in DOMAIN t.files /\ s.files[q].data = t.files[q].data
    <2>1. SUFFICES ASSUME NEW q \in DOMAIN s.files PROVE q \in DOMAIN t.files /\ s.files[q].data = t.files[q].data
      OBVIOUS
    <2>2. line(s, q) \in Listing(t)  BY <1>1
    <2>3. PICK r \in DOMAIN t.files : line(s, q) = line(t, r)  BY <1>1, <2>2
    <2>4. QED  BY <1>2, <2>3
  <1>4. \A q \in DOMAIN t.files : q \in DOMAIN s.files
    <2>1. SUFFICES ASSUME NEW q \in DOMAIN t.files PROVE q \in DOMAIN s.files
      OBVIOUS
    <2>2. line(t, q) \in Listing(s)  BY <1>1
    <2>3. PICK r \in DOMAIN s.files : line(t, q) = line(s, r)  BY <1>1, <2>2
    <2>4. QED  BY <1>2, <2>3
  <1>5. QED  BY <1>3, <1>4

(* What the intake says of a tree. *)
LEMMA AdmissionIs ==
  ASSUME NEW Names, NEW t, Capturable(Names, t), <<"SKILL.md">> \in DOMAIN t.files
  PROVE  LET tree     == ChildTree(SkillName, t.files[<<"SKILL.md">>].data)
             findings == IdentityFindings(tree, ChildPolicy) \o
                         (IF tree.portable THEN <<>> ELSE <<Finding("invalid_package_root", <<>>)>>)
         IN  Validated(t) = [candidate |-> Candidate(tree, [text |-> order.revision], Listing(t)),
                             identity |-> SkillIdentity(tree), files |-> Listing(t),
                             status |-> IF findings = <<>> THEN "pass" ELSE "blocked"]
  <1> DEFINE u == [t EXCEPT !.files = [p \in {Below(q) : q \in DOMAIN @} |-> @[Inner(p)]]]
             entry == Append(Below(<<>>), "SKILL.md")
  <1>1. u.files = Placed(t)  BY DEF Capturable, Placed
  <1>2. <<"SKILL.md">> \in Seq(Names)  BY DEF Capturable
  <1>3. entry = Below(<<"SKILL.md">>)  BY DEF Below
  <1>4. u.files[entry].data = t.files[<<"SKILL.md">>].data
    BY <1>1, <1>2, <1>3, BelowAndBack DEF Placed
  <1>5. Below(<<>>)[2] = SkillName  BY DEF Below
  <1>6. ChildFiles(Below(<<>>), CapturedFiles(u.files)) = Listing(t)  BY <1>1, ListedBelow
  <1>7. Validated(t) = LET v == Child(Below(<<>>), u, order.revision)
                       IN  [candidate |-> v.validation.candidate, identity |-> v.validation.identity,
                            files |-> v.validation.files, status |-> v.validation.status]
    BY DEF Validated
  <1> HIDE DEF u, entry
  <1>8. QED  BY <1>4, <1>5, <1>6, <1>7 DEF Child, entry

(* The intake says the same of two trees with the same bytes, whatever     *)
(* their modes and empty directories.                                      *)
LEMMA SameAdmission ==
  ASSUME NEW Names, NEW s, NEW t, Capturable(Names, s), Capturable(Names, t),
         Listing(s) = Listing(t), <<"SKILL.md">> \in DOMAIN s.files
  PROVE  Admit(s) = Admit(t)
  <1>1. <<"SKILL.md">> \in DOMAIN t.files /\ s.files[<<"SKILL.md">>].data = t.files[<<"SKILL.md">>].data
    BY SameBytes
  <1>2. Validated(s) = Validated(t)  BY <1>1, AdmissionIs
  <1>3. QED  BY <1>2 DEF Admit

(* A file that is read a moment later is still at a proper path. *)
LEMMA MixedIsCapturable ==
  ASSUME NEW Names, NEW a, NEW b, Capturable(Names, a), Capturable(Names, b), NEW t \in Mixed(a, b)
  PROVE  Capturable(Names, t)
  <1>1. PICK late \in SUBSET {p \in DOMAIN a.files \cup DOMAIN b.files :
                                 p \in DOMAIN a.files \cap DOMAIN b.files => a.files[p] # b.files[p]} :
              t = [files |-> [p \in (DOMAIN a.files \ late) \cup (DOMAIN b.files \cap late) |->
                                 IF p \in late THEN b.files[p] ELSE a.files[p]],
                   directories |-> a.directories]
    BY DEF Mixed
  <1>2. DOMAIN t.files = (DOMAIN a.files \ late) \cup (DOMAIN b.files \cap late)  BY <1>1
  <1>3. t = [files |-> t.files, directories |-> t.directories]  BY <1>1
  <1>4. QED  BY <1>2, <1>3 DEF Capturable

(* The answer to what was read depends on nothing else that changes. *)
LEMMA AdmitKept ==
  ASSUME order' = order
  PROVE  /\ \A t : Admit(t)' = Admit(t)
         /\ taken' = taken => Admit(taken)' = Admit(taken)
         /\ taken' = source => Admit(taken)' = Admit(source)
         /\ latest'.source = taken => Admit(latest.source)' = Admit(taken)
  BY DEF Admit, Validated

(* An intake that passes names the entrypoint and lists what it read. *)
LEMMA PassLists ==
  ASSUME NEW Names, NEW t, Capturable(Names, t), Admit(t).validation.status = "pass"
  PROVE  <<"SKILL.md">> \in DOMAIN t.files /\ Admit(t).validation.files = Listing(t)
  <1>1. Admit(t).validation = Validated(t)  BY DEF Admit
  <1>2. <<"SKILL.md">> \in DOMAIN t.files  BY <1>1 DEF Validated
  <1>3. Validated(t).files = Listing(t)  BY <1>2, AdmissionIs
  <1>4. QED  BY <1>1, <1>2, <1>3

(* So a source whose files are those of the intake is what was admitted.   *)
LEMMA SameSkillIsAdmitted ==
  ASSUME NEW Names, NEW s, NEW t, Capturable(Names, s), Capturable(Names, t),
         intake = Admit(t), intake.validation.status = "pass", SameSkill(s)
  PROVE  intake = Admit(s)
  <1>1. <<"SKILL.md">> \in DOMAIN t.files /\ intake.validation.files = Listing(t)  BY PassLists
  <1>2. ChildFiles(Below(<<>>), CapturedFiles(Placed(s))) = intake.validation.files
    BY DEF SameSkill, Placed
  <1>3. Listing(s) = Listing(t)  BY <1>1, <1>2, ListedBelow
  <1>4. QED  BY <1>1, <1>3, SameAdmission

-----------------------------------------------------------------------------
(* What each step may rely on: who was admitted, that the source was then  *)
(* captured with the same bytes, and what the last capture of it found.    *)
Admitted(Names) == \E t : Capturable(Names, t) /\ intake = Admit(t) /\ intake.validation.status = "pass"

NormSteps == {"capture", "create", "write", "validate", "source", "made", "name"}

NormInv(Names) ==
    /\ source \in Skills
    /\ at \in NormSteps \cup {"intake", "done"}
    /\ receipt # None => at = "done"
    /\ at \in NormSteps => Admitted(Names)
    /\ at \in NormSteps \ {"capture"} => intake = Admit(taken)
    /\ at \in {"source", "made", "name"} => validation # None
    /\ at \in {"made", "name"} =>
           latest.source = taken /\ validation.status = "pass" /\ RetainedMatches(intake, validation)
    /\ latest = [source |-> latest.source, made |-> latest.made, own |-> latest.own]
    /\ PreparedFaithful

(* A validation is a record, which no missing value is. *)
Definite == \A one, two, revision, rules : ValidatePlugin(one, two, revision, rules) # None

(* A refusal prepares nothing. *)
LEMMA RefusedKeeps ==
  ASSUME NEW Names, NormInv(Names), NEW i, NEW v, NEW code, NEW created, Stop(Blocked(i, v, code, created)),
         source' = source, latest' = [source |-> latest'.source, made |-> latest'.made, own |-> latest'.own]
  PROVE  NormInv(Names)'
  <1>1. at' = "done" /\ receipt'.status = "blocked"  BY DEF Stop, Blocked
  <1>2. PreparedFaithful'  BY <1>1 DEF PreparedFaithful
  <1>3. QED  BY <1>1, <1>2 DEF NormInv, NormSteps

(* A call that goes on has no receipt yet. *)
LEMMA GoesOn ==
  ASSUME NEW Names, NormInv(Names), at # "done", UNCHANGED receipt
  PROVE  receipt' = None /\ PreparedFaithful'
  BY DEF NormInv, PreparedFaithful

(* An intake admits what it captured.                                      *)
LEMMA IntakeInv ==
  ASSUME NEW Names, \A s \in Skills : Capturable(Names, s), NormInv(Names), IntakeSource
  PROVE  NormInv(Names)'
  <1>1. at = "intake" /\ order' = order /\ source' = source /\ latest' = latest
    BY DEF IntakeSource, Unpaid
  <1>2. PICK later \in {source} \cup Skills : \E t \in Mixed(source, later) :
          LET i == Admit(t)
          IN  /\ intake' = i
              /\ IF i.validation.status # "pass" THEN Stop(Blocked(i, None, "standalone_skill_blocked", FALSE))
                 ELSE IF i.decision # "admit" THEN Stop(Blocked(i, None, "decision_blocked", FALSE))
                 ELSE IF ~MetadataValid(order.metadata) THEN Stop(Blocked(i, None, "plugin_metadata_invalid", FALSE))
                 ELSE Then("capture") /\ UNCHANGED receipt
    BY DEF IntakeSource
  <1>3. PICK t \in Mixed(source, later) :
          /\ intake' = Admit(t)
          /\ \/ \E code : Stop(Blocked(Admit(t), None, code, FALSE))
             \/ /\ Admit(t).validation.status = "pass" /\ Then("capture") /\ UNCHANGED receipt
    BY <1>2
  <1>4. CASE \E code : Stop(Blocked(Admit(t), None, code, FALSE))
    BY <1>1, <1>4, RefusedKeeps DEF NormInv
  <1>5. CASE Admit(t).validation.status = "pass" /\ Then("capture") /\ UNCHANGED receipt
    <2>1. at' = "capture"  BY <1>5 DEF Then
    <2>2. Capturable(Names, t)  BY MixedIsCapturable DEF NormInv
    <2>3. Admit(t)' = Admit(t)  BY <1>1, AdmitKept
    <2>4. Admitted(Names)'  BY <1>3, <1>5, <2>2, <2>3 DEF Admitted
    <2>5. receipt' = None /\ PreparedFaithful'  BY <1>1, <1>5, GoesOn
    <2>6. QED  BY <1>1, <2>1, <2>4, <2>5 DEF NormInv, NormSteps
  <1>6. QED  BY <1>3, <1>4, <1>5

(* Who was admitted stays admitted. *)
LEMMA AdmittedKept ==
  ASSUME NEW Names, Admitted(Names), UNCHANGED <<intake, order>>
  PROVE  Admitted(Names)'
  <1>1. PICK t : Capturable(Names, t) /\ intake = Admit(t) /\ intake.validation.status = "pass"
    BY DEF Admitted
  <1>2. Admit(t)' = Admit(t)  BY AdmitKept
  <1>3. QED  BY <1>1, <1>2 DEF Admitted

(* The capture that is wrapped shows the same lines.                       *)
LEMMA CaptureInv ==
  ASSUME NEW Names, \A s \in Skills : Capturable(Names, s), NormInv(Names), CaptureSource
  PROVE  NormInv(Names)'
  <1>1. at = "capture" /\ UNCHANGED <<order, source, latest, intake>>
    BY DEF CaptureSource, Unpaid
  <1>2. \/ \E code : Stop(Blocked(intake, None, code, FALSE))
        \/ taken' = source /\ SameSkill(source) /\ Then("create") /\ UNCHANGED receipt
    BY DEF CaptureSource
  <1>3. CASE \E code : Stop(Blocked(intake, None, code, FALSE))
    BY <1>1, <1>3, RefusedKeeps DEF NormInv
  <1>4. CASE taken' = source /\ SameSkill(source) /\ Then("create") /\ UNCHANGED receipt
    <2>1. at' = "create"  BY <1>4 DEF Then
    <2>2. Admitted(Names)  BY <1>1 DEF NormInv, NormSteps
    <2>3. intake = Admit(source)
      BY <1>4, <2>2, SameSkillIsAdmitted DEF Admitted, NormInv
    <2>4. intake' = Admit(taken)'  BY <1>1, <1>4, <2>3, AdmitKept
    <2>5. Admitted(Names)'  BY <1>1, <2>2, AdmittedKept
    <2>6. receipt' = None /\ PreparedFaithful'  BY <1>1, <1>4, GoesOn
    <2>7. QED  BY <1>1, <2>1, <2>4, <2>5, <2>6 DEF NormInv, NormSteps
  <1>5. QED  BY <1>2, <1>3, <1>4

(* A step after the capture that keeps what it rests on. *)
LEMMA StepKeeps ==
  ASSUME NEW Names, NormInv(Names), at \in NormSteps \ {"capture"}, at' \in NormSteps \ {"capture"},
         UNCHANGED <<order, source, intake, taken, receipt>>,
         at' \in {"source", "made", "name"} => validation' # None,
         at' \in {"made", "name"} =>
             latest'.source = taken /\ validation'.status = "pass" /\ RetainedMatches(intake, validation'),
         latest' = [source |-> latest'.source, made |-> latest'.made, own |-> latest'.own]
  PROVE  NormInv(Names)'
  <1>1. intake' = Admit(taken)'  BY AdmitKept DEF NormInv
  <1>2. Admitted(Names)'  BY AdmittedKept DEF NormInv
  <1>3. receipt' = None /\ PreparedFaithful'
    <2>1. at # "done"  BY DEF NormSteps
    <2>2. QED  BY <2>1, GoesOn
  <1>4. RetainedMatches(intake, validation)' = RetainedMatches(intake, validation')
    BY DEF RetainedMatches
  <1>5. at' \in {"made", "name"} =>
          latest'.source = taken' /\ validation'.status = "pass" /\ RetainedMatches(intake, validation)'
    BY <1>4
  <1>6. at' \in NormSteps  OBVIOUS
  <1>7. QED  BY <1>1, <1>2, <1>3, <1>5, <1>6 DEF NormInv

(* What is left to write is of that capture.                               *)
LEMMA WriteInv ==
  ASSUME NEW Names, NormInv(Names), CreateDestination \/ WriteEntry \/ ValidateFirst
  PROVE  NormInv(Names)'
  <1>1. at \in {"create", "write"} /\ UNCHANGED <<order, source, latest, intake, taken, validation>>
    BY DEF CreateDestination, WriteEntry, ValidateFirst, Unpaid
  <1>2. \/ \E code, created : Stop(Blocked(intake, None, code, created))
        \/ at' \in {"write", "validate"} /\ UNCHANGED receipt
    BY DEF CreateDestination, WriteEntry, ValidateFirst, Then
  <1>3. CASE \E code, created : Stop(Blocked(intake, None, code, created))
    BY <1>1, <1>3, RefusedKeeps DEF NormInv
  <1>4. CASE at' \in {"write", "validate"} /\ UNCHANGED receipt
    BY <1>1, <1>4, StepKeeps DEF NormInv, NormSteps
  <1>5. QED  BY <1>2, <1>3, <1>4

(* A validation is of what is there now.                                   *)
LEMMA ValidateInv ==
  ASSUME NEW Names, Definite, NormInv(Names), ValidateSecond
  PROVE  NormInv(Names)'
  <1>1. at = "validate" /\ at' = "source" /\ UNCHANGED <<order, source, latest, intake, taken, receipt>>
    BY DEF ValidateSecond, Unpaid, Then
  <1>2. validation' # None  BY DEF ValidateSecond, Definite
  <1>3. QED  BY <1>1, <1>2, StepKeeps DEF NormInv, NormSteps

(* The source still is what was admitted,                                  *)
LEMMA RecheckSourceInv ==
  ASSUME NEW Names, NormInv(Names), RecheckSource
  PROVE  NormInv(Names)'
  <1>1. at = "source" /\ UNCHANGED <<order, source, intake, taken, validation>>
    BY DEF RecheckSource, Unpaid
  <1>2. /\ latest' = latest \/ latest' = [latest EXCEPT !.source = source]
        /\ \/ \E code : Refuse(code)
           \/ /\ latest' = [latest EXCEPT !.source = source] /\ source = taken
              /\ validation.status = "pass" /\ RetainedMatches(intake, validation)
              /\ Then("made") /\ UNCHANGED receipt
    BY DEF RecheckSource
  <1>3. latest' = [source |-> latest'.source, made |-> latest'.made, own |-> latest'.own]
    BY <1>2 DEF NormInv
  <1>4. CASE \E code : Refuse(code)
    BY <1>1, <1>3, <1>4, RefusedKeeps DEF Refuse
  <1>5. CASE /\ latest' = [latest EXCEPT !.source = source] /\ source = taken
             /\ validation.status = "pass" /\ RetainedMatches(intake, validation)
             /\ Then("made") /\ UNCHANGED receipt
    <2>1. latest'.source = taken /\ at' = "made"  BY <1>5 DEF NormInv, Then
    <2>2. validation' # None  BY <1>1 DEF NormInv
    <2>3. QED  BY <1>1, <1>3, <1>5, <2>1, <2>2, StepKeeps DEF NormSteps
  <1>6. QED  BY <1>2, <1>4, <1>5

(* the directory what was written,                                         *)
LEMMA RecheckMadeInv ==
  ASSUME NEW Names, NormInv(Names), RecheckMade
  PROVE  NormInv(Names)'
  <1>1. at = "made" /\ UNCHANGED <<order, source, intake, taken, validation>>
    BY DEF RecheckMade, Unpaid
  <1>2. /\ latest' = latest \/ latest' = [latest EXCEPT !.made = made]
        /\ (\E code : Refuse(code)) \/ (Then("name") /\ UNCHANGED receipt)
    BY DEF RecheckMade
  <1>3. latest' = [source |-> latest.source, made |-> latest'.made, own |-> latest'.own] /\ latest'.source = latest.source
    BY <1>2 DEF NormInv
  <1>4. CASE \E code : Refuse(code)
    BY <1>1, <1>3, <1>4, RefusedKeeps DEF Refuse
  <1>5. CASE Then("name") /\ UNCHANGED receipt
    BY <1>1, <1>3, <1>5, StepKeeps DEF NormInv, NormSteps, Then
  <1>6. QED  BY <1>2, <1>4, <1>5

(* and the name still leads to it.                                         *)
LEMMA RecheckNameInv ==
  ASSUME NEW Names, NormInv(Names), RecheckName
  PROVE  NormInv(Names)'
  <1>1. at = "name" /\ UNCHANGED <<order, source, intake, taken, validation>>
    BY DEF RecheckName, Unpaid
  <1>2. /\ latest' = [latest EXCEPT !.own = place.own]
        /\ (\E code : Refuse(code)) \/ (place.own /\ AsWritten /\ Stop(Prepared))
    BY DEF RecheckName
  <1>3. /\ latest' = [source |-> latest'.source, made |-> latest'.made, own |-> latest'.own]
        /\ latest'.source = latest.source /\ latest'.made = latest.made /\ latest'.own = place.own
    BY <1>2 DEF NormInv
  <1>4. CASE \E code : Refuse(code)
    BY <1>1, <1>3, <1>4, RefusedKeeps DEF Refuse
  <1>5. CASE place.own /\ AsWritten /\ Stop(Prepared)
    <2>1. at' = "done"  BY <1>5 DEF Stop
    <2>2. latest'.own  BY <1>3, <1>5
    <2>3. latest'.source = taken /\ validation.status = "pass" /\ RetainedMatches(intake, validation)
          /\ validation # None /\ intake = Admit(taken)
      BY <1>1, <1>3 DEF NormInv, NormSteps
    <2>4. /\ latest'.made = Wrap(latest'.source, order'.metadata)
          /\ validation'.files = CapturedFiles(latest'.made.files)
      BY <1>1, <1>3, <1>5, <2>3 DEF AsWritten
    <2>5. \A s \in validation'.skills : s.validation.candidate = intake'.validation.candidate
      BY <1>1, <2>3 DEF RetainedMatches
    <2>6. intake' = Admit(latest.source)'
      BY <1>1, <2>3, AdmitKept
    <2>7. PreparedFaithful'  BY <2>2, <2>4, <2>5, <2>6 DEF PreparedFaithful
    <2>8. QED  BY <1>1, <1>3, <2>1, <2>7 DEF NormInv, NormSteps
  <1>6. QED  BY <1>2, <1>4, <1>5

(* The others reach the trees and the name, never what the call holds. *)
LEMMA OthersInv ==
  ASSUME NEW Names, NormInv(Names), Others \/ UNCHANGED normVars
  PROVE  NormInv(Names)'
  <1>1. /\ UNCHANGED <<order, at, intake, taken, validation, latest, receipt>>
        /\ source' \in Skills
    BY DEF Others, EditSource, EditMade, MoveDestination, Edits, normVars, held, NormInv
  <1>2. Admit(taken)' = Admit(taken)  BY <1>1, AdmitKept
  <1>3. Admitted(Names) => Admitted(Names)'  BY <1>1, AdmittedKept
  <1>4. RetainedMatches(intake, validation)' = RetainedMatches(intake, validation)
    BY <1>1 DEF RetainedMatches
  <1>5. Admit(latest.source)' = Admit(latest.source)  BY <1>1 DEF Admit, Validated
  <1>6. PreparedFaithful'  BY <1>1, <1>5 DEF PreparedFaithful, NormInv
  <1>7. QED  BY <1>1, <1>2, <1>3, <1>4, <1>6 DEF NormInv

(* Nothing was prepared at first.                                          *)
LEMMA NormInitially == ASSUME NEW Names, NormInit PROVE NormInv(Names)
  BY DEF NormInit, NormInv, NormSteps, PreparedFaithful

(* So every step keeps what was prepared faithful.                         *)
LEMMA NormStep ==
  ASSUME NEW Names, \A s \in Skills : Capturable(Names, s), Definite, NormInv(Names), [NormNext]_normVars
  PROVE  NormInv(Names)'
  <1>1. CASE Normalize
    BY <1>1, IntakeInv, CaptureInv, WriteInv, ValidateInv, RecheckSourceInv, RecheckMadeInv, RecheckNameInv
       DEF Normalize
  <1>2. CASE Others \/ UNCHANGED normVars  BY <1>2, OthersInv
  <1>3. QED  BY <1>1, <1>2 DEF NormNext

(* A receipt that says prepared tells of the skill that was admitted, for  *)
(* any skills at proper paths, any orders and any number of edits and      *)
(* renames between the seven reads: what the directory held when it was    *)
(* captured last is the wrapping of what the source held when it was       *)
(* captured last, the name led to it, and the intake that was retained is  *)
(* what an intake of that capture would say.                               *)
THEOREM PreparedIsAdmitted ==
  ASSUME NEW Names, \A s \in Skills : Capturable(Names, s), Definite
  PROVE  NormSpec => []PreparedFaithful
  <1>1. NormInit => NormInv(Names)  BY NormInitially
  <1>2. NormInv(Names) /\ [NormNext]_normVars => NormInv(Names)'  BY NormStep
  <1>3. NormInv(Names) => PreparedFaithful  BY DEF NormInv
  <1>4. QED  BY <1>1, <1>2, <1>3, PTL DEF NormSpec

-----------------------------------------------------------------------------
(* Normalization: what a receipt shows.                                    *)

(* The codes of a refusal. *)
NormalizationCodes ==
    {"standalone_skill_blocked", "decision_blocked", "plugin_metadata_invalid", "standalone_source_capture_blocked",
     "standalone_source_unavailable", "source_changed", "standalone_source_capacity_exceeded",
     "candidate_normalization_failed", "candidate_destination_exists", "source_recheck_failed", "plugin_blocked",
     "standalone_candidate_binding_mismatch", "normalized_candidate_recheck_failed", "normalized_candidate_changed"}
CodesPresent == None \notin NormalizationCodes

(* What a receipt rests on: the order that the intake found to be in       *)
(* order, whose validation is retained, and what was created.              *)
OrderInv ==
    /\ at \in NormSteps => intake.decision = "admit" /\ MetadataValid(order.metadata)
    /\ at \in NormSteps \ {"capture"} => taken \in Skills
    /\ at \in {"source", "made", "name"} =>
           \E one, two : validation = ValidatePlugin(one, two, order.revision, Policy)
    /\ at \in {"intake", "capture", "create"} => made = None
    /\ at \in NormSteps \ {"capture", "create"} => made # None
    /\ NormalizationAnswers

(* A refusal keeps its contract. *)
LEMMA BlockedValid ==
  ASSUME CodesPresent, NEW i, NEW v, NEW code \in NormalizationCodes, NEW created \in BOOLEAN, v # None => created
  PROVE  /\ NormalizationValid(Blocked(i, v, code, created)) /\ Blocked(i, v, code, created).created = created
         /\ Blocked(i, v, code, created).status = "blocked"
  <1> DEFINE b == Blocked(i, v, code, created)
  <1>1. /\ b.status = "blocked" /\ b.source = i /\ b.validation = (IF RetainedMatches(i, v) THEN v ELSE None)
        /\ b.package = None /\ b.blocker = code /\ b.created = created
    BY DEF Blocked
  <1> HIDE DEF b
  <1>2. RetainedMatches(i, None)  BY DEF RetainedMatches
  <1>3. RetainedMatches(b.source, b.validation)  BY <1>1, <1>2
  <1>4. QED  BY <1>1, <1>3 DEF NormalizationValid, CodesPresent, b

(* A call that refuses tells what it created. *)
LEMMA StopKeeps ==
  ASSUME CodesPresent, NEW i, NEW v, NEW code \in NormalizationCodes, NEW created \in BOOLEAN, v # None => created,
         Stop(Blocked(i, v, code, created)), created = (made' # None)
  PROVE  OrderInv'
  <1> DEFINE b == Blocked(i, v, code, created)
  <1>1. at' = "done" /\ receipt' = b  BY DEF Stop
  <1>2. NormalizationValid(b) /\ b.created = created  BY BlockedValid
  <1> HIDE DEF b
  <1>3. NormalizationAnswers'
    BY <1>1, <1>2 DEF NormalizationAnswers, NormalizationValid, RetainedMatches, OutputMatches, NormalizedPackage,
                      Text, Below, Canonical
  <1>4. QED  BY <1>1, <1>3 DEF OrderInv, NormSteps

(* A call that goes on has no receipt. *)
LEMMA AnswersLater ==
  ASSUME NEW Names, NormInv(Names), at # "done", UNCHANGED receipt
  PROVE  NormalizationAnswers'
  BY GoesOn DEF NormalizationAnswers

(* An intake goes on only with an order that admits.                       *)
LEMMA IntakeOrdered ==
  ASSUME CodesPresent, NEW Names, NormInv(Names), OrderInv, IntakeSource
  PROVE  OrderInv'
  <1>1. at = "intake" /\ UNCHANGED <<order, made>> /\ made = None
    BY DEF IntakeSource, Unpaid, OrderInv
  <1>2. PICK later \in {source} \cup Skills : \E t \in Mixed(source, later) :
          LET i == Admit(t)
          IN  /\ intake' = i
              /\ IF i.validation.status # "pass" THEN Stop(Blocked(i, None, "standalone_skill_blocked", FALSE))
                 ELSE IF i.decision # "admit" THEN Stop(Blocked(i, None, "decision_blocked", FALSE))
                 ELSE IF ~MetadataValid(order.metadata) THEN Stop(Blocked(i, None, "plugin_metadata_invalid", FALSE))
                 ELSE Then("capture") /\ UNCHANGED receipt
    BY DEF IntakeSource
  <1>3. PICK t \in Mixed(source, later) :
          /\ intake' = Admit(t)
          /\ \/ \E code \in NormalizationCodes : Stop(Blocked(Admit(t), None, code, FALSE))
             \/ /\ Admit(t).decision = "admit" /\ MetadataValid(order.metadata)
                /\ Then("capture") /\ UNCHANGED receipt
    BY <1>2 DEF NormalizationCodes
  <1>4. CASE \E code \in NormalizationCodes : Stop(Blocked(Admit(t), None, code, FALSE))
    BY <1>1, <1>4, StopKeeps
  <1>5. CASE Admit(t).decision = "admit" /\ MetadataValid(order.metadata) /\ Then("capture") /\ UNCHANGED receipt
    <2>1. at' = "capture" /\ intake'.decision = "admit"  BY <1>3, <1>5 DEF Then
    <2>2. MetadataValid(order.metadata)'  BY <1>1, <1>5 DEF MetadataValid, Text
    <2>3. NormalizationAnswers'  BY <1>1, <1>5, AnswersLater
    <2>4. QED  BY <1>1, <2>1, <2>2, <2>3 DEF OrderInv, NormSteps
  <1>6. QED  BY <1>3, <1>4, <1>5

(* A step after the intake that keeps what the receipt will rest on.       *)
LEMMA OrderKept ==
  ASSUME NEW Names, NormInv(Names), OrderInv, at \in NormSteps, at' \in NormSteps,
         UNCHANGED <<order, intake, receipt>>,
         at' # "capture" => taken' \in Skills,
         at' \in {"source", "made", "name"} =>
             \E one, two : validation' = ValidatePlugin(one, two, order.revision, Policy),
         at' \in {"capture", "create"} => made' = None,
         at' \in NormSteps \ {"capture", "create"} => made' # None
  PROVE  OrderInv'
  <1>1. intake'.decision = "admit" /\ MetadataValid(order.metadata)'
    BY DEF OrderInv, MetadataValid, Text
  <1>2. NormalizationAnswers'
    <2>1. at # "done"  BY DEF NormSteps
    <2>2. QED  BY <2>1, AnswersLater
  <1>3. at' \in {"source", "made", "name"} =>
           \E one, two : validation' = ValidatePlugin(one, two, order'.revision, Policy)
    OBVIOUS
  <1>4. at' # "intake"  BY DEF NormSteps
  <1>5. (at \in {"source", "made", "name"} =>
           \E one, two : validation = ValidatePlugin(one, two, order.revision, Policy))'
    BY <1>3 DEF Policy
  <1>6. QED  BY <1>1, <1>2, <1>4, <1>5 DEF OrderInv

(* A capture goes on with a skill,                                         *)
LEMMA CaptureOrdered ==
  ASSUME CodesPresent, NEW Names, NormInv(Names), OrderInv, CaptureSource
  PROVE  OrderInv'
  <1>1. at = "capture" /\ UNCHANGED <<order, made, intake>> /\ made = None
    BY DEF CaptureSource, Unpaid, OrderInv
  <1>2. \/ \E code \in NormalizationCodes : Stop(Blocked(intake, None, code, FALSE))
        \/ taken' \in Skills /\ Then("create") /\ UNCHANGED receipt
    BY DEF CaptureSource, NormalizationCodes, NormInv
  <1>3. CASE \E code \in NormalizationCodes : Stop(Blocked(intake, None, code, FALSE))
    BY <1>1, <1>3, StopKeeps
  <1>4. CASE taken' \in Skills /\ Then("create") /\ UNCHANGED receipt
    <2>1. at' = "create"  BY <1>4 DEF Then
    <2>2. QED  BY <1>1, <1>4, <2>1, OrderKept DEF NormSteps
  <1>5. QED  BY <1>2, <1>3, <1>4

(* What was created is a directory, which no missing value is. *)
LEMMA CreateOrdered ==
  ASSUME NoneIsMissing, CodesPresent, NEW Names, NormInv(Names), OrderInv, CreateDestination
  PROVE  OrderInv'
  <1>1. at = "create" /\ UNCHANGED <<order, intake, taken>> /\ taken \in Skills /\ made = None
    BY DEF CreateDestination, OrderInv, NormSteps
  <1>2. \/ made' = made /\ \E code \in NormalizationCodes : Stop(Blocked(intake, None, code, FALSE))
        \/ made' = [files |-> <<>>, directories |-> {}] /\ Then("write") /\ UNCHANGED receipt
    BY DEF CreateDestination, NormalizationCodes
  <1>3. CASE made' = made /\ \E code \in NormalizationCodes : Stop(Blocked(intake, None, code, FALSE))
    BY <1>1, <1>3, StopKeeps
  <1>4. CASE made' = [files |-> <<>>, directories |-> {}] /\ Then("write") /\ UNCHANGED receipt
    <2>1. at' = "write"  BY <1>4 DEF Then
    <2>2. made' # None  BY <1>4 DEF NoneIsMissing
    <2>3. QED  BY <1>1, <1>4, <2>1, <2>2, OrderKept DEF NormSteps
  <1>5. QED  BY <1>2, <1>3, <1>4

(* and what is written is there to be validated.                           *)
LEMMA WriteOrdered ==
  ASSUME NoneIsMissing, CodesPresent, NEW Names, NormInv(Names), OrderInv, WriteEntry \/ ValidateFirst
  PROVE  OrderInv'
  <1>1. at = "write" /\ UNCHANGED <<order, intake, taken>> /\ taken \in Skills /\ made # None
    BY DEF WriteEntry, ValidateFirst, OrderInv, Unpaid, NormSteps
  <1>2. \/ made' = made /\ \E code \in NormalizationCodes : Stop(Blocked(intake, None, code, TRUE))
        \/ /\ at' \in {"write", "validate"} /\ UNCHANGED receipt
           /\ \/ made' = made
              \/ \E d : made' = [made EXCEPT !.directories = d]
              \/ \E f : made' = [made EXCEPT !.files = f]
    BY <1>1 DEF WriteEntry, ValidateFirst, NormalizationCodes, Then
  <1>3. CASE made' = made /\ \E code \in NormalizationCodes : Stop(Blocked(intake, None, code, TRUE))
    BY <1>1, <1>3, StopKeeps
  <1>4. CASE /\ at' \in {"write", "validate"} /\ UNCHANGED receipt
             /\ \/ made' = made
                \/ \E d : made' = [made EXCEPT !.directories = d]
                \/ \E f : made' = [made EXCEPT !.files = f]
    <2>1. made' # None  BY <1>1, <1>4 DEF NoneIsMissing
    <2>2. QED  BY <1>1, <1>4, <2>1, OrderKept DEF NormSteps
  <1>5. QED  BY <1>2, <1>3, <1>4

(* The validation is of two captures under the fixed policy.               *)
LEMMA ValidateOrdered ==
  ASSUME NEW Names, NormInv(Names), OrderInv, ValidateSecond
  PROVE  OrderInv'
  <1>1. at = "validate" /\ at' = "source" /\ UNCHANGED <<order, intake, taken, made, receipt>> /\ taken \in Skills /\ made # None
        /\ validation' = ValidatePlugin(first, Destination, order.revision, Policy)
    BY DEF ValidateSecond, Unpaid, Then, OrderInv, NormSteps
  <1>2. QED  BY <1>1, OrderKept DEF NormSteps

(* A recheck that finds a change refuses with what it retains.             *)
LEMMA RecheckOrdered ==
  ASSUME CodesPresent, NEW Names, NormInv(Names), OrderInv, RecheckSource \/ RecheckMade
  PROVE  OrderInv'
  <1>1. at \in {"source", "made"} /\ UNCHANGED <<order, intake, taken, made, validation>> /\ taken \in Skills /\ made # None
    BY DEF RecheckSource, RecheckMade, Unpaid, OrderInv, NormSteps
  <1>2. \/ \E code \in NormalizationCodes : Stop(Blocked(intake, validation, code, TRUE))
        \/ at' \in {"made", "name"} /\ UNCHANGED receipt
    BY DEF RecheckSource, RecheckMade, Refuse, NormalizationCodes, Then
  <1>3. CASE \E code \in NormalizationCodes : Stop(Blocked(intake, validation, code, TRUE))
    BY <1>1, <1>3, StopKeeps
  <1>4. CASE at' \in {"made", "name"} /\ UNCHANGED receipt
    <2>1. PICK one, two : validation = ValidatePlugin(one, two, order.revision, Policy)
      BY <1>1 DEF OrderInv
    <2>2. validation' = ValidatePlugin(one, two, order.revision, Policy)  BY <1>1, <2>1
    <2>3. QED  BY <1>1, <1>4, <2>2, OrderKept DEF NormSteps
  <1>5. QED  BY <1>2, <1>3, <1>4

(* The others change what was created, and never undo it. *)
LEMMA OthersOrdered ==
  ASSUME NoneIsMissing, NEW Names, NormInv(Names), OrderInv, Others \/ UNCHANGED normVars
  PROVE  OrderInv'
  <1>1. /\ UNCHANGED <<order, at, intake, taken, validation, receipt>>
        /\ made' = made \/ (made # None /\ at \notin {"intake", "done"} /\ made' \in Tampered(made))
    BY DEF Others, EditSource, EditMade, MoveDestination, Edits, normVars, held
  <1>2. made # None /\ made' \in Tampered(made) => made' # None
    BY DEF Tampered, NoneIsMissing
  <1>3. made' = None <=> made = None  BY <1>1, <1>2
  <1>4. MetadataValid(order.metadata)' = MetadataValid(order.metadata)  BY <1>1 DEF MetadataValid, Text
  <1>5. NormalizationAnswers'
    <2>1. NormalizationAnswers  BY DEF OrderInv
    <2>2. receipt # None => receipt.created = (made' # None)
      BY <1>3, <2>1 DEF NormalizationAnswers
    <2>3. receipt # None => NormalizationValid(receipt)'
      BY <1>1, <2>1 DEF NormalizationAnswers, NormalizationValid, RetainedMatches, OutputMatches, NormalizedPackage,
                        Text, Below, Canonical
    <2>4. QED  BY <1>1, <2>2, <2>3 DEF NormalizationAnswers
  <1>6. (\E one, two : validation = ValidatePlugin(one, two, order.revision, Policy)) =>
        (\E one, two : validation = ValidatePlugin(one, two, order.revision, Policy))'
    BY <1>1 DEF Policy
  <1>7. QED  BY <1>1, <1>3, <1>4, <1>5, <1>6 DEF OrderInv

(* No file of a skill is placed where a manifest is. *)
LEMMA PlacedElsewhere ==
  ASSUME NEW Names, NEW t, Capturable(Names, t), NEW q \in DOMAIN t.files
  PROVE  Inner(Below(q)) = q /\ Below(q) # PluginManifest /\ Below(q) # Overlay
  <1>1. q \in Seq(Names) /\ q # <<>>  BY DEF Capturable
  <1>2. Len(q) \in Nat /\ Len(q) > 0  BY <1>1, EmptySeq
  <1>3. Inner(Below(q)) = q /\ Len(Below(q)) = Len(q) + 2  BY <1>1, BelowAndBack
  <1>4. Len(Below(q)) # 1 /\ Len(Below(q)) # 2  BY <1>2, <1>3
  <1>5. Len(PluginManifest) = 1 /\ Len(Overlay) = 2  BY DEF PluginManifest, Overlay
  <1>6. QED  BY <1>3, <1>4, <1>5

(* The lines of a wrapped skill: its manifest, and what was listed.        *)
LEMMA WrapLines ==
  ASSUME NEW Names, NEW t, Capturable(Names, t), NEW m
  PROVE  LET w    == Wrap(t, m).files
             l(r) == [path |-> r.path, sha256 |-> r.sha256, size |-> r.size]
         IN  /\ PluginManifest \in DOMAIN w /\ w[PluginManifest] = ManifestFile(m) /\ Overlay \notin DOMAIN w
             /\ {l(r) : r \in CapturedFiles(w)}
                  = {[path |-> PluginManifest, sha256 |-> Digest(Canonical(m)), size |-> 1]}
                    \cup {[path |-> Below(f.path), sha256 |-> f.sha256, size |-> f.size] : f \in Listing(t)}
  <1> DEFINE w    == Wrap(t, m).files
             l(r) == [path |-> r.path, sha256 |-> r.sha256, size |-> r.size]
             g(f) == [path |-> Below(f.path), sha256 |-> f.sha256, size |-> f.size]
             h(q) == [path |-> q, sha256 |-> Digest(t.files[q].data), size |-> t.files[q].size, role |-> FileRole(q)]
             k(p) == [path |-> p, sha256 |-> Digest(w[p].data), size |-> w[p].size]
  <1>1. \A q \in DOMAIN t.files : Inner(Below(q)) = q /\ Below(q) # PluginManifest /\ Below(q) # Overlay
    BY PlacedElsewhere
  <1>2. /\ DOMAIN w = {PluginManifest} \cup {Below(q) : q \in DOMAIN t.files}
        /\ \A p \in DOMAIN w : w[p] = IF p = PluginManifest THEN ManifestFile(m) ELSE t.files[Inner(p)]
    BY DEF Wrap
  <1>3. PluginManifest \in DOMAIN w /\ w[PluginManifest] = ManifestFile(m)  BY <1>2
  <1>4. Overlay \notin DOMAIN w
    <2>1. Len(PluginManifest) = 1 /\ Len(Overlay) = 2  BY DEF PluginManifest, Overlay
    <2>2. PluginManifest # Overlay  BY <2>1
    <2>3. QED  BY <1>1, <1>2, <2>2
  <1>5. k(PluginManifest) = [path |-> PluginManifest, sha256 |-> Digest(Canonical(m)), size |-> 1]
    BY <1>3 DEF ManifestFile
  <1>6. \A q \in DOMAIN t.files : k(Below(q)) = g(h(q))
    BY <1>1, <1>2
  <1>7. Listing(t) = {h(q) : q \in DOMAIN t.files}  BY DEF Listing
  <1>8. /\ CapturedFiles(w) = {Row(w, p) : p \in DOMAIN w}
        /\ \A p : l(Row(w, p)) = k(p)
    BY RowsCaptured DEF Row
  <1> HIDE DEF w, l, g, h, k
  <1>9. {l(r) : r \in CapturedFiles(w)} = {k(p) : p \in DOMAIN w}  BY <1>8
  <1>10. {k(p) : p \in DOMAIN w} = {k(PluginManifest)} \cup {g(h(q)) : q \in DOMAIN t.files}
    BY <1>2, <1>6
  <1>11. {g(h(q)) : q \in DOMAIN t.files} = {g(f) : f \in Listing(t)}  BY <1>7
  <1>12. {l(r) : r \in CapturedFiles(w)}
          = {[path |-> PluginManifest, sha256 |-> Digest(Canonical(m)), size |-> 1]} \cup {g(f) : f \in Listing(t)}
    BY <1>5, <1>9, <1>10, <1>11
  <1>13. QED  BY <1>3, <1>4, <1>12 DEF w, l, g

(* A file is captured as it is. *)
LEMMA SameFiles ==
  ASSUME NEW a, NEW b, CapturedFiles(a) = CapturedFiles(b)
  PROVE  DOMAIN a = DOMAIN b /\ \A p \in DOMAIN a : a[p].data = b[p].data /\ a[p].mode = b[p].mode
  <1>1. \A c : /\ CapturedFiles(c) = {Row(c, p) : p \in DOMAIN c}
               /\ DOMAIN c = {r.path : r \in CapturedFiles(c)}
    BY RowsCaptured
  <1>2. \A c, p : Row(c, p).path = p /\ Row(c, p).sha256 = Digest(c[p].data) /\ Row(c, p).mode = c[p].mode
    BY DEF Row
  <1>3. DOMAIN a = DOMAIN b  BY <1>1
  <1>4. ASSUME NEW p \in DOMAIN a PROVE a[p].data = b[p].data /\ a[p].mode = b[p].mode
    <2>1. Row(a, p) \in CapturedFiles(b)  BY <1>1
    <2>2. PICK q \in DOMAIN b : Row(a, p) = Row(b, q)  BY <1>1, <2>1
    <2>3. q = p  BY <1>2, <2>2
    <2>4. Digest(a[p].data) = Digest(b[p].data) /\ a[p].mode = b[p].mode  BY <1>2, <2>2, <2>3
    <2>5. QED  BY <2>4 DEF Digest
  <1>5. QED  BY <1>3, <1>4

(* What is receipted as prepared shows the files that were admitted, below *)
(* a manifest that the order alone determines.                             *)
LEMMA PreparedMatches ==
  ASSUME NoneIsMissing, NEW Names, \A s \in Skills : Capturable(Names, s), NormInv(Names), OrderInv,
         at = "name", AsWritten
  PROVE  OutputMatches(intake, validation) /\ validation.policy = Policy /\ intake.validation.status = "pass"
  <1>1. PICK one, two : validation = ValidatePlugin(one, two, order.revision, Policy)
    BY DEF OrderInv
  <1>2. validation.status = "pass" /\ intake = Admit(taken) /\ Capturable(Names, taken) /\ intake.validation.status = "pass"
    BY DEF NormInv, OrderInv, NormSteps, Admitted
  <1>3. Policy # None  BY DEF Policy, NoneIsMissing
  <1>4. validation = EvidenceOf(one, order.revision, Policy)
    BY <1>1, <1>2, <1>3, PassingValidation
  <1> DEFINE o == order.metadata
             v == validation
             w == Wrap(taken, o).files
             a == [name |-> v.manifest.name, version |-> v.manifest.version, description |-> v.manifest.description]
             line(r) == [path |-> r.path, sha256 |-> r.sha256, size |-> r.size]
  <1>5. v.files = CapturedFiles(one.files) /\ v.manifest = ParsePluginManifest(one.files) /\ v.policy = Policy
    BY <1>4, EvidenceFields
  <1>6. /\ v.files = CapturedFiles(w) /\ v.manifest.name = o.name /\ v.manifest.version = o.version
        /\ v.manifest.description = o.description /\ v.manifest.source_sha256 = Digest(Canonical(o))
    BY DEF AsWritten
  <1>7. Canonical(a) = Canonical(o)  BY <1>6 DEF Canonical
  <1>8. intake.validation.files = Listing(taken)  BY <1>2, PassLists
  <1>9. /\ PluginManifest \in DOMAIN w /\ w[PluginManifest] = ManifestFile(o) /\ Overlay \notin DOMAIN w
        /\ {line(r) : r \in CapturedFiles(w)}
             = {[path |-> PluginManifest, sha256 |-> Digest(Canonical(o)), size |-> 1]}
               \cup {[path |-> Below(f.path), sha256 |-> f.sha256, size |-> f.size] : f \in Listing(taken)}
    BY <1>2, WrapLines
  <1> HIDE DEF o, v, w, a, line
  <1>10. /\ DOMAIN one.files = DOMAIN w
         /\ \A p \in DOMAIN one.files : one.files[p].data = w[p].data /\ one.files[p].mode = w[p].mode
    <2>1. CapturedFiles(one.files) = CapturedFiles(w)  BY <1>5, <1>6
    <2>2. QED  BY <2>1, SameFiles
  <1>11. v.manifest.openai_settings_source = "none"
    <2>1. one.files[PluginManifest].data = Canonical(o)  BY <1>9, <1>10 DEF ManifestFile
    <2>2. Inline(one.files[PluginManifest].data) = None  BY <2>1 DEF Inline, Canonical
    <2>3. SettingsSource(one.files) = "none"  BY <1>9, <1>10, <2>2 DEF SettingsSource
    <2>4. QED  BY <1>5, <2>3 DEF ParsePluginManifest
  <1>12. \A f \in v.files : f.path = PluginManifest => f.mode = 420
    <2> SUFFICES ASSUME NEW f \in v.files, f.path = PluginManifest PROVE f.mode = 420
      OBVIOUS
    <2>0. CapturedFiles(w) = {Row(w, p) : p \in DOMAIN w}  BY RowsCaptured
    <2>1. PICK p \in DOMAIN w : f = Row(w, p)  BY <1>6, <2>0
    <2>2. f.path = p /\ f.mode = w[p].mode  BY <2>1 DEF Row
    <2>3. QED  BY <1>9, <2>2 DEF ManifestFile
  <1>13. {line(r) : r \in v.files}
           = {[path |-> PluginManifest, sha256 |-> Digest(Canonical(a)), size |-> 1]}
             \cup {[path |-> Below(f.path), sha256 |-> f.sha256, size |-> f.size] : f \in intake.validation.files}
    BY <1>6, <1>7, <1>8, <1>9
  <1>14. OutputMatches(intake, v)  BY <1>6, <1>7, <1>11, <1>12, <1>13 DEF OutputMatches, a, line
  <1>15. QED  BY <1>2, <1>5, <1>14 DEF v

(* The last recheck answers, whether it refuses or not.                    *)
LEMMA RecheckNameOrdered ==
  ASSUME NoneIsMissing, CodesPresent, NEW Names, \A s \in Skills : Capturable(Names, s),
         NormInv(Names), OrderInv, RecheckName
  PROVE  OrderInv'
  <1>1. at = "name" /\ UNCHANGED <<order, intake, made, validation>> /\ made # None
    BY DEF RecheckName, Unpaid, OrderInv, NormSteps
  <1>2. \/ \E code \in NormalizationCodes : Stop(Blocked(intake, validation, code, TRUE))
        \/ AsWritten /\ Stop(Prepared)
    BY DEF RecheckName, Refuse, NormalizationCodes
  <1>3. CASE \E code \in NormalizationCodes : Stop(Blocked(intake, validation, code, TRUE))
    BY <1>1, <1>3, StopKeeps
  <1>4. CASE AsWritten /\ Stop(Prepared)
    <2> DEFINE p == Prepared
    <2>1. at' = "done" /\ receipt' = p  BY <1>4 DEF Stop
    <2>2. /\ p.status = "prepared" /\ p.source = intake /\ p.validation = validation
          /\ p.package = NormalizedPackage(intake, validation) /\ p.blocker = None /\ p.created = TRUE
      BY DEF Prepared
    <2>3. OutputMatches(intake, validation) /\ validation.policy = Policy /\ intake.validation.status = "pass"
      BY <1>1, <1>4, PreparedMatches
    <2>4. validation # None /\ validation.status = "pass" /\ RetainedMatches(intake, validation)
      BY <1>1 DEF NormInv
    <2>5. intake.decision = "admit" /\ Text(validation.manifest.version) /\ Text(validation.manifest.description)
      BY <1>1, <1>4 DEF OrderInv, NormSteps, MetadataValid, AsWritten
    <2> HIDE DEF p
    <2>6. NormalizationValid(p)
      BY <2>2, <2>3, <2>4, <2>5 DEF NormalizationValid, Policy
    <2>7. NormalizationAnswers'
      BY <1>1, <2>1, <2>2, <2>6 DEF NormalizationAnswers, NormalizationValid, RetainedMatches, OutputMatches,
                                    NormalizedPackage, Text, Below, Canonical
    <2>8. QED  BY <2>1, <2>7 DEF OrderInv, NormSteps
  <1>5. QED  BY <1>2, <1>3, <1>4

(* So every step keeps what the receipt rests on.                          *)
LEMMA OrderStep ==
  ASSUME NoneIsMissing, CodesPresent, NEW Names, \A s \in Skills : Capturable(Names, s),
         NormInv(Names), OrderInv, [NormNext]_normVars
  PROVE  OrderInv'
  <1>1. CASE Normalize
    BY <1>1, IntakeOrdered, CaptureOrdered, CreateOrdered, WriteOrdered, ValidateOrdered, RecheckOrdered,
       RecheckNameOrdered DEF Normalize
  <1>2. CASE Others \/ UNCHANGED normVars  BY <1>2, OthersOrdered
  <1>3. QED  BY <1>1, <1>2 DEF NormNext

(* No validation is missing. *)
LEMMA ValidationsDefinite == ASSUME NoneIsMissing PROVE Definite
  BY DEF NoneIsMissing, Definite, ValidatePlugin, Unbound

(* Every receipt of a normalization keeps its contract, for any skills at  *)
(* proper paths, any orders and any number of edits and renames: one that  *)
(* refuses retains no validation of a skill other than the admitted one,   *)
(* and one that says prepared shows the admitted bytes below a manifest    *)
(* that the order alone determines; and a receipt says that a candidate    *)
(* was created exactly if this call made the directory.                    *)
THEOREM NormalizationsAnswer ==
  ASSUME NoneIsMissing, CodesPresent, NEW Names, \A s \in Skills : Capturable(Names, s)
  PROVE  NormSpec => []NormalizationAnswers
  <1>1. Definite  BY ValidationsDefinite
  <1>2. NormInit => NormInv(Names) /\ OrderInv
    BY NormInitially DEF NormInit, OrderInv, NormSteps, NormalizationAnswers
  <1>3. NormInv(Names) /\ OrderInv /\ [NormNext]_normVars => NormInv(Names)' /\ OrderInv'
    BY <1>1, NormStep, OrderStep
  <1>4. OrderInv => NormalizationAnswers  BY DEF OrderInv
  <1>5. QED  BY <1>2, <1>3, <1>4, PTL DEF NormSpec

-----------------------------------------------------------------------------
(* Safety: from the evidence that was supplied to the plugin cleared.      *)

(* What is captured of a file shows its data and its mode, *)
LEMMA SameCapture ==
  ASSUME NEW f, NEW g, CapturedFiles(f) = CapturedFiles(g)
  PROVE  /\ DOMAIN f = DOMAIN g
         /\ \A p \in DOMAIN f : f[p].data = g[p].data /\ f[p].mode = g[p].mode
  <1> DEFINE row(h, p) == [path |-> p, sha256 |-> Digest(h[p].data), size |-> h[p].size, mode |-> h[p].mode]
  <1>1. \A h : CapturedFiles(h) = {row(h, p) : p \in DOMAIN h}  BY DEF CapturedFiles
  <1>2. \A h, k, p, q : row(h, p) = row(k, q) => p = q /\ h[p].data = k[q].data /\ h[p].mode = k[q].mode
    <2>1. SUFFICES ASSUME NEW h, NEW k, NEW p, NEW q, row(h, p) = row(k, q)
                   PROVE  p = q /\ h[p].data = k[q].data /\ h[p].mode = k[q].mode
      OBVIOUS
    <2>2. p = row(h, p).path /\ q = row(k, q).path  OBVIOUS
    <2>3. Digest(h[p].data) = row(h, p).sha256 /\ Digest(k[q].data) = row(k, q).sha256  OBVIOUS
    <2>4. h[p].mode = row(h, p).mode /\ k[q].mode = row(k, q).mode  OBVIOUS
    <2>5. QED  BY <2>1, <2>2, <2>3, <2>4 DEF Digest
  <1> HIDE DEF row
  <1>3. ASSUME NEW h, NEW k, CapturedFiles(h) = CapturedFiles(k), NEW p \in DOMAIN h
        PROVE  p \in DOMAIN k /\ h[p].data = k[p].data /\ h[p].mode = k[p].mode
    <2>1. row(h, p) \in CapturedFiles(k)  BY <1>1, <1>3
    <2>2. PICK q \in DOMAIN k : row(h, p) = row(k, q)  BY <1>1, <2>1
    <2>3. QED  BY <1>2, <2>2
  <1>4. \A p \in DOMAIN f : p \in DOMAIN g /\ f[p].data = g[p].data /\ f[p].mode = g[p].mode  BY <1>3
  <1>5. \A p \in DOMAIN g : p \in DOMAIN f  BY <1>3
  <1>6. QED  BY <1>4, <1>5

(* so the same captures are screened alike. *)
LEMMA SameFindings ==
  ASSUME NEW f, NEW g, CapturedFiles(f) = CapturedFiles(g)
  PROVE  AggregateFindings(f) = AggregateFindings(g)
  <1>1. DOMAIN f = DOMAIN g  BY SameCapture
  <1>2. \A p \in DOMAIN f : PluginIndicators(f, p) = PluginIndicators(g, p)
    BY SameCapture DEF PluginIndicators
  <1>3. \A i : {p \in DOMAIN f : i \in PluginIndicators(f, p)} = {p \in DOMAIN g : i \in PluginIndicators(g, p)}
    BY <1>1, <1>2
  <1>4. UNION {PluginIndicators(f, p) : p \in DOMAIN f} = UNION {PluginIndicators(g, p) : p \in DOMAIN g}
    <2>1. {PluginIndicators(f, p) : p \in DOMAIN f} = {PluginIndicators(g, p) : p \in DOMAIN g}
      BY <1>1, <1>2
    <2>2. QED  BY <2>1
  <1>5. QED  BY <1>3, <1>4 DEF AggregateFindings

(* What a file shows is found. *)
LEMMA Found ==
  ASSUME NEW f, NEW p \in DOMAIN f, NEW i \in PluginIndicators(f, p)
  PROVE  \E x \in AggregateFindings(f) : x.category = i.category
  <1> DEFINE x == [code |-> i.code, category |-> i.category, refs |-> {q \in DOMAIN f : i \in PluginIndicators(f, q)}]
  <1>1. i \in UNION {PluginIndicators(f, q) : q \in DOMAIN f}  OBVIOUS
  <1>2. x \in AggregateFindings(f)  BY <1>1 DEF AggregateFindings
  <1>3. x.category = i.category  OBVIOUS
  <1>4. QED  BY <1>2, <1>3

(* A verified validation is one of a plugin that did not change. *)
LEMMA VerifiedIsFresh ==
  ASSUME Verified.status = "pass", Verified = given.validation
  PROVE  plugin # None /\ given.validation.files = CapturedFiles(plugin.files)
  <1> DEFINE revision == given.validation.candidate.source_revision
             fresh    == ValidatePlugin(former, plugin, revision, policy)
  <1>1. \A rules, code : Unbound(rules, code).status = "blocked"  BY DEF Unbound
  <1>2. fresh.status # "blocked" /\ Verified = fresh
    <2>1. \A rules, code : Verified # Unbound(rules, code)  BY <1>1
    <2>2. fresh.status = "blocked" \/ fresh = given.validation  BY <2>1 DEF Verified, VerifyPlugin
    <2>3. Verified = fresh  BY <2>1, <2>2 DEF Verified, VerifyPlugin
    <2>4. QED  BY <2>3
  <1>3. \A rules, code : fresh # Unbound(rules, code)  BY <1>1, <1>2
  <1>4. plugin # None /\ former = plugin  BY <1>3 DEF ValidatePlugin
  <1>5. fresh.files = CapturedFiles(former.files)  BY <1>3 DEF ValidatePlugin
  <1>6. QED  BY <1>2, <1>4, <1>5

-----------------------------------------------------------------------------
(* Times are numbers. *)
SafetyTimes ==
    /\ MaxTime \in Nat /\ LongestAge \in Nat
    /\ \A a \in Assurances : a # None => a.observed \in Int

(* The screening that was made is of files like those supplied. *)
Screened == \E f : CapturedFiles(f) = given.validation.files /\ screening = PluginScreening(given.validation.candidate, f)

SafetyInv ==
    /\ given \in Assurances
    /\ stage # "ask" => checked \in Int
    /\ stage \notin {"ask", "settled"} => given # None /\ MaxAge \in Int /\ AssuranceValid(given)
    /\ stage \in {"confirm", "confirmed"} => Screened
    /\ stage # "settled" => verdict # "clear"
    /\ ClearedAsCaptured

(* What a clearance rests on.                                              *)
LEMMA ClearedIs ==
  ASSUME SafetyTimes, SafetyInv, stage = "confirmed", confirmed' = plugin,
         Verified.status = "pass", Verified = given.validation, screening = given.screening,
         ~(given.observed > checked), ~(checked - given.observed > MaxAge), UNCHANGED <<given, checked>>
  PROVE  ClearedAsCaptured'
  <1> DEFINE files == plugin.files
             reviewed(check) == given.checklist[check].status = "reviewed_no_issue"
  <1>1. plugin # None /\ given.validation.files = CapturedFiles(files)  BY VerifiedIsFresh
  <1>2. given.screening.findings = AggregateFindings(files)
    <2>1. PICK f : CapturedFiles(f) = given.validation.files /\ screening = PluginScreening(given.validation.candidate, f)
      BY DEF SafetyInv, Screened
    <2>2. screening.findings = AggregateFindings(f)  BY <2>1 DEF PluginScreening
    <2>3. AggregateFindings(f) = AggregateFindings(files)  BY <1>1, <2>1, SameFindings
    <2>4. QED  BY <2>2, <2>3
  <1>3. \A check \in RequiredPluginChecks(given) : reviewed(check)
    BY DEF SafetyInv, AssuranceValid, ChecklistBinds, RequiredPluginChecks
  <1>4. ASSUME NEW p \in DOMAIN files, NEW i \in PluginIndicators(files, p), i.category = "external_service"
        PROVE  reviewed("network_and_external_writes")
    <2>1. PICK x \in given.screening.findings : x.category = "external_service"  BY <1>2, <1>4, Found
    <2>2. "network_and_external_writes" \in RequiredPluginChecks(given)
      BY <2>1 DEF RequiredPluginChecks, Source!SafetyChecks
    <2>3. QED  BY <1>3, <2>2
  <1>5. ASSUME NEW p \in DOMAIN files, ExecutableMode(files[p].mode)
        PROVE  reviewed("filesystem_and_subprocess")
    <2>1. PICK r \in given.validation.files : r.mode = files[p].mode  BY <1>1 DEF CapturedFiles
    <2>2. ExecutableMode(r.mode)  BY <1>5, <2>1
    <2>3. "filesystem_and_subprocess" \in RequiredPluginChecks(given)
      BY <2>2 DEF RequiredPluginChecks, Source!SafetyChecks
    <2>4. QED  BY <1>3, <2>3
  <1>6. checked \in given.observed .. (given.observed + MaxAge)
    BY DEF SafetyInv, SafetyTimes
  <1> HIDE DEF files, reviewed
  <1>7. QED  BY <1>1, <1>2, <1>4, <1>5, <1>6 DEF ClearedAsCaptured, PluginIndicators, AggregateFindings, files, reviewed

(* What does not change keeps its meaning. *)
LEMMA ClearanceKept ==
  ASSUME UNCHANGED <<given, checked>>
  PROVE  /\ UNCHANGED screening => (Screened' <=> Screened)
         /\ UNCHANGED <<confirmed, verdict>> => (ClearedAsCaptured' <=> ClearedAsCaptured)
         /\ AssuranceValid(given)' <=> AssuranceValid(given)
  <1>1. UNCHANGED screening => (Screened' <=> Screened)  BY DEF Screened
  <1>2. UNCHANGED <<confirmed, verdict>> => (ClearedAsCaptured' <=> ClearedAsCaptured)
    BY DEF ClearedAsCaptured
  <1>3. AssuranceValid(given)' <=> AssuranceValid(given)
    OBVIOUS
  <1>4. QED  BY <1>1, <1>2, <1>3

(* Whoever settles with a blocker clears nothing. *)
LEMMA SettledKeeps ==
  ASSUME SafetyInv, given' = given, checked' \in Int, NEW code, code # "clear", Settles(code)
  PROVE  SafetyInv'
  <1>1. stage' = "settled" /\ verdict' # "clear"  BY DEF Settles
  <1>2. ClearedAsCaptured'  BY <1>1 DEF ClearedAsCaptured
  <1>3. QED  BY <1>1, <1>2 DEF SafetyInv

(* The call checks the evidence first.                                     *)
LEMMA AskInv == ASSUME SafetyTimes, SafetyInv, Ask PROVE SafetyInv'
  <1>1. stage = "ask" /\ given' = given /\ checked' \in Int  BY DEF Ask, Arguments, SafetyTimes
  <1>2. \/ \E code : code # "clear" /\ Settles(code)
        \/ given # None /\ MaxAge \in 1 .. LongestAge /\ AssuranceValid(given) /\ Proceeds("verify")
    BY DEF Ask
  <1>3. CASE \E code : code # "clear" /\ Settles(code)  BY <1>1, <1>3, SettledKeeps
  <1>4. CASE given # None /\ MaxAge \in 1 .. LongestAge /\ AssuranceValid(given) /\ Proceeds("verify")
    <2>1. stage' = "verify" /\ verdict' = verdict  BY <1>4 DEF Proceeds
    <2>2. verdict' # "clear"  BY <1>1, <2>1 DEF SafetyInv
    <2>3. ClearedAsCaptured'  BY <2>2 DEF ClearedAsCaptured
    <2>4. AssuranceValid(given)'  BY <1>1, <1>4
    <2>5. MaxAge \in Int  BY <1>4 DEF SafetyTimes
    <2>6. QED  BY <1>1, <1>4, <2>1, <2>2, <2>3, <2>4, <2>5 DEF SafetyInv
  <1>5. QED  BY <1>2, <1>3, <1>4

(* A step from one middle stage to the next. *)
LEMMA ProceedKeeps ==
  ASSUME SafetyInv, NEW next \in {"verified", "screen", "confirm", "confirmed"}, Proceeds(next),
         stage \notin {"ask", "settled"}, UNCHANGED <<given, checked>>,
         next \in {"confirm", "confirmed"} => Screened'
  PROVE  SafetyInv'
  <1>1. stage' = next /\ verdict' = verdict /\ verdict # "clear"  BY DEF Proceeds, SafetyInv
  <1>2. ClearedAsCaptured'  BY <1>1 DEF ClearedAsCaptured
  <1>3. AssuranceValid(given)'  BY ClearanceKept DEF SafetyInv
  <1>4. QED  BY <1>1, <1>2, <1>3 DEF SafetyInv

(* A capture is of the plugin at some time,                                *)
LEMMA CaptureFormerInv ==
  ASSUME SafetyInv, CaptureFormer("verify", "verified") \/ CaptureFormer("confirm", "confirmed")
  PROVE  SafetyInv'
  <1>1. UNCHANGED <<given, checked, screening>>  BY DEF CaptureFormer, Arguments
  <1>2. CASE CaptureFormer("verify", "verified")
    <2>1. stage = "verify" /\ Proceeds("verified")  BY <1>2 DEF CaptureFormer
    <2>2. QED  BY <1>1, <2>1, ProceedKeeps
  <1>3. CASE CaptureFormer("confirm", "confirmed")
    <2>1. stage = "confirm" /\ Proceeds("confirmed")  BY <1>3 DEF CaptureFormer
    <2>2. Screened'  BY <1>1, <2>1, ClearanceKept DEF SafetyInv
    <2>3. QED  BY <1>1, <2>1, <2>2, ProceedKeeps
  <1>4. QED  BY <1>2, <1>3

(* evidence is verified for that capture,                                  *)
LEMMA VerifySuppliedInv == ASSUME SafetyInv, VerifySupplied PROVE SafetyInv'
  <1>1. stage = "verified" /\ UNCHANGED <<given, checked>>  BY DEF VerifySupplied, Arguments
  <1>2. checked' \in Int  BY <1>1 DEF SafetyInv
  <1>3. CASE Settles("plugin_security_source_changed")  BY <1>1, <1>2, <1>3, SettledKeeps
  <1>4. CASE Proceeds("screen")  BY <1>1, <1>4, ProceedKeeps
  <1>5. QED  BY <1>3, <1>4 DEF VerifySupplied

(* what is screened is captured,                                           *)
LEMMA ScreenPluginInv == ASSUME SafetyInv, ScreenPlugin PROVE SafetyInv'
  <1>1. stage = "screen" /\ UNCHANGED <<given, checked>>  BY DEF ScreenPlugin, Arguments
  <1>2. checked' \in Int  BY <1>1 DEF SafetyInv
  <1>3. \/ \E code : code # "clear" /\ Settles(code)
        \/ /\ CapturedFiles(plugin.files) = given.validation.files /\ Proceeds("confirm")
           /\ screening' = PluginScreening(given.validation.candidate, plugin.files)
    BY DEF ScreenPlugin
  <1>4. CASE \E code : code # "clear" /\ Settles(code)  BY <1>1, <1>2, <1>4, SettledKeeps
  <1>5. CASE /\ CapturedFiles(plugin.files) = given.validation.files /\ Proceeds("confirm")
             /\ screening' = PluginScreening(given.validation.candidate, plugin.files)
    <2>1. Screened'  BY <1>1, <1>5 DEF Screened
    <2>2. QED  BY <1>1, <1>5, <2>1, ProceedKeeps
  <1>6. QED  BY <1>3, <1>4, <1>5

(* and what was screened is confirmed by a later capture.                  *)
LEMMA ConfirmInv == ASSUME SafetyTimes, SafetyInv, ConfirmSupplied PROVE SafetyInv'
  <1>1. stage = "confirmed" /\ UNCHANGED <<given, checked>> /\ confirmed' = plugin
    BY DEF ConfirmSupplied, Arguments
  <1>2. checked' \in Int  BY <1>1 DEF SafetyInv
  <1>3. \/ \E code : code # "clear" /\ Settles(code)
        \/ /\ Verified.status = "pass" /\ Verified = given.validation /\ screening = given.screening
           /\ ~(given.observed > checked) /\ ~(checked - given.observed > MaxAge) /\ Settles("clear")
    BY DEF ConfirmSupplied
  <1>4. CASE \E code : code # "clear" /\ Settles(code)  BY <1>1, <1>2, <1>4, SettledKeeps
  <1>5. CASE /\ Verified.status = "pass" /\ Verified = given.validation /\ screening = given.screening
             /\ ~(given.observed > checked) /\ ~(checked - given.observed > MaxAge) /\ Settles("clear")
    <2>1. ClearedAsCaptured'  BY <1>1, <1>5, ClearedIs
    <2>2. stage' = "settled"  BY <1>5 DEF Settles
    <2>3. QED  BY <1>1, <1>2, <2>1, <2>2 DEF SafetyInv
  <1>6. QED  BY <1>3, <1>4, <1>5

(* So every step keeps what was cleared fresh.                             *)
LEMMA SafetyStep == ASSUME SafetyTimes, SafetyInv, [SafetyNext]_safetyVars PROVE SafetyInv'
  <1>1. CASE Assess
    BY <1>1, AskInv, CaptureFormerInv, VerifySuppliedInv, ScreenPluginInv, ConfirmInv DEF Assess
  <1>2. CASE RewritePlugin \/ UNCHANGED safetyVars
    <2>1. UNCHANGED <<given, stage, checked, screening, confirmed, verdict>>
      BY <1>2 DEF RewritePlugin, safetyVars
    <2>2. /\ Screened' <=> Screened
          /\ ClearedAsCaptured' <=> ClearedAsCaptured
          /\ AssuranceValid(given)' <=> AssuranceValid(given)
      BY <2>1, ClearanceKept
    <2>3. QED  BY <2>1, <2>2 DEF SafetyInv
  <1>3. QED  BY <1>1, <1>2 DEF SafetyNext

(* A plugin is cleared only as it was captured last, for any plugins,      *)
(* evidence, signatures and ages and any number of rewrites between the    *)
(* five captures: its files and modes are those supplied, the findings     *)
(* supplied are all that its own bytes show, what reaches the network or   *)
(* can be run was reviewed, and the evidence is neither from the future    *)
(* nor too old.                                                            *)
THEOREM ClearedIsCaptured ==
  ASSUME SafetyTimes, None # "clear"
  PROVE  SafetySpec => []ClearedAsCaptured
  <1>1. SafetyInit => SafetyInv  BY DEF SafetyInit, SafetyInv, ClearedAsCaptured
  <1>2. SafetyInv /\ [SafetyNext]_safetyVars => SafetyInv'  BY SafetyStep
  <1>3. SafetyInv => ClearedAsCaptured  BY DEF SafetyInv
  <1>4. QED  BY <1>1, <1>2, <1>3, PTL DEF SafetySpec

-----------------------------------------------------------------------------
(* The machines together: every contract, on the machine that was chosen.  *)

(* The invariant of whichever machine the host runs. *)
ContractsInv(Names) ==
    /\ machine = "release" => ReceiptsInv
    /\ machine = "plugins" => SlotInv /\ WorkInv
    /\ machine = "normalization" => NormInv(Names) /\ OrderInv

(* It holds at first, *)
LEMMA ContractsInitially == ASSUME NEW Names, MCInit PROVE ContractsInv(Names)
  <1>1. machine = "release" => ReceiptsInv  BY ReceiptsInitially DEF MCInit
  <1>2. ASSUME machine = "plugins" PROVE SlotInv /\ WorkInv
    <2>1. PluginInit  BY <1>2 DEF MCInit, PluginsInit
    <2>2. QED  BY <2>1, SlotAssumption, SlotInitially, WorkInitially
  <1>3. ASSUME machine = "normalization" PROVE NormInv(Names) /\ OrderInv
    <2>1. NormInit  BY <1>3 DEF MCInit
    <2>2. QED  BY <2>1, NormInitially DEF NormInit, OrderInv, NormSteps, NormalizationAnswers
  <1>4. QED  BY <1>1, <1>2, <1>3 DEF ContractsInv

(* and the machines not chosen stand still. *)
LEMMA ContractsStep ==
  ASSUME NoneIsNone, PlannerWords, NoneIsMissing, CodesPresent, NEW Names, \A s \in Skills : Capturable(Names, s),
         ContractsInv(Names), [MCNext]_allVars
  PROVE  ContractsInv(Names)'
  <1>1. /\ machine' = machine
        /\ machine = "release" => [Next]_vars
        /\ machine = "plugins" => [PluginNext]_pluginVars
        /\ machine = "normalization" => [NormNext]_normVars
    BY DEF MCNext, OfPlugins, OfNorm, OfSafety, Over, allVars
  <1>2. ASSUME machine = "release" PROVE ReceiptsInv'
    <2>1. ReceiptsInv /\ [Next]_vars  BY <1>1, <1>2 DEF ContractsInv
    <2>2. QED  BY <2>1, ReceiptsInvByStep
  <1>3. ASSUME machine = "plugins" PROVE SlotInv' /\ WorkInv'
    <2>1. SlotInv /\ WorkInv /\ [PluginNext]_pluginVars  BY <1>1, <1>3 DEF ContractsInv
    <2>2. QED  BY <2>1, SlotAssumption, SlotStep, WorkStep
  <1>4. ASSUME machine = "normalization" PROVE NormInv(Names)' /\ OrderInv'
    <2>1. NormInv(Names) /\ OrderInv /\ [NormNext]_normVars  BY <1>1, <1>4 DEF ContractsInv
    <2>2. Definite  BY ValidationsDefinite
    <2>3. QED  BY <2>1, <2>2, NormStep, OrderStep
  <1>5. QED  BY <1>1, <1>2, <1>3, <1>4 DEF ContractsInv

(* Whatever the SDK hands out satisfies its own contract, planning answers *)
(* every lawful input up to a text it screens, and a plugin passes its     *)
(* check only as it was captured last, reviewed and approved: for any      *)
(* trees, requests, calls, skills, orders and rewrites.                    *)
THEOREM ContractsAreKept ==
  ASSUME NoneIsNone, PlannerWords, NoneIsMissing, CodesPresent, NEW Names, \A s \in Skills : Capturable(Names, s)
  PROVE  MCSpec => []ContractsHold
  <1>1. MCInit => ContractsInv(Names)  BY ContractsInitially
  <1>2. ContractsInv(Names) /\ [MCNext]_allVars => ContractsInv(Names)'  BY ContractsStep
  <1>3. ContractsInv(Names) => ContractsHold
    <2>1. ReceiptsInv => ReceiptsValid /\ PlanningAnswers  BY ReceiptsShow DEF ReceiptsInv
    <2>2. WorkInv => PluginAnswers /\ PluginsEarned  BY DEF WorkInv
    <2>3. OrderInv => NormalizationAnswers  BY DEF OrderInv
    <2>4. QED  BY <2>1, <2>2, <2>3 DEF ContractsInv, ContractsHold
  <1>4. QED  BY <1>1, <1>2, <1>3, PTL DEF MCSpec
=============================================================================
