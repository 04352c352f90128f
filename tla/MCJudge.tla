------------------------------- MODULE MCJudge -------------------------------
(***************************************************************************)
(* One judge process with the cleanup hook, and the whole adapter over     *)
(* processes that keep what the first is shown to implement.  The two      *)
(* machines run apart: a behaviour is one of either.                       *)
(***************************************************************************)
EXTENDS JudgeAdapter, CodexJudge

VARIABLE machine         \* "process" or "adapter"

machines == <<machine, adapterVars, judgeVars>>

MCInit ==
    /\ machine \in {"process", "adapter"}
    /\ AdapterInit
    /\ JudgeInit

MCNext ==
    \/ machine = "process" /\ AdapterNext /\ UNCHANGED <<machine, judgeVars>>
    \/ machine = "adapter" /\ JudgeNext /\ UNCHANGED <<machine, adapterVars>>

(* The scheduling of AdapterFairSpec.  A behaviour of the adapter alone    *)
(* starves the process, so that only safety is checked of it.              *)
MCSpec ==
    MCInit /\ [][MCNext]_machines /\ WF_vars(Parent) /\ WF_vars(Main) /\ WF_vars(Reader)
=============================================================================
