----------------------------- MODULE BoundedCall -----------------------------
(***************************************************************************)
(* What execute_provider_call promises the code that awaits it, without    *)
(* its tasks and timers: it ends once, with a terminal status or an        *)
(* exception; output that comes with a successful cleanup comes from an    *)
(* adapter that has been let go; a call that was cancelled returns no      *)
(* result; and after it has ended, work of the call can only cease.        *)
(***************************************************************************)
EXTENDS Naturals

CONSTANT Absent     \* no value, yet or at all

Statuses   == {"completed", "failed", "blocked", "indeterminate"}
Exceptions == {"contract", "cancelled"}
Hows       == Statuses \cup Exceptions

ASSUME NoHow == Absent \notin Hows

VARIABLES
    call,        \* before, during or after execute_provider_call
    ending,      \* how it ended, and its cleanup_succeeded
    cancelled,   \* its caller has cancelled it
    busy         \* a task or hook of the call is running

callVars == <<call, ending, cancelled, busy>>

Ongoing == [how |-> Absent, cleanup |-> FALSE]

(* The result is usable: output, and nothing of the call left. *)
Released(e) == e.how = "completed" /\ e.cleanup

Begins ==
    /\ call = "idle"
    /\ call' = "running"
    /\ UNCHANGED <<ending, cancelled, busy>>

(* The adapter is given work, or finishes some. *)
Works ==
    /\ call = "running"
    /\ busy' = ~busy
    /\ UNCHANGED <<call, ending, cancelled>>

IsCancelled ==
    /\ call = "running"
    /\ cancelled' = TRUE
    /\ UNCHANGED <<call, ending, busy>>

EndsAs(e) ==
    /\ call = "running"
    /\ cancelled => e.how \in Exceptions
    /\ Released(e) => ~busy
    /\ call' = "ended"
    /\ ending' = e
    /\ UNCHANGED <<cancelled, busy>>

(* The deferred teardown, or a hook that ignored its cancellation, ends. *)
LetsGo ==
    /\ call = "ended"
    /\ busy
    /\ busy' = FALSE
    /\ UNCHANGED <<call, ending, cancelled>>

CallInit ==
    /\ call \in {"idle", "running"}
    /\ ending = Ongoing
    /\ cancelled = FALSE
    /\ busy = FALSE

CallNext ==
    \/ Begins \/ Works \/ IsCancelled \/ LetsGo
    \/ \E h \in Hows, c \in BOOLEAN : EndsAs([how |-> h, cleanup |-> c])

CallSpec == CallInit /\ [][CallNext]_callVars
=============================================================================
