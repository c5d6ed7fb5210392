--------------------------- MODULE SystemTaskSlot ---------------------------
(***************************************************************************)
(* What the system task tables promise for one active_key.  At most one    *)
(* task is pending or running.  A task is given to one runner, once, ends  *)
(* once, and keeps its outcome until the row is forgotten; only a running  *)
(* task succeeds or fails.                                                 *)
(***************************************************************************)
CONSTANTS Tasks, Runners, NoRunner

VARIABLES
    phase,      \* the status a reader of the task sees
    runner      \* the runner the task was given to

slot == <<phase, runner>>

Init ==
    /\ phase = [t \in Tasks |-> "absent"]
    /\ runner = [t \in Tasks |-> NoRunner]

Free == \A t \in Tasks : phase[t] \notin {"pending", "running"}

Queue(t) ==
    /\ Free
    /\ phase[t] = "absent"
    /\ phase' = [phase EXCEPT ![t] = "pending"]
    /\ UNCHANGED runner

Start(t) ==
    /\ phase[t] = "pending"
    /\ phase' = [phase EXCEPT ![t] = "running"]
    /\ \E r \in Runners : runner' = [runner EXCEPT ![t] = r]

Finish(t) ==
    /\ \/ /\ phase[t] = "running"
          /\ \E o \in {"succeeded", "failed"} : phase' = [phase EXCEPT ![t] = o]
       \/ /\ phase[t] \in {"pending", "running"}
          /\ phase' = [phase EXCEPT ![t] = "cancelled"]
    /\ UNCHANGED runner

Forget(t) ==
    /\ phase[t] \in {"succeeded", "failed", "cancelled"}
    /\ phase' = [phase EXCEPT ![t] = "gone"]
    /\ UNCHANGED runner

Next == \E t \in Tasks : Queue(t) \/ Start(t) \/ Finish(t) \/ Forget(t)

Spec == Init /\ [][Next]_slot
=============================================================================
