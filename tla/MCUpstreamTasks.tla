-------------------------- MODULE MCUpstreamTasks --------------------------
(***************************************************************************)
(* The users, servers and networks UpstreamTasks is checked for.           *)
(***************************************************************************)
EXTENDS UpstreamTasks

Calm == [acts |-> {"detect"}, faulty |-> {}, tasks |-> 1, mounts |-> 1, faults |-> 1]

MCSetups == {
    \* detect-all, tasks of others and cancels, with and without failures
    [Calm EXCEPT !.acts = {"detect", "cancel"}, !.tasks = 2],
    [Calm EXCEPT !.acts = {"detect", "cancel"}, !.faulty = {"lookup", "poll"}],
    \* detect-all and apply-all that cross, conflict or fail to start
    [Calm EXCEPT !.acts = {"apply"}, !.tasks = 2],
    [Calm EXCEPT !.acts = {"detect", "apply"}, !.faulty = {"current", "start"}],
    [Calm EXCEPT !.acts = {"detect", "apply", "cancel"}],
    \* the page is left with calls in flight and opened again
    [Calm EXCEPT !.acts = {"detect", "leave"}, !.tasks = 2, !.mounts = 2],
    \* the stored task cannot be resolved
    [Calm EXCEPT !.acts = {"detect", "cancel", "prune"}, !.faulty = {"resolve", "cancel"}]}
============================================================================
