-------------------------- MODULE MCTaskSettlement --------------------------
(***************************************************************************)
(* The deployments and failures TaskSettlement is checked for.             *)
(***************************************************************************)
EXTENDS TaskSettlement

CONSTANTS w1, w2

Alone == [workers |-> {w1}, actuals |-> {0, 1, 3}, faults |-> 2, submit |-> {},
          expiry |-> FALSE, overtaking |-> FALSE]

MCSetups == {
    \* overlapping passes, and every failure of a submission that ends regularly
    [Alone EXCEPT !.workers = {w1, w2}, !.faults = 3,
                  !.submit = {"spool", "unsaved", "apply", "review", "log", "rollback"}],
    \* the submission dies or gives up while it charges; passes overlap
    [Alone EXCEPT !.workers = {w1, w2}, !.faults = 0,
                  !.submit = {"unsaved", "apply", "review", "fail", "crash"}],
    \* the same with one pass, spool files and database errors
    [Alone EXCEPT !.faults = 3,
                  !.submit = {"spool", "unsaved", "apply", "review", "fail", "crash"}],
    \* it dies or gives up anywhere, its rollback included
    [Alone EXCEPT !.actuals = {1, 3}, !.faults = 0,
                  !.submit = {"spool", "unsaved", "apply", "review", "fail", "log",
                              "rollback", "crash"}],
    \* one pass works on the task while it is being submitted
    [Alone EXCEPT !.overtaking = TRUE, !.submit = {"unsaved", "crash"}],
    \* whatever may fail, with the reserve of a dead submission expiring
    [Alone EXCEPT !.actuals = {0, 3}, !.expiry = TRUE,
                  !.submit = {"spool", "unsaved", "apply", "review", "fail", "log",
                              "rollback", "crash"}]}

(* The submission dies and its reserve expires; nothing else fails.        *)
MCExpirySetups == {
    [Alone EXCEPT !.actuals = {3}, !.faults = 0, !.submit = {"crash"}, !.expiry = TRUE]}
=============================================================================
