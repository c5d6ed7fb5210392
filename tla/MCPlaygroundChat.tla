-------------------------- MODULE MCPlaygroundChat --------------------------
(***************************************************************************)
(* The users and networks PlaygroundChat is checked for.                   *)
(***************************************************************************)
EXTENDS PlaygroundChat

MCSetups == {
    \* edits, stops and failures supersede requests whose updates are queued
    [acts |-> {"plain", "regenerate", "edit", "stop", "fail", "silent"},
     stream |-> "new", gens |-> 3, chunks |-> 1, lives |-> 1],
    \* sends, stops, failures and deletions around one reload of the page
    [acts |-> {"regenerate", "delete", "stop", "leave", "crash", "fail"},
     stream |-> "new", gens |-> 3, chunks |-> 1, lives |-> 2],
    \* streams of several chunks, each flushed or still buffered at the end
    [acts |-> {"plain", "regenerate", "delete", "fail"},
     stream |-> "new", gens |-> 2, chunks |-> 3, lives |-> 1],
    [acts |-> {"regenerate", "fail"},
     stream |-> "whole", gens |-> 2, chunks |-> 3, lives |-> 1],
    \* streams whose deltas may begin like the text before them
    [acts |-> {"regenerate", "fail"},
     stream |-> "any", gens |-> 2, chunks |-> 2, lives |-> 1]}
=============================================================================
