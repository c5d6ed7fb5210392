------------------------ MODULE UpstreamTasksProofs ------------------------
(***************************************************************************)
(* Proofs about UpstreamTasks, for every number of calls in flight, tasks  *)
(* and lives of the page, and for every user, server and network.          *)
(***************************************************************************)
EXTENDS UpstreamTasks, FiniteSetTheorems, TLAPS

(***************************************************************************)
(* The inductive invariant.                                                *)
(***************************************************************************)
\* A call whose poll loop is live.
Live(call) == call.pc \in {"resolve", "poll"} /\ ~call.aborted

\* A live loop and a current run hold the controller of their mount.
Holds(s, call, us) == Live(call) \/ call.current => us[call.mount].ctl = s

\* Only a run that polls or reports is current, and the POST of a start is answered with a
\* task or with an error.
WellPhased(call) ==
    /\ call.current => call.pc \in {"poll", "report"}
    /\ call.pc = "start" => call.ans \in 0 .. MaxTasks \cup {Waiting, Failed}

\* The page: its refs, the calls it has in flight and the stored id.
PageSound ==
    /\ stored \in 0 .. MaxTasks
    /\ ui \in [Mounts -> Uis]
    /\ calls \in [Slots -> Calls]
    /\ \A s \in Slots : WellPhased(calls[s]) /\ Holds(s, calls[s], ui)

\* Everything else is well typed.
WorldTyped ==
    /\ srv \in Servers
    /\ mount \in Mounts
    /\ mounted \in BOOLEAN
    /\ lookup \in {Quiet} \cup Answers
    /\ cancel \in [Mounts -> Cancels]
    /\ faults \in 0 .. setup.faults
    /\ setup \in Setups

Tracked == PageSound /\ WorldTyped

(***************************************************************************)
(* Typing facts.                                                           *)
(***************************************************************************)
(* The records calls, pages and cancels start from have their types.         *)
LEMMA RecordsTyped ==
    /\ IdleCall \in Calls /\ WellPhased(IdleCall)
    /\ ~Live(IdleCall) /\ ~IdleCall.current
    /\ FreshUi \in Uis
    /\ IdleCancel \in Cancels
  BY ConstantsAssumption
  DEF IdleCall, Calls, WellPhased, Live, Answers, Mounts, FreshUi, Uis, IdleCancel, Cancels

(* What the bounds of a setup say.                                           *)
LEMMA SetupTyped ==
    ASSUME WorldTyped
    PROVE  /\ MaxTasks \in Nat /\ MaxMounts \in Nat
           /\ setup.tasks \in 1 .. MaxTasks
           /\ setup.mounts \in 1 .. MaxMounts
           /\ setup.faults \in Nat
           /\ 0 \in 0 .. MaxTasks
           /\ TaskIds \subseteq 0 .. MaxTasks
           /\ \A x \in {Quiet, Waiting, Failed, Missing, Ok} : x \notin 0 .. MaxTasks
  <1>1. \A x \in {Quiet, Waiting, Failed, Missing, Ok} : x \notin Nat
    BY ConstantsAssumption
  <1>2. /\ MaxTasks \in Nat /\ MaxMounts \in Nat
        /\ setup.tasks \in 1 .. MaxTasks
        /\ setup.mounts \in 1 .. MaxMounts
        /\ setup.faults \in Nat
    BY ConstantsAssumption DEF WorldTyped
  <1> QED
    BY <1>1, <1>2 DEF TaskIds

(* A fault stays within the bound.                                           *)
LEMMA FaultTyped ==
    ASSUME WorldTyped, NEW request, Fault(request)
    PROVE  faults' \in 0 .. setup.faults
  BY SetupTyped DEF Fault, WorldTyped

(* The server's state after it has started a task.                           *)
LEMMA StartedTyped ==
    ASSUME WorldTyped, srv.last < setup.tasks, NEW b \in BOOLEAN
    PROVE  Started(b) \in Servers /\ srv.last + 1 \in TaskIds
  <1>1. srv.last \in 0 .. MaxTasks /\ srv.last + 1 \in TaskIds
    BY SetupTyped DEF WorldTyped, Servers, TaskIds
  <1>2. srv.apply \cup {srv.last + 1} \in SUBSET TaskIds
    BY <1>1 DEF WorldTyped, Servers
  <1>3. srv.last + 1 \in 0 .. MaxTasks
    BY <1>1, SetupTyped
  <1> QED
    BY <1>1, <1>2, <1>3 DEF Started, WorldTyped, Servers

(* A page after setCurrentTaskId and after a caller's finally.               *)
LEMMA UiTyped ==
    ASSUME NEW u \in Uis, NEW m, NEW id \in 0 .. MaxTasks, NEW s
    PROVE  /\ SetCurrent(m, u, id) \in Uis /\ SetCurrent(m, u, id).ctl = u.ctl
           /\ Return(s, u) \in Uis /\ Return(s, u).ctl = u.ctl
  BY DEF SetCurrent, Return, Uis

(***************************************************************************)
(* What the page does with its calls and its controller.                   *)
(***************************************************************************)
(* One call moves on, or ends, and no controller changes hands.              *)
LEMMA CallMoves ==
    ASSUME PageSound, NEW s \in Slots, NEW c \in Calls, WellPhased(c),
           Live(c) \/ c.current => /\ Live(calls[s]) \/ calls[s].current
                                   /\ c.mount = calls[s].mount,
           calls' = [calls EXCEPT ![s] = c],
           ui' \in [Mounts -> Uis],
           \A m \in Mounts : ui'[m].ctl = ui[m].ctl,
           stored' \in 0 .. MaxTasks
    PROVE  PageSound'
  <1>1. calls' \in [Slots -> Calls]
    BY DEF PageSound
  <1>2. ASSUME NEW t \in Slots
        PROVE  WellPhased(calls'[t]) /\ Holds(t, calls'[t], ui')
    <2>1. calls[t].mount \in Mounts
      BY <1>2 DEF PageSound, Calls
    <2> QED
      BY <1>2, <2>1 DEF PageSound, Holds
  <1> QED
    BY <1>1, <1>2 DEF PageSound, WellPhased, Holds, Live

(* Every run of a mount is superseded; a loop of the mount that stays live   *)
(* holds the controller and is not the one that is aborted.                  *)
LEMMA AbortSound ==
    ASSUME PageSound, NEW m \in Mounts, NEW ctl,
           NEW cs, cs = Abort(m, calls, ctl)
    PROVE  /\ cs \in [Slots -> Calls]
           /\ \A t \in Slots :
                /\ WellPhased(cs[t]) /\ cs[t].mount = calls[t].mount
                /\ Live(cs[t]) \/ cs[t].current =>
                      /\ Live(calls[t]) \/ calls[t].current
                      /\ calls[t].mount = m => t = ui[m].ctl /\ t # ctl
  <1>1. ASSUME NEW t \in Slots
        PROVE  /\ cs[t] \in Calls
               /\ WellPhased(cs[t]) /\ cs[t].mount = calls[t].mount
               /\ Live(cs[t]) \/ cs[t].current =>
                     /\ Live(calls[t]) \/ calls[t].current
                     /\ calls[t].mount = m => t = ui[m].ctl /\ t # ctl
    <2>1. calls[t] \in Calls /\ WellPhased(calls[t]) /\ Holds(t, calls[t], ui)
      BY <1>1 DEF PageSound
    <2>2. CASE calls[t].pc = "idle" \/ calls[t].mount # m
      <3>1. cs[t] = calls[t]
        BY <1>1, <2>2 DEF Abort
      <3>2. calls[t].pc = "idle" => ~Live(calls[t]) /\ ~calls[t].current
        BY <2>1 DEF Live, WellPhased
      <3> QED
        BY <2>1, <2>2, <3>1, <3>2
    <2>3. CASE calls[t].pc # "idle" /\ calls[t].mount = m
      <3>1. cs[t] = [calls[t] EXCEPT !.current = FALSE, !.aborted = @ \/ t = ctl]
        BY <1>1, <2>3 DEF Abort
      <3>2. /\ cs[t] \in Calls
            /\ ~cs[t].current
            /\ cs[t].aborted = (calls[t].aborted \/ t = ctl)
            /\ cs[t].pc = calls[t].pc /\ cs[t].mount = m /\ cs[t].ans = calls[t].ans
        BY <2>1, <2>3, <3>1 DEF Calls
      <3>3. WellPhased(cs[t])
        BY <2>1, <3>2 DEF WellPhased
      <3>4. Live(cs[t]) => Live(calls[t]) /\ t # ctl
        BY <3>2 DEF Live
      <3>5. Live(calls[t]) => ui[m].ctl = t
        BY <2>1, <2>3 DEF Holds
      <3> QED
        BY <2>3, <3>2, <3>3, <3>4, <3>5
    <2> QED
      BY <2>2, <2>3
  <1>2. cs \in [Slots -> Calls]
    <2>1. cs = [t \in Slots |-> cs[t]]
      BY DEF Abort
    <2> QED
      BY <1>1, <2>1
  <1> QED
    BY <1>1, <1>2

(* Dropping the controller together with an abort of the mount is safe.      *)
LEMMA AbortAll ==
    ASSUME PageSound, NEW m \in Mounts,
           calls' = Abort(m, calls, ui[m].ctl),
           ui' \in [Mounts -> Uis],
           \A n \in Mounts \ {m} : ui'[n] = ui[n],
           stored' \in 0 .. MaxTasks
    PROVE  PageSound'
  <1>1. /\ calls' \in [Slots -> Calls]
        /\ \A t \in Slots :
             /\ WellPhased(calls'[t]) /\ calls'[t].mount = calls[t].mount
             /\ Live(calls'[t]) \/ calls'[t].current =>
                   /\ Live(calls[t]) \/ calls[t].current
                   /\ calls[t].mount # m
    BY AbortSound
  <1>2. ASSUME NEW t \in Slots
        PROVE  Holds(t, calls'[t], ui')
    <2>1. calls[t].mount \in Mounts
      BY <1>2 DEF PageSound, Calls
    <2> QED
      BY <1>1, <1>2, <2>1 DEF PageSound, Holds
  <1> QED
    BY <1>1, <1>2 DEF PageSound, WellPhased, Holds, Live

(* A call that holds the controller ends and gives it back.                  *)
LEMMA ReleaseSound ==
    ASSUME PageSound, NEW s \in Slots,
           ui[calls[s].mount].ctl = s,
           calls' = [calls EXCEPT ![s] = IdleCall],
           ui' \in [Mounts -> Uis],
           \A n \in Mounts \ {calls[s].mount} : ui'[n] = ui[n],
           stored' \in 0 .. MaxTasks
    PROVE  PageSound'
  <1>1. calls' \in [Slots -> Calls]
    BY RecordsTyped DEF PageSound
  <1>2. ASSUME NEW t \in Slots
        PROVE  WellPhased(calls'[t]) /\ Holds(t, calls'[t], ui')
    <2>1. calls[t].mount \in Mounts
      BY <1>2 DEF PageSound, Calls
    <2>2. CASE t = s
      BY <2>2, RecordsTyped DEF PageSound, Holds
    <2>3. CASE t # s
      BY <1>2, <2>1, <2>3 DEF PageSound, Holds
    <2> QED
      BY <2>2, <2>3
  <1> QED
    BY <1>1, <1>2 DEF PageSound, WellPhased, Holds, Live

(* beginModelUpdateTaskRun: the new run holds the controller and is the only *)
(* live loop of its mount.                                                   *)
LEMMA BeginSound ==
    ASSUME PageSound, NEW s \in Slots, NEW call \in Calls, NEW u \in Uis,
           u.ctl = ui[call.mount].ctl, NEW id \in 0 .. MaxTasks, Begin(s, call, u, id)
    PROVE  PageSound'
  <1> DEFINE m == call.mount
             ctl == IF u.ctl = s THEN NoSlot ELSE u.ctl
             cs == Abort(m, calls, ctl)
             run == [call EXCEPT !.pc = "poll", !.task = id, !.current = TRUE, !.ans = Waiting]
  <1>1. m \in Mounts /\ (ctl = ui[m].ctl \/ ui[m].ctl = s)
    BY DEF Calls
  <1>2. /\ cs \in [Slots -> Calls]
        /\ \A t \in Slots :
             /\ WellPhased(cs[t]) /\ cs[t].mount = calls[t].mount
             /\ Live(cs[t]) \/ cs[t].current =>
                   /\ Live(calls[t]) \/ calls[t].current
                   /\ calls[t].mount = m => t = s
    BY <1>1, AbortSound
  <1>3. run \in Calls /\ run.mount = m /\ WellPhased(run)
    BY DEF Calls, Answers, WellPhased
  <1>4. calls' = [cs EXCEPT ![s] = run] /\ stored' = id
    BY DEF Begin
  <1>5. /\ ui' \in [Mounts -> Uis]
        /\ ui'[m].ctl = s
        /\ \A n \in Mounts \ {m} : ui'[n] = ui[n]
    <2> DEFINE v == [SetCurrent(m, u, id) EXCEPT !.ctl = s]
               w == IF id \in srv.apply THEN [v EXCEPT !.applyAll = TRUE]
                    ELSE [v EXCEPT !.detectAll = TRUE]
    <2>1. v \in Uis /\ v.ctl = s
      BY UiTyped DEF Uis
    <2>2. w \in Uis /\ w.ctl = s
      BY <2>1 DEF Uis
    <2>3. ui' = [ui EXCEPT ![m] = w]
      BY DEF Begin
    <2> HIDE DEF w
    <2> QED
      BY <1>1, <2>2, <2>3 DEF PageSound
  <1>6. calls' \in [Slots -> Calls]
    BY <1>2, <1>3, <1>4
  <1>7. ASSUME NEW t \in Slots
        PROVE  WellPhased(calls'[t]) /\ Holds(t, calls'[t], ui')
    <2>1. CASE t = s
      BY <1>2, <1>3, <1>4, <1>5, <2>1 DEF Holds
    <2>2. CASE t # s
      <3>1. calls'[t] = cs[t] /\ calls[t].mount \in Mounts /\ Holds(t, calls[t], ui)
        BY <1>4, <1>7, <2>2 DEF PageSound, Calls
      <3> HIDE DEF cs
      <3> QED
        BY <1>2, <1>5, <1>7, <2>2, <3>1 DEF Holds
    <2> QED
      BY <2>1, <2>2
  <1> QED
    BY <1>4, <1>5, <1>6, <1>7 DEF PageSound, WellPhased, Holds, Live

(* An untyped poll takes a free controller or yields.                        *)
LEMMA BeginUntypedSound ==
    ASSUME PageSound, NEW s \in Slots, NEW call \in Calls, ~call.current, NEW u \in Uis,
           u.ctl = ui[call.mount].ctl, NEW id \in 0 .. MaxTasks,
           BeginUntyped(s, call, u, id)
    PROVE  PageSound'
  <1> DEFINE m == call.mount
             c == [call EXCEPT !.pc = "resolve", !.task = id, !.ans = Waiting]
  <1>1. m \in Mounts /\ stored' = stored
    BY DEF Calls, BeginUntyped
  <1>2. CASE u.ctl # NoSlot
    <2>1. calls' = [calls EXCEPT ![s] = IdleCall] /\ ui' = [ui EXCEPT ![m] = u]
      BY <1>2 DEF BeginUntyped
    <2>2. ui' \in [Mounts -> Uis] /\ \A n \in Mounts : ui'[n].ctl = ui[n].ctl
      BY <1>1, <2>1 DEF PageSound
    <2> QED
      BY <1>1, <2>1, <2>2, RecordsTyped, CallMoves DEF PageSound
  <1>3. CASE u.ctl = NoSlot
    <2>1. calls' = [calls EXCEPT ![s] = c] /\ ui' = [ui EXCEPT ![m] = [u EXCEPT !.ctl = s]]
      BY <1>3 DEF BeginUntyped
    <2>2. [u EXCEPT !.ctl = s] \in Uis /\ [u EXCEPT !.ctl = s].ctl = s
      BY DEF Uis
    <2>3. /\ ui' \in [Mounts -> Uis]
          /\ ui'[m].ctl = s
          /\ \A n \in Mounts \ {m} : ui'[n] = ui[n]
      BY <1>1, <2>1, <2>2 DEF PageSound
    <2>4. c \in Calls /\ c.mount = m /\ WellPhased(c)
      BY DEF Calls, Answers, WellPhased
    <2>5. calls' \in [Slots -> Calls]
      BY <2>1, <2>4 DEF PageSound
    <2>6. ASSUME NEW t \in Slots
          PROVE  WellPhased(calls'[t]) /\ Holds(t, calls'[t], ui')
      <3>1. CASE t = s
        BY <2>1, <2>3, <2>4, <3>1 DEF PageSound, Holds
      <3>2. CASE t # s
        <4>1. /\ calls'[t] = calls[t] /\ calls[t].mount \in Mounts
              /\ WellPhased(calls[t]) /\ Holds(t, calls[t], ui)
              /\ t # NoSlot
          BY <2>1, <2>6, <3>2, ConstantsAssumption DEF PageSound, Calls
        <4> QED
          BY <1>3, <2>3, <2>6, <4>1 DEF Holds
      <3> QED
        BY <3>1, <3>2
    <2> QED
      BY <1>1, <2>3, <2>5, <2>6 DEF PageSound, WellPhased, Holds, Live
  <1> QED
    BY <1>2, <1>3

(* No call and no controller changes.                                        *)
LEMMA CallsKept ==
    ASSUME PageSound, calls' = calls, ui' \in [Mounts -> Uis],
           \A m \in Mounts : ui'[m].ctl = ui[m].ctl, stored' \in 0 .. MaxTasks
    PROVE  PageSound'
  <1>1. \A t \in Slots : calls[t].mount \in Mounts
    BY DEF PageSound, Calls
  <1> QED
    BY <1>1 DEF PageSound, WellPhased, Holds, Live

(* The rest of the state is left alone.                                      *)
LEMMA WorldKept ==
    ASSUME WorldTyped, UNCHANGED <<srv, mount, mounted, lookup, cancel, faults, setup>>
    PROVE  WorldTyped'
  BY DEF WorldTyped

(***************************************************************************)
(* The actions.                                                            *)
(***************************************************************************)
(* detectAllUpdates and applyAllUpdates start a call in an idle slot.        *)
LEMMA StartsTracked ==
    ASSUME Tracked, UNCHANGED setup, DetectAllUpdates \/ ApplyAllUpdates
    PROVE  Tracked'
  <1>1. PICK s \in Slots, c \in Calls :
            /\ calls' = [calls EXCEPT ![s] = c]
            /\ WellPhased(c) /\ ~Live(c) /\ ~c.current
    <2>1. ASSUME NEW s \in Slots
          PROVE  LET c == [IdleCall EXCEPT !.kind = "detect", !.pc = "current",
                                           !.mount = mount, !.task = stored]
                 IN  c \in Calls /\ WellPhased(c) /\ ~Live(c) /\ ~c.current
      BY RecordsTyped DEF Calls, IdleCall, WellPhased, Live, Tracked, PageSound, WorldTyped
    <2>2. ASSUME NEW s \in Slots
          PROVE  LET c == [IdleCall EXCEPT !.kind = "apply", !.pc = "start", !.mount = mount]
                 IN  c \in Calls /\ WellPhased(c) /\ ~Live(c) /\ ~c.current
      BY RecordsTyped DEF Calls, IdleCall, WellPhased, Live, Tracked, PageSound, WorldTyped
    <2> QED
      BY <2>1, <2>2 DEF DetectAllUpdates, ApplyAllUpdates, Idle
  <1>2. /\ ui' \in {[ui EXCEPT ![mount].detectAll = TRUE], [ui EXCEPT ![mount].applyAll = TRUE]}
        /\ stored' = stored
        /\ UNCHANGED <<srv, mount, mounted, lookup, cancel, faults>>
    BY DEF DetectAllUpdates, ApplyAllUpdates
  <1>3. ui' \in [Mounts -> Uis] /\ \A m \in Mounts : ui'[m].ctl = ui[m].ctl
    <2>1. mount \in Mounts /\ ui \in [Mounts -> Uis]
      BY DEF Tracked, PageSound, WorldTyped
    <2>2. CASE ui' = [ui EXCEPT ![mount].detectAll = TRUE]
      BY <2>1, <2>2 DEF Uis
    <2>3. CASE ui' = [ui EXCEPT ![mount].applyAll = TRUE]
      BY <2>1, <2>3 DEF Uis
    <2> QED
      BY <1>2, <2>2, <2>3
  <1> QED
    BY <1>1, <1>2, <1>3, CallMoves, WorldKept DEF Tracked, PageSound

(* detectAllUpdates with the answer of /current.                             *)
LEMMA CurrentTracked ==
    ASSUME Tracked, UNCHANGED setup, NEW s \in Slots, CurrentContinues(s)
    PROVE  Tracked'
  <1> DEFINE call == calls[s]
             m == call.mount
             u == ui[m]
  <1>1. /\ call \in Calls /\ m \in Mounts /\ u \in Uis
        /\ call.pc = "current" /\ ~call.current /\ ~Live(call)
        /\ call.task \in 0 .. MaxTasks
    <2>1. call \in Calls /\ WellPhased(call) /\ call.pc = "current"
      BY DEF CurrentContinues, Tracked, PageSound
    <2> QED
      BY <2>1 DEF Tracked, PageSound, Calls, WellPhased, Live
  <1>2. WorldTyped'
    BY WorldKept DEF CurrentContinues, Tracked
  <1>3. CASE call.ans = Failed
    <2>1. /\ ui' = IF Alive(m) THEN [ui EXCEPT ![m].detectAll = FALSE] ELSE ui
          /\ calls' = [calls EXCEPT ![s] = IdleCall]
          /\ UNCHANGED stored
      <3>1. call.ans \notin TaskIds /\ call.ans # 0
        BY <1>3, SetupTyped DEF Tracked
      <3> QED
        BY <1>3, <3>1 DEF CurrentContinues
    <2>2. ui' \in [Mounts -> Uis] /\ \A n \in Mounts : ui'[n].ctl = ui[n].ctl
      BY <1>1, <2>1 DEF Tracked, PageSound, Uis
    <2> QED
      BY <1>2, <2>1, <2>2, RecordsTyped, CallMoves DEF Tracked, PageSound
  <1>4. CASE call.ans \in TaskIds
    <2>1. call.ans # Failed /\ call.ans \in 0 .. MaxTasks
      BY <1>4, SetupTyped DEF Tracked
    <2>2. Begin(s, call, u, call.ans)
      BY <1>4, <2>1 DEF CurrentContinues, TaskIds
    <2> QED
      BY <1>1, <1>2, <2>1, <2>2, BeginSound DEF Tracked
  <1>5. CASE call.ans # Failed /\ call.ans \notin TaskIds /\ call.ans = 0 /\ call.task # 0
    <2>1. BeginUntyped(s, call, u, call.task)
      BY <1>5 DEF CurrentContinues
    <2> QED
      BY <1>1, <1>2, <2>1, BeginUntypedSound DEF Tracked
  <1>6. CASE call.ans # Failed /\ call.ans \notin TaskIds /\ ~(call.ans = 0 /\ call.task # 0)
    <2>1. /\ ui' = [ui EXCEPT ![m] = SetCurrent(m, u, 0)]
          /\ calls' = [calls EXCEPT ![s].pc = "start", ![s].ans = Waiting]
          /\ UNCHANGED stored
      BY <1>6 DEF CurrentContinues
    <2> DEFINE c == [call EXCEPT !.pc = "start", !.ans = Waiting]
    <2>2. calls' = [calls EXCEPT ![s] = c]
      BY <1>1, <2>1 DEF Calls, Tracked, PageSound
    <2>3. c \in Calls /\ WellPhased(c) /\ ~Live(c) /\ ~c.current
      BY <1>1 DEF Calls, Answers, WellPhased, Live
    <2>4. ui' \in [Mounts -> Uis] /\ \A n \in Mounts : ui'[n].ctl = ui[n].ctl
      BY <1>1, <2>1, UiTyped, SetupTyped DEF Tracked, PageSound
    <2> HIDE DEF c
    <2> QED
      BY <1>2, <2>1, <2>2, <2>3, <2>4, CallMoves DEF Tracked, PageSound
  <1> QED
    BY <1>3, <1>4, <1>5, <1>6

(* detectAllUpdates and applyAllUpdates with the answer of the POST.         *)
LEMMA StartTracked ==
    ASSUME Tracked, UNCHANGED setup, NEW s \in Slots, StartContinues(s)
    PROVE  Tracked'
  <1> DEFINE call == calls[s]
             m == call.mount
             u == ui[m]
  <1>1. /\ call \in Calls /\ m \in Mounts /\ u \in Uis
        /\ call.ans \in 0 .. MaxTasks \cup {Failed}
    <2>1. call \in Calls /\ WellPhased(call) /\ call.pc = "start" /\ call.ans # Waiting
      BY DEF StartContinues, Tracked, PageSound
    <2> QED
      BY <2>1 DEF Tracked, PageSound, Calls, WellPhased
  <1>2. WorldTyped'
    BY WorldKept DEF StartContinues, Tracked
  <1>3. CASE call.ans = Failed
    <2> DEFINE v == IF call.kind = "apply" THEN [u EXCEPT !.applyAll = FALSE]
                    ELSE IF Alive(m) THEN [u EXCEPT !.detectAll = FALSE] ELSE u
    <2>1. /\ ui' = [ui EXCEPT ![m] = v]
          /\ calls' = [calls EXCEPT ![s] = IdleCall]
          /\ UNCHANGED stored
      BY <1>3 DEF StartContinues
    <2>2. v \in Uis /\ v.ctl = u.ctl
      BY <1>1 DEF Uis
    <2> HIDE DEF v
    <2>3. ui' \in [Mounts -> Uis] /\ \A n \in Mounts : ui'[n].ctl = ui[n].ctl
      BY <1>1, <2>1, <2>2 DEF Tracked, PageSound
    <2> QED
      BY <1>2, <2>1, <2>3, RecordsTyped, CallMoves DEF Tracked, PageSound
  <1>4. CASE call.ans # Failed
    <2>1. Begin(s, call, u, call.ans)
      BY <1>4 DEF StartContinues
    <2> QED
      BY <1>1, <1>2, <1>4, <2>1, BeginSound DEF Tracked
  <1> QED
    BY <1>3, <1>4

(* The type of a stored task is known, or cannot be had.                     *)
LEMMA ResolveTracked ==
    ASSUME Tracked, UNCHANGED setup, NEW s \in Slots, Resolved(s) \/ ResolveFails(s)
    PROVE  Tracked'
  <1> DEFINE call == calls[s]
  <1>1. /\ call \in Calls /\ call.mount \in Mounts /\ ui[call.mount] \in Uis
        /\ call.task \in 0 .. MaxTasks
        /\ call.pc = "resolve" /\ ~call.current
    <2>1. call \in Calls /\ WellPhased(call) /\ call.pc = "resolve"
      BY DEF Resolved, ResolveFails, Tracked, PageSound
    <2> QED
      BY <2>1 DEF Tracked, PageSound, Calls, WellPhased
  <1>2. CASE Resolved(s)
    BY <1>1, <1>2, BeginSound, WorldKept DEF Resolved, Tracked
  <1>3. CASE ResolveFails(s)
    <2> DEFINE c == [call EXCEPT !.pc = "unresolved",
                                 !.clear = call.task \in srv.gone /\ Alive(call.mount)]
    <2>1. /\ calls' = [calls EXCEPT ![s] = c]
          /\ UNCHANGED <<srv, stored, mount, mounted, ui, lookup, cancel>>
      BY <1>1, <1>3 DEF ResolveFails, Calls, Tracked, PageSound
    <2>2. c \in Calls /\ WellPhased(c) /\ ~Live(c) /\ ~c.current
      BY <1>1 DEF Calls, WellPhased, Live
    <2>3. faults' \in 0 .. setup.faults
      BY <1>3, FaultTyped DEF ResolveFails, Tracked, WorldTyped
    <2> HIDE DEF c
    <2>4. PageSound'
      BY <2>1, <2>2, CallMoves DEF Tracked, PageSound
    <2> QED
      BY <2>1, <2>3, <2>4 DEF Tracked, WorldTyped
  <1> QED
    BY <1>2, <1>3

(* The end of a poll that never became a run.                                *)
LEMMA UnresolvedTracked ==
    ASSUME Tracked, UNCHANGED setup, NEW s \in Slots, UnresolvedEnds(s)
    PROVE  Tracked'
  <1> DEFINE call == calls[s]
             m == call.mount
             u == ui[m]
             forget == call.clear /\ stored = call.task
             v == IF forget /\ u.current = call.task THEN SetCurrent(m, u, 0) ELSE u
  <1>1. call \in Calls /\ m \in Mounts /\ u \in Uis
    BY DEF Tracked, PageSound, Calls
  <1>2. WorldTyped' /\ calls' = [calls EXCEPT ![s] = IdleCall]
    BY WorldKept DEF UnresolvedEnds, Tracked
  <1>3. CASE u.ctl = s
    <2>1. /\ stored' \in {0, stored}
          /\ ui' = [ui EXCEPT ![m] = [v EXCEPT !.ctl = NoSlot]]
      BY <1>3 DEF UnresolvedEnds
    <2>2. v \in Uis
      BY <1>1, UiTyped, SetupTyped DEF Tracked
    <2>3. [v EXCEPT !.ctl = NoSlot] \in Uis
      BY <2>2 DEF Uis
    <2> HIDE DEF v
    <2>4. /\ ui' \in [Mounts -> Uis]
          /\ \A n \in Mounts \ {m} : ui'[n] = ui[n]
          /\ stored' \in 0 .. MaxTasks
      BY <1>1, <2>1, <2>3, SetupTyped DEF Tracked, PageSound
    <2> QED
      BY <1>2, <1>3, <2>4, ReleaseSound DEF Tracked
  <1>4. CASE u.ctl # s
    <2>1. UNCHANGED <<stored, ui>>
      BY <1>4 DEF UnresolvedEnds
    <2> QED
      BY <1>2, <2>1, RecordsTyped, CallMoves DEF Tracked, PageSound
  <1> QED
    BY <1>3, <1>4

(* A caller whose poll is over ends its call; the controller stays put.      *)
LEMMA CallerReturns ==
    ASSUME Tracked, NEW s \in Slots,
           calls' = [calls EXCEPT ![s] = IdleCall],
           ui' = [ui EXCEPT ![calls[s].mount] = Return(s, @)],
           stored' = stored
    PROVE  PageSound'
  <1>1. calls[s].mount \in Mounts /\ ui[calls[s].mount] \in Uis
    BY DEF Tracked, PageSound, Calls
  <1>2. ui' \in [Mounts -> Uis] /\ \A n \in Mounts : ui'[n].ctl = ui[n].ctl
    BY <1>1, UiTyped, SetupTyped DEF Tracked, PageSound
  <1> QED
    BY <1>2, RecordsTyped, CallMoves DEF Tracked, PageSound

(* waitForModelUpdateTask is over.                                           *)
LEMMA PollTracked ==
    ASSUME Tracked, UNCHANGED setup, NEW s \in Slots, PollReturns(s) \/ PollFails(s)
    PROVE  Tracked'
  <1> DEFINE call == calls[s]
  <1>1. PICK clear \in BOOLEAN : PollEnds(s, clear)
    BY DEF PollReturns, PollFails
  <1>2. faults' \in 0 .. setup.faults
    BY FaultTyped DEF PollReturns, PollFails, Tracked, WorldTyped
  <1>3. WorldTyped' /\ stored' = stored
    BY <1>1, <1>2 DEF PollEnds, Tracked, WorldTyped
  <1>4. CASE call.current /\ Alive(call.mount)
    <2> DEFINE c == [call EXCEPT !.pc = "report", !.clear = clear]
    <2>1. call \in Calls /\ WellPhased(call)
      BY DEF Tracked, PageSound
    <2>2. calls' = [calls EXCEPT ![s] = c] /\ ui' = ui
      BY <1>1, <1>4, <2>1 DEF PollEnds, Tracked, PageSound, Calls
    <2>3. c \in Calls /\ WellPhased(c) /\ ~Live(c) /\ c.mount = call.mount
      BY <2>1 DEF Calls, WellPhased, Live
    <2> HIDE DEF c
    <2> QED
      BY <1>3, <1>4, <2>2, <2>3, CallMoves DEF Tracked, PageSound
  <1>5. CASE ~(call.current /\ Alive(call.mount))
    <2>1. /\ calls' = [calls EXCEPT ![s] = IdleCall]
          /\ ui' = [ui EXCEPT ![call.mount] = Return(s, @)]
      BY <1>1, <1>5 DEF PollEnds
    <2> QED
      BY <1>3, <2>1, CallerReturns DEF Tracked
  <1> QED
    BY <1>4, <1>5

(* An aborted call ends.                                                     *)
LEMMA AbortedTracked ==
    ASSUME Tracked, UNCHANGED setup, NEW s \in Slots, AbortedReturns(s)
    PROVE  Tracked'
  BY CallerReturns, WorldKept DEF AbortedReturns, Tracked

(* finishModelUpdateTaskRun: only a current run gives the controller back.   *)
LEMMA ReportTracked ==
    ASSUME Tracked, UNCHANGED setup, NEW s \in Slots, ReportEnds(s)
    PROVE  Tracked'
  <1> DEFINE call == calls[s]
             m == call.mount
             u == Return(s, ui[m])
  <1>1. /\ call \in Calls /\ m \in Mounts /\ u \in Uis /\ u.ctl = ui[m].ctl
        /\ Holds(s, call, ui)
    <2>1. call \in Calls /\ m \in Mounts /\ ui[m] \in Uis /\ Holds(s, call, ui)
      BY DEF Tracked, PageSound, Calls
    <2> QED
      BY <2>1, UiTyped, SetupTyped DEF Tracked
  <1>2. WorldTyped' /\ calls' = [calls EXCEPT ![s] = IdleCall]
    BY WorldKept DEF ReportEnds, Tracked
  <1>3. CASE call.current /\ Alive(m)
    <2> DEFINE v == [u EXCEPT !.ctl = NoSlot, !.detectAll = FALSE, !.applyAll = FALSE,
                              !.current = IF call.clear THEN 0 ELSE @]
    <2>1. stored' \in {0, stored} /\ ui' = [ui EXCEPT ![m] = v]
      BY <1>3 DEF ReportEnds
    <2>2. v \in Uis
      BY <1>1, SetupTyped DEF Tracked, Uis
    <2> HIDE DEF v
    <2>3. /\ ui' \in [Mounts -> Uis]
          /\ \A n \in Mounts \ {m} : ui'[n] = ui[n]
          /\ stored' \in 0 .. MaxTasks
      BY <1>1, <2>1, <2>2, SetupTyped DEF Tracked, PageSound
    <2>4. ui[m].ctl = s
      BY <1>1, <1>3 DEF Holds
    <2> QED
      BY <1>2, <2>3, <2>4, ReleaseSound DEF Tracked
  <1>4. CASE ~(call.current /\ Alive(m))
    <2>1. ui' = [ui EXCEPT ![m] = Return(s, @)] /\ stored' = stored
      BY <1>4 DEF ReportEnds
    <2> QED
      BY <1>2, <2>1, CallerReturns DEF Tracked
  <1> QED
    BY <1>3, <1>4

(* lookupCurrentTask with its answer: a pass that follows nothing starts a   *)
(* recovery.                                                                 *)
LEMMA LookupTracked ==
    ASSUME Tracked, UNCHANGED setup, LookupContinues
    PROVE  Tracked'
  <1> DEFINE u == [ui[mount] EXCEPT !.lookedUp = TRUE]
             free == ~u.detectAll /\ u.ctl = NoSlot
             resume == ~ui[mount].lookedUp
             untyped == lookup \notin TaskIds /\ stored # 0 /\ free /\ (lookup = 0 \/ resume)
  <1>1. mount \in Mounts /\ u \in Uis /\ u.ctl = ui[mount].ctl
    BY DEF Tracked, PageSound, WorldTyped, Uis
  <1>2. WorldTyped'
    BY DEF LookupContinues, Tracked, WorldTyped
  <1>3. RecoveryCall \in Calls /\ RecoveryCall.mount = mount /\ ~RecoveryCall.current
    BY <1>1, RecordsTyped DEF RecoveryCall, IdleCall, Calls
  <1>4. lookup \in TaskIds => lookup \in 0 .. MaxTasks
    BY SetupTyped DEF Tracked
  <1>5. PICK s \in Slots :
            CASE lookup \in TaskIds /\ free ->
                    s \in Idle /\ Begin(s, RecoveryCall, u, lookup)
              [] lookup \in TaskIds /\ ~free ->
                    /\ ui' = [ui EXCEPT ![mount] = [u EXCEPT !.current = lookup]]
                    /\ stored' = IF stored # lookup THEN 0 ELSE stored
                    /\ UNCHANGED calls
              [] untyped ->
                    s \in Idle /\ BeginUntyped(s, RecoveryCall, u, stored)
              [] OTHER ->
                    /\ ui' = [ui EXCEPT ![mount] =
                                IF stored = 0 THEN [u EXCEPT !.current = 0] ELSE u]
                    /\ UNCHANGED <<stored, calls>>
    BY DEF LookupContinues
  <1>6. CASE lookup \in TaskIds /\ free
    <2>1. Begin(s, RecoveryCall, u, lookup)
      BY <1>5, <1>6
    <2> QED
      BY <1>1, <1>2, <1>3, <1>4, <1>6, <2>1, BeginSound DEF Tracked
  <1>7. CASE lookup \in TaskIds /\ ~free
    <2>1. /\ ui' = [ui EXCEPT ![mount] = [u EXCEPT !.current = lookup]]
          /\ stored' \in {0, stored} /\ calls' = calls
      BY <1>5, <1>7
    <2>2. [u EXCEPT !.current = lookup] \in Uis /\ [u EXCEPT !.current = lookup].ctl = u.ctl
      BY <1>1, <1>4, <1>7 DEF Uis
    <2>3. /\ ui' \in [Mounts -> Uis] /\ \A n \in Mounts : ui'[n].ctl = ui[n].ctl
          /\ stored' \in 0 .. MaxTasks
      BY <1>1, <2>1, <2>2, SetupTyped DEF Tracked, PageSound
    <2> QED
      BY <1>2, <2>1, <2>3, CallsKept DEF Tracked
  <1>8. CASE untyped
    <2>1. BeginUntyped(s, RecoveryCall, u, stored)
      BY <1>5, <1>8
    <2> QED
      BY <1>1, <1>2, <1>3, <2>1, BeginUntypedSound DEF Tracked, PageSound
  <1>9. CASE lookup \notin TaskIds /\ ~untyped
    <2> DEFINE v == IF stored = 0 THEN [u EXCEPT !.current = 0] ELSE u
    <2>1. ui' = [ui EXCEPT ![mount] = v] /\ stored' = stored /\ calls' = calls
      BY <1>5, <1>9
    <2>2. v \in Uis /\ v.ctl = u.ctl
      BY <1>1, SetupTyped DEF Uis, Tracked
    <2> HIDE DEF v
    <2>3. ui' \in [Mounts -> Uis] /\ \A n \in Mounts : ui'[n].ctl = ui[n].ctl
      BY <1>1, <2>1, <2>2 DEF Tracked, PageSound
    <2> QED
      BY <1>2, <2>1, <2>3, CallsKept DEF Tracked, PageSound
  <1> QED
    BY <1>6, <1>7, <1>8, <1>9

(* cancelModelUpdateTask with its answer.                                    *)
LEMMA CancelTracked ==
    ASSUME Tracked, UNCHANGED setup, NEW m \in Mounts, CancelContinues(m)
    PROVE  Tracked'
  <1> DEFINE c == cancel[m]
             drop == c.ans = Ok \/ (c.ans = Missing /\ stored \in {0, c.task})
  <1>1. WorldTyped'
    BY DEF CancelContinues, Tracked, WorldTyped, Cancels
  <1>2. CASE drop
    <2> DEFINE v == [SetCurrent(m, ui[m], 0) EXCEPT
                        !.ctl = NoSlot, !.detectAll = FALSE, !.applyAll = FALSE]
    <2>1. /\ calls' = Abort(m, calls, ui[m].ctl)
          /\ stored' = 0
          /\ ui' = [ui EXCEPT ![m] = v]
      BY <1>2 DEF CancelContinues
    <2>2. v \in Uis
      <3>1. SetCurrent(m, ui[m], 0) \in Uis
        BY UiTyped, SetupTyped DEF Tracked, PageSound
      <3> QED
        BY <3>1 DEF Uis
    <2> HIDE DEF v
    <2>3. ui' \in [Mounts -> Uis] /\ \A n \in Mounts \ {m} : ui'[n] = ui[n]
      BY <2>1, <2>2 DEF Tracked, PageSound
    <2> QED
      BY <1>1, <2>1, <2>3, AbortAll, SetupTyped DEF Tracked
  <1>3. CASE ~drop
    <2>1. UNCHANGED <<calls, stored, ui>>
      BY <1>3 DEF CancelContinues
    <2> QED
      BY <1>1, <2>1, CallsKept DEF Tracked, PageSound
  <1> QED
    BY <1>2, <1>3

(* Leaving the page aborts its loop.                                         *)
LEMMA LeaveTracked ==
    ASSUME Tracked, UNCHANGED setup, Leave
    PROVE  Tracked'
  <1>1. mount \in Mounts /\ WorldTyped'
    BY DEF Leave, Tracked, WorldTyped
  <1>2. ui' \in [Mounts -> Uis] /\ \A n \in Mounts \ {mount} : ui'[n] = ui[n]
    BY <1>1, RecordsTyped DEF Leave, Tracked, PageSound
  <1> QED
    BY <1>1, <1>2, AbortAll DEF Leave, Tracked, PageSound

(* The server answers a request of a call.                                   *)
LEMMA ServeCallTracked ==
    ASSUME Tracked, UNCHANGED setup, NEW s \in Slots,
           ServeCurrent(s) \/ ServeStart(s) \/ RequestFails(s)
    PROVE  Tracked'
  <1> DEFINE call == calls[s]
  <1>1. /\ call \in Calls /\ WellPhased(call)
        /\ call.pc \in {"current", "start"} /\ ~call.current /\ ~Live(call)
    <2>1. call \in Calls /\ WellPhased(call) /\ call.pc \in {"current", "start"}
      BY DEF ServeCurrent, ServeStart, RequestFails, Tracked, PageSound
    <2> QED
      BY <2>1 DEF WellPhased, Live
  <1>2. PICK a \in 0 .. MaxTasks \cup {Failed} : calls' = [calls EXCEPT ![s].ans = a]
    <2>1. srv.active \in 0 .. MaxTasks
      BY DEF Tracked, WorldTyped, Servers
    <2>2. srv.last < setup.tasks => srv.last + 1 \in 0 .. MaxTasks
      BY StartedTyped, SetupTyped DEF Tracked
    <2> QED
      BY <2>1, <2>2 DEF ServeCurrent, ServeStart, RequestFails
  <1> DEFINE c == [call EXCEPT !.ans = a]
  <1>3. calls' = [calls EXCEPT ![s] = c]
    BY <1>1, <1>2 DEF Calls, Tracked, PageSound
  <1>4. c \in Calls /\ WellPhased(c) /\ ~Live(c) /\ ~c.current
    BY <1>1 DEF Calls, Answers, WellPhased, Live
  <1>5. UNCHANGED <<stored, mount, mounted, ui, lookup, cancel>>
    BY DEF ServeCurrent, ServeStart, RequestFails
  <1>6. srv' \in Servers
    <2>1. (call.kind = "apply") \in BOOLEAN
      OBVIOUS
    <2> QED
      BY <2>1, StartedTyped DEF ServeCurrent, ServeStart, RequestFails, Tracked, WorldTyped
  <1>7. faults' \in 0 .. setup.faults
    BY FaultTyped DEF ServeCurrent, ServeStart, RequestFails, Tracked, WorldTyped
  <1> HIDE DEF c
  <1>8. PageSound'
    BY <1>3, <1>4, <1>5, CallMoves DEF Tracked, PageSound
  <1> QED
    BY <1>5, <1>6, <1>7, <1>8 DEF Tracked, WorldTyped

(* Steps that touch neither the page's calls nor its refs.                   *)
LEMMA ElsewhereTracked ==
    ASSUME Tracked, UNCHANGED setup,
           \/ CancelModelUpdateTask \/ Reopen \/ TaskAppears \/ TaskEnds \/ TaskPruned
           \/ LookupCurrentTask \/ ServeLookup \/ LookupFails
           \/ \E m \in Mounts : CancelEnds(m) \/ ServeCancel(m) \/ CancelFails(m)
    PROVE  Tracked'
  <1>1. UNCHANGED <<stored, ui, calls>>
    BY DEF CancelModelUpdateTask, Reopen, TaskAppears, TaskEnds, TaskPruned,
        LookupCurrentTask, ServeLookup, LookupFails, CancelEnds, ServeCancel, CancelFails
  <1>2. PageSound'
    BY <1>1, CallsKept DEF Tracked, PageSound
  <1>3. WorldTyped'
    <2>1. CASE CancelModelUpdateTask
      <3>1. ui[mount].current \in 0 .. MaxTasks
        BY DEF Tracked, PageSound, WorldTyped, Uis
      <3> QED
        BY <2>1, <3>1 DEF CancelModelUpdateTask, Tracked, WorldTyped, Cancels, Answers
    <2>2. CASE Reopen
      BY <2>2, SetupTyped DEF Reopen, Tracked, WorldTyped, Mounts
    <2>3. CASE TaskAppears
      <3>1. FALSE \in BOOLEAN
        OBVIOUS
      <3> QED
        BY <2>3, <3>1, StartedTyped DEF TaskAppears, Tracked, WorldTyped
    <2>4. CASE TaskEnds
      BY <2>4, SetupTyped DEF TaskEnds, Tracked, WorldTyped, Servers
    <2>5. CASE TaskPruned
      <3>1. PICK id \in 1 .. srv.last : srv' = [srv EXCEPT !.gone = @ \cup {id}]
        BY <2>5 DEF TaskPruned
      <3>2. id \in TaskIds
        BY <3>1, SetupTyped DEF Tracked, WorldTyped, Servers, TaskIds
      <3> QED
        BY <2>5, <3>1, <3>2 DEF TaskPruned, Tracked, WorldTyped, Servers
    <2>6. CASE LookupCurrentTask \/ ServeLookup
      BY <2>6 DEF LookupCurrentTask, ServeLookup, Tracked, WorldTyped, Answers, Servers
    <2>7. CASE LookupFails
      BY <2>7, FaultTyped DEF LookupFails, Tracked, WorldTyped, Answers
    <2>8. ASSUME NEW m \in Mounts, CancelEnds(m)
          PROVE  WorldTyped'
      BY <2>8, RecordsTyped DEF CancelEnds, Tracked, WorldTyped
    <2>9. ASSUME NEW m \in Mounts, ServeCancel(m) \/ CancelFails(m)
          PROVE  WorldTyped'
      <3>1. /\ srv' \in {srv, [srv EXCEPT !.active = 0]}
            /\ \E a \in {Missing, Ok, Failed} : cancel' = [cancel EXCEPT ![m].ans = a]
            /\ UNCHANGED <<mount, mounted, lookup>>
        BY <2>9 DEF ServeCancel, CancelFails
      <3>2. srv' \in Servers
        BY <3>1, SetupTyped DEF Tracked, WorldTyped, Servers
      <3>3. cancel' \in [Mounts -> Cancels]
        BY <2>9, <3>1 DEF Tracked, WorldTyped, Cancels, Answers
      <3>4. faults' \in 0 .. setup.faults
        BY <2>9, FaultTyped DEF ServeCancel, CancelFails, Tracked, WorldTyped
      <3> QED
        BY <3>1, <3>2, <3>3, <3>4 DEF Tracked, WorldTyped
    <2> QED
      BY <2>1, <2>2, <2>3, <2>4, <2>5, <2>6, <2>7, <2>8, <2>9
  <1> QED
    BY <1>2, <1>3 DEF Tracked

(***************************************************************************)
(* The theorems.                                                           *)
(***************************************************************************)
(* Every reachable state satisfies the inductive invariant.                  *)
THEOREM TasksTracked == Spec => []Tracked
  <1>1. Init => Tracked
    <2> SUFFICES ASSUME Init
                 PROVE  Tracked
      OBVIOUS
    <2>1. WorldTyped
      BY RecordsTyped, ConstantsAssumption
      DEF Init, WorldTyped, Servers, Mounts, TaskIds
    <2>2. PageSound
      BY RecordsTyped, ConstantsAssumption DEF Init, PageSound, Holds
    <2> QED
      BY <2>1, <2>2 DEF Tracked
  <1>2. Tracked /\ [Next]_vars => Tracked'
    <2> SUFFICES ASSUME Tracked, [Next]_vars
                 PROVE  Tracked'
      OBVIOUS
    <2>1. ASSUME UNCHANGED setup, NEW s \in Slots, CallStep(s)
          PROVE  Tracked'
      BY <2>1, CurrentTracked, StartTracked, ResolveTracked, UnresolvedTracked, PollTracked,
         AbortedTracked, ReportTracked, ServeCallTracked DEF CallStep
    <2>2. ASSUME UNCHANGED setup, NEW m \in Mounts, CancelStep(m)
          PROVE  Tracked'
      BY <2>2, CancelTracked, ElsewhereTracked DEF CancelStep
    <2>3. ASSUME UNCHANGED setup, LookupStep \/ User \/ Server
          PROVE  Tracked'
      BY <2>3, LookupTracked, StartsTracked, LeaveTracked, ElsewhereTracked
      DEF LookupStep, User, Server
    <2>4. ASSUME UNCHANGED setup, Faults
          PROVE  Tracked'
      BY <2>4, ElsewhereTracked, ServeCallTracked, ResolveTracked, PollTracked DEF Faults
    <2>5. CASE UNCHANGED vars
      <3>1. PageSound'
        BY <2>5, CallsKept DEF vars, state, Tracked, PageSound
      <3> QED
        BY <2>5, <3>1, WorldKept DEF vars, state, Tracked
    <2> QED
      BY <2>1, <2>2, <2>3, <2>4, <2>5 DEF Next
  <1> QED
    BY <1>1, <1>2, PTL DEF Spec

(* A page life never has two live poll loops, for any number of calls in     *)
(* flight, tasks and mounts, whichever starts, discovery passes, cancels,    *)
(* leaves and failures interleave.                                           *)
THEOREM TasksOneLiveLoop == Spec => []OneLiveLoop
  <1>1. Tracked => OneLiveLoop
    <2> SUFFICES ASSUME Tracked
                 PROVE  OneLiveLoop
      OBVIOUS
    <2>1. TypeOK
      BY DEF Tracked, PageSound, WorldTyped, TypeOK
    <2>2. ASSUME NEW m \in Mounts
          PROVE  Cardinality({s \in Slots : /\ calls[s].mount = m
                                            /\ calls[s].pc \in {"resolve", "poll"}
                                            /\ ~calls[s].aborted}) <= 1
      <3> DEFINE L == {s \in Slots : /\ calls[s].mount = m
                                     /\ calls[s].pc \in {"resolve", "poll"}
                                     /\ ~calls[s].aborted}
      <3>1. \A s \in L : s = ui[m].ctl
        BY DEF Tracked, PageSound, Holds, Live
      <3>2. L = {} \/ L = {ui[m].ctl}
        BY <3>1
      <3>3. Cardinality(L) \in {0, 1}
        BY <3>2, FS_EmptySet, FS_Singleton
      <3> QED
        BY <3>3
    <2> QED
      BY <2>1, <2>2 DEF OneLiveLoop
  <1> QED
    BY <1>1, TasksTracked, PTL

============================================================================
