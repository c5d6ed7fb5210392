--------------------------- MODULE UpstreamTasks ---------------------------
(***************************************************************************)
(* The channel page's handling of upstream model-update tasks              *)
(* (web/src/features/channels/hooks/use-channel-upstream-updates.ts): the  *)
(* page starts a detect-all or an apply-all task on the server, follows it *)
(* with a poll loop, finds tasks it did not start with a discovery timer,  *)
(* keeps the id of the followed task in sessionStorage so that the page    *)
(* can be left and opened again, and can cancel a task.                    *)
(*                                                                         *)
(* The server runs one model-update task at a time (SystemTasks); here it  *)
(* is only its current task and the finished ones.  A request for the      *)
(* current task, a start and a cancel are answered in one step and         *)
(* continued on the page in a later one, so what the page acts on may be   *)
(* stale.  A poll only reports a terminal status, which is stable, so it   *)
(* is answered and continued in one step.                                  *)
(*                                                                         *)
(* A mount is one life of the page.  The refs of an unmounted page live on *)
(* in the closures of the calls it left behind, so they are kept per       *)
(* mount.  Slots bounds the calls in flight.  The generation counter is    *)
(* only compared for equality with the one a run was given: a run carries  *)
(* the outcome of that comparison in its field current.                    *)
(***************************************************************************)
EXTENDS Naturals, FiniteSets

CONSTANTS
    Slots,      \* identities of the asynchronous calls in flight
    NoSlot,
    Quiet,      \* no discovery request
    Waiting,    \* a request with no answer yet
    Failed,     \* answers: an error, a 404, a success
    Missing,
    Ok,
    MaxTasks,   \* bound on the tasks the server ever creates
    MaxMounts,  \* bound on the lives of the page
    Setups      \* users, servers and networks the run looks at

AllActs == {"detect", "apply", "cancel", "leave", "prune"}
Requests == {"lookup", "current", "start", "resolve", "poll", "cancel"}

\* acts: the optional acts of the user and of the history cleanup.  faulty: the requests that
\* may fail, at most faults times.  tasks, mounts: bounds on tasks and lives of the page.
ASSUME ConstantsAssumption ==
    /\ NoSlot \notin Slots
    /\ {Quiet, Waiting, Failed, Missing, Ok} \cap Nat = {}
    /\ MaxTasks \in Nat
    /\ MaxMounts \in Nat \ {0}
    /\ \A u \in Setups :
         /\ u.acts \subseteq AllActs
         /\ u.faulty \subseteq Requests
         /\ u.tasks \in 1 .. MaxTasks
         /\ u.mounts \in 1 .. MaxMounts
         /\ u.faults \in Nat

VARIABLES
    srv,     \* the server's tasks
    stored,  \* the task id in sessionStorage, 0 when there is none
    mount,   \* the current (or last) life of the page
    mounted, \* mountedRef of that life
    ui,      \* per mount: the refs and the state the hook keeps
    calls,   \* per slot: a detect-all, apply-all or recovery call
    lookup,  \* the discovery request of the current mount
    cancel,  \* per mount: the cancel request
    faults,
    setup    \* never changes

\* What the actions change.
state == <<srv, stored, mount, mounted, ui, calls, lookup, cancel, faults>>

vars == <<state, setup>>

TaskIds == 1 .. MaxTasks
Mounts == 1 .. MaxMounts

Answers == 0 .. MaxTasks \cup {Waiting, Failed, Missing, Ok}

Servers == [active : 0 .. MaxTasks, last : 0 .. MaxTasks,
            apply : SUBSET TaskIds, gone : SUBSET TaskIds]

\* ctl is the slot whose AbortController the ref holds.
Uis == [detectAll : BOOLEAN, applyAll : BOOLEAN, current : 0 .. MaxTasks,
        ctl : Slots \cup {NoSlot}, lookedUp : BOOLEAN]

Calls == [kind : {"idle", "detect", "apply", "recover"},
          pc : {"idle", "current", "start", "resolve", "poll", "report", "unresolved"},
          mount : Mounts, task : 0 .. MaxTasks, ans : Answers,
          current : BOOLEAN, aborted : BOOLEAN, clear : BOOLEAN]

Cancels == [pc : {"idle", "sent", "report"}, task : 0 .. MaxTasks, ans : Answers]

(***************************************************************************)
(* The type invariant.                                                     *)
(***************************************************************************)
TypeOK ==
    /\ srv \in Servers
    /\ stored \in 0 .. MaxTasks
    /\ mount \in Mounts
    /\ mounted \in BOOLEAN
    /\ ui \in [Mounts -> Uis]
    /\ calls \in [Slots -> Calls]
    /\ lookup \in {Quiet} \cup Answers
    /\ cancel \in [Mounts -> Cancels]
    /\ faults \in 0 .. setup.faults
    /\ setup \in Setups

IdleCall == [kind |-> "idle", pc |-> "idle", mount |-> 1, task |-> 0, ans |-> Waiting,
             current |-> FALSE, aborted |-> FALSE, clear |-> FALSE]

FreshUi == [detectAll |-> FALSE, applyAll |-> FALSE, current |-> 0,
            ctl |-> NoSlot, lookedUp |-> FALSE]

IdleCancel == [pc |-> "idle", task |-> 0, ans |-> Waiting]

Init ==
    /\ srv = [active |-> 0, last |-> 0, apply |-> {}, gone |-> {}]
    /\ stored = 0
    /\ mount = 1
    /\ mounted = TRUE
    /\ ui = [m \in Mounts |-> FreshUi]
    /\ calls = [s \in Slots |-> IdleCall]
    /\ lookup = Quiet
    /\ cancel = [m \in Mounts |-> IdleCancel]
    /\ faults = 0
    /\ setup \in Setups

(***************************************************************************)
(* Helpers.                                                                *)
(***************************************************************************)
Idle == {s \in Slots : calls[s].pc = "idle"}

Alive(m) == mounted /\ mount = m

Fault(request) ==
    /\ request \in setup.faulty
    /\ faults < setup.faults
    /\ faults' = faults + 1

\* A setState of an unmounted page does nothing; its refs still change.
SetCurrent(m, u, id) == IF Alive(m) THEN [u EXCEPT !.current = id] ELSE u

\* modelUpdateTaskGenerationRef += 1 and controller.abort(): the runs of the mount are no
\* longer current, and the call that holds the controller is aborted.
Abort(m, cs, ctl) ==
    [s \in Slots |->
        IF cs[s].pc = "idle" \/ cs[s].mount # m THEN cs[s]
        ELSE [cs[s] EXCEPT !.current = FALSE, !.aborted = @ \/ s = ctl]]

\* The caller's finally once its poll has returned: apply-all gives back its own ref, a
\* detect-all that handed off to polling leaves detectAllRef to the run.
Return(s, u) == IF calls[s].kind = "apply" THEN [u EXCEPT !.applyAll = FALSE] ELSE u

\* beginModelUpdateTaskRun for slot s of mount m: it aborts the run before it, unless s
\* already holds the controller because it has just resolved the type of its task.
Begin(s, call, u, id) ==
    LET m == call.mount
    IN  /\ calls' = [Abort(m, calls, IF u.ctl = s THEN NoSlot ELSE u.ctl) EXCEPT
                        ![s] = [call EXCEPT !.pc = "poll", !.task = id,
                                            !.current = TRUE, !.ans = Waiting]]
        /\ ui' = [ui EXCEPT ![m] =
                    LET v == [SetCurrent(m, u, id) EXCEPT !.ctl = s]
                    IN  IF id \in srv.apply THEN [v EXCEPT !.applyAll = TRUE]
                        ELSE [v EXCEPT !.detectAll = TRUE]]
        /\ stored' = id

\* Mutant: an untyped poll does not yield to the controller that is already there.
BeginUntypedNoYield(s, call, u, id) ==
    /\ calls' = [calls EXCEPT ![s] = [call EXCEPT !.pc = "resolve", !.task = id,
                                                  !.ans = Waiting]]
    /\ ui' = [ui EXCEPT ![call.mount] = [u EXCEPT !.ctl = s]]
    /\ UNCHANGED stored

\* pollAndReportModelUpdateTask with a task id only (from sessionStorage): it returns at
\* once while another call holds the controller, else it holds it and asks for the type.
BeginUntyped(s, call, u, id) ==
    /\ IF u.ctl # NoSlot
       THEN /\ calls' = [calls EXCEPT ![s] = IdleCall]
            /\ ui' = [ui EXCEPT ![call.mount] = u]
       ELSE /\ calls' = [calls EXCEPT ![s] = [call EXCEPT !.pc = "resolve", !.task = id,
                                                          !.ans = Waiting]]
            /\ ui' = [ui EXCEPT ![call.mount] = [u EXCEPT !.ctl = s]]
    /\ UNCHANGED stored

(***************************************************************************)
(* The user's calls.                                                       *)
(***************************************************************************)
\* detectAllUpdates up to its first await.
DetectAllUpdates ==
    \E s \in Idle :
        /\ "detect" \in setup.acts
        /\ mounted
        /\ ~ui[mount].detectAll
        /\ ui' = [ui EXCEPT ![mount].detectAll = TRUE]
        \* task holds persistedTaskId, read before the await
        /\ calls' = [calls EXCEPT ![s] = [IdleCall EXCEPT !.kind = "detect", !.pc = "current",
                                                          !.mount = mount, !.task = stored]]
        /\ UNCHANGED <<srv, stored, mount, mounted, lookup, cancel, faults>>

\* applyAllUpdates up to its first await; the menu offers it only when nothing is tracked.
ApplyAllUpdates ==
    \E s \in Idle :
        /\ "apply" \in setup.acts
        /\ mounted
        /\ ~ui[mount].applyAll
        /\ ~ui[mount].detectAll
        /\ ui[mount].current = 0
        /\ ui' = [ui EXCEPT ![mount].applyAll = TRUE]
        /\ calls' = [calls EXCEPT ![s] = [IdleCall EXCEPT !.kind = "apply", !.pc = "start",
                                                          !.mount = mount]]
        /\ UNCHANGED <<srv, stored, mount, mounted, lookup, cancel, faults>>

\* detectAllUpdates with the answer of /current.
CurrentContinues(s) ==
    LET call == calls[s]
        m == call.mount
        u == ui[m]
    IN  /\ call.pc = "current"
        /\ call.ans # Waiting
        /\ CASE call.ans = Failed ->
                  /\ ui' = IF Alive(m) THEN [ui EXCEPT ![m].detectAll = FALSE] ELSE ui
                  /\ calls' = [calls EXCEPT ![s] = IdleCall]
                  /\ UNCHANGED stored
             [] call.ans \in TaskIds ->
                  Begin(s, call, u, call.ans)
             [] call.ans = 0 /\ call.task # 0 ->
                  BeginUntyped(s, call, u, call.task)
             [] OTHER ->
                  /\ ui' = [ui EXCEPT ![m] = SetCurrent(m, u, 0)]
                  /\ calls' = [calls EXCEPT ![s].pc = "start", ![s].ans = Waiting]
                  /\ UNCHANGED stored
        /\ UNCHANGED <<srv, mount, mounted, lookup, cancel, faults>>

\* detectAllUpdates and applyAllUpdates with the answer of the POST.
StartContinues(s) ==
    LET call == calls[s]
        m == call.mount
        u == ui[m]
    IN  /\ call.pc = "start"
        /\ call.ans # Waiting
        /\ IF call.ans = Failed
           THEN /\ ui' = [ui EXCEPT ![m] =
                            IF call.kind = "apply" THEN [u EXCEPT !.applyAll = FALSE]
                            ELSE IF Alive(m) THEN [u EXCEPT !.detectAll = FALSE] ELSE u]
                /\ calls' = [calls EXCEPT ![s] = IdleCall]
                /\ UNCHANGED stored
           ELSE Begin(s, call, u, call.ans)
        /\ UNCHANGED <<srv, mount, mounted, lookup, cancel, faults>>

(***************************************************************************)
(* The poll loop.                                                          *)
(***************************************************************************)
\* resolveModelUpdateTaskStartInfo: the type of a task known by its id only.
Resolved(s) ==
    LET call == calls[s] IN
    /\ call.pc = "resolve"
    /\ ~call.aborted
    /\ call.task \notin srv.gone
    /\ Begin(s, call, ui[call.mount], call.task)
    /\ UNCHANGED <<srv, mount, mounted, lookup, cancel, faults>>

\* The request for the type fails: the error is shown and the list refreshed.
ResolveFails(s) ==
    LET call == calls[s]
        missing == call.task \in srv.gone
    IN  /\ call.pc = "resolve"
        /\ ~call.aborted
        /\ IF missing THEN UNCHANGED faults ELSE Fault("resolve")
        /\ calls' = [calls EXCEPT ![s].pc = "unresolved",
                                  ![s].clear = missing /\ Alive(call.mount)]
        /\ UNCHANGED <<srv, stored, mount, mounted, ui, lookup, cancel>>

\* The end of a poll that never became a run.
UnresolvedEnds(s) ==
    LET call == calls[s]
        m == call.mount
        u == ui[m]
        forget == call.clear /\ stored = call.task
    IN  /\ call.pc = "unresolved"
        /\ calls' = [calls EXCEPT ![s] = IdleCall]
        /\ IF u.ctl = s
           THEN /\ stored' = IF forget THEN 0 ELSE stored
                /\ ui' = [ui EXCEPT ![m] =
                            [(IF forget /\ u.current = call.task THEN SetCurrent(m, u, 0) ELSE u)
                                EXCEPT !.ctl = NoSlot]]
           ELSE UNCHANGED <<stored, ui>>
        /\ UNCHANGED <<srv, mount, mounted, lookup, cancel, faults>>

\* waitForModelUpdateTask is over: a current run reports and refreshes the list, any other
\* run ends silently.
PollEnds(s, clear) ==
    LET call == calls[s] IN
    /\ call.pc = "poll"
    /\ ~call.aborted
    /\ IF call.current /\ Alive(call.mount)
       THEN /\ calls' = [calls EXCEPT ![s].pc = "report", ![s].clear = clear]
            /\ UNCHANGED ui
       ELSE /\ calls' = [calls EXCEPT ![s] = IdleCall]
            /\ ui' = [ui EXCEPT ![call.mount] = Return(s, @)]
    /\ UNCHANGED <<srv, stored, mount, mounted, lookup, cancel>>

\* Mutant: the id of a finished task is kept.
PollReturnsKeepsId(s) ==
    /\ calls[s].task # srv.active
    /\ PollEnds(s, FALSE)
    /\ UNCHANGED faults

\* The poll saw a terminal status or a 404.
PollReturns(s) ==
    /\ calls[s].task # srv.active
    /\ PollEnds(s, TRUE)
    /\ UNCHANGED faults

\* The poll failed with another error: the id is kept.
PollFails(s) ==
    /\ Fault("poll")
    /\ PollEnds(s, FALSE)

\* An aborted request or sleep returns at once and the call ends.
AbortedReturns(s) ==
    LET call == calls[s] IN
    /\ call.pc \in {"resolve", "poll"}
    /\ call.aborted
    /\ calls' = [calls EXCEPT ![s] = IdleCall]
    /\ ui' = [ui EXCEPT ![call.mount] = Return(s, @)]
    /\ UNCHANGED <<srv, stored, mount, mounted, lookup, cancel, faults>>

\* Mutant: finishing gives back only the flag of its own kind of task.
ReportEndsOwnFlag(s) ==
    LET call == calls[s]
        m == call.mount
        u == Return(s, ui[m])
        apply == call.task \in srv.apply
    IN  /\ call.pc = "report"
        /\ calls' = [calls EXCEPT ![s] = IdleCall]
        /\ IF call.current /\ Alive(m)
           THEN /\ stored' = IF call.clear THEN 0 ELSE stored
                /\ ui' = [ui EXCEPT ![m] = [u EXCEPT
                            !.ctl = NoSlot, !.detectAll = @ /\ apply, !.applyAll = @ /\ ~apply,
                            !.current = IF call.clear THEN 0 ELSE @]]
           ELSE /\ ui' = [ui EXCEPT ![m] = u]
                /\ UNCHANGED stored
        /\ UNCHANGED <<srv, mount, mounted, lookup, cancel, faults>>

\* The refresh after the report is over: finishModelUpdateTaskRun.
ReportEnds(s) ==
    LET call == calls[s]
        m == call.mount
        u == Return(s, ui[m])
    IN  /\ call.pc = "report"
        /\ calls' = [calls EXCEPT ![s] = IdleCall]
        /\ IF call.current /\ Alive(m)
           THEN /\ stored' = IF call.clear THEN 0 ELSE stored
                /\ ui' = [ui EXCEPT ![m] = [u EXCEPT
                            !.ctl = NoSlot, !.detectAll = FALSE, !.applyAll = FALSE,
                            !.current = IF call.clear THEN 0 ELSE @]]
           ELSE /\ ui' = [ui EXCEPT ![m] = u]
                /\ UNCHANGED stored
        /\ UNCHANGED <<srv, mount, mounted, lookup, cancel, faults>>

(***************************************************************************)
(* Discovery: the timer asks for the current task every five seconds.      *)
(***************************************************************************)
LookupCurrentTask ==
    /\ mounted
    /\ lookup = Quiet
    /\ lookup' = Waiting
    /\ UNCHANGED <<srv, stored, mount, mounted, ui, calls, cancel, faults>>

\* The call a discovery pass starts when nothing on the page follows a task.
RecoveryCall == [IdleCall EXCEPT !.kind = "recover", !.mount = mount]

\* lookupCurrentTask with its answer.  The first answer also lets the resume effect run,
\* which matters when the request failed: the stored id is then polled at once.
LookupContinues ==
    LET u == [ui[mount] EXCEPT !.lookedUp = TRUE]
        free == ~u.detectAll /\ u.ctl = NoSlot
        resume == ~ui[mount].lookedUp
    IN  /\ lookup \notin {Quiet, Waiting}
        /\ lookup' = Quiet
        /\ \E s \in Slots :
            CASE lookup \in TaskIds /\ free ->
                    s \in Idle /\ Begin(s, RecoveryCall, u, lookup)
              [] lookup \in TaskIds /\ ~free ->
                    /\ ui' = [ui EXCEPT ![mount] = [u EXCEPT !.current = lookup]]
                    /\ stored' = IF stored # lookup THEN 0 ELSE stored
                    /\ UNCHANGED calls
              [] lookup \notin TaskIds /\ stored # 0 /\ free /\ (lookup = 0 \/ resume) ->
                    s \in Idle /\ BeginUntyped(s, RecoveryCall, u, stored)
              [] OTHER ->
                    /\ ui' = [ui EXCEPT ![mount] =
                                IF stored = 0 THEN [u EXCEPT !.current = 0] ELSE u]
                    /\ UNCHANGED <<stored, calls>>
        /\ UNCHANGED <<srv, mount, mounted, cancel, faults>>

(***************************************************************************)
(* Cancelling.                                                             *)
(***************************************************************************)
\* The menu offers cancelling while a task is shown.
CancelModelUpdateTask ==
    /\ "cancel" \in setup.acts
    /\ mounted
    /\ cancel[mount].pc = "idle"
    /\ ui[mount].current # 0
    /\ cancel' = [cancel EXCEPT ![mount] =
                    [pc |-> "sent", task |-> ui[mount].current, ans |-> Waiting]]
    /\ UNCHANGED <<srv, stored, mount, mounted, ui, calls, lookup, faults>>

\* Mutant: cancelling aborts the run but leaves its controller in the ref.
CancelContinuesKeepsController(m) ==
    LET c == cancel[m]
        drop == c.ans = Ok \/ (c.ans = Missing /\ stored \in {0, c.task})
    IN  /\ c.pc = "sent"
        /\ c.ans # Waiting
        /\ cancel' = [cancel EXCEPT ![m].pc = "report"]
        /\ IF drop
           THEN /\ calls' = Abort(m, calls, ui[m].ctl)
                /\ stored' = 0
                /\ ui' = [ui EXCEPT ![m] = [SetCurrent(m, @, 0) EXCEPT
                            !.detectAll = FALSE, !.applyAll = FALSE]]
           ELSE UNCHANGED <<calls, stored, ui>>
        /\ UNCHANGED <<srv, mount, mounted, lookup, faults>>

\* cancelModelUpdateTask with its answer: success forgets whatever is tracked by now, a
\* 404 only when that is still the cancelled task.
CancelContinues(m) ==
    LET c == cancel[m]
        drop == c.ans = Ok \/ (c.ans = Missing /\ stored \in {0, c.task})
    IN  /\ c.pc = "sent"
        /\ c.ans # Waiting
        /\ cancel' = [cancel EXCEPT ![m].pc = "report"]
        /\ IF drop
           THEN /\ calls' = Abort(m, calls, ui[m].ctl)
                /\ stored' = 0
                /\ ui' = [ui EXCEPT ![m] = [SetCurrent(m, @, 0) EXCEPT
                            !.ctl = NoSlot, !.detectAll = FALSE, !.applyAll = FALSE]]
           ELSE UNCHANGED <<calls, stored, ui>>
        /\ UNCHANGED <<srv, mount, mounted, lookup, faults>>

\* The refresh after the cancel is over.
CancelEnds(m) ==
    /\ cancel[m].pc = "report"
    /\ cancel' = [cancel EXCEPT ![m] = IdleCancel]
    /\ UNCHANGED <<srv, stored, mount, mounted, ui, calls, lookup, faults>>

(***************************************************************************)
(* Leaving the page and opening it again.                                  *)
(***************************************************************************)
\* The unmount effects: generation, controller, and the discovery request.  The state of the
\* page is gone; of its refs the calls left behind read only the controller.
Leave ==
    /\ "leave" \in setup.acts
    /\ mounted
    /\ mounted' = FALSE
    /\ calls' = Abort(mount, calls, ui[mount].ctl)
    /\ ui' = [ui EXCEPT ![mount] = FreshUi]
    /\ lookup' = Quiet
    /\ UNCHANGED <<srv, stored, mount, cancel, faults>>

Reopen ==
    /\ ~mounted
    /\ mount < setup.mounts
    /\ mount' = mount + 1
    /\ mounted' = TRUE
    /\ UNCHANGED <<srv, stored, ui, calls, lookup, cancel, faults>>

(***************************************************************************)
(* The server: one task at a time.                                         *)
(***************************************************************************)
Started(apply) ==
    [srv EXCEPT !.active = srv.last + 1, !.last = @ + 1,
                !.apply = IF apply THEN @ \cup {srv.last + 1} ELSE @]

\* The scheduler, or another administrator, starts a task.
TaskAppears ==
    /\ srv.active = 0
    /\ srv.last < setup.tasks
    /\ srv' = Started(FALSE)
    /\ UNCHANGED <<stored, mount, mounted, ui, calls, lookup, cancel, faults>>

TaskEnds ==
    /\ srv.active # 0
    /\ srv' = [srv EXCEPT !.active = 0]
    /\ UNCHANGED <<stored, mount, mounted, ui, calls, lookup, cancel, faults>>

\* The history cleanup removes a finished row.
TaskPruned ==
    \E id \in 1 .. srv.last \ (srv.gone \cup {srv.active}) :
        /\ "prune" \in setup.acts
        /\ srv' = [srv EXCEPT !.gone = @ \cup {id}]
        /\ UNCHANGED <<stored, mount, mounted, ui, calls, lookup, cancel, faults>>

\* GET /current, for the discovery timer and for detect-all.
ServeLookup ==
    /\ lookup = Waiting
    /\ lookup' = srv.active
    /\ UNCHANGED <<srv, stored, mount, mounted, ui, calls, cancel, faults>>

LookupFails ==
    /\ lookup = Waiting
    /\ Fault("lookup")
    /\ lookup' = Failed
    /\ UNCHANGED <<srv, stored, mount, mounted, ui, calls, cancel>>

ServeCurrent(s) ==
    /\ calls[s].pc = "current"
    /\ calls[s].ans = Waiting
    /\ calls' = [calls EXCEPT ![s].ans = srv.active]
    /\ UNCHANGED <<srv, stored, mount, mounted, ui, lookup, cancel, faults>>

\* POST detect_all or apply_all: a task is created, or the answer names the one that runs,
\* or (the lock of a cancelled task is still held) it is refused without a task.
ServeStart(s) ==
    /\ calls[s].pc = "start"
    /\ calls[s].ans = Waiting
    /\ IF srv.active = 0 /\ srv.last < setup.tasks
       THEN /\ srv' = Started(calls[s].kind = "apply")
            /\ calls' = [calls EXCEPT ![s].ans = srv.last + 1]
       ELSE /\ calls' = [calls EXCEPT ![s].ans = IF srv.active = 0 THEN Failed ELSE srv.active]
            /\ UNCHANGED srv
    /\ UNCHANGED <<stored, mount, mounted, ui, lookup, cancel, faults>>

\* A request of a call fails; a start that fails may have created its task.
RequestFails(s) ==
    /\ calls[s].ans = Waiting
    /\ \/ calls[s].pc = "current" /\ UNCHANGED srv
       \/ /\ calls[s].pc = "start"
          /\ \/ UNCHANGED srv
             \/ /\ srv.active = 0
                /\ srv.last < setup.tasks
                /\ srv' = Started(calls[s].kind = "apply")
    /\ Fault(calls[s].pc)
    /\ calls' = [calls EXCEPT ![s].ans = Failed]
    /\ UNCHANGED <<stored, mount, mounted, ui, lookup, cancel>>

\* POST cancel: a finished task is a success, a removed one a 404.
ServeCancel(m) ==
    LET c == cancel[m] IN
    /\ c.pc = "sent"
    /\ c.ans = Waiting
    /\ srv' = IF srv.active = c.task THEN [srv EXCEPT !.active = 0] ELSE srv
    /\ cancel' = [cancel EXCEPT ![m].ans = IF c.task \in srv.gone THEN Missing ELSE Ok]
    /\ UNCHANGED <<stored, mount, mounted, ui, calls, lookup, faults>>

CancelFails(m) ==
    LET c == cancel[m] IN
    /\ c.pc = "sent"
    /\ c.ans = Waiting
    /\ Fault("cancel")
    /\ srv' \in {srv, IF srv.active = c.task THEN [srv EXCEPT !.active = 0] ELSE srv}
    /\ cancel' = [cancel EXCEPT ![m].ans = Failed]
    /\ UNCHANGED <<stored, mount, mounted, ui, calls, lookup>>

(***************************************************************************)
(* The specification.  Every request is answered, every answer is          *)
(* continued and the discovery timer keeps firing; faults, the user and    *)
(* the server's tasks are under no fairness.                               *)
(***************************************************************************)
CallStep(s) ==
    \/ CurrentContinues(s)
    \/ StartContinues(s)
    \/ Resolved(s)
    \/ UnresolvedEnds(s)
    \/ PollReturns(s)
    \/ AbortedReturns(s)
    \/ ReportEnds(s)
    \/ ServeCurrent(s)
    \/ ServeStart(s)

CancelStep(m) == CancelContinues(m) \/ CancelEnds(m) \/ ServeCancel(m)

LookupStep == LookupCurrentTask \/ ServeLookup \/ LookupContinues

User == DetectAllUpdates \/ ApplyAllUpdates \/ CancelModelUpdateTask \/ Leave \/ Reopen

Server == TaskAppears \/ TaskEnds \/ TaskPruned

Faults ==
    \/ LookupFails
    \/ \E s \in Slots : RequestFails(s) \/ ResolveFails(s) \/ PollFails(s)
    \/ \E m \in Mounts : CancelFails(m)

Next ==
    /\ \/ \E s \in Slots : CallStep(s)
       \/ \E m \in Mounts : CancelStep(m)
       \/ LookupStep
       \/ User
       \/ Server
       \/ Faults
    /\ UNCHANGED setup

Fairness ==
    /\ \A s \in Slots : WF_state(CallStep(s))
    /\ \A m \in Mounts : WF_state(CancelStep(m))
    /\ WF_state(LookupStep)

Spec == Init /\ [][Next]_vars

FairSpec == Spec /\ Fairness

(***************************************************************************)
(* Properties.                                                             *)
(***************************************************************************)
\* At most one poll loop of a page life is live: whoever takes the controller ref has
\* aborted the loop before it (beginModelUpdateTaskRun, cancelModelUpdateTask, the yield of
\* an untyped poll), however starts, discovery passes and cancels interleave.  The types
\* are checked along.
OneLiveLoop ==
    /\ TypeOK
    /\ \A m \in Mounts :
          Cardinality({s \in Slots : /\ calls[s].mount = m
                                     /\ calls[s].pc \in {"resolve", "poll"}
                                     /\ ~calls[s].aborted}) <= 1

Followed(id) ==
    \E s \in Slots : /\ calls[s].pc = "poll"
                     /\ calls[s].task = id
                     /\ calls[s].current
                     /\ Alive(calls[s].mount)

\* The type of a stored task can always be had.  Otherwise a detect-all whose stored task
\* cannot be resolved never gives back detectAllRef (see the README).
Resolvable == "resolve" \notin setup.faulty /\ "prune" \notin setup.acts

\* A task that keeps running is picked up by an open page, whoever started it and whatever
\* stale answer or cancel made the page forget it (the discovery timer).
RunningTaskFollowed ==
    \A id \in TaskIds :
        (Resolvable /\ mounted /\ srv.active = id)
            ~> (Followed(id) \/ srv.active # id \/ ~mounted)

\* Once no task runs an open page stops showing that it detects or applies
\* (finishModelUpdateTaskRun and the finally blocks of both calls).
BusyEnds ==
    /\ (Resolvable /\ mounted /\ srv.active = 0 /\ ui[mount].detectAll)
            ~> (~mounted \/ srv.active # 0 \/ ~ui[mount].detectAll)
    /\ (mounted /\ srv.active = 0 /\ ui[mount].applyAll)
            ~> (~mounted \/ srv.active # 0 \/ ~ui[mount].applyAll)

\* The id of a task that is over does not stay in sessionStorage while the page is open.
AnchorReleased ==
    \A id \in TaskIds :
        (Resolvable /\ mounted /\ stored = id /\ srv.active # id)
            ~> (~mounted \/ stored # id)

============================================================================
