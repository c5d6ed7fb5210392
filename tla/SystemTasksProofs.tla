------------------------- MODULE SystemTasksProofs -------------------------
(***************************************************************************)
(* Proofs about SystemTasks, for every set of tasks, runners and crashing  *)
(* runners.                                                                *)
(***************************************************************************)
EXTENDS SystemTasks, TLAPS

(* Every record that replaces an execution keeps the type of exec.           *)
LEMMA ExecTyped ==
    ASSUME TypeOK, NEW r \in Runners, NEW t \in Tasks, NEW e \in Exec,
           exec' = [exec EXCEPT ![r][t] = e]
    PROVE  exec' \in [Runners -> [Tasks -> Exec]]
  BY DEF TypeOK

(* The statements that end a task keep the types of the rows.                *)
LEMMA RowsTyped ==
    ASSUME TypeOK, NEW t \in Tasks, NEW s \in Status,
           End(t, s) \/ UNCHANGED rows
    PROVE  /\ status' \in [Tasks -> Status]
           /\ keyed' \in SUBSET Tasks
           /\ owner' \in [Tasks -> Runners \cup {NoRunner}]
  BY DEF TypeOK, End, rows

(* The lock row after a delete by its task and runner.                       *)
LEMMA LockTyped ==
    ASSUME TypeOK, NEW t, NEW r
    PROVE  /\ Without(t, r) \in Lock \cup {NoLock}
           /\ lock # NoLock => /\ lock.task \in Tasks
                               /\ lock.by \in Runners
                               /\ Renewed \in Lock
  BY DEF TypeOK, Without, Renewed, Lock

(* A claim is idle and empty, or names a task; both ways to move it fit.     *)
LEMMA ClaimTyped ==
    ASSUME TypeOK, NEW r \in Runners
    PROVE  /\ claim[r] \in Claim
           /\ claim[r].pc # "idle" => claim[r].task \in Tasks
           /\ claim[r].pc = "idle" => claim[r] = IdleClaim
           /\ Leave(r) => claim' \in [Runners -> Claim]
           /\ \A p \in ClaimPC :
                (claim[r].pc # "idle" /\ To(r, p)) => claim' \in [Runners -> Claim]
  <1>1. claim[r] \in Claim /\ IdleClaim \in Claim
    BY DEF TypeOK, Claim, IdleClaim
  <1>2. claim[r].pc # "idle" => claim[r] \in [pc : ClaimPC, task : Tasks]
    BY <1>1 DEF Claim
  <1>3. claim[r].pc = "idle" => claim[r] = IdleClaim
    BY <1>1 DEF Claim, ClaimPC, IdleClaim
  <1>4. Leave(r) => claim' \in [Runners -> Claim]
    BY <1>1 DEF Leave, TypeOK
  <1>5. ASSUME NEW p \in ClaimPC, claim[r].pc # "idle", To(r, p)
        PROVE  claim' \in [Runners -> Claim]
    <2>1. [claim[r] EXCEPT !.pc = p] \in Claim
      BY <1>2, <1>5 DEF Claim
    <2> QED
      BY <1>5, <2>1 DEF To, TypeOK
  <1> QED
    BY <1>1, <1>2, <1>3, <1>4, <1>5

(* MarkSystemTaskFailedForRunner keeps the types of rows and lock.           *)
LEMMA MarkTyped ==
    ASSUME TypeOK, NEW t \in Tasks, NEW r \in Runners,
           MarkFailedForRunner(t, r) \/ UNCHANGED <<rows, lock>>
    PROVE  /\ status' \in [Tasks -> Status]
           /\ keyed' \in SUBSET Tasks
           /\ owner' \in [Tasks -> Runners \cup {NoRunner}]
           /\ lock' \in Lock \cup {NoLock}
  <1>1. "failed" \in Status
    BY DEF Status, Terminal
  <1>2. End(t, "failed") \/ UNCHANGED rows
    BY DEF MarkFailedForRunner, rows
  <1>3. lock' = Without(t, r) \/ lock' = lock
    BY DEF MarkFailedForRunner, rows
  <1> QED
    BY <1>1, <1>2, <1>3, RowsTyped, LockTyped DEF TypeOK

(* acquireSystemTaskLock keeps the types of rows and lock.                   *)
LEMMA TakeTyped ==
    ASSUME TypeOK, NEW r \in Runners, claim[r].pc = "read",
           TakeLock(r) \/ UNCHANGED <<rows, lock>>
    PROVE  /\ status' \in [Tasks -> Status]
           /\ keyed' \in SUBSET Tasks
           /\ owner' \in [Tasks -> Runners \cup {NoRunner}]
           /\ lock' \in Lock \cup {NoLock}
  <1>0. claim[r].task \in Tasks
    BY ClaimTyped
  <1>1. "failed" \in Status /\ claim[r].task \in Tasks
    BY <1>0 DEF Status, Terminal
  <1>a. [task |-> claim[r].task, by |-> r, live |-> TRUE] \in Lock
    BY <1>0 DEF Lock
  <1>b. lock' = lock \/ lock' = [task |-> claim[r].task, by |-> r, live |-> TRUE]
    BY DEF TakeLock
  <1>2. lock' \in Lock \cup {NoLock}
    BY <1>a, <1>b DEF TypeOK
  <1>3. CASE UNCHANGED rows
    BY <1>2, <1>3 DEF TypeOK, rows
  <1>4. CASE lock # NoLock /\ End(lock.task, "failed")
    BY <1>1, <1>2, <1>4, RowsTyped, LockTyped
  <1> QED
    BY <1>3, <1>4 DEF TakeLock, OldRunExpired, rows

-----------------------------------------------------------------------------
(* Every step of ClaimSystemTask keeps the types.                            *)
LEMMA ClaimStepTyped ==
    ASSUME TypeOK, NEW r \in Runners, ClaimStep(r)
    PROVE  TypeOK'
  <1> USE DEF ClaimPC
  <1>1. ASSUME NEW t \in Tasks, ClaimRead(r, t) PROVE TypeOK'
    <2>1. [pc |-> "read", task |-> t] \in Claim
      BY DEF Claim
    <2> QED
      BY <1>1, <2>1 DEF ClaimRead, TypeOK, rows
  <1>2. CASE Acquire(r)
    BY <1>2, TakeTyped, ClaimTyped DEF Acquire, TypeOK
  <1>3. CASE AcquireFails(r)
    BY <1>3, TakeTyped, ClaimTyped DEF AcquireFails, TypeOK
  <1>4. CASE AcquireOvertaken(r)
    <2>1. lock # NoLock /\ "failed" \in Status
      BY <1>4 DEF AcquireOvertaken, Renewable, Status, Terminal
    <2>2. lock' \in Lock /\ claim' \in [Runners -> Claim]
      BY <1>4, <2>1, LockTyped, ClaimTyped DEF AcquireOvertaken
    <2>3. lock.task \in Tasks /\ End(lock.task, "failed")
      BY <1>4, <2>1, LockTyped DEF AcquireOvertaken
    <2> QED
      BY <1>4, <2>1, <2>2, <2>3, RowsTyped DEF AcquireOvertaken, TypeOK
  <1>5. CASE ClaimCheck(r)
    BY <1>5, ClaimTyped DEF ClaimCheck, TypeOK, rows
  <1>6. CASE ClaimWrite(r)
    <2>1. claim' \in [Runners -> Claim] /\ claim[r].task \in Tasks
      BY <1>6, ClaimTyped DEF ClaimWrite
    <2> QED
      BY <1>6, <2>1 DEF ClaimWrite, TypeOK, rows, Status, ActiveStatus
  <1>7. CASE ClaimUpdateFails(r)
    BY <1>7, ClaimTyped DEF ClaimUpdateFails, TypeOK, rows
  <1>8. CASE Dispatch(r)
    <2>1. NewExec("start") \in Exec /\ claim[r].task \in Tasks
      BY <1>8, ClaimTyped DEF Dispatch, NewExec, Exec, ExecPC
    <2>2. exec' \in [Runners -> [Tasks -> Exec]]
      BY <1>8, <2>1, ExecTyped DEF Dispatch
    <2> QED
      BY <1>8, <2>2, ClaimTyped DEF Dispatch, TypeOK, rows
  <1>9. CASE ReadBackFails(r)
    BY <1>9, ClaimTyped DEF ReadBackFails, TypeOK, rows
  <1>10. CASE ClaimRelease(r)
    <2>1. claim' \in [Runners -> Claim]
      BY <1>10, ClaimTyped DEF ClaimRelease
    <2> QED
      BY <1>10, <2>1, LockTyped DEF ClaimRelease, TypeOK, rows
  <1>11. CASE ClaimMark(r)
    BY <1>11, MarkTyped, ClaimTyped DEF ClaimMark, TypeOK
  <1> QED
    BY <1>1, <1>2, <1>3, <1>4, <1>5, <1>6, <1>7, <1>8, <1>9, <1>10, <1>11
    DEF ClaimStep

(* What an execution step writes into its execution.                         *)
LEMMA ExecStepShape ==
    ASSUME TypeOK, NEW r \in Runners, NEW t \in Tasks, ExecStep(r, t)
    PROVE  \E e \in Exec : exec' = [exec EXCEPT ![r][t] = e]
  <1>1. exec[r][t] \in Exec
    BY DEF TypeOK
  <1>2. ASSUME NEW p \in ExecPC PROVE [exec[r][t] EXCEPT !.pc = p] \in Exec
    BY <1>1 DEF Exec
  <1>3. ASSUME NEW h \in {"off", "on", "mark", "release"}
        PROVE  /\ [exec[r][t] EXCEPT !.hb = h] \in Exec
               /\ [exec[r][t] EXCEPT !.hb = h, !.marked = TRUE] \in Exec
               /\ [exec[r][t] EXCEPT !.hb = h, !.released = TRUE] \in Exec
    BY <1>1 DEF Exec
  <1>4. /\ [exec[r][t] EXCEPT !.pc = "check", !.hb = "on"] \in Exec
        /\ [exec[r][t] EXCEPT !.pc = "release", !.marked = TRUE] \in Exec
        /\ [exec[r][t] EXCEPT !.pc = "done", !.released = TRUE] \in Exec
    BY <1>1 DEF Exec, ExecPC
  <1>5. CASE \E p \in ExecPC : Goto(r, t, p)
    <2>1. PICK p \in ExecPC : Goto(r, t, p)
      BY <1>5
    <2>2. exec' = [exec EXCEPT ![r][t] = [exec[r][t] EXCEPT !.pc = p]]
      BY <2>1 DEF Goto, TypeOK
    <2> QED
      BY <1>2, <2>2
  <1>6. CASE StartHandler(r, t)
    BY <1>4, <1>6, ZenonT(60) DEF StartHandler, TypeOK
  <1>7. CASE UnwindMark(r, t)
    BY <1>4, <1>7, ZenonT(60) DEF UnwindMark, TypeOK
  <1>8. CASE UnwindRelease(r, t)
    BY <1>4, <1>8, ZenonT(60) DEF UnwindRelease, TypeOK
  <1>9. CASE Heartbeat(r, t)
    BY <1>1, <1>9 DEF Heartbeat, TypeOK
  <1>10. CASE HeartbeatFails(r, t)
    BY <1>3, <1>10 DEF HeartbeatFails, TypeOK
  <1>11. CASE HeartbeatMark(r, t)
    BY <1>3, <1>11, ZenonT(60) DEF HeartbeatMark, TypeOK
  <1>12. CASE HeartbeatRelease(r, t)
    BY <1>3, <1>12, ZenonT(60) DEF HeartbeatRelease, TypeOK
  <1>13. CASE HeartbeatStop(r, t)
    BY <1>3, <1>13 DEF HeartbeatStop, TypeOK
  <1> QED
    BY <1>5, <1>6, <1>7, <1>8, <1>9, <1>10, <1>11, <1>12, <1>13
    DEF ExecStep, StartFails, StateSaved, StateRefused, DeleteBatch,
        HandlerError, FinishSystemTask, ExecPC

(* Every step of runWithLeaseHeartbeat and its handler keeps the types.      *)
LEMMA ExecStepTyped ==
    ASSUME TypeOK, NEW r \in Runners, NEW t \in Tasks, ExecStep(r, t)
    PROVE  TypeOK'
  <1>1. exec' \in [Runners -> [Tasks -> Exec]]
    BY ExecStepShape, ExecTyped
  <1>2. Renew(r, t) => lock' \in Lock
    BY LockTyped DEF Renew, HeldBy
  <1>3. {"succeeded", "failed"} \subseteq Status
    BY DEF Status, Terminal
  <1>4. CASE StartHandler(r, t)
    BY <1>1, <1>2, <1>4 DEF StartHandler, TypeOK, rows
  <1>5. CASE StartFails(r, t) \/ StateSaved(r, t) \/ StateRefused(r, t)
             \/ HandlerError(r, t)
    BY <1>1, <1>5 DEF StartFails, StateSaved, StateRefused, HandlerError,
                      TypeOK, rows
  <1>6. CASE DeleteBatch(r, t)
    <2>1. late' \in [Tasks -> 0..LateCap]
      BY <1>6, SystemTasksAssumption DEF DeleteBatch, TypeOK
    <2> QED
      BY <1>1, <1>6, <2>1 DEF DeleteBatch, TypeOK, rows
  <1>7. CASE FinishSystemTask(r, t)
    <2>1. lock' \in {Without(t, r), lock, NoLock}
      BY <1>7 DEF FinishSystemTask, FinishTx
    <2>2. \E s \in {"succeeded", "failed"} : End(t, s) \/ UNCHANGED rows
      BY <1>7 DEF FinishSystemTask, FinishTx
    <2>3. /\ status' \in [Tasks -> Status]
          /\ keyed' \in SUBSET Tasks
          /\ owner' \in [Tasks -> Runners \cup {NoRunner}]
      BY <1>3, <2>2, RowsTyped
    <2> QED
      BY <1>1, <1>7, <2>1, <2>3, LockTyped DEF FinishSystemTask, TypeOK
  <1>8. CASE UnwindMark(r, t) \/ HeartbeatMark(r, t)
    BY <1>1, <1>8, MarkTyped DEF UnwindMark, HeartbeatMark, MarkOnce, TypeOK
  <1>9. CASE UnwindRelease(r, t) \/ HeartbeatRelease(r, t)
    BY <1>1, <1>9, LockTyped
    DEF UnwindRelease, HeartbeatRelease, ReleaseOnce, TypeOK, rows
  <1>10. CASE Heartbeat(r, t)
    BY <1>1, <1>2, <1>10 DEF Heartbeat, TypeOK, rows
  <1>11. CASE HeartbeatFails(r, t) \/ HeartbeatStop(r, t)
    BY <1>1, <1>11 DEF HeartbeatFails, HeartbeatStop, TypeOK, rows
  <1> QED
    BY <1>4, <1>5, <1>6, <1>7, <1>8, <1>9, <1>10, <1>11 DEF ExecStep

(* Steps of administrators, sweeps, the clock and the operating system.      *)
LEMMA EnvStepTyped ==
    ASSUME TypeOK,
           \/ \E t \in Tasks : CreateSystemTask(t) \/ CancelSystemTask(t)
                               \/ RecoverOrphan(t) \/ DeleteHistory(t)
           \/ \E r \in Runners : Crash(r)
           \/ ExpireStaleLock \/ CleanupInactiveLock \/ LeaseExpires
    PROVE  TypeOK'
  <1>1. {"pending", "failed", "cancelled", "gone"} \subseteq Status
    BY DEF Status, ActiveStatus, Terminal
  <1>2. ASSUME NEW t \in Tasks, CreateSystemTask(t) PROVE TypeOK'
    BY <1>1, <1>2 DEF CreateSystemTask, TypeOK
  <1>3. ASSUME NEW t \in Tasks, CancelSystemTask(t) PROVE TypeOK'
    <2>1. lock' \in {NoLock, lock}
      BY <1>3 DEF CancelSystemTask
    <2>2. End(t, "cancelled") \/ UNCHANGED rows
      BY <1>3 DEF CancelSystemTask
    <2> QED
      BY <1>1, <1>3, <2>1, <2>2, RowsTyped DEF CancelSystemTask, TypeOK
  <1>4. ASSUME NEW t \in Tasks, RecoverOrphan(t) PROVE TypeOK'
    <2>1. lock' \in Lock \cup {NoLock}
      BY <1>4, LockTyped DEF RecoverOrphan, HeldBy, TypeOK
    <2> QED
      BY <1>1, <1>4, <2>1, RowsTyped DEF RecoverOrphan, TypeOK
  <1>5. ASSUME NEW t \in Tasks, DeleteHistory(t) PROVE TypeOK'
    BY <1>1, <1>5 DEF DeleteHistory, TypeOK
  <1>6. ASSUME NEW r \in Runners, Crash(r) PROVE TypeOK'
    <2>1. IdleClaim \in Claim /\ NewExec("dead") \in Exec
      BY DEF IdleClaim, Claim, NewExec, Exec, ExecPC
    <2>2. claim' \in [Runners -> Claim]
      BY <1>6, <2>1 DEF Crash, TypeOK
    <2>3. exec' \in [Runners -> [Tasks -> Exec]]
      BY <1>6, <2>1 DEF Crash, TypeOK
    <2> QED
      BY <1>6, <2>2, <2>3 DEF Crash, TypeOK, rows
  <1>7. CASE ExpireStaleLock
    <2>1. lock.task \in Tasks
      BY <1>7, LockTyped DEF ExpireStaleLock
    <2>2. End(lock.task, "failed") \/ UNCHANGED rows
      BY <1>7 DEF ExpireStaleLock
    <2> QED
      BY <1>1, <1>7, <2>1, <2>2, RowsTyped DEF ExpireStaleLock, TypeOK
  <1>8. CASE CleanupInactiveLock
    BY <1>8 DEF CleanupInactiveLock, TypeOK, rows
  <1>9. CASE LeaseExpires
    <2>1. lock' \in Lock
      BY <1>9 DEF LeaseExpires, TypeOK, Lock
    <2> QED
      BY <1>9, <2>1 DEF LeaseExpires, TypeOK, rows
  <1> QED
    BY <1>2, <1>3, <1>4, <1>5, <1>6, <1>7, <1>8, <1>9

(* The empty tables and idle runners are well typed.                         *)
LEMMA TypeInit == Init => TypeOK
  <1> SUFFICES ASSUME Init PROVE TypeOK
    OBVIOUS
  <1>1. IdleClaim \in Claim /\ NewExec("none") \in Exec /\ "absent" \in Status
    BY DEF IdleClaim, Claim, NewExec, Exec, ExecPC, Status
  <1>2. 0 \in 0..LateCap
    BY SystemTasksAssumption
  <1> QED
    BY <1>1, <1>2 DEF Init, TypeOK

(* Every step keeps the types.                                               *)
LEMMA TypeStep == TypeOK /\ [Next]_vars => TypeOK'
  <1>1. TypeOK /\ Next => TypeOK'
    BY ClaimStepTyped, ExecStepTyped, EnvStepTyped DEF Next
  <1>2. TypeOK /\ UNCHANGED vars => TypeOK'
    BY DEF vars, TypeOK
  <1> QED
    BY <1>1, <1>2

(* The rows, the lock, the claims and the executions keep their types; in    *)
(* particular every path out of ClaimSystemTask leaves the claim empty.      *)
THEOREM TasksTypeCorrect == Spec => []TypeOK
  BY TypeInit, TypeStep, PTL DEF Spec

-----------------------------------------------------------------------------
(* What a step may do to the rows, to an execution and to a claim.           *)

Ended(t) ==
    \/ status[t] = "running" /\ \E s \in {"succeeded", "failed"} : End(t, s)
    \/ status[t] \in ActiveStatus /\ End(t, "cancelled")

Started(r) == ClaimWrite(r) /\ status[claim[r].task] = "pending"

RowStep ==
    \/ UNCHANGED rows
    \/ \E t \in Tasks : Ended(t) \/ CreateSystemTask(t) \/ DeleteHistory(t)
    \/ \E r \in Runners : Started(r)

(* Every step leaves the rows alone or ends, creates, deletes, starts one.   *)
LEMMA RowShape ==
    ASSUME TypeOK, Next
    PROVE  RowStep
  <1>1. ASSUME NEW t \in Tasks, NEW r \in Runners,
               MarkFailedForRunner(t, r) \/ UNCHANGED <<rows, lock>>
        PROVE  UNCHANGED rows \/ Ended(t)
    BY <1>1 DEF MarkFailedForRunner, Owns, Ended
  <1>2. ASSUME lock # NoLock, status[lock.task] = "running",
               End(lock.task, "failed")
        PROVE  \E t \in Tasks : Ended(t)
    BY <1>2, LockTyped DEF Ended
  <1>3. ASSUME NEW r \in Runners, ClaimStep(r) PROVE RowStep
    <2>1. CASE (\E t \in Tasks : ClaimRead(r, t)) \/ ClaimCheck(r)
               \/ ClaimUpdateFails(r) \/ Dispatch(r) \/ ReadBackFails(r)
               \/ ClaimRelease(r)
      BY <2>1 DEF ClaimRead, ClaimCheck, ClaimUpdateFails, Dispatch,
                  ReadBackFails, ClaimRelease, RowStep
    <2>2. CASE Acquire(r) \/ AcquireFails(r) \/ AcquireOvertaken(r)
      <3>1. \/ UNCHANGED rows
            \/ OldRunExpired /\ End(lock.task, "failed")
        BY <2>2 DEF Acquire, AcquireFails, AcquireOvertaken, TakeLock
      <3> QED
        BY <3>1, <1>2 DEF OldRunExpired, RowStep
    <2>3. CASE ClaimWrite(r)
      BY <2>3 DEF ClaimWrite, Started, RowStep
    <2>4. CASE ClaimMark(r)
      <3>1. claim[r].task \in Tasks
        BY <2>4, ClaimTyped DEF ClaimMark
      <3> QED
        BY <2>4, <3>1, <1>1 DEF ClaimMark, RowStep
    <2> QED
      BY <1>3, <2>1, <2>2, <2>3, <2>4 DEF ClaimStep
  <1>4. ASSUME NEW r \in Runners, NEW t \in Tasks, ExecStep(r, t) PROVE RowStep
    <2>1. CASE FinishSystemTask(r, t)
      BY <2>1 DEF FinishSystemTask, FinishTx, Owns, Ended, RowStep
    <2>2. CASE UnwindMark(r, t) \/ HeartbeatMark(r, t)
      BY <2>2, <1>1 DEF UnwindMark, HeartbeatMark, MarkOnce, RowStep
    <2> QED
      BY <1>4, <2>1, <2>2
      DEF ExecStep, StartHandler, StartFails, StateSaved, StateRefused,
          DeleteBatch, HandlerError, UnwindRelease, Heartbeat, HeartbeatFails,
          HeartbeatRelease, HeartbeatStop, RowStep
  <1>5. ASSUME NEW t \in Tasks,
               CreateSystemTask(t) \/ CancelSystemTask(t)
               \/ RecoverOrphan(t) \/ DeleteHistory(t)
        PROVE  RowStep
    BY <1>5 DEF CancelSystemTask, RecoverOrphan, RowStep, Ended
  <1>6. CASE ExpireStaleLock
    BY <1>6, <1>2 DEF ExpireStaleLock, Owns, RowStep
  <1>7. CASE CleanupInactiveLock \/ LeaseExpires \/ \E r \in Runners : Crash(r)
    BY <1>7 DEF CleanupInactiveLock, LeaseExpires, Crash, RowStep
  <1> QED
    BY <1>3, <1>4, <1>5, <1>6, <1>7 DEF Next

(* A step of an execution leaves "none" alone, enters "work" only while its  *)
(* runner owns the running task, and never takes back a release.             *)
ExecEffect(r, t, e) ==
    /\ exec' = [exec EXCEPT ![r][t] = e]
    /\ e.pc = "none" <=> At(r, t, "none")
    /\ e.pc = "work" => At(r, t, "work") \/ Owns(t, r)
    /\ exec[r][t].released => e.released
    /\ e.pc \in Handling => exec[r][t].pc \in Handling \/ StartHandler(r, t)

(* Every step of an execution has such an effect.                            *)
LEMMA ExecShape ==
    ASSUME TypeOK, NEW r \in Runners, NEW t \in Tasks, ExecStep(r, t)
    PROVE  \E e \in Exec : ExecEffect(r, t, e)
  <1>1. PICK e \in Exec : exec' = [exec EXCEPT ![r][t] = e]
    BY ExecStepShape
  <1>2. exec'[r][t] = e /\ exec[r][t] \in Exec
    BY <1>1 DEF TypeOK
  <1>3. ASSUME NEW p \in ExecPC, Goto(r, t, p)
        PROVE  e.pc = p /\ e.released = exec[r][t].released
    BY <1>2, <1>3 DEF Goto, TypeOK, Exec
  <1> USE DEF ExecEffect, At, Handling, ExecPC
  <1>4. CASE StartHandler(r, t)
    <2>1. e.pc = "check" /\ e.released = exec[r][t].released
      BY <1>2, <1>4 DEF StartHandler, TypeOK, Exec
    <2>2. ~At(r, t, "none")
      BY <1>4 DEF StartHandler
    <2> QED
      BY <1>1, <1>4, <2>1, <2>2
  <1>5. CASE StartFails(r, t) \/ StateRefused(r, t)
    BY <1>1, <1>2, <1>3, <1>5 DEF StartFails, StateRefused
  <1>6. CASE StateSaved(r, t)
    BY <1>1, <1>2, <1>3, <1>6 DEF StateSaved
  <1>7. CASE DeleteBatch(r, t)
    BY <1>1, <1>2, <1>3, <1>7 DEF DeleteBatch
  <1>8. CASE HandlerError(r, t)
    BY <1>1, <1>2, <1>3, <1>8 DEF HandlerError
  <1>9. CASE FinishSystemTask(r, t)
    BY <1>1, <1>2, <1>3, <1>9 DEF FinishSystemTask
  <1>10. CASE UnwindMark(r, t)
    <2>1. e.pc = "release" /\ e.released = exec[r][t].released
      BY <1>2, <1>10 DEF UnwindMark, TypeOK, Exec
    <2>2. ~At(r, t, "none")
      BY <1>10 DEF UnwindMark
    <2> QED
      BY <1>1, <1>10, <2>1, <2>2
  <1>11. CASE UnwindRelease(r, t)
    <2>1. e.pc = "done" /\ e.released
      BY <1>2, <1>11 DEF UnwindRelease, TypeOK, Exec
    <2>2. ~At(r, t, "none")
      BY <1>11 DEF UnwindRelease
    <2> QED
      BY <1>1, <1>11, <2>1, <2>2
  <1>12. CASE \/ Heartbeat(r, t) \/ HeartbeatFails(r, t)
              \/ HeartbeatMark(r, t) \/ HeartbeatRelease(r, t)
              \/ HeartbeatStop(r, t)
    <2>1. e.pc = exec[r][t].pc
      BY <1>2, <1>12 DEF Heartbeat, HeartbeatFails, HeartbeatMark,
                         HeartbeatRelease, HeartbeatStop, TypeOK, Exec
    <2>2. exec[r][t].released => e.released
      BY <1>2, <1>12, SMTT(30) DEF Heartbeat, HeartbeatFails, HeartbeatMark,
                         HeartbeatRelease, HeartbeatStop, TypeOK, Exec
    <2> QED
      BY <1>1, <2>1, <2>2
  <1> QED
    BY <1>4, <1>5, <1>6, <1>7, <1>8, <1>9, <1>10, <1>11, <1>12 DEF ExecStep

(* Only a step of an execution, a dispatch or a crash writes executions.     *)
LEMMA ExecFrame ==
    ASSUME Next
    PROVE  \/ exec' = exec
           \/ \E r \in Runners, t \in Tasks : ExecStep(r, t)
           \/ \E r \in Runners : Dispatch(r) \/ Crash(r)
  BY DEF Next, ClaimStep, ClaimRead, Acquire, AcquireFails, AcquireOvertaken,
         ClaimCheck, ClaimWrite, ClaimUpdateFails, ReadBackFails, ClaimRelease,
         ClaimMark, CreateSystemTask, CancelSystemTask, RecoverOrphan,
         DeleteHistory, ExpireStaleLock, CleanupInactiveLock, LeaseExpires

(* How one execution may change in a step of the system.                     *)
LEMMA ExecChange ==
    ASSUME TypeOK, Next, NEW r \in Runners, NEW t \in Tasks
    PROVE  \/ exec'[r][t] = exec[r][t]
           \/ ExecStep(r, t) /\ ExecEffect(r, t, exec'[r][t])
           \/ Dispatch(r) /\ claim[r].task = t /\ exec'[r][t] = NewExec("start")
           \/ /\ Crash(r) /\ ~At(r, t, "none")
              /\ exec'[r][t] = NewExec("dead")
  <1>1. ASSUME NEW q \in Runners, NEW u \in Tasks, ExecStep(q, u)
        PROVE  \/ exec'[r][t] = exec[r][t]
               \/ ExecStep(r, t) /\ ExecEffect(r, t, exec'[r][t])
    <2>1. PICK e \in Exec : ExecEffect(q, u, e)
      BY <1>1, ExecShape
    <2>2. exec' = [exec EXCEPT ![q][u] = e]
      BY <2>1 DEF ExecEffect
    <2>3. CASE q = r /\ u = t
      <3>1. exec'[r][t] = e
        BY <2>2, <2>3 DEF TypeOK
      <3> QED
        BY <1>1, <2>1, <2>3, <3>1
    <2>4. CASE q # r \/ u # t
      BY <2>2, <2>4 DEF TypeOK
    <2> QED
      BY <2>3, <2>4
  <1>2. ASSUME NEW q \in Runners, Dispatch(q)
        PROVE  \/ exec'[r][t] = exec[r][t]
               \/ /\ Dispatch(r) /\ claim[r].task = t
                  /\ exec'[r][t] = NewExec("start")
    <2>1. claim[q].task \in Tasks
      BY <1>2, ClaimTyped DEF Dispatch
    <2> QED
      BY <1>2, <2>1 DEF Dispatch, TypeOK
  <1>3. ASSUME NEW q \in Runners, Crash(q)
        PROVE  \/ exec'[r][t] = exec[r][t]
               \/ Crash(r) /\ ~At(r, t, "none") /\ exec'[r][t] = NewExec("dead")
    BY <1>3 DEF Crash, TypeOK
  <1> QED
    BY ExecFrame, <1>1, <1>2, <1>3

(* How a claim may change in a step of the system.                           *)
LEMMA ClaimChange ==
    ASSUME TypeOK, Next, NEW r \in Runners
    PROVE  \/ claim'[r] = claim[r] /\ ~Dispatch(r)
           \/ claim'[r] = IdleClaim
           \/ /\ claim'[r].pc \in {"locked", "checked", "drop"}
              /\ claim[r].pc # "idle" /\ claim'[r].task = claim[r].task
              /\ ~Dispatch(r)
           \/ Started(r) /\ claim'[r] = [claim[r] EXCEPT !.pc = "won"]
           \/ /\ claim[r].pc \in {"won", "giveUp"} /\ UNCHANGED <<rows, exec>>
              /\ claim'[r].pc \in {"giveUp", "fail"}
              /\ claim'[r].task = claim[r].task
           \/ \E t \in Tasks : ClaimRead(r, t)
  <1>1. CASE claim' = claim
    <2>1. Dispatch(r) => claim'[r] = IdleClaim
      BY DEF Dispatch, Leave, TypeOK
    <2> QED
      BY <1>1, <2>1
  <1>2. CASE \E q \in Runners : Crash(q)
    <2>1. ~Dispatch(r) \/ claim'[r] = IdleClaim
      BY DEF Dispatch, Leave, TypeOK
    <2> QED
      BY <1>2, <2>1 DEF Crash, TypeOK
  <1>3. ASSUME NEW q \in Runners \ {r}, ClaimStep(q) PROVE claim'[r] = claim[r]
    BY <1>3 DEF ClaimStep, ClaimRead, Acquire, AcquireFails, AcquireOvertaken,
         ClaimCheck, ClaimWrite, ClaimUpdateFails, Dispatch, ReadBackFails,
         ClaimRelease, ClaimMark, To, Leave, TypeOK
  <1>4. Dispatch(r) => claim'[r] = IdleClaim
    BY DEF Dispatch, Leave, TypeOK
  <1>5. ASSUME NEW p, To(r, p), claim[r].pc # "idle"
        PROVE  /\ claim'[r] = [claim[r] EXCEPT !.pc = p]
               /\ claim'[r].pc = p /\ claim'[r].task = claim[r].task
    BY <1>5, ClaimTyped DEF To, TypeOK, Claim
  <1>6. CASE AcquireFails(r) \/ AcquireOvertaken(r) \/ Dispatch(r)
             \/ ClaimMark(r)
    BY <1>6 DEF AcquireFails, AcquireOvertaken, Dispatch, ClaimMark, Leave,
                TypeOK
  <1>7. CASE Acquire(r) \/ ClaimCheck(r) \/ ClaimUpdateFails(r)
    <2>1. /\ claim'[r].pc \in {"locked", "checked", "drop"}
          /\ claim[r].pc # "idle" /\ claim'[r].task = claim[r].task
      BY <1>5, <1>7 DEF Acquire, ClaimCheck, ClaimUpdateFails
    <2> QED
      BY <1>4, <2>1 DEF IdleClaim
  <1>8. CASE ClaimWrite(r)
    <2>1. CASE status[claim[r].task] = "pending"
      BY <1>5, <1>8, <2>1 DEF ClaimWrite, Started
    <2>2. CASE status[claim[r].task] # "pending"
      <3>1. /\ claim'[r].pc = "drop" /\ claim[r].pc # "idle"
            /\ claim'[r].task = claim[r].task
        BY <1>5, <1>8, <2>2 DEF ClaimWrite
      <3> QED
        BY <1>4, <3>1 DEF IdleClaim
    <2> QED
      BY <2>1, <2>2
  <1>9. CASE ReadBackFails(r)
    BY <1>5, <1>9 DEF ReadBackFails
  <1>10. CASE ClaimRelease(r)
    <2>1. CASE claim[r].pc = "drop"
      BY <1>10, <2>1 DEF ClaimRelease, Leave, TypeOK
    <2>2. CASE claim[r].pc = "giveUp"
      BY <1>5, <1>10, <2>2 DEF ClaimRelease
    <2> QED
      BY <1>10, <2>1, <2>2 DEF ClaimRelease
  <1>11. ClaimStep(r) => \/ \E t \in Tasks : ClaimRead(r, t)
                         \/ Acquire(r) \/ AcquireFails(r) \/ AcquireOvertaken(r)
                         \/ ClaimCheck(r) \/ ClaimWrite(r) \/ ClaimUpdateFails(r)
                         \/ Dispatch(r) \/ ReadBackFails(r)
                         \/ ClaimRelease(r) \/ ClaimMark(r)
    BY DEF ClaimStep
  <1>12. CASE ClaimStep(r)
    BY <1>6, <1>7, <1>8, <1>9, <1>10, <1>11, <1>12
  <1>13. CASE \E q \in Runners \ {r} : ClaimStep(q)
    BY <1>3, <1>4, <1>13
  <1>14. ASSUME NEW q \in Runners, NEW t \in Tasks, ExecStep(q, t)
         PROVE  claim' = claim
    BY <1>14
    DEF ExecStep, StartHandler, StartFails, StateSaved, StateRefused,
        DeleteBatch, HandlerError, FinishSystemTask, UnwindMark,
        UnwindRelease, Heartbeat, HeartbeatFails, HeartbeatMark,
        HeartbeatRelease, HeartbeatStop
  <1>15. ASSUME \/ \E t \in Tasks : CreateSystemTask(t) \/ CancelSystemTask(t)
                                   \/ RecoverOrphan(t) \/ DeleteHistory(t)
                \/ ExpireStaleLock \/ CleanupInactiveLock \/ LeaseExpires
         PROVE  claim' = claim
    BY <1>15
    DEF CreateSystemTask, CancelSystemTask, RecoverOrphan, DeleteHistory,
        ExpireStaleLock, CleanupInactiveLock, LeaseExpires
  <1>16. \/ claim' = claim
         \/ \E q \in Runners : ClaimStep(q) \/ Crash(q)
    BY <1>14, <1>15 DEF Next
  <1> QED
    BY <1>1, <1>2, <1>12, <1>13, <1>16

-----------------------------------------------------------------------------
(* The inductive invariant, part by part.                                    *)

(* active_key stays on the pending or running row, and there is one.         *)
LEMMA KeysStep ==
    ASSUME TypeOK, KeysMatch, Next
    PROVE  KeysMatch'
  <1> USE DEF KeysMatch, ActiveStatus
  <1>1. CASE UNCHANGED rows
    BY <1>1 DEF rows
  <1>2. ASSUME NEW t \in Tasks, Ended(t) PROVE KeysMatch'
    BY <1>2 DEF Ended, End, TypeOK
  <1>3. ASSUME NEW t \in Tasks, CreateSystemTask(t) PROVE KeysMatch'
    <2>1. keyed = {} /\ keyed' = {t}
      BY <1>3 DEF CreateSystemTask
    <2> QED
      BY <1>3, <2>1 DEF CreateSystemTask, TypeOK
  <1>4. ASSUME NEW t \in Tasks, DeleteHistory(t) PROVE KeysMatch'
    BY <1>4 DEF DeleteHistory, TypeOK, Terminal
  <1>5. ASSUME NEW r \in Runners, Started(r) PROVE KeysMatch'
    <2>1. claim[r].task \in Tasks
      BY <1>5, ClaimTyped DEF Started, ClaimWrite
    <2> QED
      BY <1>5, <2>1 DEF Started, ClaimWrite, TypeOK
  <1> QED
    BY <1>1, <1>2, <1>3, <1>4, <1>5, RowShape DEF RowStep

(* A row gets its owner once, and never goes back to an earlier status.      *)
LEMMA RowProgress ==
    ASSUME TypeOK, Unowned, Next, NEW t \in Tasks
    PROVE  /\ owner[t] # NoRunner => owner'[t] = owner[t]
           /\ status'[t] \in {"absent", "pending"} => owner'[t] = NoRunner
           /\ status'[t] \in {"absent", "pending", "running"}
                => status[t] \in {"absent", "pending", "running"}
           /\ (status'[t] = "running" /\ status[t] # "running")
                => /\ exec' = exec
                   /\ owner[t] = NoRunner
  <1> USE DEF Unowned
  <1>1. CASE UNCHANGED rows
    BY <1>1 DEF rows
  <1>2. CASE \E u \in Tasks : Ended(u)
    BY <1>2 DEF Ended, End, TypeOK, ActiveStatus
  <1>3. CASE \E u \in Tasks : CreateSystemTask(u)
    BY <1>3 DEF CreateSystemTask, TypeOK
  <1>4. CASE \E u \in Tasks : DeleteHistory(u)
    BY <1>4 DEF DeleteHistory, TypeOK
  <1>5. ASSUME NEW r \in Runners, Started(r)
        PROVE  /\ owner[t] # NoRunner => owner'[t] = owner[t]
               /\ status'[t] \in {"absent", "pending"} => owner'[t] = NoRunner
               /\ status'[t] \in {"absent", "pending", "running"}
                    => status[t] \in {"absent", "pending", "running"}
               /\ (status'[t] = "running" /\ status[t] # "running")
                    => /\ exec' = exec
                       /\ owner[t] = NoRunner
    <2>1. claim[r].task \in Tasks
      BY <1>5, ClaimTyped DEF Started, ClaimWrite
    <2> QED
      BY <1>5, <2>1 DEF Started, ClaimWrite, TypeOK
  <1> QED
    BY <1>1, <1>2, <1>3, <1>4, <1>5, RowShape DEF RowStep

(* Executions stay with the owner of the row.                                *)
LEMMA ExecByOwnerStep ==
    ASSUME TypeOK, TaskInv, Next
    PROVE  ExecByOwner'
  <1> SUFFICES ASSUME NEW r \in Runners, NEW t \in Tasks, ~At(r, t, "none")'
               PROVE  owner'[t] = r
    BY DEF ExecByOwner
  <1>1. r # NoRunner
    BY SystemTasksAssumption
  <1>2. CASE ~At(r, t, "none")
    BY <1>1, <1>2, RowProgress DEF TaskInv, ExecByOwner
  <1>3. CASE At(r, t, "none")
    <2>1. Dispatch(r) /\ claim[r].task = t
      BY <1>3, ExecChange DEF At, ExecEffect
    <2>2. claim[r].pc = "won"
      BY <2>1 DEF Dispatch
    <2>3. owner[t] = r
      BY <2>1, <2>2 DEF TaskInv, ClaimBeforeExec
    <2> QED
      BY <2>3, <1>1, RowProgress DEF TaskInv
  <1> QED
    BY <1>2, <1>3

(* A runner never claims what it executes; a won claim stays owned.          *)
LEMMA ClaimBeforeExecStep ==
    ASSUME TypeOK, TaskInv, Next
    PROVE  ClaimBeforeExec'
  <1> SUFFICES ASSUME NEW r \in Runners, claim'[r].pc # "idle"
               PROVE  /\ exec'[r][claim'[r].task].pc = "none"
                      /\ claim'[r].pc \in {"won", "giveUp", "fail"}
                            => owner'[claim'[r].task] = r
    BY DEF ClaimBeforeExec, At
  <1> DEFINE t == claim'[r].task
  <1>0. r # NoRunner /\ claim'[r] # IdleClaim
    BY SystemTasksAssumption DEF IdleClaim
  <1>1. ASSUME t \in Tasks, At(r, t, "none"), ~Dispatch(r)
        PROVE  exec'[r][t].pc = "none"
    BY <1>1, ExecChange DEF At, ExecEffect
  <1>2. CASE claim'[r] = claim[r] /\ ~Dispatch(r)
    <2>1. t \in Tasks /\ t = claim[r].task
      BY <1>2, ClaimTyped
    <2>2. At(r, t, "none")
      BY <1>2 DEF TaskInv, ClaimBeforeExec
    <2>3. claim'[r].pc \in {"won", "giveUp", "fail"} => owner[t] = r
      BY <1>2 DEF TaskInv, ClaimBeforeExec
    <2> QED
      BY <1>0, <1>1, <1>2, <2>1, <2>2, <2>3, RowProgress DEF TaskInv
  <1>3. CASE /\ claim'[r].pc \in {"locked", "checked", "drop"}
             /\ claim[r].pc # "idle" /\ claim'[r].task = claim[r].task
             /\ ~Dispatch(r)
    <2>1. t \in Tasks /\ At(r, t, "none")
      BY <1>3, ClaimTyped DEF TaskInv, ClaimBeforeExec
    <2> QED
      BY <1>1, <1>3, <2>1
  <1>4. CASE Started(r) /\ claim'[r] = [claim[r] EXCEPT !.pc = "won"]
    <2>1. claim[r].pc # "idle" /\ claim[r].task \in Tasks
      BY <1>4, ClaimTyped DEF Started, ClaimWrite
    <2>2. t = claim[r].task
      BY <1>4, <2>1, ClaimTyped DEF Claim
    <2>3. At(r, t, "none") /\ exec' = exec
      BY <1>4, <2>1, <2>2 DEF TaskInv, ClaimBeforeExec, Started, ClaimWrite
    <2>4. owner'[t] = r
      BY <1>4, <2>1, <2>2 DEF Started, ClaimWrite, TypeOK
    <2> QED
      BY <2>3, <2>4 DEF At
  <1>5. CASE /\ claim[r].pc \in {"won", "giveUp"} /\ UNCHANGED <<rows, exec>>
             /\ claim'[r].pc \in {"giveUp", "fail"}
             /\ claim'[r].task = claim[r].task
    BY <1>5 DEF TaskInv, ClaimBeforeExec, At, rows
  <1>6. ASSUME NEW u \in Tasks, ClaimRead(r, u)
        PROVE  /\ exec'[r][t].pc = "none"
               /\ claim'[r].pc = "read"
    <2>1. claim'[r] = [pc |-> "read", task |-> u]
      BY <1>6 DEF ClaimRead, TypeOK
    <2>2. owner[u] = NoRunner
      BY <1>6 DEF ClaimRead, TaskInv, Unowned
    <2>3. At(r, u, "none")
      BY <1>0, <2>2 DEF TaskInv, ExecByOwner
    <2>4. exec' = exec
      BY <1>6 DEF ClaimRead
    <2> QED
      BY <2>1, <2>3, <2>4 DEF At
  <1> QED
    BY <1>0, <1>2, <1>3, <1>4, <1>5, <1>6, ClaimChange

(* Only a batch moves the history variable.                                  *)
LEMMA LateFrame ==
    ASSUME Next
    PROVE  \/ late' = late
           \/ \E r \in Runners, t \in Tasks : DeleteBatch(r, t)
  <1>1. ASSUME NEW r \in Runners, NEW t \in Tasks, ExecStep(r, t)
        PROVE  late' = late \/ DeleteBatch(r, t)
    BY <1>1
    DEF ExecStep, StartHandler, StartFails, StateSaved, StateRefused,
        HandlerError, FinishSystemTask, UnwindMark, UnwindRelease, Heartbeat,
        HeartbeatFails, HeartbeatMark, HeartbeatRelease, HeartbeatStop
  <1>2. ASSUME NEW r \in Runners, ClaimStep(r) \/ Crash(r) PROVE late' = late
    BY <1>2
    DEF ClaimStep, ClaimRead, Acquire, AcquireFails, AcquireOvertaken,
        ClaimCheck, ClaimWrite, ClaimUpdateFails, Dispatch, ReadBackFails,
        ClaimRelease, ClaimMark, Crash
  <1>3. ASSUME \/ \E t \in Tasks : CreateSystemTask(t) \/ CancelSystemTask(t)
                                  \/ RecoverOrphan(t) \/ DeleteHistory(t)
               \/ ExpireStaleLock \/ CleanupInactiveLock \/ LeaseExpires
        PROVE  late' = late
    BY <1>3
    DEF CreateSystemTask, CancelSystemTask, RecoverOrphan, DeleteHistory,
        ExpireStaleLock, CleanupInactiveLock, LeaseExpires
  <1> QED
    BY <1>1, <1>2, <1>3 DEF Next

(* The fence: the batch after which a task is late is its last.              *)
LEMMA LateStep ==
    ASSUME TypeOK, TaskInv, Next
    PROVE  LateInv'
  <1> SUFFICES ASSUME NEW t \in Tasks
               PROVE  /\ late'[t] \in {0, 1}
                      /\ status'[t] \in {"absent", "pending", "running"}
                            => late'[t] = 0
                      /\ \A r \in Runners : At(r, t, "work")' => late'[t] = 0
    BY DEF LateInv
  <1>1. /\ late[t] \in {0, 1}
        /\ status[t] \in {"absent", "pending", "running"} => late[t] = 0
        /\ \A r \in Runners : At(r, t, "work") => late[t] = 0
    BY DEF TaskInv, LateInv
  <1>2. status'[t] \in {"absent", "pending", "running"} => late[t] = 0
    BY <1>1, RowProgress DEF TaskInv
  <1>3. ASSUME NEW r \in Runners, At(r, t, "work")'
        PROVE  At(r, t, "work") \/ status[t] = "running"
    BY <1>3, ExecChange DEF At, ExecEffect, NewExec, Owns
  <1>4. CASE late'[t] = late[t]
    BY <1>1, <1>2, <1>3, <1>4
  <1>5. ASSUME NEW q \in Runners, DeleteBatch(q, t), late'[t] # late[t]
        PROVE  /\ late'[t] = 1
               /\ status'[t] \notin {"absent", "pending", "running"}
               /\ \A r \in Runners : ~At(r, t, "work")'
    <2>1. late[t] = 0 /\ ~At(q, t, "none")
      BY <1>1, <1>5 DEF DeleteBatch, At
    <2>2. status[t] # "running" /\ late'[t] = late[t] + 1
      BY <1>5 DEF DeleteBatch, TypeOK
    <2>3. owner[t] = q /\ q # NoRunner
      BY <2>1, SystemTasksAssumption DEF TaskInv, ExecByOwner
    <2>4. status[t] \notin {"absent", "pending"} /\ status' = status
      BY <1>5, <2>3 DEF TaskInv, Unowned, DeleteBatch, rows
    <2>5. ASSUME NEW r \in Runners, At(r, t, "work")' PROVE FALSE
      <3>1. At(r, t, "work") \/ r = q
        BY <2>2, <2>5, <1>3
      <3>2. r = q
        BY <3>1, <2>3 DEF TaskInv, ExecByOwner, At
      <3>3. exec'[q][t].pc = "check"
        BY <1>5 DEF DeleteBatch, Goto, TypeOK, Exec
      <3> QED
        BY <2>5, <3>2, <3>3 DEF At
    <2> QED
      BY <2>1, <2>2, <2>4, <2>5
  <1>6. CASE late'[t] # late[t]
    <2>1. \E q \in Runners : DeleteBatch(q, t)
      BY <1>6, LateFrame DEF DeleteBatch, TypeOK
    <2> QED
      BY <1>5, <1>6, <2>1
  <1> QED
    BY <1>4, <1>6

(* The inductive invariant: one step.                                        *)
LEMMA TaskInvStep == TypeOK /\ TaskInv /\ [Next]_vars => TaskInv'
  <1>1. ASSUME TypeOK, TaskInv, Next PROVE TaskInv'
    <2>1. KeysMatch'
      BY <1>1, KeysStep DEF TaskInv
    <2>2. Unowned'
      BY <1>1, RowProgress DEF TaskInv, Unowned
    <2> QED
      BY <1>1, <2>1, <2>2, ClaimBeforeExecStep, ExecByOwnerStep, LateStep
      DEF TaskInv
  <1>2. ASSUME TaskInv, UNCHANGED vars PROVE TaskInv'
    BY <1>2 DEF vars, TaskInv, KeysMatch, Unowned, ClaimBeforeExec,
                ExecByOwner, LateInv, At
  <1> QED
    BY <1>1, <1>2

(* The inductive invariant holds at the start.                               *)
LEMMA TaskInvInit == Init => TaskInv
  BY DEF Init, TaskInv, KeysMatch, Unowned, ClaimBeforeExec, ExecByOwner,
         LateInv, At, NewExec, IdleClaim, ActiveStatus

(* For any number of tasks and runners: the active_key marks the one pending *)
(* or running row, and rows, claims and executions agree on the owner.       *)
THEOREM TaskInvHolds == Spec => []TaskInv
  BY TasksTypeCorrect, TaskInvInit, TaskInvStep, PTL DEF Spec

(* A task's handler is started by at most one runner (ClaimSystemTask).      *)
THEOREM ExecutedOnce == Spec => []ExecutedByOneRunner
  <1>1. TaskInv => ExecutedByOneRunner
    BY DEF TaskInv, ExecByOwner, ExecutedByOneRunner
  <1> QED
    BY <1>1, TaskInvHolds, PTL

(* The log cleanup's fence lets at most one late batch through               *)
(* (UpdateSystemTaskState, runLogCleanupTask).                               *)
THEOREM LateBatchBounded == Spec => []AtMostOneLateBatch
  <1>1. TaskInv => AtMostOneLateBatch
    <2> SUFFICES ASSUME LateInv, NEW t \in Tasks PROVE late[t] <= 1
      BY DEF TaskInv, AtMostOneLateBatch
    <2>1. late[t] = 0 \/ late[t] = 1
      BY DEF LateInv
    <2> QED
      BY <2>1
  <1> QED
    BY <1>1, TaskInvHolds, PTL

-----------------------------------------------------------------------------
(* The lease.                                                                *)

(* The lock row survives every step that leaves its task running, unless its *)
(* own runner releases it.                                                   *)
LEMMA LeaseStep ==
    ASSUME TypeOK, Next, NEW t \in Tasks, NEW r \in Runners,
           Owns(t, r), HeldBy(t, r)
    PROVE  HeldBy(t, r)' \/ status'[t] # "running" \/ GivesUp(r, t)
  <1> DEFINE Goal == HeldBy(t, r)' \/ status'[t] # "running" \/ GivesUp(r, t)
  <1>0. lock # NoLock /\ lock.task = t /\ lock.by = r /\ lock \in Lock
    BY DEF HeldBy, TypeOK
  <1>1. CASE lock' = lock
    BY <1>1 DEF HeldBy
  <1>2. ASSUME NEW b \in BOOLEAN, lock' = [lock EXCEPT !.live = b] PROVE Goal
    <2>1. lock'.task = t /\ lock'.by = r /\ lock' \in Lock
      BY <1>0, <1>2 DEF Lock
    <2>2. lock' # NoLock
      BY <2>1, SystemTasksAssumption DEF Lock
    <2> QED
      BY <2>1, <2>2 DEF HeldBy
  <1>3. ASSUME NEW s, s # "running", End(t, s) PROVE Goal
    BY <1>3 DEF End, TypeOK
  <1>4. ASSUME NEW u \in Tasks, NEW q \in Runners, lock' = Without(u, q),
               (u = t /\ q = r) => Goal
        PROVE  Goal
    BY <1>0, <1>1, <1>4 DEF Without, HeldBy
  <1>5. ASSUME NEW u \in Tasks, NEW q \in Runners, MarkFailedForRunner(u, q)
        PROVE  Goal
    <2>1. CASE Owns(u, q)
      <3>1. End(u, "failed") /\ lock' = Without(u, q)
        BY <1>5, <2>1 DEF MarkFailedForRunner
      <3> QED
        BY <1>3, <1>4, <3>1
    <2>2. CASE ~Owns(u, q)
      BY <1>1, <1>5, <2>2 DEF MarkFailedForRunner
    <2> QED
      BY <2>1, <2>2
  <1>6. ASSUME NEW q \in Runners, TakeLock(q) PROVE Goal
    <2>1. ~lock.live
      BY <1>0, <1>6 DEF TakeLock, Blocked, Owns
    <2>2. End(t, "failed")
      BY <1>0, <1>6, <2>1 DEF TakeLock, OldRunExpired, Owns
    <2> QED
      BY <1>3, <2>2
  <1>7. ASSUME NEW q \in Runners, ClaimStep(q) PROVE Goal
    <2>1. CASE (\E u \in Tasks : ClaimRead(q, u)) \/ ClaimCheck(q)
               \/ ClaimWrite(q) \/ ClaimUpdateFails(q) \/ Dispatch(q)
               \/ ReadBackFails(q)
      <3>1. lock' = lock
        BY <2>1 DEF ClaimRead, ClaimCheck, ClaimWrite, ClaimUpdateFails,
                    Dispatch, ReadBackFails
      <3> QED
        BY <1>1, <3>1
    <2>2. CASE Acquire(q) \/ AcquireFails(q)
      BY <1>1, <1>6, <2>2 DEF Acquire, AcquireFails
    <2>3. CASE AcquireOvertaken(q)
      BY <1>0, <1>3, <2>3 DEF AcquireOvertaken
    <2>4. CASE ClaimRelease(q)
      <3>1. claim[q].task \in Tasks
        BY <2>4, ClaimTyped DEF ClaimRelease
      <3>2. (claim[q].task = t /\ q = r) => Goal
        BY <2>4 DEF ClaimRelease, GivesUp
      <3> QED
        BY <1>1, <1>4, <2>4, <3>1, <3>2 DEF ClaimRelease
    <2>5. CASE ClaimMark(q)
      <3>1. claim[q].task \in Tasks
        BY <2>5, ClaimTyped DEF ClaimMark
      <3> QED
        BY <1>1, <1>5, <2>5, <3>1 DEF ClaimMark
    <2> QED
      BY <1>7, <2>1, <2>2, <2>3, <2>4, <2>5 DEF ClaimStep
  <1>8. ASSUME NEW q \in Runners, NEW u \in Tasks, ExecStep(q, u) PROVE Goal
    <2>1. CASE StartHandler(q, u) \/ Heartbeat(q, u)
      <3>1. lock' = [lock EXCEPT !.live = TRUE]
        BY <2>1 DEF StartHandler, Heartbeat, Renew, Renewed
      <3> QED
        BY <1>2, <3>1
    <2>2. CASE FinishSystemTask(q, u)
      <3>1. CASE lock' = lock
        BY <1>1, <3>1
      <3>2. CASE status[u] \in Terminal /\ lock' = Without(u, q)
        <4>1. u # t
          BY <3>2 DEF Owns, Terminal
        <4> QED
          BY <1>4, <3>2, <4>1
      <3>3. CASE /\ HeldBy(u, q)
                 /\ \E s \in {"succeeded", "failed"} : End(u, s)
        BY <1>0, <1>3, <3>3 DEF HeldBy
      <3> QED
        BY <2>2, <3>1, <3>2, <3>3 DEF FinishSystemTask, FinishTx
    <2>3. CASE UnwindMark(q, u) \/ HeartbeatMark(q, u)
      BY <1>1, <1>5, <2>3 DEF UnwindMark, HeartbeatMark, MarkOnce
    <2>4. CASE UnwindRelease(q, u) \/ HeartbeatRelease(q, u)
      <3>1. exec'[q][u].released
        BY <2>4 DEF UnwindRelease, HeartbeatRelease, TypeOK, Exec
      <3>2. lock' = lock \/ (~exec[q][u].released /\ lock' = Without(u, q))
        BY <2>4 DEF UnwindRelease, HeartbeatRelease, ReleaseOnce
      <3>3. (~exec[q][u].released /\ u = t /\ q = r) => Goal
        BY <3>1 DEF GivesUp
      <3> QED
        BY <1>1, <1>4, <3>2, <3>3
    <2>5. CASE StartFails(q, u) \/ StateSaved(q, u) \/ StateRefused(q, u)
               \/ DeleteBatch(q, u) \/ HandlerError(q, u)
               \/ HeartbeatFails(q, u) \/ HeartbeatStop(q, u)
      <3>1. lock' = lock
        BY <2>5 DEF StartFails, StateSaved, StateRefused, DeleteBatch,
                    HandlerError, HeartbeatFails, HeartbeatStop
      <3> QED
        BY <1>1, <3>1
    <2> QED
      BY <1>8, <2>1, <2>2, <2>3, <2>4, <2>5 DEF ExecStep
  <1>9. ASSUME NEW u \in Tasks, CancelSystemTask(u) PROVE Goal
    <2>1. CASE u = t
      BY <1>3, <1>9, <2>1 DEF CancelSystemTask, Owns, ActiveStatus
    <2>2. CASE u # t
      BY <1>0, <1>1, <1>9, <2>2 DEF CancelSystemTask
    <2> QED
      BY <2>1, <2>2
  <1>10. ASSUME NEW u \in Tasks, RecoverOrphan(u) PROVE Goal
    <2>1. lock' = lock \/ lock' = [lock EXCEPT !.live = TRUE]
      BY <1>10 DEF RecoverOrphan, Renewed
    <2> QED
      BY <1>1, <1>2, <2>1
  <1>11. ASSUME NEW u \in Tasks, CreateSystemTask(u) \/ DeleteHistory(u)
         PROVE  Goal
    BY <1>1, <1>11 DEF CreateSystemTask, DeleteHistory
  <1>12. CASE ExpireStaleLock
    BY <1>0, <1>3, <1>12 DEF ExpireStaleLock
  <1>13. CASE CleanupInactiveLock
    BY <1>0, <1>13 DEF CleanupInactiveLock, Owns, ActiveStatus
  <1>14. CASE LeaseExpires
    BY <1>2, <1>14 DEF LeaseExpires
  <1>15. ASSUME NEW q \in Runners, Crash(q) PROVE Goal
    BY <1>1, <1>15 DEF Crash
  <1> QED
    BY <1>7, <1>8, <1>9, <1>10, <1>11, <1>12, <1>13, <1>14, <1>15 DEF Next

(* A running task loses its owner's lease only with its running status or by *)
(* its owner's own hand (ReleaseSystemTaskLock and every sweep).             *)
THEOREM LeaseKept == Spec => LeaseEndsWithTask
  <1>1. TypeOK /\ [Next]_vars =>
            [\A t \in Tasks, r \in Runners :
                (Owns(t, r) /\ HeldBy(t, r) /\ ~HeldBy(t, r)')
                    => status'[t] # "running" \/ GivesUp(r, t)]_vars
    BY LeaseStep
  <1> QED
    BY <1>1, TasksTypeCorrect, PTL DEF Spec, LeaseEndsWithTask

(* One step keeps the handler's lock row.                                    *)
LEMMA KeepsLeaseStep ==
    ASSUME TypeOK, TaskInv, ExecutorKeepsLease, Next
    PROVE  ExecutorKeepsLease'
  <1> SUFFICES ASSUME NEW t \in Tasks, NEW r \in Runners,
                      exec'[r][t].pc \in Handling, ~exec'[r][t].released,
                      status'[t] = "running"
               PROVE  HeldBy(t, r)'
    BY DEF ExecutorKeepsLease
  <1>1. \/ exec[r][t].pc \in Handling /\ ~exec[r][t].released
        \/ StartHandler(r, t)
    BY ExecChange DEF ExecEffect, NewExec, Handling
  <1>2. CASE StartHandler(r, t)
    <2>1. HeldBy(t, r) /\ lock' = [lock EXCEPT !.live = TRUE]
      BY <1>2 DEF StartHandler, Renew, Renewed
    <2>2. lock' \in Lock /\ lock'.task = t /\ lock'.by = r
      BY <2>1 DEF HeldBy, TypeOK, Lock
    <2>3. lock' # NoLock
      BY <2>2, SystemTasksAssumption DEF Lock
    <2> QED
      BY <2>2, <2>3 DEF HeldBy
  <1>3. CASE exec[r][t].pc \in Handling /\ ~exec[r][t].released
    <2>1. ~At(r, t, "none") /\ owner[t] = r /\ r # NoRunner
      BY <1>3, SystemTasksAssumption
      DEF At, Handling, TaskInv, ExecByOwner
    <2>2. status[t] = "running"
      BY <2>1, RowProgress DEF TaskInv
    <2>3. Owns(t, r) /\ HeldBy(t, r)
      BY <1>3, <2>1, <2>2 DEF Owns, ExecutorKeepsLease
    <2>4. ~GivesUp(r, t)
      BY <2>1 DEF GivesUp, TaskInv, ClaimBeforeExec
    <2> QED
      BY <2>3, <2>4, LeaseStep
  <1> QED
    BY <1>1, <1>2, <1>3

(* While a task runs and its handler works, the lock row is the handler's    *)
(* (acquireSystemTaskLock, ExpireStaleSystemTaskLocks).                      *)
THEOREM ExecutorHoldsLease == Spec => []ExecutorKeepsLease
  <1>1. Init => ExecutorKeepsLease
    BY DEF Init, ExecutorKeepsLease, NewExec, Handling
  <1>2. /\ TypeOK /\ TaskInv /\ ExecutorKeepsLease
        /\ [Next]_vars
        => ExecutorKeepsLease'
    <2>1. ASSUME ExecutorKeepsLease, UNCHANGED vars PROVE ExecutorKeepsLease'
      BY <2>1 DEF vars, ExecutorKeepsLease, HeldBy
    <2> QED
      BY <2>1, KeepsLeaseStep
  <1> QED
    BY <1>1, <1>2, TasksTypeCorrect, TaskInvHolds, PTL DEF Spec

-----------------------------------------------------------------------------
(* The rows implement the slot of the active_key: one active task, one owner *)
(* for life, one outcome (CreateSystemTaskWithActiveKey, ClaimSystemTask,    *)
(* FinishSystemTask, CancelSystemTask).                                      *)
THEOREM TasksRefineSlot == Spec => ImplementsSlot
  <1>1. Init => Slot!Init
    BY DEF Init, Slot!Init
  <1>2. TypeOK /\ TaskInv /\ [Next]_vars => [Slot!Next]_<<status, owner>>
    <2> SUFFICES ASSUME TypeOK, TaskInv, Next
                 PROVE  Slot!Next \/ UNCHANGED <<status, owner>>
      BY DEF vars
    <2>1. CASE UNCHANGED rows
      BY <2>1 DEF rows
    <2>2. ASSUME NEW t \in Tasks, Ended(t) PROVE Slot!Next
      <3>1. Slot!Finish(t)
        BY <2>2 DEF Ended, End, Slot!Finish, ActiveStatus
      <3> QED
        BY <3>1 DEF Slot!Next
    <2>3. ASSUME NEW t \in Tasks, CreateSystemTask(t) PROVE Slot!Next
      <3>1. Slot!Free
        BY <2>3 DEF CreateSystemTask, TaskInv, KeysMatch, Slot!Free,
                    ActiveStatus
      <3>2. Slot!Queue(t)
        BY <2>3, <3>1 DEF CreateSystemTask, Slot!Queue
      <3> QED
        BY <3>2 DEF Slot!Next
    <2>4. ASSUME NEW t \in Tasks, DeleteHistory(t) PROVE Slot!Next
      <3>1. Slot!Forget(t)
        BY <2>4 DEF DeleteHistory, Slot!Forget, Terminal
      <3> QED
        BY <3>1 DEF Slot!Next
    <2>5. ASSUME NEW r \in Runners, Started(r) PROVE Slot!Next
      <3>1. claim[r].task \in Tasks
        BY <2>5, ClaimTyped DEF Started, ClaimWrite
      <3>2. Slot!Start(claim[r].task)
        BY <2>5 DEF Started, ClaimWrite, Slot!Start
      <3> QED
        BY <3>1, <3>2 DEF Slot!Next
    <2> QED
      BY <2>1, <2>2, <2>3, <2>4, <2>5, RowShape DEF RowStep
  <1> QED
    BY <1>1, <1>2, TasksTypeCorrect, TaskInvHolds, PTL
    DEF Spec, ImplementsSlot, Slot!Spec, Slot!slot
=============================================================================
