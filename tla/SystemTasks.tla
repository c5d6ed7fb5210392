---------------------------- MODULE SystemTasks ----------------------------
(***************************************************************************)
(* The background tasks of one lock type: rows of system_tasks, the one    *)
(* row of system_task_locks that carries the lease, and the runners of the *)
(* master nodes that queue, claim, execute, renew, sweep and recover       *)
(* (model/system_task.go, service/system_task.go).  The handler is the log *)
(* cleanup: it deletes in batches that no transaction ties to the lease.   *)
(*                                                                         *)
(* A transaction is one step.  A claim is four: read, acquire, the lock    *)
(* subquery of the UPDATE, and the write of the UPDATE, because PostgreSQL *)
(* evaluates the subquery on the statement's snapshot and waits for the    *)
(* task row only afterwards.  There is no clock.  A lease is live until    *)
(* LeaseExpires; whoever wants to take a lock must see it expired, while a *)
(* statement of its owner, stamped before the expiry, may still accept it. *)
(* An error whose statement took effect is a step followed by the error.   *)
(***************************************************************************)
EXTENDS Integers

CONSTANTS
    Tasks,      \* rows that may be created with this active_key
    Runners,    \* runner ids; a restarted process draws a new one
    Mortal,     \* the runners that may crash
    NoTask,
    NoRunner,
    NoLock,
    Aged,       \* rows whose retention may pass, or that are deleted by hand
    LateCap     \* bound of the history variable late

ASSUME SystemTasksAssumption ==
    /\ Mortal \subseteq Runners
    /\ Aged \subseteq Tasks
    /\ NoTask \notin Tasks
    /\ NoRunner \notin Runners
    /\ NoLock \notin [task : Tasks, by : Runners, live : BOOLEAN]
    /\ LateCap \in Nat \ {0, 1}

VARIABLES
    status,     \* system_tasks.status; "absent" before the insert, "gone" after
    keyed,      \* the rows whose active_key is set
    owner,      \* system_tasks.locked_by
    lock,       \* the row of system_task_locks, or NoLock
    up,         \* runners whose process is alive
    claim,      \* runner -> the ClaimSystemTask call it is in
    exec,       \* runner -> task -> the runWithLeaseHeartbeat call
    late        \* history: batches deleted after the task stopped running

rows == <<status, keyed, owner>>
vars == <<status, keyed, owner, lock, up, claim, exec, late>>

-----------------------------------------------------------------------------
ActiveStatus == {"pending", "running"}
Terminal == {"succeeded", "failed", "cancelled"}
Status == ActiveStatus \cup Terminal \cup {"absent", "gone"}

Lock == [task : Tasks, by : Runners, live : BOOLEAN]

ClaimPC == {"read", "locked", "checked", "won", "drop", "giveUp", "fail"}
Claim == [pc : ClaimPC, task : Tasks] \cup [pc : {"idle"}, task : {NoTask}]
IdleClaim == [pc |-> "idle", task |-> NoTask]

(* marked, released: terminalStateOnce and releaseOnce have run.  hb: the    *)
(* heartbeat goroutine, which can outlive the handler.                       *)
ExecPC == {"none", "start", "check", "work", "finish", "fail",
           "unwind", "release", "done", "dead"}
Exec == [pc : ExecPC, hb : {"off", "on", "mark", "release"},
         marked : BOOLEAN, released : BOOLEAN]
Handling == {"check", "work", "finish", "fail"}
NewExec(p) == [pc |-> p, hb |-> "off", marked |-> FALSE, released |-> FALSE]

Owns(t, r) == status[t] = "running" /\ owner[t] = r
HeldBy(t, r) == lock # NoLock /\ lock.task = t /\ lock.by = r
(* Mutant: the release is keyed by the task alone.                           *)
WithoutTask(t, r) == IF lock # NoLock /\ lock.task = t THEN NoLock ELSE lock

Without(t, r) == IF HeldBy(t, r) THEN NoLock ELSE lock
Renewed == [lock EXCEPT !.live = TRUE]

(* Mutant: the terminal update leaves active_key set.                        *)
EndKeepsKey(t, s) ==
    /\ status' = [status EXCEPT ![t] = s]
    /\ UNCHANGED <<keyed, owner>>

(* Every terminal update clears active_key in the same statement.            *)
End(t, s) ==
    /\ status' = [status EXCEPT ![t] = s]
    /\ keyed' = keyed \ {t}
    /\ UNCHANGED owner

(* markSystemTaskFailedForRunnerWithTx                                       *)
MarkFailedForRunner(t, r) ==
    IF Owns(t, r)
    THEN End(t, "failed") /\ lock' = Without(t, r)
    ELSE UNCHANGED <<rows, lock>>

-----------------------------------------------------------------------------
Init ==
    /\ status = [t \in Tasks |-> "absent"]
    /\ keyed = {}
    /\ owner = [t \in Tasks |-> NoRunner]
    /\ lock = NoLock
    /\ up = Runners
    /\ claim = [r \in Runners |-> IdleClaim]
    /\ exec = [r \in Runners |-> [t \in Tasks |-> NewExec("none")]]
    /\ late = [t \in Tasks |-> 0]

(* EnqueueSystemTask, StartLogCleanupTask and the scheduler.  Their look for *)
(* an active row protects nothing; the unique index on active_key does.      *)
(* Keys left on finished rows are cleared first.                             *)
CreateSystemTask(t) ==
    LET kept == {s \in keyed : status[s] \in ActiveStatus}
    IN  /\ status[t] = "absent"
        /\ kept = {}
        /\ status' = [status EXCEPT ![t] = "pending"]
        /\ keyed' = kept \cup {t}
        /\ UNCHANGED <<owner, lock, up, claim, exec, late>>

-----------------------------------------------------------------------------
(* ClaimSystemTask.                                                          *)

To(r, p) == claim' = [claim EXCEPT ![r].pc = p]

Leave(r) == claim' = [claim EXCEPT ![r] = IdleClaim]

ClaimRead(r, t) ==
    /\ r \in up
    /\ claim[r] = IdleClaim
    /\ status[t] = "pending"
    /\ claim' = [claim EXCEPT ![r] = [pc |-> "read", task |-> t]]
    /\ UNCHANGED <<rows, lock, up, exec, late>>

(* A lease stands in the way while it is live and its task may be executing. *)
Blocked ==
    /\ lock # NoLock
    /\ lock.live
    /\ \/ status[lock.task] = "running"
       \/ status[lock.task] = "pending" /\ owner[lock.task] # NoRunner

OldRunExpired ==
    lock # NoLock /\ ~lock.live /\ status[lock.task] = "running"

(* Mutant: the takeover leaves the old run as it is.                         *)
TakeLockOnly(r) ==
    /\ ~Blocked
    /\ lock' = [task |-> claim[r].task, by |-> r, live |-> TRUE]
    /\ UNCHANGED rows

(* Mutant: locked_by is taken from the task, which has no owner yet.         *)
TakeLockOwnerOfTask(r) ==
    /\ ~Blocked
    /\ lock' = [task |-> claim[r].task, by |-> owner[claim[r].task],
                live |-> TRUE]
    /\ IF OldRunExpired THEN End(lock.task, "failed") ELSE UNCHANGED rows

(* Mutant: the takeover forgets to write locked_by.                          *)
TakeLockKeepsOwner(r) ==
    /\ ~Blocked
    /\ lock' = [task |-> claim[r].task, live |-> TRUE,
                by |-> IF lock = NoLock THEN r ELSE lock.by]
    /\ IF OldRunExpired THEN End(lock.task, "failed") ELSE UNCHANGED rows

(* acquireSystemTaskLock: insert the lock, or replace it and fail the run    *)
(* whose lease it was.                                                       *)
TakeLock(r) ==
    /\ ~Blocked
    /\ lock' = [task |-> claim[r].task, by |-> r, live |-> TRUE]
    /\ IF OldRunExpired THEN End(lock.task, "failed") ELSE UNCHANGED rows

Acquire(r) ==
    /\ claim[r].pc = "read"
    /\ TakeLock(r)
    /\ To(r, "locked")
    /\ UNCHANGED <<up, exec, late>>

(* Blocked, or a database error before or after the commit; the error path   *)
(* releases nothing.                                                         *)
AcquireFails(r) ==
    /\ claim[r].pc = "read"
    /\ TakeLock(r) \/ UNCHANGED <<rows, lock>>
    /\ Leave(r)
    /\ UNCHANGED <<up, exec, late>>

(* The owner may still renew: its process lives and its heartbeat runs.      *)
Renewable ==
    /\ lock # NoLock
    /\ lock.by \in up
    /\ \/ exec[lock.by][lock.task].hb = "on"
       \/ exec[lock.by][lock.task].pc = "start"

(* The owner renews between the takeover's update of the task row and its    *)
(* locking read of the lock row: the run is failed and the lock not taken.   *)
AcquireOvertaken(r) ==
    /\ claim[r].pc = "read"
    /\ OldRunExpired /\ Renewable
    /\ End(lock.task, "failed")
    /\ lock' = Renewed
    /\ Leave(r)
    /\ UNCHANGED <<up, exec, late>>

(* The EXISTS subquery.  locked_until >= now holds for every lock this claim *)
(* wrote, because now was read before the lease was computed.                *)
ClaimCheck(r) ==
    /\ claim[r].pc = "locked"
    /\ To(r, IF HeldBy(claim[r].task, r) THEN "checked" ELSE "drop")
    /\ UNCHANGED <<rows, lock, up, exec, late>>

(* Mutant: the UPDATE does not look at the status again.                     *)
ClaimWriteUnconditional(r) ==
    LET t == claim[r].task
    IN  /\ claim[r].pc = "checked"
        /\ status[t] \in ActiveStatus
        /\ status' = [status EXCEPT ![t] = "running"]
        /\ owner' = [owner EXCEPT ![t] = r]
        /\ UNCHANGED keyed
        /\ To(r, "won")
        /\ UNCHANGED <<lock, up, exec, late>>

(* The write of the UPDATE, on the current version of the task row.          *)
ClaimWrite(r) ==
    LET t == claim[r].task
    IN  /\ claim[r].pc = "checked"
        /\ IF status[t] = "pending"
           THEN /\ status' = [status EXCEPT ![t] = "running"]
                /\ owner' = [owner EXCEPT ![t] = r]
                /\ UNCHANGED keyed
                /\ To(r, "won")
           ELSE UNCHANGED rows /\ To(r, "drop")
        /\ UNCHANGED <<lock, up, exec, late>>

(* The UPDATE is reported as failed, before or after it took effect.         *)
ClaimUpdateFails(r) ==
    /\ claim[r].pc \in {"locked", "checked", "won"}
    /\ To(r, "drop")
    /\ UNCHANGED <<rows, lock, up, exec, late>>

(* The row is read back and the task handed to a goroutine.                  *)
Dispatch(r) ==
    /\ claim[r].pc = "won"
    /\ exec' = [exec EXCEPT ![r][claim[r].task] = NewExec("start")]
    /\ Leave(r)
    /\ UNCHANGED <<rows, lock, up, late>>

ReadBackFails(r) ==
    /\ claim[r].pc = "won"
    /\ To(r, "giveUp")
    /\ UNCHANGED <<rows, lock, up, exec, late>>

(* ReleaseSystemTaskLock; its error is ignored.                              *)
ClaimRelease(r) ==
    /\ claim[r].pc \in {"drop", "giveUp"}
    /\ lock' \in {lock, Without(claim[r].task, r)}
    /\ IF claim[r].pc = "drop" THEN Leave(r) ELSE To(r, "fail")
    /\ UNCHANGED <<rows, up, exec, late>>

ClaimMark(r) ==
    /\ claim[r].pc = "fail"
    /\ MarkFailedForRunner(claim[r].task, r) \/ UNCHANGED <<rows, lock>>
    /\ Leave(r)
    /\ UNCHANGED <<up, exec, late>>

ClaimStep(r) ==
    \/ \E t \in Tasks : ClaimRead(r, t)
    \/ Acquire(r) \/ AcquireFails(r) \/ AcquireOvertaken(r)
    \/ ClaimCheck(r) \/ ClaimWrite(r) \/ ClaimUpdateFails(r)
    \/ Dispatch(r) \/ ReadBackFails(r)
    \/ ClaimRelease(r) \/ ClaimMark(r)

-----------------------------------------------------------------------------
(* runWithLeaseHeartbeat and runLogCleanupTask.                              *)

At(r, t, p) == exec[r][t].pc = p
Goto(r, t, p) == exec' = [exec EXCEPT ![r][t].pc = p]

(* RenewSystemTaskLock succeeds.                                             *)
Renew(r, t) == Owns(t, r) /\ HeldBy(t, r) /\ lock' = Renewed

(* The first renewal; the heartbeat starts only if it succeeds.              *)
StartHandler(r, t) ==
    /\ At(r, t, "start")
    /\ Renew(r, t)
    /\ exec' = [exec EXCEPT ![r][t].pc = "check", ![r][t].hb = "on"]
    /\ UNCHANGED <<rows, up, claim, late>>

(* The first renewal is refused or fails, or the task was cancelled on this  *)
(* node meanwhile (its row is then terminal and its lock deleted, so that    *)
(* releasing before marking makes no difference).                            *)
StartFails(r, t) ==
    /\ At(r, t, "start")
    /\ Goto(r, t, "unwind")
    /\ UNCHANGED <<rows, lock, up, claim, late>>

(* UpdateSystemTaskState accepts: rows remain, or none and the final update  *)
(* has passed too.                                                           *)
StateSaved(r, t) ==
    /\ At(r, t, "check")
    /\ Owns(t, r) /\ HeldBy(t, r)
    /\ \E p \in {"work", "finish"} : Goto(r, t, p)
    /\ UNCHANGED <<rows, lock, up, claim, late>>

(* It reports ErrSystemTaskLockLost or an error: the handler returns.        *)
StateRefused(r, t) ==
    /\ At(r, t, "check")
    /\ Goto(r, t, "unwind")
    /\ UNCHANGED <<rows, lock, up, claim, late>>

(* Mutant: the state is saved once for all batches.                          *)
DeleteBatchAgain(r, t) ==
    /\ At(r, t, "work")
    /\ late' = [late EXCEPT ![t] =
                    IF status[t] # "running" /\ @ < LateCap THEN @ + 1 ELSE @]
    /\ \E p \in {"work", "check"} : Goto(r, t, p)
    /\ UNCHANGED <<rows, lock, up, claim>>

(* DeleteOldLogBatch, fenced by nothing.                                     *)
DeleteBatch(r, t) ==
    /\ At(r, t, "work")
    /\ late' = [late EXCEPT ![t] =
                    IF status[t] # "running" /\ @ < LateCap THEN @ + 1 ELSE @]
    /\ Goto(r, t, "check")
    /\ UNCHANGED <<rows, lock, up, claim>>

(* Bad payload, failed count or delete (a cancelled context included), or a  *)
(* pass that deletes nothing.                                                *)
HandlerError(r, t) ==
    /\ \E p \in {"check", "work"} : At(r, t, p)
    /\ Goto(r, t, "fail")
    /\ UNCHANGED <<rows, lock, up, claim, late>>

(* Mutant: the outcome is written whatever happened to the task meanwhile.   *)
FinishTxOverwrites(t, r, s) ==
    /\ owner[t] = r /\ status[t] \in Terminal \cup {"running"}
    /\ End(t, s)
    /\ lock' = Without(t, r)

(* FinishSystemTask, by its owner: an already terminal row keeps its status. *)
FinishTx(t, r, s) ==
    \/ /\ owner[t] = r /\ status[t] \in Terminal
       /\ lock' = Without(t, r)
       /\ UNCHANGED rows
    \/ /\ Owns(t, r) /\ HeldBy(t, r)
       /\ End(t, s)
       /\ lock' = NoLock

FinishSystemTask(r, t) ==
    /\ \E p \in {"finish", "fail"} :
        /\ At(r, t, p)
        /\ \/ FinishTx(t, r, IF p = "finish" THEN "succeeded" ELSE "failed")
           \/ UNCHANGED <<rows, lock>>
    /\ Goto(r, t, "unwind")
    /\ UNCHANGED <<up, claim, late>>

(* markTerminalState: once, and an error is only logged.                     *)
MarkOnce(r, t) ==
    \/ ~exec[r][t].marked /\ MarkFailedForRunner(t, r)
    \/ UNCHANGED <<rows, lock>>

(* releaseLock: once, and an error is only logged.                           *)
ReleaseOnce(r, t) ==
    \/ ~exec[r][t].released /\ lock' = Without(t, r)
    \/ UNCHANGED lock

(* The deferred function of runWithLeaseHeartbeat.                           *)
UnwindMark(r, t) ==
    /\ At(r, t, "unwind")
    /\ MarkOnce(r, t)
    /\ exec' = [exec EXCEPT ![r][t].pc = "release", ![r][t].marked = TRUE]
    /\ UNCHANGED <<up, claim, late>>

UnwindRelease(r, t) ==
    /\ At(r, t, "release")
    /\ ReleaseOnce(r, t)
    /\ exec' = [exec EXCEPT ![r][t].pc = "done", ![r][t].released = TRUE]
    /\ UNCHANGED <<rows, up, claim, late>>

Beat(r, t, h) == exec[r][t].hb = h

Heartbeat(r, t) ==
    /\ Beat(r, t, "on")
    /\ Renew(r, t)
    /\ UNCHANGED <<rows, up, claim, exec, late>>

(* A refused or failed renewal.                                              *)
HeartbeatFails(r, t) ==
    /\ Beat(r, t, "on")
    /\ exec' = [exec EXCEPT ![r][t].hb = "mark"]
    /\ UNCHANGED <<rows, lock, up, claim, late>>

HeartbeatMark(r, t) ==
    /\ Beat(r, t, "mark")
    /\ MarkOnce(r, t)
    /\ exec' = [exec EXCEPT ![r][t].hb = "release", ![r][t].marked = TRUE]
    /\ UNCHANGED <<up, claim, late>>

HeartbeatRelease(r, t) ==
    /\ Beat(r, t, "release")
    /\ ReleaseOnce(r, t)
    /\ exec' = [exec EXCEPT ![r][t].hb = "off", ![r][t].released = TRUE]
    /\ UNCHANGED <<rows, up, claim, late>>

(* The channel done is closed once the handler has returned.                 *)
HeartbeatStop(r, t) ==
    /\ Beat(r, t, "on")
    /\ exec[r][t].pc \in {"unwind", "release", "done"}
    /\ exec' = [exec EXCEPT ![r][t].hb = "off"]
    /\ UNCHANGED <<rows, lock, up, claim, late>>

ExecStep(r, t) ==
    \/ StartHandler(r, t) \/ StartFails(r, t)
    \/ StateSaved(r, t) \/ StateRefused(r, t)
    \/ DeleteBatch(r, t) \/ HandlerError(r, t) \/ FinishSystemTask(r, t)
    \/ UnwindMark(r, t) \/ UnwindRelease(r, t)
    \/ Heartbeat(r, t) \/ HeartbeatFails(r, t) \/ HeartbeatMark(r, t)
    \/ HeartbeatRelease(r, t) \/ HeartbeatStop(r, t)

-----------------------------------------------------------------------------
(* Administrators, sweeps and the environment.                               *)

(* CancelSystemTask; on a finished row it only removes the lock.             *)
CancelSystemTask(t) ==
    /\ status[t] \in ActiveStatus \cup Terminal
    /\ IF status[t] \in ActiveStatus
       THEN End(t, "cancelled")
       ELSE UNCHANGED rows
    /\ lock' = IF lock # NoLock /\ lock.task = t THEN NoLock ELSE lock
    /\ UNCHANGED <<up, claim, exec, late>>

(* ExpireStaleSystemTaskLocks, for one stale lock.                           *)
ExpireStaleLock ==
    /\ up # {}
    /\ lock # NoLock /\ ~lock.live
    /\ lock' = NoLock
    /\ IF Owns(lock.task, lock.by)
       THEN End(lock.task, "failed")
       ELSE UNCHANGED rows
    /\ UNCHANGED <<up, claim, exec, late>>

(* Mutant: a missing lock row is not taken for a lost lease.                 *)
RecoverOrphanExpiredOnly(t) ==
    /\ up # {}
    /\ status[t] = "running"
    /\ HeldBy(t, owner[t]) /\ ~lock.live
    /\ End(t, "failed")
    /\ UNCHANGED <<lock, up, claim, exec, late>>

(* RecoverOrphanedRunningSystemTasks, for one row.  The lock row is read     *)
(* without locking it, so a renewal may slip in before the commit.           *)
RecoverOrphan(t) ==
    /\ up # {}
    /\ status[t] = "running"
    /\ ~(HeldBy(t, owner[t]) /\ lock.live)
    /\ End(t, "failed")
    /\ \/ UNCHANGED lock
       \/ HeldBy(t, owner[t]) /\ Renewable /\ lock' = Renewed
    /\ UNCHANGED <<up, claim, exec, late>>

(* CleanupInactiveSystemTaskLocks                                            *)
CleanupInactiveLock ==
    /\ lock # NoLock /\ lock.live
    /\ status[lock.task] \notin ActiveStatus
    /\ lock' = NoLock
    /\ UNCHANGED <<rows, up, claim, exec, late>>

(* CleanupFinishedSystemTasks and DeleteSystemTaskHistory delete rows only.  *)
DeleteHistory(t) ==
    /\ t \in Aged
    /\ status[t] \in Terminal
    /\ status' = [status EXCEPT ![t] = "gone"]
    /\ keyed' = keyed \ {t}
    /\ UNCHANGED <<owner, lock, up, claim, exec, late>>

LeaseExpires ==
    /\ lock # NoLock /\ lock.live
    /\ lock' = [lock EXCEPT !.live = FALSE]
    /\ UNCHANGED <<rows, up, claim, exec, late>>

Crash(r) ==
    /\ r \in up \cap Mortal
    /\ up' = up \ {r}
    /\ claim' = [claim EXCEPT ![r] = IdleClaim]
    /\ exec' = [exec EXCEPT ![r] =
                    [t \in Tasks |-> IF At(r, t, "none") THEN @[t]
                                     ELSE NewExec("dead")]]
    /\ UNCHANGED <<rows, lock, late>>

Next ==
    \/ \E t \in Tasks : CreateSystemTask(t) \/ CancelSystemTask(t)
                        \/ RecoverOrphan(t) \/ DeleteHistory(t)
    \/ \E r \in Runners : ClaimStep(r) \/ Crash(r)
    \/ \E r \in Runners, t \in Tasks : ExecStep(r, t)
    \/ ExpireStaleLock \/ CleanupInactiveLock \/ LeaseExpires

Spec == Init /\ [][Next]_vars

-----------------------------------------------------------------------------
(* Fairness.  Nothing renews an unattended lease, so time ends it.           *)

Unattended(t, r) ==
    \/ r \notin up
    \/ /\ exec[r][t].pc \in {"none", "done"} /\ exec[r][t].hb = "off"
       /\ claim[r].task # t

UnattendedLeaseExpires ==
    /\ LeaseExpires
    /\ Unattended(lock.task, lock.by)

(* Every runner sweeps on a ticker, for as long as one is up.                *)
SweepFairness ==
    /\ WF_vars(UnattendedLeaseExpires)
    /\ WF_vars(ExpireStaleLock)
    /\ \A t \in Tasks : WF_vars(RecoverOrphan(t))

(* The lock is still there when the UPDATE looks for it.                     *)
ClaimConfirmed(r) == HeldBy(claim[r].task, r) /\ ClaimCheck(r)

(* Every runner tries to claim on a ticker, finishes the claim it is in,     *)
(* does not meet a database error on every attempt, and does not outlast its *)
(* minutes-long lease within every claim.                                    *)
ClaimFairness ==
    \A r \in Runners :
        /\ WF_vars(ClaimStep(r))
        /\ SF_vars(Acquire(r))
        /\ SF_vars(ClaimConfirmed(r))
        /\ SF_vars(ClaimWrite(r))

FairSpec == Spec /\ SweepFairness /\ ClaimFairness

-----------------------------------------------------------------------------
(* Properties.                                                               *)

(* Type invariant of the rows, the lock, the claims and the executions.      *)
TypeOK ==
    /\ status \in [Tasks -> Status]
    /\ keyed \in SUBSET Tasks
    /\ owner \in [Tasks -> Runners \cup {NoRunner}]
    /\ lock \in Lock \cup {NoLock}
    /\ up \in SUBSET Runners
    /\ claim \in [Runners -> Claim]
    /\ exec \in [Runners -> [Tasks -> Exec]]
    /\ late \in [Tasks -> 0..LateCap]

(* However claims, takeovers, read-back failures and crashes interleave, the *)
(* handler of a task is started by at most one runner, once: a task is       *)
(* failed, never re-run, when its runner is lost                             *)
(* (runSystemTaskClaimPass, runWithLeaseHeartbeat).                          *)
ExecutedByOneRunner ==
    \A t \in Tasks, r, s \in Runners :
        (~At(r, t, "none") /\ ~At(s, t, "none")) => r = s

(* The fence of the log cleanup (UpdateSystemTaskState before every batch):  *)
(* once a task has been cancelled, expired or failed under its handler, at   *)
(* most the one batch already under way is still deleted.                    *)
AtMostOneLateBatch == \A t \in Tasks : late[t] <= 1

(* While a task runs and its handler works and has not released its lease,   *)
(* the lock row is the handler's, live or expired: a takeover or a sweep     *)
(* fails the task in the transaction that replaces or deletes the lock       *)
(* (acquireSystemTaskLock, ExpireStaleSystemTaskLocks).                      *)
ExecutorKeepsLease ==
    \A t \in Tasks, r \in Runners :
        (exec[r][t].pc \in Handling /\ ~exec[r][t].released
            /\ status[t] = "running") => HeldBy(t, r)

(* The runner itself releases the lease.                                     *)
GivesUp(r, t) ==
    \/ ~exec[r][t].released /\ exec'[r][t].released
    \/ claim[r].task = t /\ claim[r].pc \in {"drop", "giveUp"}

(* A running task loses the lease of its owner only together with its        *)
(* running status, unless the owner itself releases it: no stale release of  *)
(* another task or runner, sweep or cleanup can take it away                 *)
(* (ReleaseSystemTaskLock, CleanupInactiveSystemTaskLocks).                  *)
LeaseEndsWithTask ==
    [][\A t \in Tasks, r \in Runners :
         (Owns(t, r) /\ HeldBy(t, r) /\ ~HeldBy(t, r)')
            => status'[t] # "running" \/ GivesUp(r, t)]_vars

(* The inductive invariant.                                                  *)

KeysMatch ==
    /\ keyed = {t \in Tasks : status[t] \in ActiveStatus}
    /\ \A s, t \in keyed : s = t

Unowned ==
    \A t \in Tasks : status[t] \in {"absent", "pending"} => owner[t] = NoRunner

ClaimBeforeExec ==
    \A r \in Runners :
        claim[r].pc # "idle" =>
            /\ At(r, claim[r].task, "none")
            /\ claim[r].pc \in {"won", "giveUp", "fail"}
                    => owner[claim[r].task] = r

ExecByOwner ==
    \A r \in Runners, t \in Tasks : ~At(r, t, "none") => owner[t] = r

LateInv ==
    \A t \in Tasks :
        /\ late[t] \in {0, 1}
        /\ status[t] \in {"absent", "pending", "running"} => late[t] = 0
        /\ \A r \in Runners : At(r, t, "work") => late[t] = 0

(* Rows, claims and executions agree: the active_key is set exactly on the   *)
(* one pending or running row, a row has an owner only once it was claimed,  *)
(* and a runner that won or executes a task is its owner                     *)
(* (ClaimSystemTask, CreateSystemTaskWithActiveKey).                         *)
TaskInv ==
    KeysMatch /\ Unowned /\ ClaimBeforeExec /\ ExecByOwner /\ LateInv

(* The promise of the scheduler, whatever locks and leases carry it.         *)
Slot == INSTANCE SystemTaskSlot WITH phase <- status, runner <- owner

(* The rows implement the abstract slot: one active task per active_key, one *)
(* owner for life, and an outcome that is written once.                      *)
ImplementsSlot == Slot!Spec

(* Nobody executes the running task any more: its runner died, or returned   *)
(* without saving an outcome, or lost the answer to its claim.               *)
Abandoned(t) ==
    status[t] = "running" /\ owner[t] # NoRunner /\ Unattended(t, owner[t])

(* An abandoned task does not stay running and so does not block its         *)
(* active_key for ever, if a runner survives (ExpireStaleSystemTaskLocks,    *)
(* RecoverOrphanedRunningSystemTasks).                                       *)
AbandonedIsReaped ==
    \A t \in Tasks : Abandoned(t) ~> status[t] # "running"

(* A pending task is claimed (or cancelled) by the runner that is left, even *)
(* when a dead one holds the lock (acquireSystemTaskLock).                   *)
PendingIsClaimed ==
    \A t \in Tasks, r \in Runners :
        (status[t] = "pending" /\ up = {r}) ~> status[t] # "pending"
=============================================================================
