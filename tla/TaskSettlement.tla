--------------------------- MODULE TaskSettlement ---------------------------
(***************************************************************************)
(* The money of one asynchronous wallet-funded task that is not an image   *)
(* task and did not finish while it was submitted, from the insert of its  *)
(* row to its final charge or refund: the submitting handler               *)
(* (controller/relay.go), the polling passes of the nodes                  *)
(* (service/task_polling.go), the settlement record that makes their       *)
(* accounting happen once (model/task_settlement.go,                       *)
(* service/task_accounting_atomic.go) and the billing ledger row of the    *)
(* request (service/task_billing.go).  The ledger itself is BillingLedger; *)
(* here it is only its states and what they move, for a request whose      *)
(* charge is its reservation.                                              *)
(*                                                                         *)
(* A database transaction, or a read, is one step.  A worker keeps the row *)
(* it loaded and writes back only the fields it has changed since.         *)
(***************************************************************************)
EXTENDS Integers, FiniteSets

CONSTANTS
    Workers,        \* polling passes that may overlap, of one node or several
    Prepaid,        \* what the submission reserves, inserts and charges
    Actuals,        \* prices on completion; 0: billed at its reservation
    Setups          \* the deployments and failures a run looks at

(* workers: the passes there are.  actuals: the prices there are.  faults:    *)
(* bound on database errors and deaths of workers.  submit: what may go      *)
(* wrong in the submission after the insert.  expiry: a reserve without a    *)
(* ledger row may expire.  overtaking: a pass may load the task before the   *)
(* submission is over.                                                       *)
ASSUME SettlementAssumption ==
    /\ Prepaid \in Nat \ {0}
    /\ Actuals \subseteq Nat
    /\ \A u \in Setups :
         /\ u.workers \subseteq Workers
         /\ u.actuals \subseteq Actuals
         /\ u.faults \in Nat
         /\ u.submit \subseteq {"spool", "unsaved", "apply", "review", "fail",
                                "log", "rollback", "crash"}
         /\ {u.expiry, u.overtaking} \subseteq BOOLEAN

VARIABLES
    task,       \* the row of tasks
    record,     \* its row of task_settlement_records
    row,        \* status of its billing_adjustments row
    spool,      \* the charge waits in a spool file of some node
    reserve,    \* its wallet_pre_consume_records row
    paid,       \* history: what the wallet has paid for the task, net
    submit,     \* the submitting handler
    job,        \* what each worker does
    faults,
    setup       \* never changes

money == <<row, spool, reserve, paid>>

(* What the actions change.                                                  *)
state == <<task, record, row, spool, reserve, paid, submit, job, faults>>

vars == <<state, setup>>

-----------------------------------------------------------------------------
(* Rows.                                                                     *)

Quotas == {0, Prepaid} \cup Actuals

(* key: BillingAdjustmentKey is stored.  attempt: SettlementAttemptQuota.    *)
Task == [status : {"none", "submitted", "success", "failure"},
         quota : Quotas, settle : {"", "PENDING", "SETTLED", "REVIEW"},
         refund : BOOLEAN, attempt : Quotas,
         key : BOOLEAN, unresolved : BOOLEAN, rollback : BOOLEAN]

NoTask == [status |-> "none", quota |-> 0, settle |-> "", refund |-> FALSE,
           attempt |-> 0, key |-> FALSE, unresolved |-> FALSE,
           rollback |-> FALSE]

(* applied and pre: AppliedQuota and PreConsumedQuota.  APPLYING is written  *)
(* by image tasks only.                                                      *)
Record == [status : {"none", "PREPARED", "APPLIED", "REVIEW"},
           op : {"", "refund", "recalculation"}, applied : Quotas, pre : Quotas]

NoRecord == [status |-> "none", op |-> "", applied |-> 0, pre |-> 0]

RowStatus == {"absent", "pending", "applied", "rolled_back"}

SubmitPC == {"insert", "ensure", "apply", "log", "rollback", "failed",
             "settleErr", "refundable", "done", "crashed"}

JobPC == {"idle", "cas", "prepaid", "syncRead", "syncAct", "syncApply",
          "syncReread", "syncPersist", "delta", "begin", "apply", "reopen",
          "load", "release", "releaseRes", "releasePersist", "refundBegin",
          "refundApply", "recordReview", "review"}

(* t: the task in memory.  base: the row it was loaded as (updateBase).      *)
(* actual: the quota to settle for; delta: the one computed before the       *)
(* transaction.  seen: the ledger row last read.  failing: it is a refund.   *)
Job == [pc : JobPC, t : Task, base : Task, actual : Quotas,
        pre : Quotas, seen : RowStatus, failing : BOOLEAN]

NoJob == [pc |-> "idle", t |-> NoTask, base |-> NoTask, actual |-> 0,
          pre |-> 0, seen |-> "absent", failing |-> FALSE]

Init ==
    /\ task = NoTask
    /\ record = NoRecord
    /\ row = "absent"
    /\ spool = FALSE
    /\ reserve = "held"
    /\ paid = Prepaid
    /\ submit = [pc |-> "insert", t |-> NoTask, base |-> NoTask]
    /\ job = [w \in Workers |-> NoJob]
    /\ faults = 0
    /\ setup \in Setups

-----------------------------------------------------------------------------
(* Writes of the task row.                                                   *)

(* overlayBillingAdjustmentPrivateData: a copy without the ledger's identity *)
(* leaves the stored one alone.                                              *)
Overlay(cur, t) ==
    IF t.key \/ t.unresolved \/ t.rollback
    THEN [cur EXCEPT !.key = t.key, !.unresolved = t.unresolved,
                     !.rollback = t.rollback]
    ELSE cur

Patched(new, old, cur) == IF new # old THEN new ELSE cur

(* updateTaskSettlementFields: only what changed since the load.             *)
SettlementFields(t, base) ==
    [Overlay(task, t) EXCEPT
        !.quota = Patched(t.quota, base.quota, task.quota),
        !.settle = Patched(t.settle, base.settle, task.settle),
        !.refund = Patched(t.refund, base.refund, task.refund),
        !.attempt = Patched(t.attempt, base.attempt, task.attempt)]

(* UpdateTaskAfterSubmitAccountingFailure: the caller's status and quota     *)
(* win over whatever was written in between.                                 *)
AccountingFailure(t) ==
    [Overlay(task, t) EXCEPT !.quota = t.quota, !.status = t.status,
                             !.settle = t.settle, !.refund = t.refund,
                             !.attempt = t.attempt]

(* UpdateWithStatus once the status comparison held.                         *)
StatusPatch(t, base) ==
    [task EXCEPT !.status = t.status,
                 !.refund = Patched(t.refund, base.refund, task.refund)]

Settled(t) ==
    [t EXCEPT !.settle = "SETTLED",
              !.attempt = IF t.settle = "REVIEW" THEN 0 ELSE t.attempt]

Open(t) == t.settle \in {"", "PENDING"}

-----------------------------------------------------------------------------
(* The ledger row.                                                           *)

ApplyRow ==
    /\ paid' = IF reserve = "refunded" THEN paid + Prepaid ELSE paid
    /\ reserve' = IF reserve = "held" THEN "settled" ELSE reserve
    /\ row' = "applied"
    /\ UNCHANGED spool

(* The reservation is credited once, whoever does it.                        *)
CreditReservation ==
    /\ paid' = IF reserve = "refunded" THEN paid ELSE paid - Prepaid
    /\ reserve' = "refunded"
    /\ row' = "rolled_back"
    /\ UNCHANGED spool

CreditCharge ==
    /\ paid' = paid - Prepaid
    /\ row' = "rolled_back"
    /\ UNCHANGED <<reserve, spool>>

(* RollbackBillingAdjustment on a row that is there.                         *)
RollbackRow ==
    CASE row = "pending" -> CreditReservation
      [] row = "applied" -> CreditCharge
      [] OTHER -> UNCHANGED money

(* RecoverUnpersistedBillingAdjustments of the node that has the file.       *)
ImportSpool ==
    /\ spool
    /\ row' = IF row = "absent" THEN "pending" ELSE row
    /\ spool' = FALSE
    /\ UNCHANGED <<task, record, reserve, paid, submit, job, faults>>

(* RecoverPendingBillingAdjustments.                                         *)
RecoverPending ==
    /\ row = "pending"
    /\ ApplyRow
    /\ UNCHANGED <<task, record, submit, job, faults>>

Submitted == submit.pc \in {"done", "crashed"}

(* RecoverExpiredWalletPreConsumes: the reserve goes back unless the ledger  *)
(* owns it.  No ledger row is written.  The session of a submission that is  *)
(* over holds its reserve only if it could not settle; it refreshes the      *)
(* lease until its process ends.                                             *)
ExpireReserve ==
    /\ setup.expiry
    /\ reserve = "held"
    /\ row \in {"absent", "rolled_back"}
    /\ Submitted
    /\ reserve' = "refunded"
    /\ paid' = paid - Prepaid
    /\ UNCHANGED <<task, record, row, spool, submit, job, faults>>

-----------------------------------------------------------------------------
(* The submission, from the insert on.                                       *)

SubmitTo(next, t) == submit' = [submit EXCEPT !.pc = next, !.t = t]

Insert ==
    /\ submit.pc = "insert"
    /\ task' = [NoTask EXCEPT !.status = "submitted", !.quota = Prepaid]
    /\ submit' = [pc |-> "ensure", t |-> task', base |-> task']
    /\ UNCHANGED <<record, money, job, faults>>

(* stageDurableBillingAdjustment: the pending row, else a spool file, else   *)
(* neither, which is an error like the others.                               *)
SubmitEnsure ==
    /\ submit.pc = "ensure"
    /\ \/ /\ row' = IF row = "absent" THEN "pending" ELSE row
          /\ SubmitTo(IF row = "rolled_back" THEN "settleErr" ELSE "apply",
                      submit.t)
          /\ UNCHANGED spool
       \/ /\ "spool" \in setup.submit
          /\ spool' = TRUE
          /\ SubmitTo("settleErr", submit.t)
          /\ UNCHANGED row
       \/ /\ "unsaved" \in setup.submit
          /\ SubmitTo("settleErr", submit.t)
          /\ UNCHANGED <<row, spool>>
    /\ UNCHANGED <<task, record, reserve, paid, job, faults>>

SubmitApply ==
    /\ submit.pc = "apply"
    /\ \/ /\ row = "pending"
          /\ ApplyRow
          /\ SubmitTo("log", submit.t)
       \/ /\ row = "applied"
          /\ SubmitTo("log", submit.t)
          /\ UNCHANGED money
       \/ /\ row = "rolled_back" \/ "apply" \in setup.submit
          /\ SubmitTo("settleErr", submit.t)
          /\ UNCHANGED money
    /\ UNCHANGED <<task, record, job, faults>>

(* persistTaskSubmitSettlementError, deferred or not: the task is put under  *)
(* review with the identity of its ledger row.                               *)
SubmitReview ==
    /\ submit.pc = "settleErr"
    /\ LET t == [submit.t EXCEPT !.quota = Prepaid, !.attempt = Prepaid,
                                 !.settle = "REVIEW", !.key = TRUE,
                                 !.unresolved = TRUE]
       IN \/ /\ task' = SettlementFields(t, submit.base)
             /\ SubmitTo("done", t)
          \/ /\ "review" \in setup.submit
             /\ SubmitTo("refundable", t)
             /\ UNCHANGED task
    /\ UNCHANGED <<record, money, job, faults>>

(* persistRefundableSubmitAccountingFailure.  When its writes fail, too, the *)
(* row stays as it was inserted, and the reservation with it.                *)
SubmitRefundable ==
    /\ submit.pc = "refundable"
    /\ LET t == [submit.t EXCEPT !.quota = Prepaid, !.attempt = Prepaid,
                                 !.refund = TRUE, !.status = "failure",
                                 !.settle = IF @ = "REVIEW" THEN "" ELSE @]
       IN /\ \/ task' = AccountingFailure(t)
             \/ "fail" \in setup.submit /\ UNCHANGED task
          /\ SubmitTo("done", t)
    /\ UNCHANGED <<record, money, job, faults>>

(* LogTaskConsumption; when it fails the charge is rolled back.              *)
SubmitLog ==
    /\ submit.pc = "log"
    /\ \/ SubmitTo("done", submit.t)
       \/ "log" \in setup.submit /\ SubmitTo("rollback", submit.t)
    /\ UNCHANGED <<task, record, money, job, faults>>

SubmitRollback ==
    /\ submit.pc = "rollback"
    /\ \/ /\ RollbackRow
          /\ SubmitTo("failed", submit.t)
       \/ /\ "rollback" \in setup.submit
          /\ SubmitTo("refundable", [submit.t EXCEPT !.key = TRUE,
                                         !.unresolved = TRUE,
                                         !.rollback = TRUE])
          /\ UNCHANGED money
    /\ UNCHANGED <<task, record, job, faults>>

(* failPersistedTaskAfterSubmitAccountingError.  usage: the usage counters   *)
(* were recorded and still have to be taken back.                            *)
SubmitFailed ==
    /\ submit.pc = "failed"
    /\ \E usage \in BOOLEAN :
         LET t == [submit.t EXCEPT !.quota = 0, !.refund = usage,
                                   !.attempt = Prepaid, !.status = "failure",
                                   !.settle = IF usage THEN "" ELSE "REVIEW"]
         IN /\ \/ task' = AccountingFailure(t)
               \/ "fail" \in setup.submit /\ UNCHANGED task
            /\ SubmitTo("done", t)
    /\ UNCHANGED <<record, money, job, faults>>

SubmitCrash ==
    /\ "crash" \in setup.submit
    /\ submit.pc \notin {"insert", "done", "crashed"}
    /\ SubmitTo("crashed", submit.t)
    /\ UNCHANGED <<task, record, money, job, faults>>

SubmitStep ==
    \/ Insert \/ SubmitEnsure \/ SubmitApply \/ SubmitReview
    \/ SubmitRefundable \/ SubmitLog \/ SubmitRollback \/ SubmitFailed

-----------------------------------------------------------------------------
(* A pass takes up the task.                                                 *)

Goto(w, next) == job' = [job EXCEPT ![w].pc = next]
Memory(w, next, t) == job' = [job EXCEPT ![w].pc = next, ![w].t = t]
Finish(w) == job' = [job EXCEPT ![w] = NoJob]

Load(w, next, t, actual) ==
    job' = [job EXCEPT ![w] = [NoJob EXCEPT !.pc = next, !.t = t,
                                  !.base = task, !.actual = actual,
                                  !.failing = (t.status = "failure")]]

Ready(w) == /\ w \in setup.workers
            /\ job[w].pc = "idle"
            /\ setup.overtaking \/ Submitted

(* updateVideoSingleTask: the upstream reports the outcome, with a price or, *)
(* for a call billed at its reservation, without (0).  A failure comes       *)
(* with the refund flag from failTaskFromPoll and without it from the normal *)
(* answer and from sweepTimedOutTasks.                                       *)
Poll(w) ==
    /\ Ready(w)
    /\ task.status = "submitted"
    /\ \/ \E a \in setup.actuals :
            Load(w, "cas", [task EXCEPT !.status = "success"], a)
       \/ \E flag \in BOOLEAN :
            Load(w, "cas", [task EXCEPT !.status = "failure",
                                        !.refund = (flag /\ task.quota # 0)
                                                   \/ task.refund], 0)
    /\ UNCHANGED <<task, record, money, submit, faults>>

Wins(w) == task.status = job[w].base.status

(* UpdateWithStatus; the merged row is read back.                            *)
CompareAndSet(w) ==
    /\ job[w].pc = "cas"
    /\ IF Wins(w)
       THEN /\ task' = StatusPatch(job[w].t, job[w].base)
            /\ IF job[w].failing /\ task'.quota = 0 THEN Finish(w)
               ELSE job' = [job EXCEPT ![w].t = task', ![w].base = task',
                        ![w].pc = IF job[w].failing THEN "reopen"
                                  ELSE IF job[w].actual > 0 THEN "syncRead"
                                  ELSE "prepaid"]
       ELSE Finish(w) /\ UNCHANGED task
    /\ UNCHANGED <<record, money, submit, faults>>

(* Mutant: a task under review is left out.                                  *)
RecoverRefundNotReviewed(w) ==
    /\ Ready(w)
    /\ task.status = "failure" /\ task.refund /\ task.settle # "REVIEW"
    /\ Load(w, "reopen", task, 0)
    /\ UNCHANGED <<task, record, money, submit, faults>>

(* recoverPendingTaskRefunds and recoverUnresolvedBillingAdjustments.        *)
RecoverRefund(w) ==
    /\ Ready(w)
    /\ task.status = "failure" /\ task.refund
    /\ Load(w, "reopen", task, 0)
    /\ UNCHANGED <<task, record, money, submit, faults>>

Attempted == IF task.attempt > 0 THEN task.attempt ELSE task.quota

(* recoverPendingTaskSettlements.                                            *)
RecoverSettlement(w) ==
    /\ Ready(w)
    /\ task.status = "success" /\ Open(task)
    /\ Load(w, "syncRead", task, Attempted)
    /\ UNCHANGED <<task, record, money, submit, faults>>

(* Mutant: the record stays under review.                                    *)
RetryReviewNoReset(w) ==
    /\ Ready(w)
    /\ task.status = "success" /\ task.settle = "REVIEW"
    /\ Load(w, "syncRead", task, Attempted)
    /\ UNCHANGED <<task, record, money, submit, faults>>

(* RetryTaskSettlementReview: a record under review is prepared again unless *)
(* it holds applied quota.                                                   *)
RetryReview(w) ==
    /\ Ready(w)
    /\ task.status = "success" /\ task.settle = "REVIEW"
    /\ record' = IF record.status = "REVIEW"
                 THEN [NoRecord EXCEPT !.status = "PREPARED"] ELSE record
    /\ Load(w, "syncRead", task, Attempted)
    /\ UNCHANGED <<task, money, submit, faults>>

-----------------------------------------------------------------------------
(* RecalculateTaskQuota.                                                     *)

(* The task in memory after a write of its settlement fields.                *)
Save(w, next, t) ==
    /\ task' = SettlementFields(t, job[w].base)
    /\ IF next = "idle" THEN Finish(w)
       ELSE Memory(w, next, [task' EXCEPT !.status = t.status])

(* settlePrepaidTaskBilling.                                                 *)
SettlePrepaid(w) ==
    /\ job[w].pc = "prepaid"
    /\ Save(w, "idle", Settled(job[w].t))
    /\ UNCHANGED <<record, money, submit, faults>>

(* An error of the ledger part reaches the caller, which puts the task under *)
(* review unless it is retrying one.                                         *)
SyncError(w) ==
    IF job[w].base.settle = "REVIEW" THEN Finish(w) ELSE Goto(w, "review")

SyncRead(w) ==
    /\ job[w].pc \in {"syncRead", "syncReread"}
    /\ job' = [job EXCEPT ![w].seen = row,
                          ![w].pc = IF @ = "syncRead" THEN "syncAct"
                                    ELSE "syncPersist"]
    /\ UNCHANGED <<task, record, money, submit, faults>>

(* What the ledger holds for the task: its charge, nothing after a rollback. *)
Held(seen, quota) == CASE seen = "applied" -> Prepaid
                       [] seen = "rolled_back" -> 0
                       [] OTHER -> quota

(* loadUnflaggedBillingAdjustment looks at the ledger.                       *)
Unflagged(t) == ~t.unresolved /\ ~t.rollback /\ Open(t)

(* syncTaskBillingAdjustment.  A pending row is read a second time.          *)
SyncAct(w) ==
    /\ job[w].pc = "syncAct"
    /\ LET t == job[w].t
           seen == job[w].seen
       IN CASE Unflagged(t) /\ seen \in {"applied", "rolled_back"} ->
                 IF t.quota = Held(seen, t.quota)
                 THEN /\ Memory(w, "delta", [t EXCEPT !.key = TRUE])
                      /\ UNCHANGED task
                 ELSE Save(w, "delta", [t EXCEPT !.key = TRUE,
                                           !.quota = Held(seen, t.quota)])
            [] Unflagged(t) /\ seen = "pending" ->
                 /\ Memory(w, "syncRead", [t EXCEPT !.key = TRUE,
                                                    !.unresolved = TRUE])
                 /\ UNCHANGED task
            [] t.unresolved ->
                 /\ CASE t.rollback -> Goto(w, "release")
                      [] ~t.rollback /\ seen = "absent" -> SyncError(w)
                      [] ~t.rollback /\ seen = "pending" ->
                            Goto(w, "syncApply")
                      [] OTHER -> Goto(w, "syncPersist")
                 /\ UNCHANGED task
            [] OTHER -> Goto(w, "delta") /\ UNCHANGED task
    /\ UNCHANGED <<record, money, submit, faults>>

(* ApplyBillingAdjustment; a rolled-back row is an error.                    *)
SyncApply(w) ==
    /\ job[w].pc = "syncApply"
    /\ \/ row = "pending" /\ ApplyRow /\ Goto(w, "syncReread")
       \/ row = "applied" /\ UNCHANGED money /\ Goto(w, "syncReread")
       \/ row = "rolled_back" /\ UNCHANGED money /\ SyncError(w)
    /\ UNCHANGED <<task, record, submit, faults>>

SyncPersist(w) ==
    /\ job[w].pc = "syncPersist"
    /\ Save(w, "delta",
            [job[w].t EXCEPT !.unresolved = FALSE,
                !.quota = IF job[w].seen = "applied" THEN Prepaid ELSE @])
    /\ UNCHANGED <<record, money, submit, faults>>

(* finalizeExistingTaskRecalculation and the review of a record.             *)
FinalizeRecalculation(w) ==
    IF record.status = "APPLIED" /\ record.op = "recalculation"
    THEN Save(w, "idle", [Settled(job[w].t) EXCEPT !.quota = record.applied])
    ELSE Goto(w, "review") /\ UNCHANGED task

(* Nothing to move: the record decides, else the task is settled as it is.   *)
Delta(w) ==
    /\ job[w].pc = "delta"
    /\ IF job[w].t.quota # job[w].actual
       THEN /\ job' = [job EXCEPT ![w].pre = job[w].t.quota,
                                  ![w].pc = "begin"]
            /\ UNCHANGED task
       ELSE IF record.status \in {"APPLIED", "REVIEW"}
       THEN FinalizeRecalculation(w)
       ELSE Save(w, "idle", Settled(job[w].t))
    /\ UNCHANGED <<record, money, submit, faults>>

(* BeginTaskSettlementApplication creates the record or finds it prepared.   *)
Prepare ==
    /\ record.status \in {"none", "PREPARED"}
    /\ record' = [record EXCEPT !.status = "PREPARED"]

Begin(w) ==
    /\ job[w].pc = "begin"
    /\ \/ Prepare /\ Goto(w, "apply") /\ UNCHANGED task
       \/ /\ record.status \in {"APPLIED", "REVIEW"}
          /\ FinalizeRecalculation(w)
          /\ UNCHANGED record
    /\ UNCHANGED <<money, submit, faults>>

(* persistAsyncTaskAccountingResultTx.                                       *)
Accounted(quota, failing) ==
    [task EXCEPT !.quota = quota, !.attempt = 0, !.refund = FALSE,
                 !.settle = CASE ~failing -> "SETTLED"
                              [] failing /\ @ = "REVIEW" -> ""
                              [] OTHER -> @]

(* Mutant: the record is not looked at again inside the transaction.         *)
ApplyAtomicBlind(w) ==
    LET op == IF job[w].failing THEN "refund" ELSE "recalculation"
    IN /\ paid' = paid + job[w].actual - job[w].pre
       /\ task' = Accounted(job[w].actual, job[w].failing)
       /\ record' = [status |-> "APPLIED", op |-> op,
                     applied |-> job[w].actual, pre |-> job[w].pre]
       /\ Finish(w)
       /\ UNCHANGED <<row, spool, reserve>>

(* applyAsyncTaskAccountingAtomic: task and record locked, one commit.       *)
ApplyAtomic(w) ==
    LET op == IF job[w].failing THEN "refund" ELSE "recalculation"
    IN \/ /\ record.status = "PREPARED"
          /\ paid' = paid + job[w].actual - job[w].pre
          /\ task' = Accounted(job[w].actual, job[w].failing)
          /\ record' = [status |-> "APPLIED", op |-> op,
                        applied |-> job[w].actual, pre |-> job[w].pre]
          /\ Finish(w)
          /\ UNCHANGED <<row, spool, reserve>>
       \/ /\ record.status = "APPLIED" /\ record.op = op
          /\ task' = Accounted(record.applied, job[w].failing)
          /\ Finish(w)
          /\ UNCHANGED <<record, money>>
       \/ /\ \/ record.status = "REVIEW"
             \/ record.status = "APPLIED" /\ record.op # op
          /\ Goto(w, "recordReview")
          /\ UNCHANGED <<task, record, money>>

Apply(w) ==
    /\ job[w].pc \in {"apply", "refundApply"}
    /\ ApplyAtomic(w)
    /\ UNCHANGED <<submit, faults>>

(* markTaskAccountingRecordReview leaves an applied record alone.            *)
RecordReview(w) ==
    /\ job[w].pc = "recordReview"
    /\ record' = IF record.status = "PREPARED"
                 THEN [record EXCEPT !.status = "REVIEW"] ELSE record
    /\ Goto(w, "review")
    /\ UNCHANGED <<task, money, submit, faults>>

(* MarkTaskSettlementReview and markTaskRefundReview.                        *)
Review(w) ==
    /\ job[w].pc = "review"
    /\ Save(w, "idle",
            [job[w].t EXCEPT !.settle = "REVIEW",
                !.attempt = IF job[w].failing THEN job[w].pre
                            ELSE job[w].actual,
                !.refund = @ \/ job[w].failing])
    /\ UNCHANGED <<record, money, submit, faults>>

-----------------------------------------------------------------------------
(* RefundTaskQuota.                                                          *)

(* reopenRolledBackCompletionCharge: after a rollback the completion charged *)
(* the whole price, which is then what has to go back.                       *)
Reopen(w) ==
    /\ job[w].pc = "reopen"
    /\ IF /\ job[w].t.quota > 0
          /\ row = "rolled_back"
          /\ record.status = "APPLIED" /\ record.op = "recalculation"
          /\ record.applied = job[w].t.quota
       THEN /\ record' = [NoRecord EXCEPT !.status = "PREPARED"]
            /\ Memory(w, "refundBegin", [job[w].t EXCEPT !.settle = "PENDING"])
       ELSE Goto(w, "load") /\ UNCHANGED record
    /\ UNCHANGED <<task, money, submit, faults>>

(* loadUnflaggedBillingAdjustment: a ledger row owns the reservation.        *)
LedgerFlags(t) ==
    IF Unflagged(t) /\ row # "absent"
    THEN [t EXCEPT !.key = TRUE, !.unresolved = TRUE,
                   !.rollback = (row = "rolled_back")]
    ELSE t

LoadAdjustment(w) ==
    /\ job[w].pc = "load"
    /\ LET t == LedgerFlags(job[w].t)
       IN Memory(w, IF t.unresolved \/ t.rollback THEN "release"
                    ELSE "refundBegin", t)
    /\ UNCHANGED <<task, record, money, submit, faults>>

(* releaseTaskBillingAdjustment: RollbackBillingAdjustment ...               *)
Release(w) ==
    /\ job[w].pc = "release"
    /\ IF row = "absent" THEN Goto(w, "releaseRes") /\ UNCHANGED money
       ELSE RollbackRow /\ Goto(w, "releasePersist")
    /\ UNCHANGED <<task, record, submit, faults>>

(* ... or RefundBillingReservation, which closes the key with a row.         *)
ReleaseReservation(w) ==
    /\ job[w].pc = "releaseRes"
    /\ \/ row = "applied" /\ Finish(w) /\ UNCHANGED money
       \/ /\ row \in {"absent", "pending"}
          /\ CreditReservation
          /\ Goto(w, "releasePersist")
       \/ /\ row = "rolled_back"
          /\ Goto(w, "releasePersist")
          /\ UNCHANGED money
    /\ UNCHANGED <<task, record, submit, faults>>

ReleasePersist(w) ==
    /\ job[w].pc = "releasePersist"
    /\ task' = AccountingFailure([job[w].t EXCEPT !.quota = 0, !.refund = FALSE,
                   !.unresolved = FALSE, !.rollback = FALSE,
                   !.status = "failure"])
    /\ Finish(w)
    /\ UNCHANGED <<record, money, submit, faults>>

(* finalizeAppliedTaskRefund.                                                *)
Refunded(t) ==
    [t EXCEPT !.quota = 0, !.refund = FALSE,
              !.settle = IF @ = "REVIEW" THEN "" ELSE @,
              !.attempt = IF t.settle = "REVIEW" THEN 0 ELSE @]

(* validateAppliedTaskRefundDetails: of what the task shows, unless it is    *)
(* refunded already.                                                         *)
RefundApplied(t) ==
    /\ record.status = "APPLIED" /\ record.op = "refund"
    /\ t.quota > 0 => record.pre = t.quota

(* A record under review is prepared again; an applied one must be a refund  *)
(* of this task's quota.                                                     *)
RefundBegin(w) ==
    /\ job[w].pc = "refundBegin"
    /\ LET t == job[w].t
           applied == record.status = "APPLIED"
       IN CASE RefundApplied(t) ->
                 Save(w, "idle", Refunded(t)) /\ UNCHANGED record
            [] applied /\ ~RefundApplied(t) ->
                 /\ job' = [job EXCEPT ![w].pc = "review",
                               ![w].pre = IF t.quota > 0 THEN t.quota
                                          ELSE record.pre]
                 /\ UNCHANGED <<task, record>>
            [] ~applied /\ t.quota = 0 ->
                 /\ task' = IF t.refund
                            THEN AccountingFailure([t EXCEPT !.refund = FALSE])
                            ELSE task
                 /\ Finish(w)
                 /\ UNCHANGED record
            [] OTHER ->
                 /\ record' = [NoRecord EXCEPT !.status = "PREPARED"]
                 /\ job' = [job EXCEPT ![w].pc = "refundApply",
                                       ![w].pre = t.quota]
                 /\ UNCHANGED task
    /\ UNCHANGED <<money, submit, faults>>

-----------------------------------------------------------------------------
(* Faults.                                                                   *)

(* A database error.  The accounting transaction puts record and task under  *)
(* review, unless the error is the retryable one, which a refund just        *)
(* returns; a failed write of a settled task puts it under review, and so    *)
(* does a refund that cannot begin or be finalized.                          *)
JobFails(w) ==
    /\ faults < setup.faults
    /\ LET t == job[w].t
           Refuse(u) == job' = [job EXCEPT ![w].pc = "review", ![w].t = u,
                                           ![w].pre = t.quota]
       IN \/ /\ job[w].pc \in {"syncRead", "syncApply", "syncReread",
                                "syncPersist", "delta", "begin", "apply"}
             /\ SyncError(w)
          \/ /\ job[w].pc \in {"apply", "refundApply"}
             /\ Goto(w, "recordReview")
          \/ /\ \/ job[w].pc = "prepaid"
                \/ /\ job[w].pc = "delta" /\ t.quota = job[w].actual
                   /\ record.status \in {"none", "PREPARED"}
             /\ job' = [job EXCEPT ![w].pc = "review", ![w].actual = t.quota]
          \/ /\ job[w].pc = "refundBegin"
             /\ \/ t.quota > 0 /\ Refuse(t)
                \/ RefundApplied(t) /\ Refuse(Refunded(t))
    /\ faults' = faults + 1
    /\ UNCHANGED <<task, record, money, submit>>

(* The process dies, or the lease of the pass is lost; an error of the       *)
(* release or of a load ends the job the same way.                           *)
JobCrash(w) ==
    /\ faults < setup.faults
    /\ job[w].pc # "idle"
    /\ Finish(w)
    /\ faults' = faults + 1
    /\ UNCHANGED <<task, record, money, submit>>

-----------------------------------------------------------------------------
TakeUp(w) ==
    Poll(w) \/ RecoverRefund(w) \/ RecoverSettlement(w) \/ RetryReview(w)

JobStep(w) ==
    \/ CompareAndSet(w) \/ SettlePrepaid(w) \/ SyncRead(w)
    \/ SyncAct(w) \/ SyncApply(w) \/ SyncPersist(w)
    \/ Delta(w) \/ Begin(w) \/ Apply(w)
    \/ RecordReview(w) \/ Review(w) \/ Reopen(w) \/ LoadAdjustment(w)
    \/ Release(w) \/ ReleaseReservation(w) \/ ReleasePersist(w)
    \/ RefundBegin(w)

Next ==
    /\ \/ SubmitStep \/ SubmitCrash
       \/ ImportSpool \/ RecoverPending \/ ExpireReserve
       \/ \E w \in Workers :
            TakeUp(w) \/ JobStep(w) \/ JobFails(w) \/ JobCrash(w)
    /\ UNCHANGED setup

Spec == Init /\ [][Next]_vars

(* A handler and a job that runs goes on; every node runs the recovery loop  *)
(* and the polling passes for ever.                                          *)
Fairness ==
    /\ WF_state(SubmitStep)
    /\ WF_state(ImportSpool) /\ WF_state(RecoverPending)
    /\ \A w \in Workers : WF_state(JobStep(w)) /\ WF_state(TakeUp(w))

FairSpec == Spec /\ Fairness

-----------------------------------------------------------------------------
TypeOK ==
    /\ task \in Task
    /\ record \in Record
    /\ row \in RowStatus
    /\ spool \in BOOLEAN
    /\ reserve \in {"held", "settled", "refunded"}
    /\ paid \in Int
    /\ submit \in [pc : SubmitPC, t : Task, base : Task]
    /\ job \in [Workers -> Job]
    /\ faults \in 0..setup.faults
    /\ setup \in Setups

AtRest == /\ Submitted
          /\ \A w \in Workers : job[w].pc = "idle"

(* Nothing is left to do for the task: no flag, no review, no charge on its  *)
(* way to the ledger.                                                        *)
Final == /\ AtRest
         /\ task.status \in {"success", "failure"}
         /\ task.settle # "REVIEW"
         /\ task.status = "success" => task.settle = "SETTLED"
         /\ task.status = "failure" => task.quota = 0
         /\ ~task.refund /\ ~task.unresolved /\ ~task.rollback
         /\ row # "pending" /\ ~spool

(* Passes do not overlap.                                                    *)
OnePass == Cardinality(setup.workers) = 1

(* The submission runs to its end and its last write succeeds, whatever      *)
(* else fails in it, no pass takes the task up before, and no reserve        *)
(* expires.                                                                  *)
Regular == /\ ~setup.overtaking /\ ~setup.expiry
           /\ {"crash", "fail"} \cap setup.submit = {}

(* It may die or give up, but not after a failed log: it has not begun to    *)
(* roll back.  If passes overlap, its charge is not in a spool file and no   *)
(* database error follows.                                                   *)
DiesCharging ==
    /\ ~setup.overtaking /\ ~setup.expiry /\ "log" \notin setup.submit
    /\ OnePass \/ (setup.faults = 0 /\ "spool" \notin setup.submit)

(* It may die or give up anywhere; one pass, no database error, and the      *)
(* upstream names a price.                                                   *)
DiesRollingBack ==
    /\ ~setup.overtaking /\ ~setup.expiry
    /\ OnePass /\ setup.faults = 0 /\ 0 \notin setup.actuals

(* One pass overtakes a submission that may die or fail to store its charge, *)
(* but does not fail otherwise.                                              *)
OvertakenByOne == /\ OnePass /\ ~setup.expiry
                  /\ setup.submit \subseteq {"unsaved", "crash"}

(* When nothing is left to do, the wallet has paid exactly what the task row *)
(* says it costs, whether the ledger or the settlement record did the        *)
(* accounting (RefundTaskQuota, RecalculateTaskQuota,                        *)
(* applyAsyncTaskAccountingAtomic).  After a submission that ended regularly *)
(* this is claimed whatever passes overlap, die or meet database errors.     *)
(* The code does not keep it after every submission that died, gave up or    *)
(* was overtaken: it is claimed in the three cases above, and the README     *)
(* lists the others.  NeverOverRefunded is about a reserve that expires.     *)
(* The types are checked along.                                              *)
MoneyMatchesTask ==
    /\ TypeOK
    /\ Final /\ (Regular \/ DiesCharging \/ DiesRollingBack \/ OvertakenByOne)
         => paid = task.quota

(* The wallet never gets back more than it paid: the reservation is not      *)
(* credited by the expiry of its reserve and by the refund of the task as    *)
(* well (RefundTaskQuota).                                                   *)
NeverOverRefunded == paid >= 0

(* A failed task whose refund is marked pending gets it                      *)
(* (recoverPendingTaskRefunds).  Two passes may put the task under review    *)
(* for each other for as long as both run, so this is claimed of one.  A     *)
(* FAILURE written without the mark is not covered.                          *)
PendingRefundPaid ==
    (OnePass /\ task.status = "failure" /\ task.refund)
        ~> (~task.refund /\ paid <= 0)

(* The task waits for the row of a charge that was neither stored nor        *)
(* spooled.                                                                  *)
ChargeLost == task.unresolved /\ row = "absent" /\ ~spool

(* A finished task is settled in the end (recoverPendingTaskSettlements,     *)
(* RetryTaskSettlementReview), by one pass and unless its charge was lost:   *)
(* such a task stays under review.                                           *)
SuccessSettles ==
    (OnePass /\ Submitted /\ task.status = "success" /\ ~ChargeLost)
        ~> (task.settle = "SETTLED" \/ task.status = "failure")
=============================================================================
