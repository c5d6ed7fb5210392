----------------------- MODULE TaskSettlementProofs -----------------------
(***************************************************************************)
(* Proofs about TaskSettlement, for every reservation, every price and     *)
(* every number of passes and faults.                                      *)
(***************************************************************************)
EXTENDS TaskSettlement, TLAPS

(***************************************************************************)
(* The inductive invariant.                                                *)
(***************************************************************************)
\* The row as it is inserted.
Fresh == [NoTask EXCEPT !.status = "submitted", !.quota = Prepaid]

\* The submission left the charge to the ledger's recovery.
Deferred == submit.t.unresolved

\* What the wallet has paid while the ledger row r decides.
Charged(r) == IF r = "rolled_back" THEN 0 ELSE Prepaid

\* What a finished task costs: its reservation until its record is applied.
Price(rec) == IF rec.status = "APPLIED" THEN rec.applied ELSE Prepaid

Idle(j) == j.pc = "idle"

\* A pass that has yet to report the outcome.
Reporting(j) == /\ j.pc = "cas"
                /\ j.base.status = "submitted"
                /\ j.t.status \in {"success", "failure"}
                /\ j.failing = (j.t.status = "failure")

\* Until the submission is over nobody else sees the task.
Submitting ==
    /\ record = NoRecord
    /\ paid = Charged(row)
    /\ \A w \in Workers : Idle(job[w])
    /\ submit.pc # "insert" => task = Fresh /\ submit.base = Fresh
    /\ submit.pc # "crashed"
    /\ submit.pc \in {"ensure", "apply", "log", "rollback", "failed", "settleErr"}
         => submit.t = Fresh
    /\ submit.pc \in {"insert", "ensure", "settleErr", "refundable"} => row # "rolled_back"
    /\ submit.pc = "apply" => row \in {"pending", "applied"}
    /\ submit.pc \in {"log", "rollback"} => row = "applied"
    /\ submit.pc = "failed" => row = "rolled_back"
    /\ submit.pc = "refundable" => submit.t.unresolved

\* The upstream works on the task.
Waiting ==
    /\ record = NoRecord
    /\ paid = Prepaid
    /\ row # "rolled_back"
    /\ task.quota = Prepaid /\ ~task.rollback
    /\ IF Deferred THEN task.settle = "REVIEW" /\ task.unresolved
       ELSE task.settle = "" /\ ~task.unresolved /\ row = "applied"
    /\ \A w \in Workers : Idle(job[w]) \/ Reporting(job[w])

\* A pass settles a task that costs price.
Settles(j, price) ==
    /\ j.pc \in {"prepaid", "syncRead", "syncAct", "syncApply", "syncReread", "syncPersist",
                 "delta", "begin", "apply", "recordReview", "review"}
    /\ ~j.failing /\ ~j.t.rollback
    /\ j.t.quota \in {Prepaid, price} /\ j.base.quota \in {Prepaid, price}
    /\ j.t.quota # j.base.quota => j.t.quota = price
    /\ j.pc \in {"begin", "apply"} => j.pre \in {Prepaid, price}

\* After a deferred charge: the task was loaded under review, before it cost anything but
\* its reservation.
SettlesDeferred(j) ==
    /\ j.base.settle = "REVIEW" /\ j.base.quota = Prepaid
    /\ j.t.settle \in {"REVIEW", "SETTLED"}

\* After an applied charge: the ledger has nothing to say any more.
SettlesCharged(j) ==
    /\ ~j.t.unresolved
    /\ j.t.settle = j.base.settle /\ j.t.quota = j.base.quota
    /\ j.base.settle \in {"", "REVIEW"}
    /\ j.base.settle = "" => j.base.quota = Prepaid
    /\ j.pc \notin {"syncApply", "syncReread", "syncPersist"}
    /\ j.pc = "syncAct" => j.seen = "applied"

SettlingJob(j, price, deferred) ==
    \/ Idle(j) \/ Reporting(j)
    \/ Settles(j, price) /\ (IF deferred THEN SettlesDeferred(j) ELSE SettlesCharged(j))

\* The row of a task that succeeded.
CostOk(tk, rec, r, deferred) ==
    /\ tk.quota = Price(rec)
    /\ ~tk.rollback
    /\ r # "rolled_back"
    /\ rec.status = "APPLIED" => rec.op = "recalculation"
    /\ IF deferred
       THEN /\ tk.settle \in {"REVIEW", "SETTLED"}
            /\ rec.status = "APPLIED" => tk.settle = "SETTLED"
       ELSE /\ r = "applied"
            /\ ~tk.unresolved
            /\ tk.settle \in {"", "REVIEW", "SETTLED"}
            /\ rec.status = "APPLIED" => tk.settle # ""

\* The task succeeded: the record decides what it costs.
Succeeded ==
    /\ paid = Price(record)
    /\ CostOk(task, record, row, Deferred)
    /\ \A w \in Workers : SettlingJob(job[w], Price(record), Deferred)

\* The ledger row r will take back what the task t reserved.
Owned(t, r) == t.unresolved \/ t.rollback \/ (Open(t) /\ r # "absent")

\* A pass takes the charge back.
RefundingJob(j, r) ==
    \/ Idle(j) \/ Reporting(j)
    \/ /\ j.pc \in {"reopen", "load", "release", "releaseRes", "releasePersist"}
       /\ j.pc \in {"reopen", "load"} => Owned(j.t, r)
       /\ j.pc = "releasePersist" => r = "rolled_back"

\* The task failed: the ledger row decides.
Failed ==
    /\ record = NoRecord
    /\ paid = Charged(row)
    /\ task.quota = 0 => row = "rolled_back"
    /\ task.refund => Owned(task, row)
    /\ \A w \in Workers : RefundingJob(job[w], row)

Over == submit.pc = "done"

Accounts ==
    /\ reserve = "refunded" => row = "rolled_back"
    /\ ~Over => Submitting
    /\ Over => task.status # "none"
    /\ Over /\ task.status = "submitted" => Waiting
    /\ Over /\ task.status = "success" => Succeeded
    /\ Over /\ task.status = "failure" => Failed

Sound == TypeOK /\ (Regular => Accounts)

(***************************************************************************)
(* Types.                                                                  *)
(***************************************************************************)
(* Quotas are natural numbers.                                               *)
LEMMA QuotasTyped ==
    /\ Quotas \subseteq Nat /\ 0 \in Quotas /\ Prepaid \in Quotas
    /\ Prepaid \in Nat /\ Prepaid # 0
  BY SettlementAssumption DEF Quotas

(* What a setup says.                                                        *)
LEMMA SetupTyped ==
    ASSUME setup \in Setups
    PROVE  /\ setup.workers \subseteq Workers /\ setup.actuals \subseteq Quotas
           /\ setup.faults \in Nat
  BY SettlementAssumption DEF Quotas

(* The empty rows and the empty job.                                         *)
LEMMA NothingTyped == NoTask \in Task /\ NoRecord \in Record /\ NoJob \in Job
  <1>1. NoTask \in Task
    BY QuotasTyped DEF NoTask, Task
  <1>2. NoRecord \in Record
    BY QuotasTyped DEF NoRecord, Record
  <1>3. NoJob \in Job
    BY <1>1, QuotasTyped DEF NoJob, Job, JobPC, RowStatus
  <1> QED
    BY <1>1, <1>2, <1>3

(* A copy without the ledger's identity leaves the stored one alone.         *)
LEMMA OverlayFields ==
    ASSUME NEW cur \in Task, NEW t \in Task
    PROVE  LET o == Overlay(cur, t)
               own == t.key \/ t.unresolved \/ t.rollback
           IN  /\ o \in Task
               /\ o.status = cur.status /\ o.quota = cur.quota /\ o.settle = cur.settle
               /\ o.refund = cur.refund /\ o.attempt = cur.attempt
               /\ o.unresolved = IF own THEN t.unresolved ELSE cur.unresolved
               /\ o.rollback = IF own THEN t.rollback ELSE cur.rollback
  <1>1. CASE t.key \/ t.unresolved \/ t.rollback
    <2>1. Overlay(cur, t) = [cur EXCEPT !.key = t.key, !.unresolved = t.unresolved,
                                        !.rollback = t.rollback]
      BY <1>1 DEF Overlay
    <2> QED
      BY <1>1, <2>1 DEF Task
  <1>2. CASE ~(t.key \/ t.unresolved \/ t.rollback)
    <2>1. Overlay(cur, t) = cur
      BY <1>2 DEF Overlay
    <2> QED
      BY <1>2, <2>1
  <1> QED
    BY <1>1, <1>2

(* What the passes and the submission write.                                 *)
LEMMA SettlementFieldsAre ==
    ASSUME task \in Task, NEW t \in Task, NEW base \in Task
    PROVE  LET f == SettlementFields(t, base)
               own == t.key \/ t.unresolved \/ t.rollback
           IN  /\ f \in Task
               /\ f.status = task.status
               /\ f.quota = IF t.quota # base.quota THEN t.quota ELSE task.quota
               /\ f.settle = IF t.settle # base.settle THEN t.settle ELSE task.settle
               /\ f.unresolved = IF own THEN t.unresolved ELSE task.unresolved
               /\ f.rollback = IF own THEN t.rollback ELSE task.rollback
  <1> DEFINE o == Overlay(task, t)
             own == t.key \/ t.unresolved \/ t.rollback
  <1>1. /\ o \in Task
        /\ o.status = task.status /\ o.quota = task.quota /\ o.settle = task.settle
        /\ o.unresolved = IF own THEN t.unresolved ELSE task.unresolved
        /\ o.rollback = IF own THEN t.rollback ELSE task.rollback
    BY OverlayFields
  <1>2. SettlementFields(t, base) =
          [o EXCEPT !.quota = Patched(t.quota, base.quota, task.quota),
                    !.settle = Patched(t.settle, base.settle, task.settle),
                    !.refund = Patched(t.refund, base.refund, task.refund),
                    !.attempt = Patched(t.attempt, base.attempt, task.attempt)]
    BY DEF SettlementFields
  <1> HIDE DEF o, own
  <1>3. /\ SettlementFields(t, base).status = o.status
        /\ SettlementFields(t, base).unresolved = o.unresolved
        /\ SettlementFields(t, base).rollback = o.rollback
        /\ SettlementFields(t, base).quota = Patched(t.quota, base.quota, task.quota)
        /\ SettlementFields(t, base).settle = Patched(t.settle, base.settle, task.settle)
    BY <1>1, <1>2 DEF Task
  <1>4. SettlementFields(t, base) \in Task
    BY <1>1, <1>2 DEF Task, Patched
  <1> QED
    BY <1>1, <1>3, <1>4 DEF Patched, own

(* The write of a failure takes status, quota and flags from the caller.     *)
LEMMA AccountingFailureIs ==
    ASSUME task \in Task, NEW t \in Task
    PROVE  LET f == AccountingFailure(t)
               own == t.key \/ t.unresolved \/ t.rollback
           IN  /\ f \in Task
               /\ f.status = t.status /\ f.quota = t.quota
               /\ f.settle = t.settle /\ f.refund = t.refund
               /\ f.unresolved = IF own THEN t.unresolved ELSE task.unresolved
               /\ f.rollback = IF own THEN t.rollback ELSE task.rollback
  <1> DEFINE o == Overlay(task, t)
             own == t.key \/ t.unresolved \/ t.rollback
  <1>1. /\ o \in Task
        /\ o.unresolved = IF own THEN t.unresolved ELSE task.unresolved
        /\ o.rollback = IF own THEN t.rollback ELSE task.rollback
    BY OverlayFields
  <1>2. AccountingFailure(t) =
          [o EXCEPT !.quota = t.quota, !.status = t.status, !.settle = t.settle,
                    !.refund = t.refund, !.attempt = t.attempt]
    BY DEF AccountingFailure
  <1> HIDE DEF o, own
  <1>3. /\ AccountingFailure(t) \in Task
        /\ AccountingFailure(t).status = t.status /\ AccountingFailure(t).quota = t.quota
        /\ AccountingFailure(t).settle = t.settle /\ AccountingFailure(t).refund = t.refund
        /\ AccountingFailure(t).unresolved = o.unresolved
        /\ AccountingFailure(t).rollback = o.rollback
    BY <1>1, <1>2 DEF Task
  <1> QED
    BY <1>1, <1>3 DEF own

(* The write of a status.                                                    *)
LEMMA StatusPatchTyped ==
    ASSUME task \in Task, NEW t \in Task, NEW base \in Task
    PROVE  StatusPatch(t, base) \in Task
  BY DEF StatusPatch, Patched, Task

(* The write of the accounting transaction.                                  *)
LEMMA AccountedTyped ==
    ASSUME task \in Task, NEW q \in Quotas, NEW failing \in BOOLEAN
    PROVE  Accounted(q, failing) \in Task
  BY QuotasTyped DEF Accounted, Task

(* A task in memory that is settled or refunded.                             *)
LEMMA SettledTyped ==
    ASSUME NEW t \in Task
    PROVE  Settled(t) \in Task /\ Refunded(t) \in Task
  BY QuotasTyped DEF Settled, Refunded, Task

(* What a pass does becomes its job.                                         *)
Becomes(w, j) == job' = [job EXCEPT ![w] = j]

(* The step of one pass leaves the jobs of the others alone.                 *)
LEMMA JobTyped ==
    ASSUME job \in [Workers -> Job], NEW w \in Workers, NEW j \in Job, Becomes(w, j)
    PROVE  /\ job' \in [Workers -> Job]
           /\ job'[w] = j
           /\ \A v \in Workers : v # w => job'[v] = job[v]
  BY DEF Becomes

(* A pass goes on.                                                           *)
LEMMA GotoBecomes ==
    ASSUME job \in [Workers -> Job], NEW w \in Workers, NEW next \in JobPC, Goto(w, next)
    PROVE  /\ Becomes(w, [job[w] EXCEPT !.pc = next])
           /\ [job[w] EXCEPT !.pc = next] \in Job
  BY DEF Goto, Becomes, Job

(* A pass goes on with another copy of the task.                             *)
LEMMA MemoryBecomes ==
    ASSUME job \in [Workers -> Job], NEW w \in Workers, NEW next \in JobPC, NEW t \in Task,
           Memory(w, next, t)
    PROVE  /\ Becomes(w, [job[w] EXCEPT !.pc = next, !.t = t])
           /\ [job[w] EXCEPT !.pc = next, !.t = t] \in Job
  BY DEF Memory, Becomes, Job

(* A pass ends.                                                              *)
LEMMA FinishBecomes ==
    ASSUME NEW w, Finish(w)
    PROVE  Becomes(w, NoJob) /\ NoJob \in Job
  BY NothingTyped DEF Finish, Becomes

Loaded(next, t, actual) ==
    [NoJob EXCEPT !.pc = next, !.t = t, !.base = task, !.actual = actual,
                  !.failing = (t.status = "failure")]

(* A pass loads the task.                                                    *)
LEMMA LoadBecomes ==
    ASSUME task \in Task, NEW w, NEW next \in JobPC, NEW t \in Task, NEW actual \in Quotas,
           Load(w, next, t, actual)
    PROVE  Becomes(w, Loaded(next, t, actual)) /\ Loaded(next, t, actual) \in Job
  <1>1. Becomes(w, Loaded(next, t, actual))
    BY DEF Load, Becomes, Loaded
  <1>2. Loaded(next, t, actual) \in Job
    BY QuotasTyped DEF Loaded, NoJob, Job, RowStatus
  <1> QED
    BY <1>1, <1>2

(* The same, for the types.                                                  *)
LEMMA LoadTyped ==
    ASSUME task \in Task, job \in [Workers -> Job],
           NEW w \in Workers, NEW next \in JobPC, NEW t \in Task, NEW actual \in Quotas,
           Load(w, next, t, actual)
    PROVE  job' \in [Workers -> Job]
  <1>1. Becomes(w, Loaded(next, t, actual)) /\ Loaded(next, t, actual) \in Job
    BY LoadBecomes
  <1> QED
    BY <1>1, JobTyped

(* A write of settlement fields, and what the pass goes on with.             *)
Saved(w, next, t) ==
    IF next = "idle" THEN NoJob
    ELSE [job[w] EXCEPT !.pc = next,
                        !.t = [SettlementFields(t, job[w].base) EXCEPT !.status = t.status]]

(* The baseline of the pass stays the row as it was loaded.                  *)
LEMMA SaveBecomes ==
    ASSUME task \in Task, job \in [Workers -> Job], NEW w \in Workers, NEW next \in JobPC,
           NEW t \in Task, Save(w, next, t)
    PROVE  /\ task' = SettlementFields(t, job[w].base) /\ task' \in Task
           /\ Becomes(w, Saved(w, next, t)) /\ Saved(w, next, t) \in Job
  <1>1. job[w].base \in Task
    BY DEF Job
  <1>2. task' = SettlementFields(t, job[w].base) /\ task' \in Task
    BY <1>1, SettlementFieldsAre DEF Save
  <1>3. CASE next = "idle"
    BY <1>2, <1>3, FinishBecomes DEF Save, Saved
  <1>4. CASE next # "idle"
    <2>1. [task' EXCEPT !.status = t.status] \in Task
      BY <1>2 DEF Task
    <2>2. Memory(w, next, [task' EXCEPT !.status = t.status])
      BY <1>4 DEF Save
    <2> QED
      BY <1>2, <1>4, <2>1, <2>2, MemoryBecomes DEF Saved
  <1> QED
    BY <1>3, <1>4

(* The money a step moves.                                                   *)
MoneyTyped == /\ row \in RowStatus /\ spool \in BOOLEAN
              /\ reserve \in {"held", "settled", "refunded"} /\ paid \in Int

(* The transactions of the ledger.                                           *)
LEMMA MoneyMoves ==
    ASSUME MoneyTyped, ApplyRow \/ CreditReservation \/ CreditCharge \/ RollbackRow
                       \/ UNCHANGED money
    PROVE  MoneyTyped'
  BY QuotasTyped DEF MoneyTyped, ApplyRow, CreditReservation, CreditCharge, RollbackRow, money,
                     RowStatus

(* The submission goes on.                                                   *)
LEMMA SubmitTyped ==
    ASSUME submit \in [pc : SubmitPC, t : Task, base : Task], NEW next \in SubmitPC,
           NEW t \in Task, SubmitTo(next, t)
    PROVE  /\ submit' \in [pc : SubmitPC, t : Task, base : Task]
           /\ submit'.pc = next /\ submit'.t = t /\ submit'.base = submit.base
  BY DEF SubmitTo

(* Types of the submission's steps.                                          *)
LEMMA SubmitStepTyped ==
    ASSUME TypeOK, SubmitStep \/ SubmitCrash, UNCHANGED setup
    PROVE  TypeOK'
  <1> DEFINE S == [pc : SubmitPC, t : Task, base : Task]
  <1>0. /\ task \in Task /\ record \in Record /\ MoneyTyped /\ submit \in S
        /\ job \in [Workers -> Job] /\ faults \in 0 .. setup.faults /\ setup \in Setups
        /\ submit.t \in Task /\ submit.base \in Task
    BY DEF TypeOK, MoneyTyped
  <1>1. SUFFICES ASSUME task' \in Task, MoneyTyped', submit' \in S,
                        UNCHANGED <<record, job, faults>>
                 PROVE  TypeOK'
    <2>1. CASE Insert
      <3>1. task' \in Task /\ submit' \in S
        BY <2>1, NothingTyped, QuotasTyped DEF Insert, Task, SubmitPC
      <3>2. UNCHANGED money /\ UNCHANGED <<record, job, faults>>
        BY <2>1 DEF Insert
      <3> QED
        BY <1>0, <1>1, <3>1, <3>2, MoneyMoves
    <2>2. CASE SubmitEnsure
      <3>1. MoneyTyped' /\ UNCHANGED <<task, record, job, faults>>
        BY <1>0, <2>2 DEF SubmitEnsure, MoneyTyped, RowStatus
      <3>2. PICK next \in {"settleErr", "apply"} : SubmitTo(next, submit.t)
        BY <2>2 DEF SubmitEnsure
      <3>3. submit' \in S
        BY <1>0, <3>2, SubmitTyped DEF SubmitPC
      <3> QED
        BY <1>0, <1>1, <3>1, <3>3
    <2>3. CASE SubmitApply
      <3>1. MoneyTyped' /\ UNCHANGED <<task, record, job, faults>>
        BY <1>0, <2>3, MoneyMoves DEF SubmitApply
      <3>2. PICK next \in {"settleErr", "log"} : SubmitTo(next, submit.t)
        BY <2>3 DEF SubmitApply
      <3>3. submit' \in S
        BY <1>0, <3>2, SubmitTyped DEF SubmitPC
      <3> QED
        BY <1>0, <1>1, <3>1, <3>3
    <2>4. CASE SubmitReview
      <3> DEFINE t == [submit.t EXCEPT !.quota = Prepaid, !.attempt = Prepaid,
                                       !.settle = "REVIEW", !.key = TRUE, !.unresolved = TRUE]
      <3>1. t \in Task
        BY <1>0, QuotasTyped DEF Task
      <3>2. \/ task' = SettlementFields(t, submit.base) /\ SubmitTo("done", t)
            \/ SubmitTo("refundable", t) /\ UNCHANGED task
        BY <2>4 DEF SubmitReview
      <3>3. UNCHANGED money /\ UNCHANGED <<record, job, faults>>
        BY <2>4 DEF SubmitReview
      <3> HIDE DEF t
      <3>4. task' \in Task
        BY <1>0, <3>1, <3>2, SettlementFieldsAre
      <3>5. submit' \in S
        BY <1>0, <3>1, <3>2, SubmitTyped DEF SubmitPC
      <3> QED
        BY <1>0, <1>1, <3>3, <3>4, <3>5, MoneyMoves
    <2>5. CASE SubmitRefundable
      <3> DEFINE t == [submit.t EXCEPT !.quota = Prepaid, !.attempt = Prepaid,
                                       !.refund = TRUE, !.status = "failure",
                                       !.settle = IF @ = "REVIEW" THEN "" ELSE @]
      <3>1. t \in Task
        BY <1>0, QuotasTyped DEF Task
      <3>2. (task' = AccountingFailure(t) \/ UNCHANGED task) /\ SubmitTo("done", t)
        BY <2>5 DEF SubmitRefundable
      <3>3. UNCHANGED money /\ UNCHANGED <<record, job, faults>>
        BY <2>5 DEF SubmitRefundable
      <3> HIDE DEF t
      <3>4. task' \in Task
        BY <1>0, <3>1, <3>2, AccountingFailureIs
      <3>5. submit' \in S
        BY <1>0, <3>1, <3>2, SubmitTyped DEF SubmitPC
      <3> QED
        BY <1>0, <1>1, <3>3, <3>4, <3>5, MoneyMoves
    <2>6. CASE SubmitLog
      <3>1. UNCHANGED money /\ UNCHANGED <<task, record, job, faults>>
        BY <2>6 DEF SubmitLog
      <3>2. PICK next \in {"done", "rollback"} : SubmitTo(next, submit.t)
        BY <2>6 DEF SubmitLog
      <3>3. submit' \in S
        BY <1>0, <3>2, SubmitTyped DEF SubmitPC
      <3> QED
        BY <1>0, <1>1, <3>1, <3>3, MoneyMoves
    <2>7. CASE SubmitRollback
      <3> DEFINE t == [submit.t EXCEPT !.key = TRUE, !.unresolved = TRUE, !.rollback = TRUE]
      <3>1. t \in Task
        BY <1>0 DEF Task
      <3>2. MoneyTyped' /\ UNCHANGED <<task, record, job, faults>>
        BY <1>0, <2>7, MoneyMoves DEF SubmitRollback
      <3>3. SubmitTo("failed", submit.t) \/ SubmitTo("refundable", t)
        BY <2>7 DEF SubmitRollback
      <3> HIDE DEF t
      <3>4. submit' \in S
        BY <1>0, <3>1, <3>3, SubmitTyped DEF SubmitPC
      <3> QED
        BY <1>0, <1>1, <3>2, <3>4
    <2>8. CASE SubmitFailed
      <3>1. PICK usage \in BOOLEAN :
              LET t == [submit.t EXCEPT !.quota = 0, !.refund = usage, !.attempt = Prepaid,
                                        !.status = "failure",
                                        !.settle = IF usage THEN "" ELSE "REVIEW"]
              IN (task' = AccountingFailure(t) \/ UNCHANGED task) /\ SubmitTo("done", t)
        BY <2>8 DEF SubmitFailed
      <3> DEFINE t == [submit.t EXCEPT !.quota = 0, !.refund = usage, !.attempt = Prepaid,
                                       !.status = "failure",
                                       !.settle = IF usage THEN "" ELSE "REVIEW"]
      <3>2. t \in Task
        BY <1>0, QuotasTyped DEF Task
      <3>3. (task' = AccountingFailure(t) \/ UNCHANGED task) /\ SubmitTo("done", t)
        BY <3>1
      <3>4. UNCHANGED money /\ UNCHANGED <<record, job, faults>>
        BY <2>8 DEF SubmitFailed
      <3> HIDE DEF t
      <3>5. task' \in Task
        BY <1>0, <3>2, <3>3, AccountingFailureIs
      <3>6. submit' \in S
        BY <1>0, <3>2, <3>3, SubmitTyped DEF SubmitPC
      <3> QED
        BY <1>0, <1>1, <3>4, <3>5, <3>6, MoneyMoves
    <2>9. CASE SubmitCrash
      <3>1. UNCHANGED money /\ UNCHANGED <<task, record, job, faults>>
        BY <2>9 DEF SubmitCrash
      <3>2. submit' \in S
        BY <1>0, <2>9, SubmitTyped DEF SubmitCrash, SubmitPC
      <3> QED
        BY <1>0, <1>1, <3>1, <3>2, MoneyMoves
    <2> QED
      BY <2>1, <2>2, <2>3, <2>4, <2>5, <2>6, <2>7, <2>8, <2>9 DEF SubmitStep
  <1> QED
    BY <1>0, <1>1 DEF TypeOK, MoneyTyped

(* Types of the ledger's own passes.                                         *)
LEMMA LedgerTyped ==
    ASSUME TypeOK, ImportSpool \/ RecoverPending \/ ExpireReserve, UNCHANGED setup
    PROVE  TypeOK'
  <1>1. MoneyTyped
    BY DEF TypeOK, MoneyTyped
  <1>2. MoneyTyped' /\ UNCHANGED <<task, record, submit, job, faults>>
    <2>1. CASE ImportSpool
      BY <1>1, <2>1 DEF ImportSpool, MoneyTyped, RowStatus
    <2>2. CASE RecoverPending
      BY <1>1, <2>2, MoneyMoves DEF RecoverPending
    <2>3. CASE ExpireReserve
      BY <1>1, <2>3, QuotasTyped DEF ExpireReserve, MoneyTyped
    <2> QED
      BY <2>1, <2>2, <2>3
  <1> QED
    BY <1>2 DEF TypeOK, MoneyTyped

(* The parts of a state that the step of a pass may change.                  *)
Parts == /\ task \in Task /\ record \in Record /\ MoneyTyped /\ job \in [Workers -> Job]

(* A step of a pass leaves the submission and the setup alone.               *)
LEMMA PartsTyped ==
    ASSUME TypeOK, UNCHANGED <<submit, setup>>, Parts', faults' \in 0 .. setup.faults
    PROVE  TypeOK'
  BY DEF TypeOK, Parts, MoneyTyped

(* What TypeOK says of one pass.                                             *)
LEMMA JobFields ==
    ASSUME TypeOK, NEW w \in Workers
    PROVE  /\ Parts /\ job[w] \in Job /\ job[w].t \in Task /\ job[w].base \in Task
           /\ job[w].actual \in Quotas /\ job[w].pre \in Quotas
           /\ job[w].seen \in RowStatus /\ job[w].failing \in BOOLEAN
  BY DEF TypeOK, Job, Parts, MoneyTyped

(* The records that passes write.                                            *)
LEMMA RecordTyped ==
    ASSUME record \in Record
    PROVE  /\ [NoRecord EXCEPT !.status = "PREPARED"] \in Record
           /\ [record EXCEPT !.status = "PREPARED"] \in Record
           /\ [record EXCEPT !.status = "REVIEW"] \in Record
           /\ record.applied \in Quotas
  BY QuotasTyped DEF NoRecord, Record

(* A pass takes the task up.                                                 *)
LEMMA TakeUpTyped ==
    ASSUME TypeOK, NEW w \in Workers, TakeUp(w)
    PROVE  Parts' /\ UNCHANGED <<submit, faults>>
  <1>1. Parts /\ setup \in Setups
    BY JobFields DEF TypeOK
  <1>2. task \in Task /\ job \in [Workers -> Job]
    BY <1>1 DEF Parts
  <1>3. CASE Poll(w)
    <2>1. UNCHANGED <<task, record, submit, faults>> /\ UNCHANGED money
      BY <1>3 DEF Poll
    <2>2. CASE \E a \in setup.actuals : Load(w, "cas", [task EXCEPT !.status = "success"], a)
      <3>1. PICK a \in setup.actuals : Load(w, "cas", [task EXCEPT !.status = "success"], a)
        BY <2>2
      <3>2. a \in Quotas
        BY <1>1, SetupTyped
      <3>3. [task EXCEPT !.status = "success"] \in Task
        BY <1>2 DEF Task
      <3>4. job' \in [Workers -> Job]
        BY <1>2, <3>1, <3>2, <3>3, LoadTyped DEF JobPC
      <3> QED
        BY <1>1, <2>1, <3>4, MoneyMoves DEF Parts
    <2>3. CASE \E flag \in BOOLEAN :
                 Load(w, "cas", [task EXCEPT !.status = "failure",
                                     !.refund = (flag /\ task.quota # 0) \/ task.refund], 0)
      <3>1. PICK flag \in BOOLEAN :
              Load(w, "cas", [task EXCEPT !.status = "failure",
                                  !.refund = (flag /\ task.quota # 0) \/ task.refund], 0)
        BY <2>3
      <3>2. [task EXCEPT !.status = "failure",
                         !.refund = (flag /\ task.quota # 0) \/ task.refund] \in Task
        BY <1>2 DEF Task
      <3>3. job' \in [Workers -> Job]
        <4>1. 0 \in Quotas /\ "cas" \in JobPC
          BY QuotasTyped DEF JobPC
        <4> QED
          BY <1>2, <3>1, <3>2, <4>1, LoadTyped
      <3> QED
        BY <1>1, <2>1, <3>3, MoneyMoves DEF Parts
    <2> QED
      BY <1>3, <2>2, <2>3 DEF Poll
  <1>4. CASE RecoverRefund(w)
    <2>1. job' \in [Workers -> Job]
      BY <1>2, <1>4, QuotasTyped, LoadTyped DEF RecoverRefund, JobPC
    <2> QED
      BY <1>1, <1>4, <2>1, MoneyMoves DEF RecoverRefund, Parts
  <1>5. Attempted \in Quotas
    BY <1>2 DEF Attempted, Task
  <1>6. CASE RecoverSettlement(w)
    <2>1. job' \in [Workers -> Job]
      BY <1>2, <1>5, <1>6, LoadTyped DEF RecoverSettlement, JobPC
    <2> QED
      BY <1>1, <1>6, <2>1, MoneyMoves DEF RecoverSettlement, Parts
  <1>7. CASE RetryReview(w)
    <2>1. job' \in [Workers -> Job]
      BY <1>2, <1>5, <1>7, LoadTyped DEF RetryReview, JobPC
    <2>2. record' \in Record
      BY <1>1, <1>7, RecordTyped DEF RetryReview, Parts
    <2> QED
      BY <1>1, <1>7, <2>1, <2>2, MoneyMoves DEF RetryReview, Parts
  <1> QED
    BY <1>3, <1>4, <1>6, <1>7 DEF TakeUp

(* A pass that reported the outcome first.                                   *)
Reported(w, t) ==
    [job[w] EXCEPT !.t = t, !.base = t,
                   !.pc = IF job[w].failing THEN "reopen"
                          ELSE IF job[w].actual > 0 THEN "syncRead" ELSE "prepaid"]

(* The pass that wins goes on with the merged row, the others end.           *)
LEMMA CompareAndSetBecomes ==
    ASSUME TypeOK, NEW w \in Workers, CompareAndSet(w)
    PROVE  /\ task' \in Task
           /\ \/ ~Wins(w) /\ task' = task /\ Becomes(w, NoJob)
              \/ /\ Wins(w) /\ task' = StatusPatch(job[w].t, job[w].base)
                 /\ IF job[w].failing /\ task'.quota = 0 THEN Becomes(w, NoJob)
                    ELSE Becomes(w, Reported(w, task')) /\ Reported(w, task') \in Job
  <1>1. Parts /\ job[w] \in Job /\ job[w].t \in Task /\ job[w].base \in Task
        /\ job[w].actual \in Quotas /\ job[w].failing \in BOOLEAN
    BY JobFields
  <1>2. CASE ~Wins(w)
    BY <1>1, <1>2 DEF CompareAndSet, Finish, Becomes, Parts
  <1>3. CASE Wins(w)
    <2>1. task' = StatusPatch(job[w].t, job[w].base) /\ task' \in Task
      BY <1>1, <1>3, StatusPatchTyped DEF CompareAndSet, Parts
    <2>2. CASE job[w].failing /\ task'.quota = 0
      BY <1>3, <2>1, <2>2 DEF CompareAndSet, Finish, Becomes
    <2>3. CASE ~(job[w].failing /\ task'.quota = 0)
      <3> DEFINE next == IF job[w].failing THEN "reopen"
                         ELSE IF job[w].actual > 0 THEN "syncRead" ELSE "prepaid"
      <3>1. job' = [job EXCEPT ![w].t = task', ![w].base = task', ![w].pc = next]
        BY <1>3, <2>3 DEF CompareAndSet
      <3>2. next \in JobPC
        <4>1. job[w].actual \in Nat
          BY <1>1, QuotasTyped
        <4> QED
          BY <1>1, <4>1 DEF JobPC
      <3>3. Reported(w, task') = [job[w] EXCEPT !.t = task', !.base = task', !.pc = next]
        BY DEF Reported
      <3> HIDE DEF next
      <3>4. Reported(w, task') \in Job
        BY <1>1, <2>1, <3>2, <3>3 DEF Job
      <3>5. Becomes(w, Reported(w, task'))
        BY <1>1, <3>1, <3>3 DEF Becomes, Parts, Job
      <3> QED
        BY <1>3, <2>1, <2>3, <3>4, <3>5
    <2> QED
      BY <2>2, <2>3
  <1> QED
    BY <1>2, <1>3

(* Moves of a pass that write nothing.                                       *)
LEMMA ParkedTyped ==
    ASSUME job \in [Workers -> Job], NEW w \in Workers,
           \/ Finish(w)
           \/ \E next \in JobPC : Goto(w, next)
           \/ \E next \in JobPC, t \in Task : Memory(w, next, t)
    PROVE  job' \in [Workers -> Job]
  BY FinishBecomes, GotoBecomes, MemoryBecomes, JobTyped

(* Partial writes.                                                           *)
LEMMA SaveTyped ==
    ASSUME task \in Task, job \in [Workers -> Job], NEW w \in Workers, NEW next \in JobPC,
           NEW t \in Task, Save(w, next, t)
    PROVE  task' \in Task /\ job' \in [Workers -> Job]
  <1>1. /\ task' \in Task
        /\ Becomes(w, Saved(w, next, t)) /\ Saved(w, next, t) \in Job
    BY SaveBecomes
  <1> QED
    BY <1>1, JobTyped

(* A pass notes the ledger row it read.                                      *)
LEMMA SyncReadBecomes ==
    ASSUME TypeOK, NEW w \in Workers, SyncRead(w)
    PROVE  \E next \in {"syncAct", "syncPersist"} :
             /\ next = IF job[w].pc = "syncRead" THEN "syncAct" ELSE "syncPersist"
             /\ Becomes(w, [job[w] EXCEPT !.seen = row, !.pc = next])
             /\ [job[w] EXCEPT !.seen = row, !.pc = next] \in Job
  <1> DEFINE next == IF job[w].pc = "syncRead" THEN "syncAct" ELSE "syncPersist"
  <1>1. job \in [Workers -> Job] /\ job[w] \in Job /\ row \in RowStatus
    BY JobFields DEF Parts, MoneyTyped
  <1>2. job' = [job EXCEPT ![w].seen = row,
                           ![w].pc = IF @ = "syncRead" THEN "syncAct" ELSE "syncPersist"]
    BY DEF SyncRead
  <1>3. job' = [job EXCEPT ![w] = [job[w] EXCEPT !.seen = row, !.pc = next]]
    BY <1>1, <1>2 DEF Job
  <1>4. next \in {"syncAct", "syncPersist"} /\ next \in JobPC
    BY DEF JobPC
  <1> HIDE DEF next
  <1>5. [job[w] EXCEPT !.seen = row, !.pc = next] \in Job
    BY <1>1, <1>4 DEF Job
  <1> QED
    BY <1>3, <1>4, <1>5 DEF Becomes, next

(* A pass reads the ledger.                                                  *)
LEMMA SyncTyped ==
    ASSUME TypeOK, NEW w \in Workers, SyncRead(w) \/ SyncAct(w) \/ SyncApply(w) \/ SyncPersist(w)
    PROVE  Parts' /\ UNCHANGED <<submit, faults>>
  <1> DEFINE t == job[w].t
             seen == job[w].seen
  <1>0. /\ Parts /\ task \in Task /\ job \in [Workers -> Job]
        /\ t \in Task /\ seen \in RowStatus /\ t.quota \in Quotas
    BY JobFields DEF Parts, Task
  <1>1. CASE SyncRead(w)
    <2>1. job' \in [Workers -> Job]
      BY <1>0, <1>1, SyncReadBecomes, JobTyped
    <2> QED
      BY <1>0, <1>1, <2>1, MoneyMoves DEF SyncRead, Parts
  <1>2. CASE SyncAct(w)
    <2>1. UNCHANGED <<record, submit, faults>> /\ UNCHANGED money
      BY <1>2 DEF SyncAct
    <2>2. /\ [t EXCEPT !.key = TRUE] \in Task
          /\ [t EXCEPT !.key = TRUE, !.quota = Held(seen, t.quota)] \in Task
          /\ [t EXCEPT !.key = TRUE, !.unresolved = TRUE] \in Task
      <3>1. Held(seen, t.quota) \in Quotas
        BY <1>0, QuotasTyped DEF Held, RowStatus
      <3> QED
        BY <1>0, <3>1 DEF Task
    <2>3. {"delta", "syncRead", "syncApply", "release", "review", "syncPersist"} \subseteq JobPC
      BY DEF JobPC
    <2>4. SyncError(w) => job' \in [Workers -> Job]
      BY <1>0, <2>3, ParkedTyped DEF SyncError
    <2>5. \/ Memory(w, "delta", [t EXCEPT !.key = TRUE]) /\ UNCHANGED task
          \/ Save(w, "delta", [t EXCEPT !.key = TRUE, !.quota = Held(seen, t.quota)])
          \/ Memory(w, "syncRead", [t EXCEPT !.key = TRUE, !.unresolved = TRUE])
             /\ UNCHANGED task
          \/ (\E next \in JobPC : Goto(w, next)) /\ UNCHANGED task
          \/ SyncError(w) /\ UNCHANGED task
      BY <1>2, <2>3, Zenon DEF SyncAct
    <2> HIDE DEF t, seen
    <2>6. task' \in Task /\ job' \in [Workers -> Job]
      BY <1>0, <2>2, <2>3, <2>4, <2>5, ParkedTyped, SaveTyped
    <2> QED
      BY <1>0, <2>1, <2>6, MoneyMoves DEF Parts
  <1>3. CASE SyncApply(w)
    <2>1. UNCHANGED <<task, record, submit, faults>> /\ (ApplyRow \/ UNCHANGED money)
      BY <1>3 DEF SyncApply
    <2>2. {"review", "syncReread"} \subseteq JobPC
      BY DEF JobPC
    <2>3. Goto(w, "syncReread") \/ Goto(w, "review") \/ Finish(w)
      BY <1>3 DEF SyncApply, SyncError
    <2>4. job' \in [Workers -> Job]
      BY <1>0, <2>2, <2>3, ParkedTyped
    <2> QED
      BY <1>0, <2>1, <2>4, MoneyMoves DEF Parts
  <1>4. CASE SyncPersist(w)
    <2> DEFINE u == [t EXCEPT !.unresolved = FALSE,
                              !.quota = IF seen = "applied" THEN Prepaid ELSE @]
    <2>1. u \in Task
      BY <1>0, QuotasTyped DEF Task
    <2>2. Save(w, "delta", u)
      BY <1>4 DEF SyncPersist
    <2> HIDE DEF u
    <2>3. task' \in Task /\ job' \in [Workers -> Job]
      BY <1>0, <2>1, <2>2, SaveTyped DEF JobPC
    <2> QED
      BY <1>0, <1>4, <2>3, MoneyMoves DEF SyncPersist, Parts
  <1> QED
    BY <1>1, <1>2, <1>3, <1>4

(* The record decides.                                                       *)
LEMMA FinalizeTyped ==
    ASSUME Parts, NEW w \in Workers, job[w].t \in Task, FinalizeRecalculation(w)
    PROVE  task' \in Task /\ job' \in [Workers -> Job]
  <1> DEFINE u == [Settled(job[w].t) EXCEPT !.quota = record.applied]
  <1>1. task \in Task /\ job \in [Workers -> Job] /\ record.applied \in Quotas
        /\ {"idle", "review"} \subseteq JobPC
    BY RecordTyped DEF Parts, JobPC
  <1>2. u \in Task
    <2>1. Settled(job[w].t) \in Task
      BY SettledTyped
    <2> QED
      BY <1>1, <2>1 DEF Task
  <1>3. Save(w, "idle", u) \/ (Goto(w, "review") /\ UNCHANGED task)
    BY DEF FinalizeRecalculation
  <1> HIDE DEF u
  <1> QED
    BY <1>1, <1>2, <1>3, ParkedTyped, SaveTyped

(* A pass settles the task.                                                  *)
LEMMA SettleTyped ==
    ASSUME TypeOK, NEW w \in Workers,
           SettlePrepaid(w) \/ Delta(w) \/ Begin(w) \/ RecordReview(w) \/ Review(w)
    PROVE  Parts' /\ UNCHANGED <<submit, faults>>
  <1> DEFINE t == job[w].t
  <1>0. /\ Parts /\ task \in Task /\ record \in Record /\ job \in [Workers -> Job]
        /\ t \in Task /\ job[w] \in Job /\ t.quota \in Quotas
        /\ job[w].actual \in Quotas /\ job[w].pre \in Quotas /\ job[w].failing \in BOOLEAN
    BY JobFields DEF Parts, Task
  <1>p. {"idle", "begin", "apply", "review"} \subseteq JobPC
    BY DEF JobPC
  <1>1. CASE SettlePrepaid(w)
    <2>1. task' \in Task /\ job' \in [Workers -> Job]
      BY <1>0, <1>1, <1>p, SettledTyped, SaveTyped DEF SettlePrepaid
    <2> QED
      BY <1>0, <1>1, <2>1, MoneyMoves DEF SettlePrepaid, Parts
  <1>2. CASE Delta(w)
    <2>1. CASE t.quota # job[w].actual
      <3>1. job' = [job EXCEPT ![w].pre = t.quota, ![w].pc = "begin"] /\ UNCHANGED task
        BY <1>2, <2>1 DEF Delta
      <3>2. job' \in [Workers -> Job]
        BY <1>0, <1>p, <3>1 DEF Job
      <3> QED
        BY <1>0, <1>2, <3>1, <3>2, MoneyMoves DEF Delta, Parts
    <2>2. CASE t.quota = job[w].actual
      <3>1. FinalizeRecalculation(w) \/ Save(w, "idle", Settled(t))
        BY <1>2, <2>2 DEF Delta
      <3>2. task' \in Task /\ job' \in [Workers -> Job]
        BY <1>0, <1>p, <3>1, FinalizeTyped, SettledTyped, SaveTyped
      <3> QED
        BY <1>0, <1>2, <3>2, MoneyMoves DEF Delta, Parts
    <2> QED
      BY <2>1, <2>2
  <1>3. CASE Begin(w)
    <2>1. CASE Prepare /\ Goto(w, "apply") /\ UNCHANGED task
      <3>1. job' \in [Workers -> Job]
        BY <1>0, <1>p, <2>1, ParkedTyped
      <3>2. record' \in Record
        BY <1>0, <2>1, RecordTyped DEF Prepare
      <3> QED
        BY <1>0, <1>3, <2>1, <3>1, <3>2, MoneyMoves DEF Begin, Parts
    <2>2. CASE FinalizeRecalculation(w) /\ UNCHANGED record
      <3>1. task' \in Task /\ job' \in [Workers -> Job]
        BY <1>0, <2>2, FinalizeTyped
      <3> QED
        BY <1>0, <1>3, <2>2, <3>1, MoneyMoves DEF Begin, Parts
    <2> QED
      BY <1>3, <2>1, <2>2 DEF Begin
  <1>4. CASE RecordReview(w)
    <2>1. job' \in [Workers -> Job]
      BY <1>0, <1>4, <1>p, ParkedTyped DEF RecordReview
    <2>2. record' \in Record
      BY <1>0, <1>4, RecordTyped DEF RecordReview
    <2> QED
      BY <1>0, <1>4, <2>1, <2>2, MoneyMoves DEF RecordReview, Parts
  <1>5. CASE Review(w)
    <2> DEFINE u == [t EXCEPT !.settle = "REVIEW",
                              !.attempt = IF job[w].failing THEN job[w].pre ELSE job[w].actual,
                              !.refund = @ \/ job[w].failing]
    <2>1. u \in Task
      BY <1>0 DEF Task
    <2>2. Save(w, "idle", u)
      BY <1>5 DEF Review
    <2> HIDE DEF u
    <2>3. task' \in Task /\ job' \in [Workers -> Job]
      BY <1>0, <1>p, <2>1, <2>2, SaveTyped
    <2> QED
      BY <1>0, <1>5, <2>3, MoneyMoves DEF Review, Parts
  <1> QED
    BY <1>1, <1>2, <1>3, <1>4, <1>5

(* The accounting transaction.                                               *)
LEMMA ApplyTyped ==
    ASSUME TypeOK, NEW w \in Workers, Apply(w)
    PROVE  Parts' /\ UNCHANGED <<submit, faults>>
  <1> DEFINE op == IF job[w].failing THEN "refund" ELSE "recalculation"
  <1>0. /\ Parts /\ task \in Task /\ record \in Record /\ job \in [Workers -> Job]
        /\ job[w].actual \in Quotas /\ job[w].pre \in Quotas /\ job[w].failing \in BOOLEAN
        /\ record.applied \in Quotas /\ "recordReview" \in JobPC
    BY JobFields, RecordTyped DEF Parts, JobPC
  <1>1. UNCHANGED <<submit, faults>> /\ ApplyAtomic(w)
    BY DEF Apply
  <1>2. CASE /\ paid' = paid + job[w].actual - job[w].pre
             /\ task' = Accounted(job[w].actual, job[w].failing)
             /\ record' = [status |-> "APPLIED", op |-> op, applied |-> job[w].actual,
                           pre |-> job[w].pre]
             /\ Finish(w)
             /\ UNCHANGED <<row, spool, reserve>>
    <2>1. task' \in Task
      BY <1>0, <1>2, AccountedTyped
    <2>2. record' \in Record
      BY <1>0, <1>2 DEF Record
    <2>3. job' \in [Workers -> Job]
      BY <1>0, <1>2, ParkedTyped
    <2>4. MoneyTyped'
      <3>1. job[w].actual \in Nat /\ job[w].pre \in Nat
        BY <1>0, QuotasTyped
      <3>2. MoneyTyped /\ paid \in Int
        BY <1>0 DEF Parts, MoneyTyped
      <3>3. paid' \in Int
        BY <1>2, <3>1, <3>2
      <3> QED
        BY <1>2, <3>2, <3>3 DEF MoneyTyped
    <2> QED
      BY <1>1, <2>1, <2>2, <2>3, <2>4 DEF Parts
  <1>3. CASE task' = Accounted(record.applied, job[w].failing) /\ Finish(w)
             /\ UNCHANGED record /\ UNCHANGED money
    <2>1. task' \in Task
      BY <1>0, <1>3, AccountedTyped
    <2>2. job' \in [Workers -> Job]
      BY <1>0, <1>3, ParkedTyped
    <2> QED
      BY <1>0, <1>1, <1>3, <2>1, <2>2, MoneyMoves DEF Parts
  <1>4. CASE Goto(w, "recordReview") /\ UNCHANGED <<task, record>> /\ UNCHANGED money
    <2>1. job' \in [Workers -> Job]
      BY <1>0, <1>4, ParkedTyped
    <2> QED
      BY <1>0, <1>1, <1>4, <2>1, MoneyMoves DEF Parts
  <1> QED
    BY <1>1, <1>2, <1>3, <1>4 DEF ApplyAtomic

(* A pass refunds the task.                                                  *)
LEMMA RefundTyped ==
    ASSUME TypeOK, NEW w \in Workers,
           \/ Reopen(w) \/ LoadAdjustment(w) \/ Release(w) \/ ReleaseReservation(w)
           \/ ReleasePersist(w) \/ RefundBegin(w)
    PROVE  Parts' /\ UNCHANGED <<submit, faults>>
  <1> DEFINE t == job[w].t
  <1>0. /\ Parts /\ task \in Task /\ record \in Record /\ job \in [Workers -> Job]
        /\ t \in Task /\ job[w] \in Job /\ t.quota \in Quotas
    BY JobFields DEF Parts, Task
  <1>p. {"idle", "load", "release", "releaseRes", "releasePersist", "refundBegin", "refundApply",
         "review"} \subseteq JobPC
    BY DEF JobPC
  <1>1. CASE Reopen(w)
    <2>1. UNCHANGED <<task, submit, faults>> /\ UNCHANGED money
      BY <1>1 DEF Reopen
    <2>2. [t EXCEPT !.settle = "PENDING"] \in Task
      BY <1>0 DEF Task
    <2>3. record' \in Record
      BY <1>0, <1>1, RecordTyped DEF Reopen
    <2>4. Memory(w, "refundBegin", [t EXCEPT !.settle = "PENDING"]) \/ Goto(w, "load")
      BY <1>1 DEF Reopen
    <2>5. job' \in [Workers -> Job]
      BY <1>0, <1>p, <2>2, <2>4, ParkedTyped
    <2> QED
      BY <1>0, <2>1, <2>3, <2>5, MoneyMoves DEF Parts
  <1>2. CASE LoadAdjustment(w)
    <2>1. LedgerFlags(t) \in Task
      BY <1>0 DEF LedgerFlags, Task
    <2>2. \E next \in JobPC : Memory(w, next, LedgerFlags(t))
      BY <1>2, <1>p DEF LoadAdjustment
    <2>3. job' \in [Workers -> Job]
      BY <1>0, <2>1, <2>2, ParkedTyped
    <2> QED
      BY <1>0, <1>2, <2>3, MoneyMoves DEF LoadAdjustment, Parts
  <1>3. CASE Release(w)
    <2>1. UNCHANGED <<task, record, submit, faults>> /\ (RollbackRow \/ UNCHANGED money)
      BY <1>3 DEF Release
    <2>2. Goto(w, "releaseRes") \/ Goto(w, "releasePersist")
      BY <1>3 DEF Release
    <2>3. job' \in [Workers -> Job]
      BY <1>0, <1>p, <2>2, ParkedTyped
    <2> QED
      BY <1>0, <2>1, <2>3, MoneyMoves DEF Parts
  <1>4. CASE ReleaseReservation(w)
    <2>1. UNCHANGED <<task, record, submit, faults>> /\ (CreditReservation \/ UNCHANGED money)
      BY <1>4 DEF ReleaseReservation
    <2>2. Finish(w) \/ Goto(w, "releasePersist")
      BY <1>4 DEF ReleaseReservation
    <2>3. job' \in [Workers -> Job]
      BY <1>0, <1>p, <2>2, ParkedTyped
    <2> QED
      BY <1>0, <2>1, <2>3, MoneyMoves DEF Parts
  <1>5. CASE ReleasePersist(w)
    <2> DEFINE u == [t EXCEPT !.quota = 0, !.refund = FALSE, !.unresolved = FALSE,
                              !.rollback = FALSE, !.status = "failure"]
    <2>1. u \in Task
      BY <1>0, QuotasTyped DEF Task
    <2>2. task' = AccountingFailure(u) /\ Finish(w)
      BY <1>5 DEF ReleasePersist
    <2> HIDE DEF u
    <2>3. task' \in Task /\ job' \in [Workers -> Job]
      BY <1>0, <2>1, <2>2, AccountingFailureIs, ParkedTyped
    <2> QED
      BY <1>0, <1>5, <2>3, MoneyMoves DEF ReleasePersist, Parts
  <1>6. CASE RefundBegin(w)
    <2>1. UNCHANGED <<submit, faults>> /\ UNCHANGED money
      BY <1>6 DEF RefundBegin
    <2>2. record' \in Record
      BY <1>0, <1>6, RecordTyped DEF RefundBegin
    <2>3. Refunded(t) \in Task /\ [t EXCEPT !.refund = FALSE] \in Task
      BY <1>0, SettledTyped DEF Task
    <2>4. \/ Save(w, "idle", Refunded(t))
          \/ /\ \E next \in JobPC, q \in Quotas :
                  job' = [job EXCEPT ![w].pc = next, ![w].pre = q]
             /\ UNCHANGED task
          \/ /\ task' = AccountingFailure([t EXCEPT !.refund = FALSE]) \/ UNCHANGED task
             /\ Finish(w)
      <3>1. (IF t.quota > 0 THEN t.quota ELSE record.pre) \in Quotas
        BY <1>0 DEF Record
      <3> QED
        BY <1>0, <1>6, <1>p, <3>1, Zenon DEF RefundBegin
    <2>5. ASSUME NEW next \in JobPC, NEW q \in Quotas,
                 job' = [job EXCEPT ![w].pc = next, ![w].pre = q]
          PROVE  job' \in [Workers -> Job]
      BY <1>0, <2>5 DEF Job
    <2>6. task' \in Task /\ job' \in [Workers -> Job]
      BY <1>0, <1>p, <2>3, <2>4, <2>5, SaveTyped, AccountingFailureIs, ParkedTyped
    <2> QED
      BY <1>0, <2>1, <2>2, <2>6, MoneyMoves DEF Parts
  <1> QED
    BY <1>1, <1>2, <1>3, <1>4, <1>5, <1>6

(* A pass fails or dies.                                                     *)
LEMMA FaultTyped ==
    ASSUME TypeOK, NEW w \in Workers, JobFails(w) \/ JobCrash(w)
    PROVE  /\ Parts' /\ UNCHANGED <<submit, task, record>> /\ UNCHANGED money
           /\ faults' \in 0 .. setup.faults
  <1>1. /\ Parts /\ job \in [Workers -> Job] /\ {"recordReview", "review"} \subseteq JobPC
    BY JobFields DEF Parts, JobPC
  <1>2. faults \in Nat /\ setup.faults \in Nat /\ faults < setup.faults /\ faults' = faults + 1
    BY SetupTyped DEF TypeOK, JobFails, JobCrash
  <1>3. UNCHANGED <<submit, task, record>> /\ UNCHANGED money
    BY DEF JobFails, JobCrash
  <1>4. /\ job[w].t \in Task /\ Refunded(job[w].t) \in Task /\ job[w].t.quota \in Quotas
        /\ job[w] \in Job
    BY JobFields, SettledTyped DEF Task
  <1>5. job' \in [Workers -> Job]
    <2>1. \/ Goto(w, "recordReview") \/ Goto(w, "review") \/ Finish(w)
          \/ job' = [job EXCEPT ![w].pc = "review", ![w].actual = job[w].t.quota]
          \/ \E u \in {job[w].t, Refunded(job[w].t)} :
               job' = [job EXCEPT ![w].pc = "review", ![w].t = u, ![w].pre = job[w].t.quota]
      BY DEF JobFails, JobCrash, SyncError
    <2>2. CASE Goto(w, "recordReview") \/ Goto(w, "review") \/ Finish(w)
      BY <1>1, <2>2, ParkedTyped
    <2>3. CASE job' = [job EXCEPT ![w].pc = "review", ![w].actual = job[w].t.quota]
      BY <1>1, <1>4, <2>3 DEF Job
    <2>4. ASSUME NEW u \in Task,
                 job' = [job EXCEPT ![w].pc = "review", ![w].t = u, ![w].pre = job[w].t.quota]
          PROVE  job' \in [Workers -> Job]
      BY <1>1, <1>4, <2>4 DEF Job
    <2> QED
      BY <1>4, <2>1, <2>2, <2>3, <2>4
  <1>6. faults' \in 0 .. setup.faults
    BY <1>2
  <1> QED
    BY <1>1, <1>3, <1>5, <1>6, MoneyMoves DEF Parts

(* Before the submission.                                                    *)
LEMMA InitTyped ==
    ASSUME Init
    PROVE  TypeOK
  <1>1. setup.faults \in Nat
    BY SetupTyped DEF Init
  <1>2. task \in Task /\ record \in Record
    BY NothingTyped DEF Init
  <1>3. job \in [Workers -> Job]
    BY NothingTyped DEF Init
  <1>4. submit \in [pc : SubmitPC, t : Task, base : Task]
    BY NothingTyped DEF Init, SubmitPC
  <1>5. row \in RowStatus /\ spool \in BOOLEAN /\ reserve \in {"held", "settled", "refunded"}
    BY DEF Init, RowStatus
  <1>6. paid \in Int /\ faults \in 0 .. setup.faults /\ setup \in Setups
    BY <1>1, QuotasTyped DEF Init
  <1> QED
    BY <1>2, <1>3, <1>4, <1>5, <1>6 DEF TypeOK

(* Every step keeps the types.                                               *)
LEMMA NextTyped ==
    ASSUME TypeOK, [Next]_vars
    PROVE  TypeOK'
  <1>1. CASE UNCHANGED vars
    BY <1>1 DEF TypeOK, vars, state
  <1>2. CASE Next
    <2>1. UNCHANGED setup
      BY <1>2 DEF Next
    <2>2. ASSUME NEW w \in Workers, TakeUp(w) \/ JobStep(w) \/ JobFails(w) \/ JobCrash(w)
          PROVE  TypeOK'
      <3>1. faults \in 0 .. setup.faults
        BY DEF TypeOK
      <3>2. CASE CompareAndSet(w)
        <4>1. task' \in Task /\ job' \in [Workers -> Job]
          <5>1. task' \in Task /\ \E j \in Job : Becomes(w, j)
            BY <3>2, CompareAndSetBecomes, NothingTyped
          <5> QED
            BY <5>1, JobFields, JobTyped DEF Parts
        <4>2. Parts'
          BY <3>2, <4>1, JobFields, MoneyMoves DEF CompareAndSet, Parts
        <4> QED
          BY <2>1, <3>1, <3>2, <4>2, PartsTyped DEF CompareAndSet
      <3>3. CASE TakeUp(w)
        BY <2>1, <3>1, <3>3, TakeUpTyped, PartsTyped
      <3>4. CASE SyncRead(w) \/ SyncAct(w) \/ SyncApply(w) \/ SyncPersist(w)
        BY <2>1, <3>1, <3>4, SyncTyped, PartsTyped
      <3>5. CASE SettlePrepaid(w) \/ Delta(w) \/ Begin(w) \/ RecordReview(w) \/ Review(w)
        BY <2>1, <3>1, <3>5, SettleTyped, PartsTyped
      <3>6. CASE Apply(w)
        BY <2>1, <3>1, <3>6, ApplyTyped, PartsTyped
      <3>7. CASE \/ Reopen(w) \/ LoadAdjustment(w) \/ Release(w) \/ ReleaseReservation(w)
                 \/ ReleasePersist(w) \/ RefundBegin(w)
        BY <2>1, <3>1, <3>7, RefundTyped, PartsTyped
      <3>8. CASE JobFails(w) \/ JobCrash(w)
        BY <2>1, <3>8, FaultTyped, PartsTyped
      <3> QED
        BY <2>2, <3>2, <3>3, <3>4, <3>5, <3>6, <3>7, <3>8 DEF JobStep
    <2> QED
      BY <1>2, <2>1, <2>2, SubmitStepTyped, LedgerTyped DEF Next
  <1> QED
    BY <1>1, <1>2

(***************************************************************************)
(* The submission.                                                         *)
(***************************************************************************)
(* The row as it is inserted.                                                *)
LEMMA FreshFields ==
    /\ Fresh \in Task /\ Fresh.status = "submitted" /\ Fresh.quota = Prepaid
    /\ Fresh.settle = "" /\ ~Fresh.refund /\ ~Fresh.unresolved /\ ~Fresh.rollback
    /\ NoTask.status = "none"
  BY QuotasTyped DEF Fresh, NoTask, Task

(* The submission goes on.                                                   *)
LEMMA SubmittingStep ==
    ASSUME TypeOK, Accounts, ~Over, Regular, SubmitStep, UNCHANGED setup, submit'.pc # "done"
    PROVE  Accounts'
  <1>0. /\ Submitting /\ submit \in [pc : SubmitPC, t : Task, base : Task]
        /\ (reserve = "refunded" => row = "rolled_back") /\ paid = Charged(row)
        /\ record = NoRecord /\ \A w \in Workers : Idle(job[w])
        /\ submit.t \in Task
    BY DEF TypeOK, Accounts, Submitting
  <1>1. SUFFICES Submitting' /\ (reserve' = "refunded" => row' = "rolled_back")
    BY DEF Accounts, Over
  <1>2. UNCHANGED <<record, job>>
    BY DEF SubmitStep, Insert, SubmitEnsure, SubmitApply, SubmitReview, SubmitRefundable,
           SubmitLog, SubmitRollback, SubmitFailed
  <1>3. record' = NoRecord /\ \A w \in Workers : Idle(job'[w])
    BY <1>0, <1>2
  <1>4. CASE Insert
    <2>1. task' = Fresh /\ submit' = [pc |-> "ensure", t |-> Fresh, base |-> Fresh]
      BY <1>4 DEF Insert, Fresh
    <2>2. UNCHANGED money /\ row # "rolled_back"
      BY <1>0, <1>4 DEF Insert, Submitting
    <2> QED
      BY <1>0, <1>3, <2>1, <2>2 DEF Submitting, money
  <1>5. CASE SubmitEnsure
    <2>1. /\ submit.t = Fresh /\ task = Fresh /\ submit.base = Fresh /\ row # "rolled_back"
          /\ UNCHANGED <<task, reserve, paid>>
      BY <1>0, <1>5 DEF SubmitEnsure, Submitting
    <2>2. CASE row' = (IF row = "absent" THEN "pending" ELSE row) /\ SubmitTo("apply", submit.t)
      <3>1. submit'.pc = "apply" /\ submit'.t = Fresh /\ submit'.base = Fresh
        BY <1>0, <2>1, <2>2, SubmitTyped DEF SubmitPC
      <3>2. row' \in {"pending", "applied"}
        BY <2>1, <2>2 DEF TypeOK, RowStatus
      <3> QED
        BY <1>0, <1>3, <2>1, <3>1, <3>2 DEF Submitting, Charged
    <2>3. CASE SubmitTo("settleErr", submit.t) /\ UNCHANGED row
      <3>1. submit'.pc = "settleErr" /\ submit'.t = Fresh /\ submit'.base = Fresh
        BY <1>0, <2>1, <2>3, SubmitTyped DEF SubmitPC
      <3> QED
        BY <1>0, <1>3, <2>1, <2>3, <3>1 DEF Submitting, Charged
    <2> QED
      BY <1>5, <2>1, <2>2, <2>3 DEF SubmitEnsure
  <1>6. CASE SubmitApply
    <2>1. /\ submit.t = Fresh /\ task = Fresh /\ submit.base = Fresh
          /\ row \in {"pending", "applied"} /\ UNCHANGED task
      BY <1>0, <1>6 DEF SubmitApply, Submitting
    <2>2. CASE (ApplyRow \/ (row = "applied" /\ UNCHANGED money)) /\ SubmitTo("log", submit.t)
      <3>1. submit'.pc = "log" /\ submit'.t = Fresh /\ submit'.base = Fresh
        BY <1>0, <2>1, <2>2, SubmitTyped DEF SubmitPC
      <3>2. row' = "applied" /\ paid' = paid /\ reserve' # "refunded"
        BY <1>0, <2>1, <2>2 DEF ApplyRow, money
      <3> QED
        BY <1>0, <1>3, <2>1, <3>1, <3>2 DEF Submitting, Charged
    <2>3. CASE SubmitTo("settleErr", submit.t) /\ UNCHANGED money
      <3>1. submit'.pc = "settleErr" /\ submit'.t = Fresh /\ submit'.base = Fresh
        BY <1>0, <2>1, <2>3, SubmitTyped DEF SubmitPC
      <3> QED
        BY <1>0, <1>3, <2>1, <2>3, <3>1 DEF Submitting, Charged, money
    <2> QED
      BY <1>6, <2>1, <2>2, <2>3 DEF SubmitApply
  <1>7. CASE SubmitReview
    <2> DEFINE t == [submit.t EXCEPT !.quota = Prepaid, !.attempt = Prepaid,
                                     !.settle = "REVIEW", !.key = TRUE, !.unresolved = TRUE]
    <2>1. /\ submit.t = Fresh /\ task = Fresh /\ submit.base = Fresh /\ row # "rolled_back"
      BY <1>0, <1>7 DEF SubmitReview, Submitting
    <2>2. t \in Task /\ t.unresolved
      BY <1>0, QuotasTyped DEF Task
    <2>3. SubmitTo("done", t) \/ (SubmitTo("refundable", t) /\ UNCHANGED task)
      BY <1>7, Zenon DEF SubmitReview
    <2>4. UNCHANGED money
      BY <1>7 DEF SubmitReview
    <2> HIDE DEF t
    <2>5. /\ submit'.pc = "refundable" /\ submit'.t.unresolved /\ submit'.base = Fresh
          /\ UNCHANGED task
      BY <1>0, <2>1, <2>2, <2>3, SubmitTyped DEF SubmitPC
    <2> QED
      BY <1>0, <1>3, <2>1, <2>4, <2>5 DEF Submitting, Charged, money
  <1>8. CASE SubmitLog
    <2>1. /\ submit.t = Fresh /\ task = Fresh /\ submit.base = Fresh /\ row = "applied"
          /\ UNCHANGED task /\ UNCHANGED money
      BY <1>0, <1>8 DEF SubmitLog, Submitting
    <2>2. submit'.pc = "rollback" /\ submit'.t = Fresh /\ submit'.base = Fresh
      BY <1>0, <1>8, <2>1, SubmitTyped DEF SubmitLog, SubmitPC
    <2> QED
      BY <1>0, <1>3, <2>1, <2>2 DEF Submitting, Charged, money
  <1>9. CASE SubmitRollback
    <2> DEFINE t == [submit.t EXCEPT !.key = TRUE, !.unresolved = TRUE, !.rollback = TRUE]
    <2>1. /\ submit.t = Fresh /\ task = Fresh /\ submit.base = Fresh /\ row = "applied"
          /\ UNCHANGED task
      BY <1>0, <1>9 DEF SubmitRollback, Submitting
    <2>2. t \in Task /\ t.unresolved
      BY <1>0 DEF Task
    <2>3. \/ RollbackRow /\ SubmitTo("failed", submit.t)
          \/ SubmitTo("refundable", t) /\ UNCHANGED money
      BY <1>9 DEF SubmitRollback
    <2> HIDE DEF t
    <2>4. CASE RollbackRow /\ SubmitTo("failed", submit.t)
      <3>1. submit'.pc = "failed" /\ submit'.t = Fresh /\ submit'.base = Fresh
        BY <1>0, <2>1, <2>4, SubmitTyped DEF SubmitPC
      <3>2. row' = "rolled_back" /\ paid' = 0
        BY <1>0, <2>1, <2>4, QuotasTyped DEF RollbackRow, CreditCharge, Charged
      <3> QED
        BY <1>3, <2>1, <3>1, <3>2 DEF Submitting, Charged
    <2>5. CASE SubmitTo("refundable", t) /\ UNCHANGED money
      <3>1. submit'.pc = "refundable" /\ submit'.t.unresolved /\ submit'.base = Fresh
        BY <1>0, <2>1, <2>2, <2>5, SubmitTyped DEF SubmitPC
      <3> QED
        BY <1>0, <1>3, <2>1, <2>5, <3>1 DEF Submitting, Charged, money
    <2> QED
      BY <2>3, <2>4, <2>5
  <1>10. ~SubmitRefundable /\ ~SubmitFailed
    BY DEF SubmitRefundable, SubmitFailed, SubmitTo, TypeOK
  <1> QED
    BY <1>4, <1>5, <1>6, <1>7, <1>8, <1>9, <1>10 DEF SubmitStep

(* The submission ends.                                                      *)
LEMMA SubmissionEnds ==
    ASSUME TypeOK, Accounts, ~Over, Regular, SubmitStep, UNCHANGED setup, submit'.pc = "done"
    PROVE  Accounts'
  <1>0. /\ Submitting /\ submit \in [pc : SubmitPC, t : Task, base : Task]
        /\ (reserve = "refunded" => row = "rolled_back") /\ paid = Charged(row)
        /\ record = NoRecord /\ \A w \in Workers : Idle(job[w])
        /\ submit.t \in Task /\ submit.base \in Task /\ task \in Task
    BY DEF TypeOK, Accounts, Submitting
  <1>1. UNCHANGED <<record, job>>
    BY DEF SubmitStep, Insert, SubmitEnsure, SubmitApply, SubmitReview, SubmitRefundable,
           SubmitLog, SubmitRollback, SubmitFailed
  <1>2. record' = NoRecord /\ \A w \in Workers : Idle(job'[w])
    BY <1>0, <1>1
  <1>3. ~Insert /\ ~SubmitEnsure /\ ~SubmitApply /\ ~SubmitRollback
    <2>1. ~Insert
      BY DEF Insert
    <2>2. ~SubmitEnsure
      BY <1>0, SubmitTyped DEF SubmitEnsure, SubmitPC
    <2>3. ~SubmitApply
      BY <1>0, SubmitTyped DEF SubmitApply, SubmitPC
    <2>4. ~SubmitRollback
      <3>1. [submit.t EXCEPT !.key = TRUE, !.unresolved = TRUE, !.rollback = TRUE] \in Task
        BY <1>0 DEF Task
      <3> QED
        BY <1>0, <3>1, SubmitTyped DEF SubmitRollback, SubmitPC
    <2> QED
      BY <2>1, <2>2, <2>3, <2>4
  <1>4. CASE SubmitReview
    <2> DEFINE t == [submit.t EXCEPT !.quota = Prepaid, !.attempt = Prepaid,
                                     !.settle = "REVIEW", !.key = TRUE, !.unresolved = TRUE]
    <2>1. /\ submit.t = Fresh /\ task = Fresh /\ submit.base = Fresh /\ row # "rolled_back"
      BY <1>0, <1>4 DEF SubmitReview, Submitting
    <2>2. /\ t \in Task /\ t.unresolved /\ t.key /\ t.settle = "REVIEW" /\ t.quota = Prepaid
          /\ ~t.rollback
      BY <1>0, <2>1, QuotasTyped, FreshFields DEF Task
    <2>3. \/ task' = SettlementFields(t, submit.base) /\ SubmitTo("done", t)
          \/ SubmitTo("refundable", t)
      BY <1>4 DEF SubmitReview
    <2>4. UNCHANGED money
      BY <1>4 DEF SubmitReview
    <2> HIDE DEF t
    <2>5. task' = SettlementFields(t, submit.base) /\ submit'.t = t
      BY <1>0, <2>2, <2>3, SubmitTyped DEF SubmitPC
    <2>6. /\ task'.status = "submitted" /\ task'.quota = Prepaid /\ task'.settle = "REVIEW"
          /\ task'.unresolved /\ ~task'.rollback
      <3> DEFINE f == SettlementFields(t, Fresh)
      <3>0. task \in Task /\ t \in Task /\ Fresh \in Task
        BY <1>0, <2>2, FreshFields
      <3>1. /\ f.status = task.status
            /\ f.quota = IF t.quota # Fresh.quota THEN t.quota ELSE task.quota
            /\ f.settle = IF t.settle # Fresh.settle THEN t.settle ELSE task.settle
            /\ f.unresolved = IF t.key \/ t.unresolved \/ t.rollback THEN t.unresolved
                              ELSE task.unresolved
            /\ f.rollback = IF t.key \/ t.unresolved \/ t.rollback THEN t.rollback
                            ELSE task.rollback
        BY <3>0, SettlementFieldsAre
      <3>2. task' = f
        BY <2>1, <2>5
      <3> HIDE DEF f
      <3> QED
        BY <2>1, <2>2, <3>1, <3>2, FreshFields
    <2>7. Waiting'
      BY <1>0, <1>2, <2>1, <2>2, <2>4, <2>5, <2>6 DEF Waiting, Deferred, Charged, money
    <2> QED
      BY <1>0, <2>4, <2>6, <2>7 DEF Accounts, Over, money
  <1>5. CASE SubmitRefundable
    <2> DEFINE t == [submit.t EXCEPT !.quota = Prepaid, !.attempt = Prepaid,
                                     !.refund = TRUE, !.status = "failure",
                                     !.settle = IF @ = "REVIEW" THEN "" ELSE @]
    <2>1. submit.t.unresolved /\ row # "rolled_back"
      BY <1>0, <1>5 DEF SubmitRefundable, Submitting
    <2>2. t \in Task /\ t.unresolved /\ t.status = "failure" /\ t.quota = Prepaid
      BY <1>0, <2>1, QuotasTyped DEF Task
    <2>3. task' = AccountingFailure(t) /\ UNCHANGED money
      BY <1>5 DEF SubmitRefundable, Regular
    <2> HIDE DEF t
    <2>4. task'.status = "failure" /\ task'.quota = Prepaid /\ task'.unresolved
      BY <1>0, <2>2, <2>3, AccountingFailureIs
    <2>5. Failed'
      BY <1>0, <1>2, <2>1, <2>3, <2>4, QuotasTyped
         DEF Failed, Owned, RefundingJob, Charged, money
    <2> QED
      BY <1>0, <2>3, <2>4, <2>5 DEF Accounts, Over, money
  <1>6. CASE SubmitLog
    <2>1. /\ submit.t = Fresh /\ task = Fresh /\ row = "applied"
          /\ UNCHANGED task /\ UNCHANGED money
      BY <1>0, <1>6 DEF SubmitLog, Submitting
    <2>2. submit'.t = Fresh
      BY <1>0, <1>6, <2>1, SubmitTyped DEF SubmitLog, SubmitPC
    <2>3. Waiting'
      BY <1>0, <1>2, <2>1, <2>2, FreshFields DEF Waiting, Deferred, Charged, money
    <2> QED
      BY <1>0, <2>1, <2>3, FreshFields DEF Accounts, Over, money
  <1>7. CASE SubmitFailed
    <2>1. PICK usage \in BOOLEAN :
            LET t == [submit.t EXCEPT !.quota = 0, !.refund = usage, !.attempt = Prepaid,
                                      !.status = "failure",
                                      !.settle = IF usage THEN "" ELSE "REVIEW"]
            IN task' = AccountingFailure(t) /\ SubmitTo("done", t)
      BY <1>7 DEF SubmitFailed, Regular
    <2> DEFINE t == [submit.t EXCEPT !.quota = 0, !.refund = usage, !.attempt = Prepaid,
                                     !.status = "failure",
                                     !.settle = IF usage THEN "" ELSE "REVIEW"]
    <2>2. /\ t \in Task /\ t.status = "failure"
          /\ t.refund = usage /\ (usage => t.settle = "")
      BY <1>0, QuotasTyped DEF Task
    <2>3. task' = AccountingFailure(t)
      BY <2>1
    <2>4. row = "rolled_back" /\ UNCHANGED money
      BY <1>0, <1>7 DEF SubmitFailed, Submitting
    <2> HIDE DEF t
    <2>5. task'.status = "failure" /\ (task'.refund => task'.settle = "")
      BY <1>0, <2>2, <2>3, AccountingFailureIs
    <2>6. Failed'
      BY <1>0, <1>2, <2>4, <2>5 DEF Failed, Owned, Open, RefundingJob, Charged, money
    <2> QED
      BY <1>0, <2>4, <2>5, <2>6 DEF Accounts, Over, money
  <1> QED
    BY <1>3, <1>4, <1>5, <1>6, <1>7 DEF SubmitStep

(* The ledger row is imported or applied, whatever the task does.            *)
LEMMA LedgerAccounts ==
    ASSUME TypeOK, Accounts, Regular, ImportSpool \/ RecoverPending \/ ExpireReserve,
           UNCHANGED setup
    PROVE  Accounts'
  <1>1. ~ExpireReserve
    BY DEF ExpireReserve, Regular
  <1>2. /\ (row' = "rolled_back") = (row = "rolled_back")
        /\ row # "absent" => row' # "absent"
        /\ row = "applied" => row' = "applied"
        /\ row = "pending" => row' \in {"pending", "applied"}
        /\ reserve' = "refunded" => row' = "rolled_back"
        /\ paid' = paid
        /\ UNCHANGED <<task, record, submit, job>>
    BY <1>1 DEF Accounts, TypeOK, RowStatus, ImportSpool, RecoverPending, ApplyRow
  <1>3. ~Over => Submitting'
    BY <1>2 DEF Accounts, Submitting, Charged
  <1>4. Waiting => Waiting'
    BY <1>2 DEF Waiting, Deferred
  <1>5. Succeeded => Succeeded'
    BY <1>2 DEF Succeeded, CostOk, Deferred
  <1>6. Failed => Failed'
    BY <1>2 DEF Failed, Owned, RefundingJob, Charged
  <1> QED
    BY <1>2, <1>3, <1>4, <1>5, <1>6 DEF Accounts, Over

(***************************************************************************)
(* The step of one pass leaves the others as they are.                     *)
(***************************************************************************)
(* While the upstream works on the task.                                     *)
LEMMA WaitingStep ==
    ASSUME TypeOK, Accounts, Over, task.status = "submitted", NEW w \in Workers, NEW j \in Job,
           Becomes(w, j), Idle(j) \/ Reporting(j),
           UNCHANGED <<task, record, submit>>, UNCHANGED money
    PROVE  Accounts'
  <1>1. job'[w] = j /\ \A v \in Workers : v # w => job'[v] = job[v]
    BY JobTyped DEF TypeOK
  <1>2. Waiting /\ (reserve = "refunded" => row = "rolled_back")
    BY DEF Accounts
  <1>3. \A v \in Workers : Idle(job'[v]) \/ Reporting(job'[v])
    BY <1>1, <1>2 DEF Waiting
  <1>4. Waiting'
    BY <1>2, <1>3 DEF Waiting, Deferred, money
  <1> QED
    BY <1>2, <1>4 DEF Accounts, Over, money

(* When the task has succeeded; the price may change once.                   *)
LEMMA SucceededStep ==
    ASSUME TypeOK, Accounts, Over, task.status = "success", NEW w \in Workers, NEW j \in Job,
           Becomes(w, j), UNCHANGED submit, task'.status = "success",
           reserve' = "refunded" => row' = "rolled_back",
           record.status = "APPLIED" => Price(record') = Price(record),
           paid' = Price(record'), CostOk(task', record', row', Deferred),
           SettlingJob(j, Price(record'), Deferred)
    PROVE  Accounts'
  <1>1. job'[w] = j /\ \A v \in Workers : v # w => job'[v] = job[v]
    BY JobTyped DEF TypeOK
  <1>2. \A v \in Workers : SettlingJob(job[v], Price(record), Deferred)
    BY DEF Accounts, Succeeded
  <1>3. ASSUME NEW v \in Workers, v # w PROVE SettlingJob(job[v], Price(record'), Deferred)
    <2>1. CASE Price(record') = Price(record)
      BY <1>2, <2>1
    <2>2. CASE record.status # "APPLIED"
      <3>1. Price(record) = Prepaid /\ SettlingJob(job[v], Price(record), Deferred)
        BY <1>2, <2>2 DEF Price
      <3>2. Settles(job[v], Prepaid) => Settles(job[v], Price(record'))
        BY DEF Settles
      <3> QED
        BY <3>1, <3>2 DEF SettlingJob
    <2> QED
      BY <2>1, <2>2
  <1>4. Deferred' = Deferred
    BY DEF Deferred
  <1>5. \A v \in Workers : SettlingJob(job'[v], Price(record'), Deferred')
    BY <1>1, <1>3, <1>4
  <1>6. Succeeded'
    BY <1>4, <1>5 DEF Succeeded, Price
  <1> QED
    BY <1>6 DEF Accounts, Over

(* When the task has failed; a rollback is final.                            *)
LEMMA FailedStep ==
    ASSUME TypeOK, Accounts, Over, task.status = "failure", NEW w \in Workers, NEW j \in Job,
           Becomes(w, j), UNCHANGED <<submit, record>>, task'.status = "failure",
           reserve' = "refunded" => row' = "rolled_back",
           row = "rolled_back" => row' = "rolled_back", row # "absent" => row' # "absent",
           paid' = Charged(row'), task'.quota = 0 => row' = "rolled_back",
           task'.refund => Owned(task', row'), RefundingJob(j, row')
    PROVE  Accounts'
  <1>1. job'[w] = j /\ \A v \in Workers : v # w => job'[v] = job[v]
    BY JobTyped DEF TypeOK
  <1>2. record = NoRecord /\ \A v \in Workers : RefundingJob(job[v], row)
    BY DEF Accounts, Failed
  <1>3. ASSUME NEW v \in Workers, v # w PROVE RefundingJob(job[v], row')
    BY <1>2 DEF RefundingJob, Owned
  <1>4. \A v \in Workers : RefundingJob(job'[v], row')
    BY <1>1, <1>3
  <1>5. Failed'
    BY <1>2, <1>4 DEF Failed, Owned, Charged, Open
  <1> QED
    BY <1>5 DEF Accounts, Over

(* Where a pass stands says how the task ended.                              *)
LEMMA SettlingPass ==
    ASSUME TypeOK, Accounts, NEW w \in Workers,
           job[w].pc \in {"prepaid", "syncRead", "syncAct", "syncApply", "syncReread",
                          "syncPersist", "delta", "begin", "apply", "refundApply",
                          "recordReview", "review"}
    PROVE  /\ Over /\ task.status = "success" /\ Succeeded
           /\ Settles(job[w], Price(record))
           /\ IF Deferred THEN SettlesDeferred(job[w]) ELSE SettlesCharged(job[w])
  <1>1. ~Idle(job[w]) /\ ~Reporting(job[w]) /\ ~RefundingJob(job[w], row)
    BY DEF Idle, Reporting, RefundingJob
  <1>2. Over
    BY <1>1 DEF Accounts, Submitting
  <1>3. task.status # "submitted" /\ task.status # "failure"
    BY <1>1, <1>2 DEF Accounts, Waiting, Failed
  <1>4. task.status = "success" /\ Succeeded
    BY <1>2, <1>3 DEF Accounts, TypeOK, Task
  <1>5. SettlingJob(job[w], Price(record), Deferred)
    BY <1>4 DEF Succeeded
  <1> QED
    BY <1>1, <1>2, <1>4, <1>5 DEF SettlingJob

(* And none refunds through the record.                                      *)
LEMMA RefundingPass ==
    ASSUME TypeOK, Accounts, NEW w \in Workers,
           job[w].pc \in {"reopen", "load", "release", "releaseRes", "releasePersist",
                          "refundBegin"}
    PROVE  Over /\ task.status = "failure" /\ Failed /\ RefundingJob(job[w], row)
  <1>1. ~Idle(job[w]) /\ ~Reporting(job[w]) /\ ~SettlingJob(job[w], Price(record), Deferred)
    BY DEF Idle, Reporting, SettlingJob, Settles
  <1>2. Over
    BY <1>1 DEF Accounts, Submitting
  <1>3. task.status # "submitted" /\ task.status # "success"
    BY <1>1, <1>2 DEF Accounts, Waiting, Succeeded
  <1>4. task.status = "failure" /\ Failed
    BY <1>2, <1>3 DEF Accounts, TypeOK, Task
  <1> QED
    BY <1>2, <1>4 DEF Failed

(***************************************************************************)
(* Taking up a task and reporting its outcome.                             *)
(***************************************************************************)
(* A loaded job.                                                             *)
LEMMA LoadedFields ==
    ASSUME NEW next, NEW t, NEW actual
    PROVE  LET j == Loaded(next, t, actual) IN
           /\ j.pc = next /\ j.t = t /\ j.base = task /\ j.actual = actual
           /\ j.failing = (t.status = "failure")
  BY DEF Loaded, NoJob

(* A pass learns the outcome.                                                *)
LEMMA PollAccounts ==
    ASSUME TypeOK, Accounts, Regular, NEW w \in Workers, Poll(w)
    PROVE  Accounts'
  <1>1. task \in Task /\ setup \in Setups
    BY DEF TypeOK
  <1>2. Over /\ task.status = "submitted" /\ UNCHANGED <<task, record, submit>>
        /\ UNCHANGED money
    BY DEF Poll, Ready, Submitted, Regular, Accounts, Submitting, Over
  <1>3. PICK t \in Task, a \in Quotas :
          Load(w, "cas", t, a) /\ t.status \in {"success", "failure"}
    <2>1. CASE \E a \in setup.actuals : Load(w, "cas", [task EXCEPT !.status = "success"], a)
      <3>1. [task EXCEPT !.status = "success"] \in Task
            /\ [task EXCEPT !.status = "success"].status = "success"
        BY <1>1 DEF Task
      <3> QED
        BY <1>1, <2>1, <3>1, SetupTyped
    <2>2. CASE \E flag \in BOOLEAN :
                 Load(w, "cas", [task EXCEPT !.status = "failure",
                                     !.refund = (flag /\ task.quota # 0) \/ task.refund], 0)
      <3>1. PICK flag \in BOOLEAN :
              Load(w, "cas", [task EXCEPT !.status = "failure",
                                  !.refund = (flag /\ task.quota # 0) \/ task.refund], 0)
        BY <2>2
      <3> DEFINE t == [task EXCEPT !.status = "failure",
                                   !.refund = (flag /\ task.quota # 0) \/ task.refund]
      <3>2. t \in Task /\ t.status = "failure"
        BY <1>1 DEF Task
      <3>3. Load(w, "cas", t, 0)
        BY <3>1
      <3> HIDE DEF t
      <3> QED
        BY <3>2, <3>3, QuotasTyped
    <2> QED
      BY <2>1, <2>2 DEF Poll
  <1>4. Becomes(w, Loaded("cas", t, a)) /\ Loaded("cas", t, a) \in Job
    BY <1>1, <1>3, LoadBecomes DEF JobPC
  <1>5. Reporting(Loaded("cas", t, a))
    BY <1>2, <1>3, LoadedFields DEF Reporting
  <1> QED
    BY <1>2, <1>4, <1>5, WaitingStep

(* A marked refund belongs to the ledger.                                    *)
LEMMA RecoverRefundAccounts ==
    ASSUME TypeOK, Accounts, Regular, NEW w \in Workers, RecoverRefund(w)
    PROVE  Accounts'
  <1>1. task \in Task
    BY DEF TypeOK
  <1>2. /\ Over /\ task.status = "failure" /\ UNCHANGED <<task, record, submit>>
        /\ UNCHANGED money /\ task.refund
    BY DEF RecoverRefund, Ready, Submitted, Regular, Accounts, Submitting, Over
  <1>3. Failed /\ Owned(task, row)
    BY <1>2 DEF Accounts, Failed
  <1> DEFINE j == Loaded("reopen", task, 0)
  <1>4. Becomes(w, j) /\ j \in Job
    BY <1>1, QuotasTyped, LoadBecomes DEF RecoverRefund, JobPC
  <1>5. j.pc = "reopen" /\ j.t = task
    BY LoadedFields
  <1> HIDE DEF j
  <1>6. RefundingJob(j, row)
    BY <1>3, <1>5 DEF RefundingJob
  <1> QED
    BY <1>2, <1>3, <1>4, <1>6, FailedStep DEF Failed, Accounts, money

(* A finished task is loaded with what it costs.                             *)
LEMMA SettlementTakenUp ==
    ASSUME TypeOK, Accounts, Regular, NEW w \in Workers, RecoverSettlement(w) \/ RetryReview(w)
    PROVE  Accounts'
  <1>1. task \in Task /\ record \in Record
    BY DEF TypeOK
  <1>2. /\ Over /\ task.status = "success" /\ UNCHANGED <<task, submit>> /\ UNCHANGED money
    BY DEF RecoverSettlement, RetryReview, Ready, Submitted, Regular, Accounts, Submitting, Over
  <1>3. Succeeded
    BY <1>2 DEF Accounts
  <1>4. /\ task.settle \in {"", "PENDING", "REVIEW"}
        /\ record.status = "APPLIED" => record' = record
        /\ record.status # "APPLIED" => record'.status # "APPLIED"
    BY <1>1 DEF RecoverSettlement, RetryReview, Open, NoRecord, Record
  <1> DEFINE j == Loaded("syncRead", task, Attempted)
  <1>5. Becomes(w, j) /\ j \in Job
    <2>1. Attempted \in Quotas
      BY <1>1 DEF Attempted, Task
    <2> QED
      BY <1>1, <2>1, LoadBecomes DEF RecoverSettlement, RetryReview, JobPC
  <1>6. j.pc = "syncRead" /\ j.t = task /\ j.base = task /\ ~j.failing
    <2>1. j.pc = "syncRead" /\ j.t = task /\ j.base = task
      BY LoadedFields
    <2>2. j.failing = (task.status = "failure")
      BY LoadedFields
    <2> QED
      BY <1>2, <2>1, <2>2
  <1> HIDE DEF j
  <1>7. Price(record') = Price(record) /\ CostOk(task', record', row', Deferred)
    BY <1>2, <1>3, <1>4 DEF Succeeded, CostOk, Price, money
  <1>8. SettlingJob(j, Price(record'), Deferred)
    <2>1. Settles(j, Price(record'))
      BY <1>3, <1>6, <1>7 DEF Settles, Succeeded, CostOk
    <2>2. CASE Deferred
      <3>1. task.settle = "REVIEW" /\ record.status # "APPLIED"
        BY <1>3, <1>4, <2>2 DEF Succeeded, CostOk
      <3> QED
        BY <1>3, <1>6, <2>1, <2>2, <3>1 DEF SettlingJob, SettlesDeferred, Succeeded, CostOk, Price
    <2>3. CASE ~Deferred
      BY <1>3, <1>4, <1>6, <2>1, <2>3 DEF SettlingJob, SettlesCharged, Succeeded, CostOk, Price
    <2> QED
      BY <2>2, <2>3
  <1> QED
    BY <1>2, <1>3, <1>5, <1>7, <1>8, SucceededStep DEF Succeeded, Accounts, money

(* The job of the pass that wins.                                            *)
LEMMA ReportedFields ==
    ASSUME NEW w \in Workers, job[w] \in Job, job[w].actual \in Nat, job[w].failing \in BOOLEAN,
           NEW t
    PROVE  LET j == Reported(w, t) IN
           /\ j.t = t /\ j.base = t /\ j.failing = job[w].failing
           /\ j.pc = IF job[w].failing THEN "reopen"
                     ELSE IF job[w].actual > 0 THEN "syncRead" ELSE "prepaid"
  <1>1. CASE job[w].failing
    BY <1>1 DEF Reported, Job
  <1>2. CASE ~job[w].failing
    BY <1>2 DEF Reported, Job
  <1> QED
    BY <1>1, <1>2

(* UpdateWithStatus decides which pass goes on.                              *)
LEMMA CompareAndSetAccounts ==
    ASSUME TypeOK, Accounts, NEW w \in Workers, CompareAndSet(w)
    PROVE  Accounts'
  <1>1. /\ task \in Task /\ job \in [Workers -> Job] /\ job[w] \in Job
        /\ job[w].t \in Task /\ job[w].base \in Task /\ job[w].pc = "cas"
        /\ job[w].actual \in Nat /\ job[w].failing \in BOOLEAN
    BY JobFields, QuotasTyped DEF Parts, CompareAndSet
  <1>2. UNCHANGED <<record, submit>> /\ UNCHANGED money /\ NoJob \in Job /\ Idle(NoJob)
    BY NothingTyped DEF CompareAndSet, NoJob, Idle
  <1>3. Over
    BY <1>1 DEF Accounts, Submitting, Idle
  <1>4. Reporting(job[w])
    BY <1>1, <1>3
       DEF Accounts, Waiting, Succeeded, Failed, TypeOK, Task, Idle, SettlingJob, Settles,
           RefundingJob
  <1>5. CASE ~Wins(w)
    <2>1. task' = task /\ Becomes(w, NoJob) /\ task.status # "submitted"
      BY <1>4, <1>5, CompareAndSetBecomes DEF Wins, Reporting
    <2>2. CASE task.status = "success"
      <3>1. Succeeded /\ SettlingJob(NoJob, Price(record), Deferred)
        BY <1>2, <1>3, <2>2 DEF Accounts, SettlingJob
      <3> QED
        BY <1>2, <1>3, <2>1, <2>2, <3>1, SucceededStep DEF Succeeded, Accounts, money
    <2>3. CASE task.status = "failure"
      <3>1. Failed /\ RefundingJob(NoJob, row)
        BY <1>2, <1>3, <2>3 DEF Accounts, RefundingJob
      <3> QED
        BY <1>2, <1>3, <2>1, <2>3, <3>1, FailedStep DEF Failed, Accounts, money
    <2> QED
      BY <1>1, <1>3, <2>1, <2>2, <2>3 DEF Accounts, Task
  <1>6. CASE Wins(w)
    <2>1. task.status = "submitted" /\ Waiting
      BY <1>3, <1>4, <1>6 DEF Wins, Reporting, Accounts
    <2>2. task' = StatusPatch(job[w].t, job[w].base)
      BY <1>6, CompareAndSetBecomes
    <2>3. /\ task'.status = job[w].t.status /\ task'.quota = task.quota
          /\ task'.settle = task.settle /\ task'.unresolved = task.unresolved
          /\ task'.rollback = task.rollback
      BY <1>1, <2>2 DEF StatusPatch, Task
    <2>4. task'.quota = Prepaid /\ Prepaid # 0
      BY <2>1, <2>3, QuotasTyped DEF Waiting
    <2> DEFINE j == Reported(w, task')
    <2>5. Becomes(w, j) /\ j \in Job
      BY <1>6, <2>4, CompareAndSetBecomes
    <2>6. /\ j.t = task' /\ j.base = task' /\ j.failing = job[w].failing
          /\ j.pc = IF job[w].failing THEN "reopen"
                    ELSE IF job[w].actual > 0 THEN "syncRead" ELSE "prepaid"
      BY <1>1, ReportedFields
    <2> HIDE DEF j
    <2>7. job'[w] = j /\ \A v \in Workers : v # w => job'[v] = job[v]
      BY <1>1, <2>5, JobTyped
    <2>8. \A v \in Workers : v # w => Idle(job'[v]) \/ Reporting(job'[v])
      BY <2>1, <2>7 DEF Waiting
    <2>9. CASE job[w].t.status = "success"
      <3>1. j.pc \in {"syncRead", "prepaid"} /\ ~j.failing
        BY <1>4, <2>6, <2>9 DEF Reporting
      <3>2. Price(record) = Prepaid /\ record.status # "APPLIED"
        BY <2>1 DEF Waiting, Price, NoRecord
      <3>3. SettlingJob(j, Prepaid, Deferred)
        BY <2>1, <2>3, <2>4, <2>6, <3>1
           DEF SettlingJob, Settles, SettlesDeferred, SettlesCharged, Waiting
      <3>4. \A v \in Workers : SettlingJob(job'[v], Prepaid, Deferred)
        BY <2>7, <2>8, <3>3 DEF SettlingJob
      <3>5. CostOk(task', record, row, Deferred)
        BY <2>1, <2>3, <2>4, <3>2 DEF CostOk, Waiting
      <3>6. Succeeded'
        BY <1>2, <2>1, <3>2, <3>4, <3>5 DEF Succeeded, Waiting, Deferred, money
      <3> QED
        BY <1>2, <1>3, <2>3, <2>9, <3>6 DEF Accounts, Over, money
    <2>10. CASE job[w].t.status = "failure"
      <3>1. j.pc = "reopen"
        BY <1>4, <2>6, <2>10 DEF Reporting
      <3>2. Owned(task', row)
        BY <2>1, <2>3 DEF Owned, Waiting, Open
      <3>3. RefundingJob(j, row)
        BY <2>6, <3>1, <3>2 DEF RefundingJob
      <3>4. \A v \in Workers : RefundingJob(job'[v], row)
        BY <2>7, <2>8, <3>3 DEF RefundingJob
      <3>5. Failed'
        BY <1>2, <2>1, <2>4, <3>2, <3>4 DEF Failed, Waiting, Charged, money
      <3> QED
        BY <1>2, <1>3, <2>3, <2>10, <3>5 DEF Accounts, Over, money
    <2> QED
      BY <1>4, <2>9, <2>10 DEF Reporting
  <1> QED
    BY <1>5, <1>6

(***************************************************************************)
(* Settling.                                                               *)
(***************************************************************************)
\* What the pass w knows of a task that succeeded.
Pass(w) ==
    /\ Over /\ task.status = "success" /\ Succeeded
    /\ Settles(job[w], Price(record))
    /\ IF Deferred THEN SettlesDeferred(job[w]) ELSE SettlesCharged(job[w])

(* A partial write that decides the quota only by the record, and ends the   *)
(* pass.                                                                     *)
LEMMA LastSave ==
    ASSUME TypeOK, Accounts, NEW w \in Workers, Pass(w), NEW t \in Task, Save(w, "idle", t),
           UNCHANGED <<record, submit>>, UNCHANGED money,
           ~t.rollback, t.quota # job[w].base.quota => t.quota = Price(record),
           t.settle \in {"REVIEW", "SETTLED"}, ~Deferred => ~t.unresolved
    PROVE  Accounts'
  <1>1. task \in Task /\ job \in [Workers -> Job] /\ job[w].base \in Task /\ "idle" \in JobPC
    BY JobFields DEF Parts, JobPC
  <1> DEFINE base == job[w].base
  <1>2. /\ task' = SettlementFields(t, base) /\ Becomes(w, Saved(w, "idle", t))
    BY <1>1, SaveBecomes
  <1>3. Becomes(w, NoJob) /\ NoJob \in Job /\ Idle(NoJob)
    BY <1>2, NothingTyped DEF Saved, Idle, NoJob
  <1>4. /\ task'.status = task.status
        /\ task'.quota = IF t.quota # base.quota THEN t.quota ELSE task.quota
        /\ task'.settle = IF t.settle # base.settle THEN t.settle ELSE task.settle
        /\ task'.unresolved = IF t.key \/ t.unresolved \/ t.rollback THEN t.unresolved
                              ELSE task.unresolved
        /\ task'.rollback = IF t.key \/ t.unresolved \/ t.rollback THEN t.rollback
                            ELSE task.rollback
    BY <1>1, <1>2, SettlementFieldsAre
  <1>5. /\ CostOk(task, record, row, Deferred) /\ paid = Price(record)
        /\ (reserve = "refunded" => row = "rolled_back")
    BY DEF Pass, Succeeded, Accounts
  <1>6. Deferred => base.settle = "REVIEW"
    BY DEF Pass, SettlesDeferred
  <1> HIDE DEF base
  <1>7. task'.quota = Price(record) /\ ~task'.rollback
    BY <1>4, <1>5 DEF CostOk, base
  <1>8. CostOk(task', record, row, Deferred)
    BY <1>4, <1>5, <1>6, <1>7 DEF CostOk
  <1>9. SettlingJob(NoJob, Price(record), Deferred)
    BY <1>3 DEF SettlingJob
  <1> QED
    BY <1>3, <1>4, <1>5, <1>8, <1>9, SucceededStep DEF Pass, money

(* A pass goes on in memory only.                                            *)
LEMMA PassGoes ==
    ASSUME TypeOK, Accounts, NEW w \in Workers, Pass(w), NEW j \in Job, Becomes(w, j),
           UNCHANGED <<task, record, submit>>, UNCHANGED money,
           SettlingJob(j, Price(record), Deferred)
    PROVE  Accounts'
  <1>1. /\ CostOk(task, record, row, Deferred) /\ paid = Price(record)
        /\ (reserve = "refunded" => row = "rolled_back")
    BY DEF Pass, Succeeded, Accounts
  <1> QED
    BY <1>1, SucceededStep DEF Pass, money

(* Any place but those of the ledger part is safe.                           *)
LEMMA PassMoves ==
    ASSUME NEW w \in Workers, Pass(w), job[w] \in Job,
           NEW next \in {"delta", "apply", "recordReview", "review"},
           next = "apply" => job[w].pc = "begin"
    PROVE  SettlingJob([job[w] EXCEPT !.pc = next], Price(record), Deferred)
  <1> DEFINE j == [job[w] EXCEPT !.pc = next]
  <1>1. /\ j.pc = next /\ j.t = job[w].t /\ j.base = job[w].base /\ j.pre = job[w].pre
        /\ j.failing = job[w].failing
    BY DEF Job
  <1> HIDE DEF j
  <1>2. Settles(j, Price(record))
    BY <1>1 DEF Pass, Settles
  <1>3. Deferred => SettlesDeferred(j)
    BY <1>1 DEF Pass, SettlesDeferred
  <1>4. ~Deferred => SettlesCharged(j)
    BY <1>1 DEF Pass, SettlesCharged
  <1> QED
    BY <1>2, <1>3, <1>4 DEF SettlingJob, j

(* A pass moves on.                                                          *)
LEMMA PassGoto ==
    ASSUME TypeOK, Accounts, NEW w \in Workers, Pass(w),
           NEW next \in {"delta", "apply", "recordReview", "review"},
           next = "apply" => job[w].pc = "begin", Goto(w, next),
           UNCHANGED <<task, record, submit>>, UNCHANGED money
    PROVE  Accounts'
  <1>1. job \in [Workers -> Job] /\ job[w] \in Job /\ next \in JobPC
    BY JobFields DEF Parts, JobPC
  <1>2. /\ Becomes(w, [job[w] EXCEPT !.pc = next])
        /\ [job[w] EXCEPT !.pc = next] \in Job
    BY <1>1, GotoBecomes
  <1>3. SettlingJob([job[w] EXCEPT !.pc = next], Price(record), Deferred)
    BY <1>1, PassMoves
  <1> QED
    BY <1>2, <1>3, PassGoes

(* A pass gives up.                                                          *)
LEMMA PassFinishes ==
    ASSUME TypeOK, Accounts, NEW w \in Workers, Pass(w), Finish(w),
           UNCHANGED <<task, record, submit>>, UNCHANGED money
    PROVE  Accounts'
  <1>1. Becomes(w, NoJob) /\ NoJob \in Job
    BY FinishBecomes
  <1>2. SettlingJob(NoJob, Price(record), Deferred)
    BY DEF SettlingJob, Idle, NoJob
  <1> QED
    BY <1>1, <1>2, PassGoes

(* Settling changes neither quota nor flags.                                 *)
LEMMA SettledFields ==
    ASSUME NEW t \in Task
    PROVE  /\ Settled(t) \in Task /\ Settled(t).settle = "SETTLED" /\ Settled(t).quota = t.quota
           /\ Settled(t).unresolved = t.unresolved /\ Settled(t).rollback = t.rollback
  <1>1. Settled(t) \in Task
    BY SettledTyped
  <1> QED
    BY <1>1 DEF Settled, Task

(* The task is settled as it is.                                             *)
LEMMA SettledAsIs ==
    ASSUME TypeOK, Accounts, NEW w \in Workers, Pass(w), Save(w, "idle", Settled(job[w].t)),
           UNCHANGED <<record, submit>>, UNCHANGED money
    PROVE  Accounts'
  <1> DEFINE u == Settled(job[w].t)
  <1>1. job[w].t \in Task
    BY JobFields
  <1>2. /\ u \in Task /\ u.settle = "SETTLED" /\ u.quota = job[w].t.quota
        /\ u.unresolved = job[w].t.unresolved /\ u.rollback = job[w].t.rollback
    BY <1>1, SettledFields
  <1> HIDE DEF u
  <1>3. /\ ~u.rollback /\ (u.quota # job[w].base.quota => u.quota = Price(record))
        /\ (~Deferred => ~u.unresolved)
    BY <1>2 DEF Pass, Settles, SettlesCharged
  <1>4. Save(w, "idle", u)
    BY DEF u
  <1> QED
    BY <1>2, <1>3, <1>4, LastSave

(* The record decides.                                                       *)
LEMMA FinalizeAccounts ==
    ASSUME TypeOK, Accounts, NEW w \in Workers, Pass(w), FinalizeRecalculation(w),
           UNCHANGED <<record, submit>>, UNCHANGED money
    PROVE  Accounts'
  <1>1. CASE record.status = "APPLIED" /\ record.op = "recalculation"
    <2> DEFINE s == Settled(job[w].t)
               u == [s EXCEPT !.quota = record.applied]
    <2>1. job[w].t \in Task /\ record.applied \in Quotas
      BY JobFields, RecordTyped DEF Parts
    <2>2. /\ s \in Task /\ s.settle = "SETTLED"
          /\ s.unresolved = job[w].t.unresolved /\ s.rollback = job[w].t.rollback
      BY <2>1, SettledFields
    <2>3. Save(w, "idle", u)
      BY <1>1 DEF FinalizeRecalculation
    <2> HIDE DEF s
    <2>4. /\ u \in Task /\ u.settle = "SETTLED" /\ u.quota = record.applied
          /\ u.unresolved = job[w].t.unresolved /\ u.rollback = job[w].t.rollback
      BY <2>1, <2>2 DEF Task
    <2> HIDE DEF u
    <2>5. /\ ~u.rollback /\ u.quota = Price(record) /\ (~Deferred => ~u.unresolved)
      BY <1>1, <2>4 DEF Pass, Settles, SettlesCharged, Price
    <2> QED
      BY <2>3, <2>4, <2>5, LastSave
  <1>2. CASE ~(record.status = "APPLIED" /\ record.op = "recalculation")
    <2>1. Goto(w, "review") /\ UNCHANGED task
      BY <1>2 DEF FinalizeRecalculation
    <2> QED
      BY <2>1, PassGoto
  <1> QED
    BY <1>1, <1>2

(* A pass settles without the transaction, or asks for a review.             *)
LEMMA SettleAccounts ==
    ASSUME TypeOK, Accounts, NEW w \in Workers, SettlePrepaid(w) \/ Delta(w) \/ Review(w)
    PROVE  Accounts'
  <1>1. Pass(w)
    BY SettlingPass DEF SettlePrepaid, Delta, Review, Pass
  <1>2. UNCHANGED <<record, submit>> /\ UNCHANGED money
    BY DEF SettlePrepaid, Delta, Review
  <1>3. job \in [Workers -> Job] /\ job[w] \in Job /\ job[w].t \in Task /\ job[w].t.quota \in Quotas
        /\ job[w].actual \in Quotas
    BY JobFields DEF Parts, Task
  <1>4. CASE SettlePrepaid(w)
    BY <1>1, <1>2, <1>4, SettledAsIs DEF SettlePrepaid
  <1>5. CASE Delta(w)
    <2>1. CASE job[w].t.quota # job[w].actual
      <3> DEFINE j == [job[w] EXCEPT !.pre = job[w].t.quota, !.pc = "begin"]
      <3>1. UNCHANGED task /\ job' = [job EXCEPT ![w].pre = job[w].t.quota, ![w].pc = "begin"]
        BY <1>5, <2>1 DEF Delta
      <3>2. Becomes(w, j) /\ j \in Job
        BY <1>3, <3>1 DEF Becomes, Job, JobPC
      <3>3. /\ j.pc = "begin" /\ j.t = job[w].t /\ j.base = job[w].base
            /\ j.pre = job[w].t.quota /\ j.failing = job[w].failing
        BY <1>3 DEF Job
      <3> HIDE DEF j
      <3>4. SettlingJob(j, Price(record), Deferred)
        BY <1>1, <3>3 DEF Pass, SettlingJob, Settles, SettlesDeferred, SettlesCharged
      <3> QED
        BY <1>1, <1>2, <3>1, <3>2, <3>4, PassGoes
    <2>2. CASE job[w].t.quota = job[w].actual
      <3>1. FinalizeRecalculation(w) \/ Save(w, "idle", Settled(job[w].t))
        BY <1>5, <2>2 DEF Delta
      <3> QED
        BY <1>1, <1>2, <3>1, FinalizeAccounts, SettledAsIs
    <2> QED
      BY <2>1, <2>2
  <1>6. CASE Review(w)
    <2> DEFINE u == [job[w].t EXCEPT !.settle = "REVIEW",
                        !.attempt = IF job[w].failing THEN job[w].pre ELSE job[w].actual,
                        !.refund = @ \/ job[w].failing]
    <2>1. ~job[w].failing
      BY <1>1 DEF Pass, Settles
    <2>2. /\ u \in Task /\ u.settle = "REVIEW" /\ u.quota = job[w].t.quota
          /\ u.unresolved = job[w].t.unresolved /\ u.rollback = job[w].t.rollback
      BY <1>3, <2>1 DEF Task
    <2>3. Save(w, "idle", u)
      BY <1>6 DEF Review
    <2> HIDE DEF u
    <2>4. /\ ~u.rollback /\ (u.quota # job[w].base.quota => u.quota = Price(record))
          /\ (~Deferred => ~u.unresolved)
      BY <1>1, <2>2 DEF Pass, Settles, SettlesCharged
    <2> QED
      BY <1>1, <1>2, <2>2, <2>3, <2>4, LastSave
  <1> QED
    BY <1>4, <1>5, <1>6

(* The record moves, but is not applied.                                     *)
LEMMA RecordMoves ==
    ASSUME TypeOK, Accounts, NEW w \in Workers, Pass(w), record.status # "APPLIED",
           record'.status # "APPLIED", NEW next \in {"apply", "recordReview", "review"},
           next = "apply" => job[w].pc = "begin", Goto(w, next),
           UNCHANGED <<task, submit>>, UNCHANGED money
    PROVE  Accounts'
  <1>1. job \in [Workers -> Job] /\ job[w] \in Job /\ next \in JobPC
    BY JobFields DEF Parts, JobPC
  <1>2. /\ Becomes(w, [job[w] EXCEPT !.pc = next])
        /\ [job[w] EXCEPT !.pc = next] \in Job
    BY <1>1, GotoBecomes
  <1>3. SettlingJob([job[w] EXCEPT !.pc = next], Price(record), Deferred)
    BY <1>1, PassMoves
  <1>4. Price(record') = Price(record)
    BY DEF Price
  <1>5. /\ CostOk(task, record, row, Deferred) /\ paid = Price(record)
        /\ (reserve = "refunded" => row = "rolled_back")
    BY DEF Pass, Succeeded, Accounts
  <1>6. CostOk(task', record', row', Deferred)
    BY <1>4, <1>5 DEF CostOk, money
  <1> QED
    BY <1>2, <1>3, <1>4, <1>5, <1>6, SucceededStep DEF Pass, money

(* A record is prepared or put under review.                                 *)
LEMMA RecordAccounts ==
    ASSUME TypeOK, Accounts, NEW w \in Workers, Begin(w) \/ RecordReview(w)
    PROVE  Accounts'
  <1>1. Pass(w)
    BY SettlingPass DEF Begin, RecordReview, Pass
  <1>2. record \in Record
    BY DEF TypeOK
  <1>3. CASE Begin(w)
    <2>1. CASE Prepare /\ Goto(w, "apply") /\ UNCHANGED task
      <3>1. record.status # "APPLIED" /\ record'.status # "APPLIED"
        BY <1>2, <2>1 DEF Prepare, Record
      <3> QED
        BY <1>1, <1>3, <2>1, <3>1, RecordMoves DEF Begin
    <2>2. CASE FinalizeRecalculation(w) /\ UNCHANGED record
      BY <1>1, <1>3, <2>2, FinalizeAccounts DEF Begin
    <2> QED
      BY <1>3, <2>1, <2>2 DEF Begin
  <1>4. CASE RecordReview(w)
    <2>1. CASE record.status = "APPLIED"
      BY <1>1, <1>4, <2>1, PassGoto DEF RecordReview
    <2>2. CASE record.status # "APPLIED"
      <3>1. record'.status # "APPLIED"
        BY <1>2, <1>4, <2>2 DEF RecordReview, Record
      <3> QED
        BY <1>1, <1>4, <2>2, <3>1, RecordMoves DEF RecordReview
    <2> QED
      BY <2>1, <2>2
  <1> QED
    BY <1>3, <1>4

(* The accounting transaction sets the price, once.                          *)
LEMMA ApplyAccounts ==
    ASSUME TypeOK, Accounts, NEW w \in Workers, Apply(w)
    PROVE  Accounts'
  <1>1. Pass(w) /\ job[w].pc = "apply" /\ job[w].failing = FALSE
    <2>1. Pass(w) /\ job[w].pc = "apply" /\ ~job[w].failing
      BY SettlingPass DEF Apply, Pass, Settles
    <2>2. job[w].failing \in BOOLEAN
      BY JobFields
    <2> QED
      BY <2>1, <2>2
  <1>2. /\ task \in Task /\ record \in Record /\ job[w].actual \in Quotas /\ job[w].pre \in Quotas
        /\ record.applied \in Quotas /\ UNCHANGED submit
    BY JobFields, RecordTyped DEF Parts, Apply
  <1>3. /\ CostOk(task, record, row, Deferred) /\ paid = Price(record)
        /\ (reserve = "refunded" => row = "rolled_back")
    BY <1>1 DEF Pass, Succeeded, Accounts
  <1>4. ASSUME NEW q \in Quotas
        PROVE  LET a == Accounted(q, FALSE) IN
               /\ a.quota = q /\ a.settle = "SETTLED" /\ a.status = task.status
               /\ a.unresolved = task.unresolved /\ a.rollback = task.rollback
    BY <1>2 DEF Accounted, Task
  <1>5. SettlingJob(NoJob, Price(record'), Deferred)
    BY DEF SettlingJob, Idle, NoJob
  <1>6. CASE /\ record.status = "PREPARED"
             /\ paid' = paid + job[w].actual - job[w].pre
             /\ task' = Accounted(job[w].actual, job[w].failing)
             /\ record' = [status |-> "APPLIED", op |-> "recalculation",
                           applied |-> job[w].actual, pre |-> job[w].pre]
             /\ Finish(w)
             /\ UNCHANGED <<row, spool, reserve>>
    <2>1. Price(record) = Prepaid /\ job[w].pre = Prepaid
      BY <1>1, <1>6 DEF Pass, Settles, Price
    <2>2. paid' = job[w].actual
      <3>1. job[w].actual \in Nat /\ Prepaid \in Nat
        BY <1>2, QuotasTyped
      <3>2. paid' = Prepaid + job[w].actual - Prepaid
        BY <1>3, <1>6, <2>1
      <3> QED
        BY <3>1, <3>2
    <2>3. Price(record') = job[w].actual /\ record'.op = "recalculation"
          /\ record'.status = "APPLIED"
      BY <1>6 DEF Price
    <2>4. task' = Accounted(job[w].actual, FALSE)
      BY <1>1, <1>6
    <2>5. /\ task'.quota = job[w].actual /\ task'.settle = "SETTLED"
          /\ task'.status = task.status /\ task'.unresolved = task.unresolved
          /\ task'.rollback = task.rollback
      BY <1>2, <1>4, <2>4
    <2>6. CostOk(task', record', row', Deferred)
      BY <1>3, <1>6, <2>3, <2>5 DEF CostOk
    <2>7. Becomes(w, NoJob) /\ NoJob \in Job
      BY <1>6, FinishBecomes
    <2> QED
      BY <1>1, <1>2, <1>3, <1>5, <1>6, <2>2, <2>3, <2>5, <2>6, <2>7, SucceededStep DEF Pass
  <1>7. CASE /\ record.status = "APPLIED"
             /\ task' = Accounted(record.applied, job[w].failing)
             /\ Finish(w) /\ UNCHANGED record /\ UNCHANGED money
    <2>1. task' = Accounted(record.applied, FALSE) /\ Price(record) = record.applied
      BY <1>1, <1>7 DEF Price
    <2>2. /\ task'.quota = record.applied /\ task'.settle = "SETTLED"
          /\ task'.status = task.status /\ task'.unresolved = task.unresolved
          /\ task'.rollback = task.rollback
      BY <1>2, <1>4, <2>1
    <2>3. CostOk(task', record', row', Deferred)
      BY <1>3, <1>7, <2>1, <2>2 DEF CostOk, money
    <2>4. Becomes(w, NoJob) /\ NoJob \in Job
      BY <1>7, FinishBecomes
    <2> QED
      BY <1>1, <1>2, <1>3, <1>5, <1>7, <2>2, <2>3, <2>4, SucceededStep DEF Pass, money
  <1>8. CASE Goto(w, "recordReview") /\ UNCHANGED <<task, record>> /\ UNCHANGED money
    BY <1>1, <1>2, <1>8, PassGoto
  <1> QED
    BY <1>1, <1>6, <1>7, <1>8 DEF Apply, ApplyAtomic

(* A pass that settles a deferred charge brings it to the ledger's state     *)
(* first; one that settles an applied charge finds it applied.               *)
LEMMA SyncReadAccounts ==
    ASSUME TypeOK, Accounts, NEW w \in Workers, SyncRead(w)
    PROVE  Accounts'
  <1>1. Pass(w) /\ UNCHANGED <<task, record, submit>> /\ UNCHANGED money
    BY SettlingPass DEF SyncRead, Pass
  <1>2. job[w] \in Job /\ job[w].pc \in {"syncRead", "syncReread"}
    BY JobFields DEF SyncRead
  <1>3. PICK next \in {"syncAct", "syncPersist"} :
             /\ next = IF job[w].pc = "syncRead" THEN "syncAct" ELSE "syncPersist"
             /\ Becomes(w, [job[w] EXCEPT !.seen = row, !.pc = next])
             /\ [job[w] EXCEPT !.seen = row, !.pc = next] \in Job
    BY SyncReadBecomes
  <1> DEFINE j == [job[w] EXCEPT !.seen = row, !.pc = next]
  <1>4. /\ j.pc = next /\ j.t = job[w].t /\ j.base = job[w].base /\ j.seen = row
        /\ j.failing = job[w].failing
    BY <1>2 DEF Job
  <1>5. Becomes(w, j) /\ j \in Job
    BY <1>3
  <1> HIDE DEF j
  <1>6. Settles(j, Price(record))
    BY <1>1, <1>4 DEF Pass, Settles
  <1>7. Deferred => SettlesDeferred(j)
    BY <1>1, <1>4 DEF Pass, SettlesDeferred
  <1>8. ~Deferred => SettlesCharged(j)
    <2> SUFFICES ASSUME ~Deferred PROVE SettlesCharged(j)
      OBVIOUS
    <2>1. SettlesCharged(job[w]) /\ row = "applied"
      BY <1>1 DEF Pass, Succeeded, CostOk
    <2>2. next = "syncAct"
      BY <1>2, <1>3, <2>1 DEF SettlesCharged
    <2> QED
      BY <1>4, <2>1, <2>2 DEF SettlesCharged
  <1> QED
    BY <1>1, <1>5, <1>6, <1>7, <1>8, PassGoes DEF SettlingJob

(* What the pass makes of the ledger row it read.                            *)
LEMMA SyncActAccounts ==
    ASSUME TypeOK, Accounts, NEW w \in Workers, SyncAct(w)
    PROVE  Accounts'
  <1> DEFINE t == job[w].t
             seen == job[w].seen
  <1>1. Pass(w) /\ UNCHANGED <<record, submit>> /\ UNCHANGED money /\ job[w].pc = "syncAct"
    BY SettlingPass DEF SyncAct, Pass
  <1>2. /\ job \in [Workers -> Job] /\ job[w] \in Job /\ t \in Task /\ ~t.rollback
        /\ {"delta", "syncApply", "syncPersist"} \subseteq JobPC
    BY <1>1, JobFields DEF Parts, Pass, Settles, JobPC
  <1>3. CASE Deferred
    <2>1. SettlesDeferred(job[w]) /\ Settles(job[w], Price(record))
      BY <1>1, <1>3 DEF Pass
    <2>2. ~Unflagged(t)
      BY <2>1 DEF Unflagged, Open, SettlesDeferred
    <2>3. /\ UNCHANGED task
          /\ \/ SyncError(w) \/ Goto(w, "delta")
             \/ Goto(w, "syncApply") \/ Goto(w, "syncPersist")
      BY <1>2, <2>2, Zenon DEF SyncAct
    <2>4. SyncError(w) => Finish(w)
      BY <2>1 DEF SyncError, SettlesDeferred
    <2>5. ASSUME NEW next \in {"syncApply", "syncPersist"}, Goto(w, next) PROVE Accounts'
      <3> DEFINE j == [job[w] EXCEPT !.pc = next]
      <3>1. Becomes(w, j) /\ j \in Job
        BY <1>2, <2>5, GotoBecomes
      <3>2. /\ j.pc = next /\ j.t = t /\ j.base = job[w].base /\ j.failing = job[w].failing
        BY <1>2 DEF Job
      <3> HIDE DEF j
      <3>3. SettlingJob(j, Price(record), Deferred)
        BY <1>3, <2>1, <3>2 DEF SettlingJob, Settles, SettlesDeferred
      <3> QED
        BY <1>1, <2>3, <3>1, <3>3, PassGoes
    <2> QED
      BY <1>1, <2>3, <2>4, <2>5, PassFinishes, PassGoto
  <1>4. CASE ~Deferred
    <2>1. /\ SettlesCharged(job[w]) /\ Settles(job[w], Price(record))
          /\ ~t.unresolved /\ seen = "applied"
      BY <1>1, <1>4 DEF Pass, SettlesCharged
    <2>2. CASE Unflagged(t)
      <3> DEFINE u == [t EXCEPT !.key = TRUE]
                 j == [job[w] EXCEPT !.pc = "delta", !.t = u]
      <3>1. t.quota = Held(seen, t.quota)
        BY <2>1, <2>2 DEF Held, Unflagged, Open, SettlesCharged
      <3>2. UNCHANGED task /\ Memory(w, "delta", u)
        BY <2>1, <2>2, <3>1 DEF SyncAct
      <3>3. /\ u \in Task /\ u.quota = t.quota /\ u.settle = t.settle
            /\ ~u.unresolved /\ ~u.rollback
        BY <1>2, <2>1 DEF Task
      <3> HIDE DEF u
      <3>4. Becomes(w, j) /\ j \in Job
        BY <1>2, <3>2, <3>3, MemoryBecomes
      <3>5. j.pc = "delta" /\ j.t = u /\ j.base = job[w].base /\ j.failing = job[w].failing
        BY <1>2 DEF Job
      <3> HIDE DEF j
      <3>6. SettlingJob(j, Price(record), Deferred)
        BY <1>4, <2>1, <3>3, <3>5 DEF SettlingJob, Settles, SettlesCharged
      <3> QED
        BY <1>1, <3>2, <3>4, <3>6, PassGoes
    <2>3. CASE ~Unflagged(t)
      <3>1. Goto(w, "delta") /\ UNCHANGED task
        BY <2>1, <2>3 DEF SyncAct
      <3> QED
        BY <1>1, <3>1, PassGoto
    <2> QED
      BY <2>2, <2>3
  <1> QED
    BY <1>3, <1>4

(* The pending charge is the reservation: nothing moves.                     *)
LEMMA SyncApplyAccounts ==
    ASSUME TypeOK, Accounts, NEW w \in Workers, SyncApply(w)
    PROVE  Accounts'
  <1>1. Pass(w) /\ UNCHANGED <<task, record, submit>> /\ job[w].pc = "syncApply"
    BY SettlingPass DEF SyncApply, Pass
  <1>2. /\ CostOk(task, record, row, Deferred) /\ paid = Price(record)
        /\ (reserve = "refunded" => row = "rolled_back") /\ row # "rolled_back"
    BY <1>1 DEF Pass, Succeeded, Accounts, CostOk
  <1>3. Deferred /\ SettlesDeferred(job[w])
    BY <1>1 DEF Pass, SettlesCharged
  <1>4. /\ Goto(w, "syncReread") /\ row' = "applied" /\ paid' = paid
        /\ (reserve' = "refunded" => reserve = "refunded")
    BY <1>2 DEF SyncApply, ApplyRow, money
  <1> DEFINE j == [job[w] EXCEPT !.pc = "syncReread"]
  <1>5. Becomes(w, j) /\ j \in Job /\ job[w] \in Job
    BY <1>4, JobFields, GotoBecomes DEF Parts, JobPC
  <1>6. /\ j.pc = "syncReread" /\ j.t = job[w].t /\ j.base = job[w].base
        /\ j.failing = job[w].failing
    BY <1>5 DEF Job
  <1> HIDE DEF j
  <1>7. SettlingJob(j, Price(record), Deferred)
    BY <1>1, <1>3, <1>6 DEF Pass, SettlingJob, Settles, SettlesDeferred
  <1>8. CostOk(task', record', row', Deferred)
    BY <1>1, <1>2, <1>3, <1>4 DEF CostOk
  <1> QED
    BY <1>1, <1>2, <1>4, <1>5, <1>7, <1>8, SucceededStep DEF Pass

(* The quota it writes is the one the row has, or is not written.            *)
LEMMA SyncPersistAccounts ==
    ASSUME TypeOK, Accounts, NEW w \in Workers, SyncPersist(w)
    PROVE  Accounts'
  <1> DEFINE t == job[w].t
             base == job[w].base
             u == [t EXCEPT !.unresolved = FALSE,
                            !.quota = IF job[w].seen = "applied" THEN Prepaid ELSE @]
             f == SettlementFields(u, base)
  <1>1. /\ Pass(w) /\ UNCHANGED <<record, submit>> /\ UNCHANGED money
        /\ job[w].pc = "syncPersist"
    BY SettlingPass DEF SyncPersist, Pass
  <1>2. /\ CostOk(task, record, row, Deferred) /\ paid = Price(record)
        /\ (reserve = "refunded" => row = "rolled_back")
    BY <1>1 DEF Pass, Succeeded, Accounts
  <1>3. Deferred /\ SettlesDeferred(job[w]) /\ Settles(job[w], Price(record))
    BY <1>1 DEF Pass, SettlesCharged
  <1>4. /\ task \in Task /\ job \in [Workers -> Job] /\ job[w] \in Job /\ t \in Task
        /\ base \in Task /\ "delta" \in JobPC /\ "delta" # "idle"
    BY JobFields DEF Parts, JobPC
  <1>5. /\ u \in Task /\ u.settle = t.settle /\ ~u.rollback
        /\ u.quota \in {Prepaid, t.quota}
    BY <1>3, <1>4, QuotasTyped DEF Task, Settles
  <1>6. Save(w, "delta", u)
    BY DEF SyncPersist
  <1> HIDE DEF u
  <1>7. /\ task' = f /\ Becomes(w, Saved(w, "delta", u)) /\ Saved(w, "delta", u) \in Job
    BY <1>4, <1>5, <1>6, SaveBecomes
  <1>8. /\ f \in Task /\ f.status = task.status
        /\ f.quota = IF u.quota # base.quota THEN u.quota ELSE task.quota
        /\ f.settle = IF u.settle # base.settle THEN u.settle ELSE task.settle
        /\ f.rollback = IF u.key \/ u.unresolved \/ u.rollback THEN u.rollback
                        ELSE task.rollback
    BY <1>4, <1>5, SettlementFieldsAre
  <1>9. Saved(w, "delta", u) = [job[w] EXCEPT !.pc = "delta", !.t = [f EXCEPT !.status = u.status]]
    BY <1>4 DEF Saved
  <1> DEFINE j == Saved(w, "delta", u)
  <1> HIDE DEF f
  <1>10. /\ f.quota = Price(record) /\ ~f.rollback /\ f.settle \in {"REVIEW", "SETTLED"}
         /\ (record.status = "APPLIED" => f.settle = "SETTLED")
    BY <1>2, <1>3, <1>5, <1>8 DEF CostOk, Settles, SettlesDeferred
  <1>11. /\ j.pc = "delta" /\ j.base = base /\ j.failing = job[w].failing
         /\ j.t.quota = f.quota /\ j.t.settle = f.settle /\ j.t.rollback = f.rollback
    <2> DEFINE g == [f EXCEPT !.status = u.status]
    <2>1. g.quota = f.quota /\ g.settle = f.settle /\ g.rollback = f.rollback
      BY <1>8 DEF Task
    <2>2. j = [job[w] EXCEPT !.pc = "delta", !.t = g]
      BY <1>9
    <2> HIDE DEF g, j
    <2>3. j.pc = "delta" /\ j.base = job[w].base /\ j.failing = job[w].failing /\ j.t = g
      BY <1>4, <2>2 DEF Job
    <2> QED
      BY <2>1, <2>3
  <1> HIDE DEF j
  <1>12. SettlingJob(j, Price(record), Deferred)
    <2>1. Settles(j, Price(record))
      BY <1>3, <1>10, <1>11 DEF Settles
    <2>2. SettlesDeferred(j)
      BY <1>3, <1>10, <1>11 DEF SettlesDeferred
    <2> QED
      BY <1>3, <2>1, <2>2 DEF SettlingJob
  <1>13. CostOk(f, record, row, Deferred)
    BY <1>2, <1>3, <1>10 DEF CostOk
  <1>14. Becomes(w, j) /\ j \in Job
    BY <1>7 DEF j
  <1> QED
    BY <1>1, <1>2, <1>7, <1>8, <1>12, <1>13, <1>14, SucceededStep DEF Pass, money

(***************************************************************************)
(* Refunding.                                                              *)
(***************************************************************************)
(* The ledger gives the charge back once, whoever asks.                      *)
LEMMA RefundAccounts ==
    ASSUME TypeOK, Accounts, NEW w \in Workers,
           \/ Reopen(w) \/ LoadAdjustment(w) \/ Release(w) \/ ReleaseReservation(w)
           \/ ReleasePersist(w) \/ RefundBegin(w)
    PROVE  Accounts'
  <1> DEFINE t == job[w].t
  <1>1. Over /\ task.status = "failure" /\ Failed /\ RefundingJob(job[w], row)
    BY RefundingPass
       DEF Reopen, LoadAdjustment, Release, ReleaseReservation, ReleasePersist, RefundBegin
  <1>2. /\ record = NoRecord /\ paid = Charged(row)
        /\ (task.quota = 0 => row = "rolled_back") /\ (task.refund => Owned(task, row))
        /\ (reserve = "refunded" => row = "rolled_back")
    BY <1>1 DEF Failed, Accounts
  <1>3. /\ task \in Task /\ job \in [Workers -> Job] /\ job[w] \in Job /\ t \in Task
        /\ row \in RowStatus
        /\ {"load", "release", "releaseRes", "releasePersist"} \subseteq JobPC
    BY JobFields DEF Parts, MoneyTyped, JobPC
  <1>4. ASSUME NEW next \in {"load", "release", "releaseRes", "releasePersist"}, Goto(w, next)
        PROVE  LET j == [job[w] EXCEPT !.pc = next]
               IN  Becomes(w, j) /\ j \in Job /\ j.pc = next /\ j.t = t
    BY <1>3, <1>4, GotoBecomes DEF Job
  <1>5. Finish(w) => Becomes(w, NoJob) /\ NoJob \in Job /\ RefundingJob(NoJob, row')
    BY FinishBecomes DEF RefundingJob, Idle, NoJob
  <1>6. CASE Reopen(w)
    <2>1. Goto(w, "load") /\ UNCHANGED <<task, record, submit>> /\ UNCHANGED money
      BY <1>2, <1>6 DEF Reopen, NoRecord
    <2> DEFINE j == [job[w] EXCEPT !.pc = "load"]
    <2>2. Becomes(w, j) /\ j \in Job /\ j.pc = "load" /\ j.t = t
      BY <1>4, <2>1
    <2> HIDE DEF j
    <2>3. RefundingJob(j, row)
      BY <1>1, <1>6, <2>2 DEF RefundingJob, Reopen, Idle, Reporting
    <2> QED
      BY <1>1, <1>2, <2>1, <2>2, <2>3, FailedStep DEF money
  <1>7. CASE LoadAdjustment(w)
    <2> DEFINE u == LedgerFlags(t)
               j == [job[w] EXCEPT !.pc = "release", !.t = u]
    <2>1. Owned(t, row)
      BY <1>1, <1>7 DEF LoadAdjustment, RefundingJob, Idle, Reporting
    <2>2. u \in Task /\ (u.unresolved \/ u.rollback)
      BY <1>3, <2>1 DEF LedgerFlags, Unflagged, Owned, Task
    <2>3. Memory(w, "release", u) /\ UNCHANGED <<task, record, submit>> /\ UNCHANGED money
      BY <1>7, <2>2 DEF LoadAdjustment
    <2> HIDE DEF u
    <2>4. Becomes(w, j) /\ j \in Job
      BY <1>3, <2>2, <2>3, MemoryBecomes
    <2>5. j.pc = "release"
      BY <1>3 DEF Job
    <2> HIDE DEF j
    <2>6. RefundingJob(j, row)
      BY <2>5 DEF RefundingJob
    <2> QED
      BY <1>1, <1>2, <2>3, <2>4, <2>6, FailedStep DEF money
  <1>8. CASE Release(w)
    <2>1. UNCHANGED <<task, record, submit>>
      BY <1>8 DEF Release
    <2>2. PICK next \in {"releaseRes", "releasePersist"} :
            /\ Goto(w, next)
            /\ next = "releaseRes" => UNCHANGED money
            /\ next = "releasePersist" => RollbackRow /\ row # "absent"
      BY <1>8 DEF Release
    <2>3. /\ (next = "releasePersist" => row' = "rolled_back") /\ paid' = Charged(row')
          /\ (reserve' = "refunded" => row' = "rolled_back")
          /\ (row = "rolled_back" => row' = "rolled_back")
          /\ (row # "absent" => row' # "absent")
      BY <1>2, <1>3, <2>2, QuotasTyped
         DEF RollbackRow, CreditReservation, CreditCharge, Charged, money, RowStatus
    <2> DEFINE j == [job[w] EXCEPT !.pc = next]
    <2>4. Becomes(w, j) /\ j \in Job /\ j.pc = next
      BY <1>4, <2>2
    <2> HIDE DEF j
    <2>5. RefundingJob(j, row')
      BY <2>3, <2>4 DEF RefundingJob
    <2>6. (task'.quota = 0 => row' = "rolled_back") /\ (task'.refund => Owned(task', row'))
      BY <1>2, <2>1, <2>3 DEF Owned
    <2> QED
      BY <1>1, <2>1, <2>3, <2>4, <2>5, <2>6, FailedStep
  <1>9. CASE ReleaseReservation(w)
    <2>1. UNCHANGED <<task, record, submit>>
      BY <1>9 DEF ReleaseReservation
    <2>2. \/ Finish(w) /\ UNCHANGED money
          \/ /\ Goto(w, "releasePersist")
             /\ \/ row \in {"absent", "pending"} /\ CreditReservation
                \/ row = "rolled_back" /\ UNCHANGED money
      BY <1>9 DEF ReleaseReservation
    <2>3. /\ (Goto(w, "releasePersist") \/ Finish(w)) /\ paid' = Charged(row')
          /\ (~Finish(w) => row' = "rolled_back")
          /\ (reserve' = "refunded" => row' = "rolled_back")
          /\ (row = "rolled_back" => row' = "rolled_back")
          /\ (row # "absent" => row' # "absent")
      BY <1>2, <2>2, QuotasTyped DEF CreditReservation, Charged, money
    <2>4. (task'.quota = 0 => row' = "rolled_back") /\ (task'.refund => Owned(task', row'))
      BY <1>2, <2>1, <2>3 DEF Owned
    <2>5. \E j \in Job : Becomes(w, j) /\ RefundingJob(j, row')
      <3>1. CASE Finish(w)
        BY <1>5, <3>1
      <3>2. CASE ~Finish(w)
        <4> DEFINE j == [job[w] EXCEPT !.pc = "releasePersist"]
        <4>1. Becomes(w, j) /\ j \in Job /\ j.pc = "releasePersist"
          BY <1>4, <2>3, <3>2
        <4> HIDE DEF j
        <4> QED
          BY <2>3, <3>2, <4>1 DEF RefundingJob
      <3> QED
        BY <3>1, <3>2
    <2> QED
      BY <1>1, <2>1, <2>3, <2>4, <2>5, FailedStep
  <1>10. CASE ReleasePersist(w)
    <2> DEFINE u == [t EXCEPT !.quota = 0, !.refund = FALSE, !.unresolved = FALSE,
                              !.rollback = FALSE, !.status = "failure"]
    <2>1. u \in Task /\ u.status = "failure" /\ ~u.refund
      BY <1>3, QuotasTyped DEF Task
    <2>2. /\ task' = AccountingFailure(u) /\ Finish(w)
          /\ UNCHANGED <<record, submit>> /\ UNCHANGED money
      BY <1>10 DEF ReleasePersist
    <2>3. row = "rolled_back"
      BY <1>1, <1>10 DEF ReleasePersist, RefundingJob, Idle, Reporting
    <2> HIDE DEF u
    <2>4. task'.status = "failure" /\ ~task'.refund
      BY <1>3, <2>1, <2>2, AccountingFailureIs
    <2> QED
      BY <1>1, <1>2, <1>5, <2>2, <2>3, <2>4, FailedStep DEF money
  <1>11. ~RefundBegin(w)
    BY <1>1 DEF RefundBegin, RefundingJob, Idle, Reporting
  <1> QED
    BY <1>6, <1>7, <1>8, <1>9, <1>10, <1>11

(* A pass fails: the task or its record is put under review.                 *)
LEMMA JobFailsAccounts ==
    ASSUME TypeOK, Accounts, NEW w \in Workers, JobFails(w)
    PROVE  Accounts'
  <1>1. job[w].pc # "refundBegin"
    <2>1. ASSUME job[w].pc = "refundBegin" PROVE FALSE
      BY <2>1, RefundingPass DEF RefundingJob, Idle, Reporting
    <2> QED
      BY <2>1
  <1>2. Pass(w)
    BY <1>1, SettlingPass DEF JobFails, Pass
  <1>3. UNCHANGED <<task, record, submit>> /\ UNCHANGED money
    BY DEF JobFails
  <1>4. \/ Goto(w, "recordReview") \/ Goto(w, "review") \/ Finish(w)
        \/ job' = [job EXCEPT ![w].pc = "review", ![w].actual = job[w].t.quota]
    BY <1>1 DEF JobFails, SyncError
  <1>5. CASE job' = [job EXCEPT ![w].pc = "review", ![w].actual = job[w].t.quota]
    <2> DEFINE j == [job[w] EXCEPT !.pc = "review", !.actual = job[w].t.quota]
    <2>1. /\ job \in [Workers -> Job] /\ job[w] \in Job /\ job[w].t.quota \in Quotas
          /\ "review" \in JobPC
      BY JobFields DEF Parts, JobPC, Task
    <2>2. j \in Job /\ Becomes(w, j)
      BY <1>5, <2>1 DEF Job, Becomes
    <2>3. /\ j.pc = "review" /\ j.t = job[w].t /\ j.base = job[w].base
          /\ j.failing = job[w].failing
      BY <2>1 DEF Job
    <2> HIDE DEF j
    <2>4. Settles(j, Price(record))
      BY <1>2, <2>3 DEF Pass, Settles
    <2>5. IF Deferred THEN SettlesDeferred(j) ELSE SettlesCharged(j)
      BY <1>2, <2>3 DEF Pass, SettlesDeferred, SettlesCharged
    <2>6. SettlingJob(j, Price(record), Deferred)
      BY <2>4, <2>5 DEF SettlingJob
    <2> QED
      BY <1>2, <1>3, <2>2, <2>6, PassGoes
  <1> QED
    BY <1>2, <1>3, <1>4, <1>5, PassGoto, PassFinishes

(* A pass dies.                                                              *)
LEMMA JobCrashAccounts ==
    ASSUME TypeOK, Accounts, NEW w \in Workers, JobCrash(w)
    PROVE  Accounts'
  <1>1. UNCHANGED <<task, record, submit>> /\ UNCHANGED money /\ job[w].pc # "idle"
    BY DEF JobCrash
  <1>2. Becomes(w, NoJob) /\ NoJob \in Job /\ Idle(NoJob)
    BY FinishBecomes DEF JobCrash, Idle, NoJob
  <1>3. Over
    BY <1>1 DEF Accounts, Submitting, Idle
  <1>4. reserve = "refunded" => row = "rolled_back"
    BY DEF Accounts
  <1>5. CASE task.status = "submitted"
    BY <1>1, <1>2, <1>3, <1>5, WaitingStep
  <1>6. CASE task.status = "success"
    <2>1. Succeeded /\ SettlingJob(NoJob, Price(record), Deferred)
      BY <1>2, <1>3, <1>6 DEF Accounts, SettlingJob
    <2> QED
      BY <1>1, <1>2, <1>3, <1>4, <1>6, <2>1, SucceededStep DEF Succeeded, money
  <1>7. CASE task.status = "failure"
    <2>1. Failed /\ RefundingJob(NoJob, row)
      BY <1>2, <1>3, <1>7 DEF Accounts, RefundingJob
    <2> QED
      BY <1>1, <1>2, <1>3, <1>4, <1>7, <2>1, FailedStep DEF Failed, money
  <1> QED
    BY <1>3, <1>5, <1>6, <1>7 DEF Accounts, TypeOK, Task

(***************************************************************************)
(* The theorems.                                                           *)
(***************************************************************************)
(* Before the submission the reservation is held.                            *)
LEMMA InitAccounts ==
    ASSUME Init
    PROVE  Accounts
  BY DEF Init, Accounts, Over, Submitting, Charged, Idle, NoJob

(* Every step keeps the accounts.                                            *)
LEMMA NextAccounts ==
    ASSUME TypeOK, Regular => Accounts, [Next]_vars
    PROVE  (Regular => Accounts)'
  <1> SUFFICES ASSUME Regular' PROVE Accounts'
    OBVIOUS
  <1>1. UNCHANGED setup
    BY DEF Next, vars
  <1>2. Regular /\ Accounts
    BY <1>1 DEF Regular
  <1>3. CASE UNCHANGED vars
    <2>1. UNCHANGED <<task, record, row, reserve, paid, submit, job>>
      BY <1>3 DEF vars, state
    <2> QED
      BY <1>2, <2>1, ZenonT(60)
         DEF Accounts, Over, Submitting, Waiting, Succeeded, Failed, Deferred, Owned, CostOk,
             RefundingJob, Charged, Price, Open
  <1>4. CASE SubmitStep
    <2>1. ~Over
      BY <1>4 DEF SubmitStep, Insert, SubmitEnsure, SubmitApply, SubmitReview, SubmitRefundable,
                  SubmitLog, SubmitRollback, SubmitFailed, Over
    <2> QED
      BY <1>1, <1>2, <1>4, <2>1, SubmittingStep, SubmissionEnds
  <1>5. ~SubmitCrash
    BY <1>2 DEF SubmitCrash, Regular
  <1>6. CASE ImportSpool \/ RecoverPending \/ ExpireReserve
    BY <1>1, <1>2, <1>6, LedgerAccounts
  <1>7. ASSUME NEW w \in Workers, TakeUp(w) PROVE Accounts'
    BY <1>2, <1>7, PollAccounts, RecoverRefundAccounts, SettlementTakenUp DEF TakeUp
  <1>8. ASSUME NEW w \in Workers, JobStep(w) PROVE Accounts'
    BY <1>2, <1>8, CompareAndSetAccounts, SettleAccounts, SyncReadAccounts, SyncActAccounts,
       SyncApplyAccounts, SyncPersistAccounts, RecordAccounts, ApplyAccounts, RefundAccounts
       DEF JobStep
  <1>9. ASSUME NEW w \in Workers, JobFails(w) \/ JobCrash(w) PROVE Accounts'
    BY <1>2, <1>9, JobFailsAccounts, JobCrashAccounts
  <1> QED
    BY <1>3, <1>4, <1>5, <1>6, <1>7, <1>8, <1>9 DEF Next

(* The rows, the copies that the passes hold and the balance keep their      *)
(* types, whatever the setup.                                                *)
THEOREM SettlementTypeCorrect == Spec => []TypeOK
  <1>1. Init => TypeOK
    BY InitTyped
  <1>2. TypeOK /\ [Next]_vars => TypeOK'
    BY NextTyped
  <1> QED
    BY <1>1, <1>2, PTL DEF Spec

(* Until a task is final, its money is accounted for by the ledger row, and  *)
(* after it succeeded by the settlement record; what passes hold in memory   *)
(* cannot undo either.                                                       *)
THEOREM SettlementSound == Spec => []Sound
  <1>1. Init => Sound
    BY InitTyped, InitAccounts DEF Sound
  <1>2. Sound /\ [Next]_vars => Sound'
    BY NextTyped, NextAccounts DEF Sound
  <1> QED
    BY <1>1, <1>2, PTL DEF Spec

(* A task with nothing left to do has cost the wallet what its row says, for *)
(* every number of passes, prices and database errors, if its submission ran *)
(* to its end, with whatever error, before the first pass took the task up.  *)
THEOREM SettlementMoneyMatches == Spec => [](Regular => MoneyMatchesTask)
  <1>1. ASSUME Sound, Regular PROVE MoneyMatchesTask
    <2>1. TypeOK /\ Accounts
      BY <1>1 DEF Sound
    <2>2. ASSUME Final PROVE paid = task.quota
      <3>1. Over
        BY <2>1, <2>2 DEF Final, AtRest, Submitted, Accounts, Submitting, Over
      <3>2. CASE task.status = "success"
        BY <2>1, <3>1, <3>2 DEF Accounts, Succeeded, CostOk
      <3>3. CASE task.status = "failure"
        BY <2>1, <2>2, <3>1, <3>3 DEF Accounts, Failed, Final, Charged
      <3> QED
        BY <2>2, <3>2, <3>3 DEF Final
    <2> QED
      BY <2>1, <2>2 DEF MoneyMatchesTask
  <1>2. Sound => (Regular => MoneyMatchesTask)
    BY <1>1
  <1> QED
    BY <1>2, SettlementSound, PTL

===========================================================================
