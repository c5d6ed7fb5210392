--------------------------- MODULE BillingLedger ---------------------------
(***************************************************************************)
(* The money of one wallet-funded relay request: the session that lives in *)
(* the handler's memory (service/billing_session.go), the wallet reserve   *)
(* row (model/wallet_preconsume.go), the idempotent ledger row             *)
(* (model/billing_adjustment.go), the node-local spool                     *)
(* (model/billing_adjustment_spool.go) and the recovery loop that every    *)
(* node runs (service/system_task.go).                                     *)
(*                                                                         *)
(* A database transaction is one step.  Between two transactions of a      *)
(* handler anything else may happen: a lease runs out, a recovery pass     *)
(* runs, the process dies.  A transaction may also fail as a whole.        *)
(***************************************************************************)
EXTENDS Integers

CONSTANTS
    Requests,       \* request ids; every HTTP request draws a fresh one
    TaskRequests,   \* the ones that submit an async task (ForcePreConsume)
    Estimates,      \* quotas a request may pre-consume or top up to
    Charges,        \* actual quotas a request may settle for
    WalletQuota,    \* users.quota at the start
    TokenQuota,     \* tokens.remain_quota at the start
    NoReq           \* "no settle request"

ASSUME LedgerAssumption ==
    /\ TaskRequests \subseteq Requests
    /\ Estimates \subseteq Nat
    /\ Charges \subseteq Nat
    /\ WalletQuota \in Nat
    /\ TokenQuota \in Nat
    /\ NoReq \notin [charge : Nat, reservation : Nat, delta : Int]

VARIABLES
    wallet,     \* users.quota
    token,      \* tokens.remain_quota
    rec,        \* wallet_pre_consume_records, by request id
    row,        \* billing_adjustments, by the key "billing:" + request id
    disk,       \* spool files (log directory, else temp directory)
    memory,     \* billingAdjustmentMemory, the last resort of the spool
    stale,      \* a pending row a recovery pass has read and not yet applied
    pc,         \* where the handler of the request stands
    sess,       \* its BillingSession
    walletNet,  \* history: what the request has taken from the wallet, net
    tokenNet    \* history: what the request has taken from the token, net

funds == <<wallet, walletNet, token, tokenNet>>
spool == <<disk, memory>>
vars == <<wallet, token, rec, row, disk, memory, stale, pc, sess,
          walletNet, tokenNet>>

-----------------------------------------------------------------------------
(* Rows and requests.                                                       *)

Req == [charge : Nat, reservation : Nat, delta : Int]

RecStatus == {"none", "reserved", "trusted", "settled", "refunded"}
Lease == {"live", "expired", "detached"}

Record == [status : RecStatus, amount : Nat, collected : Nat,
           delivered : BOOLEAN, lease : Lease]

RowStatus == {"pending", "applied", "rolled_back"}

(* A key without a row is "absent".                                          *)
Adjustment == [status : RowStatus, req : Req]
              \cup [status : {"absent"}, req : {NoReq}]

(* pre: preConsumedQuota (and tokenConsumed).  want: the delta of a running  *)
(* reserve.  actual: the quota Settle was called with.  consumed: what the   *)
(* WalletFunding has debited.  written: bytes of a 2xx body went out.        *)
(* leasing: the lease refresher goroutine runs.  accepting: the handler is   *)
(* in AcceptDeliveredSettlement.  ensured: what EnsurePending answered.      *)
Session == [pre : Nat, want : Nat, actual : Nat, consumed : Nat,
            trusted : BOOLEAN, ledgerActive : BOOLEAN, written : BOOLEAN,
            leasing : BOOLEAN, accepting : BOOLEAN,
            ensured : {"ok", "terminal", "error"}]

PC == {"idle", "preToken", "preUndo", "open", "resToken", "resUndo",
       "ensure", "lookup", "apply", "persist", "persistApply", "collect",
       "settled", "deferred", "settleErr", "abandoned",
       "failing", "refundWallet", "refundUndo", "rollback", "refundRes",
       "refundErr", "closed", "crashed"}

NoRecord == [status |-> "none", amount |-> 0, collected |-> 0,
             delivered |-> FALSE, lease |-> "live"]

NoRow == [status |-> "absent", req |-> NoReq]

NewSession == [pre |-> 0, want |-> 0, actual |-> 0, consumed |-> 0,
               trusted |-> FALSE, ledgerActive |-> FALSE, written |-> FALSE,
               leasing |-> FALSE, accepting |-> FALSE, ensured |-> "ok"]

Init ==
    /\ wallet = WalletQuota
    /\ token = TokenQuota
    /\ rec = [r \in Requests |-> NoRecord]
    /\ row = [r \in Requests |-> NoRow]
    /\ disk = [r \in Requests |-> NoReq]
    /\ memory = [r \in Requests |-> NoReq]
    /\ stale = [r \in Requests |-> NoReq]
    /\ pc = [r \in Requests |-> "idle"]
    /\ sess = [r \in Requests |-> NewSession]
    /\ walletNet = [r \in Requests |-> 0]
    /\ tokenNet = [r \in Requests |-> 0]

(* Money moves only through these two; a negative amount is a credit.        *)
PayWallet(r, n) == /\ wallet' = wallet - n
                   /\ walletNet' = [walletNet EXCEPT ![r] = @ + n]

PayToken(r, n) == /\ token' = token - n
                  /\ tokenNet' = [tokenNet EXCEPT ![r] = @ + n]

Goto(r, next) == pc' = [pc EXCEPT ![r] = next]

Open(r) == rec[r].status \in {"reserved", "trusted"}

(* billingAdjustmentRequest: FundingDelta = actual - preConsumedQuota.       *)
SettleReq(r) == [charge |-> sess[r].actual, reservation |-> sess[r].pre,
                 delta |-> sess[r].actual - sess[r].pre]

(* The row RefundBillingReservation inserts carries no charge and no delta.  *)
ReservationReq(r) == [charge |-> 0, reservation |-> sess[r].pre, delta |-> 0]

-----------------------------------------------------------------------------
(* preConsume: token first, then the wallet row, each in its own            *)
(* transaction.  A failed wallet step gives the token back.                 *)

PreConsumeToken(r) ==
    /\ pc[r] = "idle"
    /\ \E q \in Estimates \ {0} :
         /\ q <= token
         /\ PayToken(r, q)
         /\ sess' = [sess EXCEPT ![r].want = q]
    /\ Goto(r, "preToken")
    /\ UNCHANGED <<wallet, walletNet, rec, row, spool, stale>>

(* reserveWalletPreConsumeTx for a request id it has not seen.               *)
PreConsumeWallet(r) ==
    /\ pc[r] = "preToken"
    /\ sess[r].want <= wallet
    /\ PayWallet(r, sess[r].want)
    /\ rec' = [rec EXCEPT ![r] = [NoRecord EXCEPT !.status = "reserved",
                                                  !.amount = sess[r].want]]
    /\ sess' = [sess EXCEPT ![r].pre = sess[r].want,
                            ![r].consumed = sess[r].want,
                            ![r].leasing = TRUE]
    /\ Goto(r, "open")
    /\ UNCHANGED <<token, tokenNet, row, spool, stale>>

(* Insufficient wallet or a failed transaction.                              *)
PreConsumeWalletFails(r) ==
    /\ pc[r] = "preToken"
    /\ Goto(r, "preUndo")
    /\ UNCHANGED <<funds, rec, row, spool, stale, sess>>

(* The compensation is best effort: its error is only logged.                *)
PreConsumeUndo(r) ==
    /\ pc[r] = "preUndo"
    /\ \E n \in {0, sess[r].want} : PayToken(r, -n)
    /\ Goto(r, "closed")
    /\ UNCHANGED <<wallet, walletNet, rec, row, spool, stale, sess>>

(* The trust bypass records the estimate and debits nothing.  shouldTrust   *)
(* reads balances loaded earlier, so either answer is possible here.        *)
PreConsumeTrusted(r) ==
    /\ pc[r] = "idle"
    /\ r \notin TaskRequests
    /\ \E q \in Estimates \ {0} :
         rec' = [rec EXCEPT ![r] = [NoRecord EXCEPT !.status = "trusted",
                                                    !.amount = q]]
    /\ sess' = [sess EXCEPT ![r].trusted = TRUE, ![r].leasing = TRUE]
    /\ Goto(r, "open")
    /\ UNCHANGED <<funds, row, spool, stale>>

(* A zero estimate opens a session, trusted or not, without a wallet row.    *)
PreConsumeNothing(r) ==
    /\ pc[r] = "idle"
    /\ 0 \in Estimates
    /\ \E t \in BOOLEAN :
         /\ t => r \notin TaskRequests
         /\ sess' = [sess EXCEPT ![r].trusted = t]
    /\ Goto(r, "open")
    /\ UNCHANGED <<funds, rec, row, spool, stale>>

-----------------------------------------------------------------------------
(* Reserve(target): top up before the send.  The trusted flag is cleared    *)
(* before anything is written.                                              *)

ReserveToken(r) ==
    /\ pc[r] = "open"
    /\ \E t \in Estimates :
         /\ t > sess[r].pre
         /\ t - sess[r].pre <= token
         /\ PayToken(r, t - sess[r].pre)
         /\ sess' = [sess EXCEPT ![r].want = t - sess[r].pre,
                                 ![r].trusted = FALSE]
    /\ Goto(r, "resToken")
    /\ UNCHANGED <<wallet, walletNet, rec, row, spool, stale>>

ReserveTokenFails(r) ==
    /\ pc[r] = "open"
    /\ \E t \in Estimates : t > sess[r].pre
    /\ sess' = [sess EXCEPT ![r].trusted = FALSE]
    /\ Goto(r, "failing")
    /\ UNCHANGED <<funds, rec, row, spool, stale>>

(* Mutant: the estimate of a trusted row is taken for a debit.               *)
ReservedRecAdds(rc, n) ==
    IF rc.status \in {"trusted", "reserved"}
    THEN [rc EXCEPT !.status = "reserved", !.amount = rc.amount + n,
                    !.lease = "live"]
    ELSE rc

(* IncreaseWalletPreConsume.  A trusted row becomes a reserve of the delta; *)
(* without a row the wallet is debited directly (TryReserveUserQuota).      *)
ReservedRec(rc, n) ==
    CASE rc.status = "trusted"  -> [rc EXCEPT !.status = "reserved",
                                              !.amount = n, !.lease = "live"]
      [] rc.status = "reserved" -> [rc EXCEPT !.amount = rc.amount + n,
                                              !.lease = "live"]
      [] OTHER -> rc

ReserveWallet(r) ==
    /\ pc[r] = "resToken"
    /\ rec[r].status \in {"none", "trusted", "reserved"}
    /\ sess[r].want <= wallet
    /\ PayWallet(r, sess[r].want)
    /\ rec' = [rec EXCEPT ![r] = ReservedRec(rec[r], sess[r].want)]
    /\ sess' = [sess EXCEPT ![r].pre = sess[r].pre + sess[r].want,
                            ![r].consumed = sess[r].consumed + sess[r].want]
    /\ Goto(r, "open")
    /\ UNCHANGED <<token, tokenNet, row, spool, stale>>

(* Insufficient wallet, a row expiry recovery has closed, or a failed write. *)
ReserveWalletFails(r) ==
    /\ pc[r] = "resToken"
    /\ Goto(r, "resUndo")
    /\ UNCHANGED <<funds, rec, row, spool, stale, sess>>

ReserveUndo(r) ==
    /\ pc[r] = "resUndo"
    /\ \E n \in {0, sess[r].want} : PayToken(r, -n)
    /\ Goto(r, "failing")
    /\ UNCHANGED <<wallet, walletNet, rec, row, spool, stale, sess>>

-----------------------------------------------------------------------------
(* Delivery.  The bytes leave first; the mark is a later write whose error  *)
(* is swallowed until the next one.  Only Relay wraps the writer.           *)

WriteResponse(r) ==
    /\ pc[r] = "open"
    /\ r \notin TaskRequests
    /\ ~sess[r].written
    /\ sess' = [sess EXCEPT ![r].written = TRUE]
    /\ UNCHANGED <<funds, rec, row, spool, stale, pc>>

MarkClientDelivered(r) ==
    /\ pc[r] = "open"
    /\ sess[r].written
    /\ Open(r)
    /\ rec' = [rec EXCEPT ![r].delivered = TRUE]
    /\ UNCHANGED <<funds, row, spool, stale, pc, sess>>

-----------------------------------------------------------------------------
(* What the ledger transactions do to the rows and how much they move.      *)

(* Mutant: the switch forgets that a rolled-back row is closed.              *)
EnsureResultReopens(rw, q) ==
    IF rw.status = "absent" \/ rw.req = q THEN "ok" ELSE "terminal"

(* lockOrCreateBillingAdjustment, same and the status switch.                *)
EnsureResult(rw, q) ==
    IF rw.status = "absent" \/ (rw.req = q /\ rw.status # "rolled_back")
    THEN "ok" ELSE "terminal"

EnsuredRow(rw, q) ==
    IF rw.status = "absent" THEN [status |-> "pending", req |-> q] ELSE rw

(* accountWalletPreConsumeTx: an open row is closed as settled.              *)
SettledRec(rc) ==
    IF rc.status \in {"reserved", "trusted"}
    THEN [rc EXCEPT !.status = "settled"] ELSE rc

(* Mutant: the settle delta is applied to a reserve that is already back.    *)
WalletChargeDeltaOnly(rc, rw, q) ==
    IF rc.status # "none" /\ rc.collected > 0 THEN q.charge - rc.collected
    ELSE q.delta

(* applyWalletFundingDelta: the full charge when expiry already returned    *)
(* the reserve, the rest when expiry already took the trusted estimate.     *)
WalletCharge(rc, rw, q) ==
    IF rc.status = "refunded" THEN
        IF rw.status = "rolled_back" THEN q.delta ELSE q.charge
    ELSE IF rc.status # "none" /\ rc.collected > 0 THEN q.charge - rc.collected
    ELSE q.delta

(* ApplyBillingAdjustment: move the money and mark the row in one commit.    *)
ApplyMoney(r, q) ==
    /\ PayWallet(r, WalletCharge(rec[r], row[r], q))
    /\ PayToken(r, q.delta)
    /\ rec' = [rec EXCEPT ![r] = SettledRec(rec[r])]
    /\ row' = [row EXCEPT ![r] = [status |-> "applied", req |-> q]]

(* Mutant: a replay of an applied row moves the money again.                 *)
ApplyAdjustmentReplays(r, q) == ApplyMoney(r, q)

(* An applied row is left alone: a replay moves nothing.                     *)
ApplyAdjustment(r, q) ==
    IF row[r].status = "applied" THEN UNCHANGED <<funds, rec, row>>
    ELSE ApplyMoney(r, q)

(* creditWalletReservationOnceTx.                                            *)
ReservationCredit(rc, q) ==
    CASE rc.status = "none"     -> q.reservation
      [] rc.status = "reserved" -> rc.amount
      [] rc.status = "trusted"  -> rc.collected
      [] rc.status = "settled"  -> IF rc.collected > 0 THEN rc.collected
                                   ELSE rc.amount
      [] OTHER -> 0

RefundedRec(rc) ==
    IF rc.status = "none" THEN rc ELSE [rc EXCEPT !.status = "refunded"]

CreditReservation(r, q) ==
    /\ PayWallet(r, -ReservationCredit(rec[r], q))
    /\ PayToken(r, -q.reservation)
    /\ rec' = [rec EXCEPT ![r] = RefundedRec(rec[r])]
    /\ row' = [row EXCEPT ![r] = [status |-> "rolled_back", req |-> q]]

(* Mutant: the token gets the reservation back instead of the charge.        *)
CreditChargeTokenReservation(r) ==
    /\ PayWallet(r, -row[r].req.charge)
    /\ PayToken(r, -row[r].req.reservation)
    /\ row' = [row EXCEPT ![r].status = "rolled_back"]
    /\ UNCHANGED rec

(* creditBillingCharge leaves the wallet row as it is.                       *)
CreditCharge(r) ==
    /\ PayWallet(r, -row[r].req.charge)
    /\ PayToken(r, -row[r].req.charge)
    /\ row' = [row EXCEPT ![r].status = "rolled_back"]
    /\ UNCHANGED rec

(* RememberUnpersistedBillingAdjustment: a file, else memory, else nothing.  *)
Remember(r, q) ==
    \/ disk' = [disk EXCEPT ![r] = q] /\ UNCHANGED memory
    \/ memory' = [memory EXCEPT ![r] = q] /\ UNCHANGED disk

Forget(r) == /\ disk' = [disk EXCEPT ![r] = NoReq]
             /\ memory' = [memory EXCEPT ![r] = NoReq]

-----------------------------------------------------------------------------
(* Settle.  stageDurableBillingAdjustment spools the request, inserts the   *)
(* pending row, looks it up and drops the spool; then the row is applied.   *)

Settle(r) ==
    /\ pc[r] = "open"
    /\ \E c \in Charges :
         LET q == [charge |-> c, reservation |-> sess[r].pre,
                   delta |-> c - sess[r].pre]
         IN /\ sess' = [sess EXCEPT ![r].actual = c,
                                    ![r].ledgerActive = TRUE]
            /\ Remember(r, q) \/ UNCHANGED spool
    /\ Goto(r, "ensure")
    /\ UNCHANGED <<funds, rec, row, stale>>

(* AcceptDeliveredSettlement, tried when a relay's Settle failed.            *)
AcceptDelivered(r) ==
    /\ pc[r] = "settleErr"
    /\ r \notin TaskRequests
    /\ sess' = [sess EXCEPT ![r].accepting = TRUE]
    /\ Remember(r, SettleReq(r)) \/ UNCHANGED spool
    /\ Goto(r, "ensure")
    /\ UNCHANGED <<funds, rec, row, stale>>

(* EnsurePendingBillingAdjustment.  The error may reach the caller after    *)
(* the row has committed.                                                   *)
EnsurePending(r) ==
    /\ pc[r] = "ensure"
    /\ \/ /\ row' = [row EXCEPT ![r] = EnsuredRow(row[r], SettleReq(r))]
          /\ \E e \in {EnsureResult(row[r], SettleReq(r)), "error"} :
               sess' = [sess EXCEPT ![r].ensured = e]
       \/ /\ sess' = [sess EXCEPT ![r].ensured = "error"]
          /\ UNCHANGED row
    /\ Goto(r, "lookup")
    /\ UNCHANGED <<funds, rec, spool, stale>>

(* Where stage's result sends the handler; read = GetBillingAdjustment       *)
(* answered.                                                                 *)
AfterLookup(r, read) ==
    IF sess[r].accepting THEN "collect"
    ELSE IF sess[r].ensured = "terminal" THEN "settleErr"
    ELSE IF sess[r].ensured = "ok" THEN (IF read THEN "apply" ELSE "persist")
    ELSE IF read /\ row[r].status = "pending" THEN "deferred"
    ELSE "persist"

Lookup(r) ==
    /\ pc[r] = "lookup"
    /\ \E read \in BOOLEAN :
         /\ Goto(r, AfterLookup(r, read))
         /\ IF read /\ row[r].status # "absent" THEN Forget(r)
            ELSE UNCHANGED spool
    /\ UNCHANGED <<funds, rec, row, stale, sess>>

(* finishIdempotentSettle stops the lease refresher.                         *)
Finish(r) == /\ sess' = [sess EXCEPT ![r].leasing = FALSE]
             /\ Goto(r, "settled")

Apply(r) ==
    /\ pc[r] = "apply"
    /\ IF EnsureResult(row[r], SettleReq(r)) = "ok"
       THEN ApplyAdjustment(r, SettleReq(r)) /\ Finish(r)
       ELSE Goto(r, "settleErr") /\ UNCHANGED <<funds, rec, row, sess>>
    /\ UNCHANGED <<spool, stale>>

(* All three attempts failed in the database.                                *)
ApplyFails(r) ==
    /\ pc[r] = "apply"
    /\ Goto(r, "persist")
    /\ UNCHANGED <<funds, rec, row, spool, stale, sess>>

(* persistRetryableBillingAdjustment, the insert.                            *)
Persist(r) ==
    /\ pc[r] = "persist"
    /\ row' = [row EXCEPT ![r] = EnsuredRow(row[r], SettleReq(r))]
    /\ Goto(r, IF EnsureResult(row[r], SettleReq(r)) = "ok"
               THEN "persistApply" ELSE "settleErr")
    /\ UNCHANGED <<funds, rec, spool, stale, sess>>

(* The insert failed and storedBillingAdjustmentResult found the row.        *)
PersistFound(r) ==
    /\ pc[r] = "persist"
    /\ row[r].status # "absent"
    /\ IF row[r].status = "applied" THEN Finish(r)
       ELSE /\ Goto(r, IF row[r].status = "pending" THEN "deferred"
                       ELSE "settleErr")
            /\ UNCHANGED sess
    /\ UNCHANGED <<funds, rec, row, spool, stale>>

(* Neither the insert nor the lookup worked: only the spool is left.         *)
PersistSpool(r) ==
    /\ pc[r] = "persist"
    /\ \/ Remember(r, SettleReq(r)) /\ Goto(r, "deferred")
       \/ UNCHANGED spool /\ Goto(r, "settleErr")
    /\ UNCHANGED <<funds, rec, row, stale, sess>>

PersistApply(r) ==
    /\ pc[r] = "persistApply"
    /\ \/ /\ EnsureResult(row[r], SettleReq(r)) = "ok"
          /\ ApplyAdjustment(r, SettleReq(r))
          /\ Finish(r)
       \/ /\ Goto(r, IF EnsureResult(row[r], SettleReq(r)) = "ok"
                     THEN "deferred" ELSE "settleErr")
          /\ UNCHANGED <<funds, rec, row, sess>>
    /\ UNCHANGED <<spool, stale>>

(* CollectDeliveredBillingCharge.  An applied row keeps its charge, a        *)
(* rolled-back row is charged this request's delta once.                     *)
Collect(r) ==
    /\ pc[r] = "collect"
    /\ \/ row[r].status = "applied" /\ UNCHANGED <<funds, rec, row>>
       \/ /\ row[r].status # "applied"
          /\ row[r].status = "pending" => row[r].req = SettleReq(r)
          /\ ApplyMoney(r, SettleReq(r))
    /\ Finish(r)
    /\ UNCHANGED <<spool, stale>>

(* The error is logged and the handler returns without a refund.             *)
CollectFails(r) ==
    /\ pc[r] = "collect"
    /\ Goto(r, "abandoned")
    /\ UNCHANGED <<funds, rec, row, spool, stale, sess>>

-----------------------------------------------------------------------------
(* Refund and Rollback.                                                      *)

(* The relay failed before settling, or panicked after a deferred or failed  *)
(* settle; a task whose row was lost refunds after a failed settle too.      *)
RequestFails(r) ==
    /\ \/ pc[r] \in {"open", "deferred", "abandoned"}
       \/ pc[r] = "settleErr" /\ r \in TaskRequests
    /\ Goto(r, "failing")
    /\ UNCHANGED <<funds, rec, row, spool, stale, sess>>

(* needsRefundLocked; tokenConsumed equals preConsumedQuota here.            *)
NeedsRefund(r) == sess[r].pre > 0 \/ sess[r].trusted

RefundNotNeeded(r) ==
    /\ pc[r] = "failing"
    /\ ~NeedsRefund(r)
    /\ Goto(r, "closed")
    /\ UNCHANGED <<funds, rec, row, spool, stale, sess>>

RefundThroughLedger(r) ==
    /\ pc[r] = "failing"
    /\ NeedsRefund(r)
    /\ sess[r].ledgerActive
    /\ Goto(r, "rollback")
    /\ UNCHANGED <<funds, rec, row, spool, stale, sess>>

(* No settle was tried: the token is credited first, on its own.             *)
RefundToken(r) ==
    /\ pc[r] = "failing"
    /\ NeedsRefund(r)
    /\ ~sess[r].ledgerActive
    /\ \/ PayToken(r, -sess[r].pre) /\ Goto(r, "refundWallet")
       \/ UNCHANGED <<token, tokenNet>> /\ Goto(r, "refundErr")
    /\ UNCHANGED <<wallet, walletNet, rec, row, spool, stale, sess>>

(* WalletFunding.Refund: refundWalletPreConsumeTx without the expiry test,   *)
(* or a plain credit of what was consumed when there is no row.              *)
RefundWallet(r) ==
    /\ pc[r] = "refundWallet"
    /\ rec[r].status # "settled"
    /\ PayWallet(r, CASE rec[r].status = "none"     -> -sess[r].consumed
                      [] rec[r].status = "reserved" -> -rec[r].amount
                      [] OTHER -> 0)
    /\ rec' = [rec EXCEPT ![r] = RefundedRec(rec[r])]
    /\ sess' = [sess EXCEPT ![r].consumed = 0, ![r].leasing = FALSE]
    /\ Goto(r, "closed")
    /\ UNCHANGED <<token, tokenNet, row, spool, stale>>

(* A settled row answers ErrWalletPreConsumeClosed; a write may fail too.    *)
RefundWalletFails(r) ==
    /\ pc[r] = "refundWallet"
    /\ Goto(r, "refundUndo")
    /\ UNCHANGED <<funds, rec, row, spool, stale, sess>>

RefundUndo(r) ==
    /\ pc[r] = "refundUndo"
    /\ \E n \in {0, sess[r].pre} : PayToken(r, n)
    /\ Goto(r, "refundErr")
    /\ UNCHANGED <<wallet, walletNet, rec, row, spool, stale, sess>>

(* BillingSession.Rollback, when the task's consumption log failed.          *)
Rollback(r) ==
    /\ pc[r] = "settled"
    /\ r \in TaskRequests
    /\ sess[r].actual > 0
    /\ Goto(r, "rollback")
    /\ UNCHANGED <<funds, rec, row, spool, stale, sess>>

(* Mutant: the session's reservation is reduced instead of cleared.          *)
CloseRefundedSubtracts(r) ==
    /\ sess' = [sess EXCEPT ![r].pre = @ - sess[r].actual,
                            ![r].leasing = FALSE]
    /\ Goto(r, "closed")

(* A successful ledger refund clears the session's reservation.              *)
CloseRefunded(r) ==
    /\ sess' = [sess EXCEPT ![r].pre = 0, ![r].leasing = FALSE]
    /\ Goto(r, "closed")

(* RollbackBillingAdjustment on a row it found.  The stored charge is this   *)
(* request's own, so the actualQuota comparison always agrees.               *)
RollBackRow(r) ==
    CASE row[r].status = "pending" -> CreditReservation(r, row[r].req)
      [] row[r].status = "applied" -> CreditCharge(r)
      [] OTHER -> UNCHANGED <<funds, rec, row>>

RollbackAdjustment(r) ==
    /\ pc[r] = "rollback"
    /\ IF row[r].status = "absent"
       THEN Goto(r, "refundRes") /\ UNCHANGED <<funds, rec, row, sess>>
       ELSE RollBackRow(r) /\ CloseRefunded(r)
    /\ UNCHANGED <<spool, stale>>

(* RefundBillingReservation, after Rollback found no row.  The row may have  *)
(* arrived from the spool in between, and even have been applied.            *)
RefundReservation(r) ==
    /\ pc[r] = "refundRes"
    /\ IF row[r].status = "applied"
       THEN Goto(r, "refundErr") /\ UNCHANGED <<funds, rec, row, sess>>
       ELSE /\ CloseRefunded(r)
            /\ CASE row[r].status = "absent"  ->
                        CreditReservation(r, ReservationReq(r))
                 [] row[r].status = "pending" ->
                        CreditReservation(r, row[r].req)
                 [] OTHER -> UNCHANGED <<funds, rec, row>>
    /\ UNCHANGED <<spool, stale>>

LedgerRefundFails(r) ==
    /\ pc[r] \in {"rollback", "refundRes"}
    /\ Goto(r, "refundErr")
    /\ UNCHANGED <<funds, rec, row, spool, stale, sess>>

-----------------------------------------------------------------------------
(* Leases, recovery and crashes.                                             *)

(* 120 s pass without a refresh: a stalled process, a database outage, or    *)
(* a dead process.                                                           *)
LeaseExpires(r) ==
    /\ Open(r)
    /\ rec[r].lease = "live"
    /\ rec' = [rec EXCEPT ![r].lease = "expired"]
    /\ UNCHANGED <<funds, row, spool, stale, pc, sess>>

RefreshLease(r) ==
    /\ sess[r].leasing
    /\ Open(r)
    /\ rec[r].lease # "live"
    /\ rec' = [rec EXCEPT ![r].lease = "live"]
    /\ UNCHANGED <<funds, row, spool, stale, pc, sess>>

(* refundWalletPreConsumeTx with requireExpired, one row of                  *)
(* RecoverExpiredWalletPreConsumes.                                          *)
Owns(r) == row[r].status \in {"pending", "applied"}

ExpiredCharge(rc) ==
    CASE rc.status = "trusted"  /\ rc.delivered  -> rc.amount
      [] rc.status = "reserved" /\ ~rc.delivered -> -rc.amount
      [] OTHER -> 0

(* Mutant: the delivery mark is not looked at.                               *)
ExpiredRecIgnoresMark(rc) == [rc EXCEPT !.status = "refunded"]

ExpiredRec(rc) ==
    [rc EXCEPT !.status = IF rc.delivered THEN "settled" ELSE "refunded",
               !.collected = IF rc.delivered /\ rc.status = "trusted"
                             THEN rc.amount ELSE rc.collected]

(* Mutant: the sweep selects reserved rows only.                             *)
RecoverExpiredReservedOnly(r) ==
    /\ rec[r].status = "reserved"
    /\ rec[r].lease = "expired"
    /\ IF Owns(r)
       THEN /\ rec' = [rec EXCEPT ![r].lease = "detached"]
            /\ UNCHANGED <<wallet, walletNet>>
       ELSE /\ PayWallet(r, ExpiredCharge(rec[r]))
            /\ rec' = [rec EXCEPT ![r] = ExpiredRec(rec[r])]
    /\ UNCHANGED <<token, tokenNet, row, spool, stale, pc, sess>>

RecoverExpired(r) ==
    /\ Open(r)
    /\ rec[r].lease = "expired"
    /\ IF Owns(r)
       THEN /\ rec' = [rec EXCEPT ![r].lease = "detached"]
            /\ UNCHANGED <<wallet, walletNet>>
       ELSE /\ PayWallet(r, ExpiredCharge(rec[r]))
            /\ rec' = [rec EXCEPT ![r] = ExpiredRec(rec[r])]
    /\ UNCHANGED <<token, tokenNet, row, spool, stale, pc, sess>>

(* Mutant: only the in-memory spool is imported.                             *)
RecoverUnpersistedMemoryOnly(r) ==
    /\ memory[r] # NoReq
    /\ EnsureResult(row[r], memory[r]) = "ok"
    /\ row' = [row EXCEPT ![r] = EnsuredRow(row[r], memory[r])]
    /\ memory' = [memory EXCEPT ![r] = NoReq]
    /\ UNCHANGED <<funds, rec, disk, stale, pc, sess>>

(* RecoverUnpersistedBillingAdjustments: a conflict keeps the spool; so does *)
(* a crash between the insert and the removal.                               *)
RecoverUnpersisted(r) ==
    /\ \E q \in {disk[r], memory[r]} \ {NoReq} :
         /\ EnsureResult(row[r], q) = "ok"
         /\ row' = [row EXCEPT ![r] = EnsuredRow(row[r], q)]
         /\ \/ disk[r] = q /\ disk' = [disk EXCEPT ![r] = NoReq]
                           /\ UNCHANGED memory
            \/ memory[r] = q /\ memory' = [memory EXCEPT ![r] = NoReq]
                             /\ UNCHANGED disk
            \/ row[r].status = "absent" /\ UNCHANGED spool
    /\ UNCHANGED <<funds, rec, stale, pc, sess>>

(* RecoverPendingBillingAdjustments reads the pending rows, then applies     *)
(* them one by one; a row may be rolled back in between.                     *)
ReadPending(r) ==
    /\ row[r].status = "pending"
    /\ stale[r] # row[r].req
    /\ stale' = [stale EXCEPT ![r] = row[r].req]
    /\ UNCHANGED <<funds, rec, row, spool, pc, sess>>

RecoverPending(r) ==
    /\ stale[r] # NoReq
    /\ IF EnsureResult(row[r], stale[r]) = "ok"
       THEN ApplyAdjustment(r, stale[r])
       ELSE UNCHANGED <<funds, rec, row>>
    /\ stale' = [stale EXCEPT ![r] = NoReq]
    /\ UNCHANGED <<spool, pc, sess>>

(* The process dies: its session, its refresher and its memory are gone.     *)
Crash(r) ==
    /\ pc[r] \notin {"idle", "crashed"}
    /\ Goto(r, "crashed")
    /\ sess' = [sess EXCEPT ![r].leasing = FALSE]
    /\ memory' = [memory EXCEPT ![r] = NoReq]
    /\ UNCHANGED <<funds, rec, row, disk, stale>>

-----------------------------------------------------------------------------
PreConsumeStep(r) ==
    \/ PreConsumeToken(r) \/ PreConsumeWallet(r) \/ PreConsumeWalletFails(r)
    \/ PreConsumeUndo(r) \/ PreConsumeTrusted(r) \/ PreConsumeNothing(r)

ReserveStep(r) ==
    \/ ReserveToken(r) \/ ReserveTokenFails(r) \/ ReserveWallet(r)
    \/ ReserveWalletFails(r) \/ ReserveUndo(r)

DeliveryStep(r) == WriteResponse(r) \/ MarkClientDelivered(r)

SettleStep(r) ==
    \/ AcceptDelivered(r) \/ EnsurePending(r) \/ Lookup(r)
    \/ Apply(r) \/ ApplyFails(r) \/ Persist(r) \/ PersistFound(r)
    \/ PersistSpool(r) \/ PersistApply(r) \/ Collect(r) \/ CollectFails(r)

RefundStep(r) ==
    \/ RefundNotNeeded(r) \/ RefundThroughLedger(r) \/ RefundToken(r)
    \/ RefundWallet(r) \/ RefundWalletFails(r) \/ RefundUndo(r)
    \/ RollbackAdjustment(r) \/ RefundReservation(r) \/ LedgerRefundFails(r)

Next ==
    \E r \in Requests :
       \/ PreConsumeStep(r) \/ ReserveStep(r) \/ DeliveryStep(r)
       \/ Settle(r) \/ SettleStep(r)
       \/ RequestFails(r) \/ Rollback(r) \/ RefundStep(r)
       \/ LeaseExpires(r) \/ RefreshLease(r) \/ RecoverExpired(r)
       \/ RecoverUnpersisted(r) \/ ReadPending(r) \/ RecoverPending(r)
       \/ Crash(r)

Spec == Init /\ [][Next]_vars

(* The recovery loop ticks on every node (a dead node is restarted on its    *)
(* disk), its transactions do not fail for ever, and time passes.  Nothing   *)
(* is assumed of the handlers: they may stall anywhere.                      *)
RecoveryFairness ==
    \A r \in Requests :
       /\ WF_vars(RecoverUnpersisted(r))
       /\ WF_vars(ReadPending(r))
       /\ WF_vars(RecoverPending(r))
       /\ WF_vars(RecoverExpired(r))
       /\ WF_vars(LeaseExpires(r))

FairSpec == Spec /\ RecoveryFairness

-----------------------------------------------------------------------------
(* Properties.                                                               *)

TypeOK ==
    /\ wallet \in Int
    /\ token \in Int
    /\ rec \in [Requests -> Record]
    /\ row \in [Requests -> Adjustment]
    /\ disk \in [Requests -> Req \cup {NoReq}]
    /\ memory \in [Requests -> Req \cup {NoReq}]
    /\ stale \in [Requests -> Req \cup {NoReq}]
    /\ pc \in [Requests -> PC]
    /\ sess \in [Requests -> Session]
    /\ walletNet \in [Requests -> Int]
    /\ tokenNet \in [Requests -> Int]

(* What the wallet row says is held for the request.  A debit without a row  *)
(* is known only to the session that made it.                                *)
Held(r) ==
    CASE rec[r].status = "none"     -> sess[r].consumed
      [] rec[r].status = "reserved" -> rec[r].amount
      [] rec[r].status = "settled"  -> IF rec[r].collected > 0
                                       THEN rec[r].collected ELSE rec[r].amount
      [] OTHER -> 0

WalletOwed(r) ==
    CASE row[r].status = "applied"     -> row[r].req.charge
      [] row[r].status = "rolled_back" -> 0
      [] OTHER -> Held(r)

(* Every unit a request has taken from the wallet is explained by its        *)
(* durable rows: exactly the charge once the ledger row is applied, nothing  *)
(* once it is rolled back, and until then what the wallet row holds - in     *)
(* whatever order settle, refund, expiry recovery, spool recovery and        *)
(* replays of them were interleaved.                                         *)
WalletMatchesLedger == \A r \in Requests : walletNet[r] = WalletOwed(r)

TokenOwed(r) ==
    CASE row[r].status = "applied"     -> row[r].req.charge
      [] row[r].status = "rolled_back" -> 0
      [] OTHER -> row[r].req.reservation

(* From the moment a ledger row exists the token agrees with it, although    *)
(* the reservation was debited outside the ledger's transaction and expiry   *)
(* recovery moves the wallet without the token.                              *)
TokenMatchesLedger ==
    \A r \in Requests :
       row[r].status # "absent" => tokenNet[r] = TokenOwed(r)

StaysRolledBack(r) ==
    row[r].status = "rolled_back" =>
       /\ row'[r] = row[r]
       /\ walletNet'[r] = walletNet[r]
       /\ tokenNet'[r] = tokenNet[r]

(* A rolled-back charge stays rolled back: neither a stale read of the       *)
(* pending row, nor a spool file left behind, nor a lease can move money     *)
(* for that request again. One path of the code charges such a row again: a  *)
(* second settle of the same request id for a delivered response             *)
(* (AcceptDeliveredSettlement, billing_session.go:241). No handler settles   *)
(* after a rollback, so no action here does.                                 *)
RolledBackIsFinal == [][\A r \in Requests : StaysRolledBack(r)]_vars

KeepsDelivered(r) ==
    (rec[r].delivered /\ Open(r) /\ pc'[r] = pc[r]) =>
       rec'[r].status # "refunded"

(* Once the delivery mark is on the reserve, only the request's own handler  *)
(* can return it; no recovery pass turns the row into a refund.              *)
RecoveryKeepsDelivered == [][\A r \in Requests : KeepsDelivered(r)]_vars

(* A settle request that reached the disk is eventually decided, even if     *)
(* the process that wrote it is dead: the recovery loop of the next process  *)
(* on that disk inserts the row and any node's loop applies it, unless the   *)
(* handler rolled the request back.                                          *)
SpooledChargeIsDecided ==
    \A r \in Requests :
       disk[r] # NoReq ~> row[r].status \in {"applied", "rolled_back"}

(* No reserve outlives its process: it ends up settled or refunded.          *)
CrashedReserveCloses ==
    \A r \in Requests : pc[r] = "crashed" ~> ~Open(r)

-----------------------------------------------------------------------------
(* The inductive invariant behind the safety properties, request by request. *)

BeforeSettle == {"idle", "preToken", "preUndo", "open", "resToken", "resUndo",
                 "refundWallet", "refundUndo"}
AfterSettle == {"ensure", "lookup", "apply", "persist", "persistApply",
                "collect", "settled", "deferred", "settleErr", "abandoned",
                "rollback", "refundRes"}

Undecided(r) == row[r].status \in {"absent", "pending"}

PhaseInv(r) ==
    /\ pc[r] \in BeforeSettle => ~sess[r].ledgerActive
    /\ pc[r] \in AfterSettle => sess[r].ledgerActive
    /\ pc[r] \in {"idle", "preToken", "preUndo"} =>
          rec[r] = NoRecord /\ sess[r].pre = 0 /\ sess[r].consumed = 0
    /\ row[r].status = "rolled_back" => pc[r] \in {"closed", "crashed"}

(* Every copy of the settle request, in the pending row, the spool or a      *)
(* recovery pass, is the session's own.                                      *)
CopiesInv(r) ==
    /\ Undecided(r) =>
          {row[r].req, disk[r], memory[r], stale[r]} \subseteq
              (IF sess[r].ledgerActive THEN {NoReq, SettleReq(r)} ELSE {NoReq})
    /\ ~sess[r].ledgerActive => row[r].status = "absent"

(* What the wallet row holds is what the session will settle against.        *)
Reservation(r) ==
    CASE rec[r].status = "none"     -> sess[r].consumed
      [] rec[r].status = "reserved" -> rec[r].amount
      [] rec[r].status = "trusted"  -> 0
      [] rec[r].status = "settled" /\ rec[r].collected = 0 -> rec[r].amount
      [] OTHER -> sess[r].pre

RecordInv(r) ==
    /\ rec[r].status \in {"none", "reserved", "trusted"} =>
          rec[r].collected = 0
    /\ Undecided(r) \/ ~Open(r)
    /\ (/\ Undecided(r)
        /\ sess[r].ledgerActive \/ pc[r] \notin {"closed", "crashed"}) =>
          sess[r].pre = Reservation(r)

TokenInv(r) ==
    /\ pc[r] = "idle" => tokenNet[r] = 0
    /\ pc[r] = "preToken" => tokenNet[r] = sess[r].want
    /\ pc[r] = "open" => tokenNet[r] = sess[r].pre
    /\ pc[r] = "resToken" => tokenNet[r] = sess[r].pre + sess[r].want
    /\ sess[r].ledgerActive /\ Undecided(r) => tokenNet[r] = sess[r].pre
    /\ row[r].status # "absent" => tokenNet[r] = TokenOwed(r)

(* The session, its wallet row, its ledger row and every spooled or read     *)
(* copy of its settle request agree on one reservation until the row is      *)
(* decided; a decided row has closed the wallet row and, when rolled back,   *)
(* its handler has ended.                                                    *)
LedgerInv ==
    \A r \in Requests :
       PhaseInv(r) /\ CopiesInv(r) /\ RecordInv(r) /\ TokenInv(r)

-----------------------------------------------------------------------------
(* The contract's view of a request.                                         *)
Verdict(r) ==
    CASE row[r].status = "applied"     -> "charged"
      [] row[r].status = "rolled_back" -> "returned"
      [] OTHER -> IF rec[r].status \in {"settled", "refunded"} THEN "lapsed"
                  ELSE "open"

Contract == INSTANCE BillingContract WITH
    verdict <- [r \in Requests |-> Verdict(r)],
    bill    <- [r \in Requests |-> IF row[r].status = "applied"
                                   THEN row[r].req.charge ELSE 0],
    paid    <- walletNet,
    spent   <- tokenNet

(* The ledger implements the contract: one bill, both purses in one step,    *)
(* no charge after a return, no second charge.                               *)
LedgerImplementsContract == Contract!Spec

(* billing_session.go:742 says that a failed request must close the          *)
(* obligation the trust bypass left on its request id.                       *)
FailedRequestClosesReserve ==
    \A r \in Requests : pc[r] = "closed" => ~Open(r)

(* relay_client_delivered.go:11 says that a crash before settlement cannot   *)
(* refund a wallet reserve the client already received.                      *)
CrashKeepsReceivedReserve ==
    \A r \in Requests :
       (/\ pc[r] = "crashed"
        /\ sess[r].written
        /\ sess[r].consumed > 0     \* its handler had not refunded it
        /\ row[r].status = "absent") => rec[r].status # "refunded"
=============================================================================
