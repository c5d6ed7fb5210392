---------------------- MODULE BillingLedgerRefinement ----------------------
(***************************************************************************)
(* BillingLedger implements BillingContract.                               *)
(*                                                                         *)
(* The invariant fixes the purses of a decided request, before and after   *)
(* the step, so most of the argument is about which verdicts a step may    *)
(* change: a decided row never becomes undecided, an applied row keeps its *)
(* charge, and while the row is undecided a closed wallet row stays closed *)
(* and its amount stays put.                                               *)
(***************************************************************************)
EXTENDS BillingLedgerProofs

Closed(rc) == rc.status \in {"settled", "refunded"}

(* A step of r never reopens a decided row, and never edits an applied one.  *)
LEMMA DecidedStays ==
    ASSUME TypeOK, NEW r \in Requests, RequestStep(r),
           row[r].status = "applied"
    PROVE  row'[r] = row[r] \/ row'[r].status = "rolled_back"
  <1>. USE DEF TypeOK
  <1>1. CASE PreConsumeStep(r)
    BY <1>1 DEF PreConsumeStep, PreConsumeToken, PreConsumeWallet,
                PreConsumeWalletFails, PreConsumeUndo, PreConsumeTrusted,
                PreConsumeNothing
  <1>2. CASE ReserveStep(r) \/ DeliveryStep(r) \/ Settle(r)
    BY <1>2 DEF ReserveStep, ReserveToken, ReserveTokenFails, ReserveWallet,
                ReserveWalletFails, ReserveUndo, DeliveryStep, WriteResponse,
                MarkClientDelivered, Settle
  <1>3. CASE SettleStep(r)
    <2>1. CASE \/ AcceptDelivered(r) \/ Lookup(r) \/ ApplyFails(r)
               \/ PersistFound(r) \/ PersistSpool(r) \/ CollectFails(r)
      BY <2>1 DEF AcceptDelivered, Lookup, ApplyFails, PersistFound,
                  PersistSpool, CollectFails
    <2>2. CASE EnsurePending(r) \/ Persist(r)
      BY <2>2 DEF EnsurePending, Persist, EnsuredRow
    <2>3. CASE Apply(r) \/ PersistApply(r) \/ Collect(r)
      BY <2>3 DEF Apply, PersistApply, Collect, ApplyAdjustment
    <2>. QED  BY <1>3, <2>1, <2>2, <2>3 DEF SettleStep
  <1>4. CASE RequestFails(r) \/ Rollback(r) \/ RefundStep(r)
    <2>1. CASE RollbackAdjustment(r) \/ RefundReservation(r)
      <3>1. \/ row' = row
            \/ CreditCharge(r)
            \/ \E q : CreditReservation(r, q)
        BY <2>1 DEF RollbackAdjustment, RefundReservation, RollBackRow
      <3>2. row[r] \in Adjustment
        OBVIOUS
      <3>. QED  BY <3>1, <3>2 DEF CreditCharge, CreditReservation, Adjustment
    <2>2. CASE ~(RollbackAdjustment(r) \/ RefundReservation(r))
      BY <1>4, <2>2 DEF RequestFails, Rollback, RefundStep, RefundNotNeeded,
                        RefundThroughLedger, RefundToken, RefundWallet,
                        RefundWalletFails, RefundUndo, LedgerRefundFails
    <2>. QED  BY <2>1, <2>2
  <1>5. CASE BackgroundStep(r)
    BY <1>5 DEF BackgroundStep, LeaseExpires, RefreshLease, RecoverExpired,
                RecoverUnpersisted, EnsuredRow, ReadPending, RecoverPending,
                ApplyAdjustment, Crash
  <1>. QED  BY <1>1, <1>2, <1>3, <1>4, <1>5 DEF RequestStep

(* A closed wallet row stays closed and keeps its amount; the step that      *)
(* closes it does not move the token.                                        *)
UndecidedStep(r) ==
    /\ Closed(rec[r]) => Closed(rec'[r]) /\ walletNet'[r] = walletNet[r]
    /\ ~Closed(rec[r]) /\ Closed(rec'[r]) => tokenNet'[r] = tokenNet[r]

(* That is all a step of r does to the purses if it leaves the row           *)
(* undecided.                                                                *)
LEMMA UndecidedKeeps ==
    ASSUME TypeOK, NEW r \in Requests, RequestInv(r), RequestStep(r),
           row'[r].status \in {"absent", "pending"}
    PROVE  UndecidedStep(r)
  <1>f. /\ rec \in [Requests -> Record] /\ rec[r] \in Record
        /\ row[r] \in Adjustment
        /\ walletNet \in [Requests -> Int] /\ walletNet[r] \in Int
    BY FieldTypes DEF TypeOK
  <1>1. CASE PreConsumeStep(r)
    <2>1. rec[r].status = "none"
      <3>1. pc[r] \in {"idle", "preToken", "preUndo"}
        BY <1>1 DEF PreConsumeStep, PreConsumeToken, PreConsumeWallet,
                    PreConsumeWalletFails, PreConsumeUndo, PreConsumeTrusted,
                    PreConsumeNothing
      <3>. QED  BY <3>1 DEF RequestInv, PhaseInv, NoRecord
    <2>2. \/ rec' = rec
          \/ \E st \in {"reserved", "trusted"}, n \in Nat :
                rec' = [rec EXCEPT ![r] = [NoRecord EXCEPT !.status = st,
                                                           !.amount = n]]
      BY <1>1, FieldTypes, LedgerAssumption
      DEF PreConsumeStep, PreConsumeToken, PreConsumeWallet,
          PreConsumeWalletFails, PreConsumeUndo, PreConsumeTrusted,
          PreConsumeNothing
    <2>3. rec'[r].status \in {"none", "reserved", "trusted"}
      BY <1>f, <2>1, <2>2 DEF NoRecord
    <2>. QED  BY <2>1, <2>3 DEF UndecidedStep, Closed
  <1>2. CASE ReserveStep(r)
    BY <1>2, <1>f
    DEF ReserveStep, ReserveToken, ReserveTokenFails, ReserveWallet,
        ReserveWalletFails, ReserveUndo, ReservedRec, UndecidedStep, Closed,
        Record, funds
  <1>3. CASE DeliveryStep(r) \/ Settle(r)
    BY <1>3, <1>f
    DEF DeliveryStep, WriteResponse, MarkClientDelivered, Settle, Open,
        UndecidedStep, Closed, Record, funds
  <1>4. CASE SettleStep(r)
    <2>1. \/ UNCHANGED <<funds, rec>>
          \/ \E q : ApplyMoney(r, q)
      BY <1>4 DEF SettleStep, AcceptDelivered, EnsurePending, Lookup, Apply,
                  ApplyFails, Persist, PersistFound, PersistSpool,
                  PersistApply, Collect, CollectFails, ApplyAdjustment
    <2>2. ~\E q : ApplyMoney(r, q)
      BY DEF ApplyMoney, TypeOK
    <2>. QED  BY <2>1, <2>2 DEF UndecidedStep, funds
  <1>5. CASE RequestFails(r) \/ Rollback(r) \/ RefundStep(r)
    <2>1. CASE RollbackAdjustment(r) \/ RefundReservation(r)
      <3>1. \/ UNCHANGED <<funds, rec>>
            \/ CreditCharge(r)
            \/ \E q : CreditReservation(r, q)
        BY <2>1 DEF RollbackAdjustment, RefundReservation, RollBackRow
      <3>2. ~(CreditCharge(r) \/ \E q : CreditReservation(r, q))
        BY <1>f DEF CreditCharge, CreditReservation, TypeOK, Adjustment
      <3>. QED  BY <3>1, <3>2 DEF UndecidedStep, funds
    <2>2. CASE RefundWallet(r)
      BY <2>2, <1>f DEF RefundWallet, RefundedRec, PayWallet, UndecidedStep,
                        Closed, Record
    <2>3. CASE RefundToken(r) \/ RefundUndo(r)
      BY <2>3 DEF RefundToken, RefundUndo, UndecidedStep
    <2>4. CASE \/ RequestFails(r) \/ Rollback(r) \/ RefundNotNeeded(r)
               \/ RefundThroughLedger(r) \/ RefundWalletFails(r)
               \/ LedgerRefundFails(r)
      BY <2>4 DEF RequestFails, Rollback, RefundNotNeeded,
                  RefundThroughLedger, RefundWalletFails, LedgerRefundFails,
                  UndecidedStep, funds
    <2>. QED  BY <1>5, <2>1, <2>2, <2>3, <2>4 DEF RefundStep
  <1>6. CASE BackgroundStep(r)
    <2>1. CASE LeaseExpires(r) \/ RefreshLease(r) \/ RecoverExpired(r)
      BY <2>1, <1>f DEF LeaseExpires, RefreshLease, RecoverExpired, Open,
                        UndecidedStep, Closed, funds
    <2>2. CASE RecoverUnpersisted(r) \/ ReadPending(r) \/ Crash(r)
      BY <2>2 DEF RecoverUnpersisted, ReadPending, Crash, UndecidedStep, funds
    <2>3. CASE RecoverPending(r)
      <3>1. UNCHANGED <<funds, rec>> \/ ApplyMoney(r, stale[r])
        BY <2>3 DEF RecoverPending, ApplyAdjustment
      <3>2. ~ApplyMoney(r, stale[r])
        BY DEF ApplyMoney, TypeOK
      <3>. QED  BY <3>1, <3>2 DEF UndecidedStep, funds
    <2>. QED  BY <1>6, <2>1, <2>2, <2>3 DEF BackgroundStep
  <1>. QED  BY <1>1, <1>2, <1>3, <1>4, <1>5, <1>6 DEF RequestStep
-----------------------------------------------------------------------------
(* The step of r, seen through the mapping.                                  *)

Bill(r) == IF row[r].status = "applied" THEN row[r].req.charge ELSE 0

ContractStep(r) ==
    \/ /\ Verdict(r)' = Verdict(r) /\ Bill(r)' = Bill(r)
       /\ \/ Verdict(r) = "open"
          \/ Verdict(r) = "lapsed" /\ walletNet'[r] = walletNet[r]
          \/ walletNet'[r] = walletNet[r] /\ tokenNet'[r] = tokenNet[r]
    \/ /\ Verdict(r) = "open" /\ Verdict(r)' = "lapsed"
       /\ Bill(r)' = 0 /\ tokenNet'[r] = tokenNet[r]
    \/ /\ Verdict(r) \in {"open", "lapsed"} /\ Verdict(r)' = "charged"
       /\ walletNet'[r] = Bill(r)' /\ tokenNet'[r] = Bill(r)'
    \/ /\ Verdict(r) # "returned" /\ Verdict(r)' = "returned"
       /\ Bill(r)' = 0 /\ walletNet'[r] = 0 /\ tokenNet'[r] = 0

(* Every step of a request is allowed by its contract.                       *)
LEMMA RequestContract ==
    ASSUME TypeOK, TypeOK', NEW r \in Requests, RequestInv(r), RequestInv(r)',
           RequestStep(r), StaysRolledBack(r)
    PROVE  ContractStep(r)
  <1>f. /\ row[r].status \in {"absent", "pending", "applied", "rolled_back"}
        /\ row'[r].status \in {"absent", "pending", "applied", "rolled_back"}
    BY DEF TypeOK, Adjustment, RowStatus
  <1>1. /\ row'[r].status = "applied" =>
              /\ walletNet'[r] = row'[r].req.charge
              /\ tokenNet'[r] = row'[r].req.charge
        /\ row'[r].status = "rolled_back" =>
              walletNet'[r] = 0 /\ tokenNet'[r] = 0
    BY DEF RequestInv, WalletInv, WalletOwed, TokenInv, TokenOwed
  <1>2. row[r].status = "applied" =>
           /\ walletNet[r] = row[r].req.charge
           /\ tokenNet[r] = row[r].req.charge
    BY DEF RequestInv, WalletInv, WalletOwed, TokenInv, TokenOwed
  <1>3. CASE row[r].status = "rolled_back"
    BY <1>3 DEF StaysRolledBack, ContractStep, Verdict, Bill
  <1>4. CASE row[r].status = "applied"
    BY <1>1, <1>2, <1>4, DecidedStays DEF ContractStep, Verdict, Bill
  <1>5. CASE row[r].status \in {"absent", "pending"}
    <2>1. CASE row'[r].status \in {"applied", "rolled_back"}
      BY <1>1, <1>5, <2>1 DEF ContractStep, Verdict, Bill
    <2>2. CASE row'[r].status \in {"absent", "pending"}
      <3>1. UndecidedStep(r)
        BY <2>2, UndecidedKeeps
      <3>. QED  BY <1>5, <2>2, <3>1
                DEF UndecidedStep, Closed, ContractStep, Verdict, Bill
    <2>. QED  BY <1>f, <2>1, <2>2
  <1>. QED  BY <1>f, <1>3, <1>4, <1>5

(* The initial state maps to the contract's.                                 *)
LEMMA ContractInit == Init => Contract!Init
  BY DEF Init, Contract!Init, Verdict, NoRow, NoRecord

(* A step of r whose image is allowed for r is a step of the contract.       *)
LEMMA ContractNext ==
    ASSUME TypeOK, TypeOK', NEW r \in Requests, Frame(r), ContractStep(r)
    PROVE  [Contract!Next]_(Contract!contract)
  <1>. DEFINE verd == [s \in Requests |-> Verdict(s)]
              bll  == [s \in Requests |-> Bill(s)]
  <1>1. \A s \in Requests \ {r} :
           Verdict(s)' = Verdict(s) /\ Bill(s)' = Bill(s)
    BY DEF Frame, Verdict, Bill
  <1>2. /\ verd' = [verd EXCEPT ![r] = Verdict(r)']
        /\ bll' = [bll EXCEPT ![r] = Bill(r)']
    BY <1>1
  <1>3. /\ walletNet' \in [Requests -> Int] /\ tokenNet' \in [Requests -> Int]
        /\ \A s \in Requests \ {r} :
              walletNet'[s] = walletNet[s] /\ tokenNet'[s] = tokenNet[s]
    BY DEF TypeOK, Frame
  <1>4. Contract!OnlyFor(r)
    BY <1>3 DEF Contract!OnlyFor
  <1>5. CASE Verdict(r)' = Verdict(r) /\ Bill(r)' = Bill(r)
    <2>1. verd' = verd /\ bll' = bll
      BY <1>2, <1>5
    <2>2. CASE Verdict(r) = "open"
      <3>1. Contract!Hold(r)
        BY <1>4, <2>1, <2>2 DEF Contract!Hold, Bill
      <3>. QED  BY <3>1 DEF Contract!Next
    <2>3. CASE Verdict(r) = "lapsed" /\ walletNet'[r] = walletNet[r]
      <3>1. Contract!Amend(r)
        BY <1>4, <2>1, <2>3 DEF Contract!Amend, Bill
      <3>. QED  BY <3>1 DEF Contract!Next
    <2>4. CASE walletNet'[r] = walletNet[r] /\ tokenNet'[r] = tokenNet[r]
      <3>1. walletNet' = walletNet /\ tokenNet' = tokenNet
        BY <1>3, <2>4 DEF TypeOK
      <3>. QED  BY <2>1, <3>1 DEF Contract!contract, Bill
    <2>. QED  BY <1>5, <2>2, <2>3, <2>4 DEF ContractStep
  <1>6. CASE /\ Verdict(r) = "open" /\ Verdict(r)' = "lapsed"
             /\ Bill(r)' = 0 /\ tokenNet'[r] = tokenNet[r]
    <2>1. Contract!Lapse(r)
      BY <1>2, <1>4, <1>6 DEF Contract!Lapse, Contract!Decide, Bill
    <2>. QED  BY <2>1 DEF Contract!Next
  <1>7. CASE /\ Verdict(r) \in {"open", "lapsed"} /\ Verdict(r)' = "charged"
             /\ walletNet'[r] = Bill(r)' /\ tokenNet'[r] = Bill(r)'
    <2>1. Contract!Charge(r, bll'[r])
      BY <1>2, <1>4, <1>7 DEF Contract!Charge, Contract!Decide, Bill
    <2>. QED  BY <2>1 DEF Contract!Next, Bill
  <1>8. CASE /\ Verdict(r) # "returned" /\ Verdict(r)' = "returned"
             /\ Bill(r)' = 0 /\ walletNet'[r] = 0 /\ tokenNet'[r] = 0
    <2>1. Contract!Return(r)
      BY <1>2, <1>4, <1>8 DEF Contract!Return, Contract!Decide, Bill
    <2>. QED  BY <2>1 DEF Contract!Next
  <1>. QED  BY <1>5, <1>6, <1>7, <1>8 DEF ContractStep

(* The ledger implements the billing contract, for any number of concurrent  *)
(* requests: each gets at most one bill, both purses pay it in one step, a   *)
(* returned request is never charged again, and no step of one request       *)
(* moves the purses of another.                                              *)
THEOREM LedgerRefinesContract == Spec => LedgerImplementsContract
  <1>1. ASSUME Inv, Inv', [Next]_vars,
               [\A r \in Requests : StaysRolledBack(r)]_vars
        PROVE  [Contract!Next]_(Contract!contract)
    <2>1. CASE Next
      <3>1. PICK r \in Requests : RequestStep(r)
        BY <2>1, NextIsRequestStep
      <3>2. StaysRolledBack(r)
        BY <1>1 DEF vars, StaysRolledBack
      <3>. QED  BY <1>1, <3>1, <3>2, FrameHolds, RequestContract, ContractNext
                DEF Inv
    <2>2. CASE UNCHANGED vars
      BY <2>2 DEF vars, Contract!contract, Verdict
    <2>. QED  BY <1>1, <2>1, <2>2
  <1>. QED  BY <1>1, InvHolds, RolledBackFinal, ContractInit, PTL
            DEF Spec, RolledBackIsFinal, LedgerImplementsContract,
                Contract!Spec
=============================================================================
