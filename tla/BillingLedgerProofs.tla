------------------------ MODULE BillingLedgerProofs ------------------------
(***************************************************************************)
(* Type correctness of BillingLedger, its inductive invariant and what     *)
(* follows from it, for every set of requests.                             *)
(*                                                                         *)
(* A step belongs to one request: it leaves every part of the state that   *)
(* another request's invariant reads alone (Frame).  So it is enough to    *)
(* show that each action of r keeps RequestInv(r).  The heart of it is     *)
(* that the money transactions of the ledger land on the right amount      *)
(* whatever the recovery passes have done to the wallet row before:        *)
(* ApplyMoneyEffect and CreditReservationEffect.                           *)
(***************************************************************************)
EXTENDS BillingLedger, TLAPS

-----------------------------------------------------------------------------
(* Types of the state's parts and of the operators on rows.                  *)

(* What TypeOK says at one request.                                          *)
LEMMA FieldTypes ==
    ASSUME TypeOK, NEW r \in Requests
    PROVE  /\ sess[r] \in Session /\ rec[r] \in Record /\ row[r] \in Adjustment
           /\ sess[r].pre \in Nat /\ sess[r].want \in Nat
           /\ sess[r].actual \in Nat /\ sess[r].consumed \in Nat
           /\ rec[r].amount \in Nat /\ rec[r].collected \in Nat
  BY DEF TypeOK, Session, Record

(* A move of the handler.                                                    *)
LEMMA GotoType ==
    ASSUME TypeOK, NEW r \in Requests, NEW next \in PC, Goto(r, next)
    PROVE  pc' \in [Requests -> PC]
  BY DEF TypeOK, Goto

(* A payment from the wallet, or a credit to it.                             *)
LEMMA PayWalletType ==
    ASSUME TypeOK, NEW r \in Requests, NEW n \in Int, PayWallet(r, n)
    PROVE  wallet' \in Int /\ walletNet' \in [Requests -> Int]
  BY DEF TypeOK, PayWallet

(* The same for the token.                                                   *)
LEMMA PayTokenType ==
    ASSUME TypeOK, NEW r \in Requests, NEW n \in Int, PayToken(r, n)
    PROVE  token' \in Int /\ tokenNet' \in [Requests -> Int]
  BY DEF TypeOK, PayToken

(* Both requests a session can build are settle requests.                    *)
LEMMA RequestTypes ==
    ASSUME TypeOK, NEW r \in Requests
    PROVE  SettleReq(r) \in Req /\ ReservationReq(r) \in Req
  BY FieldTypes DEF SettleReq, ReservationReq, Req

(* An empty spool slot is not a settle request.                              *)
LEMMA NoReqType == NoReq \notin Req
  BY LedgerAssumption DEF Req

(* The ledger rows the transactions write.                                   *)
LEMMA RowTypes ==
    ASSUME NEW rw \in Adjustment, NEW q \in Req
    PROVE  /\ EnsuredRow(rw, q) \in Adjustment
           /\ [status |-> "applied", req |-> q] \in Adjustment
           /\ [status |-> "rolled_back", req |-> q] \in Adjustment
           /\ rw.status # "absent" =>
                 /\ rw.req \in Req
                 /\ [rw EXCEPT !.status = "rolled_back"] \in Adjustment
  BY DEF EnsuredRow, Adjustment, RowStatus

(* IncreaseWalletPreConsume writes a wallet row.                             *)
LEMMA ReservedRecType ==
    ASSUME NEW rc \in Record, NEW n \in Nat
    PROVE  ReservedRec(rc, n) \in Record
  <1>0. rc.amount + n \in Nat
    BY DEF Record
  <1>1. CASE rc.status = "trusted"
    BY <1>1 DEF ReservedRec, Record, RecStatus, Lease
  <1>2. CASE rc.status = "reserved"
    BY <1>0, <1>2 DEF ReservedRec, Record, RecStatus, Lease
  <1>3. CASE rc.status \notin {"trusted", "reserved"}
    BY <1>3 DEF ReservedRec
  <1>. QED  BY <1>1, <1>2, <1>3

(* So do settle, refund and expiry.                                          *)
LEMMA RecTypes ==
    ASSUME NEW rc \in Record
    PROVE  /\ SettledRec(rc) \in Record
           /\ RefundedRec(rc) \in Record
           /\ ExpiredRec(rc) \in Record
  <1>1. SettledRec(rc) \in Record
    BY DEF SettledRec, Record, RecStatus
  <1>2. RefundedRec(rc) \in Record
    BY DEF RefundedRec, Record, RecStatus
  <1>3. ExpiredRec(rc) \in Record
    BY DEF ExpiredRec, Record, RecStatus
  <1>. QED  BY <1>1, <1>2, <1>3

(* The amounts the transactions move are integers.                           *)
LEMMA AmountTypes ==
    ASSUME NEW rc \in Record, NEW rw \in Adjustment, NEW q \in Req
    PROVE  /\ WalletCharge(rc, rw, q) \in Int /\ q.delta \in Int
           /\ -ReservationCredit(rc, q) \in Int /\ -q.reservation \in Int
           /\ ExpiredCharge(rc) \in Int /\ -q.charge \in Int
  BY DEF WalletCharge, ReservationCredit, ExpiredCharge, Record, Req

(* What the ledger transactions write.                                       *)
LedgerTypes ==
    /\ wallet \in Int /\ walletNet \in [Requests -> Int]
    /\ token \in Int /\ tokenNet \in [Requests -> Int]
    /\ rec \in [Requests -> Record]
    /\ row \in [Requests -> Adjustment]

(* ApplyBillingAdjustment on an open row.                                    *)
LEMMA ApplyMoneyType ==
    ASSUME TypeOK, NEW r \in Requests, NEW q \in Req, ApplyMoney(r, q)
    PROVE  LedgerTypes'
  <1>1. rec[r] \in Record /\ row[r] \in Adjustment
    BY FieldTypes
  <1>2. wallet' \in Int /\ walletNet' \in [Requests -> Int]
    BY <1>1, AmountTypes, PayWalletType DEF ApplyMoney
  <1>3. token' \in Int /\ tokenNet' \in [Requests -> Int]
    BY <1>1, AmountTypes, PayTokenType DEF ApplyMoney
  <1>4. rec' \in [Requests -> Record]
    BY <1>1, RecTypes DEF ApplyMoney, TypeOK
  <1>5. row' \in [Requests -> Adjustment]
    BY <1>1, RowTypes DEF ApplyMoney, TypeOK
  <1>. QED  BY <1>2, <1>3, <1>4, <1>5 DEF LedgerTypes

(* ApplyBillingAdjustment in general.                                        *)
LEMMA ApplyAdjustmentType ==
    ASSUME TypeOK, NEW r \in Requests, NEW q \in Req, ApplyAdjustment(r, q)
    PROVE  LedgerTypes'
  BY ApplyMoneyType DEF ApplyAdjustment, LedgerTypes, TypeOK, funds

(* creditBillingReservation.                                                 *)
LEMMA CreditReservationType ==
    ASSUME TypeOK, NEW r \in Requests, NEW q \in Req, CreditReservation(r, q)
    PROVE  LedgerTypes'
  <1>1. rec[r] \in Record /\ row[r] \in Adjustment
    BY FieldTypes
  <1>2. wallet' \in Int /\ walletNet' \in [Requests -> Int]
    BY <1>1, AmountTypes, PayWalletType DEF CreditReservation
  <1>3. token' \in Int /\ tokenNet' \in [Requests -> Int]
    BY <1>1, AmountTypes, PayTokenType DEF CreditReservation
  <1>4. rec' \in [Requests -> Record]
    BY <1>1, RecTypes DEF CreditReservation, TypeOK
  <1>5. row' \in [Requests -> Adjustment]
    BY <1>1, RowTypes DEF CreditReservation, TypeOK
  <1>. QED  BY <1>2, <1>3, <1>4, <1>5 DEF LedgerTypes

(* creditBillingCharge needs a row that carries a request.                   *)
LEMMA CreditChargeType ==
    ASSUME TypeOK, NEW r \in Requests, row[r].status # "absent",
           CreditCharge(r)
    PROVE  LedgerTypes'
  <1>1. rec[r] \in Record /\ row[r] \in Adjustment /\ row[r].req \in Req
    BY FieldTypes, RowTypes DEF Adjustment
  <1>2. wallet' \in Int /\ walletNet' \in [Requests -> Int]
    BY <1>1, AmountTypes, PayWalletType DEF CreditCharge
  <1>3. token' \in Int /\ tokenNet' \in [Requests -> Int]
    BY <1>1, AmountTypes, PayTokenType DEF CreditCharge
  <1>4. row' \in [Requests -> Adjustment]
    BY <1>1, RowTypes DEF CreditCharge, TypeOK
  <1>. QED  BY <1>2, <1>3, <1>4 DEF LedgerTypes, TypeOK, CreditCharge

-----------------------------------------------------------------------------
(* Every action keeps the types.                                             *)

(* preConsume and its compensation.                                          *)
LEMMA PreConsumeType ==
    ASSUME TypeOK, NEW r \in Requests, PreConsumeStep(r)
    PROVE  TypeOK'
  <1>. USE DEF spool, funds
  <1>f. /\ sess \in [Requests -> Session] /\ rec \in [Requests -> Record]
        /\ sess[r] \in Session /\ sess[r].want \in Nat /\ -sess[r].want \in Int
    BY FieldTypes DEF TypeOK
  <1>1. CASE PreConsumeToken(r)
    <2>1. PICK q \in Nat : /\ sess' = [sess EXCEPT ![r].want = q]
                           /\ PayToken(r, q)
      BY <1>1, LedgerAssumption DEF PreConsumeToken
    <2>2. sess' \in [Requests -> Session]
      BY <1>f, <2>1 DEF Session
    <2>3. token' \in Int /\ tokenNet' \in [Requests -> Int]
      BY <2>1, PayTokenType
    <2>4. pc' \in [Requests -> PC]
      BY <1>1, GotoType DEF PreConsumeToken, PC
    <2>. QED  BY <1>1, <2>2, <2>3, <2>4 DEF TypeOK, PreConsumeToken
  <1>2. CASE PreConsumeWallet(r)
    <2>1. [sess[r] EXCEPT !.pre = sess[r].want, !.consumed = sess[r].want,
                          !.leasing = TRUE] \in Session
      BY <1>f DEF Session
    <2>2. sess' \in [Requests -> Session]
      BY <1>2, <1>f, <2>1 DEF PreConsumeWallet
    <2>3. rec' \in [Requests -> Record]
      BY <1>2, <1>f DEF PreConsumeWallet, NoRecord, Record, RecStatus, Lease
    <2>4. wallet' \in Int /\ walletNet' \in [Requests -> Int]
      BY <1>2, <1>f, PayWalletType DEF PreConsumeWallet
    <2>5. pc' \in [Requests -> PC]
      BY <1>2, GotoType DEF PreConsumeWallet, PC
    <2>. QED  BY <1>2, <2>2, <2>3, <2>4, <2>5 DEF TypeOK, PreConsumeWallet
  <1>3. CASE PreConsumeWalletFails(r)
    BY <1>3 DEF TypeOK, PreConsumeWalletFails, Goto, PC
  <1>4. CASE PreConsumeUndo(r)
    <2>1. token' \in Int /\ tokenNet' \in [Requests -> Int]
      BY <1>4, <1>f, PayTokenType DEF PreConsumeUndo
    <2>2. pc' \in [Requests -> PC]
      BY <1>4, GotoType DEF PreConsumeUndo, PC
    <2>. QED  BY <1>4, <2>1, <2>2 DEF TypeOK, PreConsumeUndo
  <1>5. CASE PreConsumeTrusted(r)
    <2>1. PICK q \in Nat :
             rec' = [rec EXCEPT ![r] = [NoRecord EXCEPT !.status = "trusted",
                                                        !.amount = q]]
      BY <1>5, LedgerAssumption DEF PreConsumeTrusted
    <2>2. rec' \in [Requests -> Record]
      BY <1>f, <2>1 DEF NoRecord, Record, RecStatus, Lease
    <2>3. [sess[r] EXCEPT !.trusted = TRUE, !.leasing = TRUE] \in Session
      BY <1>f DEF Session
    <2>4. sess' \in [Requests -> Session]
      BY <1>5, <1>f, <2>3 DEF PreConsumeTrusted
    <2>. QED  BY <1>5, <2>2, <2>4 DEF TypeOK, PreConsumeTrusted, Goto, PC
  <1>6. CASE PreConsumeNothing(r)
    <2>1. sess' \in [Requests -> Session]
      BY <1>6, <1>f DEF PreConsumeNothing, Session
    <2>. QED  BY <1>6, <2>1 DEF TypeOK, PreConsumeNothing, Goto, PC
  <1>. QED  BY <1>1, <1>2, <1>3, <1>4, <1>5, <1>6 DEF PreConsumeStep

(* Reserve; the top-up it asks for is positive.                              *)
LEMMA ReserveType ==
    ASSUME TypeOK, NEW r \in Requests, ReserveStep(r)
    PROVE  TypeOK'
  <1>. USE DEF spool, funds
  <1>f. /\ sess \in [Requests -> Session] /\ rec \in [Requests -> Record]
        /\ sess[r] \in Session /\ rec[r] \in Record
        /\ sess[r].want \in Nat /\ -sess[r].want \in Int
        /\ sess[r].pre \in Nat
        /\ sess[r].pre + sess[r].want \in Nat
        /\ sess[r].consumed + sess[r].want \in Nat
    BY FieldTypes DEF TypeOK
  <1>1. CASE ReserveToken(r)
    <2>1. PICK n \in Nat : /\ sess' = [sess EXCEPT ![r].want = n,
                                                   ![r].trusted = FALSE]
                           /\ PayToken(r, n)
      <3>1. PICK t \in Estimates :
               /\ t > sess[r].pre
               /\ PayToken(r, t - sess[r].pre)
               /\ sess' = [sess EXCEPT ![r].want = t - sess[r].pre,
                                       ![r].trusted = FALSE]
        BY <1>1 DEF ReserveToken
      <3>2. t - sess[r].pre \in Nat
        BY <3>1, <1>f, LedgerAssumption
      <3>. QED  BY <3>1, <3>2
    <2>2. sess' \in [Requests -> Session]
      BY <1>f, <2>1 DEF Session
    <2>3. token' \in Int /\ tokenNet' \in [Requests -> Int]
      BY <2>1, PayTokenType
    <2>4. pc' \in [Requests -> PC]
      BY <1>1, GotoType DEF ReserveToken, PC
    <2>. QED  BY <1>1, <2>2, <2>3, <2>4 DEF TypeOK, ReserveToken
  <1>2. CASE ReserveTokenFails(r)
    <2>1. sess' \in [Requests -> Session]
      BY <1>2, <1>f DEF ReserveTokenFails, Session
    <2>. QED  BY <1>2, <2>1 DEF TypeOK, ReserveTokenFails, Goto, PC
  <1>3. CASE ReserveWallet(r)
    <2>1. [sess[r] EXCEPT !.pre = sess[r].pre + sess[r].want,
                          !.consumed = sess[r].consumed + sess[r].want]
             \in Session
      BY <1>f DEF Session
    <2>2. sess' \in [Requests -> Session]
      BY <1>3, <1>f, <2>1 DEF ReserveWallet
    <2>3. rec' \in [Requests -> Record]
      BY <1>3, <1>f, ReservedRecType DEF ReserveWallet
    <2>4. wallet' \in Int /\ walletNet' \in [Requests -> Int]
      BY <1>3, <1>f, PayWalletType DEF ReserveWallet
    <2>5. pc' \in [Requests -> PC]
      BY <1>3, GotoType DEF ReserveWallet, PC
    <2>. QED  BY <1>3, <2>2, <2>3, <2>4, <2>5 DEF TypeOK, ReserveWallet
  <1>4. CASE ReserveWalletFails(r)
    BY <1>4 DEF TypeOK, ReserveWalletFails, Goto, PC
  <1>5. CASE ReserveUndo(r)
    <2>1. token' \in Int /\ tokenNet' \in [Requests -> Int]
      BY <1>5, <1>f, PayTokenType DEF ReserveUndo
    <2>2. pc' \in [Requests -> PC]
      BY <1>5, GotoType DEF ReserveUndo, PC
    <2>. QED  BY <1>5, <2>1, <2>2 DEF TypeOK, ReserveUndo
  <1>. QED  BY <1>1, <1>2, <1>3, <1>4, <1>5 DEF ReserveStep

(* Writing the response and marking it.                                      *)
LEMMA DeliveryType ==
    ASSUME TypeOK, NEW r \in Requests, DeliveryStep(r)
    PROVE  TypeOK'
  <1>. USE DEF spool, funds
  <1>f. sess \in [Requests -> Session] /\ rec \in [Requests -> Record]
    BY DEF TypeOK
  <1>1. CASE WriteResponse(r)
    <2>1. sess' \in [Requests -> Session]
      BY <1>1, <1>f DEF WriteResponse, Session
    <2>. QED  BY <1>1, <2>1 DEF TypeOK, WriteResponse
  <1>2. CASE MarkClientDelivered(r)
    <2>1. rec' \in [Requests -> Record]
      BY <1>2, <1>f DEF MarkClientDelivered, Record
    <2>. QED  BY <1>2, <2>1 DEF TypeOK, MarkClientDelivered
  <1>. QED  BY <1>1, <1>2 DEF DeliveryStep

(* The spool holds settle requests.                                          *)
LEMMA RememberType ==
    ASSUME TypeOK, NEW r \in Requests, NEW q \in Req,
           Remember(r, q) \/ UNCHANGED spool
    PROVE  /\ disk' \in [Requests -> Req \cup {NoReq}]
           /\ memory' \in [Requests -> Req \cup {NoReq}]
  BY DEF TypeOK, Remember, spool

(* The two ways a session ends well.                                         *)
LEMMA FinishType ==
    ASSUME TypeOK, NEW r \in Requests, Finish(r) \/ CloseRefunded(r)
    PROVE  sess' \in [Requests -> Session] /\ pc' \in [Requests -> PC]
  <1>f. sess \in [Requests -> Session] /\ sess[r] \in Session
    BY FieldTypes DEF TypeOK
  <1>1. /\ [sess[r] EXCEPT !.leasing = FALSE] \in Session
        /\ [sess[r] EXCEPT !.pre = 0, !.leasing = FALSE] \in Session
    BY <1>f DEF Session
  <1>2. sess' \in [Requests -> Session]
    BY <1>f, <1>1 DEF Finish, CloseRefunded
  <1>3. pc' \in [Requests -> PC]
    BY GotoType DEF Finish, CloseRefunded, PC
  <1>. QED  BY <1>2, <1>3

(* Settle builds a settle request from the session.                          *)
LEMMA SettleType ==
    ASSUME TypeOK, NEW r \in Requests, Settle(r)
    PROVE  TypeOK'
  <1>f. /\ sess \in [Requests -> Session] /\ sess[r] \in Session
        /\ sess[r].pre \in Nat
    BY FieldTypes DEF TypeOK
  <1>1. PICK c \in Nat :
           /\ sess' = [sess EXCEPT ![r].actual = c, ![r].ledgerActive = TRUE]
           /\ \/ Remember(r, [charge |-> c, reservation |-> sess[r].pre,
                              delta |-> c - sess[r].pre])
              \/ UNCHANGED spool
    BY LedgerAssumption DEF Settle
  <1>2. [charge |-> c, reservation |-> sess[r].pre, delta |-> c - sess[r].pre]
           \in Req
    BY <1>f DEF Req
  <1>3. /\ disk' \in [Requests -> Req \cup {NoReq}]
        /\ memory' \in [Requests -> Req \cup {NoReq}]
    BY <1>1, <1>2, RememberType
  <1>4. sess' \in [Requests -> Session]
    <2>1. [sess[r] EXCEPT !.actual = c, !.ledgerActive = TRUE] \in Session
      BY <1>f DEF Session
    <2>. QED  BY <1>f, <1>1, <2>1
  <1>5. pc' \in [Requests -> PC]
    BY GotoType DEF Settle, PC
  <1>. QED  BY <1>3, <1>4, <1>5 DEF TypeOK, Settle, funds

(* Staging, applying, persisting and collecting it.                          *)
LEMMA SettleStepType ==
    ASSUME TypeOK, NEW r \in Requests, SettleStep(r)
    PROVE  TypeOK'
  <1>f. /\ sess \in [Requests -> Session] /\ row \in [Requests -> Adjustment]
        /\ row[r] \in Adjustment /\ SettleReq(r) \in Req
    BY FieldTypes, RequestTypes DEF TypeOK
  <1>g. EnsuredRow(row[r], SettleReq(r)) \in Adjustment
    BY <1>f, RowTypes
  <1>1. CASE AcceptDelivered(r)
    <2>1. sess' \in [Requests -> Session]
      BY <1>1, <1>f DEF AcceptDelivered, Session
    <2>2. /\ disk' \in [Requests -> Req \cup {NoReq}]
          /\ memory' \in [Requests -> Req \cup {NoReq}]
      BY <1>1, <1>f, RememberType DEF AcceptDelivered
    <2>. QED  BY <1>1, <2>1, <2>2 DEF TypeOK, AcceptDelivered, Goto, PC, funds
  <1>2. CASE EnsurePending(r)
    <2>1. row' \in [Requests -> Adjustment]
      BY <1>2, <1>f, <1>g DEF EnsurePending
    <2>2. PICK e \in {"ok", "terminal", "error"} :
             sess' = [sess EXCEPT ![r].ensured = e]
      BY <1>2 DEF EnsurePending, EnsureResult
    <2>3. sess' \in [Requests -> Session]
      BY <1>f, <2>2 DEF Session
    <2>. QED  BY <1>2, <2>1, <2>3 DEF TypeOK, EnsurePending, Goto, PC, funds,
                                      spool
  <1>3. CASE Lookup(r)
    <2>1. PICK read \in BOOLEAN : Goto(r, AfterLookup(r, read))
      BY <1>3 DEF Lookup
    <2>2. AfterLookup(r, read) \in PC
      BY DEF AfterLookup, PC
    <2>3. pc' \in [Requests -> PC]
      BY <2>1, <2>2, GotoType
    <2>4. /\ disk' \in [Requests -> Req \cup {NoReq}]
          /\ memory' \in [Requests -> Req \cup {NoReq}]
      BY <1>3 DEF Lookup, Forget, spool, TypeOK
    <2>. QED  BY <1>3, <2>3, <2>4 DEF TypeOK, Lookup, funds
  <1>4. CASE Apply(r)
    <2>1. CASE EnsureResult(row[r], SettleReq(r)) = "ok"
      <3>1. LedgerTypes'
        BY <1>4, <1>f, <2>1, ApplyAdjustmentType DEF Apply
      <3>2. sess' \in [Requests -> Session] /\ pc' \in [Requests -> PC]
        BY <1>4, <2>1, FinishType DEF Apply
      <3>. QED  BY <1>4, <3>1, <3>2 DEF Apply, TypeOK, LedgerTypes, spool
    <2>2. CASE EnsureResult(row[r], SettleReq(r)) # "ok"
      BY <1>4, <2>2 DEF Apply, TypeOK, Goto, PC, funds, spool
    <2>. QED  BY <2>1, <2>2
  <1>5. CASE ApplyFails(r)
    BY <1>5 DEF ApplyFails, TypeOK, Goto, PC, funds, spool
  <1>6. CASE Persist(r)
    <2>1. row' \in [Requests -> Adjustment]
      BY <1>6, <1>f, <1>g DEF Persist
    <2>2. pc' \in [Requests -> PC]
      BY <1>6 DEF Persist, TypeOK, Goto, PC
    <2>. QED  BY <1>6, <2>1, <2>2 DEF TypeOK, Persist, funds, spool
  <1>7. CASE PersistFound(r)
    <2>1. sess' \in [Requests -> Session] /\ pc' \in [Requests -> PC]
      <3>1. CASE row[r].status = "applied"
        BY <1>7, <3>1, FinishType DEF PersistFound
      <3>2. CASE row[r].status # "applied"
        BY <1>7, <3>2 DEF PersistFound, TypeOK, Goto, PC
      <3>. QED  BY <3>1, <3>2
    <2>. QED  BY <1>7, <2>1 DEF TypeOK, PersistFound, funds, spool
  <1>8. CASE PersistSpool(r)
    <2>1. /\ disk' \in [Requests -> Req \cup {NoReq}]
          /\ memory' \in [Requests -> Req \cup {NoReq}]
      BY <1>8, <1>f, RememberType DEF PersistSpool
    <2>2. pc' \in [Requests -> PC]
      BY <1>8 DEF PersistSpool, TypeOK, Goto, PC
    <2>. QED  BY <1>8, <2>1, <2>2 DEF TypeOK, PersistSpool, funds
  <1>9. CASE PersistApply(r)
    <2>1. CASE ApplyAdjustment(r, SettleReq(r)) /\ Finish(r)
      <3>1. LedgerTypes'
        BY <1>f, <2>1, ApplyAdjustmentType
      <3>2. sess' \in [Requests -> Session] /\ pc' \in [Requests -> PC]
        BY <2>1, FinishType
      <3>. QED  BY <1>9, <3>1, <3>2
      DEF PersistApply, TypeOK, LedgerTypes, spool
    <2>2. CASE ~(ApplyAdjustment(r, SettleReq(r)) /\ Finish(r))
      BY <1>9, <2>2 DEF PersistApply, TypeOK, Goto, PC, funds, spool
    <2>. QED  BY <2>1, <2>2
  <1>10. CASE Collect(r)
    <2>1. LedgerTypes'
      BY <1>10, <1>f, ApplyMoneyType DEF Collect, LedgerTypes, TypeOK, funds
    <2>2. sess' \in [Requests -> Session] /\ pc' \in [Requests -> PC]
      BY <1>10, FinishType DEF Collect
    <2>. QED  BY <1>10, <2>1, <2>2 DEF Collect, TypeOK, LedgerTypes, spool
  <1>11. CASE CollectFails(r)
    BY <1>11 DEF CollectFails, TypeOK, Goto, PC, funds, spool
  <1>. QED  BY <1>1, <1>2, <1>3, <1>4, <1>5, <1>6, <1>7, <1>8, <1>9, <1>10,
               <1>11 DEF SettleStep

(* Refund and Rollback.                                                      *)
LEMMA RefundType ==
    ASSUME TypeOK, NEW r \in Requests,
           RequestFails(r) \/ Rollback(r) \/ RefundStep(r)
    PROVE  TypeOK'
  <1>f. /\ sess \in [Requests -> Session] /\ rec \in [Requests -> Record]
        /\ sess[r] \in Session /\ rec[r] \in Record
        /\ row[r] \in Adjustment /\ ReservationReq(r) \in Req
        /\ sess[r].pre \in Int /\ -sess[r].pre \in Int
        /\ -sess[r].consumed \in Int /\ -rec[r].amount \in Int
    BY FieldTypes, RequestTypes DEF TypeOK
  <1>g. row[r].status # "absent" => row[r].req \in Req
    BY <1>f DEF Adjustment
  <1>1. CASE \/ RequestFails(r) \/ Rollback(r) \/ RefundNotNeeded(r)
             \/ RefundThroughLedger(r) \/ RefundWalletFails(r)
             \/ LedgerRefundFails(r)
    BY <1>1 DEF RequestFails, Rollback, RefundNotNeeded, RefundThroughLedger,
                RefundWalletFails, LedgerRefundFails, TypeOK, Goto, PC, funds,
                spool
  <1>2. CASE RefundToken(r)
    <2>1. token' \in Int /\ tokenNet' \in [Requests -> Int]
      BY <1>2, <1>f, PayTokenType DEF RefundToken, TypeOK
    <2>2. pc' \in [Requests -> PC]
      BY <1>2, GotoType DEF RefundToken, PC
    <2>. QED  BY <1>2, <2>1, <2>2 DEF RefundToken, TypeOK, spool
  <1>3. CASE RefundWallet(r)
    <2>1. wallet' \in Int /\ walletNet' \in [Requests -> Int]
      BY <1>3, <1>f, PayWalletType DEF RefundWallet
    <2>2. [sess[r] EXCEPT !.consumed = 0, !.leasing = FALSE] \in Session
      BY <1>f DEF Session
    <2>3. sess' \in [Requests -> Session]
      BY <1>3, <1>f, <2>2 DEF RefundWallet
    <2>4. rec' \in [Requests -> Record]
      BY <1>3, <1>f, RecTypes DEF RefundWallet
    <2>5. pc' \in [Requests -> PC]
      BY <1>3, GotoType DEF RefundWallet, PC
    <2>. QED  BY <1>3, <2>1, <2>3, <2>4, <2>5 DEF RefundWallet, TypeOK, spool
  <1>4. CASE RefundUndo(r)
    <2>1. token' \in Int /\ tokenNet' \in [Requests -> Int]
      BY <1>4, <1>f, PayTokenType DEF RefundUndo
    <2>2. pc' \in [Requests -> PC]
      BY <1>4, GotoType DEF RefundUndo, PC
    <2>. QED  BY <1>4, <2>1, <2>2 DEF RefundUndo, TypeOK, spool
  <1>5. CASE RollbackAdjustment(r)
    <2>1. CASE row[r].status = "absent"
      BY <1>5, <2>1 DEF RollbackAdjustment, TypeOK, Goto, PC, funds, spool
    <2>2. CASE row[r].status # "absent"
      <3>1. LedgerTypes'
        BY <1>5, <1>g, <2>2, CreditReservationType, CreditChargeType
        DEF RollbackAdjustment, RollBackRow, LedgerTypes, TypeOK, funds
      <3>2. sess' \in [Requests -> Session] /\ pc' \in [Requests -> PC]
        BY <1>5, <2>2, FinishType DEF RollbackAdjustment
      <3>. QED  BY <1>5, <3>1, <3>2
                DEF RollbackAdjustment, TypeOK, LedgerTypes, spool
    <2>. QED  BY <2>1, <2>2
  <1>6. CASE RefundReservation(r)
    <2>1. CASE row[r].status = "applied"
      BY <1>6, <2>1 DEF RefundReservation, TypeOK, Goto, PC, funds, spool
    <2>2. CASE row[r].status # "applied"
      <3>1. LedgerTypes'
        BY <1>6, <1>f, <1>g, <2>2, CreditReservationType
        DEF RefundReservation, LedgerTypes, TypeOK, funds
      <3>2. sess' \in [Requests -> Session] /\ pc' \in [Requests -> PC]
        BY <1>6, <2>2, FinishType DEF RefundReservation
      <3>. QED  BY <1>6, <3>1, <3>2
                DEF RefundReservation, TypeOK, LedgerTypes, spool
    <2>. QED  BY <2>1, <2>2
  <1>. QED  BY <1>1, <1>2, <1>3, <1>4, <1>5, <1>6 DEF RefundStep

(* The steps nobody's handler takes.                                         *)
BackgroundStep(r) ==
    \/ LeaseExpires(r) \/ RefreshLease(r) \/ RecoverExpired(r)
    \/ RecoverUnpersisted(r) \/ ReadPending(r) \/ RecoverPending(r)
    \/ Crash(r)

(* Leases, recovery passes and crashes.                                      *)
LEMMA BackgroundType ==
    ASSUME TypeOK, NEW r \in Requests, BackgroundStep(r)
    PROVE  TypeOK'
  <1>f. /\ sess \in [Requests -> Session] /\ rec \in [Requests -> Record]
        /\ row \in [Requests -> Adjustment]
        /\ sess[r] \in Session /\ rec[r] \in Record /\ row[r] \in Adjustment
    BY FieldTypes DEF TypeOK
  <1>1. CASE LeaseExpires(r) \/ RefreshLease(r)
    <2>1. rec' \in [Requests -> Record]
      BY <1>1, <1>f DEF LeaseExpires, RefreshLease, Record, Lease
    <2>. QED  BY <1>1, <2>1 DEF LeaseExpires, RefreshLease, TypeOK, funds,
                                spool
  <1>2. CASE RecoverExpired(r)
    <2>1. CASE Owns(r)
      <3>1. rec' \in [Requests -> Record]
        BY <1>2, <1>f, <2>1 DEF RecoverExpired, Record, Lease
      <3>. QED  BY <1>2, <2>1, <3>1 DEF RecoverExpired, TypeOK, spool
    <2>2. CASE ~Owns(r)
      <3>1. rec' \in [Requests -> Record]
        BY <1>2, <1>f, <2>2, RecTypes DEF RecoverExpired
      <3>2. ExpiredCharge(rec[r]) \in Int
        BY <1>f DEF ExpiredCharge, Record
      <3>3. wallet' \in Int /\ walletNet' \in [Requests -> Int]
        BY <1>2, <2>2, <3>2, PayWalletType DEF RecoverExpired
      <3>. QED  BY <1>2, <3>1, <3>3 DEF RecoverExpired, TypeOK, spool
    <2>. QED  BY <2>1, <2>2
  <1>3. CASE RecoverUnpersisted(r)
    <2>0. disk[r] \in Req \cup {NoReq} /\ memory[r] \in Req \cup {NoReq}
      BY DEF TypeOK
    <2>1. PICK q \in Req : row' = [row EXCEPT ![r] = EnsuredRow(row[r], q)]
      <3>1. PICK q \in {disk[r], memory[r]} \ {NoReq} :
               row' = [row EXCEPT ![r] = EnsuredRow(row[r], q)]
        BY <1>3 DEF RecoverUnpersisted
      <3>2. q \in Req
        BY <2>0, <3>1
      <3>. QED  BY <3>1, <3>2
    <2>2. row' \in [Requests -> Adjustment]
      BY <1>f, <2>1, RowTypes
    <2>3. /\ disk' \in [Requests -> Req \cup {NoReq}]
          /\ memory' \in [Requests -> Req \cup {NoReq}]
      BY <1>3 DEF RecoverUnpersisted, TypeOK, spool
    <2>. QED  BY <1>3, <2>2, <2>3 DEF RecoverUnpersisted, TypeOK, funds
  <1>4. CASE ReadPending(r)
    <2>1. row[r].req \in Req
      BY <1>4, <1>f DEF ReadPending, Adjustment
    <2>. QED  BY <1>4, <2>1 DEF ReadPending, TypeOK, funds, spool
  <1>5. CASE RecoverPending(r)
    <2>1. stale[r] \in Req
      BY <1>5 DEF RecoverPending, TypeOK
    <2>2. LedgerTypes'
      BY <1>5, <2>1, ApplyAdjustmentType
      DEF RecoverPending, LedgerTypes, TypeOK, funds
    <2>3. stale' \in [Requests -> Req \cup {NoReq}]
      BY <1>5 DEF RecoverPending, TypeOK
    <2>. QED  BY <1>5, <2>2, <2>3 DEF RecoverPending, TypeOK, LedgerTypes,
                                      spool
  <1>6. CASE Crash(r)
    <2>0. [sess[r] EXCEPT !.leasing = FALSE] \in Session
      BY <1>f DEF Session
    <2>1. sess' \in [Requests -> Session]
      BY <1>6, <1>f, <2>0 DEF Crash
    <2>. QED  BY <1>6, <2>1 DEF Crash, TypeOK, Goto, PC, funds
  <1>. QED  BY <1>1, <1>2, <1>3, <1>4, <1>5, <1>6 DEF BackgroundStep

(* The types hold at the start.                                              *)
LEMMA TypeInit == Init => TypeOK
  <1>1. NoRecord \in Record
    BY DEF NoRecord, Record, RecStatus, Lease
  <1>2. NoRow \in Adjustment
    BY DEF NoRow, Adjustment
  <1>3. NewSession \in Session
    BY DEF NewSession, Session
  <1>. QED  BY <1>1, <1>2, <1>3, LedgerAssumption DEF Init, TypeOK, PC

(* Every step keeps them.                                                    *)
LEMMA TypeStep == TypeOK /\ [Next]_vars => TypeOK'
  <1>1. ASSUME TypeOK, UNCHANGED vars PROVE TypeOK'
    BY <1>1 DEF TypeOK, vars
  <1>2. ASSUME TypeOK, Next PROVE TypeOK'
    BY <1>2, PreConsumeType, ReserveType, DeliveryType, SettleType,
       SettleStepType, RefundType, BackgroundType DEF Next, BackgroundStep
  <1>. QED  BY <1>1, <1>2

(* The state always has the shape the rows, the spool and the session have   *)
(* in the code: in particular every ledger row carries a settle request, and *)
(* a session's reservation never goes below zero.                            *)
THEOREM TypeCorrect == Spec => []TypeOK
  BY TypeInit, TypeStep, PTL DEF Spec

-----------------------------------------------------------------------------
(* The invariant.                                                            *)

WalletInv(r) == walletNet[r] = WalletOwed(r)

RequestInv(r) ==
    /\ PhaseInv(r) /\ CopiesInv(r) /\ RecordInv(r) /\ TokenInv(r)
    /\ WalletInv(r)

Inv == TypeOK /\ \A r \in Requests : RequestInv(r)

-----------------------------------------------------------------------------
(* Requests do not touch each other.                                         *)

Frame(r) ==
    \A s \in Requests \ {r} :
       /\ rec'[s] = rec[s] /\ row'[s] = row[s] /\ disk'[s] = disk[s]
       /\ memory'[s] = memory[s] /\ stale'[s] = stale[s] /\ pc'[s] = pc[s]
       /\ sess'[s] = sess[s]
       /\ walletNet'[s] = walletNet[s] /\ tokenNet'[s] = tokenNet[s]

RequestStep(r) ==
    \/ PreConsumeStep(r) \/ ReserveStep(r) \/ DeliveryStep(r)
    \/ Settle(r) \/ SettleStep(r)
    \/ RequestFails(r) \/ Rollback(r) \/ RefundStep(r)
    \/ BackgroundStep(r)

(* A step of one request leaves the rows, copies, session and net payments   *)
(* of every other request alone.                                             *)
LEMMA FrameHolds ==
    ASSUME TypeOK, NEW r \in Requests, RequestStep(r)
    PROVE  Frame(r)
  <1>. USE DEF Frame, TypeOK, PayWallet, PayToken, Goto, funds, spool
  <1>1. CASE PreConsumeStep(r)
    BY <1>1 DEF PreConsumeStep, PreConsumeToken, PreConsumeWallet,
                PreConsumeWalletFails, PreConsumeUndo, PreConsumeTrusted,
                PreConsumeNothing
  <1>2. CASE ReserveStep(r)
    BY <1>2 DEF ReserveStep, ReserveToken, ReserveTokenFails, ReserveWallet,
                ReserveWalletFails, ReserveUndo
  <1>3. CASE DeliveryStep(r)
    BY <1>3 DEF DeliveryStep, WriteResponse, MarkClientDelivered
  <1>4. CASE Settle(r)
    BY <1>4 DEF Settle, Remember
  <1>5. CASE SettleStep(r)
    <2>. USE DEF Remember, Forget, Finish, ApplyAdjustment, ApplyMoney
    <2>1. CASE AcceptDelivered(r) \/ EnsurePending(r) \/ Lookup(r)
      BY <2>1 DEF AcceptDelivered, EnsurePending, Lookup
    <2>2. CASE Apply(r) \/ ApplyFails(r)
      BY <2>2 DEF Apply, ApplyFails
    <2>3. CASE Persist(r) \/ PersistFound(r) \/ PersistSpool(r)
      BY <2>3 DEF Persist, PersistFound, PersistSpool
    <2>4. CASE PersistApply(r)
      BY <2>4 DEF PersistApply
    <2>5. CASE Collect(r) \/ CollectFails(r)
      BY <2>5 DEF Collect, CollectFails
    <2>. QED  BY <1>5, <2>1, <2>2, <2>3, <2>4, <2>5 DEF SettleStep
  <1>6. CASE RequestFails(r) \/ Rollback(r)
    BY <1>6 DEF RequestFails, Rollback
  <1>7. CASE RefundStep(r)
    <2>. USE DEF CloseRefunded, CreditReservation, CreditCharge, RollBackRow
    <2>1. CASE RefundNotNeeded(r) \/ RefundThroughLedger(r) \/ RefundToken(r)
      BY <2>1 DEF RefundNotNeeded, RefundThroughLedger, RefundToken
    <2>2. CASE RefundWallet(r) \/ RefundWalletFails(r) \/ RefundUndo(r)
      BY <2>2 DEF RefundWallet, RefundWalletFails, RefundUndo
    <2>3. CASE RollbackAdjustment(r)
      BY <2>3 DEF RollbackAdjustment
    <2>4. CASE RefundReservation(r) \/ LedgerRefundFails(r)
      BY <2>4 DEF RefundReservation, LedgerRefundFails
    <2>. QED  BY <1>7, <2>1, <2>2, <2>3, <2>4 DEF RefundStep
  <1>8. CASE BackgroundStep(r)
    <2>. USE DEF ApplyAdjustment, ApplyMoney
    <2>1. CASE LeaseExpires(r) \/ RefreshLease(r) \/ RecoverExpired(r)
      BY <2>1 DEF LeaseExpires, RefreshLease, RecoverExpired
    <2>2. CASE RecoverUnpersisted(r) \/ ReadPending(r) \/ Crash(r)
      BY <2>2 DEF RecoverUnpersisted, ReadPending, Crash
    <2>3. CASE RecoverPending(r)
      BY <2>3 DEF RecoverPending
    <2>. QED  BY <1>8, <2>1, <2>2, <2>3 DEF BackgroundStep
  <1>. QED  BY <1>1, <1>2, <1>3, <1>4, <1>5, <1>6, <1>7, <1>8 DEF RequestStep

(* Hence it keeps the invariant of every other request.                      *)
LEMMA FrameInv ==
    ASSUME NEW r \in Requests, Frame(r),
           NEW s \in Requests \ {r}, RequestInv(s)
    PROVE  RequestInv(s)'
  BY DEF Frame, RequestInv, PhaseInv, CopiesInv, RecordInv, TokenInv,
         TokenOwed, WalletInv, WalletOwed, Held, Reservation, Undecided, Open,
         SettleReq

-----------------------------------------------------------------------------
(* What the money transactions of the ledger leave behind.                   *)

(* A decided row keeps the invariant whatever the session does afterwards.   *)
LEMMA DecidedInv ==
    ASSUME NEW r \in Requests,
           \/ /\ row'[r].status = "applied"
              /\ walletNet'[r] = row'[r].req.charge
              /\ tokenNet'[r] = row'[r].req.charge
           \/ /\ row'[r].status = "rolled_back"
              /\ walletNet'[r] = 0
              /\ tokenNet'[r] = 0
              /\ pc'[r] \in {"closed", "crashed"},
           rec'[r].status \notin {"reserved", "trusted"},
           rec'[r].status = "none" => rec'[r].collected = 0,
           sess'[r].ledgerActive,
           pc'[r] \notin BeforeSettle
    PROVE  RequestInv(r)'
  BY DEF RequestInv, PhaseInv, CopiesInv, RecordInv, TokenInv, TokenOwed,
         WalletInv, WalletOwed, Undecided, Open, BeforeSettle

(* Applying the session's request takes exactly the charge, in total.        *)
LEMMA ApplyMoneyEffect ==
    ASSUME TypeOK, NEW r \in Requests, RequestInv(r),
           sess[r].ledgerActive, Undecided(r), ApplyMoney(r, SettleReq(r))
    PROVE  /\ row'[r] = [status |-> "applied", req |-> SettleReq(r)]
           /\ walletNet'[r] = sess[r].actual
           /\ tokenNet'[r] = sess[r].actual
           /\ rec'[r].status \notin {"reserved", "trusted"}
           /\ rec'[r].status = "none" => rec'[r].collected = 0
  <1>. DEFINE q == SettleReq(r)
  <1>1. /\ row'[r] = [status |-> "applied", req |-> q]
        /\ rec'[r] = SettledRec(rec[r])
        /\ walletNet'[r] = walletNet[r] + WalletCharge(rec[r], row[r], q)
        /\ tokenNet'[r] = tokenNet[r] + q.delta
    BY DEF ApplyMoney, PayWallet, PayToken, TypeOK
  <1>2. tokenNet'[r] = sess[r].actual
    BY <1>1, FieldTypes DEF RequestInv, TokenInv, TokenOwed, SettleReq
  <1>3. walletNet[r] = Held(r)
    BY DEF RequestInv, WalletInv, WalletOwed, Undecided
  <1>4. /\ sess[r].pre = Reservation(r)
        /\ rec[r].status \in {"none", "reserved", "trusted"} =>
              rec[r].collected = 0
    BY DEF RequestInv, RecordInv
  <1>5. WalletCharge(rec[r], row[r], q) = sess[r].actual - Held(r)
    BY <1>4, FieldTypes DEF WalletCharge, Held, Reservation, SettleReq,
                            Undecided, Record, RecStatus
  <1>6. walletNet'[r] = sess[r].actual
    BY <1>1, <1>3, <1>5, FieldTypes DEF TypeOK
  <1>7. /\ rec'[r].status \notin {"reserved", "trusted"}
        /\ rec'[r].status = "none" => rec'[r].collected = 0
    BY <1>1, <1>4, FieldTypes DEF SettledRec, Record
  <1>. QED  BY <1>1, <1>2, <1>6, <1>7

(* Returning the reservation of an undecided request returns all of it.      *)
LEMMA CreditReservationEffect ==
    ASSUME TypeOK, NEW r \in Requests, RequestInv(r),
           sess[r].ledgerActive, Undecided(r),
           NEW q, q \in {SettleReq(r), ReservationReq(r)},
           CreditReservation(r, q)
    PROVE  /\ row'[r] = [status |-> "rolled_back", req |-> q]
           /\ walletNet'[r] = 0
           /\ tokenNet'[r] = 0
           /\ rec'[r].status \notin {"reserved", "trusted"}
           /\ rec'[r].status = "none" => rec'[r].collected = 0
  <1>1. /\ row'[r] = [status |-> "rolled_back", req |-> q]
        /\ rec'[r] = RefundedRec(rec[r])
        /\ walletNet'[r] = walletNet[r] - ReservationCredit(rec[r], q)
        /\ tokenNet'[r] = tokenNet[r] - q.reservation
    BY FieldTypes, RequestTypes, AmountTypes
    DEF CreditReservation, PayWallet, PayToken, TypeOK, Req
  <1>2. q.reservation = sess[r].pre
    BY DEF SettleReq, ReservationReq
  <1>3. tokenNet'[r] = 0
    BY <1>1, <1>2, FieldTypes DEF RequestInv, TokenInv
  <1>4. walletNet[r] = Held(r)
    BY DEF RequestInv, WalletInv, WalletOwed, Undecided
  <1>5. /\ sess[r].pre = Reservation(r)
        /\ rec[r].status \in {"none", "reserved", "trusted"} =>
              rec[r].collected = 0
    BY DEF RequestInv, RecordInv
  <1>6. ReservationCredit(rec[r], q) = Held(r)
    BY <1>2, <1>5, FieldTypes DEF ReservationCredit, Held, Reservation, Record,
                                  RecStatus
  <1>7. walletNet'[r] = 0
    BY <1>1, <1>4, <1>6, FieldTypes DEF TypeOK
  <1>8. /\ rec'[r].status \notin {"reserved", "trusted"}
        /\ rec'[r].status = "none" => rec'[r].collected = 0
    BY <1>1, <1>5, FieldTypes DEF RefundedRec, Record
  <1>. QED  BY <1>1, <1>3, <1>7, <1>8

(* ApplyAdjustment by the handler or by a recovery pass.                     *)
LEMMA ApplyInv ==
    ASSUME TypeOK, NEW r \in Requests, RequestInv(r),
           sess[r].ledgerActive, Undecided(r) \/ row[r].status = "applied",
           ApplyAdjustment(r, SettleReq(r)),
           sess'[r].ledgerActive, pc'[r] \notin BeforeSettle
    PROVE  RequestInv(r)'
  <1>1. CASE row[r].status = "applied"
    <2>1. /\ row'[r] = row[r] /\ rec'[r] = rec[r]
          /\ walletNet'[r] = walletNet[r] /\ tokenNet'[r] = tokenNet[r]
      BY <1>1 DEF ApplyAdjustment, funds
    <2>2. /\ walletNet[r] = row[r].req.charge
          /\ tokenNet[r] = row[r].req.charge
          /\ rec[r].status \notin {"reserved", "trusted"}
          /\ rec[r].status = "none" => rec[r].collected = 0
      BY <1>1 DEF RequestInv, RecordInv, TokenInv, TokenOwed, WalletInv,
                  WalletOwed, Undecided, Open
    <2>. QED  BY <1>1, <2>1, <2>2, DecidedInv
  <1>2. CASE row[r].status # "applied"
    <2>1. ApplyMoney(r, SettleReq(r)) /\ Undecided(r)
      BY <1>2 DEF ApplyAdjustment
    <2>2. SettleReq(r).charge = sess[r].actual
      BY DEF SettleReq
    <2>3. /\ row'[r] = [status |-> "applied", req |-> SettleReq(r)]
          /\ walletNet'[r] = sess[r].actual
          /\ tokenNet'[r] = sess[r].actual
          /\ rec'[r].status \notin {"reserved", "trusted"}
          /\ rec'[r].status = "none" => rec'[r].collected = 0
      BY <2>1, ApplyMoneyEffect
    <2>4. /\ row'[r].status = "applied"
          /\ walletNet'[r] = row'[r].req.charge
          /\ tokenNet'[r] = row'[r].req.charge
      BY <2>2, <2>3
    <2>. QED  BY <2>3, <2>4, DecidedInv
  <1>. QED  BY <1>1, <1>2

(* A row that accepts a settle request has not been rolled back.             *)
LEMMA EnsureOk ==
    ASSUME NEW rw \in Adjustment, NEW q, EnsureResult(rw, q) = "ok"
    PROVE  rw.status \in {"absent", "pending", "applied"}
  BY DEF EnsureResult, Adjustment, RowStatus

-----------------------------------------------------------------------------
(* The actions, before the settle.                                           *)

(* preConsume and its compensation.                                          *)
LEMMA PreConsumeInv ==
    ASSUME TypeOK, NEW r \in Requests, RequestInv(r), PreConsumeStep(r)
    PROVE  RequestInv(r)'
  <1>. USE FieldTypes
       DEF TypeOK, RequestInv, PhaseInv, CopiesInv, RecordInv, TokenInv,
           TokenOwed, WalletInv, WalletOwed, Held, Reservation, Undecided,
           Open, SettleReq, BeforeSettle, AfterSettle, NoRecord, Goto, spool,
           funds
  <1>1. CASE PreConsumeToken(r)
    BY <1>1, LedgerAssumption DEF PreConsumeToken, PayToken
  <1>2. CASE PreConsumeWallet(r)
    BY <1>2 DEF PreConsumeWallet, PayWallet
  <1>3. CASE PreConsumeWalletFails(r)
    BY <1>3 DEF PreConsumeWalletFails
  <1>4. CASE PreConsumeUndo(r)
    BY <1>4 DEF PreConsumeUndo, PayToken
  <1>5. CASE PreConsumeTrusted(r)
    BY <1>5 DEF PreConsumeTrusted
  <1>6. CASE PreConsumeNothing(r)
    BY <1>6 DEF PreConsumeNothing
  <1>. QED  BY <1>1, <1>2, <1>3, <1>4, <1>5, <1>6 DEF PreConsumeStep

(* Reserve: session, wallet row and token grow by the same amount.           *)
LEMMA ReserveInv ==
    ASSUME TypeOK, NEW r \in Requests, RequestInv(r), ReserveStep(r)
    PROVE  RequestInv(r)'
  <1>. USE FieldTypes
       DEF TypeOK, RequestInv, PhaseInv, CopiesInv, RecordInv, TokenInv,
           TokenOwed, WalletInv, WalletOwed, Held, Reservation, Undecided,
           Open, SettleReq, BeforeSettle, AfterSettle, Goto, spool, funds
  <1>1. CASE ReserveToken(r)
    BY <1>1, LedgerAssumption DEF ReserveToken, PayToken
  <1>2. CASE ReserveTokenFails(r)
    BY <1>2 DEF ReserveTokenFails
  <1>3. CASE ReserveWallet(r)
    BY <1>3 DEF ReserveWallet, ReservedRec, PayWallet
  <1>4. CASE ReserveWalletFails(r)
    BY <1>4 DEF ReserveWalletFails
  <1>5. CASE ReserveUndo(r)
    BY <1>5 DEF ReserveUndo, PayToken
  <1>. QED  BY <1>1, <1>2, <1>3, <1>4, <1>5 DEF ReserveStep

(* Writing the response and marking it.                                      *)
LEMMA DeliveryInv ==
    ASSUME TypeOK, NEW r \in Requests, RequestInv(r), DeliveryStep(r)
    PROVE  RequestInv(r)'
  <1>. USE DEF TypeOK, RequestInv, PhaseInv, CopiesInv, RecordInv, TokenInv,
               TokenOwed, WalletInv, WalletOwed, Held, Reservation, Undecided,
               Open, SettleReq, BeforeSettle, AfterSettle, spool, funds
  <1>1. CASE WriteResponse(r)
    BY <1>1 DEF WriteResponse
  <1>2. CASE MarkClientDelivered(r)
    BY <1>2, FieldTypes DEF MarkClientDelivered, NoRecord
  <1>. QED  BY <1>1, <1>2 DEF DeliveryStep

-----------------------------------------------------------------------------
(* The settle.                                                               *)

(* Settle turns the session's reservation into a settle request.             *)
LEMMA SettleInv ==
    ASSUME TypeOK, NEW r \in Requests, RequestInv(r), Settle(r)
    PROVE  RequestInv(r)'
  <1>f. sess \in [Requests -> Session] /\ sess[r] \in Session
    BY FieldTypes DEF TypeOK
  <1>1. PICK c \in Nat :
           /\ sess' = [sess EXCEPT ![r].actual = c, ![r].ledgerActive = TRUE]
           /\ \/ Remember(r, [charge |-> c, reservation |-> sess[r].pre,
                              delta |-> c - sess[r].pre])
              \/ UNCHANGED spool
    BY LedgerAssumption DEF Settle
  <1>. DEFINE q == [charge |-> c, reservation |-> sess[r].pre,
                    delta |-> c - sess[r].pre]
  <1>2. sess'[r] = [sess[r] EXCEPT !.actual = c, !.ledgerActive = TRUE]
    BY <1>f, <1>1
  <1>3. /\ sess'[r].pre = sess[r].pre /\ sess'[r].consumed = sess[r].consumed
        /\ sess'[r].actual = c /\ sess'[r].ledgerActive
    BY <1>f, <1>2 DEF Session
  <1>4. SettleReq(r)' = q
    BY <1>3 DEF SettleReq
  <1>5. /\ row[r].status = "absent" /\ row[r].req = NoReq
        /\ disk[r] = NoReq /\ memory[r] = NoReq /\ stale[r] = NoReq
    BY FieldTypes DEF Settle, RequestInv, PhaseInv, CopiesInv, BeforeSettle,
                      Undecided, Adjustment, RowStatus
  <1>6. /\ row'[r] = row[r] /\ rec'[r] = rec[r] /\ stale'[r] = stale[r]
        /\ walletNet'[r] = walletNet[r] /\ tokenNet'[r] = tokenNet[r]
        /\ pc[r] = "open" /\ pc'[r] = "ensure"
    BY DEF Settle, Goto, funds, TypeOK
  <1>7. disk'[r] \in {NoReq, q} /\ memory'[r] \in {NoReq, q}
    BY <1>1, <1>5 DEF Remember, spool, TypeOK
  <1>8. CopiesInv(r)'
    BY <1>3, <1>4, <1>5, <1>6, <1>7 DEF CopiesInv, Undecided
  <1>9. PhaseInv(r)' /\ RecordInv(r)' /\ TokenInv(r)' /\ WalletInv(r)'
    BY <1>3, <1>5, <1>6
    DEF RequestInv, PhaseInv, RecordInv, TokenInv, TokenOwed, WalletInv,
        WalletOwed, Held, Reservation, Undecided, Open, BeforeSettle,
        AfterSettle
  <1>. QED  BY <1>8, <1>9 DEF RequestInv

(* Staging, applying, persisting and collecting it.                          *)
LEMMA SettleStepInv ==
    ASSUME TypeOK, NEW r \in Requests, RequestInv(r), SettleStep(r)
    PROVE  RequestInv(r)'
  <1>f. /\ sess \in [Requests -> Session] /\ sess[r] \in Session
        /\ row[r] \in Adjustment
    BY FieldTypes DEF TypeOK
  <1>g. sess[r].ledgerActive /\ pc[r] \in AfterSettle
    BY DEF SettleStep, AcceptDelivered, EnsurePending, Lookup, Apply,
           ApplyFails, Persist, PersistFound, PersistSpool, PersistApply,
           Collect, CollectFails, RequestInv, PhaseInv, AfterSettle
  <1>h. row[r].status \in {"absent", "pending", "applied"}
    BY <1>f, <1>g DEF RequestInv, PhaseInv, AfterSettle, Adjustment, RowStatus
  <1>1. CASE \/ AcceptDelivered(r) \/ Lookup(r) \/ ApplyFails(r)
             \/ PersistSpool(r) \/ CollectFails(r)
    <2>. USE <1>g, <1>h
         DEF RequestInv, PhaseInv, CopiesInv, RecordInv, TokenInv, TokenOwed,
             WalletInv, WalletOwed, Held, Reservation, Undecided, Open,
             SettleReq, BeforeSettle, AfterSettle, Goto, spool, funds, TypeOK
    <2>1. CASE AcceptDelivered(r)
      BY <2>1 DEF AcceptDelivered, Remember
    <2>2. CASE Lookup(r)
      BY <2>2 DEF Lookup, AfterLookup, Forget
    <2>3. CASE PersistSpool(r)
      BY <2>3 DEF PersistSpool, Remember
    <2>4. CASE ApplyFails(r) \/ CollectFails(r)
      BY <2>4 DEF ApplyFails, CollectFails
    <2>. QED  BY <1>1, <2>1, <2>2, <2>3, <2>4
  <1>2. CASE EnsurePending(r) \/ Persist(r)
    <2>1. /\ sess'[r].pre = sess[r].pre /\ sess'[r].consumed = sess[r].consumed
          /\ sess'[r].actual = sess[r].actual /\ sess'[r].ledgerActive
          /\ pc'[r] \in {"lookup", "persistApply", "settleErr"}
      BY <1>2, <1>f, <1>g DEF EnsurePending, Persist, Goto, TypeOK, Session
    <2>2. \/ row'[r] = row[r]
          \/ /\ row[r].status = "absent"
             /\ row'[r] = [status |-> "pending", req |-> SettleReq(r)]
      BY <1>2 DEF EnsurePending, Persist, EnsuredRow, TypeOK
    <2>3. /\ rec'[r] = rec[r] /\ disk'[r] = disk[r] /\ memory'[r] = memory[r]
          /\ stale'[r] = stale[r]
          /\ walletNet'[r] = walletNet[r] /\ tokenNet'[r] = tokenNet[r]
      BY <1>2 DEF EnsurePending, Persist, funds, spool
    <2>4. SettleReq(r)' = SettleReq(r)
      BY <2>1 DEF SettleReq
    <2>5. CopiesInv(r)'
      BY <1>g, <2>1, <2>2, <2>3, <2>4 DEF RequestInv, CopiesInv, Undecided
    <2>6. PhaseInv(r)' /\ RecordInv(r)' /\ TokenInv(r)' /\ WalletInv(r)'
      BY <1>g, <1>h, <2>1, <2>2, <2>3
      DEF RequestInv, PhaseInv, RecordInv, TokenInv, TokenOwed, WalletInv,
          WalletOwed, Held, Reservation, Undecided, Open, SettleReq,
          BeforeSettle, AfterSettle
    <2>. QED  BY <2>5, <2>6 DEF RequestInv
  <1>3. CASE PersistFound(r)
    <2>1. /\ sess'[r].pre = sess[r].pre /\ sess'[r].consumed = sess[r].consumed
          /\ sess'[r].actual = sess[r].actual /\ sess'[r].ledgerActive
          /\ pc'[r] \in {"settled", "deferred", "settleErr"}
      <3>1. \/ sess' = [sess EXCEPT ![r].leasing = FALSE]
            \/ sess' = sess
        BY <1>3 DEF PersistFound, Finish
      <3>2. pc'[r] \in {"settled", "deferred", "settleErr"}
        BY <1>3 DEF PersistFound, Finish, Goto, TypeOK
      <3>. QED  BY <1>f, <1>g, <3>1, <3>2 DEF Session
    <2>. QED  BY <1>3, <1>g, <1>h, <2>1
              DEF PersistFound, funds, spool, RequestInv, PhaseInv, CopiesInv,
                  RecordInv, TokenInv, TokenOwed, WalletInv, WalletOwed, Held,
                  Reservation, Undecided, Open, SettleReq, BeforeSettle,
                  AfterSettle
  <1>4. CASE ApplyAdjustment(r, SettleReq(r)) /\ Finish(r)
    <2>1. sess'[r].ledgerActive /\ pc'[r] \notin BeforeSettle
      BY <1>4, <1>f, <1>g DEF Finish, Goto, BeforeSettle, TypeOK, Session
    <2>. QED  BY <1>4, <1>g, <1>h, <2>1, ApplyInv DEF Undecided
  <1>5. CASE /\ UNCHANGED <<funds, rec, row, sess, spool, stale>>
             /\ Goto(r, "deferred") \/ Goto(r, "settleErr")
    BY <1>5, <1>g, <1>h
    DEF RequestInv, PhaseInv, CopiesInv, RecordInv, TokenInv, TokenOwed,
        WalletInv, WalletOwed, Held, Reservation, Undecided, Open, SettleReq,
        BeforeSettle, AfterSettle, Goto, spool, funds, TypeOK
  <1>6. CASE Collect(r)
    <2>1. ApplyAdjustment(r, SettleReq(r)) /\ Finish(r)
      BY <1>6 DEF Collect, ApplyAdjustment
    <2>. QED  BY <1>4, <2>1
  <1>7. CASE Apply(r) \/ PersistApply(r)
    BY <1>4, <1>5, <1>7 DEF Apply, PersistApply
  <1>. QED  BY <1>1, <1>2, <1>3, <1>6, <1>7 DEF SettleStep

-----------------------------------------------------------------------------
(* Refund, rollback and the background.                                      *)

(* A failed request gives back what it holds.                                *)
LEMMA RefundInv ==
    ASSUME TypeOK, NEW r \in Requests, RequestInv(r),
           RequestFails(r) \/ Rollback(r) \/ RefundStep(r)
    PROVE  RequestInv(r)'
  <1>f. /\ sess \in [Requests -> Session] /\ sess[r] \in Session
        /\ rec[r] \in Record /\ row[r] \in Adjustment
    BY FieldTypes DEF TypeOK
  <1>1. CASE \/ RequestFails(r) \/ Rollback(r) \/ RefundNotNeeded(r)
             \/ RefundThroughLedger(r) \/ RefundWalletFails(r)
             \/ LedgerRefundFails(r)
    BY <1>1
    DEF RequestFails, Rollback, RefundNotNeeded, RefundThroughLedger,
        RefundWalletFails, LedgerRefundFails, RequestInv, PhaseInv, CopiesInv,
        RecordInv, TokenInv, TokenOwed, WalletInv, WalletOwed, Held,
        Reservation, Undecided, Open, SettleReq, BeforeSettle, AfterSettle,
        Goto, spool, funds, TypeOK
  <1>2. CASE RefundToken(r) \/ RefundUndo(r)
    BY <1>2, FieldTypes
    DEF RefundToken, RefundUndo, PayToken, RequestInv, PhaseInv, CopiesInv,
        RecordInv, TokenInv, TokenOwed, WalletInv, WalletOwed, Held,
        Reservation, Undecided, Open, SettleReq, BeforeSettle, AfterSettle,
        Goto, spool, TypeOK
  <1>3. CASE RefundWallet(r)
    <2>1. /\ ~sess[r].ledgerActive /\ row[r].status = "absent"
          /\ walletNet[r] = Held(r)
      BY <1>3 DEF RefundWallet, RequestInv, PhaseInv, CopiesInv, WalletInv,
                  WalletOwed, BeforeSettle
    <2>2. /\ sess'[r].consumed = 0
          /\ sess'[r].ledgerActive = sess[r].ledgerActive
      <3>1. sess'[r] = [sess[r] EXCEPT !.consumed = 0, !.leasing = FALSE]
        BY <1>3, <1>f DEF RefundWallet
      <3>. QED  BY <1>f, <3>1 DEF Session
    <2>3. /\ row'[r] = row[r] /\ pc'[r] = "closed"
          /\ disk'[r] = disk[r] /\ memory'[r] = memory[r]
          /\ stale'[r] = stale[r] /\ rec'[r] = RefundedRec(rec[r])
      BY <1>3 DEF RefundWallet, Goto, spool, TypeOK
    <2>4. walletNet'[r] = 0
      BY <1>3, <2>1, FieldTypes
      DEF RefundWallet, PayWallet, Held, Record, RecStatus, TypeOK
    <2>5. Held(r)' = 0
      BY <1>3, <1>f, <2>2, <2>3 DEF RefundWallet, Held, RefundedRec, Record
    <2>6. WalletInv(r)'
      BY <2>1, <2>3, <2>4, <2>5 DEF WalletInv, WalletOwed
    <2>7. PhaseInv(r)' /\ CopiesInv(r)' /\ RecordInv(r)' /\ TokenInv(r)'
      BY <1>f, <2>1, <2>2, <2>3
      DEF RequestInv, PhaseInv, CopiesInv, RecordInv, TokenInv, TokenOwed,
          Undecided, Open, RefundedRec, Record, BeforeSettle, AfterSettle
    <2>. QED  BY <2>6, <2>7 DEF RequestInv
  <1>4. CASE RollbackAdjustment(r)
    <2>1. /\ sess[r].ledgerActive
          /\ row[r].status # "rolled_back"
      BY <1>4 DEF RollbackAdjustment, RequestInv, PhaseInv, AfterSettle
    <2>2. CASE row[r].status = "absent"
      BY <1>4, <2>1, <2>2
      DEF RollbackAdjustment, RequestInv, PhaseInv, CopiesInv, RecordInv,
          TokenInv, TokenOwed, WalletInv, WalletOwed, Held, Reservation,
          Undecided, Open, SettleReq, BeforeSettle, AfterSettle, Goto, spool,
          funds, TypeOK
    <2>3. CASE row[r].status # "absent"
      <3>1. RollBackRow(r) /\ CloseRefunded(r)
        BY <1>4, <2>3 DEF RollbackAdjustment
      <3>2. /\ sess'[r].ledgerActive /\ pc'[r] = "closed"
        BY <1>f, <2>1, <3>1 DEF CloseRefunded, Goto, TypeOK, Session
      <3>3. CASE row[r].status = "pending"
        <4>1. row[r].req = SettleReq(r)
          BY <2>1, <3>3, <1>f, NoReqType
          DEF RequestInv, CopiesInv, Undecided, Adjustment, RowStatus
        <4>2. CreditReservation(r, SettleReq(r))
          BY <3>1, <3>3, <4>1 DEF RollBackRow
        <4>3. /\ row'[r].status = "rolled_back"
              /\ walletNet'[r] = 0 /\ tokenNet'[r] = 0
              /\ rec'[r].status \notin {"reserved", "trusted"}
              /\ rec'[r].status = "none" => rec'[r].collected = 0
          <5>1. Undecided(r)
            BY <3>3 DEF Undecided
          <5>2. row'[r] = [status |-> "rolled_back", req |-> SettleReq(r)]
            BY <1>f, <4>2 DEF CreditReservation, TypeOK
          <5>. QED  BY <2>1, <4>2, <5>1, <5>2, CreditReservationEffect
        <4>. QED  BY <3>2, <4>3, DecidedInv DEF BeforeSettle
      <3>4. CASE row[r].status = "applied"
        <4>1. CreditCharge(r)
          BY <3>1, <3>4 DEF RollBackRow
        <4>2. row[r].req \in Req
          BY <1>f, <3>4 DEF Adjustment
        <4>3. /\ walletNet[r] = row[r].req.charge
              /\ tokenNet[r] = row[r].req.charge
              /\ rec[r].status \notin {"reserved", "trusted"}
              /\ rec[r].status = "none" => rec[r].collected = 0
          BY <3>4 DEF RequestInv, TokenInv, TokenOwed, WalletInv, WalletOwed,
                      RecordInv, Undecided, Open
        <4>4. /\ row'[r].status = "rolled_back" /\ rec'[r] = rec[r]
              /\ walletNet'[r] = 0 /\ tokenNet'[r] = 0
          BY <4>1, <4>2, <4>3, <1>f
          DEF CreditCharge, PayWallet, PayToken, TypeOK, Adjustment, Req
        <4>. QED  BY <3>2, <4>3, <4>4, DecidedInv DEF BeforeSettle
      <3>. QED  BY <1>f, <2>1, <2>3, <3>3, <3>4 DEF Adjustment, RowStatus
    <2>. QED  BY <2>2, <2>3
  <1>5. CASE RefundReservation(r)
    <2>1. /\ sess[r].ledgerActive
          /\ row[r].status # "rolled_back"
      BY <1>5 DEF RefundReservation, RequestInv, PhaseInv, AfterSettle
    <2>2. CASE row[r].status = "applied"
      BY <1>5, <2>1, <2>2
      DEF RefundReservation, RequestInv, PhaseInv, CopiesInv, RecordInv,
          TokenInv, TokenOwed, WalletInv, WalletOwed, Held, Reservation,
          Undecided, Open, SettleReq, BeforeSettle, AfterSettle, Goto, spool,
          funds, TypeOK
    <2>3. CASE row[r].status # "applied"
      <3>1. Undecided(r) /\ CloseRefunded(r)
        BY <1>5, <1>f, <2>1, <2>3
        DEF RefundReservation, Undecided, Adjustment, RowStatus
      <3>2. sess'[r].ledgerActive /\ pc'[r] = "closed"
        BY <1>f, <2>1, <3>1 DEF CloseRefunded, Goto, TypeOK, Session
      <3>3. row[r].status = "pending" => row[r].req = SettleReq(r)
        BY <2>1, <3>1, <1>f, NoReqType
        DEF RequestInv, CopiesInv, Adjustment, RowStatus
      <3>4. PICK q \in {SettleReq(r), ReservationReq(r)} :
               CreditReservation(r, q)
        BY <1>5, <2>3, <3>1, <3>3 DEF RefundReservation, Undecided
      <3>5. /\ row'[r].status = "rolled_back"
            /\ walletNet'[r] = 0 /\ tokenNet'[r] = 0
            /\ rec'[r].status \notin {"reserved", "trusted"}
            /\ rec'[r].status = "none" => rec'[r].collected = 0
        <4>1. row'[r] = [status |-> "rolled_back", req |-> q]
          BY <3>4 DEF CreditReservation, TypeOK
        <4>. QED  BY <2>1, <3>1, <3>4, <4>1, CreditReservationEffect
      <3>. QED  BY <3>2, <3>5, DecidedInv DEF BeforeSettle
    <2>. QED  BY <2>2, <2>3
  <1>. QED  BY <1>1, <1>2, <1>3, <1>4, <1>5 DEF RefundStep

(* Leases, recovery passes and crashes.                                      *)
LEMMA BackgroundInv ==
    ASSUME TypeOK, NEW r \in Requests, RequestInv(r), BackgroundStep(r)
    PROVE  RequestInv(r)'
  <1>f. /\ sess \in [Requests -> Session] /\ sess[r] \in Session
        /\ rec \in [Requests -> Record] /\ rec[r] \in Record
        /\ row[r] \in Adjustment
    BY FieldTypes DEF TypeOK
  <1>1. CASE LeaseExpires(r) \/ RefreshLease(r)
    <2>1. /\ rec'[r].status = rec[r].status /\ rec'[r].amount = rec[r].amount
          /\ rec'[r].collected = rec[r].collected
          /\ rec[r].status # "none"
      BY <1>1, <1>f DEF LeaseExpires, RefreshLease, Open, Record
    <2>. QED  BY <1>1, <2>1
              DEF LeaseExpires, RefreshLease, RequestInv, PhaseInv, CopiesInv,
                  RecordInv, TokenInv, TokenOwed, WalletInv, WalletOwed, Held,
                  Reservation, Undecided, Open, SettleReq, NoRecord, spool,
                  funds
  <1>2. CASE RecoverExpired(r)
    <2>1. CASE Owns(r)
      <3>1. /\ rec'[r].status = rec[r].status /\ rec'[r].amount = rec[r].amount
            /\ rec'[r].collected = rec[r].collected
            /\ rec[r].status # "none"
        BY <1>2, <1>f, <2>1 DEF RecoverExpired, Open, Record
      <3>. QED  BY <1>2, <2>1, <3>1
                DEF RecoverExpired, RequestInv, PhaseInv, CopiesInv,
                    RecordInv, TokenInv, TokenOwed, WalletInv, WalletOwed,
                    Held, Reservation, Undecided, Open, SettleReq, NoRecord,
                    spool
    <2>2. CASE ~Owns(r)
      <3>1. /\ row[r].status = "absent" /\ rec[r].collected = 0
            /\ rec[r].status \in {"reserved", "trusted"}
            /\ walletNet[r] = Held(r)
        BY <1>2, <1>f, <2>2
        DEF RecoverExpired, Owns, Open, RequestInv, RecordInv, WalletInv,
            WalletOwed, Undecided, Adjustment, RowStatus
      <3>2. /\ rec'[r] = ExpiredRec(rec[r])
            /\ walletNet'[r] = walletNet[r] + ExpiredCharge(rec[r])
            /\ row'[r] = row[r] /\ sess'[r] = sess[r] /\ pc'[r] = pc[r]
            /\ disk'[r] = disk[r] /\ memory'[r] = memory[r]
            /\ stale'[r] = stale[r] /\ tokenNet'[r] = tokenNet[r]
        BY <1>2, <2>2 DEF RecoverExpired, PayWallet, TypeOK, spool
      <3>3. /\ rec'[r].status \in {"settled", "refunded"}
            /\ rec'[r].amount = rec[r].amount
            /\ rec'[r].status = "settled" /\ rec'[r].collected = 0 =>
                  rec[r].status = "reserved" \/ rec[r].amount = 0
        BY <1>f, <3>1, <3>2 DEF ExpiredRec, Record
      <3>4. Held(r)' = Held(r) + ExpiredCharge(rec[r])
        BY <1>f, <3>1, <3>2, FieldTypes DEF Held, ExpiredRec, ExpiredCharge,
                                            Record
      <3>5. WalletInv(r)'
        BY <3>1, <3>2, <3>4 DEF WalletInv, WalletOwed
      <3>6. PhaseInv(r)' /\ CopiesInv(r)' /\ TokenInv(r)'
        BY <3>1, <3>2 DEF RequestInv, PhaseInv, CopiesInv, TokenInv,
                          TokenOwed, Undecided, SettleReq, NoRecord
      <3>7. RecordInv(r)'
        BY <3>1, <3>2, <3>3, FieldTypes
        DEF RequestInv, RecordInv, Undecided, Open, Reservation
      <3>. QED  BY <3>5, <3>6, <3>7 DEF RequestInv
    <2>. QED  BY <2>1, <2>2
  <1>3. CASE RecoverUnpersisted(r)
    <2>1. PICK q \in {disk[r], memory[r]} \ {NoReq} :
             /\ EnsureResult(row[r], q) = "ok"
             /\ row' = [row EXCEPT ![r] = EnsuredRow(row[r], q)]
      BY <1>3 DEF RecoverUnpersisted
    <2>2. /\ disk'[r] \in {disk[r], NoReq} /\ memory'[r] \in {memory[r], NoReq}
          /\ rec'[r] = rec[r] /\ stale'[r] = stale[r] /\ sess'[r] = sess[r]
          /\ pc'[r] = pc[r]
          /\ walletNet'[r] = walletNet[r] /\ tokenNet'[r] = tokenNet[r]
      BY <1>3 DEF RecoverUnpersisted, spool, funds, TypeOK
    <2>3. \/ row'[r] = row[r]
          \/ /\ row[r].status = "absent"
             /\ row'[r] = [status |-> "pending", req |-> SettleReq(r)]
             /\ sess[r].ledgerActive
      BY <2>1 DEF EnsuredRow, RequestInv, CopiesInv, Undecided, TypeOK
    <2>4. CopiesInv(r)'
      BY <2>2, <2>3 DEF RequestInv, CopiesInv, Undecided, SettleReq
    <2>5. PhaseInv(r)' /\ RecordInv(r)' /\ TokenInv(r)' /\ WalletInv(r)'
      BY <2>2, <2>3
      DEF RequestInv, PhaseInv, RecordInv, TokenInv, TokenOwed, WalletInv,
          WalletOwed, Held, Reservation, Undecided, Open, SettleReq
    <2>. QED  BY <2>4, <2>5 DEF RequestInv
  <1>4. CASE ReadPending(r)
    BY <1>4
    DEF ReadPending, RequestInv, PhaseInv, CopiesInv, RecordInv, TokenInv,
        TokenOwed, WalletInv, WalletOwed, Held, Reservation, Undecided, Open,
        SettleReq, spool, funds, TypeOK
  <1>5. CASE RecoverPending(r)
    <2>1. CASE EnsureResult(row[r], stale[r]) = "ok" /\ Undecided(r)
      <3>1. stale[r] = SettleReq(r) /\ sess[r].ledgerActive
        BY <1>5, <2>1 DEF RecoverPending, RequestInv, CopiesInv
      <3>2. sess'[r].ledgerActive /\ pc'[r] \notin BeforeSettle
        BY <1>5, <3>1 DEF RecoverPending, RequestInv, PhaseInv
      <3>. QED  BY <1>5, <2>1, <3>1, <3>2, ApplyInv DEF RecoverPending
    <2>2. CASE ~(EnsureResult(row[r], stale[r]) = "ok" /\ Undecided(r))
      <3>1. /\ row'[r] = row[r] /\ rec'[r] = rec[r]
            /\ walletNet'[r] = walletNet[r] /\ tokenNet'[r] = tokenNet[r]
        BY <1>5, <1>f, <2>2, EnsureOk
        DEF RecoverPending, ApplyAdjustment, Undecided, funds
      <3>2. /\ stale'[r] = NoReq
            /\ disk'[r] = disk[r] /\ memory'[r] = memory[r]
            /\ sess'[r] = sess[r] /\ pc'[r] = pc[r]
        BY <1>5 DEF RecoverPending, spool, TypeOK
      <3>. QED  BY <3>1, <3>2
                DEF RequestInv, PhaseInv, CopiesInv, RecordInv, TokenInv,
                    TokenOwed, WalletInv, WalletOwed, Held, Reservation,
                    Undecided, Open, SettleReq
    <2>. QED  BY <2>1, <2>2
  <1>6. CASE Crash(r)
    <2>1. /\ sess'[r].pre = sess[r].pre /\ sess'[r].consumed = sess[r].consumed
          /\ sess'[r].actual = sess[r].actual
          /\ sess'[r].ledgerActive = sess[r].ledgerActive
      BY <1>6, <1>f DEF Crash, Session
    <2>2. /\ row'[r] = row[r] /\ rec'[r] = rec[r] /\ disk'[r] = disk[r]
          /\ memory'[r] = NoReq /\ stale'[r] = stale[r] /\ pc'[r] = "crashed"
          /\ walletNet'[r] = walletNet[r] /\ tokenNet'[r] = tokenNet[r]
      BY <1>6 DEF Crash, Goto, funds, TypeOK
    <2>. QED  BY <2>1, <2>2
              DEF RequestInv, PhaseInv, CopiesInv, RecordInv, TokenInv,
                  TokenOwed, WalletInv, WalletOwed, Held, Reservation,
                  Undecided, Open, SettleReq, BeforeSettle, AfterSettle
  <1>. QED  BY <1>1, <1>2, <1>3, <1>4, <1>5, <1>6 DEF BackgroundStep

-----------------------------------------------------------------------------
(* The theorems.                                                             *)

(* The invariant holds at the start.                                         *)
LEMMA InvInit == Init => Inv
  <1>. SUFFICES ASSUME Init PROVE Inv
    OBVIOUS
  <1>1. TypeOK
    BY TypeInit
  <1>2. ASSUME NEW r \in Requests PROVE RequestInv(r)
    BY DEF Init, NoRow, NewSession, NoRecord, RequestInv, PhaseInv, CopiesInv,
           RecordInv, TokenInv, TokenOwed, WalletInv, WalletOwed, Held,
           Reservation, Undecided, Open, BeforeSettle, AfterSettle
  <1>. QED  BY <1>1, <1>2 DEF Inv

(* Every step belongs to some request.                                       *)
LEMMA NextIsRequestStep == Next => \E r \in Requests : RequestStep(r)
  BY DEF Next, RequestStep, BackgroundStep

(* Every step keeps it.                                                      *)
LEMMA InvStep == Inv /\ [Next]_vars => Inv'
  <1>. SUFFICES ASSUME Inv, [Next]_vars PROVE Inv'
    OBVIOUS
  <1>1. TypeOK /\ TypeOK'
    BY TypeStep DEF Inv
  <1>2. CASE Next
    <2>1. PICK r \in Requests : RequestStep(r)
      BY <1>2, NextIsRequestStep
    <2>2. RequestInv(r)'
      BY <1>1, <2>1, PreConsumeInv, ReserveInv, DeliveryInv, SettleInv,
         SettleStepInv, RefundInv, BackgroundInv DEF Inv, RequestStep
    <2>3. ASSUME NEW s \in Requests \ {r} PROVE RequestInv(s)'
      BY <1>1, <2>1, FrameHolds, FrameInv DEF Inv
    <2>. QED  BY <1>1, <2>2, <2>3 DEF Inv
  <1>3. CASE UNCHANGED vars
    <2>1. ASSUME NEW s \in Requests PROVE RequestInv(s)'
      BY <1>3 DEF Inv, vars, RequestInv, PhaseInv, CopiesInv, RecordInv,
                  TokenInv, TokenOwed, WalletInv, WalletOwed, Held,
                  Reservation, Undecided, Open, SettleReq
    <2>. QED  BY <1>1, <2>1 DEF Inv
  <1>. QED  BY <1>2, <1>3

(* So it always holds.                                                       *)
LEMMA InvHolds == Spec => []Inv
  BY InvInit, InvStep, PTL DEF Spec

(* The session, the wallet row, the ledger row and every copy of the settle  *)
(* request agree on one reservation until the row is decided.                *)
THEOREM LedgerInvHolds == Spec => []LedgerInv
  <1>1. Inv => LedgerInv
    BY DEF Inv, RequestInv, LedgerInv
  <1>. QED  BY <1>1, InvHolds, PTL

(* What a request has taken from the wallet is what its rows say, for any    *)
(* number of requests, quotas and charges, and in every interleaving of      *)
(* settle, refund, expiry, spool recovery, replays and crashes.              *)
THEOREM WalletCorrect == Spec => []WalletMatchesLedger
  <1>1. Inv => WalletMatchesLedger
    BY DEF Inv, RequestInv, WalletInv, WalletMatchesLedger
  <1>. QED  BY <1>1, InvHolds, PTL

(* Once a ledger row exists, the token agrees with it.                       *)
THEOREM TokenCorrect == Spec => []TokenMatchesLedger
  <1>1. Inv => TokenMatchesLedger
    BY DEF Inv, RequestInv, TokenInv, TokenMatchesLedger
  <1>. QED  BY <1>1, InvHolds, PTL

(* Nothing moves for a request whose charge was rolled back, whatever stale  *)
(* copy of its settle request a recovery pass still holds.                   *)
THEOREM RolledBackFinal == Spec => RolledBackIsFinal
  <1>1. ASSUME Inv, Next, NEW s \in Requests PROVE StaysRolledBack(s)
    <2>1. PICK r \in Requests : RequestStep(r)
      BY <1>1, NextIsRequestStep
    <2>2. CASE s # r
      BY <1>1, <2>1, <2>2, FrameHolds DEF Inv, Frame, StaysRolledBack
    <2>3. CASE s = r
      <3>. SUFFICES ASSUME row[r].status = "rolled_back"
                    PROVE  StaysRolledBack(r)
        BY <2>3 DEF StaysRolledBack
      <3>1. pc[r] \in {"closed", "crashed"} /\ ~Open(r)
        BY <1>1 DEF Inv, RequestInv, PhaseInv, RecordInv, Undecided
      <3>2. BackgroundStep(r)
        BY <2>1, <3>1
        DEF RequestStep, PreConsumeStep, PreConsumeToken, PreConsumeWallet,
            PreConsumeWalletFails, PreConsumeUndo, PreConsumeTrusted,
            PreConsumeNothing, ReserveStep, ReserveToken, ReserveTokenFails,
            ReserveWallet, ReserveWalletFails, ReserveUndo, DeliveryStep,
            WriteResponse, MarkClientDelivered, Settle, SettleStep,
            AcceptDelivered, EnsurePending, Lookup, Apply, ApplyFails,
            Persist, PersistFound, PersistSpool, PersistApply, Collect,
            CollectFails, RequestFails, Rollback, RefundStep, RefundNotNeeded,
            RefundThroughLedger, RefundToken, RefundWallet, RefundWalletFails,
            RefundUndo, RollbackAdjustment, RefundReservation,
            LedgerRefundFails
      <3>. QED  BY <3>1, <3>2
                DEF BackgroundStep, LeaseExpires, RefreshLease, RecoverExpired,
                    RecoverUnpersisted, ReadPending, RecoverPending, Crash,
                    EnsureResult, StaysRolledBack, funds, TypeOK
    <2>. QED  BY <2>2, <2>3
  <1>2. ASSUME Inv, [Next]_vars PROVE \A r \in Requests : StaysRolledBack(r)
    BY <1>1, <1>2 DEF vars, StaysRolledBack
  <1>3. Inv /\ [Next]_vars => [\A r \in Requests : StaysRolledBack(r)]_vars
    BY <1>2
  <1>. QED  BY <1>3, InvHolds, PTL DEF Spec, RolledBackIsFinal

(* A reserve that carries the delivery mark is returned by its own handler   *)
(* or not at all: no recovery pass does it.                                  *)
THEOREM DeliveredKept == Spec => RecoveryKeepsDelivered
  <1>1. ASSUME TypeOK, Next, NEW s \in Requests PROVE KeepsDelivered(s)
    <2>1. PICK r \in Requests : RequestStep(r)
      BY <1>1, NextIsRequestStep
    <2>2. CASE s # r
      BY <1>1, <2>1, <2>2, FrameHolds DEF Frame, KeepsDelivered, Open
    <2>3. CASE s = r
      <3>. SUFFICES ASSUME rec[r].delivered, Open(r), pc'[r] = pc[r]
                    PROVE  rec'[r].status # "refunded"
        BY <2>3 DEF KeepsDelivered
      <3>. USE DEF Open, Goto, TypeOK
      <3>1. CASE PreConsumeStep(r)
        BY <1>1, <3>1
        DEF PreConsumeStep, PreConsumeToken, PreConsumeWallet,
            PreConsumeWalletFails, PreConsumeUndo, PreConsumeTrusted,
            PreConsumeNothing
      <3>2. CASE ReserveStep(r) \/ DeliveryStep(r) \/ Settle(r)
        BY <1>1, <3>2
        DEF ReserveStep, ReserveToken, ReserveTokenFails, ReserveWallet,
            ReserveWalletFails, ReserveUndo, DeliveryStep, WriteResponse,
            MarkClientDelivered, Settle, Record
      <3>3. CASE SettleStep(r)
        BY <1>1, <3>3
        DEF SettleStep, AcceptDelivered, EnsurePending, Lookup, AfterLookup,
            Apply, ApplyFails, Persist, PersistFound, PersistSpool,
            PersistApply, Collect, CollectFails, Finish
      <3>4. CASE RequestFails(r) \/ Rollback(r) \/ RefundStep(r)
        BY <1>1, <3>4
        DEF RequestFails, Rollback, RefundStep, RefundNotNeeded,
            RefundThroughLedger, RefundToken, RefundWallet, RefundWalletFails,
            RefundUndo, RollbackAdjustment, RefundReservation,
            LedgerRefundFails, CloseRefunded
      <3>5. CASE BackgroundStep(r)
        <4>1. rec[r] \in Record
          BY <1>1
        <4>2. CASE LeaseExpires(r) \/ RefreshLease(r) \/ RecoverExpired(r)
          <5>1. \/ \E l \in Lease : rec' = [rec EXCEPT ![r].lease = l]
                \/ rec' = [rec EXCEPT ![r] = ExpiredRec(rec[r])]
            BY <4>2 DEF LeaseExpires, RefreshLease, RecoverExpired, Lease
          <5>2. /\ \A l \in Lease :
                      [rec[r] EXCEPT !.lease = l].status = rec[r].status
                /\ ExpiredRec(rec[r]).status = "settled"
            BY <4>1 DEF ExpiredRec, Record
          <5>. QED  BY <1>1, <5>1, <5>2
        <4>3. CASE RecoverUnpersisted(r) \/ ReadPending(r) \/ Crash(r)
          BY <4>3 DEF RecoverUnpersisted, ReadPending, Crash
        <4>4. CASE RecoverPending(r)
          BY <1>1, <4>1, <4>4 DEF RecoverPending, ApplyAdjustment, ApplyMoney,
                                  SettledRec, Record
        <4>. QED  BY <3>5, <4>2, <4>3, <4>4 DEF BackgroundStep
      <3>. QED  BY <2>1, <3>1, <3>2, <3>3, <3>4, <3>5 DEF RequestStep
    <2>. QED  BY <2>2, <2>3
  <1>2. ASSUME TypeOK, [Next]_vars PROVE \A r \in Requests : KeepsDelivered(r)
    BY <1>1, <1>2 DEF vars, KeepsDelivered, Open
  <1>3. TypeOK /\ [Next]_vars => [\A r \in Requests : KeepsDelivered(r)]_vars
    BY <1>2
  <1>. QED  BY <1>3, TypeCorrect, PTL DEF Spec, RecoveryKeepsDelivered
=============================================================================
