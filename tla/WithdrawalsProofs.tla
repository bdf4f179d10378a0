-------------------------- MODULE WithdrawalsProofs --------------------------
(* Theorems about Withdrawals, for every value of its constants. *)
EXTENDS Withdrawals, FiniteSetTheorems, TLAPS

USE DEF AddSteps, HoldSteps, LockedSteps, PayOrCancel, Steps

-----------------------------------------------------------------------------
(* Type correctness.  The only subtle part is that a decrement is guarded  *)
(* by Covers, so that no balance becomes negative.                         *)

LEMMA InitType == WithdrawalsAssumption /\ Init => TypeOK
  BY DEF WithdrawalsAssumption, Init, TypeOK, RowsOK, LocksOK, RequestsOK, HistoryOK, Amounts

\* A request may start, move on or end.
LEMMA StartType ==
    ASSUME TypeOK, NEW r \in Requests, NEW st \in Steps \ {"idle", "leaked"},
           NEW w \in Wallets, NEW p \in Payments \cup {None}, NEW a \in Amounts \cup {0},
           st \in AddSteps \cup PayOrCancel => p \in Payments,
           st \in AddSteps \cup HoldSteps => a \in Amounts,
           Start(r, st, w, p, a),
           UNCHANGED <<wallets, payments, locks, sends, history>>
    PROVE  TypeOK'
  BY DEF TypeOK, RowsOK, LocksOK, RequestsOK, HistoryOK, Start, wallets, payments, locks, history

LEMMA GotoType ==
    ASSUME RequestsOK, NEW r \in Requests, NEW st,
           \/ step[r] \in AddSteps /\ st \in AddSteps
           \/ step[r] \in HoldSteps /\ st \in HoldSteps
           \/ step[r] \in PayOrCancel /\ st \in PayOrCancel,
           Goto(r, st)
    PROVE  RequestsOK'
  BY DEF RequestsOK, Goto, args

LEMMA EndType ==
    ASSUME RequestsOK, NEW r \in Requests, NEW st \in {"idle", "leaked"}, End(r, st)
    PROVE  RequestsOK'
  BY DEF RequestsOK, End

LEMMA ReleaseType ==
    ASSUME LocksOK, NEW r \in Requests, ReleaseLocks(r)
    PROVE  LocksOK'
  BY DEF LocksOK, ReleaseLocks, Unlocked

LEMMA RollbackType ==
    ASSUME TypeOK, NEW r \in Requests, Rollback(r), HistoryOK'
    PROVE  TypeOK'
<1>1. RequestsOK'
  BY EndType DEF Rollback, Finish, TypeOK
<1>2. LocksOK'
  BY ReleaseType DEF Rollback, TypeOK
<1>3. RowsOK'
  BY DEF Rollback, TypeOK, RowsOK, wallets, payments
<1> QED
  BY <1>1, <1>2, <1>3 DEF TypeOK

\* One step per handler step of request r.
LEMMA StepType ==
    ASSUME WithdrawalsAssumption, TypeOK, ChecksStayValid, NEW r \in Requests, Step(r)
    PROVE  TypeOK'
<1> USE DEF TypeOK
<1>0. /\ step[r] \notin {"idle", "leaked"} => onWallet[r] \in Wallets
      /\ step[r] \in AddSteps \cup PayOrCancel => onPayment[r] \in Payments
      /\ step[r] \in AddSteps \cup HoldSteps => asked[r] \in Amounts
  BY DEF RequestsOK
<1>c. /\ step[r] = "addReserved" => available[onWallet[r]] >= asked[r]
      /\ step[r] = "paySent" => locked[onWallet[r]] >= amount[onPayment[r]]
  BY DEF ChecksStayValid, Checked, Covers
<1>1. CASE AddReserve(r)
  <2>1. RequestsOK'
    BY <1>1, GotoType DEF AddReserve
  <2>2. LocksOK'
    BY <1>0, <1>1 DEF AddReserve, LocksOK
  <2>3. RowsOK' /\ HistoryOK'
    BY <1>1 DEF AddReserve, RowsOK, HistoryOK, wallets, payments, history
  <2> QED
    BY <2>1, <2>2, <2>3
<1>2. CASE PayLockPayment(r)
  <2>1. RequestsOK'
    BY <1>2, GotoType DEF PayLockPayment, LockPayment
  <2>2. LocksOK'
    BY <1>0, <1>2 DEF PayLockPayment, LockPayment, LocksOK
  <2>3. RowsOK' /\ HistoryOK'
    BY <1>2 DEF PayLockPayment, LockPayment, RowsOK, HistoryOK, wallets, payments, history
  <2> QED
    BY <2>1, <2>2, <2>3
<1>3. CASE PayDebit(r)
  <2>1. RequestsOK'
    BY <1>3, GotoType DEF PayDebit
  <2>2. LocksOK'
    BY <1>0, <1>3 DEF PayDebit, LocksOK
  <2>3. RowsOK' /\ HistoryOK'
    BY <1>3 DEF PayDebit, RowsOK, HistoryOK, wallets, payments, history
  <2> QED
    BY <2>1, <2>2, <2>3
<1>4. CASE CancelLockPayment(r)
  <2>1. RequestsOK'
    BY <1>4, GotoType DEF CancelLockPayment, LockPayment
  <2>2. LocksOK'
    BY <1>0, <1>4 DEF CancelLockPayment, LockPayment, LocksOK
  <2>3. RowsOK' /\ HistoryOK'
    BY <1>4 DEF CancelLockPayment, LockPayment, RowsOK, HistoryOK, wallets, payments, history
  <2> QED
    BY <2>1, <2>2, <2>3
<1>5. CASE LockCheck(r)
  <2>1. RequestsOK'
    BY <1>5, GotoType DEF LockCheck, locks
  <2>2. LocksOK'
    BY <1>0, <1>5 DEF LockCheck, locks, LocksOK
  <2>3. RowsOK' /\ HistoryOK'
    BY <1>5 DEF LockCheck, locks, RowsOK, HistoryOK, wallets, payments, history
  <2> QED
    BY <2>1, <2>2, <2>3
<1>6. CASE AddCommit(r)
  <2>1. RequestsOK'
    BY <1>6, EndType DEF AddCommit, Finish
  <2>2. LocksOK'
    BY <1>6, ReleaseType DEF AddCommit
  <2>3. RowsOK'
    BY <1>0, <1>c, <1>6 DEF AddCommit, RowsOK, Covers, Amounts
  <2>4. HistoryOK'
    BY <1>6 DEF AddCommit, HistoryOK, history
  <2> QED
    BY <2>1, <2>2, <2>3, <2>4
<1>7. CASE PayCommit(r)
  <2>1. RequestsOK'
    BY <1>7, EndType DEF PayCommit, Finish
  <2>2. LocksOK'
    BY <1>7, ReleaseType DEF PayCommit
  <2>3. RowsOK'
    BY <1>0, <1>c, <1>7 DEF PayCommit, RowsOK, Covers, Amounts
  <2>4. HistoryOK'
    BY <1>7 DEF PayCommit, HistoryOK, history
  <2> QED
    BY <2>1, <2>2, <2>3, <2>4
<1>8. CASE CancelCommit(r)
  <2>1. RequestsOK'
    BY <1>8, EndType DEF CancelCommit, Finish
  <2>2. LocksOK'
    BY <1>8, ReleaseType DEF CancelCommit
  <2>3. RowsOK'
    BY <1>0, <1>c, <1>8 DEF CancelCommit, RowsOK, Covers, Amounts
  <2>4. HistoryOK'
    BY <1>8 DEF CancelCommit, HistoryOK, history
  <2> QED
    BY <2>1, <2>2, <2>3, <2>4
<1>9. CASE LockCommit(r)
  <2>1. RequestsOK'
    BY <1>9, EndType DEF LockCommit, Finish
  <2>2. LocksOK'
    BY <1>9 DEF LockCommit, LocksOK, locks
  <2>3. RowsOK' /\ HistoryOK'
    BY <1>0, <1>9 DEF LockCommit, RowsOK, HistoryOK, Covers, Amounts, payments
  <2> QED
    BY <2>1, <2>2, <2>3
<1>10. CASE UnlockCommit(r)
  <2>1. RequestsOK'
    BY <1>10, EndType DEF UnlockCommit, Finish
  <2>2. LocksOK'
    BY <1>10 DEF UnlockCommit, LocksOK, locks
  <2>3. RowsOK' /\ HistoryOK'
    BY <1>0, <1>10 DEF UnlockCommit, RowsOK, HistoryOK, Covers, Amounts, payments
  <2> QED
    BY <2>1, <2>2, <2>3
<1>11. CASE PaySend(r)
  <2>1. RequestsOK'
    BY <1>11, GotoType DEF PaySend
  <2>2. RowsOK' /\ LocksOK' /\ HistoryOK'
    BY <1>0, <1>11 DEF PaySend, RowsOK, LocksOK, HistoryOK, wallets, payments, locks, history
  <2> QED
    BY <2>1, <2>2
<1>12. CASE PaySendUnrecorded(r)
  <2>1. HistoryOK'
    BY <1>0, <1>12 DEF PaySendUnrecorded, HistoryOK
  <2> QED
    BY <1>12, <2>1, RollbackType DEF PaySendUnrecorded
<1>13. CASE AddRefuse(r)
  <2>1. HistoryOK'
    BY <1>13 DEF AddRefuse, HistoryOK, history
  <2> QED
    BY <1>13, <2>1, RollbackType DEF AddRefuse
<1>14. CASE PayRefusePayment(r)
  <2>1. HistoryOK'
    BY <1>14 DEF PayRefusePayment, RefusePayment, HistoryOK, history
  <2> QED
    BY <1>14, <2>1, RollbackType DEF PayRefusePayment, RefusePayment
<1>15. CASE PayRefuseBalance(r)
  <2>1. HistoryOK'
    BY <1>15 DEF PayRefuseBalance, RefuseLockedBalance, HistoryOK, history
  <2> QED
    BY <1>15, <2>1, RollbackType DEF PayRefuseBalance, RefuseLockedBalance
<1>16. CASE PaySendRejected(r)
  <2>1. HistoryOK'
    BY <1>16 DEF PaySendRejected, HistoryOK, history
  <2> QED
    BY <1>16, <2>1, RollbackType DEF PaySendRejected
<1>17. CASE CancelRefusePayment(r)
  <2>1. HistoryOK'
    BY <1>17 DEF CancelRefusePayment, RefusePayment, HistoryOK, history
  <2> QED
    BY <1>17, <2>1, RollbackType DEF CancelRefusePayment, RefusePayment
<1>18. CASE CancelRefuseBalance(r)
  <2>1. HistoryOK'
    BY <1>18 DEF CancelRefuseBalance, RefuseLockedBalance, HistoryOK, history
  <2> QED
    BY <1>18, <2>1, RollbackType DEF CancelRefuseBalance, RefuseLockedBalance
<1>19. CASE LockRefuse(r)
  <2>1. HistoryOK'
    BY <1>19 DEF LockRefuse, HistoryOK, history
  <2> QED
    BY <1>19, <2>1, RollbackType DEF LockRefuse
<1>20. CASE LockOutOfRange(r)
  <2>1. HistoryOK'
    BY <1>20 DEF LockOutOfRange, HistoryOK, history
  <2> QED
    BY <1>20, <2>1, RollbackType DEF LockOutOfRange
<1>21. CASE UnlockRefuse(r)
  <2>1. HistoryOK'
    BY <1>21 DEF UnlockRefuse, HistoryOK, history
  <2> QED
    BY <1>21, <2>1, RollbackType DEF UnlockRefuse
<1> QED
  BY <1>1, <1>2, <1>3, <1>4, <1>5, <1>6, <1>7, <1>8, <1>9, <1>10, <1>11, <1>12, <1>13, <1>14,
     <1>15, <1>16, <1>17, <1>18, <1>19, <1>20, <1>21
     DEF Step

LEMMA ArriveType ==
    ASSUME WithdrawalsAssumption, TypeOK, NEW r \in Requests, Arrive(r)
    PROVE  TypeOK'
<1>1. ASSUME NEW w \in Wallets, NEW p \in Payments, NEW a \in Amounts, AddPayment(r, w, p, a)
      PROVE  TypeOK'
  BY <1>1, StartType DEF AddPayment
<1>2. ASSUME NEW w \in Wallets, NEW p \in Payments, Pay(r, w, p) \/ Cancel(r, w, p)
      PROVE  TypeOK'
  BY <1>2, StartType DEF Pay, Cancel, ArrivePayment
<1>3. ASSUME NEW w \in Wallets, NEW a \in Amounts, LockBalance(r, w, a) \/ UnlockBalance(r, w, a)
      PROVE  TypeOK'
  BY <1>3, StartType DEF LockBalance, UnlockBalance, ArriveHold
<1> QED
  BY <1>1, <1>2, <1>3 DEF Arrive

LEMMA FailType ==
    ASSUME WithdrawalsAssumption, TypeOK, NEW r \in Requests, Fail(r)
    PROVE  TypeOK'
<1>1. CASE AddLeak(r) \/ LockTimeout(r)
  <2>1. RequestsOK'
    BY <1>1, EndType DEF AddLeak, LockTimeout, TypeOK
  <2> QED
    BY <1>1, <2>1 DEF AddLeak, LockTimeout, TypeOK, RowsOK, LocksOK, HistoryOK,
                      wallets, payments, locks, history
<1>2. CASE ConnectionLost(r)
  <2>1. HistoryOK'
    BY <1>2 DEF ConnectionLost, Forget, TypeOK, HistoryOK
  <2> QED
    BY <1>2, <2>1, RollbackType DEF ConnectionLost
<1> QED
  BY <1>1, <1>2 DEF Fail

LEMMA EnvironmentType ==
    ASSUME WithdrawalsAssumption, TypeOK, NEW w \in Wallets, NEW a \in Amounts,
           Credit(w, a) \/ Settle(w, a)
    PROVE  TypeOK'
<1>1. RowsOK' /\ HistoryOK'
  BY DEF Credit, Settle, Covers, TypeOK, RowsOK, HistoryOK, Amounts, payments,
         WithdrawalsAssumption
<1>2. RequestsOK' /\ LocksOK'
  BY DEF Credit, Settle, TypeOK, RequestsOK, LocksOK, requests, locks
<1> QED
  BY <1>1, <1>2 DEF TypeOK

LEMMA CrashType ==
    ASSUME WithdrawalsAssumption, TypeOK, Crash
    PROVE  TypeOK'
  BY DEF Crash, Forget, TypeOK, RowsOK, LocksOK, RequestsOK, HistoryOK, wallets, payments

LEMMA NextType ==
    ASSUME WithdrawalsAssumption, TypeOK, ChecksStayValid, [Next]_vars
    PROVE  TypeOK'
<1>1. CASE UNCHANGED vars
  BY <1>1 DEF vars, TypeOK, RowsOK, LocksOK, RequestsOK, HistoryOK
<1> QED
  BY <1>1, ArriveType, StepType, FailType, EnvironmentType, CrashType DEF Next

-----------------------------------------------------------------------------
(* Row locks.  A step of request r leaves alone every other request, every *)
(* row that another request has locked, and every payment row but those it *)
(* has locked or, in addPayment, is about to insert.                       *)

Frame(r) ==
    /\ \A q \in Requests \ {r} :
        /\ step'[q] = step[q]
        /\ onWallet'[q] = onWallet[q]
        /\ onPayment'[q] = onPayment[q]
        /\ asked'[q] = asked[q]
    /\ \A w \in Wallets : walletLock[w] \notin {None, r} =>
        /\ walletLock'[w] = walletLock[w]
        /\ available'[w] = available[w]
        /\ locked'[w] = locked[w]
    /\ \A p \in Payments : paymentLock[p] \notin {None, r} =>
        paymentLock'[p] = paymentLock[p]
    /\ \A p \in Payments : (paymentLock[p] \notin {None, r} /\ status[p] = "pending") =>
        status'[p] = "pending" /\ owner'[p] = owner[p] /\ amount'[p] = amount[p]
    /\ \A p \in Payments : status[p] = "none" =>
        status'[p] = "none" \/ (step[r] \in AddSteps /\ onPayment[r] = p)
    /\ step'[r] \in AddSteps =>
        \/ step[r] \in AddSteps /\ onPayment'[r] = onPayment[r]
        \/ \A q \in Requests : step[q] \in AddSteps => onPayment[q] # onPayment'[r]

LEMMA RollbackFrame ==
    ASSUME WithdrawalsAssumption, TypeOK, NEW r \in Requests, Rollback(r)
    PROVE  Frame(r)
  BY DEF Rollback, ReleaseLocks, Unlocked, Finish, End, Frame, wallets, payments, TypeOK,
         RowsOK, LocksOK, RequestsOK

LEMMA StepFrame ==
    ASSUME WithdrawalsAssumption, TypeOK, ChecksStayValid, NEW r \in Requests, Step(r)
    PROVE  Frame(r)
<1> USE DEF TypeOK, RowsOK, LocksOK, RequestsOK
<1>0. Checked(r) /\ r # None
  BY DEF ChecksStayValid, WithdrawalsAssumption
<1>1. CASE AddReserve(r)
  BY <1>0, <1>1
     DEF AddReserve, WalletFree, Checked, Actionable, Goto, Frame, wallets, payments, locks, args
<1>2. CASE AddCommit(r)
  BY <1>0, <1>2
     DEF AddCommit, ReleaseLocks, Unlocked, Finish, End, Checked, Actionable, Goto, Frame,
         wallets, payments, locks, args
<1>3. CASE PayLockPayment(r)
  BY <1>0, <1>3
     DEF PayLockPayment, LockPayment, PaymentFree, Checked, Actionable, Goto, Frame, wallets,
         payments, locks, args
<1>4. CASE PayDebit(r)
  BY <1>0, <1>4
     DEF PayDebit, WalletFree, Checked, Actionable, Goto, Frame, wallets, payments, locks, args
<1>5. CASE PaySend(r)
  BY <1>0, <1>5 DEF PaySend, Checked, Actionable, Goto, Frame, wallets, payments, locks, args
<1>6. CASE PayCommit(r)
  BY <1>0, <1>6
     DEF PayCommit, ReleaseLocks, Unlocked, Finish, End, Checked, Actionable, Goto, Frame,
         wallets, payments, locks, args
<1>7. CASE CancelLockPayment(r)
  BY <1>0, <1>7
     DEF CancelLockPayment, LockPayment, PaymentFree, Checked, Actionable, Goto, Frame, wallets,
         payments, locks, args
<1>8. CASE CancelCommit(r)
  BY <1>0, <1>8
     DEF CancelCommit, WalletFree, ReleaseLocks, Unlocked, Finish, End, Checked, Actionable, Goto,
         Frame, wallets, payments, locks, args
<1>9. CASE LockCheck(r)
  BY <1>0, <1>9 DEF LockCheck, Checked, Actionable, Goto, Frame, wallets, payments, locks, args
<1>10. CASE LockCommit(r)
  BY <1>0, <1>10
     DEF LockCommit, WalletFree, Finish, End, Checked, Actionable, Goto, Frame, wallets, payments,
         locks, args
<1>11. CASE UnlockCommit(r)
  BY <1>0, <1>11
     DEF UnlockCommit, WalletFree, Finish, End, Checked, Actionable, Goto, Frame, wallets,
         payments, locks, args
<1>12. CASE \/ AddRefuse(r) \/ PayRefusePayment(r) \/ PayRefuseBalance(r) \/ PaySendRejected(r)
            \/ PaySendUnrecorded(r) \/ CancelRefusePayment(r) \/ CancelRefuseBalance(r)
            \/ LockRefuse(r) \/ LockOutOfRange(r) \/ UnlockRefuse(r)
  BY <1>12, RollbackFrame
     DEF AddRefuse, CancelRefuseBalance, CancelRefusePayment, LockOutOfRange, LockRefuse,
         PayRefuseBalance, PayRefusePayment, PaySendRejected, PaySendUnrecorded,
         RefuseLockedBalance, RefusePayment, UnlockRefuse
<1> QED
  BY <1>1, <1>2, <1>3, <1>4, <1>5, <1>6, <1>7, <1>8, <1>9, <1>10, <1>11, <1>12 DEF Step

LEMMA ArriveFrame ==
    ASSUME WithdrawalsAssumption, TypeOK, NEW r \in Requests, Arrive(r)
    PROVE  Frame(r)
  BY DEF Arrive, AddPayment, Pay, Cancel, LockBalance, UnlockBalance, ArrivePayment, ArriveHold,
         Start, Frame, wallets, payments, locks, TypeOK, RequestsOK

LEMMA FailFrame ==
    ASSUME WithdrawalsAssumption, TypeOK, NEW r \in Requests, Fail(r)
    PROVE  Frame(r)
<1>1. CASE AddLeak(r) \/ LockTimeout(r)
  BY <1>1 DEF AddLeak, LockTimeout, End, Frame, wallets, payments, locks, TypeOK, RequestsOK
<1>2. CASE ConnectionLost(r)
  BY <1>2, RollbackFrame DEF ConnectionLost
<1> QED
  BY <1>1, <1>2 DEF Fail

-----------------------------------------------------------------------------
(* What a request has checked stays valid. *)

\* A step of r cannot invalidate what another request q has checked.
LEMMA OthersChecked ==
    ASSUME WithdrawalsAssumption, TypeOK, ChecksStayValid, NEW r \in Requests, Frame(r),
           NEW q \in Requests \ {r}
    PROVE  Checked(q)'
<1>1. q # None /\ Checked(q)
  BY DEF WithdrawalsAssumption, ChecksStayValid
<1>2. step'[q] = step[q] /\ onWallet'[q] = onWallet[q] /\ onPayment'[q] = onPayment[q]
      /\ asked'[q] = asked[q]
  BY DEF Frame
<1>3. ASSUME step[q] \in AddSteps
      PROVE  /\ status'[onPayment[q]] = "none"
             /\ \A x \in Requests \ {q} : step'[x] \in AddSteps => onPayment'[x] # onPayment[q]
  <2>1. onPayment[q] \in Payments
    BY <1>3 DEF TypeOK, RequestsOK
  <2>2. \A x \in Requests \ {q} : step[x] \in AddSteps => onPayment[x] # onPayment[q]
    BY <1>1, <1>3 DEF Checked
  <2>3. status'[onPayment[q]] = "none"
    BY <1>1, <1>3, <2>1, <2>2 DEF Frame, Checked
  <2>4. ASSUME NEW x \in Requests \ {q}, step'[x] \in AddSteps
        PROVE  onPayment'[x] # onPayment[q]
    <3>1. CASE x # r
      BY <2>2, <2>4, <3>1 DEF Frame
    <3>2. CASE x = r
      BY <1>3, <2>2, <2>4, <3>2 DEF Frame
    <3> QED
      BY <3>1, <3>2
  <2> QED
    BY <2>3, <2>4
<1>4. ASSUME step[q] = "addReserved"
      PROVE  walletLock'[onWallet[q]] = q /\ available'[onWallet[q]] >= asked[q]
  BY <1>1, <1>4 DEF Frame, Checked, Covers, TypeOK, RequestsOK
<1>5. ASSUME step[q] \in LockedSteps
      PROVE  /\ paymentLock'[onPayment[q]] = q
             /\ status'[onPayment[q]] = "pending"
             /\ owner'[onPayment[q]] = onWallet[q]
             /\ amount'[onPayment[q]] = amount[onPayment[q]]
  BY <1>1, <1>5 DEF Frame, Checked, Actionable, TypeOK, RequestsOK
<1>6. ASSUME step[q] \in {"payDebited", "paySent"}
      PROVE  /\ walletLock'[onWallet[q]] = q
             /\ locked'[onWallet[q]] >= amount'[onPayment[q]]
  BY <1>1, <1>5, <1>6 DEF Frame, Checked, Covers, TypeOK, RequestsOK
<1> QED
  BY <1>2, <1>3, <1>4, <1>5, <1>6 DEF Checked, Covers, Actionable

\* Nothing is claimed of a request that has ended.
LEMMA EndedChecked ==
    ASSUME NEW r \in Requests, TypeOK, NEW st \in {"idle", "leaked"}, End(r, st)
    PROVE  Checked(r)'
  BY DEF End, Checked, TypeOK, RequestsOK

\* A step of r leaves its own checks valid.
LEMMA OwnChecked ==
    ASSUME WithdrawalsAssumption, TypeOK, ChecksStayValid, NEW r \in Requests, Step(r)
    PROVE  Checked(r)'
<1> USE DEF TypeOK, RowsOK, LocksOK, RequestsOK
<1>0. Checked(r)
  BY DEF ChecksStayValid
<1>1. CASE AddReserve(r)
  <2>1. \A q \in Requests \ {r} : step'[q] = step[q] /\ onPayment'[q] = onPayment[q]
    BY <1>1 DEF AddReserve, Goto, args
  <2> QED
    BY <1>0, <1>1, <2>1 DEF AddReserve, Checked, Covers, Goto, args, wallets, payments
<1>2. CASE PayLockPayment(r) \/ CancelLockPayment(r)
  BY <1>2 DEF PayLockPayment, CancelLockPayment, LockPayment, Checked, Actionable, Goto, args,
              wallets, payments
<1>3. CASE PayDebit(r)
  BY <1>0, <1>3 DEF PayDebit, Checked, Actionable, Covers, Goto, args, wallets, payments
<1>4. CASE PaySend(r)
  BY <1>0, <1>4 DEF PaySend, Checked, Actionable, Covers, Goto, args, wallets, payments, locks
<1>5. CASE LockCheck(r)
  BY <1>5 DEF LockCheck, Checked, Goto, args
<1>6. CASE AddRefuse(r) \/ PayRefusePayment(r) \/ PayRefuseBalance(r) \/ PaySendRejected(r)
           \/ PaySendUnrecorded(r) \/ CancelRefusePayment(r) \/ CancelRefuseBalance(r)
           \/ LockRefuse(r) \/ LockOutOfRange(r) \/ UnlockRefuse(r)
  BY <1>6, EndedChecked
     DEF AddRefuse, PayRefusePayment, PayRefuseBalance, PaySendRejected, PaySendUnrecorded,
         CancelRefusePayment, CancelRefuseBalance, RefusePayment, RefuseLockedBalance,
         LockRefuse, LockOutOfRange, UnlockRefuse, Rollback, Finish
<1>7. CASE AddCommit(r) \/ PayCommit(r) \/ CancelCommit(r) \/ LockCommit(r) \/ UnlockCommit(r)
  BY <1>7, EndedChecked DEF AddCommit, PayCommit, CancelCommit, LockCommit, UnlockCommit, Finish
<1> QED
  BY <1>1, <1>2, <1>3, <1>4, <1>5, <1>6, <1>7 DEF Step

LEMMA OwnCheckedOnArrival ==
    ASSUME WithdrawalsAssumption, TypeOK, NEW r \in Requests, Arrive(r)
    PROVE  Checked(r)'
  BY DEF Arrive, AddPayment, Pay, Cancel, LockBalance, UnlockBalance, ArrivePayment, ArriveHold,
         Start, Checked, payments, TypeOK, RequestsOK

LEMMA OwnCheckedOnFailure ==
    ASSUME WithdrawalsAssumption, TypeOK, NEW r \in Requests, Fail(r)
    PROVE  Checked(r)'
  BY EndedChecked DEF Fail, AddLeak, LockTimeout, ConnectionLost, Rollback, Finish

\* The pollers' commits wait for the row locks.
LEMMA EnvironmentChecked ==
    ASSUME WithdrawalsAssumption, TypeOK, ChecksStayValid, NEW w \in Wallets, NEW a \in Amounts,
           Credit(w, a) \/ Settle(w, a)
    PROVE  ChecksStayValid'
<1> SUFFICES ASSUME NEW r \in Requests
             PROVE  Checked(r)'
  BY DEF ChecksStayValid
<1>1. Checked(r) /\ r # None
  BY DEF ChecksStayValid, WithdrawalsAssumption
<1>2. CASE Credit(w, a)
  BY <1>1, <1>2 DEF Credit, Checked, Covers, Actionable, WalletFree, payments, locks, requests,
                    Amounts, WithdrawalsAssumption, TypeOK, RowsOK, RequestsOK
<1>3. CASE Settle(w, a)
  BY <1>1, <1>3 DEF Settle, Checked, Covers, Actionable, WalletFree, payments, locks, requests,
                    TypeOK, RowsOK, RequestsOK
<1> QED
  BY <1>2, <1>3

LEMMA NextChecked ==
    ASSUME WithdrawalsAssumption, TypeOK, ChecksStayValid, [Next]_vars
    PROVE  ChecksStayValid'
<1>1. CASE UNCHANGED vars
  BY <1>1 DEF vars, ChecksStayValid, Checked, Covers, Actionable
<1>2. ASSUME NEW r \in Requests, Arrive(r) \/ Step(r) \/ Fail(r)
      PROVE  ChecksStayValid'
  <2>1. Frame(r) /\ Checked(r)'
    BY <1>2, ArriveFrame, StepFrame, FailFrame, OwnChecked, OwnCheckedOnArrival,
       OwnCheckedOnFailure
  <2>2. \A q \in Requests \ {r} : Checked(q)'
    BY <2>1, OthersChecked
  <2> QED
    BY <2>1, <2>2 DEF ChecksStayValid
<1>3. CASE Crash
  BY <1>3 DEF Crash, ChecksStayValid, Checked
<1> QED
  BY <1>1, <1>2, <1>3, EnvironmentChecked DEF Next

\* Every balance, row, lock and request stays of its type: in particular no
\* interleaving of the endpoints drives a balance below zero.
THEOREM TypeCorrect == Spec => []TypeOK
<1>1. Init => TypeOK /\ ChecksStayValid
  BY InitType, WithdrawalsAssumption DEF Init, ChecksStayValid, Checked
<1>2. TypeOK /\ ChecksStayValid /\ [Next]_vars => (TypeOK /\ ChecksStayValid)'
  BY NextType, NextChecked, WithdrawalsAssumption
<1> QED
  BY <1>1, <1>2, PTL DEF Spec

\* Nothing a handler validated under its row locks goes stale before its
\* commit, whatever the other requests, the pollers and the failures do.
THEOREM ChecksAreStable == Spec => []ChecksStayValid
<1>1. Init => TypeOK /\ ChecksStayValid
  BY InitType, WithdrawalsAssumption DEF Init, ChecksStayValid, Checked
<1>2. TypeOK /\ ChecksStayValid /\ [Next]_vars => (TypeOK /\ ChecksStayValid)'
  BY NextType, NextChecked, WithdrawalsAssumption
<1> QED
  BY <1>1, <1>2, PTL DEF Spec

-----------------------------------------------------------------------------
(* Every broadcast is accounted for. *)

\* A payment being sent is pending and has one sender: the holder of its lock.
LEMMA OneSender ==
    ASSUME WithdrawalsAssumption, TypeOK, ChecksStayValid, NEW r \in Requests,
           step[r] \in LockedSteps, NEW q \in Requests, step[q] = "paySent",
           onPayment[q] = onPayment[r]
    PROVE  q = r
  BY DEF ChecksStayValid, Checked

LEMMA SentIsPending ==
    ASSUME TypeOK, ChecksStayValid, NEW p \in Payments, InFlight(p)
    PROVE  status[p] = "pending"
  BY DEF InFlight, Forgotten, ChecksStayValid, Checked, Actionable

\* A step that moves no request into or out of paySent, broadcasts nothing and
\* keeps paid payments as they are keeps the account.
LEMMA QuietAccounted ==
    ASSUME SendsAccounted, UNCHANGED <<sends, lost>>,
           \A q \in Requests : (step'[q] = "paySent") = (step[q] = "paySent"),
           \A q \in Requests : step[q] = "paySent" => onPayment'[q] = onPayment[q],
           \A p \in Payments : (status'[p] = "paid") = (status[p] = "paid")
    PROVE  SendsAccounted'
<1> SUFFICES ASSUME NEW p \in Payments
             PROVE  Accounted(p)'
  BY DEF SendsAccounted
<1>1. InFlight(p)' <=> InFlight(p)
  BY DEF InFlight, Forgotten
<1> QED
  BY <1>1 DEF SendsAccounted, Accounted

\* Ending a request that broadcast nothing is quiet.
LEMMA QuietRollback ==
    ASSUME TypeOK, SendsAccounted, NEW r \in Requests, step[r] # "paySent", Rollback(r),
           UNCHANGED <<sends, lost>>
    PROVE  SendsAccounted'
  BY QuietAccounted DEF Rollback, Finish, End, wallets, payments, TypeOK, RequestsOK

\* The transaction of r dies after its broadcast: that broadcast is lost.
LEMMA ForgetAccounted ==
    ASSUME WithdrawalsAssumption, TypeOK, ChecksStayValid, SendsAccounted,
           NEW r \in Requests, Forget({r}), Rollback(r), UNCHANGED sends
    PROVE  SendsAccounted'
<1> SUFFICES ASSUME NEW p \in Payments
             PROVE  Accounted(p)'
  BY DEF SendsAccounted
<1>1. /\ \A q \in Requests \ {r} : step'[q] = step[q] /\ onPayment'[q] = onPayment[q]
      /\ step'[r] = "idle"
      /\ status' = status
  BY DEF Rollback, Finish, End, payments, TypeOK, RequestsOK
<1>2. lost'[p] = IF Forgotten(p, {r}) THEN lost[p] + 1 ELSE lost[p]
  BY DEF Forget
<1>3. CASE Forgotten(p, {r})
  <2>1. step[r] = "paySent" /\ onPayment[r] = p
    BY <1>3 DEF Forgotten
  <2>2. InFlight(p) /\ status[p] = "pending"
    BY <2>1, SentIsPending DEF InFlight, Forgotten
  <2>3. ~InFlight(p)'
    BY <1>1, <2>1, OneSender DEF InFlight, Forgotten
  <2> QED
    BY <1>1, <1>2, <1>3, <2>2, <2>3 DEF SendsAccounted, Accounted, TypeOK, HistoryOK
<1>4. CASE ~Forgotten(p, {r})
  <2>1. InFlight(p)' <=> InFlight(p)
    BY <1>1, <1>4 DEF InFlight, Forgotten
  <2> QED
    BY <1>1, <1>2, <1>4, <2>1 DEF SendsAccounted, Accounted
<1> QED
  BY <1>3, <1>4

LEMMA CrashAccounted ==
    ASSUME WithdrawalsAssumption, TypeOK, ChecksStayValid, SendsAccounted, Crash
    PROVE  SendsAccounted'
<1> SUFFICES ASSUME NEW p \in Payments
             PROVE  Accounted(p)'
  BY DEF SendsAccounted
<1>1. /\ lost'[p] = IF InFlight(p) THEN lost[p] + 1 ELSE lost[p]
      /\ sends' = sends /\ status' = status
      /\ ~InFlight(p)'
  BY DEF Crash, Forget, InFlight, Forgotten, payments
<1>2. InFlight(p) => status[p] = "pending"
  BY SentIsPending
<1> QED
  BY <1>1, <1>2 DEF SendsAccounted, Accounted, TypeOK, HistoryOK

\* pay's broadcast, its commit, and a broadcast whose transaction rolls back.
LEMMA PaySendAccounted ==
    ASSUME WithdrawalsAssumption, TypeOK, ChecksStayValid, SendsAccounted,
           NEW r \in Requests, PaySend(r)
    PROVE  SendsAccounted'
<1> PICK p \in Payments : p = onPayment[r]
  BY DEF PaySend, TypeOK, RequestsOK, PayOrCancel, LockedSteps
<1>1. /\ step[r] = "payDebited"
      /\ step' = [step EXCEPT ![r] = "paySent"]
      /\ onPayment' = onPayment /\ status' = status /\ lost' = lost
      /\ sends' = [sends EXCEPT ![p] = @ + 1]
  BY DEF PaySend, Goto, args, payments, history, TypeOK, RequestsOK
<1>2. ~InFlight(p) /\ status[p] = "pending"
  BY <1>1, OneSender DEF InFlight, Forgotten, ChecksStayValid, Checked, Actionable
<1>3. InFlight(p)'
  BY <1>1 DEF InFlight, Forgotten, TypeOK, RequestsOK
<1>4. Accounted(p)'
  BY <1>1, <1>2, <1>3 DEF SendsAccounted, Accounted, TypeOK, HistoryOK
<1>5. ASSUME NEW x \in Payments \ {p}
      PROVE  Accounted(x)'
  <2>1. InFlight(x)' <=> InFlight(x)
    BY <1>1 DEF InFlight, Forgotten, TypeOK, RequestsOK
  <2> QED
    BY <1>1, <2>1 DEF SendsAccounted, Accounted, TypeOK, HistoryOK
<1> QED
  BY <1>4, <1>5 DEF SendsAccounted

LEMMA PayCommitAccounted ==
    ASSUME WithdrawalsAssumption, TypeOK, ChecksStayValid, SendsAccounted,
           NEW r \in Requests, PayCommit(r)
    PROVE  SendsAccounted'
<1> PICK p \in Payments : p = onPayment[r]
  BY DEF PayCommit, TypeOK, RequestsOK, PayOrCancel, LockedSteps
<1>1. /\ step[r] = "paySent"
      /\ \A q \in Requests \ {r} : step'[q] = step[q] /\ onPayment'[q] = onPayment[q]
      /\ step'[r] = "idle"
      /\ sends' = sends /\ lost' = lost
      /\ status' = [status EXCEPT ![p] = "paid"]
  BY DEF PayCommit, Finish, End, history, TypeOK, RequestsOK
<1>2. InFlight(p)
  BY <1>1 DEF InFlight, Forgotten
<1>3. Accounted(p)'
  BY <1>1, <1>2 DEF SendsAccounted, Accounted, TypeOK, RowsOK
<1>4. ASSUME NEW x \in Payments \ {p}
      PROVE  Accounted(x)'
  <2>1. InFlight(x)' <=> InFlight(x)
    BY <1>1 DEF InFlight, Forgotten
  <2> QED
    BY <1>1, <2>1 DEF SendsAccounted, Accounted, TypeOK, RowsOK
<1> QED
  BY <1>3, <1>4 DEF SendsAccounted

LEMMA PaySendUnrecordedAccounted ==
    ASSUME WithdrawalsAssumption, TypeOK, ChecksStayValid, SendsAccounted,
           NEW r \in Requests, PaySendUnrecorded(r)
    PROVE  SendsAccounted'
<1> PICK p \in Payments : p = onPayment[r]
  BY DEF PaySendUnrecorded, TypeOK, RequestsOK, PayOrCancel, LockedSteps
<1>1. /\ step[r] = "payDebited"
      /\ \A q \in Requests \ {r} : step'[q] = step[q] /\ onPayment'[q] = onPayment[q]
      /\ step'[r] = "idle"
      /\ status' = status
      /\ sends' = [sends EXCEPT ![p] = @ + 1]
      /\ lost' = [lost EXCEPT ![p] = @ + 1]
  BY DEF PaySendUnrecorded, Rollback, Finish, End, payments, TypeOK, RequestsOK
<1> SUFFICES ASSUME NEW x \in Payments
             PROVE  Accounted(x)'
  BY DEF SendsAccounted
<1>2. InFlight(x)' <=> InFlight(x)
  BY <1>1 DEF InFlight, Forgotten
<1> QED
  BY <1>1, <1>2 DEF SendsAccounted, Accounted, TypeOK, HistoryOK

LEMMA StepAccounted ==
    ASSUME WithdrawalsAssumption, TypeOK, ChecksStayValid, SendsAccounted,
           NEW r \in Requests, Step(r)
    PROVE  SendsAccounted'
<1> USE DEF TypeOK, RowsOK, RequestsOK
<1>1. CASE AddReserve(r) \/ PayLockPayment(r) \/ PayDebit(r) \/ CancelLockPayment(r) \/ LockCheck(r)
  BY <1>1, QuietAccounted
     DEF AddReserve, PayLockPayment, CancelLockPayment, LockPayment, PayDebit, LockCheck, Goto,
         args, payments, history
<1>2. CASE LockCommit(r) \/ UnlockCommit(r)
  BY <1>2, QuietAccounted DEF LockCommit, UnlockCommit, Finish, End, payments
<1>3. CASE AddCommit(r) \/ CancelCommit(r)
  <2>1. onPayment[r] \in Payments /\ status[onPayment[r]] \in {"none", "pending"}
    BY <1>3 DEF AddCommit, CancelCommit, ChecksStayValid, Checked, Actionable
  <2> QED
    BY <1>3, <2>1, QuietAccounted DEF AddCommit, CancelCommit, Finish, End, history
<1>4. CASE AddRefuse(r) \/ PayRefusePayment(r) \/ PayRefuseBalance(r) \/ PaySendRejected(r)
           \/ CancelRefusePayment(r) \/ CancelRefuseBalance(r)
           \/ LockRefuse(r) \/ LockOutOfRange(r) \/ UnlockRefuse(r)
  BY <1>4, QuietRollback
     DEF AddRefuse, PayRefusePayment, PayRefuseBalance, PaySendRejected, CancelRefusePayment,
         CancelRefuseBalance, RefusePayment, RefuseLockedBalance, LockRefuse, LockOutOfRange,
         UnlockRefuse, history
<1> QED
  BY <1>1, <1>2, <1>3, <1>4, PaySendAccounted, PaySendUnrecordedAccounted, PayCommitAccounted
     DEF Step

LEMMA NextAccounted ==
    ASSUME WithdrawalsAssumption, TypeOK, ChecksStayValid, SendsAccounted, [Next]_vars
    PROVE  SendsAccounted'
<1>1. CASE UNCHANGED vars
  BY <1>1 DEF vars, SendsAccounted, Accounted, InFlight, Forgotten
<1>2. ASSUME NEW r \in Requests, Arrive(r)
      PROVE  SendsAccounted'
  BY <1>2, QuietAccounted
     DEF Arrive, AddPayment, Pay, Cancel, LockBalance, UnlockBalance, ArrivePayment, ArriveHold,
         Start, payments, history, TypeOK, RequestsOK
<1>3. ASSUME NEW r \in Requests, Fail(r)
      PROVE  SendsAccounted'
  <2>1. CASE AddLeak(r) \/ LockTimeout(r)
    BY <2>1, QuietAccounted DEF AddLeak, LockTimeout, AwaitsWallet, AwaitsPayment, End, payments,
                                history, TypeOK, RequestsOK
  <2> QED
    BY <1>3, <2>1, ForgetAccounted DEF Fail, ConnectionLost
<1>4. ASSUME NEW w \in Wallets, NEW a \in Amounts, Credit(w, a) \/ Settle(w, a)
      PROVE  SendsAccounted'
  BY <1>4, QuietAccounted DEF Credit, Settle, payments, requests
<1> QED
  BY <1>1, <1>2, <1>3, <1>4, StepAccounted, CrashAccounted DEF Next


IInv == TypeOK /\ ChecksStayValid /\ SendsAccounted

LEMMA Invariance == Spec => []IInv
<1>1. Init => IInv
  BY InitType, WithdrawalsAssumption
     DEF Init, IInv, ChecksStayValid, Checked, SendsAccounted, Accounted, InFlight, Forgotten
<1>2. IInv /\ [Next]_vars => IInv'
  BY NextType, NextChecked, NextAccounted, WithdrawalsAssumption DEF IInv
<1> QED
  BY <1>1, <1>2, PTL DEF Spec

\* Every broadcast is rolled back by a failure, recorded in a paid row, or
\* about to be recorded by the one handler that made it (pay.js:71-91).
THEOREM EverySendAccounted == Spec => []SendsAccounted
  BY Invariance, PTL DEF IInv

\* With no failure between broadcast and commit, a payment is sent once when
\* it is paid and never when it is refunded (pay.js against cancelPayment.js).
THEOREM PaidExactlyOnce == Spec => []ExactlyOnceUnlessLost
<1>1. IInv => ExactlyOnceUnlessLost
  <2> SUFFICES ASSUME IInv, NEW p \in Payments, lost[p] = 0
               PROVE  /\ sends[p] <= 1
                      /\ status[p] = "paid" => sends[p] = 1
                      /\ status[p] \in {"none", "canceled"} => sends[p] = 0
    BY DEF ExactlyOnceUnlessLost
  <2>1. Accounted(p) /\ (InFlight(p) => status[p] = "pending")
    BY SentIsPending DEF IInv, SendsAccounted
  <2> QED
    BY <2>1 DEF Accounted
<1> QED
  BY <1>1, Invariance, PTL

-----------------------------------------------------------------------------
(* paid and canceled are final. *)

Kept(p) == status'[p] = status[p] /\ owner'[p] = owner[p] /\ amount'[p] = amount[p]

\* Only three steps write a payment row, and none writes a settled one.
LEMMA StepKeepsSettled ==
    ASSUME TypeOK, ChecksStayValid, NEW r \in Requests, Step(r),
           NEW p \in Payments, status[p] \in {"paid", "canceled"}
    PROVE  Kept(p)
<1>1. CASE AddCommit(r) \/ PayCommit(r) \/ CancelCommit(r)
  <2>1. onPayment[r] \in Payments /\ onPayment[r] # p
    BY <1>1 DEF AddCommit, PayCommit, CancelCommit, ChecksStayValid, Checked, Actionable, TypeOK,
                RequestsOK
  <2> QED
    BY <1>1, <2>1 DEF AddCommit, PayCommit, CancelCommit, Kept, TypeOK, RowsOK
<1>2. CASE ~(AddCommit(r) \/ PayCommit(r) \/ CancelCommit(r))
  <2>1. UNCHANGED payments
    BY <1>2 DEF Step, AddReserve, AddRefuse, PayLockPayment, PayRefusePayment, PayDebit,
                PayRefuseBalance, PaySend, PaySendUnrecorded, PaySendRejected, CancelLockPayment,
                CancelRefusePayment, CancelRefuseBalance, LockPayment, RefusePayment,
                RefuseLockedBalance, LockCheck, LockRefuse, LockCommit, LockOutOfRange,
                UnlockCommit, UnlockRefuse, Rollback
  <2> QED
    BY <2>1 DEF payments, Kept
<1> QED
  BY <1>1, <1>2

\* A row marked paid or canceled never changes again (pay.js and
\* cancelPayment.js re-validate the status under the row lock).
THEOREM SettledIsFinal == Spec => StatusFinal
<1>1. IInv /\ [Next]_vars
        => [\A p \in Payments : status[p] \in {"paid", "canceled"} =>
               status'[p] = status[p] /\ owner'[p] = owner[p] /\ amount'[p] = amount[p]]_vars
  <2> SUFFICES ASSUME IInv, Next, NEW p \in Payments, status[p] \in {"paid", "canceled"}
               PROVE  Kept(p)
    BY DEF Kept
  <2>1. ASSUME NEW r \in Requests, Step(r)
        PROVE  Kept(p)
    BY <2>1, StepKeepsSettled DEF IInv
  <2>2. ASSUME NEW r \in Requests, Arrive(r) \/ Fail(r)
        PROVE  Kept(p)
    BY <2>2 DEF Arrive, AddPayment, Pay, Cancel, LockBalance, UnlockBalance, ArrivePayment,
                ArriveHold, Fail, AddLeak, LockTimeout, ConnectionLost, Rollback, payments, Kept
  <2>3. ASSUME NEW w \in Wallets, NEW a \in Amounts, Credit(w, a) \/ Settle(w, a)
        PROVE  Kept(p)
    BY <2>3 DEF Credit, Settle, payments, Kept
  <2>4. CASE Crash
    BY <2>4 DEF Crash, payments, Kept
  <2> QED
    BY <2>1, <2>2, <2>3, <2>4 DEF Next
<1> QED
  BY <1>1, Invariance, PTL DEF Spec, StatusFinal

-----------------------------------------------------------------------------
(* The handlers implement PaymentLedger, when no failure can come between  *)
(* a broadcast and its commit.                                             *)

\* Lock timeouts and leaked transactions only, and no broadcast whose answer
\* is lost.
Recorded == SendOutcomes \subseteq {"hash", "rejected"} /\ Faults \subseteq {"lockTimeout", "leak"}

NothingLost == \A p \in Payments : lost[p] = 0

RInv == IInv /\ NothingLost

\* No failure is left that forgets a broadcast.
LEMMA StaysLost ==
    ASSUME Recorded, [Next]_vars
    PROVE  UNCHANGED lost
<1>1. CASE UNCHANGED vars
  BY <1>1 DEF vars
<1>2. ASSUME NEW r \in Requests, Arrive(r)
      PROVE  UNCHANGED lost
  BY <1>2 DEF Arrive, AddPayment, Pay, Cancel, LockBalance, UnlockBalance, ArrivePayment,
              ArriveHold, history
<1>3. ASSUME NEW r \in Requests, Step(r)
      PROVE  UNCHANGED lost
  <2>1. ~PaySendUnrecorded(r)
    BY DEF PaySendUnrecorded, Recorded
  <2> QED
    BY <1>3, <2>1 DEF Step, AddReserve, AddRefuse, AddCommit, PayLockPayment, PayRefusePayment,
          PayDebit, PayRefuseBalance, PaySend, PaySendRejected, PayCommit, CancelLockPayment,
          CancelRefusePayment, CancelCommit, CancelRefuseBalance, LockPayment, RefusePayment,
          RefuseLockedBalance, LockCheck, LockRefuse, LockCommit, LockOutOfRange, UnlockCommit,
          UnlockRefuse, history
<1>4. ASSUME NEW r \in Requests, Fail(r)
      PROVE  UNCHANGED lost
  BY <1>4 DEF Fail, AddLeak, LockTimeout, ConnectionLost, Recorded, history
<1>5. ASSUME NEW w \in Wallets, NEW a \in Amounts, Credit(w, a) \/ Settle(w, a)
      PROVE  UNCHANGED lost
  BY <1>5 DEF Credit, Settle
<1>6. ~Crash
  BY DEF Crash, Recorded
<1> QED
  BY <1>1, <1>2, <1>3, <1>4, <1>5, <1>6 DEF Next

\* So no broadcast is ever lost.
LEMMA RefinementInvariance ==
    ASSUME Recorded
    PROVE  Spec => []RInv
<1>1. Init => NothingLost
  BY DEF Init, NothingLost
<1>2. NothingLost /\ [Next]_vars => NothingLost'
  BY StaysLost DEF NothingLost
<1>3. Spec => []NothingLost
  BY <1>1, <1>2, PTL DEF Spec
<1> QED
  BY <1>3, Invariance, PTL DEF RInv
-----------------------------------------------------------------------------
(* Each step is one of the ledger's, or shows it nothing. *)

Quiet == UNCHANGED <<available, locked, status, owner, amount, sends>>

\* A request past the payment's lock has not broadcast it yet, and one that
\* has is the only one.
LEMMA SendsOf ==
    ASSUME WithdrawalsAssumption, RInv, NEW r \in Requests, step[r] \in LockedSteps
    PROVE  /\ onPayment[r] \in Payments /\ onWallet[r] \in Wallets
           /\ status[onPayment[r]] = "pending" /\ owner[onPayment[r]] = onWallet[r]
           /\ sends[onPayment[r]] = IF step[r] = "paySent" THEN 1 ELSE 0
<1> DEFINE p == onPayment[r]
<1>1. p \in Payments /\ onWallet[r] \in Wallets
  BY DEF RInv, IInv, TypeOK, RequestsOK, PayOrCancel, LockedSteps
<1>2. status[p] = "pending" /\ owner[p] = onWallet[r]
  BY DEF RInv, IInv, ChecksStayValid, Checked, Actionable
<1>3. InFlight(p) <=> step[r] = "paySent"
  BY OneSender DEF RInv, IInv, InFlight, Forgotten
<1>4. Accounted(p) /\ lost[p] = 0
  BY <1>1 DEF RInv, IInv, SendsAccounted, NothingLost
<1> QED
  BY <1>1, <1>2, <1>3, <1>4 DEF Accounted

\* Taking x away is adding -x, and adding 0 is nothing.
LEMMA Moved ==
    ASSUME NEW f \in [Wallets -> Nat], NEW w \in Wallets, NEW x \in Nat
    PROVE  /\ [f EXCEPT ![w] = @ - x] = [f EXCEPT ![w] = @ + (-x)]
           /\ [f EXCEPT ![w] = @ + 0] = f
           /\ f[w] + 0 >= 0 /\ f[w] + x >= 0
           /\ f[w] >= x => f[w] + (-x) >= 0
<1>1. f[w] \in Nat
  OBVIOUS
<1>2. f[w] - x = f[w] + (-x) /\ f[w] + 0 = f[w]
  BY <1>1
<1>3. [f EXCEPT ![w] = @ + 0] = f
  <2>1. [f EXCEPT ![w] = f[w]] = f
    OBVIOUS
  <2> QED
    BY <1>2, <2>1
<1>4. [f EXCEPT ![w] = @ - x] = [f EXCEPT ![w] = @ + (-x)]
  BY <1>2, Zenon
<1>5. f[w] + 0 >= 0 /\ f[w] + x >= 0 /\ (f[w] >= x => f[w] + (-x) >= 0)
  BY <1>1
<1> QED
  BY <1>3, <1>4, <1>5

LEMMA StepRefines ==
    ASSUME WithdrawalsAssumption, Recorded, RInv, NEW r \in Requests, Step(r)
    PROVE  [Ledger!Next]_Ledger!ledger
<1> DEFINE w == onWallet[r]
           p == onPayment[r]
           a == asked[r]
<1>0. /\ available \in [Wallets -> Nat] /\ locked \in [Wallets -> Nat]
      /\ status \in [Payments -> {"none", "pending", "paid", "canceled"}]
      /\ amount \in [Payments -> 1 .. MaxAmount]
      /\ sends \in [Payments -> Nat]
      /\ MaxAmount \in Nat
  BY DEF RInv, IInv, TypeOK, RowsOK, HistoryOK, Amounts, WithdrawalsAssumption
<1>1. /\ step[r] \notin {"idle", "leaked"} => w \in Wallets
      /\ step[r] \in AddSteps => p \in Payments
      /\ step[r] \in AddSteps \cup HoldSteps => a \in 1 .. MaxAmount
      /\ Checked(r)
  BY DEF RInv, IInv, TypeOK, RequestsOK, ChecksStayValid, Amounts
<1>2. CASE AddCommit(r)
  <2>1. /\ p \in Payments /\ w \in Wallets /\ a \in 1 .. MaxAmount
        /\ status[p] = "none" /\ available[w] >= a
    BY <1>1, <1>2 DEF AddCommit, AddSteps, Checked, Covers
  <2>2. Ledger!Transfer(w, -a, a)
    <3>1. /\ available' = [available EXCEPT ![w] = @ + (-a)]
          /\ locked' = [locked EXCEPT ![w] = @ + a]
      BY <1>0, <1>2, <2>1, Moved DEF AddCommit
    <3>2. available[w] + (-a) >= 0 /\ locked[w] + a >= 0
      BY <1>0, <2>1, Moved
    <3> QED
      BY <3>1, <3>2 DEF Ledger!Transfer
  <2>3. Ledger!Reserve(p, w, a)
    BY <1>2, <2>1, <2>2 DEF AddCommit, Ledger!Reserve
  <2> QED
    BY <2>1, <2>3 DEF Ledger!Next
<1>3. CASE PaySend(r)
  <2>1. p \in Payments /\ status[p] = "pending" /\ sends[p] = 0
    BY <1>3, SendsOf DEF PaySend, LockedSteps
  <2>2. Ledger!Broadcast(p)
    BY <1>0, <1>3, <2>1 DEF PaySend, Ledger!Broadcast, wallets, payments
  <2> QED
    BY <2>1, <2>2 DEF Ledger!Next
<1>4. CASE PayCommit(r)
  <2>1. p \in Payments /\ w \in Wallets /\ status[p] = "pending" /\ owner[p] = w /\ sends[p] = 1
    BY <1>4, SendsOf DEF PayCommit, LockedSteps
  <2>2. locked[w] >= amount[p] /\ amount[p] \in 1 .. MaxAmount
    BY <1>0, <1>1, <1>4, <2>1 DEF PayCommit, Checked, Covers
  <2>3. Ledger!Transfer(owner[p], 0, -amount[p])
    <3>1. /\ available' = [available EXCEPT ![w] = @ + 0]
          /\ locked' = [locked EXCEPT ![w] = @ + (-amount[p])]
      BY <1>0, <1>4, <2>1, <2>2, Moved DEF PayCommit
    <3>2. available[w] + 0 >= 0 /\ locked[w] + (-amount[p]) >= 0
      BY <1>0, <2>1, <2>2, Moved
    <3> QED
      BY <2>1, <3>1, <3>2 DEF Ledger!Transfer
  <2>4. Ledger!Confirm(p)
    BY <1>4, <2>1, <2>3 DEF PayCommit, Ledger!Confirm
  <2> QED
    BY <2>1, <2>4 DEF Ledger!Next
<1>5. CASE CancelCommit(r)
  <2>1. p \in Payments /\ w \in Wallets /\ status[p] = "pending" /\ owner[p] = w /\ sends[p] = 0
    BY <1>5, SendsOf DEF CancelCommit, LockedSteps
  <2>2. locked[w] >= amount[p] /\ amount[p] \in 1 .. MaxAmount
    BY <1>0, <1>5, <2>1 DEF CancelCommit, Covers
  <2>3. Ledger!Transfer(owner[p], amount[p], -amount[p])
    <3>1. /\ available' = [available EXCEPT ![w] = @ + amount[p]]
          /\ locked' = [locked EXCEPT ![w] = @ + (-amount[p])]
      BY <1>0, <1>5, <2>1, <2>2, Moved DEF CancelCommit
    <3>2. available[w] + amount[p] >= 0 /\ locked[w] + (-amount[p]) >= 0
      BY <1>0, <2>1, <2>2, Moved
    <3> QED
      BY <2>1, <3>1, <3>2 DEF Ledger!Transfer
  <2>4. Ledger!Refund(p)
    BY <1>5, <2>1, <2>3 DEF CancelCommit, Ledger!Refund
  <2> QED
    BY <2>1, <2>4 DEF Ledger!Next
<1>6. CASE LockCommit(r)
  <2>1. w \in Wallets /\ a \in 1 .. MaxAmount
    BY <1>1, <1>6 DEF LockCommit, HoldSteps
  <2>2. Ledger!Transfer(w, -a, a)
    <3>1. /\ available' = [available EXCEPT ![w] = @ + (-a)]
          /\ locked' = [locked EXCEPT ![w] = @ + a]
      BY <1>0, <1>6, <2>1, Moved DEF LockCommit
    <3>2. available[w] + (-a) >= 0 /\ locked[w] + a >= 0
      BY <1>0, <1>6, <2>1, Moved DEF LockCommit, Covers
    <3> QED
      BY <3>1, <3>2 DEF Ledger!Transfer
  <2>3. Ledger!External(w, a)
    BY <1>6, <2>2 DEF LockCommit, payments, Ledger!External
  <2> QED
    BY <2>1, <2>3 DEF Ledger!Next
<1>7. CASE UnlockCommit(r)
  <2>1. w \in Wallets /\ a \in 1 .. MaxAmount
    BY <1>1, <1>7 DEF UnlockCommit, HoldSteps
  <2>2. Ledger!Transfer(w, a, -a)
    <3>1. /\ available' = [available EXCEPT ![w] = @ + a]
          /\ locked' = [locked EXCEPT ![w] = @ + (-a)]
      BY <1>0, <1>7, <2>1, Moved DEF UnlockCommit
    <3>2. available[w] + a >= 0 /\ locked[w] + (-a) >= 0
      BY <1>0, <1>7, <2>1, Moved DEF UnlockCommit, Covers
    <3> QED
      BY <3>1, <3>2 DEF Ledger!Transfer
  <2>3. Ledger!External(w, a)
    BY <1>7, <2>2 DEF UnlockCommit, payments, Ledger!External
  <2> QED
    BY <2>1, <2>3 DEF Ledger!Next
<1>8. CASE ~(AddCommit(r) \/ PaySend(r) \/ PayCommit(r) \/ CancelCommit(r) \/ LockCommit(r)
               \/ UnlockCommit(r))
  <2>1. ~PaySendUnrecorded(r)
    BY DEF PaySendUnrecorded, Recorded
  <2>2. Quiet
    BY <1>8, <2>1 DEF Step, AddReserve, AddRefuse, PayLockPayment, PayRefusePayment, PayDebit,
          PayRefuseBalance, PaySendRejected, CancelLockPayment, CancelRefusePayment,
          CancelRefuseBalance, LockPayment, RefusePayment, RefuseLockedBalance, LockCheck,
          LockRefuse, LockOutOfRange, UnlockRefuse, Rollback, wallets, payments, Quiet
  <2> QED
    BY <2>2 DEF Quiet, Ledger!ledger
<1> QED
  BY <1>2, <1>3, <1>4, <1>5, <1>6, <1>7, <1>8

\* Credits and settlements of the other processes are the ledger's External.
LEMMA EnvironmentRefines ==
    ASSUME WithdrawalsAssumption, RInv, NEW w \in Wallets, NEW a \in Amounts,
           Credit(w, a) \/ Settle(w, a)
    PROVE  [Ledger!Next]_Ledger!ledger
<1>0. /\ available \in [Wallets -> Nat] /\ locked \in [Wallets -> Nat]
      /\ a \in 1 .. MaxAmount /\ MaxAmount \in Nat
  BY DEF RInv, IInv, TypeOK, RowsOK, Amounts, WithdrawalsAssumption
<1>1. CASE Credit(w, a)
  <2>1. Ledger!Transfer(w, a, 0)
    BY <1>0, <1>1 DEF Credit, Ledger!Transfer
  <2> QED
    BY <1>0, <1>1, <2>1 DEF Credit, payments, Ledger!External, Ledger!Next
<1>2. CASE Settle(w, a)
  <2>1. Ledger!Transfer(w, 0, -a)
    <3>1. /\ available' = [available EXCEPT ![w] = @ + 0]
          /\ locked' = [locked EXCEPT ![w] = @ + (-a)]
      BY <1>0, <1>2, Moved DEF Settle
    <3>2. available[w] + 0 >= 0 /\ locked[w] + (-a) >= 0
      BY <1>0, <1>2, Moved DEF Settle, Covers
    <3> QED
      BY <3>1, <3>2 DEF Ledger!Transfer
  <2> QED
    BY <1>0, <1>2, <2>1 DEF Settle, payments, Ledger!External, Ledger!Next
<1> QED
  BY <1>1, <1>2

\* As long as no broadcast can be separated from its commit, the interleaved
\* handlers of addPayment.js, pay.js, cancelPayment.js and changeBalance.js show
\* wallets, payments and chain only what the atomic ledger allows: one broadcast
\* for a paid payment, none for a refunded one.
THEOREM Refinement ==
    ASSUME Recorded
    PROVE  Spec => ImplementsLedger
<1>1. Init => Ledger!Init
  BY WithdrawalsAssumption DEF Init, Ledger!Init, WithdrawalsAssumption
<1>2. RInv /\ [Next]_vars => [Ledger!Next]_Ledger!ledger
  <2> SUFFICES ASSUME RInv, [Next]_vars
               PROVE  [Ledger!Next]_Ledger!ledger
    OBVIOUS
  <2>1. CASE UNCHANGED vars
    BY <2>1 DEF vars, Ledger!ledger
  <2>2. ASSUME NEW r \in Requests, Arrive(r) \/ Fail(r)
        PROVE  [Ledger!Next]_Ledger!ledger
    <3>1. Quiet
      BY <2>2 DEF Arrive, AddPayment, Pay, Cancel, LockBalance, UnlockBalance, ArrivePayment,
                  ArriveHold, Fail, AddLeak, LockTimeout, ConnectionLost, Rollback, wallets,
                  payments, Quiet
    <3> QED
      BY <3>1 DEF Quiet, Ledger!ledger
  <2>3. ~Crash
    BY DEF Crash, Recorded
  <2> QED
    BY <2>1, <2>2, <2>3, StepRefines, EnvironmentRefines, WithdrawalsAssumption DEF Next
<1>3. Spec => []RInv
  BY RefinementInvariance
<1> QED
  BY <1>1, <1>2, <1>3, PTL DEF Spec, ImplementsLedger, Ledger!Spec
=============================================================================
