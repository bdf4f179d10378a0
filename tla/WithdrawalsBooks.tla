-------------------------- MODULE WithdrawalsBooks --------------------------
(* Theorems about Withdrawals: the balances of every wallet add up with its  *)
(* payments, for every value of the constants.                               *)
EXTENDS WithdrawalsProofs

USE DEF AddSteps, HoldSteps, LockedSteps, PayOrCancel, Steps

(* The total of a set of payments. *)

LEMMA TotalType ==
    ASSUME WithdrawalsAssumption, NEW f, NEW S \in SUBSET Payments
    PROVE  IsFiniteSet(Units(f, S)) /\ Total(f, S) \in Nat
<1>1. IsFiniteSet(Amounts)
  BY FS_Interval DEF WithdrawalsAssumption, Amounts
<1>2. IsFiniteSet(S)
  BY FS_Subset DEF WithdrawalsAssumption
<1>3. IsFiniteSet(S \X Amounts)
  BY <1>1, <1>2, FS_Product
<1>4. Units(f, S) \in SUBSET (S \X Amounts)
  BY DEF Units
<1>5. IsFiniteSet(Units(f, S))
  BY <1>3, <1>4, FS_Subset
<1> QED
  BY <1>5, FS_CardinalityType DEF Total

LEMMA TotalSame ==
    ASSUME NEW f, NEW g, NEW S, \A p \in S : f[p] = g[p]
    PROVE  Total(f, S) = Total(g, S)
<1>1. Units(f, S) = Units(g, S)
  BY DEF Units
<1> QED
  BY <1>1 DEF Total

LEMMA Segment ==
    ASSUME NEW n \in Nat
    PROVE  IsFiniteSet(1..n) /\ Cardinality(1..n) = n
<1>1. IsFiniteSet(1..n) /\ Cardinality(1..n) = IF 1 > n THEN 0 ELSE n - 1 + 1
  BY FS_Interval
<1> QED
  BY <1>1

LEMMA TotalAdd ==
    ASSUME WithdrawalsAssumption, NEW f, NEW S \in SUBSET Payments, NEW p \in Payments \ S,
           f[p] \in Amounts
    PROVE  Total(f, S \cup {p}) = Total(f, S) + f[p]
<1> DEFINE U == {p} \X (1..f[p])
<1>0. f[p] \in Nat \ {0} /\ f[p] <= MaxAmount /\ MaxAmount \in Nat
  BY DEF WithdrawalsAssumption, Amounts
<1>1. Units(f, S \cup {p}) = Units(f, S) \cup U
  BY <1>0 DEF Units, Amounts
<1>2. Units(f, S) \cap U = {}
  BY DEF Units
<1>3. IsFiniteSet(U) /\ Cardinality(U) = f[p]
  <2>1. IsFiniteSet({p}) /\ Cardinality({p}) = 1
    BY FS_Singleton
  <2>2. IsFiniteSet(1..f[p]) /\ Cardinality(1..f[p]) = f[p]
    BY <1>0, Segment
  <2>3. IsFiniteSet(U) /\ Cardinality(U) = Cardinality({p}) * Cardinality(1..f[p])
    BY <2>1, <2>2, FS_Product
  <2> QED
    BY <1>0, <2>1, <2>2, <2>3
<1>4. IsFiniteSet(Units(f, S)) /\ Total(f, S) \in Nat
  BY TotalType
<1> HIDE DEF U
<1>5. Cardinality(Units(f, S) \cup U) = Cardinality(Units(f, S)) + f[p] - Cardinality({})
  BY <1>2, <1>3, <1>4, FS_Union
<1>6. Cardinality({}) = 0
  BY FS_EmptySet
<1>7. Total(f, S \cup {p}) = Total(f, S) + f[p] - 0
  BY <1>1, <1>5, <1>6 DEF Total
<1> QED
  BY <1>0, <1>4, <1>7

-----------------------------------------------------------------------------
(* The books: what the balances of a wallet and its payments add up to. *)

Books == Conservation /\ LockedBacksPending

\* A step that writes no payment row keeps the books when it moves money only
\* between the balances of a wallet or together with its history.
LEMMA QuietBooks ==
    ASSUME WithdrawalsAssumption, TypeOK, TypeOK', Books, UNCHANGED payments,
           \A w \in Wallets :
              /\ available'[w] + locked'[w] - credited'[w]
                    = available[w] + locked[w] - credited[w]
              /\ locked'[w] - held'[w] = locked[w] - held[w]
    PROVE  Books'
<1> SUFFICES ASSUME NEW w \in Wallets
             PROVE  /\ available'[w] + locked'[w] + Total(amount, Having("paid", w))'
                         = credited'[w]
                    /\ locked'[w] = Total(amount, Having("pending", w))' + held'[w]
  BY DEF Books, Conservation, LockedBacksPending
<1>1. /\ Total(amount, Having("paid", w))' = Total(amount, Having("paid", w))
      /\ Total(amount, Having("pending", w))' = Total(amount, Having("pending", w))
  BY DEF Total, Units, Having, payments
<1>2. /\ Total(amount, Having("paid", w)) \in Int
      /\ Total(amount, Having("pending", w)) \in Int
  BY TotalType DEF Having
<1>3. /\ available[w] \in Int /\ locked[w] \in Int /\ credited[w] \in Int /\ held[w] \in Int
      /\ available'[w] \in Int /\ locked'[w] \in Int
      /\ credited'[w] \in Int /\ held'[w] \in Int
  BY DEF TypeOK, RowsOK, HistoryOK
<1>4. /\ available[w] + locked[w] + Total(amount, Having("paid", w)) = credited[w]
      /\ locked[w] = Total(amount, Having("pending", w)) + held[w]
  BY DEF Books, Conservation, LockedBacksPending
<1>5. /\ available'[w] + locked'[w] - credited'[w] = available[w] + locked[w] - credited[w]
      /\ locked'[w] - held'[w] = locked[w] - held[w]
  OBVIOUS
<1>6. available'[w] + locked'[w] + Total(amount, Having("paid", w)) = credited'[w]
  BY <1>2, <1>3, <1>4, <1>5, Z3
<1>7. locked'[w] = Total(amount, Having("pending", w)) + held'[w]
  BY <1>2, <1>3, <1>4, <1>5
<1> QED
  BY <1>1, <1>6, <1>7

\* The payments in state st of wallet w, when the rows are s and ow.
In(s, ow, st, w) == {p \in Payments : s[p] = st /\ ow[p] = w}
Statuses == {"none", "pending", "paid", "canceled"}

\* A pending payment that is settled leaves the pending total of its wallet,
\* and joins the paid one if it was paid.
LEMMA SettleTotals ==
    ASSUME WithdrawalsAssumption, NEW s \in [Payments -> Statuses], NEW ow,
           NEW am \in [Payments -> Amounts], NEW p \in Payments, s[p] = "pending",
           NEW st \in {"paid", "canceled"}, NEW t,
           \A q \in Payments : t[q] = IF q = p THEN st ELSE s[q], NEW x
    PROVE  /\ Total(am, In(s, ow, "pending", x))
                 = Total(am, In(t, ow, "pending", x)) + (IF x = ow[p] THEN am[p] ELSE 0)
           /\ Total(am, In(t, ow, "paid", x))
                 = Total(am, In(s, ow, "paid", x))
                      + (IF x = ow[p] /\ st = "paid" THEN am[p] ELSE 0)
<1> DEFINE Pend == In(s, ow, "pending", x)
           Paid == In(s, ow, "paid", x)
           PendNew == In(t, ow, "pending", x)
           PaidNew == In(t, ow, "paid", x)
<1>1. am[p] \in Amounts
  OBVIOUS
<1>2. /\ Pend \in SUBSET Payments /\ PendNew \in SUBSET Payments
      /\ Paid \in SUBSET Payments /\ PaidNew \in SUBSET Payments
      /\ p \notin PendNew /\ p \notin Paid
  BY DEF In
<1>3. /\ x = ow[p] => Pend = PendNew \cup {p}
      /\ x # ow[p] => Pend = PendNew
      /\ (x = ow[p] /\ st = "paid") => PaidNew = Paid \cup {p}
      /\ ~(x = ow[p] /\ st = "paid") => PaidNew = Paid
  BY DEF In
<1> HIDE DEF Pend, Paid, PendNew, PaidNew
<1>4. /\ Total(am, Pend) \in Nat /\ Total(am, PendNew) \in Nat
      /\ Total(am, Paid) \in Nat /\ Total(am, PaidNew) \in Nat
  BY <1>2, TotalType
<1>5. x = ow[p] => Total(am, Pend) = Total(am, PendNew) + am[p]
  BY <1>1, <1>2, <1>3, TotalAdd
<1>6. (x = ow[p] /\ st = "paid") => Total(am, PaidNew) = Total(am, Paid) + am[p]
  BY <1>1, <1>2, <1>3, TotalAdd
<1>7. /\ Total(am, Pend) = Total(am, PendNew) + (IF x = ow[p] THEN am[p] ELSE 0)
      /\ Total(am, PaidNew)
            = Total(am, Paid) + (IF x = ow[p] /\ st = "paid" THEN am[p] ELSE 0)
  BY <1>3, <1>4, <1>5, <1>6
<1> QED
  BY <1>7 DEF Pend, Paid, PendNew, PaidNew

\* The books of one wallet, over integers.
LEMMA BooksTerms ==
    ASSUME WithdrawalsAssumption, TypeOK, Books, NEW x \in Wallets
    PROVE  /\ available[x] \in Int /\ locked[x] \in Int
           /\ credited[x] \in Int /\ held[x] \in Int
           /\ Total(amount, In(status, owner, "paid", x)) \in Int
           /\ Total(amount, In(status, owner, "pending", x)) \in Int
           /\ available[x] + locked[x] + Total(amount, In(status, owner, "paid", x)) = credited[x]
           /\ locked[x] = Total(amount, In(status, owner, "pending", x)) + held[x]
<1>1. /\ Total(amount, In(status, owner, "paid", x)) \in Nat
      /\ Total(amount, In(status, owner, "pending", x)) \in Nat
  BY TotalType DEF In
<1>2. /\ available[x] + locked[x] + Total(amount, In(status, owner, "paid", x)) = credited[x]
      /\ locked[x] = Total(amount, In(status, owner, "pending", x)) + held[x]
  BY DEF Books, Conservation, LockedBacksPending, Having, In
<1> QED
  BY <1>1, <1>2 DEF TypeOK, RowsOK, HistoryOK

-----------------------------------------------------------------------------
(* Every step keeps the books. *)

LEMMA AddCommitBooks ==
    ASSUME WithdrawalsAssumption, TypeOK, ChecksStayValid, Books,
           NEW r \in Requests, AddCommit(r)
    PROVE  Books'
<1> PICK w \in Wallets, p \in Payments, a \in Amounts :
          w = onWallet[r] /\ p = onPayment[r] /\ a = asked[r]
  BY DEF AddCommit, TypeOK, RequestsOK
<1> SUFFICES ASSUME NEW x \in Wallets
             PROVE  /\ available'[x] + locked'[x] + Total(amount', In(status', owner', "paid", x))
                          = credited'[x]
                    /\ locked'[x]
                          = Total(amount', In(status', owner', "pending", x)) + held'[x]
  BY DEF Books, Conservation, LockedBacksPending, Total, Units, Having, In
<1>1. /\ Total(amount', In(status', owner', "pending", x))
            = Total(amount, In(status, owner, "pending", x)) + (IF x = w THEN a ELSE 0)
      /\ Total(amount', In(status', owner', "paid", x))
            = Total(amount, In(status, owner, "paid", x))
  <2>1. /\ status[p] = "none" /\ status'[p] = "pending" /\ owner'[p] = w /\ amount'[p] = a
        /\ \A q \in Payments \ {p} :
              status'[q] = status[q] /\ owner'[q] = owner[q] /\ amount'[q] = amount[q]
    BY DEF AddCommit, ChecksStayValid, Checked, TypeOK, RowsOK
  <2> DEFINE Pend == In(status, owner, "pending", x)
             Paid == In(status, owner, "paid", x)
  <2>2. /\ Pend \in SUBSET Payments /\ p \notin Pend
        /\ \A q \in Pend : amount'[q] = amount[q]
        /\ \A q \in Paid : amount'[q] = amount[q]
        /\ In(status', owner', "paid", x) = Paid
        /\ In(status', owner', "pending", x) = IF x = w THEN Pend \cup {p} ELSE Pend
    BY <2>1 DEF In
  <2> HIDE DEF Pend, Paid
  <2>3. Total(amount', Paid) = Total(amount, Paid)
    BY <2>2, TotalSame
  <2>4. Total(amount', Pend) = Total(amount, Pend)
    BY <2>2, TotalSame
  <2>5. Total(amount', Pend \cup {p}) = Total(amount', Pend) + a
    BY <2>1, <2>2, TotalAdd
  <2>6. Total(amount, Pend) \in Nat
    BY <2>2, TotalType
  <2>7. /\ Total(amount', In(status', owner', "pending", x))
              = Total(amount, Pend) + (IF x = w THEN a ELSE 0)
        /\ Total(amount', In(status', owner', "paid", x)) = Total(amount, Paid)
    <3>1. CASE x = w
      BY <2>2, <2>3, <2>4, <2>5, <3>1
    <3>2. CASE x # w
      BY <2>2, <2>3, <2>4, <2>6, <3>2
    <3> QED
      BY <3>1, <3>2
  <2> QED
    BY <2>7 DEF Pend, Paid
<1>2. /\ available'[x] = available[x] - (IF x = w THEN a ELSE 0)
      /\ locked'[x] = locked[x] + (IF x = w THEN a ELSE 0)
      /\ credited'[x] = credited[x] /\ held'[x] = held[x]
      /\ a \in Int
  BY DEF AddCommit, history, TypeOK, RowsOK, Amounts, WithdrawalsAssumption
<1>3. CASE x = w
  BY <1>1, <1>2, <1>3, BooksTerms
<1>4. CASE x # w
  BY <1>1, <1>2, <1>4, BooksTerms
<1> QED
  BY <1>3, <1>4

LEMMA SettleBooks ==
    ASSUME WithdrawalsAssumption, TypeOK, ChecksStayValid, Books,
           NEW r \in Requests, PayCommit(r) \/ CancelCommit(r)
    PROVE  Books'
<1> PICK p \in Payments : p = onPayment[r] /\ owner[p] = onWallet[r] /\ status[p] = "pending"
  BY DEF PayCommit, CancelCommit, TypeOK, RequestsOK, ChecksStayValid, Checked, Actionable
<1> PICK st \in {"paid", "canceled"} : IF PayCommit(r) THEN st = "paid" ELSE st = "canceled"
  OBVIOUS
<1> SUFFICES ASSUME NEW x \in Wallets
             PROVE  /\ available'[x] + locked'[x] + Total(amount', In(status', owner', "paid", x))
                          = credited'[x]
                    /\ locked'[x]
                          = Total(amount', In(status', owner', "pending", x)) + held'[x]
  BY DEF Books, Conservation, LockedBacksPending, Total, Units, Having, In
<1>1. /\ Total(amount, In(status, owner, "pending", x))
            = Total(amount', In(status', owner', "pending", x))
                 + (IF x = owner[p] THEN amount[p] ELSE 0)
      /\ Total(amount', In(status', owner', "paid", x))
            = Total(amount, In(status, owner, "paid", x))
                 + (IF x = owner[p] /\ st = "paid" THEN amount[p] ELSE 0)
  <2>1. status \in [Payments -> Statuses] /\ amount \in [Payments -> Amounts]
    BY DEF TypeOK, RowsOK, Statuses
  <2>2. /\ \A q \in Payments : status'[q] = IF q = p THEN st ELSE status[q]
        /\ owner' = owner /\ amount' = amount
    BY <2>1 DEF PayCommit, CancelCommit
  <2> QED
    BY <2>1, <2>2, SettleTotals
<1>2. /\ locked'[x] = locked[x] - (IF x = owner[p] THEN amount[p] ELSE 0)
      /\ available'[x] = available[x]
            + (IF x = owner[p] /\ st = "canceled" THEN amount[p] ELSE 0)
      /\ credited'[x] = credited[x] /\ held'[x] = held[x]
      /\ amount[p] \in Int
  BY DEF PayCommit, CancelCommit, history, TypeOK, RowsOK, Amounts, WithdrawalsAssumption
<1>3. /\ available[x] \in Int /\ locked[x] \in Int
      /\ credited[x] \in Int /\ held[x] \in Int
      /\ Total(amount, In(status, owner, "paid", x)) \in Int
      /\ Total(amount, In(status, owner, "pending", x)) \in Int
      /\ available[x] + locked[x] + Total(amount, In(status, owner, "paid", x)) = credited[x]
      /\ locked[x] = Total(amount, In(status, owner, "pending", x)) + held[x]
  BY BooksTerms
<1>m. Total(amount', In(status', owner', "pending", x)) \in Nat
  BY TotalType DEF In
<1>4. CASE x = owner[p] /\ st = "paid"
  BY <1>1, <1>2, <1>4, <1>3, <1>m
<1>5. CASE x = owner[p] /\ st = "canceled"
  BY <1>1, <1>2, <1>5, <1>3, <1>m
<1>6. CASE x # owner[p]
  BY <1>1, <1>2, <1>6, <1>3, <1>m
<1> QED
  BY <1>4, <1>5, <1>6

LEMMA StepBooks ==
    ASSUME WithdrawalsAssumption, TypeOK, TypeOK', ChecksStayValid, Books,
           NEW r \in Requests, Step(r)
    PROVE  Books'
<1>1. CASE AddCommit(r)
  BY <1>1, AddCommitBooks
<1>2. CASE PayCommit(r) \/ CancelCommit(r)
  BY <1>2, SettleBooks
<1>3. CASE LockCommit(r) \/ UnlockCommit(r)
  <2>1. onWallet[r] \in Wallets /\ asked[r] \in Amounts
    BY <1>3 DEF LockCommit, UnlockCommit, TypeOK, RequestsOK
  <2>2. ASSUME NEW w \in Wallets
        PROVE  /\ available'[w] + locked'[w] - credited'[w] = available[w] + locked[w] - credited[w]
               /\ locked'[w] - held'[w] = locked[w] - held[w]
    BY <1>3, <2>1 DEF LockCommit, UnlockCommit, TypeOK, RowsOK, HistoryOK, Amounts,
                      WithdrawalsAssumption
  <2>3. UNCHANGED payments
    BY <1>3 DEF LockCommit, UnlockCommit
  <2> QED
    BY <2>2, <2>3, QuietBooks
<1>4. CASE ~(AddCommit(r) \/ PayCommit(r) \/ CancelCommit(r) \/ LockCommit(r) \/ UnlockCommit(r))
  <2>1. UNCHANGED <<wallets, payments, credited, held>>
    BY <1>4 DEF Step, AddReserve, AddRefuse, PayLockPayment, PayRefusePayment, PayDebit,
                PayRefuseBalance, PaySend, PaySendUnrecorded, PaySendRejected, CancelLockPayment,
                CancelRefusePayment, CancelRefuseBalance, LockPayment, RefusePayment,
                RefuseLockedBalance, LockCheck, LockRefuse, LockOutOfRange, UnlockRefuse,
                Rollback, history
  <2> QED
    BY <2>1, QuietBooks DEF wallets
<1> QED
  BY <1>1, <1>2, <1>3, <1>4

LEMMA NextBooks ==
    ASSUME WithdrawalsAssumption, TypeOK, TypeOK', ChecksStayValid, Books, [Next]_vars
    PROVE  Books'
<1>1. CASE UNCHANGED vars
  BY <1>1, QuietBooks DEF vars, payments
<1>2. ASSUME NEW r \in Requests, Arrive(r) \/ Fail(r)
      PROVE  Books'
  <2>1. UNCHANGED <<wallets, payments, credited, held>>
    BY <1>2 DEF Arrive, AddPayment, Pay, Cancel, LockBalance, UnlockBalance, ArrivePayment,
                ArriveHold, Fail, AddLeak, LockTimeout, ConnectionLost, Rollback, history
  <2> QED
    BY <2>1, QuietBooks DEF wallets
<1>3. ASSUME NEW w \in Wallets, NEW a \in Amounts, Credit(w, a) \/ Settle(w, a)
      PROVE  Books'
  <2>1. UNCHANGED payments
    BY <1>3 DEF Credit, Settle
  <2>2. ASSUME NEW x \in Wallets
        PROVE  /\ available'[x] + locked'[x] - credited'[x] = available[x] + locked[x] - credited[x]
               /\ locked'[x] - held'[x] = locked[x] - held[x]
    <3>1. /\ available[x] \in Int /\ locked[x] \in Int
          /\ credited[x] \in Int /\ held[x] \in Int /\ a \in Int
      BY DEF TypeOK, RowsOK, HistoryOK, Amounts, WithdrawalsAssumption
    <3>2. CASE Credit(w, a)
      BY <3>1, <3>2 DEF Credit, TypeOK, RowsOK, HistoryOK
    <3>3. CASE Settle(w, a)
      BY <3>1, <3>3 DEF Settle, TypeOK, RowsOK, HistoryOK
    <3> QED
      BY <1>3, <3>2, <3>3
  <2> QED
    BY <2>1, <2>2, QuietBooks
<1>4. CASE Crash
  BY <1>4, QuietBooks DEF Crash, wallets
<1> QED
  BY <1>1, <1>2, <1>3, <1>4, StepBooks DEF Next

LEMMA InitBooks == WithdrawalsAssumption /\ Init => Books
<1> SUFFICES ASSUME WithdrawalsAssumption, Init, NEW w \in Wallets
             PROVE  /\ available[w] + locked[w] + Total(amount, Having("paid", w)) = credited[w]
                    /\ locked[w] = Total(amount, Having("pending", w)) + held[w]
  BY DEF Books, Conservation, LockedBacksPending
<1>1. Having("paid", w) = {} /\ Having("pending", w) = {}
  BY DEF Init, Having
<1>2. Total(amount, {}) = 0
  <2>1. Units(amount, {}) = {}
    BY DEF Units
  <2> QED
    BY <2>1, FS_EmptySet DEF Total
<1> QED
  BY <1>1, <1>2 DEF Init

LEMMA BooksInvariance == Spec => []Books
<1>1. Init => Books
  BY InitBooks, WithdrawalsAssumption
<1>2. IInv /\ Books /\ IInv' /\ [Next]_vars => Books'
  BY NextBooks, WithdrawalsAssumption DEF IInv
<1> QED
  BY <1>1, <1>2, Invariance, PTL DEF Spec

\* Money is neither created nor destroyed, whatever the requests interleave
\* and wherever a transaction dies: what was paid into a wallet is available,
\* locked, or gone through a payment marked paid.
THEOREM MoneyConserved == Spec => []Conservation
  BY BooksInvariance, PTL DEF Books

\* The locked balance of a wallet is exactly its pending payments plus the
\* holds of lockBalance that unlockBalance or a settlement has not released.
THEOREM LockedIsBacked == Spec => []LockedBacksPending
  BY BooksInvariance, PTL DEF Books
=============================================================================
