----------------------------- MODULE Withdrawals -----------------------------
(***************************************************************************)
(* Withdrawals of the vault API: the payment life cycle (addPayment, pay,  *)
(* cancelPayment) and the lockBalance / unlockBalance endpoints, over the  *)
(* MySQL rows they share.                                                  *)
(*                                                                         *)
(* A request is one koa handler running in the API process; every await is *)
(* a point where other requests run.  InnoDB rows are modelled by their    *)
(* committed value plus the exclusive lock FOR UPDATE takes.  A row is     *)
(* written only by the holder of its lock, so the private writes of a      *)
(* transaction are published by its commit step.                           *)
(***************************************************************************)
EXTENDS Integers, FiniteSets

CONSTANTS Wallets,        \* wallet rows, one per (userUid, currency)
          Payments,       \* payment uids the run may use
          Requests,       \* API requests in flight at once
          None,           \* no holder, no argument
          MaxAmount,      \* bound on one request's amount
          Fee,            \* currencySettings.withdrawalFee, never 0 (addPayment.js:14)
          MaxCredit,      \* bound on what the environment pays into a wallet
          MaxSends,       \* bound on broadcasts of one payment
          SendOutcomes,   \* what sendToAddress may do, see PaySend*
          Faults          \* which failures may happen

ASSUME WithdrawalsAssumption ==
    /\ IsFiniteSet(Payments)
    /\ None \notin Requests \cup Wallets \cup Payments
    /\ MaxAmount \in Nat \ {0}
    /\ Fee \in Nat \ {0}
    /\ MaxCredit \in Nat
    /\ MaxSends \in Nat
    /\ SendOutcomes \subseteq {"hash", "unrecorded", "rejected"}
    /\ Faults \subseteq {"crash", "dbLost", "lockTimeout", "leak"}

VARIABLES available, locked,          \* committed Wallets columns
          status, owner, amount,      \* committed Payments columns
          walletLock, paymentLock,    \* holder of each row's FOR UPDATE lock
          step,                       \* where each handler in flight stands
          onWallet, onPayment, asked, \* its arguments: rows and amount
          sends,                      \* broadcasts the chain has seen, per payment
          lost,                       \* history: broadcasts whose transaction was rolled back
          credited,                   \* history: net amount the environment paid in
          held                        \* history: net amount lockBalance has put on hold

wallets  == <<available, locked>>
payments == <<status, owner, amount>>
locks    == <<walletLock, paymentLock>>
args     == <<onWallet, onPayment, asked>>
requests == <<step, onWallet, onPayment, asked>>
history  == <<lost, credited, held>>
vars     == <<available, locked, status, owner, amount, walletLock, paymentLock,
              step, onWallet, onPayment, asked, sends, lost, credited, held>>

Amounts == 1..MaxAmount

(***************************************************************************)
(* Requests.  "leaked" is a handler that returned from its outer catch     *)
(* without rollback: its transaction stays open with every lock it took.   *)
(***************************************************************************)
AddSteps    == {"addPayment", "addReserved"}
HoldSteps   == {"lockBalance", "lockChecked", "unlockBalance"}
LockedSteps == {"payLocked", "payDebited", "paySent", "cancelLocked"}
WalletSteps == {"addReserved", "payDebited", "paySent"}
PayOrCancel == {"pay", "cancel"} \cup LockedSteps
Steps       == {"idle", "leaked"} \cup AddSteps \cup HoldSteps \cup PayOrCancel

RowsOK ==
    /\ available \in [Wallets -> Nat]
    /\ locked \in [Wallets -> Nat]
    /\ status \in [Payments -> {"none", "pending", "paid", "canceled"}]
    /\ owner \in [Payments -> Wallets]
    /\ amount \in [Payments -> Amounts]

LocksOK ==
    /\ walletLock \in [Wallets -> Requests \cup {None}]
    /\ paymentLock \in [Payments -> Requests \cup {None}]

RequestsOK ==
    /\ step \in [Requests -> Steps]
    /\ onWallet \in [Requests -> Wallets \cup {None}]
    /\ onPayment \in [Requests -> Payments \cup {None}]
    /\ asked \in [Requests -> Amounts \cup {0}]
    /\ \A r \in Requests :
        /\ step[r] \notin {"idle", "leaked"} => onWallet[r] \in Wallets
        /\ step[r] \in AddSteps \cup PayOrCancel => onPayment[r] \in Payments
        /\ step[r] \in AddSteps \cup HoldSteps => asked[r] \in Amounts

HistoryOK ==
    /\ sends \in [Payments -> Nat]
    /\ lost \in [Payments -> Nat]
    /\ credited \in [Wallets -> Int]
    /\ held \in [Wallets -> Int]

\* In particular no balance is ever negative, although changeBalance checks it
\* against a read that holds no lock (Wallets.js:138).
TypeOK == RowsOK /\ LocksOK /\ RequestsOK /\ HistoryOK

\* owner and amount of a payment that does not exist yet carry no meaning:
\* every one starts from the same arbitrary row.
Init ==
    /\ available = [w \in Wallets |-> 0]
    /\ locked = [w \in Wallets |-> 0]
    /\ status = [p \in Payments |-> "none"]
    /\ \E w \in Wallets : owner = [p \in Payments |-> w]
    /\ amount = [p \in Payments |-> 1]
    /\ walletLock = [w \in Wallets |-> None]
    /\ paymentLock = [p \in Payments |-> None]
    /\ step = [r \in Requests |-> "idle"]
    /\ onWallet = [r \in Requests |-> None]
    /\ onPayment = [r \in Requests |-> None]
    /\ asked = [r \in Requests |-> 0]
    /\ sends = [p \in Payments |-> 0]
    /\ lost = [p \in Payments |-> 0]
    /\ credited = [w \in Wallets |-> 0]
    /\ held = [w \in Wallets |-> 0]
-----------------------------------------------------------------------------
(* Helpers *)

\* A request starts with its arguments, moves on, and ends forgetting them.
Start(r, st, w, p, a) ==
    /\ step[r] = "idle"
    /\ step' = [step EXCEPT ![r] = st]
    /\ onWallet' = [onWallet EXCEPT ![r] = w]
    /\ onPayment' = [onPayment EXCEPT ![r] = p]
    /\ asked' = [asked EXCEPT ![r] = a]
Goto(r, st) ==
    /\ step' = [step EXCEPT ![r] = st]
    /\ UNCHANGED args
End(r, st) ==
    /\ step' = [step EXCEPT ![r] = st]
    /\ onWallet' = [onWallet EXCEPT ![r] = None]
    /\ onPayment' = [onPayment EXCEPT ![r] = None]
    /\ asked' = [asked EXCEPT ![r] = 0]
Finish(r) == End(r, "idle")

WalletFree(w)  == walletLock[w] = None
PaymentFree(p) == paymentLock[p] = None

\* The locks r holds are released by its commit or rollback.
Unlocked(lock, r) == [x \in DOMAIN lock |-> IF lock[x] = r THEN None ELSE lock[x]]
ReleaseLocks(r) ==
    /\ walletLock' = Unlocked(walletLock, r)
    /\ paymentLock' = Unlocked(paymentLock, r)

\* An error answer: roll back, free the locks, change no row.
Rollback(r) ==
    /\ ReleaseLocks(r)
    /\ Finish(r)
    /\ UNCHANGED <<wallets, payments>>

\* changeBalance with a negative amount: the field must cover it.  The read of
\* line 138 is unlocked; the UNSIGNED column refuses the decrement in any case.
Covers(field, w, a) == field[w] >= a

\* Mutant: the pending check of pay.js:36-48 forgotten.
ActionableAnyStatus(p, w) == owner[p] = w /\ status[p] # "none"

\* A payment the request may act on: it exists, names this wallet, is pending.
Actionable(p, w) == owner[p] = w /\ status[p] = "pending"

FinalAmount(p) == amount[p] - Fee
-----------------------------------------------------------------------------
(* addPayment *)

\* A request arrives; p is the uid Payments.create will give the row.
AddPayment(r, w, p, a) ==
    /\ status[p] = "none"
    /\ \A q \in Requests : step[q] \in AddSteps => onPayment[q] # p
    /\ Start(r, "addPayment", w, p, a)
    /\ UNCHANGED <<wallets, payments, locks, sends, history>>

\* findByUser FOR UPDATE, then lockBalance inside the transaction.
AddReserve(r) ==
    /\ step[r] = "addPayment"
    /\ WalletFree(onWallet[r])
    /\ Covers(available, onWallet[r], asked[r])
    /\ walletLock' = [walletLock EXCEPT ![onWallet[r]] = r]
    /\ Goto(r, "addReserved")
    /\ UNCHANGED <<wallets, payments, paymentLock, sends, history>>

\* lockBalance throws: 409 amountMismatch.
AddRefuse(r) ==
    /\ step[r] = "addPayment"
    /\ WalletFree(onWallet[r])
    /\ ~Covers(available, onWallet[r], asked[r])
    /\ Rollback(r)
    /\ UNCHANGED <<sends, history>>

\* getClient (not a Binance currency), Payments.create, commit.
AddCommit(r) ==
    LET w == onWallet[r]
        p == onPayment[r]
        a == asked[r]
    IN  /\ step[r] = "addReserved"
        /\ available' = [available EXCEPT ![w] = @ - a]
        /\ locked' = [locked EXCEPT ![w] = @ + a]
        /\ status' = [status EXCEPT ![p] = "pending"]
        /\ owner' = [owner EXCEPT ![p] = w]
        /\ amount' = [amount EXCEPT ![p] = a]
        /\ ReleaseLocks(r)
        /\ Finish(r)
        /\ UNCHANGED <<sends, history>>

\* getClient or Payments.create throws: the outer catch returns without
\* rollback, the wallet row stays locked by the abandoned transaction.
AddLeak(r) ==
    /\ "leak" \in Faults
    /\ step[r] = "addReserved"
    /\ End(r, "leaked")
    /\ UNCHANGED <<wallets, payments, locks, sends, history>>
-----------------------------------------------------------------------------
(* The steps pay and cancelPayment share *)

ArrivePayment(r, w, p, st) ==
    /\ Start(r, st, w, p, 0)
    /\ UNCHANGED <<wallets, payments, locks, sends, history>>

\* Mutant: findByUid without forUpdate, so the row is read but not locked.
LockPaymentUnlocked(r, from, to) ==
    /\ step[r] = from
    /\ Actionable(onPayment[r], onWallet[r])
    /\ Goto(r, to)
    /\ UNCHANGED <<wallets, payments, locks, sends, history>>

\* findByUid FOR UPDATE finds an actionable payment and keeps its lock.
LockPayment(r, from, to) ==
    /\ step[r] = from
    /\ PaymentFree(onPayment[r])
    /\ Actionable(onPayment[r], onWallet[r])
    /\ paymentLock' = [paymentLock EXCEPT ![onPayment[r]] = r]
    /\ Goto(r, to)
    /\ UNCHANGED <<wallets, payments, walletLock, sends, history>>

\* 404 paymentNotFound or 409 unexpectedPaymentData.
RefusePayment(r, from) ==
    /\ step[r] = from
    /\ PaymentFree(onPayment[r])
    /\ ~Actionable(onPayment[r], onWallet[r])
    /\ Rollback(r)
    /\ UNCHANGED <<sends, history>>

\* The locked balance does not cover the payment: 409 amountMismatch.
RefuseLockedBalance(r, from) ==
    /\ step[r] = from
    /\ WalletFree(onWallet[r])
    /\ ~Covers(locked, onWallet[r], amount[onPayment[r]])
    /\ Rollback(r)
    /\ UNCHANGED <<sends, history>>
-----------------------------------------------------------------------------
(* pay *)

Pay(r, w, p)        == ArrivePayment(r, w, p, "pay")
PayLockPayment(r)   == LockPayment(r, "pay", "payLocked")
PayRefusePayment(r) == RefusePayment(r, "pay")
PayRefuseBalance(r) == RefuseLockedBalance(r, "payLocked")

\* findByUser FOR UPDATE, then changeBalance(-amount, 'locked').
PayDebit(r) ==
    /\ step[r] = "payLocked"
    /\ WalletFree(onWallet[r])
    /\ Covers(locked, onWallet[r], amount[onPayment[r]])
    /\ walletLock' = [walletLock EXCEPT ![onWallet[r]] = r]
    /\ Goto(r, "payDebited")
    /\ UNCHANGED <<wallets, payments, paymentLock, sends, history>>

\* sendToAddress broadcasts and answers a string hash; Payments.update records
\* it inside the transaction.  No client broadcasts a negative amount
\* (EthereumClient.js:114).
PaySend(r) ==
    LET p == onPayment[r]
    IN  /\ "hash" \in SendOutcomes
        /\ step[r] = "payDebited"
        /\ FinalAmount(p) >= 0
        /\ sends[p] < MaxSends
        /\ sends' = [sends EXCEPT ![p] = @ + 1]
        /\ Goto(r, "paySent")
        /\ UNCHANGED <<wallets, payments, locks, history>>

\* The coins are broadcast but the inner try throws: the client's answer was
\* lost, or it is not the string that Payments.update demands (500, rollback).
PaySendUnrecorded(r) ==
    LET p == onPayment[r]
    IN  /\ "unrecorded" \in SendOutcomes
        /\ step[r] = "payDebited"
        /\ FinalAmount(p) >= 0
        /\ sends[p] < MaxSends
        /\ sends' = [sends EXCEPT ![p] = @ + 1]
        /\ lost' = [lost EXCEPT ![p] = @ + 1]
        /\ Rollback(r)
        /\ UNCHANGED <<credited, held>>

\* sendToAddress throws before anything is broadcast: 500, rollback.
PaySendRejected(r) ==
    /\ "rejected" \in SendOutcomes
    /\ step[r] = "payDebited"
    /\ Rollback(r)
    /\ UNCHANGED <<sends, history>>

\* Mutant: the locked balance is debited by what was sent, fee excluded.
PayCommitFinalAmount(r) ==
    LET w == onWallet[r]
        p == onPayment[r]
    IN  /\ step[r] = "paySent"
        /\ locked' = [locked EXCEPT ![w] = @ - FinalAmount(p)]
        /\ status' = [status EXCEPT ![p] = "paid"]
        /\ ReleaseLocks(r)
        /\ Finish(r)
        /\ UNCHANGED <<available, owner, amount, sends, history>>

\* Payments.update has recorded the hash; the transaction commits.
PayCommit(r) ==
    LET w == onWallet[r]
        p == onPayment[r]
    IN  /\ step[r] = "paySent"
        /\ locked' = [locked EXCEPT ![w] = @ - amount[p]]
        /\ status' = [status EXCEPT ![p] = "paid"]
        /\ ReleaseLocks(r)
        /\ Finish(r)
        /\ UNCHANGED <<available, owner, amount, sends, history>>
-----------------------------------------------------------------------------
(* cancelPayment *)

Cancel(r, w, p)        == ArrivePayment(r, w, p, "cancel")
CancelLockPayment(r)   == LockPayment(r, "cancel", "cancelLocked")
CancelRefusePayment(r) == RefusePayment(r, "cancel")
CancelRefuseBalance(r) == RefuseLockedBalance(r, "cancelLocked")

\* Mutant: unlockBalance increments available and forgets to decrement locked.
CancelCommitKeepsLocked(r) ==
    LET w == onWallet[r]
        p == onPayment[r]
    IN  /\ step[r] = "cancelLocked"
        /\ WalletFree(w)
        /\ Covers(locked, w, amount[p])
        /\ available' = [available EXCEPT ![w] = @ + amount[p]]
        /\ status' = [status EXCEPT ![p] = "canceled"]
        /\ ReleaseLocks(r)
        /\ Finish(r)
        /\ UNCHANGED <<locked, owner, amount, sends, history>>

\* findByUser FOR UPDATE, unlockBalance, update, commit.
CancelCommit(r) ==
    LET w == onWallet[r]
        p == onPayment[r]
    IN  /\ step[r] = "cancelLocked"
        /\ WalletFree(w)
        /\ Covers(locked, w, amount[p])
        /\ available' = [available EXCEPT ![w] = @ + amount[p]]
        /\ locked' = [locked EXCEPT ![w] = @ - amount[p]]
        /\ status' = [status EXCEPT ![p] = "canceled"]
        /\ ReleaseLocks(r)
        /\ Finish(r)
        /\ UNCHANGED <<owner, amount, sends, history>>
-----------------------------------------------------------------------------
(* lockBalance and unlockBalance endpoints *)

ArriveHold(r, w, a, st) ==
    /\ Start(r, st, w, None, a)
    /\ UNCHANGED <<wallets, payments, locks, sends, history>>

LockBalance(r, w, a)   == ArriveHold(r, w, a, "lockBalance")
UnlockBalance(r, w, a) == ArriveHold(r, w, a, "unlockBalance")

\* changeBalance reads the committed balance on another connection, no lock.
LockCheck(r) ==
    /\ step[r] = "lockBalance"
    /\ Covers(available, onWallet[r], asked[r])
    /\ Goto(r, "lockChecked")
    /\ UNCHANGED <<wallets, payments, locks, sends, history>>

LockRefuse(r) ==
    /\ step[r] = "lockBalance"
    /\ ~Covers(available, onWallet[r], asked[r])
    /\ Rollback(r)
    /\ UNCHANGED <<sends, history>>

\* Mutant: signed columns, so only the stale check of LockCheck guards.
LockCommitSigned(r) ==
    LET w == onWallet[r]
        a == asked[r]
    IN  /\ step[r] = "lockChecked"
        /\ WalletFree(w)
        /\ available' = [available EXCEPT ![w] = @ - a]
        /\ locked' = [locked EXCEPT ![w] = @ + a]
        /\ held' = [held EXCEPT ![w] = @ + a]
        /\ Finish(r)
        /\ UNCHANGED <<payments, locks, sends, lost, credited>>

\* decrement, increment, commit: the UNSIGNED column is the only guard left.
LockCommit(r) ==
    LET w == onWallet[r]
        a == asked[r]
    IN  /\ step[r] = "lockChecked"
        /\ WalletFree(w)
        /\ Covers(available, w, a)
        /\ available' = [available EXCEPT ![w] = @ - a]
        /\ locked' = [locked EXCEPT ![w] = @ + a]
        /\ held' = [held EXCEPT ![w] = @ + a]
        /\ Finish(r)
        /\ UNCHANGED <<payments, locks, sends, lost, credited>>

\* The balance shrank between the check and the decrement.
LockOutOfRange(r) ==
    /\ step[r] = "lockChecked"
    /\ WalletFree(onWallet[r])
    /\ ~Covers(available, onWallet[r], asked[r])
    /\ Rollback(r)
    /\ UNCHANGED <<sends, history>>

\* unlockBalance increments first, so its check runs under the row lock.
UnlockCommit(r) ==
    LET w == onWallet[r]
        a == asked[r]
    IN  /\ step[r] = "unlockBalance"
        /\ WalletFree(w)
        /\ Covers(locked, w, a)
        /\ available' = [available EXCEPT ![w] = @ + a]
        /\ locked' = [locked EXCEPT ![w] = @ - a]
        /\ held' = [held EXCEPT ![w] = @ - a]
        /\ Finish(r)
        /\ UNCHANGED <<payments, locks, sends, lost, credited>>

UnlockRefuse(r) ==
    /\ step[r] = "unlockBalance"
    /\ WalletFree(onWallet[r])
    /\ ~Covers(locked, onWallet[r], asked[r])
    /\ Rollback(r)
    /\ UNCHANGED <<sends, history>>
-----------------------------------------------------------------------------
(* The other processes' commits on the wallet row *)

\* loadWalletDeposit of a poller, or a '+' wallet update of the message bus.
Credit(w, a) ==
    /\ WalletFree(w)
    /\ credited[w] + a <= MaxCredit
    /\ available' = [available EXCEPT ![w] = @ + a]
    /\ credited' = [credited EXCEPT ![w] = @ + a]
    /\ UNCHANGED <<locked, payments, locks, requests, sends, lost, held>>

\* A '-' locked wallet update of the message bus settles part of a hold.
Settle(w, a) ==
    /\ WalletFree(w)
    /\ Covers(locked, w, a)
    /\ locked' = [locked EXCEPT ![w] = @ - a]
    /\ credited' = [credited EXCEPT ![w] = @ - a]
    /\ held' = [held EXCEPT ![w] = @ - a]
    /\ UNCHANGED <<available, payments, locks, requests, sends, lost>>
-----------------------------------------------------------------------------
(* Failures *)

AwaitsWallet(r) ==
    /\ step[r] \in {"addPayment", "payLocked", "cancelLocked", "lockChecked", "unlockBalance"}
    /\ ~WalletFree(onWallet[r])
AwaitsPayment(r) ==
    /\ step[r] \in {"pay", "cancel"}
    /\ ~PaymentFree(onPayment[r])

\* Mutant: the handler retries the statement that timed out.
LockTimeoutRetried(r) ==
    /\ "lockTimeout" \in Faults
    /\ AwaitsWallet(r) \/ AwaitsPayment(r)
    /\ UNCHANGED vars

\* innodb_lock_wait_timeout: the statement throws.  The payment handlers'
\* outer catch leaks the transaction, the hold endpoints roll back with 409.
LockTimeout(r) ==
    /\ "lockTimeout" \in Faults
    /\ AwaitsWallet(r) \/ AwaitsPayment(r)
    /\ End(r, IF step[r] \in HoldSteps THEN "idle" ELSE "leaked")
    /\ UNCHANGED <<wallets, payments, locks, sends, history>>

\* A broadcast of p is forgotten when the transaction that made it dies.
Forgotten(p, R) == \E r \in R : step[r] = "paySent" /\ onPayment[r] = p
Forget(R) == lost' = [p \in Payments |-> IF Forgotten(p, R) THEN lost[p] + 1 ELSE lost[p]]

\* A request's MySQL connection drops: the server rolls its transaction back.
ConnectionLost(r) ==
    /\ "dbLost" \in Faults
    /\ step[r] # "idle"
    /\ Forget({r})
    /\ Rollback(r)
    /\ UNCHANGED <<sends, credited, held>>

\* The API process dies: every open transaction is rolled back.
Crash ==
    /\ "crash" \in Faults
    /\ Forget(Requests)
    /\ step' = [r \in Requests |-> "idle"]
    /\ onWallet' = [r \in Requests |-> None]
    /\ onPayment' = [r \in Requests |-> None]
    /\ asked' = [r \in Requests |-> 0]
    /\ walletLock' = [w \in Wallets |-> None]
    /\ paymentLock' = [p \in Payments |-> None]
    /\ UNCHANGED <<wallets, payments, sends, credited, held>>
-----------------------------------------------------------------------------
Arrive(r) ==
    \/ \E w \in Wallets, p \in Payments, a \in Amounts : AddPayment(r, w, p, a)
    \/ \E w \in Wallets, p \in Payments : Pay(r, w, p)
    \/ \E w \in Wallets, p \in Payments : Cancel(r, w, p)
    \/ \E w \in Wallets, a \in Amounts : LockBalance(r, w, a)
    \/ \E w \in Wallets, a \in Amounts : UnlockBalance(r, w, a)

\* The next await of request r returns.
Step(r) ==
    \/ AddReserve(r) \/ AddRefuse(r) \/ AddCommit(r)
    \/ PayLockPayment(r) \/ PayRefusePayment(r) \/ PayDebit(r) \/ PayRefuseBalance(r)
    \/ PaySend(r) \/ PaySendUnrecorded(r) \/ PaySendRejected(r) \/ PayCommit(r)
    \/ CancelLockPayment(r) \/ CancelRefusePayment(r) \/ CancelCommit(r) \/ CancelRefuseBalance(r)
    \/ LockCheck(r) \/ LockRefuse(r) \/ LockCommit(r) \/ LockOutOfRange(r)
    \/ UnlockCommit(r) \/ UnlockRefuse(r)

Fail(r) == AddLeak(r) \/ LockTimeout(r) \/ ConnectionLost(r)

Next ==
    \/ \E r \in Requests : Arrive(r) \/ Step(r) \/ Fail(r)
    \/ \E w \in Wallets, a \in Amounts : Credit(w, a) \/ Settle(w, a)
    \/ Crash

Spec == Init /\ [][Next]_vars

\* Node keeps running the handlers and InnoDB grants row locks in order of
\* arrival, so a step that is enabled again and again is taken.
FairSpec == Spec /\ \A r \in Requests : SF_vars(Step(r)) /\ WF_vars(LockTimeout(r))
-----------------------------------------------------------------------------
(* Properties *)

\* The total amount f gives a set of payments, written as the number of its
\* units so that the finite-set theorems apply to it.
Units(f, S) == {u \in S \X Amounts : u[2] <= f[u[1]]}
Total(f, S) == Cardinality(Units(f, S))
Having(st, w) == {p \in Payments : status[p] = st /\ owner[p] = w}

\* Money is neither created nor destroyed: what was paid into a wallet is
\* available, locked, or has left it through a payment marked paid.  Relates
\* the two balance columns of Wallets.js to the Payments table.
Conservation ==
    \A w \in Wallets : available[w] + locked[w] + Total(amount, Having("paid", w)) = credited[w]

\* The locked balance is exactly the pending payments plus the net holds of
\* lockBalance/unlockBalance, so addPayment, pay and cancelPayment each move
\* the amount of their payment once.
LockedBacksPending ==
    \A w \in Wallets : locked[w] = Total(amount, Having("pending", w)) + held[w]

\* Every broadcast is accounted for: it was rolled back by a failure, or it is
\* the one recorded in a paid row, or the one a live pay handler is about to
\* record.  What pay's row locks (pay.js:23) are for.
InFlight(p) == Forgotten(p, Requests)
Accounted(p) == sends[p] = lost[p] + (IF status[p] = "paid" \/ InFlight(p) THEN 1 ELSE 0)
SendsAccounted == \A p \in Payments : Accounted(p)

\* As long as no failure hit between the broadcast and the commit, a payment is
\* sent once if it is paid, never if it was refunded or does not exist.
ExactlyOnceUnlessLost ==
    \A p \in Payments : lost[p] = 0 =>
        /\ sends[p] <= 1
        /\ status[p] = "paid" => sends[p] = 1
        /\ status[p] \in {"none", "canceled"} => sends[p] = 0

\* A request past its locking steps holds the locks its writes rely on, and the
\* facts it checked when it took them still hold: nothing a handler validated
\* (status, owner, balances) goes stale before its commit.
Checked(r) ==
    /\ step[r] \in AddSteps =>
        /\ status[onPayment[r]] = "none"
        /\ \A q \in Requests \ {r} : step[q] \in AddSteps => onPayment[q] # onPayment[r]
    /\ step[r] = "addReserved" =>
        /\ walletLock[onWallet[r]] = r
        /\ Covers(available, onWallet[r], asked[r])
    /\ step[r] \in LockedSteps =>
        /\ paymentLock[onPayment[r]] = r
        /\ Actionable(onPayment[r], onWallet[r])
    /\ step[r] \in {"payDebited", "paySent"} =>
        /\ walletLock[onWallet[r]] = r
        /\ Covers(locked, onWallet[r], amount[onPayment[r]])
ChecksStayValid == \A r \in Requests : Checked(r)

\* paid and canceled are final: the row never changes again.
StatusFinal ==
    [][\A p \in Payments : status[p] \in {"paid", "canceled"} =>
          status'[p] = status[p] /\ owner'[p] = owner[p] /\ amount'[p] = amount[p]]_vars

\* What pay.js:23-24 says the row lock achieves: the crypto client is never
\* asked twice to pay the same payment.
NoDoublePayment == \A p \in Payments : sends[p] <= 1

\* Every API request gets its answer: the handler returns, whatever locks the
\* others hold or have leaked.
EveryRequestAnswered ==
    \A r \in Requests : step[r] \notin {"idle", "leaked"} ~> step[r] \in {"idle", "leaked"}

\* The handlers implement the atomic ledger: when no failure can separate a
\* broadcast from its commit, interleaving the requests of the API shows the
\* wallets, the payments and the chain nothing the ledger does not allow.
Ledger == INSTANCE PaymentLedger WITH
    available <- available, locked <- locked,
    status <- status, owner <- owner, amount <- amount, sends <- sends
ImplementsLedger == Ledger!Spec
=============================================================================
