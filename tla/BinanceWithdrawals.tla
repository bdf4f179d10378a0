-------------------------- MODULE BinanceWithdrawals --------------------------
(***************************************************************************)
(* Withdrawals of a currency whose liquidityProvider is Binance: addPayment*)
(* asks the exchange inside its MySQL transaction, and pollBinance-        *)
(* Withdrawals settles the payment when the exchange has.  Without the     *)
(* provider a payment is paid or canceled by the handlers of module        *)
(* Withdrawals; here each of those is one step after its provider check.   *)
(*                                                                         *)
(* The API process asks for the provider once: getClient is memoised until *)
(* the process ends, and may have read a settings table that was cached up *)
(* to five minutes before.  One API process.                               *)
(*                                                                         *)
(* One wallet; every payment is of one unit.  Its other writer here is the *)
(* engine, which holds a part of the balance for orders and gives it back: *)
(* lockBalance and unlockBalance do not ask what is locked for payments.   *)
(***************************************************************************)
EXTENDS Integers, FiniteSets

CONSTANTS Payments,     \* payments users may ask for
          None,
          Leaked,       \* holder of a wallet whose transaction was abandoned
          Funds,        \* the wallet's balance
          SwitchTo,     \* providers an operator may change to
          MaxHeld,      \* bound on what is held for orders, or given back beyond it
          MaxFailures   \* bound on crashes and lost answers

ASSUME BinanceAssumption ==
    /\ IsFiniteSet(Payments)
    /\ None \notin Payments /\ Leaked \notin Payments /\ Leaked # None
    /\ Funds \in Nat /\ MaxFailures \in Nat /\ MaxHeld \in Nat
    /\ SwitchTo \subseteq {"binance", "vault"}

VARIABLES status,               \* Payments rows
          available, locked,    \* the wallet's row
          held,                 \* history: what lockBalance has put on hold, net
          walletHolder,         \* the addPayment whose transaction has locked it
          provider,             \* liquidityProvider in the CryptoClientSettings table
          table, client,        \* API memory: the cached table, the provider of getClient
          exchange,             \* the withdrawals at Binance, with a payment or without
          admitted,             \* requests of pay and cancelPayment past the provider check
          sent,                 \* payments broadcast by the vault itself
          todo, answer, job,    \* poller: withdrawals left, their answers, the one at hand
          failures              \* failures so far

rows     == <<status, available, locked, held>>
settings == <<provider, table, client>>
poller   == <<todo, answer, job>>
vars     == <<status, available, locked, held, walletHolder, provider, table, client, exchange,
              admitted, sent, todo, answer, job, failures>>

Providers == {"binance", "vault"}
Handlers  == {"pay", "cancelPayment"}
ExchangeStates == {"none", "processing", "completed", "cancelled"}

TypeOK ==
    /\ status \in [Payments -> {"none", "pending", "paid", "canceled"}]
    /\ available \in 0..Funds
    /\ locked \in 0..Funds
    /\ held \in -MaxHeld..MaxHeld
    /\ walletHolder \in Payments \cup {None, Leaked}
    /\ provider \in Providers
    /\ table \in Providers \cup {"unset"}
    /\ client \in Providers \cup {"unset", "rejected"}
    /\ exchange \in [Payments -> ExchangeStates]
    /\ admitted \subseteq Handlers \X Payments
    /\ sent \subseteq Payments
    /\ todo \subseteq Payments
    /\ answer \in [Payments -> ExchangeStates]
    /\ job \in Payments \cup {None}
    /\ failures \in 0..MaxFailures

NoAnswer == [p \in Payments |-> "none"]

Init ==
    /\ status = [p \in Payments |-> "none"]
    /\ available = Funds /\ locked = 0 /\ held = 0
    /\ walletHolder = None
    /\ provider \in Providers
    /\ table = "unset" /\ client = "unset"
    /\ exchange = NoAnswer
    /\ admitted = {} /\ sent = {}
    /\ todo = {} /\ answer = NoAnswer /\ job = None
    /\ failures = 0

Fail == failures < MaxFailures /\ failures' = failures + 1
-----------------------------------------------------------------------------
(* CryptoClientSettings *)

\* findAll: another request reads the table, and its answer is cached.
FindAll ==
    /\ table # provider
    /\ table' = provider
    /\ UNCHANGED <<rows, walletHolder, provider, client, exchange, admitted, sent, poller,
                   failures>>

\* The first getClient of the currency, with the cached table or a new one: its
\* answer is kept.
GetClient ==
    /\ client = "unset"
    /\ table' \in {table, provider} \ {"unset"}
    /\ client' = table'
    /\ UNCHANGED <<rows, walletHolder, provider, exchange, admitted, sent, poller, failures>>

\* The table cannot be read, and memoize keeps the rejected promise.
GetClientRejects ==
    /\ Fail
    /\ client = "unset"
    /\ client' = "rejected"
    /\ UNCHANGED <<rows, walletHolder, provider, table, exchange, admitted, sent, poller>>

\* addPayment has returned, or is about to return, without a rollback: nobody
\* unlocks the wallet.
WalletLeaked == walletHolder = Leaked \/ (client = "rejected" /\ walletHolder # None)

\* The API process ends, with the requests it has, and is started again.
ApiRestart ==
    /\ IF admitted = {} /\ (walletHolder = None \/ WalletLeaked) THEN UNCHANGED failures ELSE Fail
    /\ walletHolder' = None /\ admitted' = {}
    /\ table' = "unset" /\ client' = "unset"
    /\ UNCHANGED <<rows, provider, exchange, sent, poller>>

\* An operator changes the table.
Switch ==
    /\ provider' \in SwitchTo \ {provider}
    /\ UNCHANGED <<rows, walletHolder, table, client, exchange, admitted, sent, poller,
                   failures>>
-----------------------------------------------------------------------------
(* addPayment *)

\* Mutant: lockBalance does not look at the available balance.
AddReserveUnchecked(p) ==
    /\ walletHolder = None
    /\ status[p] = "none" /\ exchange[p] = "none"
    /\ walletHolder' = p
    /\ UNCHANGED <<rows, settings, exchange, admitted, sent, poller, failures>>

\* The wallet is locked FOR UPDATE and the amount reserved, not committed yet.
AddReserve(p) ==
    /\ walletHolder = None
    /\ status[p] = "none" /\ exchange[p] = "none"
    /\ available >= 1
    /\ walletHolder' = p
    /\ UNCHANGED <<rows, settings, exchange, admitted, sent, poller, failures>>

\* ctx.binance.withdraw, with the wallet locked.
AddWithdraw(p) ==
    /\ walletHolder = p
    /\ client = "binance" /\ exchange[p] = "none"
    /\ exchange' = [exchange EXCEPT ![p] = "processing"]
    /\ UNCHANGED <<rows, walletHolder, settings, admitted, sent, poller, failures>>

\* The payment is created, with the binanceId if there is one.
AddCommit(p) ==
    /\ walletHolder = p
    /\ client = "vault" \/ exchange[p] # "none"
    /\ status' = [status EXCEPT ![p] = "pending"]
    /\ available' = available - 1 /\ locked' = locked + 1
    /\ walletHolder' = None
    /\ UNCHANGED <<held, settings, exchange, admitted, sent, poller, failures>>

\* 503 binanceFailedWithdrawalRequest.
AddRefused(p) ==
    /\ walletHolder = p
    /\ client = "binance" /\ exchange[p] = "none"
    /\ walletHolder' = None
    /\ UNCHANGED <<rows, settings, exchange, admitted, sent, poller, failures>>

\* Binance has the withdrawal and no payment does: its answer is lost, and the
\* handler rolls back; or the connection is lost after it, and MySQL does.
AddLost(p) ==
    /\ Fail
    /\ walletHolder = p /\ exchange[p] # "none"
    /\ walletHolder' = None
    /\ UNCHANGED <<rows, settings, exchange, admitted, sent, poller>>

\* Payments.create or findByUser throws after the provider was asked: the outer
\* catch returns, and the transaction keeps the wallet until the process ends.
AddLeak(p) ==
    /\ Fail
    /\ walletHolder = p
    /\ client = "vault" \/ exchange[p] # "none"
    /\ walletHolder' = Leaked
    /\ UNCHANGED <<rows, settings, exchange, admitted, sent, poller>>
-----------------------------------------------------------------------------
(* lockBalance and unlockBalance: the balance is checked, the wallet written *)

LockBalance ==
    /\ walletHolder = None
    /\ available >= 1 /\ held < MaxHeld
    /\ available' = available - 1 /\ locked' = locked + 1 /\ held' = held + 1
    /\ UNCHANGED <<status, walletHolder, settings, exchange, admitted, sent, poller, failures>>

\* It may give back what a pending payment has reserved.
UnlockBalance ==
    /\ walletHolder = None
    /\ locked >= 1 /\ held > -MaxHeld
    /\ available' = available + 1 /\ locked' = locked - 1 /\ held' = held - 1
    /\ UNCHANGED <<status, walletHolder, settings, exchange, admitted, sent, poller, failures>>
-----------------------------------------------------------------------------
(* Binance *)

\* The exchange sends the coins, or gives up.
Finish(p, outcome) ==
    /\ exchange[p] = "processing"
    /\ exchange' = [exchange EXCEPT ![p] = outcome]
    /\ UNCHANGED <<rows, walletHolder, settings, admitted, sent, poller, failures>>
-----------------------------------------------------------------------------
(* pollBinanceWithdrawals *)

\* listWithdrawals: what the exchange says now.
List ==
    /\ todo = {} /\ job = None
    /\ todo' = {p \in Payments : exchange[p] # "none"}
    /\ answer' = exchange
    /\ UNCHANGED <<rows, walletHolder, settings, exchange, admitted, sent, job, failures>>

\* Mutant: syncPayments does not look at the payment's status.
UnsettledUnchecked(p) ==
    /\ status[p] # "none"
    /\ answer[p] \in {"completed", "cancelled"}

\* Mutant: only the withdrawals that were sent are settled.
UnsettledPaidOnly(p) ==
    status[p] # "none" /\ answer[p] = "completed" /\ status[p] # "paid"

\* The payment, read outside any transaction, is not what the exchange says.
Unsettled(p) ==
    /\ status[p] # "none"
    /\ \/ answer[p] = "completed" /\ status[p] # "paid"
       \/ answer[p] = "cancelled" /\ status[p] # "canceled"

Look(p) ==
    /\ job = None /\ p \in todo
    /\ todo' = todo \ {p}
    /\ job' = IF Unsettled(p) THEN p ELSE None
    /\ UNCHANGED <<rows, walletHolder, settings, exchange, admitted, sent, answer, failures>>

\* pay or cancel: one transaction, which does not look at the status again.  If
\* the locked balance does not cover the amount, because unlockBalance has given
\* the reservation back, changeBalance throws: the process ends, MySQL rolls back,
\* and the poller is started again, to meet the same withdrawal.
Settle(p) ==
    /\ job = p /\ walletHolder = None
    /\ IF locked >= 1
       THEN /\ locked' = locked - 1
            /\ available' = IF answer[p] = "completed" THEN available ELSE available + 1
            /\ status' = [status EXCEPT ![p] = IF answer[p] = "completed" THEN "paid" ELSE "canceled"]
            /\ UNCHANGED <<todo, answer>>
       ELSE todo' = {} /\ answer' = NoAnswer /\ UNCHANGED <<status, available, locked>>
    /\ job' = None
    /\ UNCHANGED <<held, walletHolder, settings, exchange, admitted, sent, failures>>

PollerCrash ==
    /\ Fail
    /\ todo' = {} /\ answer' = NoAnswer /\ job' = None
    /\ UNCHANGED <<rows, walletHolder, settings, exchange, admitted, sent>>
-----------------------------------------------------------------------------
(* pay and cancelPayment of a currency without the provider *)

\* Mutant: the check of pay.js:14 and cancelPayment.js:13 is left out.
AdmitAny(h, p) ==
    /\ status[p] = "pending"
    /\ <<h, p>> \notin admitted
    /\ admitted' = admitted \cup {<<h, p>>}
    /\ UNCHANGED <<rows, walletHolder, settings, exchange, sent, poller, failures>>

Admit(h, p) ==
    /\ client = "vault"
    /\ status[p] = "pending"
    /\ <<h, p>> \notin admitted
    /\ admitted' = admitted \cup {<<h, p>>}
    /\ UNCHANGED <<rows, walletHolder, settings, exchange, sent, poller, failures>>

\* The rest of the handler: it refuses a payment that is settled by now, or whose
\* reservation is gone.
Handle(h, p) ==
    /\ <<h, p>> \in admitted /\ walletHolder = None
    /\ admitted' = admitted \ {<<h, p>>}
    /\ IF status[p] = "pending" /\ locked >= 1
       THEN /\ locked' = locked - 1
            /\ available' = IF h = "pay" THEN available ELSE available + 1
            /\ status' = [status EXCEPT ![p] = IF h = "pay" THEN "paid" ELSE "canceled"]
            /\ sent' = IF h = "pay" THEN sent \cup {p} ELSE sent
       ELSE UNCHANGED <<status, available, locked, sent>>
    /\ UNCHANGED <<held, walletHolder, settings, exchange, poller, failures>>
-----------------------------------------------------------------------------
Api(p) ==
    \/ walletHolder = p /\ GetClient
    \/ AddWithdraw(p) \/ AddCommit(p) \/ AddRefused(p)

Poller ==
    \/ List
    \/ \E p \in Payments : Look(p) \/ Settle(p)

Next ==
    \/ \E p \in Payments : Api(p) \/ AddReserve(p) \/ AddLost(p) \/ AddLeak(p)
    \/ LockBalance \/ UnlockBalance
    \/ \E p \in Payments, h \in Handlers : Admit(h, p) \/ Handle(h, p)
    \/ \E p \in Payments, outcome \in {"completed", "cancelled"} : Finish(p, outcome)
    \/ Poller \/ PollerCrash
    \/ Switch \/ FindAll \/ GetClient \/ GetClientRejects \/ ApiRestart

Spec == Init /\ [][Next]_vars

\* The poller goes on (systemd starts it again), the handlers finish what they
\* have begun, and InnoDB grants a lock in the order it was asked for, so the
\* poller is not passed over forever.  Nothing is assumed of Binance.
FairSpec ==
    /\ Spec
    /\ WF_vars(Poller)
    /\ SF_vars(\E p \in Payments : Settle(p))
    /\ \A p \in Payments : WF_vars(Api(p))
-----------------------------------------------------------------------------
(* Properties *)

\* What the wallet has locked is what its pending payments may still take and
\* what the engine holds of it, and nothing is gone from it but what was paid: the
\* poller settles each payment once, although it reads the status before its
\* transaction, is restarted anywhere, and throws when unlockBalance has taken the
\* reservation (pollBinanceWithdrawals.js:25-31, Wallets.js:157).
LockedBacksPending ==
    /\ locked = Cardinality({p \in Payments : status[p] = "pending"}) + held
    /\ available + locked + Cardinality({p \in Payments : status[p] = "paid"}) = Funds

\* A user gets the coins of a payment from Binance or from the vault, not from
\* both, and not at all when the payment was canceled: the provider check of pay
\* and cancelPayment keeps them off what the exchange works on.
OnePayout ==
    \A p \in Payments :
        exchange[p] = "completed" => p \notin sent /\ status[p] # "canceled"

\* unlockBalance has given back more than lockBalance had put on hold: a part of
\* what the pending payments have reserved.
ReservationGone == held < 0

\* The poller brings every payment to the state its withdrawal ended in; but for
\* a wallet that a failed addPayment has left locked (addPayment.js:68), and but
\* for reservations that unlockBalance has given back, over which the poller ends
\* at every start (Wallets.js:140).
Settled ==
    \A p \in Payments :
        /\ status[p] = "pending" /\ exchange[p] = "completed"
               ~> status[p] = "paid" \/ WalletLeaked \/ ReservationGone
        /\ status[p] = "pending" /\ exchange[p] = "cancelled"
               ~> status[p] = "canceled" \/ WalletLeaked \/ ReservationGone
=============================================================================
