---------------------------- MODULE BinanceProofs ----------------------------
(***************************************************************************)
(* Once a currency is traded with Binance for good, no payment is paid     *)
(* twice or both paid and canceled, for any number of payments.            *)
(*                                                                         *)
(* OnePayout is not inductive: the reason for it is that what Binance knows*)
(* and what pay or cancelPayment may touch never meet, and that the poller *)
(* acts only on answers that stay true.                                    *)
(***************************************************************************)
EXTENDS BinanceWithdrawals, FiniteSetTheorems, TLAPS

\* The part of the type invariant the argument needs.
PaymentTypeOK ==
    /\ status \in [Payments -> {"none", "pending", "paid", "canceled"}]
    /\ exchange \in [Payments -> ExchangeStates]
    /\ answer \in [Payments -> ExchangeStates]
    /\ provider \in Providers
    /\ table \in Providers \cup {"unset"}
    /\ client \in Providers \cup {"unset", "rejected"}
    /\ admitted \subseteq Handlers \X Payments

\* A withdrawal was asked for only since the provider is Binance, and no API
\* process remembers it otherwise.
ProviderKnown ==
    /\ client = "binance" \/ table = "binance" => provider = "binance"
    /\ client = "binance" => table # "vault"
    /\ \A p \in Payments :
           exchange[p] # "none" => provider = "binance" /\ table # "vault" /\ client # "vault"

\* The payment of an open addPayment does not exist yet.
AddIsNew == walletHolder \in Payments => status[walletHolder] = "none"

\* What pay and cancelPayment may touch, or have touched, Binance does not know.
Apart ==
    \A p \in Payments :
        (p \in sent \/ \E h \in Handlers : <<h, p>> \in admitted)
            => exchange[p] = "none" /\ status[p] # "none"

\* A final answer of the exchange is still true when the poller acts on it.
AnswersStayTrue ==
    \A p \in Payments :
        /\ answer[p] \in {"completed", "cancelled"} => exchange[p] = answer[p]
        /\ job = p => answer[p] \in {"completed", "cancelled"}

\* A canceled payment is one that Binance has canceled, or does not know.
CanceledUnsent ==
    \A p \in Payments : status[p] = "canceled" => exchange[p] \in {"none", "cancelled"}

IInv ==
    /\ PaymentTypeOK
    /\ ProviderKnown
    /\ AddIsNew
    /\ Apart
    /\ AnswersStayTrue
    /\ CanceledUnsent

\* The initial states satisfy the invariant.
LEMMA InitInvariant == Init => IInv
  BY BinanceAssumption
     DEF Init, IInv, PaymentTypeOK, ProviderKnown, AddIsNew, Apart, AnswersStayTrue,
         CanceledUnsent, NoAnswer, ExchangeStates, Providers

\* The poller forgets what it was doing.
LEMMA PollerStops ==
  ASSUME IInv, job' = None, answer' = NoAnswer,
         UNCHANGED <<rows, walletHolder, settings, exchange, admitted, sent>>
  PROVE  IInv'
  BY BinanceAssumption
     DEF IInv, PaymentTypeOK, ProviderKnown, AddIsNew, Apart, AnswersStayTrue,
         CanceledUnsent, NoAnswer, ExchangeStates, rows, settings

LEMMA NextKeeps ==
  ASSUME "vault" \notin SwitchTo, IInv, [Next]_vars
  PROVE  IInv'
<1> USE DEF IInv, PaymentTypeOK, ProviderKnown, AddIsNew, Apart, AnswersStayTrue,
            CanceledUnsent, ExchangeStates, Handlers, Providers, rows, settings, poller
<1>1. ASSUME NEW p \in Payments, AddReserve(p) PROVE IInv'
  BY <1>1 DEF AddReserve
<1>2. ASSUME NEW p \in Payments, AddWithdraw(p) PROVE IInv'
  BY <1>2 DEF AddWithdraw
<1>3. ASSUME NEW p \in Payments, AddCommit(p) PROVE IInv'
  BY <1>3, BinanceAssumption DEF AddCommit
<1>4. ASSUME NEW p \in Payments, AddRefused(p) PROVE IInv'
  BY <1>4, BinanceAssumption DEF AddRefused
<1>5. ASSUME NEW p \in Payments, AddLost(p) PROVE IInv'
  BY <1>5, BinanceAssumption DEF AddLost
<1>5a. ASSUME NEW p \in Payments, AddLeak(p) PROVE IInv'
  BY <1>5a, BinanceAssumption DEF AddLeak
<1>5b. CASE LockBalance \/ UnlockBalance
  BY <1>5b DEF LockBalance, UnlockBalance
<1>6. ASSUME NEW p \in Payments, NEW o \in {"completed", "cancelled"}, Finish(p, o)
      PROVE  IInv'
  BY <1>6 DEF Finish
<1>7. CASE Switch
  <2>1. provider = "vault" /\ provider' = "binance"
    BY <1>7, BinanceAssumption DEF Switch
  <2> QED BY <1>7, <2>1 DEF Switch
<1>8. CASE List
  BY <1>8, BinanceAssumption DEF List
<1>9. ASSUME NEW p \in Payments, Look(p) PROVE IInv'
  BY <1>9, BinanceAssumption DEF Look, Unsettled
<1>10. ASSUME NEW p \in Payments, Settle(p) PROVE IInv'
  <2>1. CASE locked >= 1
    BY <1>10, <2>1, BinanceAssumption DEF Settle
  <2>2. CASE ~(locked >= 1)
    BY <1>10, <2>2, PollerStops DEF Settle
  <2> QED BY <2>1, <2>2
<1>11. CASE PollerCrash
  BY <1>11, PollerStops DEF PollerCrash
<1>12. ASSUME NEW p \in Payments, NEW h \in Handlers, Admit(h, p) PROVE IInv'
  BY <1>12 DEF Admit
<1>13. ASSUME NEW p \in Payments, NEW h \in Handlers, Handle(h, p) PROVE IInv'
  <2>1. /\ <<h, p>> \in admitted
        /\ admitted' = admitted \ {<<h, p>>}
        /\ UNCHANGED <<walletHolder, provider, table, client, exchange, todo, answer, job>>
    BY <1>13 DEF Handle
  <2>2. exchange[p] = "none" /\ status[p] # "none" /\ walletHolder # p
    BY <2>1
  <2>3. CASE status' = status /\ sent' = sent
    BY <2>1, <2>3
  <2>4. CASE /\ status' = [status EXCEPT ![p] = IF h = "pay" THEN "paid" ELSE "canceled"]
             /\ sent' = IF h = "pay" THEN sent \cup {p} ELSE sent
    BY <2>1, <2>2, <2>4
  <2> QED BY <1>13, <2>3, <2>4 DEF Handle
<1>14. CASE FindAll
  BY <1>14 DEF FindAll
<1>15. CASE GetClient
  BY <1>15 DEF GetClient
<1>16. CASE GetClientRejects
  BY <1>16 DEF GetClientRejects
<1>17. CASE ApiRestart
  BY <1>17, BinanceAssumption DEF ApiRestart
<1>18. CASE UNCHANGED vars
  BY <1>18 DEF vars
<1> QED
  BY <1>1, <1>2, <1>3, <1>4, <1>5, <1>5a, <1>5b, <1>6, <1>7, <1>8, <1>9, <1>10, <1>11, <1>12, <1>13,
     <1>14, <1>15, <1>16, <1>17, <1>18 DEF Next, Api, Poller

\* As long as no operator takes the provider away again, a payment is paid out by
\* Binance or by the vault, never by both, and a canceled one by neither.
THEOREM PaidOutOnce ==
  ASSUME "vault" \notin SwitchTo
  PROVE  Spec => []OnePayout
<1>1. IInv /\ [Next]_vars => IInv'
  BY NextKeeps
<1>2. IInv => OnePayout
  BY DEF IInv, PaymentTypeOK, Apart, CanceledUnsent, OnePayout
<1> QED BY InitInvariant, <1>1, <1>2, PTL DEF Spec

-----------------------------------------------------------------------------
(* The wallet's books                                                      *)
(*                                                                         *)
(* The poller reads a payment's status before its transaction and does not *)
(* look again.  That is sound because a payment Binance has decided about  *)
(* stays pending until the poller itself settles it: pay and cancelPayment *)
(* may not touch it.  If unlockBalance has taken what it had reserved, the *)
(* settlement throws and leaves the books as they are.                     *)

Statuses == {"none", "pending", "paid", "canceled"}
Having(st, s) == {p \in Payments : st[p] = s}

\* A paid payment is one that Binance has sent, or does not know.
PaidSent == \A p \in Payments : status[p] = "paid" => exchange[p] \in {"none", "completed"}

\* The poller is about to settle a payment that is still pending.
JobPending == job \in Payments => status[job] = "pending"

\* What an open addPayment has checked stays covered.
ReserveCovered == walletHolder \in Payments => available >= 1

BooksInv ==
    /\ IInv
    /\ TypeOK
    /\ PaidSent
    /\ JobPending
    /\ ReserveCovered
    /\ LockedBacksPending

LEMMA HavingFinite ==
    ASSUME NEW st, NEW s
    PROVE  IsFiniteSet(Having(st, s)) /\ Cardinality(Having(st, s)) \in Nat
<1>1. Having(st, s) \in SUBSET Payments
  BY DEF Having
<1> QED
  BY <1>1, BinanceAssumption, FS_Subset, FS_CardinalityType

\* A payment that changes its status leaves one count and enters another.
LEMMA StatusMoves ==
    ASSUME PaymentTypeOK, NEW p \in Payments, NEW old \in Statuses, NEW new \in Statuses,
           status[p] = old, new # old,
           \A q \in Payments : status'[q] = IF q = p THEN new ELSE status[q]
    PROVE  /\ Cardinality(Having(status', old)) = Cardinality(Having(status, old)) - 1
           /\ Cardinality(Having(status', new)) = Cardinality(Having(status, new)) + 1
           /\ \A s \in Statuses :
                 s # new /\ s # old => Cardinality(Having(status', s)) = Cardinality(Having(status, s))
<1>1. status \in [Payments -> {"none", "pending", "paid", "canceled"}]
  BY DEF PaymentTypeOK
<1>2. /\ Having(status', new) = Having(status, new) \cup {p}
      /\ p \notin Having(status, new)
      /\ p \in Having(status, old)
      /\ \A s : s # new /\ s # old => Having(status', s) = Having(status, s)
  BY <1>1 DEF Having
<1>3. Having(status', old) = Having(status, old) \ {p}
  BY <1>1 DEF Having
<1>4. Cardinality(Having(status', new)) = Cardinality(Having(status, new)) + 1
  BY <1>2, HavingFinite, FS_AddElement
<1>5. Cardinality(Having(status, old) \ {p}) = Cardinality(Having(status, old)) - 1
  BY <1>2, HavingFinite, FS_RemoveElement
<1> QED
  BY <1>2, <1>3, <1>4, <1>5 DEF Having

LEMMA InitBooks == Init => BooksInv
<1> SUFFICES ASSUME Init PROVE BooksInv
  OBVIOUS
<1>1. IInv
  BY InitInvariant
<1>2. TypeOK
  BY BinanceAssumption DEF Init, TypeOK, NoAnswer, ExchangeStates, Providers
<1>3. PaidSent /\ JobPending /\ ReserveCovered
  BY BinanceAssumption DEF Init, PaidSent, JobPending, ReserveCovered
<1>4. {p \in Payments : status[p] = "pending"} = {} /\ {p \in Payments : status[p] = "paid"} = {}
  BY DEF Init
<1>5. LockedBacksPending
  BY <1>4, FS_EmptySet, BinanceAssumption DEF Init, LockedBacksPending
<1> QED
  BY <1>1, <1>2, <1>3, <1>5 DEF BooksInv

\* A step that writes no row.
LEMMA QuietBooks ==
    ASSUME BooksInv, IInv', TypeOK', UNCHANGED rows, PaidSent', JobPending', ReserveCovered'
    PROVE  BooksInv'
  BY DEF BooksInv, LockedBacksPending, rows

\* A pending payment is settled, by whomever, while no addPayment is open.
LEMMA SettleBooks ==
    ASSUME BooksInv, IInv', NEW p \in Payments, NEW s \in {"paid", "canceled"},
           status[p] = "pending", locked >= 1, walletHolder = None,
           status' = [status EXCEPT ![p] = s],
           locked' = locked - 1,
           available' = IF s = "paid" THEN available ELSE available + 1,
           s = "paid" => exchange[p] \in {"none", "completed"},
           job' = None \/ (job' = job /\ job # p),
           UNCHANGED <<held, walletHolder, provider, table, client, exchange, answer, failures>>,
           admitted' \subseteq Handlers \X Payments, sent' \subseteq Payments, todo' \subseteq Payments
    PROVE  BooksInv'
<1>0. /\ TypeOK /\ PaidSent /\ JobPending /\ PaymentTypeOK
      /\ locked = Cardinality(Having(status, "pending")) + held
      /\ available + locked + Cardinality(Having(status, "paid")) = Funds
  BY DEF BooksInv, IInv, LockedBacksPending, Having
<1>1. /\ available \in 0..Funds /\ locked \in 0..Funds /\ Funds \in Nat
      /\ status \in [Payments -> {"none", "pending", "paid", "canceled"}]
      /\ Cardinality(Having(status, "paid")) \in Nat /\ None \notin Payments
      /\ Cardinality(Having(status, "pending")) \in Nat /\ held \in Int /\ held' = held
  BY <1>0, HavingFinite, BinanceAssumption DEF TypeOK
<1>s. \A q \in Payments : status'[q] = IF q = p THEN s ELSE status[q]
  BY <1>1
<1>2. /\ Cardinality(Having(status', "pending")) = Cardinality(Having(status, "pending")) - 1
      /\ Cardinality(Having(status', s)) = Cardinality(Having(status, s)) + 1
      /\ s # "paid" => Cardinality(Having(status', "paid")) = Cardinality(Having(status, "paid"))
  BY <1>0, <1>s, StatusMoves DEF Statuses
<1>3. /\ locked' = Cardinality(Having(status', "pending")) + held'
      /\ available' + locked' + Cardinality(Having(status', "paid")) = Funds
  <2>1. CASE s = "paid"
    BY <1>0, <1>1, <1>2, <2>1
  <2>2. CASE s = "canceled"
    BY <1>0, <1>1, <1>2, <2>2
  <2> QED BY <2>1, <2>2
<1>4. LockedBacksPending'
  BY <1>3 DEF LockedBacksPending, Having
<1>5. available' \in 0..Funds /\ locked' \in 0..Funds
  <2>1. Cardinality(Having(status', "paid")) \in Nat
    BY <1>1, <1>2
  <2> QED BY <1>1, <1>3, <2>1
<1>6. TypeOK'
  <2>1. status' \in [Payments -> {"none", "pending", "paid", "canceled"}]
    BY <1>1
  <2>2. job' \in Payments \cup {None}
    BY <1>0 DEF TypeOK
  <2> QED BY <1>0, <1>5, <2>1, <2>2 DEF TypeOK
<1>7. PaidSent' /\ JobPending' /\ ReserveCovered'
  BY <1>0, <1>1 DEF PaidSent, JobPending, ReserveCovered
<1> QED
  BY <1>4, <1>6, <1>7 DEF BooksInv

LEMMA NextBooks ==
    ASSUME "vault" \notin SwitchTo, BooksInv, [Next]_vars
    PROVE  BooksInv'
<1> USE DEF rows, settings, poller
<1>0. /\ IInv /\ TypeOK /\ PaidSent /\ JobPending /\ ReserveCovered
      /\ PaymentTypeOK /\ AddIsNew /\ Apart /\ AnswersStayTrue /\ CanceledUnsent /\ ProviderKnown
      /\ None \notin Payments /\ Leaked \notin Payments
      /\ held \in Int
  BY BinanceAssumption DEF BooksInv, IInv, TypeOK
<1>i. IInv'
  BY <1>0, NextKeeps
<1>1. ASSUME NEW p \in Payments, \/ AddReserve(p) \/ AddRefused(p) \/ AddWithdraw(p)
                                 \/ AddLost(p) \/ AddLeak(p)
      PROVE  BooksInv'
  <2>1. /\ UNCHANGED <<status, available, locked, held, provider, table, client, admitted, sent, todo, answer, job>>
        /\ walletHolder' \in {p, None, Leaked} /\ (walletHolder' = p => available >= 1)
    BY <1>0, <1>1 DEF AddReserve, AddRefused, AddWithdraw, AddLost, AddLeak, ReserveCovered
  <2>2. exchange' = exchange \/ (exchange[p] = "none" /\ status[p] = "none"
                                   /\ exchange' = [exchange EXCEPT ![p] = "processing"])
    BY <1>0, <1>1 DEF AddReserve, AddRefused, AddWithdraw, AddLost, AddLeak, AddIsNew
  <2>p. PaidSent'
    <3>1. CASE exchange' = exchange
      BY <1>0, <2>1, <3>1 DEF PaidSent
    <3>2. CASE exchange' # exchange
      BY <1>0, <2>1, <2>2, <3>2 DEF PaidSent, TypeOK
    <3> QED BY <3>1, <3>2
  <2>3. PaidSent' /\ JobPending' /\ ReserveCovered'
    BY <1>0, <2>1, <2>p DEF JobPending, ReserveCovered
  <2>4. failures' \in 0..MaxFailures
    BY <1>0, <1>1, BinanceAssumption DEF AddReserve, AddRefused, AddWithdraw, AddLost, AddLeak, Fail, TypeOK
  <2>5. exchange' \in [Payments -> ExchangeStates]
    BY <1>0, <2>2 DEF TypeOK, ExchangeStates
  <2>6. TypeOK'
    <3>1. walletHolder' \in Payments \cup {None, Leaked}
      BY <2>1
    <3> QED BY <1>0, <2>1, <2>4, <2>5, <3>1 DEF TypeOK
  <2> QED BY <1>i, <2>1, <2>3, <2>6, QuietBooks
<1>2. ASSUME NEW p \in Payments, AddCommit(p)
      PROVE  BooksInv'
  <2>1. /\ walletHolder = p /\ walletHolder' = None /\ status[p] = "none" /\ available >= 1
        /\ status' = [status EXCEPT ![p] = "pending"]
        /\ available' = available - 1 /\ locked' = locked + 1
        /\ UNCHANGED <<held, provider, table, client, exchange, admitted, sent, todo, answer, job, failures>>
    BY <1>0, <1>2 DEF AddCommit, AddIsNew, ReserveCovered
  <2>2. /\ available \in 0..Funds /\ locked \in 0..Funds /\ Funds \in Nat
        /\ locked = Cardinality(Having(status, "pending")) + held
        /\ available + locked + Cardinality(Having(status, "paid")) = Funds
        /\ Cardinality(Having(status, "paid")) \in Nat
        /\ Cardinality(Having(status, "pending")) \in Nat /\ held \in Int
        /\ status \in [Payments -> {"none", "pending", "paid", "canceled"}]
    <3>1. /\ locked = Cardinality(Having(status, "pending")) + held
          /\ available + locked + Cardinality(Having(status, "paid")) = Funds
      BY DEF BooksInv, LockedBacksPending, Having
    <3>2. /\ Cardinality(Having(status, "paid")) \in Nat
          /\ Cardinality(Having(status, "pending")) \in Nat
      BY HavingFinite
    <3> QED BY <1>0, <3>1, <3>2, BinanceAssumption DEF TypeOK
  <2>s. \A q \in Payments : status'[q] = IF q = p THEN "pending" ELSE status[q]
    BY <2>1, <2>2
  <2>3. /\ Cardinality(Having(status', "pending")) = Cardinality(Having(status, "pending")) + 1
        /\ Cardinality(Having(status', "paid")) = Cardinality(Having(status, "paid"))
    BY <1>0, <2>1, <2>s, StatusMoves DEF Statuses
  <2>4. /\ locked' = Cardinality(Having(status', "pending")) + held'
        /\ available' + locked' + Cardinality(Having(status', "paid")) = Funds
        /\ available' \in 0..Funds /\ locked' \in 0..Funds
    BY <2>1, <2>2, <2>3
  <2>5. LockedBacksPending'
    BY <2>4 DEF LockedBacksPending, Having
  <2>6. status' \in [Payments -> {"none", "pending", "paid", "canceled"}]
    BY <2>1, <2>2
  <2>7. TypeOK'
    BY <1>0, <2>1, <2>4, <2>6 DEF TypeOK
  <2>8. PaidSent' /\ JobPending' /\ ReserveCovered'
    BY <1>0, <2>1, <2>2 DEF PaidSent, JobPending, ReserveCovered
  <2> QED BY <1>i, <2>5, <2>7, <2>8 DEF BooksInv
<1>3. ASSUME NEW p \in Payments, NEW o \in {"completed", "cancelled"}, Finish(p, o)
      PROVE  BooksInv'
  <2>1. /\ UNCHANGED <<status, available, locked, held, walletHolder, provider, table, client, admitted, sent, todo, answer, job,
                       failures>>
        /\ exchange[p] = "processing" /\ exchange' = [exchange EXCEPT ![p] = o]
    BY <1>3 DEF Finish
  <2>2. TypeOK'
    BY <1>0, <2>1 DEF TypeOK, ExchangeStates
  <2>3. PaidSent' /\ JobPending' /\ ReserveCovered'
    BY <1>0, <2>1 DEF PaidSent, JobPending, ReserveCovered, TypeOK
  <2> QED BY <1>i, <2>1, <2>2, <2>3, QuietBooks
<1>4. CASE \/ Switch \/ FindAll \/ GetClient \/ GetClientRejects \/ ApiRestart
           \/ List \/ PollerCrash \/ UNCHANGED vars
  <2>1. /\ UNCHANGED <<status, available, locked, held, exchange, sent>>
        /\ walletHolder' \in {walletHolder, None} /\ admitted' \in {admitted, {}}
        /\ job' \in {job, None} /\ answer' \in {answer, exchange, NoAnswer}
    BY <1>4 DEF Switch, FindAll, GetClient, GetClientRejects, ApiRestart, List, PollerCrash, vars
  <2>2. todo' \subseteq Payments
    BY <1>0, <1>4 DEF Switch, FindAll, GetClient, GetClientRejects, ApiRestart, List, PollerCrash,
                      vars, TypeOK
  <2>3. failures' \in 0..MaxFailures
    BY <1>0, <1>4, BinanceAssumption
       DEF Switch, FindAll, GetClient, GetClientRejects, ApiRestart, List, PollerCrash, Fail, vars, TypeOK
  <2>7. /\ provider' \in Providers /\ table' \in Providers \cup {"unset"}
        /\ client' \in Providers \cup {"unset", "rejected"}
    BY <1>i DEF IInv, PaymentTypeOK
  <2>4. answer' \in [Payments -> ExchangeStates]
    BY <1>0, <2>1 DEF TypeOK, NoAnswer, ExchangeStates
  <2>5. TypeOK'
    BY <1>0, <2>1, <2>2, <2>3, <2>4, <2>7 DEF TypeOK
  <2>6. PaidSent' /\ JobPending' /\ ReserveCovered'
    BY <1>0, <2>1 DEF PaidSent, JobPending, ReserveCovered
  <2> QED BY <1>i, <2>1, <2>5, <2>6, QuietBooks
<1>5. ASSUME NEW p \in Payments, Look(p)
      PROVE  BooksInv'
  <2>1. /\ UNCHANGED <<status, available, locked, held, walletHolder, provider, table, client, exchange, admitted, sent, answer,
                       failures>>
        /\ todo' = todo \ {p} /\ job' = IF Unsettled(p) THEN p ELSE None
    BY <1>5 DEF Look
  <2>2. Unsettled(p) => status[p] = "pending"
    <3>1. status[p] \in {"none", "pending", "paid", "canceled"}
      BY <1>0 DEF PaymentTypeOK
    <3>2. answer[p] \in {"completed", "cancelled"} => exchange[p] = answer[p]
      BY <1>0 DEF AnswersStayTrue
    <3>3. status[p] = "paid" => exchange[p] \in {"none", "completed"}
      BY <1>0 DEF PaidSent
    <3>4. status[p] = "canceled" => exchange[p] \in {"none", "cancelled"}
      BY <1>0 DEF CanceledUnsent
    <3> QED BY <3>1, <3>2, <3>3, <3>4 DEF Unsettled
  <2>3. TypeOK'
    BY <1>0, <2>1 DEF TypeOK
  <2>4. PaidSent' /\ JobPending' /\ ReserveCovered'
    BY <1>0, <2>1, <2>2 DEF PaidSent, JobPending, ReserveCovered
  <2> QED BY <1>i, <2>1, <2>3, <2>4, QuietBooks
<1>6. ASSUME NEW p \in Payments, Settle(p)
      PROVE  BooksInv'
  <2>1. /\ job = p /\ walletHolder = None /\ job' = None
        /\ UNCHANGED <<held, walletHolder, provider, table, client, exchange, admitted, sent, failures>>
    BY <1>6 DEF Settle
  <2>2. status[p] = "pending" /\ answer[p] \in {"completed", "cancelled"} /\ exchange[p] = answer[p]
    BY <1>0, <2>1 DEF JobPending, AnswersStayTrue
  <2>3. CASE locked >= 1 /\ answer[p] = "completed"
    <3>1. /\ locked' = locked - 1 /\ available' = available
          /\ status' = [status EXCEPT ![p] = "paid"] /\ UNCHANGED <<todo, answer>>
      BY <1>6, <2>3 DEF Settle
    <3> QED BY <1>0, <1>i, <2>1, <2>2, <2>3, <3>1, SettleBooks DEF TypeOK
  <2>4. CASE locked >= 1 /\ answer[p] # "completed"
    <3>1. /\ locked' = locked - 1 /\ available' = available + 1
          /\ status' = [status EXCEPT ![p] = "canceled"] /\ UNCHANGED <<todo, answer>>
      BY <1>6, <2>4 DEF Settle
    <3> QED BY <1>0, <1>i, <2>1, <2>2, <2>4, <3>1, SettleBooks DEF TypeOK
  <2>5. CASE ~(locked >= 1)
    <3>1. todo' = {} /\ answer' = NoAnswer /\ UNCHANGED <<status, available, locked, held>>
      BY <1>6, <2>1, <2>5 DEF Settle
    <3>2. TypeOK'
      BY <1>0, <2>1, <3>1 DEF TypeOK, NoAnswer, ExchangeStates
    <3>3. PaidSent' /\ JobPending' /\ ReserveCovered'
      BY <1>0, <2>1, <3>1 DEF PaidSent, JobPending, ReserveCovered
    <3> QED BY <1>i, <3>1, <3>2, <3>3, QuietBooks
  <2> QED BY <2>3, <2>4, <2>5
<1>7. ASSUME NEW p \in Payments, NEW h \in Handlers, Admit(h, p)
      PROVE  BooksInv'
  <2>1. /\ UNCHANGED <<status, available, locked, held, walletHolder, provider, table, client, exchange, sent, todo, answer, job,
                       failures>>
        /\ admitted' \subseteq Handlers \X Payments
    BY <1>0, <1>7 DEF Admit, TypeOK
  <2>2. TypeOK'
    BY <1>0, <2>1 DEF TypeOK
  <2>3. PaidSent' /\ JobPending' /\ ReserveCovered'
    BY <1>0, <2>1 DEF PaidSent, JobPending, ReserveCovered
  <2> QED BY <1>i, <2>1, <2>2, <2>3, QuietBooks
<1>8. ASSUME NEW p \in Payments, NEW h \in Handlers, Handle(h, p)
      PROVE  BooksInv'
  <2>1. /\ <<h, p>> \in admitted /\ walletHolder = None /\ admitted' = admitted \ {<<h, p>>}
        /\ UNCHANGED <<held, walletHolder, provider, table, client, exchange, todo, answer, job, failures>>
    BY <1>8 DEF Handle
  <2>2. exchange[p] = "none"
    BY <1>0, <2>1 DEF Apart
  <2>3. job # p
    BY <1>0, <2>2 DEF AnswersStayTrue
  <2>4. CASE status[p] = "pending" /\ locked >= 1 /\ h = "pay"
    <3>1. /\ locked' = locked - 1 /\ available' = available
          /\ status' = [status EXCEPT ![p] = "paid"] /\ sent' = sent \cup {p}
      BY <1>8, <2>4 DEF Handle
    <3>2. sent' \subseteq Payments /\ admitted' \subseteq Handlers \X Payments /\ todo' \subseteq Payments
      BY <1>0, <2>1, <3>1 DEF TypeOK
    <3> QED BY <1>i, <2>1, <2>2, <2>3, <2>4, <3>1, <3>2, SettleBooks
  <2>5. CASE status[p] = "pending" /\ locked >= 1 /\ h # "pay"
    <3>1. /\ locked' = locked - 1 /\ available' = available + 1
          /\ status' = [status EXCEPT ![p] = "canceled"] /\ sent' = sent
      BY <1>8, <2>5 DEF Handle
    <3>2. sent' \subseteq Payments /\ admitted' \subseteq Handlers \X Payments /\ todo' \subseteq Payments
      BY <1>0, <2>1, <3>1 DEF TypeOK
    <3> QED BY <1>i, <2>1, <2>2, <2>3, <2>5, <3>1, <3>2, SettleBooks
  <2>6. CASE ~(status[p] = "pending" /\ locked >= 1)
    <3>1. UNCHANGED <<status, available, locked, held, sent>>
      BY <1>8, <2>1, <2>6 DEF Handle
    <3>2. TypeOK'
      BY <1>0, <2>1, <3>1 DEF TypeOK
    <3>3. PaidSent' /\ JobPending' /\ ReserveCovered'
      BY <1>0, <2>1, <3>1 DEF PaidSent, JobPending, ReserveCovered
    <3> QED BY <1>i, <3>1, <3>2, <3>3, QuietBooks
  <2> QED BY <2>4, <2>5, <2>6
<1>9. CASE LockBalance \/ UnlockBalance
  <2>1. /\ UNCHANGED <<status, walletHolder, provider, table, client, exchange, admitted, sent,
                       todo, answer, job, failures>>
        /\ walletHolder = None
        /\ \/ /\ available >= 1 /\ held < MaxHeld
              /\ available' = available - 1 /\ locked' = locked + 1 /\ held' = held + 1
           \/ /\ locked >= 1 /\ held > -MaxHeld
              /\ available' = available + 1 /\ locked' = locked - 1 /\ held' = held - 1
    BY <1>9 DEF LockBalance, UnlockBalance
  <2>2. /\ locked = Cardinality(Having(status, "pending")) + held
        /\ available + locked + Cardinality(Having(status, "paid")) = Funds
        /\ Cardinality(Having(status, "paid")) \in Nat
        /\ Cardinality(Having(status, "pending")) \in Nat
        /\ available \in 0..Funds /\ locked \in 0..Funds /\ Funds \in Nat
        /\ held \in -MaxHeld..MaxHeld /\ MaxHeld \in Nat
    <3>1. /\ locked = Cardinality(Having(status, "pending")) + held
          /\ available + locked + Cardinality(Having(status, "paid")) = Funds
      BY DEF BooksInv, LockedBacksPending, Having
    <3>2. /\ Cardinality(Having(status, "paid")) \in Nat
          /\ Cardinality(Having(status, "pending")) \in Nat
      BY HavingFinite
    <3> QED BY <1>0, <3>1, <3>2, BinanceAssumption DEF TypeOK
  <2>3. /\ locked' = Cardinality(Having(status, "pending")) + held'
        /\ available' + locked' + Cardinality(Having(status, "paid")) = Funds
        /\ available' \in 0..Funds /\ locked' \in 0..Funds /\ held' \in -MaxHeld..MaxHeld
    BY <2>1, <2>2
  <2>4. LockedBacksPending'
    BY <2>1, <2>3 DEF LockedBacksPending, Having
  <2>5. TypeOK'
    BY <1>0, <2>1, <2>3 DEF TypeOK
  <2>6. PaidSent' /\ JobPending' /\ ReserveCovered'
    BY <1>0, <2>1 DEF PaidSent, JobPending, ReserveCovered
  <2> QED BY <1>i, <2>4, <2>5, <2>6 DEF BooksInv
<1> QED
  BY <1>1, <1>2, <1>3, <1>4, <1>5, <1>6, <1>7, <1>8, <1>9 DEF Next, Api, Poller

\* As long as the provider is not taken away again, the locked balance is what the
\* pending payments may still take and the engine holds, whenever the poller looked
\* and was restarted, and whatever unlockBalance gave back in between.
THEOREM BooksBalance ==
  ASSUME "vault" \notin SwitchTo
  PROVE  Spec => []LockedBacksPending
<1>1. BooksInv /\ [Next]_vars => BooksInv'
  BY NextBooks
<1>2. BooksInv => LockedBacksPending
  BY DEF BooksInv
<1> QED BY InitBooks, <1>1, <1>2, PTL DEF Spec

\* Types; in particular neither balance goes below zero or above the funds.
THEOREM TypeCorrect ==
  ASSUME "vault" \notin SwitchTo
  PROVE  Spec => []TypeOK
<1>1. BooksInv /\ [Next]_vars => BooksInv'
  BY NextBooks
<1>2. BooksInv => TypeOK
  BY DEF BooksInv
<1> QED BY InitBooks, <1>1, <1>2, PTL DEF Spec
=============================================================================
