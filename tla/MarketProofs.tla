----------------------------- MODULE MarketProofs -----------------------------
(***************************************************************************)
(* Theorems about MarketDeposits, for every value of its constants: what   *)
(* the market is told agrees with what it is credited, although the message*)
(* leaves before the commit.                                               *)
(*                                                                         *)
(* The properties need three facts about the state between two steps: a    *)
(* status found on the chain stays true unless a fork moves the transaction*)
(* (Sighted, Known), an open update has not been loaded and, once sent, has*)
(* its message (OpenUpdate), and no message is more than one unit ahead of *)
(* the account it tells (OneAhead).                                        *)
(***************************************************************************)
EXTENDS MarketDeposits, FiniteSetTheorems, TLAPS

-----------------------------------------------------------------------------
(* Type correctness *)

LEMMA InitType == Init => TypeOK
<1> SUFFICES ASSUME Init PROVE TypeOK
  OBVIOUS
<1>1. /\ height \in Blocks /\ minedIn \in [Txs -> 0 .. height] /\ cursor \in Blocks /\ since \in Blocks
      /\ from \in Blocks /\ target \in Blocks /\ crashes \in 0 .. MaxCrashes
  BY MarketAssumption DEF Init, Blocks
<1>2. messages \in Seq([tx : Txs, balance : Nat])
  BY DEF Init
<1>3. /\ row \in [Txs -> Statuses] /\ found \in [Txs -> Statuses] /\ loaded \in [Txs -> BOOLEAN]
      /\ balance \in [Accounts -> Nat]
  BY DEF Init, NothingFound, Statuses
<1> QED
  BY <1>1, <1>2, <1>3 DEF Init, TypeOK

LEMMA RestartType ==
    ASSUME TypeOK, Restart, crashes' \in 0 .. MaxCrashes
    PROVE  TypeOK'
  BY MarketAssumption DEF Restart, TypeOK, chain, db, cache, NothingFound, Statuses, Blocks

LEMMA StatusType == \A t \in Txs : StatusOf(t) \in {"pending", "confirmed"}
  BY DEF StatusOf

LEMMA NextType == TypeOK /\ [Next]_vars => TypeOK'
<1> SUFFICES ASSUME TypeOK, [Next]_vars
             PROVE  TypeOK'
  OBVIOUS
<1> USE DEF chain, db, cache, loop, update
<1>1. ASSUME NEW S \in SUBSET Txs, Mine(S) PROVE TypeOK'
  <2>1. height \in Nat /\ height' = height + 1 /\ height' \in Blocks
    BY <1>1, MarketAssumption DEF Mine, TypeOK, Blocks
  <2>2. minedIn' \in [Txs -> 0 .. height']
    BY <1>1, <2>1 DEF Mine, TypeOK
  <2> QED
    BY <1>1, <2>1, <2>2 DEF Mine, TypeOK
<1>2. ASSUME NEW d \in 1 .. MaxReorg, Reorg(d) PROVE TypeOK'
  BY <1>2 DEF Reorg, TypeOK
<1>3. CASE ListPending \/ CountBlocks \/ ReadCursor \/ CacheAdd
  BY <1>3 DEF ListPending, CountBlocks, ReadCursor, CacheAdd, TypeOK
<1>4. CASE SyncLastDeposits
  <2>1. found' \in [Txs -> Statuses]
    BY <1>4, StatusType DEF SyncLastDeposits, Statuses
  <2> QED
    BY <1>4, <2>1 DEF SyncLastDeposits, TypeOK
<1>5. ASSUME NEW t \in Txs, FindTransaction(t) PROVE TypeOK'
  <2>1. found' \in [Txs -> Statuses]
    BY <1>5, StatusType DEF FindTransaction, NothingFound, Statuses
  <2> QED
    BY <1>5, <2>1 DEF FindTransaction, TypeOK
<1>6. ASSUME NEW t \in Txs, FindNothing(t) PROVE TypeOK'
  BY <1>6, RestartType DEF FindNothing, TypeOK
<1>7. ASSUME NEW t \in Txs, CreateOrUpdate(t) PROVE TypeOK'
  BY <1>7 DEF CreateOrUpdate, TypeOK
<1>8. CASE SaveOnly
  <2>1. row' \in [Txs -> Statuses] /\ found' \in [Txs -> Statuses]
    BY <1>8 DEF SaveOnly, TypeOK, Statuses
  <2> QED
    BY <1>8, <2>1 DEF SaveOnly, TypeOK
<1>9. CASE Credit
  BY <1>9 DEF Credit, TypeOK
<1>10. CASE AddQueueMessage
  <2>1. open \in Txs /\ balance[to[open]] + 1 \in Nat
    BY <1>10 DEF AddQueueMessage, TypeOK
  <2>2. [tx |-> open, balance |-> balance[to[open]] + 1] \in [tx : Txs, balance : Nat]
    BY <2>1
  <2>3. messages' \in Seq([tx : Txs, balance : Nat])
    BY <1>10, <2>2 DEF AddQueueMessage, TypeOK
  <2> QED
    BY <1>10, <2>3 DEF AddQueueMessage, TypeOK
<1>11. CASE Commit
  <2>1. row' \in [Txs -> Statuses] /\ found' \in [Txs -> Statuses]
    BY <1>11 DEF Commit, TypeOK, Statuses
  <2>2. loaded' \in [Txs -> BOOLEAN] /\ balance' \in [Accounts -> Nat]
    BY <1>11 DEF Commit, TypeOK
  <2> QED
    BY <1>11, <2>1, <2>2 DEF Commit, TypeOK
<1>12. CASE Crash
  BY <1>12, RestartType, MarketAssumption DEF Crash, TypeOK
<1>13. CASE UNCHANGED vars
  BY <1>13 DEF vars, TypeOK
<1> QED
  BY <1>1, <1>2, <1>3, <1>4, <1>5, <1>6, <1>7, <1>8, <1>9, <1>10, <1>11, <1>12, <1>13 DEF Next, Poll

\* Rows, balances, messages and the memory of the process keep their types.
THEOREM TypeCorrect == Spec => []TypeOK
  BY InitType, NextType, PTL DEF Spec

-----------------------------------------------------------------------------
(* The inductive invariant *)

Settled(t) == minedIn[t] # 0 /\ height - minedIn[t] >= MinConfirmations

\* What has a row or was found has been on the chain.
Known ==
    /\ page \subseteq {t \in Txs : row[t] # "none"}
    /\ \A t \in Txs \ orphaned : row[t] # "none" \/ found[t] # "none" => minedIn[t] # 0

\* What was found confirmed is so still.
Sighted == \A t \in Txs \ orphaned : found[t] = "confirmed" => Settled(t)

\* Nothing waits to be written while the process reads.
Idle == at \in {"pending", "cursor", "list"} => found = NothingFound

\* What the open update has checked and done.
OpenUpdate ==
    /\ phase # "no" => open \in Txs /\ found[open] # "none"
    /\ phase \in {"credited", "sent"} => found[open] = "confirmed" /\ ~loaded[open]
    /\ phase = "sent" =>
           \E i \in DOMAIN messages :
               messages[i].tx = open /\ messages[i].balance = balance[to[open]] + 1

OneAhead == \A i \in DOMAIN messages : messages[i].balance <= balance[to[messages[i].tx]] + 1

IInv ==
    /\ TypeOK
    /\ Known /\ Sighted
    /\ Idle /\ OpenUpdate
    /\ OneAhead
    /\ BalanceIsLoaded
    /\ CreditNotified
    /\ BalancesInOrder
    /\ LoadedIsSettled

LEMMA TypeFacts ==
    ASSUME TypeOK
    PROVE  /\ height \in Nat /\ minedIn \in [Txs -> Nat] /\ \A t \in Txs : minedIn[t] <= height
           /\ MinConfirmations \in Nat \ {0}
           /\ to \in [Txs -> Accounts]
           /\ row \in [Txs -> Statuses] /\ found \in [Txs -> Statuses]
           /\ loaded \in [Txs -> BOOLEAN] /\ balance \in [Accounts -> Nat]
           /\ DOMAIN messages = 1 .. Len(messages) /\ Len(messages) \in Nat
           /\ \A i \in DOMAIN messages : messages[i].tx \in Txs /\ messages[i].balance \in Nat
<1>1. height \in Nat
  BY MarketAssumption DEF TypeOK, Blocks
<1>2. minedIn \in [Txs -> 0 .. height]
  BY DEF TypeOK
<1>3. minedIn \in [Txs -> Nat] /\ \A t \in Txs : minedIn[t] <= height
  BY <1>1, <1>2
<1>4. messages \in Seq([tx : Txs, balance : Nat])
  BY DEF TypeOK
<1>5. /\ DOMAIN messages = 1 .. Len(messages) /\ Len(messages) \in Nat
      /\ \A i \in DOMAIN messages : messages[i] \in [tx : Txs, balance : Nat]
  <2> DEFINE R == [tx : Txs, balance : Nat]
  <2>1. messages \in Seq(R)
    BY <1>4
  <2> HIDE DEF R
  <2>2. /\ DOMAIN messages = 1 .. Len(messages) /\ Len(messages) \in Nat
        /\ \A i \in DOMAIN messages : messages[i] \in R
    BY <2>1
  <2> QED
    BY <2>2 DEF R
<1> QED
  BY <1>1, <1>3, <1>5, MarketAssumption DEF TypeOK

LEMMA InitInv == Init => IInv
<1> SUFFICES ASSUME Init PROVE IInv
  OBVIOUS
<1>1. TypeOK
  BY InitType
<1>2. DOMAIN messages = {}
  BY DEF Init
<1>3. Known /\ Sighted /\ Idle /\ OpenUpdate /\ LoadedIsSettled /\ CreditNotified
  BY DEF Init, Known, Sighted, Idle, OpenUpdate, LoadedIsSettled, CreditNotified, NothingFound
<1>4. OneAhead /\ BalancesInOrder
  BY <1>2 DEF Init, OneAhead, BalancesInOrder
<1>5. \A a \in Accounts : {t \in Txs : loaded[t] /\ to[t] = a} = {}
  BY DEF Init
<1>6. BalanceIsLoaded
  BY <1>5, FS_EmptySet DEF Init, BalanceIsLoaded
<1> QED
  BY <1>1, <1>3, <1>4, <1>6 DEF IInv

\* Blocks come and forks happen: the rows and the queue do not change, and a
\* settled transaction stays in its block unless the fork moves it.
LEMMA ChainInv ==
    ASSUME IInv, TypeOK',
           \/ \E S \in SUBSET Txs : Mine(S)
           \/ \E d \in 1 .. MaxReorg : Reorg(d)
    PROVE  IInv'
<1>0. TypeOK /\ Known /\ Sighted /\ LoadedIsSettled
  BY DEF IInv
<1>1. UNCHANGED <<to, row, loaded, balance, messages, at, page, found, open, phase>>
  BY DEF Mine, Reorg, db, loop, update
<1>2. /\ height' \in Nat /\ height' >= height /\ orphaned \subseteq orphaned'
      /\ \A t \in Txs \ orphaned' : minedIn[t] # 0 => minedIn'[t] = minedIn[t]
  BY <1>0, TypeFacts DEF Mine, Reorg
<1>3. \A t \in Txs \ orphaned' : Settled(t) => Settled(t)'
  BY <1>0, <1>2, TypeFacts DEF Settled
<1>4. Known' /\ Sighted'
  BY <1>0, <1>1, <1>2, <1>3 DEF Known, Sighted
<1>5. LoadedIsSettled'
  BY <1>0, <1>1, <1>2, <1>3 DEF LoadedIsSettled, Settled
<1>6. Idle' /\ OpenUpdate' /\ OneAhead' /\ BalanceIsLoaded' /\ CreditNotified' /\ BalancesInOrder'
  BY <1>1 DEF IInv, Idle, NothingFound, OpenUpdate, OneAhead, BalanceIsLoaded, CreditNotified, BalancesInOrder
<1> QED
  BY <1>4, <1>5, <1>6 DEF IInv

\* A step that commits nothing and sends nothing.
LEMMA QuietInv ==
    ASSUME IInv, TypeOK', UNCHANGED <<chain, loaded, balance, messages>>,
           Known', Sighted', Idle', OpenUpdate'
    PROVE  IInv'
  BY DEF IInv, OneAhead, BalanceIsLoaded, CreditNotified, BalancesInOrder, LoadedIsSettled, chain

LEMMA RestartInv ==
    ASSUME IInv, TypeOK', Restart
    PROVE  IInv'
<1>1. /\ UNCHANGED <<chain, row, loaded, balance, messages>>
      /\ phase' = "no" /\ page' = {} /\ \A t \in Txs : found'[t] = "none"
  BY DEF Restart, db, NothingFound
<1>2. Known' /\ Sighted' /\ OpenUpdate'
  BY <1>1 DEF IInv, Known, Sighted, OpenUpdate, chain
<1>3. Idle'
  BY DEF Restart, Idle, NothingFound
<1> QED
  BY <1>1, <1>2, <1>3, QuietInv

\* Reading the rows and the chain.
LEMMA ReadInv ==
    ASSUME IInv, TypeOK',
           \/ ListPending \/ CountBlocks \/ ReadCursor \/ CacheAdd \/ SyncLastDeposits
           \/ \E t \in Txs : FindTransaction(t) \/ FindNothing(t)
    PROVE  IInv'
<1> USE DEF db, cache, loop, update
<1>0. TypeOK /\ Known /\ Sighted /\ Idle /\ OpenUpdate
  BY DEF IInv
<1>t. \A t \in Txs : StatusOf(t) = "confirmed" /\ minedIn[t] # 0 => Settled(t)
  BY <1>0 DEF StatusOf, Settled
<1>n. found = NothingFound => phase = "no"
  BY <1>0 DEF OpenUpdate, NothingFound
<1>1. CASE ListPending \/ CountBlocks \/ ReadCursor \/ CacheAdd
  <2>1. UNCHANGED <<chain, row, loaded, balance, messages, found, open, phase>>
    BY <1>1 DEF ListPending, CountBlocks, ReadCursor, CacheAdd
  <2>2. page' \subseteq {t \in Txs : row[t] # "none"}
    BY <1>0, <1>1 DEF ListPending, CountBlocks, ReadCursor, CacheAdd, Known
  <2>3. Known' /\ Sighted'
    BY <1>0, <2>1, <2>2 DEF Known, Sighted, Settled, chain
  <2>4. OpenUpdate'
    BY <1>0, <2>1 DEF OpenUpdate, chain
  <2>5. Idle'
    BY <1>0, <1>1 DEF ListPending, CountBlocks, ReadCursor, CacheAdd, Idle, NothingFound
  <2> QED
    BY <2>1, <2>3, <2>4, <2>5, QuietInv
<1>2. CASE SyncLastDeposits
  <2>1. /\ UNCHANGED <<chain, row, loaded, balance, messages, page, open, phase>>
        /\ at = "list" /\ at' = "save"
        /\ \A t \in Txs : found'[t] = IF minedIn[t] > from THEN StatusOf(t) ELSE "none"
    BY <1>2 DEF SyncLastDeposits
  <2>2. from \in Nat
    BY <1>0, MarketAssumption DEF TypeOK, Blocks
  <2>3. phase = "no"
    BY <1>0, <1>n, <2>1 DEF Idle
  <2>4. \A t \in Txs : found'[t] # "none" => minedIn[t] # 0 /\ found'[t] = StatusOf(t)
    BY <1>0, <2>1, <2>2, TypeFacts
  <2>5. Known' /\ Sighted'
    BY <1>0, <1>t, <2>1, <2>4 DEF Known, Sighted, Settled, chain
  <2>6. OpenUpdate' /\ Idle'
    BY <2>1, <2>3 DEF OpenUpdate, Idle
  <2> QED
    BY <2>1, <2>5, <2>6, QuietInv
<1>3. ASSUME NEW t \in Txs, FindTransaction(t) PROVE IInv'
  <2>1. /\ UNCHANGED <<chain, row, loaded, balance, messages, open, phase>>
        /\ at' = "refresh"
        /\ t \in page /\ page' \subseteq page /\ found = NothingFound
        /\ found' = [NothingFound EXCEPT ![t] = StatusOf(t)]
    BY <1>3 DEF FindTransaction
  <2>2. phase = "no"
    BY <1>n, <2>1
  <2>3. t \notin orphaned => minedIn[t] # 0
    BY <1>0, <2>1 DEF Known
  <2>4. \A u \in Txs : found'[u] = IF u = t THEN StatusOf(t) ELSE "none"
    BY <2>1 DEF NothingFound
  <2>5. Known' /\ Sighted'
    BY <1>0, <1>t, <2>1, <2>3, <2>4 DEF Known, Sighted, Settled, chain
  <2>6. OpenUpdate' /\ Idle'
    BY <2>1, <2>2 DEF OpenUpdate, Idle
  <2> QED
    BY <2>1, <2>5, <2>6, QuietInv
<1>4. ASSUME NEW t \in Txs, FindNothing(t) PROVE IInv'
  BY <1>4, RestartInv DEF FindNothing
<1> QED
  BY <1>1, <1>2, <1>3, <1>4

\* An update starts, writes a row without a credit, or prepares the credit.
LEMMA PrepareInv ==
    ASSUME IInv, TypeOK', SaveOnly \/ Credit \/ \E t \in Txs : CreateOrUpdate(t)
    PROVE  IInv'
<1> USE DEF db, cache, loop, update
<1>0. TypeOK /\ Known /\ Sighted /\ Idle /\ OpenUpdate
  BY DEF IInv
<1>1. CASE SaveOnly
  <2>1. /\ UNCHANGED <<chain, loaded, balance, messages, page, at>>
        /\ phase = "locked" /\ phase' = "no"
    BY <1>1 DEF SaveOnly
  <2>2. open \in Txs /\ found[open] # "none"
    BY <1>0, <2>1 DEF OpenUpdate
  <2>3. /\ \A t \in Txs : found'[t] = IF t = open THEN "none" ELSE found[t]
        /\ \A t \in Txs : row'[t] = IF t = open THEN found[open] ELSE row[t]
    BY <1>0, <1>1, TypeFacts DEF SaveOnly
  <2>4. Known' /\ Sighted'
    BY <1>0, <2>1, <2>2, <2>3 DEF Known, Sighted, Settled, chain
  <2>5. Idle'
    BY <1>0, <2>1, <2>2 DEF Idle, NothingFound
  <2>6. OpenUpdate'
    BY <2>1 DEF OpenUpdate
  <2> QED
    BY <2>1, <2>4, <2>5, <2>6, QuietInv
<1>2. CASE Credit \/ \E t \in Txs : CreateOrUpdate(t)
  <2>1. UNCHANGED <<chain, row, loaded, balance, messages, page, at, found>>
    BY <1>2 DEF Credit, CreateOrUpdate
  <2>2. Known' /\ Sighted' /\ Idle'
    BY <1>0, <2>1 DEF Known, Sighted, Settled, Idle, NothingFound, chain
  <2>3. OpenUpdate'
    BY <1>0, <1>2, <2>1 DEF Credit, CreateOrUpdate, OpenUpdate
  <2> QED
    BY <2>1, <2>2, <2>3, QuietInv
<1> QED
  BY <1>1, <1>2

\* The message is at the end of the queue: the new balance is not below any
\* balance told before, since none of those is more than one unit ahead.
LEMMA AddQueueMessageInv ==
    ASSUME IInv, TypeOK', AddQueueMessage
    PROVE  IInv'
<1> USE DEF db, cache, loop, update
<1>0. TypeOK /\ Known /\ Sighted /\ Idle /\ OpenUpdate
  BY DEF IInv
<1>1. /\ UNCHANGED <<chain, row, loaded, balance, page, at, found, open>>
      /\ phase = "credited" /\ phase' = "sent"
  BY DEF AddQueueMessage
<1>2. open \in Txs /\ found[open] = "confirmed" /\ ~loaded[open] /\ balance[to[open]] \in Nat
  BY <1>0, <1>1, TypeFacts DEF OpenUpdate
<1>3. PICK n \in Nat : n = Len(messages) + 1
  BY <1>0, TypeFacts
<1>4. /\ DOMAIN messages = 1 .. n - 1 /\ DOMAIN messages' = 1 .. n
      /\ \A i \in 1 .. n - 1 : messages'[i] = messages[i]
      /\ messages'[n] = [tx |-> open, balance |-> balance[to[open]] + 1]
  <2>1. messages \in Seq([tx : Txs, balance : Nat])
    BY <1>0 DEF TypeOK
  <2>2. messages' = Append(messages, [tx |-> open, balance |-> balance[to[open]] + 1])
    BY DEF AddQueueMessage
  <2>3. [tx |-> open, balance |-> balance[to[open]] + 1] \in [tx : Txs, balance : Nat]
    BY <1>2
  <2> QED
    BY <1>3, <2>1, <2>2, <2>3
<1>5. messages'[n].tx = open /\ messages'[n].balance = balance[to[open]] + 1
  BY <1>4
<1>6. \A i \in 1 .. n - 1 : messages[i].balance <= balance[to[messages[i].tx]] + 1
  BY <1>4 DEF IInv, OneAhead
<1>7. OneAhead'
  BY <1>0, <1>1, <1>2, <1>3, <1>4, <1>5, <1>6, TypeFacts DEF OneAhead, chain
<1>8. CreditNotified'
  BY <1>1, <1>3, <1>4 DEF IInv, CreditNotified
<1>9. BalancesInOrder'
  <2>1. ASSUME NEW i \in 1 .. n, NEW j \in 1 .. n, i < j, to[messages'[i].tx] = to[messages'[j].tx]
        PROVE  messages'[i].balance <= messages'[j].balance
    <3>1. CASE j = n
      BY <2>1, <3>1, <1>3, <1>4, <1>5, <1>6
    <3>2. CASE j # n
      BY <2>1, <3>2, <1>3, <1>4 DEF IInv, BalancesInOrder
    <3> QED
      BY <3>1, <3>2
  <2>2. ASSUME NEW a \in Accounts, balance[a] > 0
        PROVE  \E i \in 1 .. n : to[messages'[i].tx] = a /\ messages'[i].balance >= balance[a]
    <3>1. PICK i \in 1 .. n - 1 : to[messages[i].tx] = a /\ messages[i].balance >= balance[a]
      BY <2>2, <1>4 DEF IInv, BalancesInOrder
    <3> QED
      BY <3>1, <1>3, <1>4
  <2> QED
    BY <2>1, <2>2, <1>1, <1>4 DEF BalancesInOrder, chain
<1>10. OpenUpdate'
  BY <1>1, <1>2, <1>3, <1>4, <1>5 DEF OpenUpdate, chain
<1>11. Known' /\ Sighted' /\ Idle'
  BY <1>0, <1>1 DEF Known, Sighted, Settled, Idle, NothingFound, chain
<1>12. BalanceIsLoaded' /\ LoadedIsSettled'
  BY <1>1 DEF IInv, BalanceIsLoaded, LoadedIsSettled, chain
<1> QED
  BY <1>7, <1>8, <1>9, <1>10, <1>11, <1>12 DEF IInv

\* The commit makes the last message true.
LEMMA CommitInv ==
    ASSUME IInv, TypeOK', Commit
    PROVE  IInv'
<1> USE DEF db, cache, loop, update
<1>0. TypeOK /\ Known /\ Sighted /\ Idle /\ OpenUpdate
  BY DEF IInv
<1>1. /\ UNCHANGED <<chain, messages, page, at>>
      /\ phase = "sent" /\ phase' = "no"
  BY DEF Commit
<1>2. open \in Txs /\ found[open] = "confirmed" /\ ~loaded[open] /\ to[open] \in Accounts
  BY <1>0, <1>1, TypeFacts DEF OpenUpdate
<1>3. /\ \A t \in Txs : found'[t] = IF t = open THEN "none" ELSE found[t]
      /\ \A t \in Txs : row'[t] = IF t = open THEN "confirmed" ELSE row[t]
      /\ \A t \in Txs : loaded'[t] = IF t = open THEN TRUE ELSE loaded[t]
      /\ \A a \in Accounts : balance'[a] = IF a = to[open] THEN balance[a] + 1 ELSE balance[a]
  BY <1>0, TypeFacts DEF Commit
<1>4. \A a \in Accounts : balance[a] \in Nat /\ balance'[a] >= balance[a]
  <2>1. \A a \in Accounts : balance[a] \in Nat
    BY <1>0, TypeFacts
  <2> QED
    BY <1>3, <2>1
<1>5. Known' /\ Sighted'
  BY <1>0, <1>1, <1>2, <1>3 DEF Known, Sighted, Settled, chain
<1>6. Idle' /\ OpenUpdate'
  BY <1>0, <1>1, <1>2 DEF Idle, OpenUpdate, NothingFound
<1>7. PICK i \in DOMAIN messages : messages[i].tx = open /\ messages[i].balance = balance[to[open]] + 1
  BY <1>0, <1>1 DEF OpenUpdate
<1>8. OneAhead'
  <2>1. ASSUME NEW j \in DOMAIN messages
        PROVE  messages[j].balance <= balance'[to[messages[j].tx]] + 1
    <3>1. to[messages[j].tx] \in Accounts /\ messages[j].balance \in Nat
      BY <1>0, TypeFacts
    <3>2. messages[j].balance <= balance[to[messages[j].tx]] + 1
      BY DEF IInv, OneAhead
    <3> QED
      BY <1>3, <1>4, <3>1, <3>2
  <2> QED
    BY <2>1, <1>1 DEF OneAhead, chain
<1>9. CreditNotified'
  BY <1>1, <1>3, <1>7 DEF IInv, CreditNotified
<1>10. BalancesInOrder'
  <2>1. ASSUME NEW a \in Accounts, balance'[a] > 0
        PROVE  \E k \in DOMAIN messages : to[messages[k].tx] = a /\ messages[k].balance >= balance'[a]
    <3>1. CASE a = to[open]
      BY <3>1, <1>2, <1>3, <1>4, <1>7
    <3>2. CASE a # to[open]
      BY <2>1, <3>2, <1>3 DEF IInv, BalancesInOrder
    <3> QED
      BY <3>1, <3>2
  <2> QED
    BY <2>1, <1>1 DEF IInv, BalancesInOrder, chain
<1>11. BalanceIsLoaded'
  <2>1. ASSUME NEW a \in Accounts
        PROVE  balance'[a] = Cardinality({t \in Txs : loaded'[t] /\ to[t] = a})
    <3> DEFINE T == {t \in Txs : loaded[t] /\ to[t] = a}
    <3> DEFINE U == {t \in Txs : loaded'[t] /\ to[t] = a}
    <3>1. IsFiniteSet(T)
      BY FS_Subset, MarketAssumption
    <3>2. balance[a] = Cardinality(T)
      BY DEF IInv, BalanceIsLoaded
    <3>3. CASE a = to[open]
      <4>1. U = T \cup {open} /\ open \notin T
        BY <3>3, <1>2, <1>3
      <4>2. Cardinality(U) = Cardinality(T) + 1
        BY <4>1, <3>1, FS_AddElement
      <4> QED
        BY <3>2, <3>3, <4>2, <1>3
    <3>4. CASE a # to[open]
      <4>1. U = T
        BY <3>4, <1>3
      <4> QED
        BY <3>2, <3>4, <4>1, <1>3
    <3> QED
      BY <3>3, <3>4
  <2> QED
    BY <2>1, <1>1 DEF BalanceIsLoaded, chain
<1>12. LoadedIsSettled'
  BY <1>0, <1>1, <1>2, <1>3 DEF IInv, Sighted, LoadedIsSettled, Settled, chain
<1> QED
  BY <1>5, <1>6, <1>8, <1>9, <1>10, <1>11, <1>12 DEF IInv

LEMMA NextInv == IInv /\ [Next]_vars => IInv'
<1> SUFFICES ASSUME IInv, [Next]_vars PROVE IInv'
  OBVIOUS
<1>1. TypeOK'
  BY NextType DEF IInv
<1>2. CASE (\E S \in SUBSET Txs : Mine(S)) \/ (\E d \in 1 .. MaxReorg : Reorg(d))
  BY <1>1, <1>2, ChainInv
<1>3. CASE Poll
  BY <1>1, <1>3, ReadInv, PrepareInv, AddQueueMessageInv, CommitInv DEF Poll
<1>4. CASE Crash
  BY <1>1, <1>4, RestartInv DEF Crash
<1>5. CASE UNCHANGED vars
  <2>1. UNCHANGED <<chain, row, loaded, balance, messages, page, found, at, open, phase>>
    BY <1>5 DEF vars, chain
  <2>2. Known' /\ Sighted' /\ Idle' /\ OpenUpdate'
    BY <2>1 DEF IInv, Known, Sighted, Settled, Idle, OpenUpdate, NothingFound, chain
  <2> QED
    BY <1>1, <2>1, <2>2, QuietInv
<1> QED
  BY <1>2, <1>3, <1>4, <1>5 DEF Next

THEOREM Invariance == Spec => []IInv
  BY InitInv, NextInv, PTL DEF Spec

-----------------------------------------------------------------------------
(* The theorems *)

\* A market account has what its loaded transactions brought it: an update
\* that crashed, or was repeated after its message left, credits once.
THEOREM BalanceMatches == Spec => []BalanceIsLoaded
<1>1. IInv => BalanceIsLoaded
  BY DEF IInv
<1> QED
  BY <1>1, Invariance, PTL

\* updateDeposit commits no credit the market was not told of.
THEOREM CreditIsNotified == Spec => []CreditNotified
<1>1. IInv => CreditNotified
  BY DEF IInv
<1> QED
  BY <1>1, Invariance, PTL

\* The FIFO queue tells the balances of an account in order, and one that is
\* not below the balance it has.
THEOREM InOrder == Spec => []BalancesInOrder
<1>1. IInv => BalancesInOrder
  BY DEF IInv
<1> QED
  BY <1>1, Invariance, PTL

\* No transaction is credited before it has its confirmations, and a fork
\* within MaxReorg blocks takes none of them away, unless it moves it.
THEOREM LoadedStaysSettled == Spec => []LoadedIsSettled
<1>1. IInv => LoadedIsSettled
  BY DEF IInv
<1> QED
  BY <1>1, Invariance, PTL

-----------------------------------------------------------------------------
(* A message is repeated only after a crash.  A crash between the message  *)
(* and the commit leaves one transaction that the market was told of and   *)
(* that will be told again: messages and such transactions, together, are  *)
(* no more than the transactions told and the crashes.                     *)

Told == {messages[i].tx : i \in DOMAIN messages}

\* Told, not credited and no longer under way.
ToldInVain == {t \in Told : ~loaded[t] /\ ~(phase = "sent" /\ open = t)}

RepeatsCounted == Len(messages) + Cardinality(ToldInVain) <= Cardinality(Told) + crashes

LEMMA ToldFacts ==
    ASSUME TypeOK
    PROVE  /\ Told \subseteq Txs
           /\ IsFiniteSet(Told) /\ Cardinality(Told) \in Nat
           /\ IsFiniteSet(ToldInVain) /\ Cardinality(ToldInVain) \in Nat
           /\ crashes \in Nat /\ Len(messages) \in Nat
<1>1. Told \subseteq Txs
  BY TypeFacts DEF Told
<1>2. IsFiniteSet(Told)
  BY <1>1, FS_Subset, MarketAssumption
<1>3. ToldInVain \subseteq Told
  BY DEF ToldInVain
<1>4. IsFiniteSet(ToldInVain)
  BY <1>2, <1>3, FS_Subset
<1>5. crashes \in Nat
  BY MarketAssumption DEF TypeOK
<1> QED
  BY <1>1, <1>2, <1>4, <1>5, FS_CardinalityType, TypeFacts

\* A step that leaves the messages and what has been told in vain alone.
LEMMA SameRepeats ==
    ASSUME TypeOK, TypeOK', RepeatsCounted, UNCHANGED messages, ToldInVain' = ToldInVain,
           crashes' \in {crashes, crashes + 1}
    PROVE  RepeatsCounted'
<1>1. Told' = Told
  BY DEF Told
<1> QED
  BY <1>1, ToldFacts DEF RepeatsCounted

LEMMA CrashRepeats ==
    ASSUME IInv, TypeOK', RepeatsCounted, Crash
    PROVE  RepeatsCounted'
<1>1. UNCHANGED <<messages, loaded>> /\ phase' = "no" /\ crashes' = crashes + 1
  BY DEF Crash, Restart, db
<1>2. Told' = Told
  BY <1>1 DEF Told
<1>3. CASE phase = "sent"
  <2>1. open \in Told /\ open \notin ToldInVain /\ ~loaded[open]
    BY <1>3 DEF IInv, OpenUpdate, Told, ToldInVain
  <2>2. ToldInVain' = ToldInVain \cup {open}
    BY <1>1, <1>2, <1>3, <2>1 DEF ToldInVain
  <2>3. Cardinality(ToldInVain') = Cardinality(ToldInVain) + 1
    BY <2>1, <2>2, ToldFacts, FS_AddElement DEF IInv
  <2> QED
    BY <1>1, <1>2, <2>3, ToldFacts DEF IInv, RepeatsCounted
<1>4. CASE phase # "sent"
  <2>1. ToldInVain' = ToldInVain
    BY <1>1, <1>2, <1>4 DEF ToldInVain
  <2> QED
    BY <1>1, <2>1, SameRepeats DEF IInv
<1> QED
  BY <1>3, <1>4

\* A transaction told a second time was told in vain before.
LEMMA AddQueueMessageRepeats ==
    ASSUME IInv, TypeOK', RepeatsCounted, AddQueueMessage
    PROVE  RepeatsCounted'
<1>0. TypeOK /\ OpenUpdate
  BY DEF IInv
<1>1. UNCHANGED <<loaded, open, crashes>> /\ phase = "credited" /\ phase' = "sent"
  BY DEF AddQueueMessage, db
<1>2. open \in Txs /\ ~loaded[open]
  BY <1>0, <1>1 DEF OpenUpdate
<1>3. Len(messages') = Len(messages) + 1 /\ Told' = Told \cup {open}
  <2> DEFINE R == [tx : Txs, balance : Nat]
             m == [tx |-> open, balance |-> balance[to[open]] + 1]
  <2>1. messages \in Seq(R) /\ m \in R /\ messages' = Append(messages, m) /\ m.tx = open
    BY <1>0, <1>2, TypeFacts DEF TypeOK, AddQueueMessage
  <2> HIDE DEF R, m
  <2>2. /\ Len(messages') = Len(messages) + 1
        /\ DOMAIN messages = 1 .. Len(messages) /\ DOMAIN messages' = 1 .. Len(messages) + 1
        /\ \A i \in 1 .. Len(messages) : messages'[i] = messages[i]
        /\ messages'[Len(messages) + 1] = m /\ Len(messages) \in Nat
    BY <2>1
  <2> QED
    BY <2>1, <2>2 DEF Told
<1>4. CASE open \in Told
  <2>1. Told' = Told /\ open \in ToldInVain /\ ToldInVain' = ToldInVain \ {open}
    BY <1>1, <1>2, <1>3, <1>4 DEF ToldInVain
  <2>2. Cardinality(ToldInVain') = Cardinality(ToldInVain) - 1
    BY <1>0, <2>1, ToldFacts, FS_RemoveElement
  <2>3. Cardinality(Told') = Cardinality(Told)
    BY <2>1
  <2>4. Len(messages') = Len(messages) + 1 /\ crashes' = crashes
    BY <1>1, <1>3
  <2> QED
    BY <1>0, <2>2, <2>3, <2>4, ToldFacts DEF RepeatsCounted
<1>5. CASE open \notin Told
  <2>1. ToldInVain' = ToldInVain
    BY <1>1, <1>2, <1>3, <1>5 DEF ToldInVain
  <2>2. Cardinality(Told') = Cardinality(Told) + 1
    BY <1>0, <1>3, <1>5, ToldFacts, FS_AddElement
  <2> QED
    BY <1>0, <1>1, <1>3, <2>1, <2>2, ToldFacts DEF RepeatsCounted
<1> QED
  BY <1>4, <1>5

LEMMA NextRepeats == IInv /\ RepeatsCounted /\ [Next]_vars => RepeatsCounted'
<1> SUFFICES ASSUME IInv, RepeatsCounted, [Next]_vars PROVE RepeatsCounted'
  OBVIOUS
<1> USE DEF chain, db, cache, loop, update
<1>0. TypeOK /\ TypeOK' /\ OpenUpdate
  BY NextType DEF IInv
<1>1. CASE \/ (\E S \in SUBSET Txs : Mine(S)) \/ (\E d \in 1 .. MaxReorg : Reorg(d))
           \/ ListPending \/ CountBlocks \/ ReadCursor \/ SyncLastDeposits \/ CacheAdd
           \/ (\E t \in Txs : FindTransaction(t)) \/ UNCHANGED vars
  <2>1. UNCHANGED <<messages, loaded, open, phase, crashes>>
    BY <1>1 DEF Mine, Reorg, ListPending, CountBlocks, ReadCursor, SyncLastDeposits, CacheAdd,
                FindTransaction, vars
  <2>2. ToldInVain' = ToldInVain
    BY <2>1 DEF ToldInVain, Told
  <2> QED
    BY <1>0, <2>1, <2>2, SameRepeats
<1>2. ASSUME NEW t \in Txs, FindNothing(t) PROVE RepeatsCounted'
  <2>1. UNCHANGED <<messages, loaded, crashes>> /\ phase' = "no" /\ found = NothingFound
    BY <1>2 DEF FindNothing, Restart
  <2>2. phase = "no"
    BY <1>0, <2>1 DEF OpenUpdate, NothingFound
  <2>3. ToldInVain' = ToldInVain
    BY <2>1, <2>2 DEF ToldInVain, Told
  <2> QED
    BY <1>0, <2>1, <2>3, SameRepeats
<1>3. CASE SaveOnly \/ Credit \/ \E t \in Txs : CreateOrUpdate(t)
  <2>1. UNCHANGED <<messages, loaded, crashes>> /\ phase # "sent" /\ phase' # "sent"
    BY <1>3 DEF SaveOnly, Credit, CreateOrUpdate
  <2>2. ToldInVain' = ToldInVain
    BY <2>1 DEF ToldInVain, Told
  <2> QED
    BY <1>0, <2>1, <2>2, SameRepeats
<1>4. CASE Commit
  <2>1. /\ UNCHANGED <<messages, crashes>> /\ phase = "sent" /\ phase' = "no"
        /\ loaded' = [loaded EXCEPT ![open] = TRUE]
    BY <1>4 DEF Commit
  <2>2. \A t \in Txs : loaded'[t] = IF t = open THEN TRUE ELSE loaded[t]
    BY <1>0, <2>1, TypeFacts
  <2>3. Told' = Told /\ Told \subseteq Txs
    BY <1>0, <2>1, ToldFacts DEF Told
  <2>4. ToldInVain' = ToldInVain
    BY <2>1, <2>2, <2>3 DEF ToldInVain
  <2> QED
    BY <1>0, <2>1, <2>4, SameRepeats
<1> QED
  BY <1>1, <1>2, <1>3, <1>4, AddQueueMessageRepeats, CrashRepeats, <1>0 DEF Next, Poll

\* updateDeposit tells the market of a transaction again only when a crash
\* came between the message and the commit.
THEOREM RepeatsNeedCrashes == Spec => []RepeatedAfterCrash
<1>1. Init => RepeatsCounted
  <2> SUFFICES ASSUME Init PROVE RepeatsCounted
    OBVIOUS
  <2>1. Len(messages) = 0 /\ Told = {} /\ crashes = 0
    BY DEF Init, Told
  <2>2. ToldInVain = {}
    BY <2>1 DEF ToldInVain
  <2> QED
    BY <2>1, <2>2, FS_EmptySet DEF RepeatsCounted
<1>2. IInv /\ RepeatsCounted => RepeatedAfterCrash
  BY ToldFacts DEF IInv, RepeatsCounted, RepeatedAfterCrash, Told
<1> QED
  BY <1>1, <1>2, NextRepeats, Invariance, PTL DEF Spec
=============================================================================
