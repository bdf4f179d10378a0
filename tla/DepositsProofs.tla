---------------------------- MODULE DepositsProofs ----------------------------
(* Theorems about CryptoDeposits, for every value of its constants. *)
EXTENDS CryptoDeposits, FiniteSetTheorems, TLAPS

-----------------------------------------------------------------------------
(* Type correctness *)

LEMMA InitType == CryptoDepositsAssumption /\ Init => TypeOK
  BY DEF CryptoDepositsAssumption, Init, TypeOK, ChainOK, RowsOK, PollersOK, Blocks, NothingSeen

LEMMA RestartType ==
    ASSUME CryptoDepositsAssumption, TypeOK, NEW p \in Pollers, Restart(p), crashes' \in 0..MaxCrashes
    PROVE  TypeOK'
<1>1. ChainOK'
  BY DEF Restart, TypeOK, ChainOK, blockchain, sweeps
<1>2. RowsOK'
  BY DEF Restart, TypeOK, RowsOK, db, cache
<1>3. PollersOK'
  BY DEF Restart, TypeOK, PollersOK, NothingSeen, Blocks, CryptoDepositsAssumption
<1> QED
  BY <1>1, <1>2, <1>3 DEF TypeOK

\* The blocks a poller plans to read are blocks of the chain.
LEMMA RangeType ==
    ASSUME CryptoDepositsAssumption, TypeOK, NEW p \in Pollers, ReadCursor(p)
    PROVE  TypeOK'
<1>1. ChainOK' /\ RowsOK'
  BY DEF ReadCursor, TypeOK, ChainOK, RowsOK, PollersOK, blockchain, sweeps, db
<1> DEFINE last == IF cursor = 0 THEN chain[p] ELSE cursor
           goal == IF last + MaxBlocks < chain[p] THEN last + MaxBlocks ELSE chain[p]
<1>2. last \in Blocks /\ goal \in Blocks
  BY DEF TypeOK, PollersOK, RowsOK, Blocks, CryptoDepositsAssumption
<1> HIDE DEF last, goal
<1>3. from' = [from EXCEPT ![p] = last] /\ target' = [target EXCEPT ![p] = goal]
  BY DEF ReadCursor, last, goal
<1>4. from' \in [Pollers -> Blocks] /\ target' \in [Pollers -> Blocks]
  BY <1>2, <1>3 DEF TypeOK, PollersOK
<1>5. at' \in [Pollers -> {"count", "cursor", "pending", "refresh", "list", "save", "store"}]
  BY DEF ReadCursor, Goto, TypeOK, PollersOK
<1>6. UNCHANGED <<load, cur, chain, page, seen, seenAt, crashes>>
  BY DEF ReadCursor, found
<1>7. PollersOK'
  BY <1>4, <1>5, <1>6 DEF TypeOK, PollersOK
<1> QED
  BY <1>1, <1>7 DEF TypeOK

LEMMA SyncType ==
    ASSUME CryptoDepositsAssumption, TypeOK, NEW p \in Pollers, SyncDaemon(p)
    PROVE  TypeOK'
<1> USE DEF blockchain, sweeps, db, cache, range, found, Goto
<1>1. CASE CountBlocks(p)
  BY <1>1 DEF CountBlocks, TypeOK, ChainOK, RowsOK, PollersOK
<1>2. CASE ReadCursor(p)
  BY <1>2, RangeType
<1>3. CASE PendingDone(p)
  BY <1>3 DEF PendingDone, TypeOK, ChainOK, RowsOK, PollersOK
<1>4. CASE ListTransactionsSinceBlock(p)
  <2>1. ChainOK' /\ RowsOK'
    BY <1>4 DEF ListTransactionsSinceBlock, TypeOK, ChainOK, RowsOK
  <2>2. \A t \in Txs : minedIn[t] \in Blocks /\ 0 \in Blocks
    BY DEF TypeOK, ChainOK, Blocks, CryptoDepositsAssumption
  <2>3. PollersOK'
    BY <1>4, <2>2 DEF ListTransactionsSinceBlock, TypeOK, PollersOK, ChainOK
  <2> QED
    BY <2>1, <2>3 DEF TypeOK
<1>5. CASE CacheAdd(p)
  <2>1. 0 \in Blocks
    BY DEF Blocks, CryptoDepositsAssumption
  <2> QED
    BY <1>5, <2>1 DEF CacheAdd, TypeOK, ChainOK, RowsOK, PollersOK
<1>11. CASE AdaptTransactions(p)
  <2>1. ChainOK'
    BY <1>11 DEF AdaptTransactions, Seen, TypeOK, ChainOK
  <2>2. height \in Blocks
    BY DEF TypeOK, ChainOK
  <2>3. RowsOK' /\ PollersOK'
    BY <1>11, <2>2 DEF AdaptTransactions, TypeOK, RowsOK, PollersOK
  <2> QED
    BY <2>1, <2>3 DEF TypeOK
<1>6. CASE \E S \in SUBSET Txs : ListPending(p, S)
  BY <1>6 DEF ListPending, TypeOK, ChainOK, RowsOK, PollersOK
<1>7. ASSUME NEW t \in Txs, FindTransaction(p, t)
      PROVE  TypeOK'
  <2>1. ChainOK' /\ RowsOK'
    BY <1>7 DEF FindTransaction, TypeOK, ChainOK, RowsOK
  <2>2. minedIn[t] \in Blocks /\ 0 \in Blocks
    BY DEF TypeOK, ChainOK, Blocks, CryptoDepositsAssumption
  <2>3. [NothingSeen EXCEPT ![t] = minedIn[t]] \in [Txs -> Blocks]
    BY <2>2 DEF NothingSeen
  <2>4. PollersOK'
    BY <1>7, <2>3 DEF FindTransaction, TypeOK, PollersOK, ChainOK
  <2> QED
    BY <2>1, <2>4 DEF TypeOK
<1>8. ASSUME NEW t \in Txs, SkipTransaction(p, t)
      PROVE  TypeOK'
  BY <1>8 DEF SkipTransaction, TypeOK, ChainOK, RowsOK, PollersOK
<1>9. ASSUME NEW t \in Txs, MempoolTransaction(p, t)
      PROVE  TypeOK'
  BY <1>9, RestartType DEF MempoolTransaction, TypeOK, PollersOK
<1>10. ASSUME NEW t \in Txs, SaveDeposit(p, t)
       PROVE  TypeOK'
  <2>1. ChainOK'
    BY <1>10 DEF SaveDeposit, TypeOK, ChainOK
  <2>2. StatusOf(seen[p][t], seenAt[p]) \in {"pending", "confirmed"}
    BY DEF StatusOf
  <2>3. row' \in [Txs -> {"none", "pending", "confirmed"}]
    BY <1>10, <2>2 DEF SaveDeposit, TypeOK, RowsOK
  <2>4. RowsOK'
    BY <1>10, <2>3 DEF SaveDeposit, TypeOK, RowsOK
  <2>5. seen' \in [Pollers -> [Txs -> Blocks]]
    BY <1>10 DEF SaveDeposit, TypeOK, PollersOK, Blocks, CryptoDepositsAssumption
  <2>6. load' \in [Pollers -> {"no", "locking", "loaded", "swept"}]
    BY <1>10 DEF SaveDeposit, TypeOK, PollersOK
  <2>7. cur' \in [Pollers -> Txs \cup {None}] /\ \A q \in Pollers : load'[q] # "no" => cur'[q] \in Txs
    BY <1>10 DEF SaveDeposit, TypeOK, PollersOK
  <2>9. seenAt' \in [Pollers -> Blocks]
    BY <1>10 DEF SaveDeposit, TypeOK, PollersOK, Blocks, CryptoDepositsAssumption
  <2>8. PollersOK'
    BY <1>10, <2>5, <2>6, <2>7, <2>9 DEF SaveDeposit, TypeOK, PollersOK
  <2> QED
    BY <2>1, <2>4, <2>8 DEF TypeOK
<1> QED
  BY <1>1, <1>2, <1>3, <1>4, <1>5, <1>6, <1>7, <1>8, <1>9, <1>10, <1>11 DEF SyncDaemon

LEMMA LoadType ==
    ASSUME CryptoDepositsAssumption, TypeOK, NEW p \in Pollers, Load(p)
    PROVE  TypeOK'
<1> USE DEF blockchain, sweeps, db, cache, range, found
<1>1. CASE LoadWalletDeposit(p)
  BY <1>1 DEF LoadWalletDeposit, TypeOK, ChainOK, RowsOK, PollersOK
<1>2. CASE AlreadyLoaded(p)
  BY <1>2, RestartType DEF AlreadyLoaded, TypeOK, PollersOK
<1>3. CASE MoveBalanceToBank(p)
  <2>1. to[cur[p]] \in Wallets
    BY <1>3 DEF MoveBalanceToBank, TypeOK, ChainOK, PollersOK
  <2>2. ChainOK'
    BY <1>3, <2>1 DEF MoveBalanceToBank, TypeOK, ChainOK
  <2>3. RowsOK' /\ PollersOK'
    BY <1>3 DEF MoveBalanceToBank, TypeOK, RowsOK, PollersOK
  <2> QED
    BY <2>2, <2>3 DEF TypeOK
<1>4. CASE SweepFails(p)
  BY <1>4, RestartType DEF SweepFails, TypeOK, PollersOK
<1>5. CASE CommitLoad(p)
  BY <1>5 DEF CommitLoad, TypeOK, ChainOK, RowsOK, PollersOK
<1> QED
  BY <1>1, <1>2, <1>3, <1>4, <1>5 DEF Load

LEMMA ChainType ==
    ASSUME CryptoDepositsAssumption, TypeOK,
           \/ \E S \in SUBSET Txs : Mine(S)
           \/ \E d \in 1..MaxReorg : Reorg(d)
    PROVE  TypeOK'
<1> USE DEF db, cache, poller
<1>1. ASSUME NEW S \in SUBSET Txs, Mine(S)
      PROVE  TypeOK'
  <2>1. ChainOK'
    BY <1>1 DEF Mine, TypeOK, ChainOK, Blocks, CryptoDepositsAssumption
  <2>2. RowsOK' /\ PollersOK'
    BY <1>1 DEF Mine, TypeOK, RowsOK, PollersOK
  <2> QED
    BY <2>1, <2>2 DEF TypeOK
<1>2. ASSUME NEW d \in 1..MaxReorg, Reorg(d)
      PROVE  TypeOK'
  <2>1. {0} \cup 1..height \subseteq 0..height
    BY DEF TypeOK, ChainOK, Blocks, CryptoDepositsAssumption
  <2>2. ChainOK'
    BY <1>2, <2>1 DEF Reorg, TypeOK, ChainOK
  <2>3. RowsOK' /\ PollersOK'
    BY <1>2 DEF Reorg, TypeOK, RowsOK, PollersOK
  <2> QED
    BY <2>2, <2>3 DEF TypeOK
<1> QED
  BY <1>1, <1>2

LEMMA NextType == CryptoDepositsAssumption /\ TypeOK /\ [Next]_vars => TypeOK'
<1> SUFFICES ASSUME CryptoDepositsAssumption, TypeOK, [Next]_vars
             PROVE  TypeOK'
  OBVIOUS
<1>1. ASSUME NEW p \in Pollers, Crash(p)
      PROVE  TypeOK'
  BY <1>1, RestartType DEF Crash, TypeOK, PollersOK, CryptoDepositsAssumption
<1>2. CASE UNCHANGED vars
  BY <1>2 DEF vars, TypeOK, ChainOK, RowsOK, PollersOK
<1> QED
  BY <1>1, <1>2, ChainType, SyncType, LoadType DEF Next, Poll

\* Type correctness; in particular every block a poller plans to read, and the
\* cursor it stores, lies on the chain (syncDaemon caps maxProcessBlock).
THEOREM TypeCorrect == Spec => []TypeOK
<1>1. Init => TypeOK
  BY InitType, CryptoDepositsAssumption
<1>2. TypeOK /\ [Next]_vars => TypeOK'
  BY NextType, CryptoDepositsAssumption
<1> QED
  BY <1>1, <1>2, PTL DEF Spec

-----------------------------------------------------------------------------
(* The inductive invariant                                                 *)
(*                                                                         *)
(* The poller acts on what it read: heights and block numbers read before  *)
(* the chain moved on, rows read before it locked them.  The invariant     *)
(* says which of that is still true.                                       *)

\* What a poller saw is still where it saw it, unless a fork moved it; and what
\* it took for confirmed is, unless the fork came before it asked for the height.
Sighted(p) ==
    /\ seenAt[p] <= height
    /\ \A t \in Txs : seen[p][t] # 0 /\ minedIn[t] # seen[p][t] =>
           /\ t \in forked
           /\ Confirmed(seen[p][t], seenAt[p]) => t \in stale

\* The deposit a poller is loading is settled, or misread as settled.
DueSettled(p) == load[p] # "no" => Settled(cur[p]) \/ cur[p] \in stale

\* Past setAmountLoaded a poller holds the address row of its deposit, which
\* nobody else has loaded or can load.
Exclusive(p) ==
    load[p] \in {"loaded", "swept"} => rowLock[to[cur[p]]] = p /\ ~loaded[cur[p]]

IInv ==
    /\ TypeOK
    /\ \A p \in Pollers : Sighted(p) /\ DueSettled(p) /\ Exclusive(p)
    /\ LoadedIsSettled
    /\ BalanceIsLoadedDeposits

LEMMA InitInv == CryptoDepositsAssumption /\ Init => IInv
<1> SUFFICES ASSUME CryptoDepositsAssumption, Init
             PROVE  IInv
  OBVIOUS
<1>1. TypeOK
  BY InitType
<1>2. \A p \in Pollers : Sighted(p) /\ DueSettled(p) /\ Exclusive(p)
  BY DEF Init, Sighted, DueSettled, Exclusive, NothingSeen, Blocks, CryptoDepositsAssumption
<1>3. LoadedIsSettled
  BY DEF Init, LoadedIsSettled
<1>4. \A w \in Wallets : {t \in Txs : loaded[t] /\ to[t] = w} = {}
  BY DEF Init
<1>5. BalanceIsLoadedDeposits
  BY <1>4, FS_EmptySet DEF Init, BalanceIsLoadedDeposits
<1> QED
  BY <1>1, <1>2, <1>3, <1>5 DEF IInv

\* A settled deposit stays in its block, whatever the chain does: forks are no
\* deeper than the confirmations the vault waits for.
LEMMA ChainKeepsSettled ==
    ASSUME CryptoDepositsAssumption, TypeOK,
           \/ \E S \in SUBSET Txs : Mine(S)
           \/ \E d \in 1..MaxReorg : Reorg(d)
    PROVE  /\ height' \in Nat /\ height' >= height
           /\ \A t \in Txs : Settled(t) => minedIn'[t] = minedIn[t]
<1>0. height \in Nat /\ MinConfirmations \in Nat /\ minedIn \in [Txs -> 0..height]
  BY DEF TypeOK, ChainOK, Blocks, CryptoDepositsAssumption
<1>1. ASSUME NEW S \in SUBSET Txs, Mine(S)
      PROVE  /\ height' = height + 1
             /\ \A t \in Txs : Settled(t) => minedIn'[t] = minedIn[t]
  BY <1>1 DEF Mine, Settled
<1>2. ASSUME NEW d \in 1..MaxReorg, Reorg(d)
      PROVE  /\ height' = height
             /\ \A t \in Txs : Settled(t) => minedIn'[t] = minedIn[t]
  <2>1. d \in Nat /\ d <= MinConfirmations
    BY DEF CryptoDepositsAssumption
  <2>2. ASSUME NEW t \in Txs, Settled(t)
        PROVE  minedIn[t] \notin (height - d + 1 .. height) \cup {0}
    BY <1>0, <2>1, <2>2 DEF Settled, Confirmed
  <2> QED
    BY <1>2, <2>2 DEF Reorg
<1> QED
  BY <1>0, <1>1, <1>2

LEMMA ChainInv ==
    ASSUME CryptoDepositsAssumption, IInv, TypeOK',
           \/ \E S \in SUBSET Txs : Mine(S)
           \/ \E d \in 1..MaxReorg : Reorg(d)
    PROVE  IInv'
<1>0. /\ height \in Nat /\ MinConfirmations \in Nat /\ minedIn \in [Txs -> 0..height]
      /\ seen \in [Pollers -> [Txs -> Nat]] /\ seenAt \in [Pollers -> Nat]
      /\ \A p \in Pollers : load[p] # "no" => cur[p] \in Txs
  BY DEF IInv, TypeOK, ChainOK, PollersOK, Blocks, CryptoDepositsAssumption
<1>1. UNCHANGED <<to, stale, row, loaded, available, rowLock, load, cur, seen, seenAt>>
  BY DEF Mine, Reorg, db, poller
<1>7. forked \subseteq forked' /\ \A t \in Txs \ forked' : minedIn[t] # 0 => minedIn'[t] = minedIn[t]
  BY <1>0 DEF Mine, Reorg
<1>2. /\ height' \in Nat /\ height' >= height
      /\ \A t \in Txs : Settled(t) => minedIn'[t] = minedIn[t]
  BY ChainKeepsSettled DEF IInv
<1>3. \A t \in Txs : Settled(t) => Settled(t)'
  BY <1>0, <1>2 DEF Settled, Confirmed
<1>4. ASSUME NEW p \in Pollers
      PROVE  Sighted(p)' /\ DueSettled(p)' /\ Exclusive(p)'
  <2>1. Sighted(p) /\ DueSettled(p) /\ Exclusive(p)
    BY DEF IInv
  <2>2. ASSUME NEW t \in Txs, seen[p][t] # 0, minedIn'[t] # seen[p][t]
        PROVE  t \in forked' /\ (Confirmed(seen[p][t], seenAt[p]) => t \in stale)
    <3>1. CASE minedIn[t] # seen[p][t]
      BY <1>7, <2>1, <2>2, <3>1 DEF Sighted
    <3>2. CASE minedIn[t] = seen[p][t]
      <4>1. t \in forked'
        BY <1>7, <2>2, <3>2
      <4>2. seenAt[p] <= height
        BY <2>1 DEF Sighted
      <4>3. Confirmed(seen[p][t], seenAt[p]) => Settled(t)
        BY <1>0, <2>2, <3>2, <4>2 DEF Settled, Confirmed
      <4> QED
        BY <1>2, <2>2, <3>2, <4>1, <4>3
    <3> QED
      BY <3>1, <3>2
  <2>3. seenAt[p] <= height'
    BY <1>0, <1>2, <2>1 DEF Sighted
  <2> QED
    BY <1>0, <1>1, <1>3, <2>1, <2>2, <2>3 DEF Sighted, DueSettled, Exclusive, Confirmed
<1>5. LoadedIsSettled'
  BY <1>1, <1>3 DEF IInv, LoadedIsSettled, Settled
<1>6. BalanceIsLoadedDeposits'
  BY <1>1 DEF IInv, BalanceIsLoadedDeposits
<1> QED
  BY <1>4, <1>5, <1>6 DEF IInv

\* A poller's step that loads nothing keeps the invariant when it keeps that
\* poller's part of it and takes no lock away from another poller.
LEMMA PollerKeeps ==
    ASSUME IInv, TypeOK', NEW p \in Pollers,
           UNCHANGED <<height, to, minedIn, forked, loaded, available>>, stale \subseteq stale',
           \A q \in Pollers \ {p} : /\ load'[q] = load[q] /\ cur'[q] = cur[q]
                                    /\ seen'[q] = seen[q] /\ seenAt'[q] = seenAt[q],
           \A w \in Wallets : rowLock[w] \in Pollers \ {p} => rowLock'[w] = rowLock[w],
           Sighted(p)', DueSettled(p)', Exclusive(p)'
    PROVE  IInv'
<1>1. ASSUME NEW q \in Pollers \ {p}
      PROVE  Sighted(q)' /\ DueSettled(q)' /\ Exclusive(q)'
  <2>1. Sighted(q) /\ DueSettled(q) /\ Exclusive(q)
    BY DEF IInv
  <2>2. Sighted(q)' /\ DueSettled(q)'
    BY <2>1 DEF Sighted, DueSettled, Settled, Confirmed
  <2>3. load[q] # "no" => to[cur[q]] \in Wallets
    BY DEF IInv, TypeOK, PollersOK, ChainOK
  <2>4. Exclusive(q)'
    BY <2>1, <2>3 DEF Exclusive
  <2> QED
    BY <2>2, <2>4
<1>2. LoadedIsSettled' /\ BalanceIsLoadedDeposits'
  BY DEF IInv, LoadedIsSettled, BalanceIsLoadedDeposits, Settled, Confirmed
<1> QED
  BY <1>1, <1>2 DEF IInv

\* A process that starts again has seen nothing and is loading nothing.
LEMMA RestartInv ==
    ASSUME CryptoDepositsAssumption, IInv, TypeOK', NEW p \in Pollers, Restart(p)
    PROVE  IInv'
<1>0. /\ load \in [Pollers -> {"no", "locking", "loaded", "swept"}]
      /\ cur \in [Pollers -> Txs \cup {None}]
      /\ seen \in [Pollers -> [Txs -> Blocks]] /\ seenAt \in [Pollers -> Blocks]
      /\ rowLock \in [Wallets -> Pollers \cup {None}]
      /\ height \in Nat
  BY DEF IInv, TypeOK, ChainOK, RowsOK, PollersOK, Blocks, CryptoDepositsAssumption
<1>1. UNCHANGED <<blockchain, loaded, available>>
  BY DEF Restart, db
<1>2. \A q \in Pollers \ {p} : /\ load'[q] = load[q] /\ cur'[q] = cur[q]
                               /\ seen'[q] = seen[q] /\ seenAt'[q] = seenAt[q]
  BY <1>0 DEF Restart
<1>3. \A w \in Wallets : rowLock[w] \in Pollers \ {p} => rowLock'[w] = rowLock[w]
  BY <1>0 DEF Restart
<1>4. load'[p] = "no" /\ seenAt'[p] = 0 /\ \A t \in Txs : seen'[p][t] = 0
  BY <1>0 DEF Restart, NothingSeen
<1>5. Sighted(p)' /\ DueSettled(p)' /\ Exclusive(p)'
  BY <1>0, <1>1, <1>4 DEF Sighted, DueSettled, Exclusive, blockchain
<1> QED
  BY <1>1, <1>2, <1>3, <1>5, PollerKeeps DEF blockchain

\* What the statuses of one round are computed from.
LEMMA SyncInv ==
    ASSUME CryptoDepositsAssumption, IInv, TypeOK', NEW p \in Pollers, SyncDaemon(p)
    PROVE  IInv'
<1> USE DEF sweeps, db, cache, range, found
<1>0. /\ load \in [Pollers -> {"no", "locking", "loaded", "swept"}]
      /\ cur \in [Pollers -> Txs \cup {None}]
      /\ seen \in [Pollers -> [Txs -> Blocks]] /\ seenAt \in [Pollers -> Blocks]
      /\ minedIn \in [Txs -> 0..height]
      /\ height \in Nat
  BY DEF IInv, TypeOK, ChainOK, RowsOK, PollersOK, Blocks, CryptoDepositsAssumption
<1>i. Sighted(p) /\ DueSettled(p) /\ Exclusive(p)
  BY DEF IInv
<1>1. ASSUME UNCHANGED <<blockchain, loaded, available, rowLock, load, cur, seen, seenAt>>
      PROVE  IInv'
  BY <1>1, <1>i, PollerKeeps DEF blockchain, Sighted, DueSettled, Settled, Exclusive, Confirmed
<1>2. CASE \/ CountBlocks(p) \/ ReadCursor(p) \/ PendingDone(p) \/ CacheAdd(p)
           \/ \E S \in SUBSET Txs : ListPending(p, S)
  BY <1>1, <1>2 DEF CountBlocks, ReadCursor, PendingDone, CacheAdd, ListPending
\* The poller asks for the height: what a fork moved in between is misread.
<1>3. CASE AdaptTransactions(p)
  <2>1. UNCHANGED <<height, to, minedIn, forked, loaded, available, rowLock, load, cur, seen>>
    BY <1>3 DEF AdaptTransactions
  <2>2. seenAt'[p] = height /\ \A q \in Pollers \ {p} : seenAt'[q] = seenAt[q]
    BY <1>0, <1>3 DEF AdaptTransactions
  <2>3. /\ stale \subseteq stale'
        /\ \A t \in Txs : (seen[p][t] # 0 /\ minedIn[t] # seen[p][t] /\ Confirmed(seen[p][t], height))
                           => t \in stale'
    BY <1>3 DEF AdaptTransactions, Seen
  <2>4. Sighted(p)'
    BY <1>0, <1>i, <2>1, <2>2, <2>3 DEF Sighted, Confirmed
  <2>5. DueSettled(p)' /\ Exclusive(p)'
    BY <1>i, <2>1, <2>3 DEF DueSettled, Settled, Exclusive, Confirmed
  <2> QED
    BY <2>1, <2>2, <2>3, <2>4, <2>5, PollerKeeps
<1>4. CASE ListTransactionsSinceBlock(p)
  <2>1. UNCHANGED <<blockchain, loaded, available, rowLock, load, cur>>
    BY <1>4 DEF ListTransactionsSinceBlock
  <2>2. /\ seenAt' = seenAt
        /\ \A t \in Txs : seen'[p][t] \in {minedIn[t], 0}
        /\ \A q \in Pollers \ {p} : seen'[q] = seen[q]
    BY <1>0, <1>4 DEF ListTransactionsSinceBlock
  <2>3. Sighted(p)'
    BY <1>i, <2>1, <2>2 DEF Sighted, blockchain
  <2>4. DueSettled(p)' /\ Exclusive(p)'
    BY <1>i, <2>1 DEF DueSettled, Settled, Exclusive, Confirmed, blockchain
  <2> QED
    BY <2>1, <2>2, <2>3, <2>4, PollerKeeps DEF blockchain
<1>5. ASSUME NEW t \in Txs, FindTransaction(p, t)
      PROVE  IInv'
  <2>1. UNCHANGED <<blockchain, loaded, available, rowLock, load, cur>>
    BY <1>5 DEF FindTransaction
  <2>2. /\ seenAt' = seenAt
        /\ \A u \in Txs : seen'[p][u] \in {minedIn[u], 0}
        /\ \A q \in Pollers \ {p} : seen'[q] = seen[q]
    BY <1>0, <1>5 DEF FindTransaction, NothingSeen
  <2>3. Sighted(p)'
    BY <1>i, <2>1, <2>2 DEF Sighted, blockchain
  <2>4. DueSettled(p)' /\ Exclusive(p)'
    BY <1>i, <2>1 DEF DueSettled, Settled, Exclusive, Confirmed, blockchain
  <2> QED
    BY <2>1, <2>2, <2>3, <2>4, PollerKeeps DEF blockchain
<1>6. ASSUME NEW t \in Txs, SkipTransaction(p, t)
      PROVE  IInv'
  BY <1>1, <1>6 DEF SkipTransaction
<1>7. ASSUME NEW t \in Txs, MempoolTransaction(p, t)
      PROVE  IInv'
  BY <1>7, RestartInv DEF MempoolTransaction
<1>8. ASSUME NEW t \in Txs, SaveDeposit(p, t)
      PROVE  IInv'
  <2>1. UNCHANGED <<blockchain, loaded, available, rowLock>>
    BY <1>8 DEF SaveDeposit
  <2>2. \A q \in Pollers \ {p} : /\ load'[q] = load[q] /\ cur'[q] = cur[q]
                                 /\ seen'[q] = seen[q] /\ seenAt'[q] = seenAt[q]
    BY <1>0, <1>8 DEF SaveDeposit
  <2>3. \A u \in Txs : seen'[p][u] \in {seen[p][u], 0}
    BY <1>0, <1>8 DEF SaveDeposit
  <2>7. seenAt'[p] = seenAt[p] \/ (seenAt'[p] = 0 /\ \A u \in Txs : seen'[p][u] = 0)
    BY <1>0, <1>8 DEF SaveDeposit, Seen
  <2>4. Sighted(p)'
    BY <1>0, <1>i, <2>1, <2>3, <2>7 DEF Sighted, Confirmed, blockchain
  <2>5. CASE load'[p] = "no"
    BY <2>1, <2>2, <2>4, <2>5, PollerKeeps DEF DueSettled, Exclusive, blockchain
  <2>6. CASE load'[p] # "no"
    <3>1. /\ StatusOf(seen[p][t], seenAt[p]) = "confirmed"
          /\ load'[p] = "locking" /\ cur'[p] = t
      BY <1>0, <1>8, <2>6 DEF SaveDeposit
    <3>2. Confirmed(seen[p][t], seenAt[p]) /\ seen[p][t] # 0
      BY <1>8, <3>1 DEF StatusOf, SaveDeposit, Seen
    <3>3. /\ minedIn[t] = seen[p][t] \/ t \in stale
          /\ seenAt[p] <= height /\ seenAt[p] \in Int /\ minedIn[t] \in Int
      BY <1>0, <1>i, <3>2 DEF Sighted, Blocks, CryptoDepositsAssumption
    <3>4. Settled(t) \/ t \in stale
      BY <1>0, <3>2, <3>3 DEF Settled, Confirmed, CryptoDepositsAssumption
    <3>5. DueSettled(p)' /\ Exclusive(p)'
      BY <2>1, <3>1, <3>4 DEF DueSettled, Exclusive, Settled, Confirmed, blockchain
    <3> QED
      BY <2>1, <2>2, <2>4, <3>5, PollerKeeps DEF blockchain
  <2> QED
    BY <2>5, <2>6
<1> QED
  BY <1>2, <1>4, <1>5, <1>6, <1>7, <1>8, <1>3 DEF SyncDaemon

\* Two pollers never hold the same deposit's row, so the flag and the balance
\* change together, once.
LEMMA LoadInv ==
    ASSUME CryptoDepositsAssumption, IInv, TypeOK', NEW p \in Pollers, Load(p)
    PROVE  IInv'
<1> USE DEF sweeps, db, cache, range, found
<1>0. /\ load \in [Pollers -> {"no", "locking", "loaded", "swept"}]
      /\ cur \in [Pollers -> Txs \cup {None}]
      /\ \A q \in Pollers : load[q] # "no" => cur[q] \in Txs
      /\ to \in [Txs -> Wallets]
      /\ rowLock \in [Wallets -> Pollers \cup {None}]
      /\ loaded \in [Txs -> BOOLEAN]
      /\ available \in [Wallets -> Nat]
      /\ None \notin Pollers
  BY DEF IInv, TypeOK, ChainOK, RowsOK, PollersOK, CryptoDepositsAssumption
<1>i. \A q \in Pollers : Sighted(q) /\ DueSettled(q) /\ Exclusive(q)
  BY DEF IInv
<1>1. CASE LoadWalletDeposit(p)
  <2>1. UNCHANGED <<blockchain, loaded, available, cur, seen, seenAt>>
    BY <1>1 DEF LoadWalletDeposit
  <2>2. cur[p] \in Txs /\ to[cur[p]] \in Wallets /\ rowLock[to[cur[p]]] = None /\ ~loaded[cur[p]]
    BY <1>0, <1>1 DEF LoadWalletDeposit
  <2>3. rowLock'[to[cur[p]]] = p /\ load'[p] = "loaded"
    BY <1>0, <1>1, <2>2 DEF LoadWalletDeposit
  <2>4. \A w \in Wallets : rowLock[w] \in Pollers \ {p} => rowLock'[w] = rowLock[w]
    BY <1>0, <1>1, <2>2 DEF LoadWalletDeposit
  <2>5. \A q \in Pollers \ {p} : load'[q] = load[q]
    BY <1>0, <1>1 DEF LoadWalletDeposit
  <2>6. Sighted(p)' /\ Exclusive(p)'
    BY <1>i, <2>1, <2>2, <2>3 DEF Sighted, Exclusive, Confirmed, blockchain
  <2>7. DueSettled(p)'
    BY <1>i, <1>1, <2>1 DEF LoadWalletDeposit, DueSettled, Settled, Confirmed, blockchain
  <2> QED
    BY <2>1, <2>4, <2>5, <2>6, <2>7, PollerKeeps DEF blockchain
<1>2. CASE AlreadyLoaded(p)
  BY <1>2, RestartInv DEF AlreadyLoaded
<1>3. CASE MoveBalanceToBank(p)
  <2>1. UNCHANGED <<blockchain, loaded, available, rowLock, cur, seen, seenAt>>
    BY <1>3 DEF MoveBalanceToBank
  <2>2. load[p] = "loaded" /\ \A q \in Pollers \ {p} : load'[q] = load[q]
    BY <1>0, <1>3 DEF MoveBalanceToBank
  <2>3. Sighted(p)' /\ DueSettled(p)' /\ Exclusive(p)'
    BY <1>i, <2>1, <2>2 DEF Sighted, DueSettled, Settled, Exclusive, Confirmed, blockchain
  <2> QED
    BY <2>1, <2>2, <2>3, PollerKeeps DEF blockchain
<1>4. CASE SweepFails(p)
  BY <1>4, RestartInv DEF SweepFails
<1>5. CASE CommitLoad(p)
  <2> DEFINE t == cur[p]
             w == to[cur[p]]
  <2>1. t \in Txs /\ w \in Wallets /\ rowLock[w] = p /\ ~loaded[t] /\ (Settled(t) \/ t \in stale)
    BY <1>0, <1>i, <1>5 DEF CommitLoad, Exclusive, DueSettled
  <2>2. UNCHANGED <<blockchain, seen, seenAt>>
    BY <1>5 DEF CommitLoad
  <2>3. /\ available' = [available EXCEPT ![w] = @ + 1]
        /\ loaded' = [loaded EXCEPT ![t] = TRUE]
        /\ rowLock' = [rowLock EXCEPT ![w] = None]
        /\ load' = [load EXCEPT ![p] = "no"]
        /\ cur' = [cur EXCEPT ![p] = None]
    BY <1>5 DEF CommitLoad
  <2>4. ASSUME NEW q \in Pollers
        PROVE  Sighted(q)' /\ DueSettled(q)' /\ Exclusive(q)'
    <3>1. Sighted(q)'
      BY <1>i, <2>2 DEF Sighted, Confirmed, blockchain
    <3>2. CASE q = p
      BY <1>0, <2>3, <3>1, <3>2 DEF DueSettled, Exclusive
    <3>3. CASE q # p
      <4>1. load'[q] = load[q] /\ cur'[q] = cur[q]
        BY <1>0, <2>3, <3>3
      <4>2. DueSettled(q)'
        BY <1>i, <2>2, <4>1 DEF DueSettled, Settled, Confirmed, blockchain
      <4>3. ASSUME load[q] \in {"loaded", "swept"}
            PROVE  rowLock'[to[cur[q]]] = q /\ ~loaded'[cur[q]]
        <5>1. cur[q] \in Txs /\ to[cur[q]] \in Wallets /\ rowLock[to[cur[q]]] = q /\ ~loaded[cur[q]]
          BY <1>0, <1>i, <4>3 DEF Exclusive
        <5>2. to[cur[q]] # w /\ cur[q] # t
          BY <2>1, <3>3, <5>1
        <5> QED
          BY <1>0, <2>1, <2>3, <5>1, <5>2
      <4> QED
        BY <2>2, <3>1, <4>1, <4>2, <4>3 DEF Exclusive, blockchain
    <3> QED
      BY <3>2, <3>3
  <2>5. LoadedIsSettled'
    BY <1>0, <2>1, <2>2, <2>3 DEF IInv, LoadedIsSettled, Settled, Confirmed, blockchain
  <2>6. ASSUME NEW v \in Wallets
        PROVE  available'[v] = Cardinality({u \in Txs : loaded'[u] /\ to'[u] = v})
    <3> DEFINE Before == {u \in Txs : loaded[u] /\ to[u] = v}
               After  == {u \in Txs : loaded'[u] /\ to'[u] = v}
    <3>1. available[v] = Cardinality(Before) /\ IsFiniteSet(Before)
      BY FS_Subset DEF IInv, BalanceIsLoadedDeposits, CryptoDepositsAssumption
    <3>2. CASE v = w
      <4>1. After = Before \cup {t} /\ t \notin Before
        BY <1>0, <2>1, <2>2, <2>3, <3>2 DEF blockchain
      <4>2. Cardinality(After) = Cardinality(Before) + 1
        BY <3>1, <4>1, FS_AddElement
      <4> QED
        BY <1>0, <2>1, <2>3, <3>1, <3>2, <4>2
    <3>3. CASE v # w
      <4>1. After = Before
        BY <1>0, <2>1, <2>2, <2>3, <3>3 DEF blockchain
      <4> QED
        BY <1>0, <2>1, <2>3, <3>1, <3>3, <4>1
    <3> QED
      BY <3>2, <3>3
  <2> QED
    BY <2>4, <2>5, <2>6 DEF IInv, BalanceIsLoadedDeposits
<1> QED
  BY <1>1, <1>2, <1>3, <1>4, <1>5 DEF Load

LEMMA NextInv == CryptoDepositsAssumption /\ IInv /\ [Next]_vars => IInv'
<1> SUFFICES ASSUME CryptoDepositsAssumption, IInv, [Next]_vars
             PROVE  IInv'
  OBVIOUS
<1>1. TypeOK'
  BY NextType DEF IInv
<1>2. ASSUME NEW p \in Pollers, Crash(p)
      PROVE  IInv'
  BY <1>1, <1>2, RestartInv DEF Crash
<1>3. CASE UNCHANGED vars
  BY <1>3 DEF vars, IInv, TypeOK, ChainOK, RowsOK, PollersOK, Sighted, DueSettled, Exclusive,
              Settled, Confirmed, LoadedIsSettled, BalanceIsLoadedDeposits
<1> QED
  BY <1>1, <1>2, <1>3, ChainInv, SyncInv, LoadInv DEF Next, Poll

THEOREM Invariance == Spec => []IInv
<1>1. Init => IInv
  BY InitInv, CryptoDepositsAssumption
<1>2. IInv /\ [Next]_vars => IInv'
  BY NextInv, CryptoDepositsAssumption
<1> QED
  BY <1>1, <1>2, PTL DEF Spec

-----------------------------------------------------------------------------
(* The results *)

\* No crash and no second poller can tear a wallet's balance from the
\* amountWasLoaded flags of its deposits.
THEOREM BalanceMatchesDeposits == Spec => []BalanceIsLoadedDeposits
  BY Invariance, PTL DEF IInv

\* No fork of at most MinConfirmations blocks takes back a loaded deposit that
\* the poller did not misread: one it had found confirmed where it then was.
THEOREM LoadedStaysSettled == Spec => []LoadedIsSettled
  BY Invariance, PTL DEF IInv

\* The poller implements the deposit ledger: every step is a move of the chain, a
\* misreading of transactions that forks have moved, the credit of one settled or
\* misread deposit, or nothing the ledger can see.
THEOREM Refinement == Spec => ImplementsLedger
<1>1. Init => Ledger!Init
  BY DEF Init, Ledger!Init, Blocks
<1>2. IInv /\ [Next]_vars => [Ledger!Next]_Ledger!deposits
  <2> SUFFICES ASSUME IInv, Next
               PROVE  [Ledger!Next]_Ledger!deposits
    BY DEF vars, Ledger!deposits
  <2>1. CASE (\E S \in SUBSET Txs : Mine(S)) \/ (\E d \in 1..MaxReorg : Reorg(d))
    <3>1. height' >= height /\ \A t \in Txs : Settled(t) => minedIn'[t] = minedIn[t]
      BY <2>1, ChainKeepsSettled, CryptoDepositsAssumption DEF IInv
    <3>2. UNCHANGED <<to, stale, loaded, available>>
      BY <2>1 DEF Mine, Reorg, db
    <3>4. /\ forked \subseteq forked'
          /\ {t \in Txs : minedIn[t] # 0 /\ minedIn'[t] # minedIn[t]} \subseteq forked'
      BY <2>1 DEF IInv, TypeOK, ChainOK, Mine, Reorg
    <3>3. Ledger!Chain
      BY <3>1, <3>2, <3>4 DEF Ledger!Chain, Ledger!Settled, Settled, Confirmed
    <3> QED
      BY <3>3 DEF Ledger!Next
  <2>2. ASSUME NEW p \in Pollers, CommitLoad(p)
        PROVE  [Ledger!Next]_Ledger!deposits
    <3>1. cur[p] \in Txs /\ (Settled(cur[p]) \/ cur[p] \in stale) /\ ~loaded[cur[p]]
      BY <2>2 DEF IInv, TypeOK, PollersOK, DueSettled, Exclusive, CommitLoad
    <3>2. loaded \in [Txs -> BOOLEAN] /\ loaded' = [loaded EXCEPT ![cur[p]] = TRUE]
      BY <2>2 DEF IInv, TypeOK, RowsOK, CommitLoad
    <3>3. {t \in Txs : loaded[t]}' = {t \in Txs : loaded[t]} \cup {cur[p]}
      BY <3>1, <3>2
    <3>4. /\ available' = [available EXCEPT ![to[cur[p]]] = @ + 1]
          /\ UNCHANGED <<height, to, minedIn, forked, stale>>
      BY <2>2 DEF CommitLoad, blockchain
    <3>5. Ledger!Settled(cur[p]) \/ cur[p] \in stale
      BY <3>1 DEF Ledger!Settled, Settled, Confirmed
    <3>6. \E t \in Txs : Ledger!Credit(t)
      BY <3>1, <3>3, <3>4, <3>5 DEF Ledger!Credit
    <3> QED
      BY <3>6 DEF Ledger!Next
  <2>4. ASSUME NEW p \in Pollers, AdaptTransactions(p)
        PROVE  [Ledger!Next]_Ledger!deposits
    <3> DEFINE S == {t \in Seen(p) : minedIn[t] # seen[p][t] /\ Confirmed(seen[p][t], height)}
    <3>1. S \subseteq forked /\ S \subseteq Txs
      BY DEF IInv, Sighted, Seen
    <3>2. stale' = stale \cup S /\ UNCHANGED <<height, to, minedIn, forked, loaded, available>>
      BY <2>4 DEF AdaptTransactions, db
    <3>3. Ledger!Misread(S)
      BY <3>1, <3>2 DEF Ledger!Misread
    <3> QED
      BY <3>1, <3>3 DEF Ledger!Next
  <2>3. ASSUME NEW p \in Pollers, Poll(p) \/ Crash(p), ~CommitLoad(p), ~AdaptTransactions(p)
        PROVE  UNCHANGED <<height, to, minedIn, forked, stale, loaded, available>>
    BY <2>3 DEF Poll, SyncDaemon, CountBlocks, ReadCursor, PendingDone, ListTransactionsSinceBlock,
                CacheAdd, ListPending, FindTransaction, SkipTransaction, MempoolTransaction, SaveDeposit,
                Load, LoadWalletDeposit, AlreadyLoaded, MoveBalanceToBank, SweepFails, Crash, Restart,
                blockchain, db
  <2> QED
    BY <2>1, <2>2, <2>3, <2>4 DEF Next, Ledger!deposits
<1> QED
  BY <1>1, <1>2, Invariance, PTL DEF Spec, ImplementsLedger, Ledger!Spec

-----------------------------------------------------------------------------
(* The cursor of CryptoDeposits skips no block.                           *)
(*                                                                         *)
(* A poller may store any block up to which every deposit has a row or is  *)
(* still in the poller's hands.  Rows are never removed and new blocks are *)
(* above every block a poller has in mind, so that stays true while other  *)
(* pollers, crashes and the chain go on.                                   *)

\* Every deposit up to block n, that no fork has moved, has a row.
Covered(n) == \A t \in Txs \ forked : minedIn[t] \in since + 1 .. n => row[t] # "none"

\* The blocks poller p works with are on the chain.
OnChain(p) == chain[p] <= height /\ from[p] <= height /\ target[p] <= height

\* What poller p has read or saved so far.
Progress(p) ==
    /\ at[p] \in {"pending", "refresh", "list"} => Covered(from[p])
    /\ at[p] = "save" =>
           \A t \in Txs \ forked :
               minedIn[t] \in since + 1 .. target[p] => row[t] # "none" \/ seen[p][t] # 0
    /\ at[p] = "store" => Covered(target[p])

CInv ==
    /\ TypeOK
    /\ cursor <= height
    /\ Covered(cursor)
    /\ \A p \in Pollers : OnChain(p) /\ Progress(p)

LEMMA TypeFacts ==
    ASSUME CryptoDepositsAssumption, TypeOK
    PROVE  /\ height \in Nat /\ cursor \in Nat /\ since \in Nat
           /\ minedIn \in [Txs -> 0..height]
           /\ forked \subseteq Txs
           /\ row \in [Txs -> {"none", "pending", "confirmed"}]
           /\ at \in [Pollers -> {"count", "cursor", "pending", "refresh", "list", "save", "store"}]
           /\ chain \in [Pollers -> Nat] /\ from \in [Pollers -> Nat] /\ target \in [Pollers -> Nat]
           /\ seen \in [Pollers -> [Txs -> Nat]]
           /\ load \in [Pollers -> {"no", "locking", "loaded", "swept"}]
  BY DEF TypeOK, ChainOK, RowsOK, PollersOK, Blocks, CryptoDepositsAssumption

LEMMA InitCursor == CryptoDepositsAssumption /\ Init => CInv
<1> SUFFICES ASSUME CryptoDepositsAssumption, Init
             PROVE  CInv
  OBVIOUS
<1>1. TypeOK
  BY InitType
<1>2. Covered(cursor) /\ cursor <= height
  BY DEF Init, Covered
<1>3. \A p \in Pollers : OnChain(p) /\ Progress(p)
  BY DEF Init, OnChain, Progress
<1> QED
  BY <1>1, <1>2, <1>3 DEF CInv

\* Covering is kept when the chain stays or only changes above block n or for
\* transactions that forks move, rows stay and the start does not move back.
LEMMA CoveredKept ==
    ASSUME CryptoDepositsAssumption, TypeOK, TypeOK', NEW n \in Nat,
           forked \subseteq forked',
           since' >= since,
           \A t \in Txs : row[t] # "none" => row'[t] # "none",
           \A t \in Txs \ forked' : minedIn'[t] = minedIn[t] \/ minedIn'[t] > n,
           Covered(n)
    PROVE  \A t \in Txs \ forked' : minedIn'[t] \in since' + 1 .. n => row'[t] # "none"
<1>1. since \in Nat /\ since' \in Nat /\ \A t \in Txs : minedIn[t] \in Nat /\ minedIn'[t] \in Nat
  <2>1. \A i \in 0..height : i \in Nat
    OBVIOUS
  <2>2. \A i \in 0..height' : i \in Nat
    OBVIOUS
  <2> QED
    BY <2>1, <2>2 DEF TypeOK, ChainOK, RowsOK, Blocks, CryptoDepositsAssumption
<1> SUFFICES ASSUME NEW t \in Txs \ forked', minedIn'[t] \in since' + 1 .. n
             PROVE  row'[t] # "none"
  OBVIOUS
<1>2. minedIn'[t] = minedIn[t] /\ t \in Txs \ forked
  BY <1>1
<1>3. minedIn[t] \in since + 1 .. n
  BY <1>1, <1>2
<1> QED
  BY <1>2, <1>3 DEF Covered

\* The same for all that a poller's step, or the chain's, does not concern.
LEMMA PollerKept ==
    ASSUME CryptoDepositsAssumption, CInv, TypeOK', NEW p \in Pollers,
           height' >= height, forked \subseteq forked', since' >= since,
           \A t \in Txs : row[t] # "none" => row'[t] # "none",
           \A t \in Txs \ forked' : minedIn'[t] = minedIn[t] \/ minedIn'[t] > height,
           at'[p] = at[p], chain'[p] = chain[p], from'[p] = from[p], target'[p] = target[p],
           \A t \in Txs : seen[p][t] # 0 => seen'[p][t] # 0 \/ row'[t] # "none"
    PROVE  OnChain(p)' /\ Progress(p)'
<1>0. TypeOK /\ OnChain(p) /\ Progress(p)
  BY DEF CInv
<1>1. /\ height \in Nat /\ height' \in Nat /\ since \in Nat /\ since' \in Nat
      /\ minedIn \in [Txs -> 0..height] /\ minedIn' \in [Txs -> 0..height']
      /\ chain[p] \in Nat /\ from[p] \in Nat /\ target[p] \in Nat
  BY <1>0, TypeFacts DEF TypeOK, ChainOK, RowsOK, Blocks, CryptoDepositsAssumption
<1>2. \A t \in Txs : minedIn[t] \in Nat /\ minedIn'[t] \in Nat
  BY <1>1
<1>3. OnChain(p)'
  BY <1>0, <1>1 DEF OnChain
<1>4. from[p] <= height /\ target[p] <= height
  BY <1>0 DEF OnChain
<1>5. ASSUME Covered(from[p])
      PROVE  Covered(from[p])'
  <2>1. \A t \in Txs \ forked' : minedIn'[t] = minedIn[t] \/ minedIn'[t] > from[p]
    BY <1>1, <1>2, <1>4
  <2>2. \A t \in Txs \ forked' : minedIn'[t] \in since' + 1 .. from[p] => row'[t] # "none"
    BY <1>0, <1>1, <1>5, <2>1, CoveredKept
  <2> QED
    BY <2>2 DEF Covered
<1>6. ASSUME Covered(target[p])
      PROVE  Covered(target[p])'
  <2>1. \A t \in Txs \ forked' : minedIn'[t] = minedIn[t] \/ minedIn'[t] > target[p]
    BY <1>1, <1>2, <1>4
  <2>2. \A t \in Txs \ forked' : minedIn'[t] \in since' + 1 .. target[p] => row'[t] # "none"
    BY <1>0, <1>1, <1>6, <2>1, CoveredKept
  <2> QED
    BY <2>2 DEF Covered
<1>7. ASSUME at[p] = "save", NEW t \in Txs \ forked', minedIn'[t] \in since' + 1 .. target[p]
      PROVE  row'[t] # "none" \/ seen'[p][t] # 0
  <2>1. minedIn'[t] = minedIn[t] /\ t \in Txs \ forked
    BY <1>1, <1>2, <1>4, <1>7
  <2>2. minedIn[t] \in since + 1 .. target[p]
    BY <1>1, <1>2, <1>7, <2>1
  <2>3. row[t] # "none" \/ seen[p][t] # 0
    BY <1>0, <1>7, <2>1, <2>2 DEF Progress
  <2> QED
    BY <2>1, <2>3
<1> QED
  BY <1>0, <1>3, <1>5, <1>6, <1>7 DEF Progress, Covered

\* A step of one poller that keeps the cursor and its own part of the invariant.
LEMMA CursorKept ==
    ASSUME CryptoDepositsAssumption, CInv, TypeOK', NEW p \in Pollers,
           UNCHANGED <<blockchain, cursor>>, since' >= since,
           \A t \in Txs : row[t] # "none" => row'[t] # "none",
           \A q \in Pollers \ {p} : /\ at'[q] = at[q] /\ chain'[q] = chain[q]
                                    /\ from'[q] = from[q] /\ target'[q] = target[q]
                                    /\ seen'[q] = seen[q],
           OnChain(p)', Progress(p)'
    PROVE  CInv'
<1>0. TypeOK /\ cursor <= height /\ Covered(cursor)
  BY DEF CInv
<1>1. cursor \in Nat /\ height \in Nat
  BY <1>0, TypeFacts
<1>2. \A t \in Txs \ forked' : minedIn'[t] \in since' + 1 .. cursor => row'[t] # "none"
  BY <1>0, <1>1, CoveredKept DEF blockchain
<1>3. cursor' <= height' /\ Covered(cursor)'
  BY <1>0, <1>2 DEF Covered, blockchain
<1>4. \A q \in Pollers \ {p} : OnChain(q)' /\ Progress(q)'
  BY <1>1, PollerKept DEF blockchain
<1> QED
  BY <1>3, <1>4 DEF CInv

LEMMA RestartCursor ==
    ASSUME CryptoDepositsAssumption, CInv, TypeOK', NEW p \in Pollers, Restart(p)
    PROVE  CInv'
<1>0. TypeOK
  BY DEF CInv
<1>1. UNCHANGED <<blockchain, cursor, since, row>>
  BY DEF Restart, db, cache
<1>2. \A q \in Pollers \ {p} : /\ at'[q] = at[q] /\ chain'[q] = chain[q]
                               /\ from'[q] = from[q] /\ target'[q] = target[q]
                               /\ seen'[q] = seen[q]
  BY <1>0, TypeFacts DEF Restart
<1>3. at'[p] = "count" /\ chain'[p] = 0 /\ from'[p] = 0 /\ target'[p] = 0
  BY <1>0, TypeFacts DEF Restart
<1>4. OnChain(p)' /\ Progress(p)'
  BY <1>0, <1>1, <1>3, TypeFacts DEF OnChain, Progress, blockchain
<1> QED
  BY <1>0, <1>1, <1>2, <1>4, CursorKept, TypeFacts

LEMMA ChainCursor ==
    ASSUME CryptoDepositsAssumption, CInv, TypeOK',
           \/ \E S \in SUBSET Txs : Mine(S)
           \/ \E d \in 1..MaxReorg : Reorg(d)
    PROVE  CInv'
<1>0. TypeOK /\ cursor <= height /\ Covered(cursor)
  BY DEF CInv
<1>1. /\ height \in Nat /\ cursor \in Nat /\ minedIn \in [Txs -> 0..height]
  BY <1>0, TypeFacts
<1>2. UNCHANGED <<db, cache, poller>>
  BY DEF Mine, Reorg
<1>3. /\ height' >= height /\ forked \subseteq forked'
      /\ \A t \in Txs \ forked' : minedIn'[t] = minedIn[t] \/ minedIn'[t] > height
  BY <1>1 DEF Mine, Reorg
<1>4. \A t \in Txs \ forked' : minedIn'[t] = minedIn[t] \/ minedIn'[t] > cursor
  <2>1. minedIn' \in [Txs -> 0..height'] /\ height' \in Nat
    BY DEF TypeOK, ChainOK, Blocks, CryptoDepositsAssumption
  <2>2. \A t \in Txs : minedIn'[t] \in Nat
    BY <2>1
  <2> QED
    BY <1>0, <1>1, <1>3, <2>2
<1>5. \A t \in Txs \ forked' : minedIn'[t] \in since' + 1 .. cursor => row'[t] # "none"
  BY <1>0, <1>1, <1>2, <1>3, <1>4, CoveredKept, TypeFacts DEF db, cache
<1>6. cursor' = cursor /\ cursor' <= height'
  <2>1. height' \in Nat
    BY DEF TypeOK, ChainOK, Blocks, CryptoDepositsAssumption
  <2> QED
    BY <1>0, <1>1, <1>2, <1>3, <2>1 DEF cache
<1>7. \A p \in Pollers : OnChain(p)' /\ Progress(p)'
  BY <1>0, <1>2, <1>3, PollerKept, TypeFacts DEF db, cache, poller
<1> QED
  BY <1>5, <1>6, <1>7 DEF CInv, Covered

\* ReadCursor plans from the cursor, or from the chain's height when there is
\* none, which is then the start of what the poller answers for.
LEMMA PlanCursor ==
    ASSUME CryptoDepositsAssumption, CInv, TypeOK', NEW p \in Pollers, ReadCursor(p)
    PROVE  CInv'
<1>0. TypeOK /\ cursor <= height /\ Covered(cursor) /\ OnChain(p)
  BY DEF CInv
<1>1. /\ height \in Nat /\ cursor \in Nat /\ since \in Nat /\ chain[p] \in Nat
      /\ MaxBlocks \in Nat \ {0} /\ \A t \in Txs : minedIn[t] \in Nat
  BY <1>0, TypeFacts DEF CryptoDepositsAssumption
<1> DEFINE last == IF cursor = 0 THEN chain[p] ELSE cursor
           goal == IF last + MaxBlocks < chain[p] THEN last + MaxBlocks ELSE chain[p]
<1>2. UNCHANGED <<blockchain, cursor, row, chain, seen>>
  BY DEF ReadCursor, db, found
<1>3. since' = IF cursor = 0 /\ chain[p] > since THEN chain[p] ELSE since
  BY DEF ReadCursor
<1>4. from'[p] = last /\ target'[p] = goal /\ at'[p] = IF last = chain[p] THEN "store" ELSE "pending"
  BY <1>0, TypeFacts DEF ReadCursor, Goto
<1>5. last <= height /\ goal <= height /\ last \in Nat /\ goal \in Nat
  BY <1>0, <1>1 DEF OnChain
<1>6. \A t \in Txs \ forked : minedIn[t] \in since' + 1 .. last => row[t] # "none"
  <2>1. CASE cursor = 0
    BY <1>1, <1>3, <2>1
  <2>2. CASE cursor # 0
    BY <1>0, <1>1, <1>3, <2>2 DEF Covered
  <2> QED
    BY <2>1, <2>2
<1>7. last = chain[p] => goal = last
  BY <1>1
<1> HIDE DEF last, goal
<1>8. OnChain(p)'
  BY <1>0, <1>2, <1>4, <1>5 DEF OnChain, blockchain
<1>9. Progress(p)'
  BY <1>2, <1>4, <1>6, <1>7 DEF Progress, Covered, blockchain
<1>10. \A q \in Pollers \ {p} : at'[q] = at[q] /\ from'[q] = from[q] /\ target'[q] = target[q]
  BY <1>0, TypeFacts DEF ReadCursor, Goto
<1> QED
  BY <1>0, <1>1, <1>2, <1>3, <1>8, <1>9, <1>10, CursorKept DEF blockchain

\* The other steps of a round: rows are written before the cursor passes them.
LEMMA SyncCursor ==
    ASSUME CryptoDepositsAssumption, CInv, TypeOK', NEW p \in Pollers, SyncDaemon(p)
    PROVE  CInv'
<1> USE DEF db, cache, range, found, Goto
<1>0. TypeOK /\ OnChain(p) /\ Progress(p) /\ Covered(cursor)
  BY DEF CInv
<1>1. /\ height \in Nat /\ cursor \in Nat /\ since \in Nat
      /\ chain[p] \in Nat /\ from[p] \in Nat /\ target[p] \in Nat
      /\ \A t \in Txs : minedIn[t] \in Nat
  BY <1>0, TypeFacts
<1>2. /\ row \in [Txs -> {"none", "pending", "confirmed"}]
      /\ at \in [Pollers -> {"count", "cursor", "pending", "refresh", "list", "save", "store"}]
      /\ chain \in [Pollers -> Nat] /\ from \in [Pollers -> Nat] /\ target \in [Pollers -> Nat]
      /\ seen \in [Pollers -> [Txs -> Nat]]
  BY <1>0, TypeFacts
<1>3. CASE CountBlocks(p)
  <2>1. UNCHANGED <<blockchain, cursor, since, row, from, target, seen>>
    BY <1>3 DEF CountBlocks
  <2>2. /\ at'[p] = "cursor" /\ chain'[p] = height
        /\ \A q \in Pollers \ {p} : at'[q] = at[q] /\ chain'[q] = chain[q]
    BY <1>2, <1>3 DEF CountBlocks
  <2>3. OnChain(p)' /\ Progress(p)'
    BY <1>0, <1>1, <2>1, <2>2 DEF OnChain, Progress, blockchain
  <2> QED
    BY <1>1, <2>1, <2>2, <2>3, CursorKept
<1>4. ASSUME UNCHANGED <<blockchain, cursor, since, row, chain, from, target>>,
             \/ at[p] = "pending" /\ at'[p] = "refresh"
             \/ at[p] = "refresh" /\ at'[p] \in {"refresh", "list"},
             \A q \in Pollers \ {p} : at'[q] = at[q] /\ seen'[q] = seen[q]
      PROVE  CInv'
  <2>1. OnChain(p)' /\ Progress(p)'
    BY <1>0, <1>4 DEF OnChain, Progress, Covered, blockchain
  <2> QED
    BY <1>1, <1>4, <2>1, CursorKept
<1>5. CASE PendingDone(p) \/ \E S \in SUBSET Txs : ListPending(p, S)
  <2>1. UNCHANGED <<blockchain, cursor, since, row, chain, from, target, seen>>
    BY <1>5 DEF PendingDone, ListPending
  <2>2. \/ at[p] = "pending" /\ at'[p] = "refresh"
        \/ at[p] = "refresh" /\ at'[p] = "list"
    BY <1>2, <1>5 DEF PendingDone, ListPending
  <2>3. \A q \in Pollers \ {p} : at'[q] = at[q]
    BY <1>2, <1>5 DEF PendingDone, ListPending
  <2> QED
    BY <1>4, <2>1, <2>2, <2>3
<1>6. ASSUME NEW t \in Txs, FindTransaction(p, t) \/ SkipTransaction(p, t)
      PROVE  CInv'
  <2>1. UNCHANGED <<blockchain, cursor, since, row, chain, from, target, at>> /\ at[p] = "refresh"
    BY <1>6 DEF FindTransaction, SkipTransaction
  <2>2. \A q \in Pollers \ {p} : seen'[q] = seen[q]
    BY <1>2, <1>6 DEF FindTransaction, SkipTransaction
  <2> QED
    BY <1>4, <2>1, <2>2
<1>7. ASSUME NEW t \in Txs, MempoolTransaction(p, t)
      PROVE  CInv'
  BY <1>7, RestartCursor DEF MempoolTransaction
<1>8. CASE ListTransactionsSinceBlock(p)
  <2>1. UNCHANGED <<blockchain, cursor, since, row, chain, from, target>>
    BY <1>8 DEF ListTransactionsSinceBlock
  <2>2. at[p] = "list" /\ at'[p] = "save" /\ \A q \in Pollers \ {p} : at'[q] = at[q] /\ seen'[q] = seen[q]
    BY <1>2, <1>8 DEF ListTransactionsSinceBlock
  <2>3. \A t \in Txs : seen'[p][t] = IF minedIn[t] \in from[p] + 1 .. target[p] THEN minedIn[t] ELSE 0
    <3>1. (IF target[p] < height THEN target[p] ELSE height) = target[p]
      BY <1>0, <1>1 DEF OnChain
    <3> QED
      BY <1>2, <1>8, <3>1 DEF ListTransactionsSinceBlock
  <2>4. ASSUME NEW t \in Txs \ forked, minedIn[t] \in since + 1 .. target[p]
        PROVE  row[t] # "none" \/ seen'[p][t] # 0
    <3>1. CASE minedIn[t] <= from[p]
      BY <1>0, <1>1, <2>2, <2>4, <3>1 DEF Progress, Covered
    <3>2. CASE minedIn[t] > from[p]
      BY <1>1, <2>3, <2>4, <3>2
    <3> QED
      BY <1>1, <3>1, <3>2
  <2>5. OnChain(p)' /\ Progress(p)'
    BY <1>0, <2>1, <2>2, <2>4 DEF OnChain, Progress, blockchain
  <2> QED
    BY <1>1, <2>1, <2>2, <2>5, CursorKept
<1>9. ASSUME NEW t \in Txs, SaveDeposit(p, t)
      PROVE  CInv'
  <2>1. UNCHANGED <<blockchain, cursor, since, chain, from, target, at>>
    BY <1>9 DEF SaveDeposit
  <2>2. /\ \A u \in Txs \ {t} : row'[u] = row[u] /\ seen'[p][u] = seen[p][u]
        /\ \A q \in Pollers \ {p} : seen'[q] = seen[q]
    BY <1>2, <1>9 DEF SaveDeposit
  <2>3. row'[t] # "none"
    BY <1>2, <1>9 DEF SaveDeposit, StatusOf
  <2>4. OnChain(p)' /\ Progress(p)'
    BY <1>0, <2>1, <2>2, <2>3 DEF OnChain, Progress, Covered, blockchain
  <2> QED
    BY <1>1, <2>1, <2>2, <2>3, <2>4, CursorKept
<1>10. CASE CacheAdd(p)
  <2>1. UNCHANGED <<blockchain, since, row, seen>> /\ cursor' = target[p] /\ height' = height
    BY <1>10 DEF CacheAdd, blockchain
  <2>2. /\ at'[p] = "count" /\ chain'[p] = 0 /\ from'[p] = 0 /\ target'[p] = 0
        /\ \A q \in Pollers \ {p} :
               at'[q] = at[q] /\ chain'[q] = chain[q] /\ from'[q] = from[q] /\ target'[q] = target[q]
    BY <1>2, <1>10 DEF CacheAdd
  <2>3. Covered(target[p])
    BY <1>0, <1>10 DEF CacheAdd, Progress, Covered, Seen
  <2>4. cursor' <= height' /\ Covered(cursor)'
    BY <1>0, <2>1, <2>3 DEF OnChain, Covered, blockchain
  <2>5. OnChain(p)' /\ Progress(p)'
    BY <1>1, <2>1, <2>2 DEF OnChain, Progress
  <2>6. \A q \in Pollers \ {p} : OnChain(q)' /\ Progress(q)'
    BY <2>1, <2>2 DEF CInv, OnChain, Progress, Covered, blockchain
  <2> QED
    BY <2>4, <2>5, <2>6 DEF CInv
<1>11. CASE AdaptTransactions(p)
  <2>1. UNCHANGED <<height, to, minedIn, forked, cache, row, at, range, seen>>
    BY <1>11 DEF AdaptTransactions
  <2> QED
    BY <2>1 DEF CInv, OnChain, Progress, Covered, cache, range
<1> QED
  BY <1>3, <1>5, <1>6, <1>7, <1>8, <1>9, <1>10, <1>11, PlanCursor DEF SyncDaemon

\* Loading a deposit touches no row's existence and no block.
LEMMA LoadCursor ==
    ASSUME CryptoDepositsAssumption, CInv, TypeOK', NEW p \in Pollers, Load(p)
    PROVE  CInv'
<1>1. CASE AlreadyLoaded(p) \/ SweepFails(p)
  BY <1>1, RestartCursor DEF AlreadyLoaded, SweepFails
<1>2. CASE LoadWalletDeposit(p) \/ MoveBalanceToBank(p) \/ CommitLoad(p)
  <2>1. UNCHANGED <<blockchain, cache, row, at, range, seen>>
    BY <1>2 DEF LoadWalletDeposit, MoveBalanceToBank, CommitLoad, db, found
  <2> QED
    BY <2>1 DEF CInv, OnChain, Progress, Covered, blockchain, cache, range
<1> QED
  BY <1>1, <1>2 DEF Load

LEMMA NextCursor == CryptoDepositsAssumption /\ CInv /\ [Next]_vars => CInv'
<1> SUFFICES ASSUME CryptoDepositsAssumption, CInv, [Next]_vars
             PROVE  CInv'
  OBVIOUS
<1>1. TypeOK'
  BY NextType DEF CInv
<1>2. ASSUME NEW p \in Pollers, Crash(p)
      PROVE  CInv'
  BY <1>1, <1>2, RestartCursor DEF Crash
<1>3. CASE UNCHANGED vars
  BY <1>1, <1>3 DEF vars, CInv, OnChain, Progress, Covered
<1> QED
  BY <1>1, <1>2, <1>3, ChainCursor, SyncCursor, LoadCursor DEF Next, Poll

THEOREM CursorInvariance == Spec => []CInv
<1>1. Init => CInv
  BY InitCursor, CryptoDepositsAssumption
<1>2. CInv /\ [Next]_vars => CInv'
  BY NextCursor, CryptoDepositsAssumption
<1> QED
  BY <1>1, <1>2, PTL DEF Spec

\* However many pollers share the cursor, wherever they crash, no block is
\* passed before the deposits it holds have their rows.
THEOREM NoBlockIsSkipped == Spec => []NoBlockSkipped
<1>1. CInv => NoBlockSkipped
  BY DEF CInv, Covered, NoBlockSkipped
<1> QED
  BY <1>1, CursorInvariance, PTL
=============================================================================
