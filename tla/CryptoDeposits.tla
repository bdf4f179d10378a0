---------------------------- MODULE CryptoDeposits ----------------------------
(***************************************************************************)
(* Deposits: polling.js runs one pollCryptoDaemon process per currency,    *)
(* which follows a blockchain, keeps the Deposits table up to date and     *)
(* loads every confirmed deposit into its wallet.  The block cursor lives  *)
(* in the DynamoDB Cache.  An exception anywhere ends the process, which   *)
(* systemd starts again; MySQL rolls back what it had not committed.       *)
(*                                                                         *)
(* The client is EthereumClient, or one whose moveBalanceToBank does       *)
(* nothing (CryptoClient.js:123).  Every transaction here pays one unit to *)
(* a deposit address of the vault: the others are filtered out by          *)
(* isInterestingTransaction.                                               *)
(***************************************************************************)
EXTENDS Integers, FiniteSets

CONSTANTS Txs,               \* transactions that pay a deposit address
          Wallets,           \* wallets, one deposit address each
          Pollers,           \* poller processes of the currency
          None,
          MinConfirmations,  \* config.minConfirmations
          MaxBlocks,         \* config.maxBlocksToProcess
          PageLimit,         \* limit of findAll in syncPendingDeposits
          SweepFee,          \* gas fee of moveBalanceToBank, in units
          SweepsToBank,      \* does moveBalanceToBank send the balance on?
          MaxHeight,         \* bound on the chain
          MaxCrashes,        \* bound on the crashes of poller processes
          MaxReorg,          \* deepest fork of the chain, in blocks; 0: none
          MaxForked          \* bound on forks: none when so many txs have moved

ASSUME CryptoDepositsAssumption ==
    /\ IsFiniteSet(Txs)
    /\ None \notin Txs \cup Wallets \cup Pollers
    /\ MinConfirmations \in Nat \ {0}
    /\ MaxBlocks \in Nat \ {0}
    /\ PageLimit \in Nat \ {0}
    /\ SweepFee \in Nat \ {0}
    /\ SweepsToBank \in BOOLEAN
    /\ MaxHeight \in Nat \ {0}
    /\ MaxCrashes \in Nat
    /\ MaxReorg \in 0..MinConfirmations
    /\ MaxForked \in Nat

VARIABLES height, to, minedIn,  \* the chain: number of blocks, payee and block of each tx
          forked,               \* history: txs a fork put into another block, or out of one
          stale,                \* history: txs taken for confirmed in a block they had left
          sweeping, swept,      \* sweeps in the mempool (wallets); txs whose coins left
          row, loaded,          \* Deposits: status ("none": no row), amountWasLoaded
          available,            \* Wallets.availableBalance
          rowLock,              \* holder of each Addresses row's FOR UPDATE lock
          cursor,               \* Cache: last processed block, 0 when there is none
          since,                \* history: the last block a poller took for its start
          at, load, cur,        \* poller: place in syncDaemon and loadWalletDeposit, deposit
          chain, from, target,  \* poller: blockDiff and maxProcessBlock
          page, seen,           \* poller: pending rows left, blocks it was told
          seenAt,               \* poller: the height those are compared with, 0 until it asks
          crashes               \* history: crashes so far

blockchain == <<height, to, minedIn, forked, stale>>
sweeps     == <<sweeping, swept>>
db         == <<row, loaded, available>>
cache      == <<cursor, since>>
range      == <<chain, from, target>>
found      == <<page, seen, seenAt>>
poller     == <<at, load, cur, chain, from, target, page, seen, seenAt>>
vars       == <<height, to, minedIn, forked, stale, sweeping, swept, row, loaded, available,
                rowLock, cursor, since, at, load, cur, chain, from, target, page, seen, seenAt, crashes>>

Blocks    == 0..MaxHeight
NothingSeen == [t \in Txs |-> 0]

ChainOK ==
    /\ height \in Blocks
    /\ to \in [Txs -> Wallets]
    /\ minedIn \in [Txs -> 0..height]
    /\ forked \subseteq Txs
    /\ stale \subseteq Txs
    /\ sweeping \subseteq Wallets
    /\ swept \subseteq Txs

RowsOK ==
    /\ row \in [Txs -> {"none", "pending", "confirmed"}]
    /\ loaded \in [Txs -> BOOLEAN]
    /\ available \in [Wallets -> Nat]
    /\ rowLock \in [Wallets -> Pollers \cup {None}]
    /\ cursor \in Blocks
    /\ since \in Blocks

PollersOK ==
    /\ at \in [Pollers -> {"count", "cursor", "pending", "refresh", "list", "save", "store"}]
    /\ load \in [Pollers -> {"no", "locking", "loaded", "swept"}]
    /\ cur \in [Pollers -> Txs \cup {None}]
    /\ \A p \in Pollers : load[p] # "no" => cur[p] \in Txs
    /\ chain \in [Pollers -> Blocks]
    /\ from \in [Pollers -> Blocks]
    /\ target \in [Pollers -> Blocks]
    /\ page \in [Pollers -> SUBSET Txs]
    /\ seen \in [Pollers -> [Txs -> Blocks]]
    /\ seenAt \in [Pollers -> Blocks]
    /\ crashes \in 0..MaxCrashes

TypeOK == ChainOK /\ RowsOK /\ PollersOK

Init ==
    /\ height = 0
    /\ to \in [Txs -> Wallets]
    /\ minedIn = [t \in Txs |-> 0]
    /\ forked = {}
    /\ stale = {}
    /\ sweeping = {}
    /\ swept = {}
    /\ row = [t \in Txs |-> "none"]
    /\ loaded = [t \in Txs |-> FALSE]
    /\ available = [w \in Wallets |-> 0]
    /\ rowLock = [w \in Wallets |-> None]
    /\ cursor = 0
    /\ since = height
    /\ at = [p \in Pollers |-> "count"]
    /\ load = [p \in Pollers |-> "no"]
    /\ cur = [p \in Pollers |-> None]
    /\ chain = [p \in Pollers |-> 0]
    /\ from = [p \in Pollers |-> 0]
    /\ target = [p \in Pollers |-> 0]
    /\ page = [p \in Pollers |-> {}]
    /\ seen = [p \in Pollers |-> NothingSeen]
    /\ seenAt = [p \in Pollers |-> 0]
    /\ crashes = 0
-----------------------------------------------------------------------------
(* Helpers *)

Goto(p, place) == at' = [at EXCEPT ![p] = place]

\* EthereumClient: confirmations = height - blockNumber, compared with >=.
Confirmed(block, h) == h - block >= MinConfirmations
StatusOf(block, h) == IF Confirmed(block, h) THEN "confirmed" ELSE "pending"

\* What getBalance answers for a deposit address: coins of mined transactions
\* that no mined sweep has taken.
Coins(w) == Cardinality({t \in Txs : to[t] = w /\ minedIn[t] # 0 /\ t \notin swept})

Seen(p) == {t \in Txs : seen[p][t] # 0}
Unloaded == {t \in Txs : row[t] # "none" /\ ~loaded[t]}

\* The process exits and systemd starts a new one: its transaction is rolled
\* back, its locks are freed, what it had in memory is gone.
Restart(p) ==
    /\ rowLock' = [w \in Wallets |-> IF rowLock[w] = p THEN None ELSE rowLock[w]]
    /\ at' = [at EXCEPT ![p] = "count"]
    /\ load' = [load EXCEPT ![p] = "no"]
    /\ cur' = [cur EXCEPT ![p] = None]
    /\ chain' = [chain EXCEPT ![p] = 0]
    /\ from' = [from EXCEPT ![p] = 0]
    /\ target' = [target EXCEPT ![p] = 0]
    /\ page' = [page EXCEPT ![p] = {}]
    /\ seen' = [seen EXCEPT ![p] = NothingSeen]
    /\ seenAt' = [seenAt EXCEPT ![p] = 0]
    /\ UNCHANGED <<blockchain, sweeps, db, cache>>
-----------------------------------------------------------------------------
(* The blockchain *)

\* A block is mined with some of the pending transactions and every sweep.
Mine(S) ==
    /\ height < MaxHeight
    /\ \A t \in S : minedIn[t] = 0
    /\ height' = height + 1
    /\ minedIn' = [t \in Txs |-> IF t \in S THEN height + 1 ELSE minedIn[t]]
    /\ swept' = swept \cup {t \in Txs : minedIn[t] # 0 /\ to[t] \in sweeping}
    /\ sweeping' = {}
    /\ UNCHANGED <<to, forked, stale, db, rowLock, cache, poller, crashes>>

\* The last d blocks lose to a fork of the same length; its blocks may hold
\* the same transactions elsewhere, or not at all.
Reorg(d) ==
    LET fork == height - d + 1 .. height
    IN  /\ d <= height
        /\ Cardinality(forked) < MaxForked
        /\ minedIn' \in [Txs -> {0} \cup 1..height]
        /\ \A t \in Txs : IF minedIn[t] \in fork \cup {0}
                          THEN minedIn'[t] \in fork \cup {0}
                          ELSE minedIn'[t] = minedIn[t]
        /\ forked' = forked \cup {t \in Txs : minedIn'[t] # minedIn[t]}
        /\ swept' = {t \in swept : minedIn'[t] # 0}
        /\ UNCHANGED <<height, to, stale, sweeping, db, rowLock, cache, poller, crashes>>
-----------------------------------------------------------------------------
(* syncDaemon *)

\* calculateBlockDiff asks the chain first ...
CountBlocks(p) ==
    /\ at[p] = "count"
    /\ chain' = [chain EXCEPT ![p] = height]
    /\ Goto(p, "cursor")
    /\ UNCHANGED <<blockchain, sweeps, db, rowLock, cache, load, cur, from, target, found, crashes>>

\* Mutant: maxProcessBlock is not capped by the last block of the chain.
ReadCursorUncapped(p) ==
    LET last == IF cursor = 0 THEN chain[p] ELSE cursor
        goal == last + MaxBlocks
    IN  /\ at[p] = "cursor"
        /\ from' = [from EXCEPT ![p] = last]
        /\ target' = [target EXCEPT ![p] = goal]
        /\ since' = IF cursor = 0 /\ chain[p] > since THEN chain[p] ELSE since
        /\ Goto(p, IF last = chain[p] THEN "store" ELSE "pending")
        /\ UNCHANGED <<blockchain, sweeps, db, rowLock, cursor, load, cur, chain, found, crashes>>

\* ... then the cache: no cursor, or a cursor of 0, means "start here".  When
\* there is nothing new the poller only stores the cursor, else it takes at
\* most MaxBlocks blocks.
ReadCursor(p) ==
    LET last == IF cursor = 0 THEN chain[p] ELSE cursor
        goal == IF last + MaxBlocks < chain[p] THEN last + MaxBlocks ELSE chain[p]
    IN  /\ at[p] = "cursor"
        /\ from' = [from EXCEPT ![p] = last]
        /\ target' = [target EXCEPT ![p] = goal]
        /\ since' = IF cursor = 0 /\ chain[p] > since THEN chain[p] ELSE since
        /\ Goto(p, IF last = chain[p] THEN "store" ELSE "pending")
        /\ UNCHANGED <<blockchain, sweeps, db, rowLock, cursor, load, cur, chain, found, crashes>>

\* syncPendingDeposits: one page of rows not loaded yet, in no stated order.
ListPending(p, S) ==
    /\ at[p] = "pending"
    /\ S \subseteq Unloaded
    /\ Cardinality(S) = PageLimit \/ (S = Unloaded /\ Cardinality(S) <= PageLimit)
    /\ page' = [page EXCEPT ![p] = S]
    /\ Goto(p, "refresh")
    /\ UNCHANGED <<blockchain, sweeps, db, rowLock, cache, load, cur, range, seen, seenAt, crashes>>

\* findTransaction reads a mined transaction; how deep it is comes later.
FindTransaction(p, t) ==
    /\ at[p] = "refresh" /\ load[p] = "no" /\ Seen(p) = {}
    /\ t \in page[p]
    /\ minedIn[t] # 0
    /\ page' = [page EXCEPT ![p] = @ \ {t}]
    /\ seen' = [seen EXCEPT ![p] = [NothingSeen EXCEPT ![t] = minedIn[t]]]
    /\ UNCHANGED <<blockchain, sweeps, db, rowLock, cache, at, load, cur, range, seenAt, crashes>>

\* The node no longer knows the transaction: the row is left for later.
SkipTransaction(p, t) ==
    /\ at[p] = "refresh" /\ load[p] = "no" /\ Seen(p) = {}
    /\ t \in page[p]
    /\ minedIn[t] = 0
    /\ page' = [page EXCEPT ![p] = @ \ {t}]
    /\ UNCHANGED <<blockchain, sweeps, db, rowLock, cache, at, load, cur, range, seen, seenAt, crashes>>

\* Mutant: txBlock is nullable, so a transaction back in the mempool, whose
\* confirmations are height - null = height, is taken for a confirmed one.
MempoolTransactionAccepted(p, t) ==
    /\ at[p] = "refresh" /\ load[p] = "no" /\ Seen(p) = {}
    /\ t \in page[p]
    /\ minedIn[t] = 0
    /\ height >= MinConfirmations
    /\ row' = [row EXCEPT ![t] = "confirmed"]
    /\ load' = [load EXCEPT ![p] = "locking"]
    /\ cur' = [cur EXCEPT ![p] = t]
    /\ page' = [page EXCEPT ![p] = @ \ {t}]
    /\ UNCHANGED <<blockchain, sweeps, loaded, available, rowLock, cache, at, range, seen, seenAt, crashes>>

\* A fork returned the transaction to the mempool: its blockNumber is null and
\* jsonSchema rejects the patch with txBlock null (Deposits.js:31).
MempoolTransaction(p, t) ==
    /\ at[p] = "refresh" /\ load[p] = "no" /\ Seen(p) = {}
    /\ t \in page[p]
    /\ minedIn[t] = 0
    /\ Restart(p)
    /\ UNCHANGED crashes

PendingDone(p) ==
    /\ at[p] = "refresh" /\ load[p] = "no" /\ Seen(p) = {} /\ page[p] = {}
    /\ Goto(p, "list")
    /\ UNCHANGED <<blockchain, sweeps, db, rowLock, cache, load, cur, range, found, crashes>>

\* Mutant: the loop starts at the block after the next one.
ListSkipsOneBlock(p) ==
    LET top == IF target[p] < height THEN target[p] ELSE height
    IN  /\ at[p] = "list"
        /\ seen' = [seen EXCEPT ![p] =
               [t \in Txs |-> IF minedIn[t] \in from[p] + 2 .. top THEN minedIn[t] ELSE 0]]
        /\ Goto(p, "save")
        /\ UNCHANGED <<blockchain, sweeps, db, rowLock, cache, load, cur, range, page, seenAt, crashes>>

\* listTransactionsSinceBlock reads the blocks after from, up to target (the
\* blocks of one range together).
ListTransactionsSinceBlock(p) ==
    LET top == IF target[p] < height THEN target[p] ELSE height
    IN  /\ at[p] = "list"
        /\ seen' = [seen EXCEPT ![p] =
               [t \in Txs |-> IF minedIn[t] \in from[p] + 1 .. top THEN minedIn[t] ELSE 0]]
        /\ Goto(p, "save")
        /\ UNCHANGED <<blockchain, sweeps, db, rowLock, cache, load, cur, range, page, seenAt, crashes>>

\* Only when it has the blocks of the transactions does the client ask for the
\* height it computes their confirmations from.  A fork may have moved some of
\* them meanwhile, and the chain grown.
AdaptTransactions(p) ==
    /\ load[p] = "no" /\ Seen(p) # {} /\ seenAt[p] = 0
    /\ seenAt' = [seenAt EXCEPT ![p] = height]
    /\ stale' = stale \cup {t \in Seen(p) : /\ minedIn[t] # seen[p][t]
                                          /\ Confirmed(seen[p][t], height)}
    /\ UNCHANGED <<height, to, minedIn, forked, sweeps, db, rowLock, cache, at, load, cur, range,
                   page, seen, crashes>>

\* saveDeposit: create or patch the row, and go on to load it when it is
\* confirmed and was not loaded.
SaveDeposit(p, t) ==
    LET status == StatusOf(seen[p][t], seenAt[p])
        due == status = "confirmed" /\ ~loaded[t]
    IN  /\ load[p] = "no" /\ seenAt[p] # 0
        /\ t \in Seen(p)
        /\ row' = [row EXCEPT ![t] = status]
        /\ seen' = [seen EXCEPT ![p] = [@ EXCEPT ![t] = 0]]
        /\ seenAt' = [seenAt EXCEPT ![p] = IF Seen(p) = {t} THEN 0 ELSE @]
        /\ load' = [load EXCEPT ![p] = IF due THEN "locking" ELSE "no"]
        /\ cur' = [cur EXCEPT ![p] = IF due THEN t ELSE None]
        /\ UNCHANGED <<blockchain, sweeps, loaded, available, rowLock, cache, at, range, page, crashes>>

\* All saved: Cache.add moves the cursor.
CacheAdd(p) ==
    /\ \/ at[p] = "store"
       \/ at[p] = "save" /\ load[p] = "no" /\ Seen(p) = {}
    /\ cursor' = target[p]
    /\ Goto(p, "count")
    /\ chain' = [chain EXCEPT ![p] = 0]
    /\ from' = [from EXCEPT ![p] = 0]
    /\ target' = [target EXCEPT ![p] = 0]
    /\ UNCHANGED <<blockchain, sweeps, db, rowLock, since, load, cur, found, crashes>>
-----------------------------------------------------------------------------
(* loadWalletDeposit *)

\* Mutant: setAmountLoaded does not look at amountWasLoaded.
LoadAgain(p) ==
    /\ load[p] = "locking"
    /\ rowLock[to[cur[p]]] = None
    /\ rowLock' = [rowLock EXCEPT ![to[cur[p]]] = p]
    /\ load' = [load EXCEPT ![p] = "loaded"]
    /\ UNCHANGED <<blockchain, sweeps, db, cache, at, cur, range, found, crashes>>

\* Addresses.find FOR UPDATE, changeBalance, setAmountLoaded.
LoadWalletDeposit(p) ==
    /\ load[p] = "locking"
    /\ rowLock[to[cur[p]]] = None
    /\ ~loaded[cur[p]]
    /\ rowLock' = [rowLock EXCEPT ![to[cur[p]]] = p]
    /\ load' = [load EXCEPT ![p] = "loaded"]
    /\ UNCHANGED <<blockchain, sweeps, db, cache, at, cur, range, found, crashes>>

\* setAmountLoaded throws: another poller has loaded the deposit meanwhile.
AlreadyLoaded(p) ==
    /\ load[p] = "locking"
    /\ rowLock[to[cur[p]]] = None
    /\ loaded[cur[p]]
    /\ Restart(p)
    /\ UNCHANGED crashes

\* Mutant: the balance is credited as soon as it is changed, in no transaction.
SweepAfterCredit(p) ==
    /\ load[p] = "loaded"
    /\ SweepsToBank => Coins(to[cur[p]]) >= SweepFee
    /\ sweeping' = IF SweepsToBank THEN sweeping \cup {to[cur[p]]} ELSE sweeping
    /\ available' = [available EXCEPT ![to[cur[p]]] = @ + 1]
    /\ load' = [load EXCEPT ![p] = "swept"]
    /\ UNCHANGED <<blockchain, swept, row, loaded, rowLock, cache, at, cur, range, found, crashes>>

\* moveBalanceToBank sends the whole balance of the address, less the fee.
MoveBalanceToBank(p) ==
    /\ load[p] = "loaded"
    /\ SweepsToBank => Coins(to[cur[p]]) >= SweepFee
    /\ sweeping' = IF SweepsToBank THEN sweeping \cup {to[cur[p]]} ELSE sweeping
    /\ load' = [load EXCEPT ![p] = "swept"]
    /\ UNCHANGED <<blockchain, swept, db, rowLock, cache, at, cur, range, found, crashes>>

\* It throws 'Value is too low': the balance does not pay the fee.  (A node that
\* refuses to sweep coins whose first sweep is pending is one of the crashes.)
SweepFails(p) ==
    /\ load[p] = "loaded"
    /\ SweepsToBank
    /\ Coins(to[cur[p]]) < SweepFee
    /\ Restart(p)
    /\ UNCHANGED crashes

\* The transaction commits the balance and the flag together.
CommitLoad(p) ==
    LET t == cur[p]
    IN  /\ load[p] = "swept"
        /\ available' = [available EXCEPT ![to[t]] = @ + 1]
        /\ loaded' = [loaded EXCEPT ![t] = TRUE]
        /\ rowLock' = [rowLock EXCEPT ![to[t]] = None]
        /\ load' = [load EXCEPT ![p] = "no"]
        /\ cur' = [cur EXCEPT ![p] = None]
        /\ UNCHANGED <<blockchain, sweeps, row, cache, at, range, found, crashes>>
-----------------------------------------------------------------------------
\* Any other failure: the machine, MySQL, DynamoDB, the node, clientStatus.
Crash(p) ==
    /\ crashes < MaxCrashes
    /\ crashes' = crashes + 1
    /\ Restart(p)
-----------------------------------------------------------------------------
SyncDaemon(p) ==
    \/ CountBlocks(p) \/ ReadCursor(p) \/ PendingDone(p)
    \/ ListTransactionsSinceBlock(p) \/ AdaptTransactions(p) \/ CacheAdd(p)
    \/ \E S \in SUBSET Txs : ListPending(p, S)
    \/ \E t \in Txs :
          \/ FindTransaction(p, t) \/ SkipTransaction(p, t) \/ MempoolTransaction(p, t)
          \/ SaveDeposit(p, t)

Load(p) ==
    \/ LoadWalletDeposit(p) \/ AlreadyLoaded(p)
    \/ MoveBalanceToBank(p) \/ SweepFails(p) \/ CommitLoad(p)

Poll(p) == SyncDaemon(p) \/ Load(p)

Next ==
    \/ \E S \in SUBSET Txs : Mine(S)
    \/ \E d \in 1..MaxReorg : Reorg(d)
    \/ \E p \in Pollers : Poll(p) \/ Crash(p)

Spec == Init /\ [][Next]_vars

\* The poller loops for ever and systemd restarts it.  Nothing is assumed of
\* the chain: it may stop growing.
FairSpec == Spec /\ \A p \in Pollers : WF_vars(Poll(p))
-----------------------------------------------------------------------------
(* Properties *)

\* A wallet's balance is what its loaded deposits brought it: a crash between
\* changeBalance and setAmountLoaded, or a second poller, cannot tear the
\* balance from the amountWasLoaded flag.
BalanceIsLoadedDeposits ==
    \A w \in Wallets : available[w] = Cardinality({t \in Txs : loaded[t] /\ to[t] = w})

\* The cursor never passes a block whose deposits are not in the table,
\* wherever a poller crashed (syncDaemon stores the cursor last) and whichever
\* of two stores it; a fork may move a transaction behind the cursor.
NoBlockSkipped ==
    \A t \in Txs \ forked : minedIn[t] \in since + 1 .. cursor => row[t] # "none"

Settled(t) == minedIn[t] # 0 /\ Confirmed(minedIn[t], height)

\* A deposit is loaded when it is buried deep enough to outlive every fork the
\* vault is configured for, or because the poller misread it: the code compares
\* a block it has read with a height it asks for later, and credits what a fork
\* took out of that block in between (EthereumClient.js:271 and 283).  Nothing
\* else credits an orphan: not a status computed long before it is saved, nor
\* a row refreshed from a transaction that has left the chain.
LoadedIsSettled == \A t \in Txs : loaded[t] => Settled(t) \/ t \in stale

\* What the tests of pollCryptoDaemon.js call "loads pending wallet deposits":
\* a deposit mined after the cursor's start, with enough confirmations, is
\* loaded into its wallet in the end.
EveryDepositLoaded ==
    \A t \in Txs :
        cursor > 0 /\ minedIn[t] > since /\ Confirmed(minedIn[t], height) ~> loaded[t]

\* The poller implements a ledger that credits each settled, or misread, deposit
\* once: the credit is the commit, and nothing of rows, cursors, heights asked
\* for and sweeps is visible.
Ledger == INSTANCE DepositLedger WITH
    credited <- {t \in Txs : loaded[t]},
    balance  <- available
ImplementsLedger == Ledger!Spec
=============================================================================
