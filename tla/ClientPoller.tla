---------------------------- MODULE ClientPoller ----------------------------
(***************************************************************************)
(* One pollCryptoDaemon process over any of the clients of ChainClients:   *)
(* what becomes of the deposits the client shows it.  CryptoDeposits looks *)
(* at the same process step by step inside loadWalletDeposit, with several *)
(* pollers and the coins a sweep moves, for one client and transactions of *)
(* one output; here a deposit is loaded in one step, and the clients       *)
(* differ.  The blocks of one call are read in one step, and the height in *)
(* another where the client asks for it afterwards.                        *)
(***************************************************************************)
EXTENDS ChainClients

CONSTANTS Clients,        \* clients to choose from
          OutputLists,    \* what the transactions may pay, one list of outputs each
          MaxBlocks,      \* config.maxBlocksToProcess
          PageLimit,      \* limit of findAll in syncPendingDeposits
          None,
          MaxHeight,      \* bound on the chain
          MaxReorg,       \* deepest fork of the chain, in blocks
          MaxFaults       \* bound on forks, crashes and top-ups not waited for

ASSUME ClientPollerAssumption ==
    /\ Clients \subseteq {"btc", "eth", "erc20", "xlm", "eos", "xdac", "xem", "trx", "xmr", "etn",
                         "xrp", "neo"}
    /\ IsFiniteSet(Txs) /\ Txs \subseteq Nat \ {0}
    /\ Stranger \notin Wallets
    /\ {NaN, Null} \cap Nat = {}
    /\ MinConfirmations \in Nat \ {0}
    /\ MaxReorg \in 0 .. MinConfirmations - 1
    /\ {MaxBlocks, PageLimit, MaxHeight, IncomingPage, PaymentsPage} \subseteq Nat \ {0}
    /\ MaxFaults \in Nat
    /\ \A o \in OutputLists : \A t \in Txs :
           /\ o[t] \in Seq([to : Wallets \cup {Stranger}, kind : {"coin", "claim", "call"}])
           /\ Len(o[t]) \in 1 .. MaxHeight

VARIABLES forked,                 \* history: transactions a fork moved, mined or took out
          reading,                \* poller: the blocks are read, the height is not yet
          moved, stale,           \* history: forked since; confirmed from a lost block
          row,                    \* Deposits, by uid
          available,              \* Wallets.availableBalance
          credited,               \* history: what each transaction brought to wallets
          cursor, since,          \* Cache: last processed block; history: its first value
          at, from, target,       \* poller: place in syncDaemon and the blocks it takes
          page, queue, due,       \* poller: rows left, deposits left to save, row to load
          waiting,                \* poller: for the top-up of a token sweep to be mined
          gas, sent, topUps,      \* ERC20: ETH of an address, on its way; history: times sent
          faults                  \* history: forks and failures so far

chain  == <<outs, height, minedIn, forked>>
late   == <<reading, moved, stale>>
db     == <<row, available, credited>>
cache  == <<cursor, since>>
memory == <<at, from, target, page, queue, due, waiting>>
ether  == <<gas, sent, topUps>>
vars   == <<client, outs, height, minedIn, forked, reading, moved, stale, row, available,
            credited, cursor, since, at, from, target, page, queue, due, waiting, gas, sent,
            topUps, faults>>

\* Their chains do not fork.
Final == {"xrp", "xlm"}
\* A transaction may pay several deposit addresses.
Batching == {"btc", "xlm", "eos", "xdac", "xmr", "etn"}

\* A transaction with the number of an output, or with a block.
Uids   == Txs \X (0 .. MaxHeight)
Rows   == [address : Wallets, amount : Nat, status : {"pending", "confirmed"},
           block : 0 .. MaxHeight, loaded : BOOLEAN]

ASSUME NoneAssumption == None \notin Uids \cup Rows

Saved  == {u \in Uids : row[u] # None}
Loaded == {u \in Saved : row[u].loaded}

TypeOK ==
    /\ client \in Clients
    /\ outs \in OutputLists
    /\ height \in 1 .. MaxHeight
    /\ minedIn \in [Txs -> 0 .. height]
    /\ forked \subseteq Txs /\ moved \subseteq Txs /\ stale \subseteq Txs
    /\ reading \in BOOLEAN
    /\ row \in [Uids -> Rows \cup {None}]
    /\ available \in [Wallets -> Nat]
    /\ credited \in [Txs -> Nat]
    /\ cursor \in 0 .. height
    /\ since \in 0 .. MaxHeight
    /\ at \in {"count", "cursor", "pending", "refresh", "list", "save", "store"}
    /\ from \in 0 .. height
    /\ target \in from .. height
    /\ page \subseteq Saved
    /\ due \in Saved \cup {None}
    /\ waiting \in BOOLEAN
    /\ gas \in [Wallets -> Nat]
    /\ sent \in [Wallets -> Nat]
    /\ topUps \in Nat
    /\ faults \in 0 .. MaxFaults

\* The chain's first block is processed: CryptoDeposits has a poller's first start.
Init ==
    /\ client \in Clients
    /\ outs \in {o \in OutputLists : client \in Batching \/ \A t \in Txs : Len(o[t]) = 1}
    /\ height = 1
    /\ minedIn = [t \in Txs |-> 0]
    /\ forked = {} /\ moved = {} /\ stale = {} /\ reading = FALSE
    /\ row = [u \in Uids |-> None]
    /\ available = [w \in Wallets |-> 0]
    /\ credited = [t \in Txs |-> 0]
    /\ cursor = height /\ since = height
    /\ at = "count" /\ from = 0 /\ target = 0
    /\ page = {} /\ queue = {} /\ due = None /\ waiting = FALSE
    /\ gas = [w \in Wallets |-> 0]
    /\ sent = [w \in Wallets |-> 0]
    /\ topUps = 0
    /\ faults = 0
-----------------------------------------------------------------------------
(* The chain *)

Mine(S) ==
    /\ height < MaxHeight
    /\ \A t \in S : minedIn[t] = 0
    /\ height' = height + 1
    /\ minedIn' = [t \in Txs |-> IF t \in S THEN height + 1 ELSE minedIn[t]]
    /\ UNCHANGED <<client, outs, forked, late, db, cache, memory, ether, faults>>

\* The last d blocks lose to others; a transaction of theirs is mined in
\* another of the new blocks, or in none.
Reorg(d) ==
    /\ client \notin Final
    /\ faults < MaxFaults
    /\ d < height
    /\ LET fork == height - d + 1 .. height
       IN  /\ minedIn' \in [Txs -> {0} \cup fork \cup {minedIn[t] : t \in Txs}]
           /\ \A t \in Txs : IF minedIn[t] \in fork \cup {0}
                             THEN minedIn'[t] \in fork \cup {0}
                             ELSE minedIn'[t] = minedIn[t]
    /\ forked' = forked \cup {t \in Txs : minedIn'[t] # minedIn[t]}
    /\ moved' = IF reading THEN moved \cup {t \in Txs : minedIn'[t] # minedIn[t]} ELSE moved
    /\ faults' = faults + 1
    /\ UNCHANGED <<client, outs, height, reading, stale, db, cache, memory, ether>>

\* An ETH transfer that pays for the gas of a token sweep is mined.
MineTopUp(w) ==
    /\ sent[w] > 0
    /\ gas' = [gas EXCEPT ![w] = @ + sent[w]]
    /\ sent' = [sent EXCEPT ![w] = 0]
    /\ UNCHANGED <<client, chain, late, db, cache, memory, topUps, faults>>
-----------------------------------------------------------------------------
(* syncDaemon *)

\* The process exits; systemd starts it again.
Restart ==
    /\ at' = "count" /\ from' = 0 /\ target' = 0
    /\ page' = {} /\ queue' = {} /\ due' = None /\ waiting' = FALSE
    /\ reading' = FALSE /\ moved' = {}
    /\ UNCHANGED <<client, chain, stale, db, cache>>

\* calculateBlockDiff: first the chain; target keeps the answer until the
\* cursor is read.
Count ==
    /\ at = "count"
    /\ CountBlocks # NaN
    /\ target' = CountBlocks /\ from' = 0
    /\ at' = "cursor"
    /\ UNCHANGED <<client, chain, late, db, cache, page, queue, due, waiting, ether, faults>>

\* A chain that ends nowhere: no block is listed, and the Cache refuses NaN.
CountNaN ==
    /\ at = "count"
    /\ CountBlocks = NaN
    /\ Restart
    /\ UNCHANGED <<ether, faults>>

\* Mutant: maxProcessBlock is not capped by the last block of the chain.
ReadCursorUncapped ==
    LET last == IF cursor = 0 THEN target ELSE cursor
    IN  /\ at = "cursor"
        /\ from' = last
        /\ target' = last + MaxBlocks
        /\ since' = IF cursor = 0 THEN target ELSE since
        /\ at' = IF last = target THEN "store" ELSE "pending"
        /\ UNCHANGED <<client, chain, late, db, cursor, page, queue, due, waiting, ether, faults>>

\* Mutant: a cursor behind the chain counts as in sync.
ReadCursorInSync ==
    LET last == IF cursor = 0 THEN target ELSE cursor
        goal == IF last + MaxBlocks < target THEN last + MaxBlocks ELSE target
    IN  /\ at = "cursor"
        /\ from' = last
        /\ target' = goal
        /\ since' = IF cursor = 0 THEN target ELSE since
        /\ at' = IF last <= target THEN "store" ELSE "pending"
        /\ UNCHANGED <<client, chain, late, db, cursor, page, queue, due, waiting, ether, faults>>

\* No cursor, or a cursor of 0, means "start here"; at most MaxBlocks blocks.
ReadCursor ==
    LET last == IF cursor = 0 THEN target ELSE cursor
        goal == IF last + MaxBlocks < target THEN last + MaxBlocks ELSE target
    IN  /\ at = "cursor"
        /\ from' = last
        /\ target' = goal
        /\ since' = IF cursor = 0 THEN target ELSE since
        /\ at' = IF last = target THEN "store" ELSE "pending"
        /\ UNCHANGED <<client, chain, late, db, cursor, page, queue, due, waiting, ether, faults>>

ListPending(S) ==
    LET unloaded == Saved \ Loaded
    IN  /\ at = "pending"
        /\ S \subseteq unloaded
        /\ Cardinality(S) = PageLimit \/ (S = unloaded /\ Cardinality(S) <= PageLimit)
        /\ page' = S
        /\ at' = "refresh"
        /\ UNCHANGED <<client, chain, late, db, cache, from, target, queue, due, waiting, ether, faults>>

FindTransaction(u) ==
    /\ at = "refresh" /\ queue = {} /\ due = None
    /\ u \in page
    /\ queue' \in Find(u, row[u])
    /\ page' = page \ {u}
    /\ reading' = (client \in Late /\ queue' # {}) /\ moved' = {}
    /\ UNCHANGED <<client, chain, stale, db, cache, at, from, target, due, waiting, ether, faults>>

PendingDone ==
    /\ at = "refresh" /\ queue = {} /\ due = None /\ page = {}
    /\ at' = "list"
    /\ UNCHANGED <<client, chain, late, db, cache, from, target, page, queue, due, waiting, ether, faults>>

ListTransactionsSinceBlock ==
    /\ at = "list"
    /\ queue' \in List(from, target)
    /\ reading' = (client \in Late /\ queue' # {}) /\ moved' = {}
    /\ at' = "save"
    /\ UNCHANGED <<client, chain, stale, db, cache, from, target, page, due, waiting, ether, faults>>

\* countBlocks, at last: a block that was read may have lost to another since.
AdaptTransactions ==
    /\ reading
    /\ queue' = {Adapt(d) : d \in queue}
    /\ stale' = stale \cup {t \in moved : \E d \in queue' :
                                d.uid[1] = t /\ d.status = "confirmed" /\ d.block # minedIn[t]}
    /\ reading' = FALSE /\ moved' = {}
    /\ UNCHANGED <<client, chain, db, cache, at, from, target, page, due, waiting, ether, faults>>

\* Deposits.create puts 1 for confirmations that are no number; an update has
\* jsonSchema look at them.
Accepted(d) ==
    /\ d.block # Null
    /\ row[d.uid] # None => d.confirmations # NaN

\* isInterestingTransaction: the address is nobody's.
NotInteresting(d) ==
    /\ due = None /\ ~reading
    /\ d.block # Null
    /\ d.address \notin Wallets
    /\ queue' = queue \ {d}
    /\ UNCHANGED <<client, chain, late, db, cache, at, from, target, page, due, waiting, ether, faults>>

\* Mutant: the update writes the flag too.
SaveDepositAnew(d) ==
    LET old == row[d.uid]
        done == FALSE
    IN  /\ due = None /\ ~reading
        /\ d.address \in Wallets
        /\ Accepted(d)
        /\ row' = [row EXCEPT ![d.uid] =
               [address |-> d.address, amount |-> d.amount, status |-> d.status,
                block |-> IF d.block = 0 /\ old # None THEN old.block ELSE d.block,
                loaded |-> done]]
        /\ due' = IF d.status = "confirmed" /\ ~done THEN d.uid ELSE None
        /\ queue' = queue \ {d}
        /\ UNCHANGED <<client, chain, late, available, credited, cache, at, from, target, page,
                       waiting, ether, faults>>

\* createOrUpdateByUid writes every column the client gave, but the flag.
SaveDeposit(d) ==
    LET old == row[d.uid]
        done == old # None /\ old.loaded
    IN  /\ due = None /\ ~reading
        /\ d.address \in Wallets
        /\ Accepted(d)
        /\ row' = [row EXCEPT ![d.uid] =
               [address |-> d.address, amount |-> d.amount, status |-> d.status,
                block |-> IF d.block = 0 /\ old # None THEN old.block ELSE d.block,
                loaded |-> done]]
        /\ due' = IF d.status = "confirmed" /\ ~done THEN d.uid ELSE None
        /\ queue' = queue \ {d}
        /\ UNCHANGED <<client, chain, late, available, credited, cache, at, from, target, page,
                       waiting, ether, faults>>

\* The client has thrown, or the table has.
SaveFails(d) ==
    /\ due = None /\ ~reading
    /\ d.block = Null \/ (d.address \in Wallets /\ ~Accepted(d))
    /\ Restart
    /\ UNCHANGED <<ether, faults>>

CacheAdd ==
    /\ at = "store" \/ (at = "save" /\ queue = {} /\ due = None)
    /\ cursor' = target
    /\ at' = "count" /\ from' = 0 /\ target' = 0
    /\ UNCHANGED <<client, chain, late, db, since, page, queue, due, waiting, ether, faults>>
-----------------------------------------------------------------------------
(* loadWalletDeposit: changeBalance, setAmountLoaded and moveBalanceToBank in *)
(* one transaction.                                                           *)

\* insufficientEthForTransaction
NeedsGas(w) == client = "erc20" /\ gas[w] = 0

\* Mutant: the sweep does not wait for the top-up, and the node refuses it.
TopUpNotAwaited ==
    LET w == row[due].address
    IN  /\ due # None /\ ~waiting
        /\ NeedsGas(w)
        /\ sent' = [sent EXCEPT ![w] = @ + 1]
        /\ topUps' = topUps + 1
        /\ Restart
        /\ UNCHANGED <<gas, faults>>

\* A token sweep costs ETH, and the address has none: the bank sends some ...
TopUp ==
    LET w == row[due].address
    IN  /\ due # None /\ ~waiting
        /\ NeedsGas(w)
        /\ sent' = [sent EXCEPT ![w] = @ + 1]
        /\ topUps' = topUps + 1
        /\ waiting' = TRUE
        /\ UNCHANGED <<client, chain, late, db, cache, at, from, target, page, queue, due, gas, faults>>

\* ... and the poller waits for it, two minutes at most: then the node
\* refuses the sweep.
GiveUpWaiting ==
    /\ waiting /\ NeedsGas(row[due].address)
    /\ faults < MaxFaults
    /\ faults' = faults + 1
    /\ Restart
    /\ UNCHANGED ether

\* sendTokens returns with the transaction's hash; its gas is the address's.
SendTokens(w) == [gas EXCEPT ![w] = @ - 1]

Load ==
    LET d == row[due]
    IN  /\ due # None /\ TRUE \in Sweeps /\ ~NeedsGas(d.address)
        /\ available' = [available EXCEPT ![d.address] = @ + d.amount]
        /\ credited' = [credited EXCEPT ![due[1]] = @ + d.amount]
        /\ row' = [row EXCEPT ![due] = [d EXCEPT !.loaded = TRUE]]
        /\ gas' = IF client = "erc20" THEN SendTokens(d.address) ELSE gas
        /\ due' = None /\ waiting' = FALSE
        /\ UNCHANGED <<client, chain, late, cache, at, from, target, page, queue, sent, topUps, faults>>

\* The client cannot make a key of the row: the credit is rolled back.
SweepThrows ==
    /\ due # None /\ FALSE \in Sweeps
    /\ Restart
    /\ UNCHANGED <<ether, faults>>

Crash ==
    /\ faults < MaxFaults
    /\ faults' = faults + 1
    /\ Restart
    /\ UNCHANGED ether
-----------------------------------------------------------------------------
Poll ==
    \/ Count \/ CountNaN \/ ReadCursor \/ PendingDone
    \/ \E S \in SUBSET Saved : ListPending(S)
    \/ \E u \in page : FindTransaction(u)
    \/ ListTransactionsSinceBlock \/ AdaptTransactions
    \/ \E d \in queue : NotInteresting(d) \/ SaveDeposit(d) \/ SaveFails(d)
    \/ CacheAdd \/ TopUp \/ Load \/ SweepThrows

Next ==
    \/ \E S \in SUBSET Txs : Mine(S)
    \/ \E d \in 1 .. MaxReorg : Reorg(d)
    \/ \E w \in Wallets : MineTopUp(w)
    \/ Poll \/ GiveUpWaiting \/ Crash

Spec == Init /\ [][Next]_vars

\* The poller loops, systemd restarts it, and a transaction the bank has sent
\* is mined.  Nothing else is assumed of the chain.
FairSpec == Spec /\ WF_vars(Poll) /\ \A w \in Wallets : WF_vars(MineTopUp(w))
-----------------------------------------------------------------------------
(* Properties *)

\* What of t is for wallet w: its payments, and for a client that looks at the
\* form only its claims too.
Brings(t, w) ==
    {i \in DOMAIN outs[t] :
        outs[t][i].to = w /\ (outs[t][i].kind = "coin"
                              \/ (outs[t][i].kind = "claim" /\ client \in Credulous))}

\* No client lets a transaction bring the wallets more than what it shows of the
\* transaction is for them, once, although a uid may name a whole transaction,
\* one block of it, or one of its outputs, and a fork may mine the transaction
\* again.  What the clients of Credulous show need not have been paid: their
\* wallets are credited with units nobody sent.
CreditedOnce == \A t \in Txs : credited[t] <= Cardinality(UNION {Brings(t, w) : w \in Wallets})

\* What was credited is mined and deep enough for no fork the vault waits for to
\* take it back, however a client compares its confirmations.  The exception is
\* the code's: between the call that reads a block and the one that asks for the
\* height a fork may drop the block, and the chain may grow until what was read
\* counts as confirmed.
CreditedIsSettled ==
    \A t \in Txs : credited[t] > 0 =>
        \/ t \in stale
        \/ /\ minedIn[t] # 0
           /\ client \in Final \/ Confirmations(minedIn[t]) + 1 >= MinConfirmations

\* No wallet gets more than what its client shows of the transactions is for its
\* address.  Bitcoin's client is the exception: its uid and its second look know
\* only the whole transaction.
CreditedToPayee ==
    client # "btc" =>
        \A w \in Wallets :
            available[w] <= Cardinality({p \in Txs \X (1 .. MaxHeight) : p[2] \in Brings(p[1], w)})

\* The payments on Horizon's pages of the ledger of t.
InLedger(t) == {p \in UNION {{s} \X Claims(s) : s \in Txs} : minedIn[p[1]] = minedIn[t]}

\* The poller does not pass a payment of one output without a row, whichever
\* way the client cuts the chain.  Some payments are passed for good: Tron's that
\* are not alone in their block, NEM's to a recipient with more transfers than
\* the node shows, and Stellar's of a ledger with more payments than a page.
NoPaymentSkipped ==
    \A t \in Txs :
        /\ t \notin forked
        /\ Len(outs[t]) = 1 /\ outs[t][1].kind = "coin" /\ outs[t][1].to \in Wallets
        /\ minedIn[t] \in since + 1 .. cursor
        /\ client = "trx" => forked = {} /\ \A s \in Txs \ {t} : minedIn[s] # minedIn[t]
        /\ client = "xem" => Cardinality({s \in Txs : outs[s][1].to = outs[t][1].to}) <= IncomingPage
        /\ client = "xlm" => Cardinality(InLedger(t)) <= PaymentsPage
        => \E u \in Saved : u[1] = t

\* The ETH the bank spends to sweep tokens: one top-up for a deposit, and one
\* more for every time the poller failed.
TopUpsBounded == topUps <= Cardinality(Loaded) + 1 + faults

\* A payment of one output, mined after the cursor's start and confirmed for
\* every client, that no fork has moved.
DueTransaction(t) ==
    /\ Len(outs[t]) = 1 /\ outs[t][1].kind = "coin" /\ outs[t][1].to \in Wallets
    /\ cursor > 0 /\ minedIn[t] > since
    /\ Confirmations(minedIn[t]) > MinConfirmations
    /\ t \notin forked

\* A row whose transaction a fork has returned to the mempool ends the polls of
\* some clients until it is mined again.
Orphan == \E u \in Saved : minedIn[u[1]] = 0

NoneDue == \A t \in Txs : DueTransaction(t) => credited[t] > 0 \/ Orphan

\* The clients that sweep without a private key load every such payment: what
\* is due stays due, so that again and again none is due only if each is loaded.
\* Not Ripple's, which ends for good when it lists a deposit twice, nor Neo's;
\* nor Monero's and Electroneum's, which end at every range of blocks that does
\* not pay every address; nor Ethereum's, whose second sweep of an address may
\* find too little for its fee (CryptoDeposits follows the coins).
EveryDepositLoaded == []<>(client \in {"btc", "erc20", "eos"} => NoneDue)

\* What the tests of pollCryptoDaemon.js call "loads pending wallet deposits",
\* of the clients whose moveBalanceToBank takes a private key.
KeyedClientsLoad == []<>(client \in {"xlm", "xdac", "xem", "trx"} => NoneDue)
=============================================================================
