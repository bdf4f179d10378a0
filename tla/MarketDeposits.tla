--------------------------- MODULE MarketDeposits ---------------------------
(***************************************************************************)
(* Market deposits: the process PROCESS_NAME=market follows the Ethereum   *)
(* chain with the market's client, keeps MarketTransactions, credits       *)
(* MarketAccounts and tells the market of every credit through an SQS FIFO *)
(* queue.  Each transaction pays one unit to a market account.             *)
(*                                                                         *)
(* It differs from pollCryptoDaemon (CryptoDeposits): the pending rows     *)
(* come first, all of them and even when no block is new; no batches; no   *)
(* txBlock column; and a message that is sent before the commit.           *)
(***************************************************************************)
EXTENDS Integers, Sequences, FiniteSets

CONSTANTS Txs,               \* transactions that pay a market account
          Accounts,          \* market accounts
          None,
          MinConfirmations,  \* minConfirmations of marketEth
          MaxHeight,         \* bound on the chain
          MaxReorg,          \* deepest fork of the chain, in blocks
          MaxCrashes         \* bound on the crashes of the process

ASSUME MarketAssumption ==
    /\ IsFiniteSet(Txs)
    /\ None \notin Txs
    /\ MinConfirmations \in Nat \ {0}
    /\ MaxHeight \in Nat \ {0}
    /\ MaxReorg \in 0 .. MinConfirmations
    /\ MaxCrashes \in Nat

VARIABLES height, to, minedIn,    \* the chain: blocks, payee and block of each transaction
          orphaned,               \* history: transactions a fork took out of their block
          row, loaded,            \* MarketTransactions: status, amountWasLoaded
          balance,                \* MarketAccounts
          messages,               \* the queue: transaction and balance told
          cursor, since,          \* Cache: last processed block; history: its first value
          at, from, target,       \* the process: place in its loop and blockDiff
          page, found,            \* rows to look up; status of what was found and is not written
          open, phase,            \* the transaction of updateDeposit, how far it is
          crashes                 \* history: crashes so far

chain  == <<height, to, minedIn, orphaned>>
db     == <<row, loaded, balance>>
cache  == <<cursor, since>>
loop   == <<at, from, target, page, found>>
update == <<open, phase>>
vars   == <<height, to, minedIn, orphaned, row, loaded, balance, messages, cursor, since,
            at, from, target, page, found, open, phase, crashes>>

Blocks == 0 .. MaxHeight
Statuses == {"none", "pending", "confirmed"}

TypeOK ==
    /\ height \in Blocks
    /\ to \in [Txs -> Accounts]
    /\ minedIn \in [Txs -> 0 .. height]
    /\ orphaned \subseteq Txs
    /\ row \in [Txs -> Statuses]
    /\ loaded \in [Txs -> BOOLEAN]
    /\ balance \in [Accounts -> Nat]
    /\ messages \in Seq([tx : Txs, balance : Nat])
    /\ cursor \in Blocks
    /\ since \in Blocks
    /\ at \in {"pending", "refresh", "cursor", "list", "save"}
    /\ from \in Blocks
    /\ target \in Blocks
    /\ page \in SUBSET Txs
    /\ found \in [Txs -> Statuses]
    /\ open \in Txs \cup {None}
    /\ phase \in {"no", "locked", "credited", "sent"}
    /\ phase # "no" => open \in Txs
    /\ crashes \in 0 .. MaxCrashes

NothingFound == [t \in Txs |-> "none"]

Init ==
    /\ height = 1
    /\ to \in [Txs -> Accounts]
    /\ minedIn = [t \in Txs |-> 0]
    /\ orphaned = {}
    /\ row = [t \in Txs |-> "none"]
    /\ loaded = [t \in Txs |-> FALSE]
    /\ balance = [a \in Accounts |-> 0]
    /\ messages = <<>>
    /\ cursor = 0 /\ since = height
    /\ at = "pending" /\ from = 0 /\ target = 0
    /\ page = {} /\ found = NothingFound
    /\ open = None /\ phase = "no"
    /\ crashes = 0
-----------------------------------------------------------------------------
(* Helpers *)

\* Mutant: the block a transaction is mined in counts as a confirmation.
StatusEarly(t) == IF height - minedIn[t] + 1 >= MinConfirmations THEN "confirmed" ELSE "pending"

\* EthereumClient compares with >=, and takes the block null of a transaction
\* in the mempool for a 0.
StatusOf(t) == IF height - minedIn[t] >= MinConfirmations THEN "confirmed" ELSE "pending"

\* The process ends, systemd starts it; what it had not committed is undone.
Restart ==
    /\ at' = "pending" /\ from' = 0 /\ target' = 0
    /\ page' = {} /\ found' = NothingFound
    /\ open' = None /\ phase' = "no"
    /\ UNCHANGED <<chain, db, messages, cache>>
-----------------------------------------------------------------------------
(* The chain *)

Mine(S) ==
    /\ height < MaxHeight
    /\ \A t \in S : minedIn[t] = 0
    /\ height' = height + 1
    /\ minedIn' = [t \in Txs |-> IF t \in S THEN height + 1 ELSE minedIn[t]]
    /\ UNCHANGED <<to, orphaned, db, messages, cache, loop, update, crashes>>

\* The last d blocks lose to others of the chain.
Reorg(d) ==
    LET fork == height - d + 1 .. height
    IN  /\ d <= height
        /\ minedIn' \in [Txs -> 0 .. height]
        /\ \A t \in Txs : IF minedIn[t] \in fork
                          THEN minedIn'[t] \in fork \cup {0}
                          ELSE minedIn'[t] = minedIn[t]
        /\ orphaned' = orphaned \cup {t \in Txs : minedIn'[t] # minedIn[t]}
        /\ UNCHANGED <<height, to, db, messages, cache, loop, update, crashes>>
-----------------------------------------------------------------------------
(* syncPendingDeposits *)

\* findAll has no limit.
ListPending ==
    /\ at = "pending"
    /\ page' = {t \in Txs : row[t] # "none" /\ ~loaded[t]}
    /\ at' = "refresh"
    /\ UNCHANGED <<chain, db, messages, cache, from, target, found, update, crashes>>

\* findTransaction finds it, in a block or in the mempool.
FindTransaction(t) ==
    /\ at = "refresh" /\ found = NothingFound
    /\ t \in page
    /\ page' = page \ {t}
    /\ found' = [NothingFound EXCEPT ![t] = StatusOf(t)]
    /\ UNCHANGED <<chain, db, messages, cache, at, from, target, update, crashes>>

\* It finds nothing: updateDeposit reads txHash of null, and the process ends.
FindNothing(t) ==
    /\ at = "refresh" /\ found = NothingFound
    /\ t \in page
    /\ minedIn[t] = 0
    /\ Restart
    /\ UNCHANGED crashes
-----------------------------------------------------------------------------
(* syncDaemon *)

CountBlocks ==
    /\ at = "refresh" /\ found = NothingFound /\ page = {}
    /\ target' = height
    /\ at' = "cursor"
    /\ UNCHANGED <<chain, db, messages, cache, from, page, found, update, crashes>>

\* Mutant: the block after the last processed one is kept.
ReadCursorPlusOne ==
    LET last == IF cursor = 0 THEN target ELSE cursor + 1
    IN  /\ at = "cursor"
        /\ from' = last
        /\ since' = IF cursor = 0 THEN target ELSE since
        /\ at' = IF last = target THEN "save" ELSE "list"
        /\ UNCHANGED <<chain, db, messages, cursor, target, page, found, update, crashes>>

ReadCursor ==
    LET last == IF cursor = 0 THEN target ELSE cursor
    IN  /\ at = "cursor"
        /\ from' = last
        /\ since' = IF cursor = 0 THEN target ELSE since
        /\ at' = IF last = target THEN "save" ELSE "list"
        /\ UNCHANGED <<chain, db, messages, cursor, target, page, found, update, crashes>>

\* Mutant: the loop starts at the block after the next one.
ListSkipsOneBlock ==
    /\ at = "list"
    /\ found' = [t \in Txs |-> IF minedIn[t] > from + 1 THEN StatusOf(t) ELSE "none"]
    /\ at' = "save"
    /\ UNCHANGED <<chain, db, messages, cache, from, target, page, update, crashes>>

\* maxProcessBlock is not given: everything up to the end of the chain.
SyncLastDeposits ==
    /\ at = "list"
    /\ found' = [t \in Txs |-> IF minedIn[t] > from THEN StatusOf(t) ELSE "none"]
    /\ at' = "save"
    /\ UNCHANGED <<chain, db, messages, cache, from, target, page, update, crashes>>

CacheAdd ==
    /\ at = "save" /\ found = NothingFound
    /\ cursor' = target
    /\ at' = "pending"
    /\ UNCHANGED <<chain, db, messages, since, from, target, page, found, update, crashes>>
-----------------------------------------------------------------------------
(* updateDeposit *)

\* The transaction starts; findByTxHash FOR UPDATE, then create or update.
CreateOrUpdate(t) ==
    /\ phase = "no" /\ found[t] # "none"
    /\ open' = t
    /\ phase' = "locked"
    /\ UNCHANGED <<chain, db, messages, cache, loop, crashes>>

\* Nothing to load: the row is written and the transaction commits.
SaveOnly ==
    /\ phase = "locked"
    /\ loaded[open] \/ found[open] # "confirmed"
    /\ row' = [row EXCEPT ![open] = found[open]]
    /\ found' = [found EXCEPT ![open] = "none"]
    /\ open' = None /\ phase' = "no"
    /\ UNCHANGED <<chain, loaded, balance, messages, cache, at, from, target, page, crashes>>

\* Mutant: shouldLoadWalletDeposit and setAmountLoaded do not see the flag.
CreditAgain ==
    /\ phase = "locked"
    /\ found[open] = "confirmed"
    /\ phase' = "credited"
    /\ UNCHANGED <<chain, db, messages, cache, loop, open, crashes>>

\* shouldLoadWalletDeposit, changeBalance and setAmountLoaded, in the transaction.
Credit ==
    /\ phase = "locked"
    /\ ~loaded[open] /\ found[open] = "confirmed"
    /\ phase' = "credited"
    /\ UNCHANGED <<chain, db, messages, cache, loop, open, crashes>>

\* Mutant: the account is read outside the transaction.
AddMessageUncommitted ==
    /\ phase = "credited"
    /\ messages' = Append(messages, [tx |-> open, balance |-> balance[to[open]]])
    /\ phase' = "sent"
    /\ UNCHANGED <<chain, db, cache, loop, open, crashes>>

\* addQueueMessage: the account is read in the transaction.
AddQueueMessage ==
    /\ phase = "credited"
    /\ messages' = Append(messages, [tx |-> open, balance |-> balance[to[open]] + 1])
    /\ phase' = "sent"
    /\ UNCHANGED <<chain, db, cache, loop, open, crashes>>

\* Mutant: addQueueMessage is not awaited.
CommitUnawaited ==
    /\ phase \in {"credited", "sent"}
    /\ balance' = [balance EXCEPT ![to[open]] = @ + 1]
    /\ loaded' = [loaded EXCEPT ![open] = TRUE]
    /\ row' = [row EXCEPT ![open] = "confirmed"]
    /\ found' = [found EXCEPT ![open] = "none"]
    /\ open' = None /\ phase' = "no"
    /\ UNCHANGED <<chain, messages, cache, at, from, target, page, crashes>>

Commit ==
    /\ phase = "sent"
    /\ balance' = [balance EXCEPT ![to[open]] = @ + 1]
    /\ loaded' = [loaded EXCEPT ![open] = TRUE]
    /\ row' = [row EXCEPT ![open] = "confirmed"]
    /\ found' = [found EXCEPT ![open] = "none"]
    /\ open' = None /\ phase' = "no"
    /\ UNCHANGED <<chain, messages, cache, at, from, target, page, crashes>>

\* MySQL, SQS, DynamoDB, the node or the process fails.
Crash ==
    /\ crashes < MaxCrashes
    /\ crashes' = crashes + 1
    /\ Restart
-----------------------------------------------------------------------------
Poll ==
    \/ ListPending \/ CountBlocks \/ ReadCursor \/ SyncLastDeposits \/ CacheAdd
    \/ \E t \in Txs : FindTransaction(t) \/ FindNothing(t) \/ CreateOrUpdate(t)
    \/ SaveOnly \/ Credit \/ AddQueueMessage \/ Commit

Next ==
    \/ \E S \in SUBSET Txs : Mine(S)
    \/ \E d \in 1 .. MaxReorg : Reorg(d)
    \/ Poll
    \/ Crash

Spec == Init /\ [][Next]_vars

\* The process loops and systemd restarts it; nothing is assumed of the chain.
FairSpec == Spec /\ WF_vars(Poll)
-----------------------------------------------------------------------------
(* Properties *)

\* An account has what its loaded transactions brought it, whichever update
\* crashed half way or was repeated.
BalanceIsLoaded ==
    \A a \in Accounts : balance[a] = Cardinality({t \in Txs : loaded[t] /\ to[t] = a})

\* No credit is kept from the market: the message leaves before the commit.
CreditNotified ==
    \A t \in Txs : loaded[t] => \E i \in DOMAIN messages : messages[i].tx = t

\* The market reads the balances of an account in the order the account has
\* them, and never less than it has: a message that comes before a crash, and
\* so before its credit, is repeated with the same balance or a later one.
BalancesInOrder ==
    /\ \A i, j \in DOMAIN messages :
           i < j /\ to[messages[i].tx] = to[messages[j].tx]
               => messages[i].balance <= messages[j].balance
    /\ \A a \in Accounts : balance[a] > 0 =>
           \E i \in DOMAIN messages :
               to[messages[i].tx] = a /\ messages[i].balance >= balance[a]

\* A transaction is told again only after a crash.
RepeatedAfterCrash ==
    Len(messages) <= Cardinality({messages[i].tx : i \in DOMAIN messages}) + crashes

\* What is loaded is deep in the chain, unless a fork took the transaction out
\* of its block: a row that waits for a transaction back in the mempool reads
\* its block null, and the height of the chain for its confirmations.
LoadedIsSettled ==
    \A t \in Txs \ orphaned :
        loaded[t] => minedIn[t] # 0 /\ height - minedIn[t] >= MinConfirmations

\* A transaction mined after the first poll and confirmed is credited in the
\* end, and so is one the market was told of, if no fork moved it, unless the
\* node has lost a transaction that has a row: the poll never gets past it.
EveryDepositLoaded ==
    \A t \in Txs :
        (/\ t \notin orphaned
         /\ \/ cursor > 0 /\ minedIn[t] > since /\ height - minedIn[t] >= MinConfirmations
            \/ \E i \in DOMAIN messages : messages[i].tx = t)
            ~> (loaded[t] \/ t \in orphaned \/ \E u \in Txs : row[u] # "none" /\ minedIn[u] = 0)
=============================================================================
