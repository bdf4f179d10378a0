# TLA+ verification of the vault

The vault keeps users' crypto balances for an exchange: an HTTP API moves
balances and pays withdrawals out, pollers follow the block chains and credit
deposits, a message-bus worker settles what the exchange core matched. Money is
lost or made where these meet: on rows several processes write, between two
`await`s, and between a broadcast, a queue or an exchange and a MySQL commit.
That is what the modules here model, check with TLC and, for every value of the
constants, prove with TLAPS.

Paths below are relative to `src/src/` unless they start with `src/`.

## 1. The system

Each process is `src/index.js` with a `PROCESS_NAME`; an exception that leaves a
worker's loop ends the process (`process.exit(1)`), and systemd starts it again
(`src/scripts/deploy/*.service`, `Restart=on-failure`).

| component | state it keeps | operations | what is hard | what makes it correct |
|---|---|---|---|---|
| Payment handlers (`handlers/payments/`) | rows of `Payments`, `Wallets`; the coins it broadcasts | `addPayment`, `pay`, `cancelPayment` | concurrent requests; a broadcast cannot be rolled back; transactions leaked by the outer `catch` | money conserved, locked balance = pending payments + holds, a payment is paid or refunded once |
| Balance handlers (`handlers/wallets/changeBalance.js`, `changeBulkWalletBalance.js`) | `Wallets` | `lockBalance`, `unlockBalance`, bulk credit | the check reads outside the transaction (`store/Wallets.js:138`) | no negative balance |
| Wallet creation (`createWallet.js`, `createWalletWithBalance.js`, `store/Addresses.js`) | `Wallets`, `Addresses` | find or create, count and add an address | check-then-act; `(userUid, currency)` is not unique in SQL; snapshots and gap locks | one address per user, on the wallet everything else uses; no credit lost |
| Crypto daemon poller (`workers/pollCryptoDaemon.js`) | `Deposits`, `Wallets`, the cursor in the DynamoDB `Cache` | `syncDaemon`, `syncPendingDeposits`, `syncLastDeposits`, `loadWalletDeposit`, `checkBankLevels` | crashes at every step, forks, batches, two processes at a time, the sweep inside the transaction | every deposit credited once, when confirmed; no block skipped |
| Chain clients (`lib/cryptoClients/`) | none of their own | list, find, send, sweep | they differ in the meaning of "confirmed", block ranges, deposit ids, and what they do with a fork | as above, for each client |
| Message bus worker (`workers/pollMessageBus.js`, `lib/CCEEngine.js`) | `Wallets` | apply the `walletUpdates` of a message | redelivery, delete before commit, head-of-line blocking | in order, once, all or nothing |
| Binance withdrawals (`workers/pollBinanceWithdrawals.js`, a branch of `addPayment.js`) | `Payments`, `Wallets` | ask the exchange, poll its answers | status read before the transaction; provider setting changes, and is cached | each payment settled once and by one side |
| Market poller (`workers/pollMarketTransactions.js`) | `MarketTransactions`, `MarketAccounts` | credit market accounts and notify a queue | notification before commit | balance and notification agree |
| Settings (`store/CryptoClientSettings.js`, `CurrencySettings.js`) | DynamoDB tables, cached and memoised copies | `addCurrency`, `getClient` | stale copies, a memoised rejection | a stale copy moves no money twice |
| Read handlers, jobs, wiring | none | | | no state changes, or run once by hand |

The components interact through the database and not by calls: the API, the
pollers and the bus worker all write the balance columns of the same `Wallets`
rows, each in its own MySQL (InnoDB) transaction. `FOR UPDATE` reads
(`opts.forUpdate`) take row locks; `changeBalance` writes increments. Where the
commit of another component can change what a module's own steps do, it is there
as an action of the environment: `Credit` and `Settle` (pollers, bus worker) in
`Withdrawals`, `OtherChange` in `MessageBus`, `LoadDeposit` in `Accounts`,
`LockBalance` and `UnlockBalance` (the engine) in `BinanceWithdrawals`. The
others are left out: a credit from elsewhere only adds to a balance that
`BinanceWithdrawals` has as `Funds`; `CryptoDeposits` and `ClientPoller` add to
`availableBalance` without reading it, so nobody else's write can make their steps
fail, and their `available` is what they have added; the tables of
`MarketDeposits` have no other writer.

`PROJECT.json` lists the hazards, each at its line, with the properties that
would show it going wrong.

## 2. Modules

| module | what it is |
|---|---|
| `Withdrawals` | payment and balance handlers over wallet and payment rows with row locks |
| `PaymentLedger` | what they promise: atomic reserve, send, confirm, refund |
| `WithdrawalsProofs`, `WithdrawalsBooks` | theorems about `Withdrawals`, with the refinement of `PaymentLedger`; the second, about its sums |
| `CryptoDeposits` | pollers of one currency, step by step: chain, cursor, deposit rows, coins |
| `DepositLedger` | what they promise: a settled deposit is credited once, atomically |
| `DepositsProofs` | theorems about `CryptoDeposits`, with the refinement and the cursor |
| `ChainClients` | what each chain client answers: ids, lists, look-ups, confirmation rules |
| `ClientPoller`, `ClientPollerProofs` | the composition of a poller with any of those clients, and theorems about it |
| `MessageBus`, `MessageBusProofs` | the bus worker and theorems about it |
| `BinanceWithdrawals`, `BinanceProofs` | withdrawals through Binance and theorems about them |
| `MarketDeposits`, `MarketProofs` | the market poller and theorems about it |
| `Accounts`, `AccountsProofs` | wallets and addresses that concurrent requests create, and theorems about them |
| `MC*` | instances for TLC, with their `.cfg` files |

An operator whose comment begins with "Mutant" is a plausible bug of the
definition that follows it. It is not part of the specification; `PROJECT.json`
names the property that catches it.

### Withdrawals

`available`, `locked` are the committed columns of `Wallets`; `status`, `owner`,
`amount` those of `Payments`; `walletLock`, `paymentLock` say whose transaction
holds each row. `step[r]` is the `await` request `r` stands at, `onWallet`,
`onPayment`, `asked` its arguments. A handler's writes stay in its transaction
until its commit step (`AddCommit`, `PayCommit`, `CancelCommit`) publishes them;
nobody else can see or change a locked row, so that is what MySQL does. `sends`
counts broadcasts, and is not undone by a rollback: that is the point of the
module. `lost`, `credited` and `held` are histories.

* `changeBalance` with a negative amount is `Covers` twice over: the unlocked read
  of `store/Wallets.js:138`, and the UNSIGNED column. For `lockBalance`, which
  holds no lock before, the two are separate steps (`LockCheck`, `LockCommit`).
* `PaySend`, `PaySendUnrecorded`, `PaySendRejected` are the three endings of
  `sendToAddress` and the `Payments.update` after it.
* A handler that leaves through the outer `catch` is "leaked": its locks stay.
* A request whose wallet or payment does not exist is rolled back like any other
  refusal; the wallet-not-found answers need a wallet row to be deleted, which
  the code never does. `updateBalanceInfo`, which writes debugging columns after
  the commit, is left out, and so are gap locks (`Accounts` has them).

### CryptoDeposits

`height`, `to`, `minedIn`, `forked` are the chain. `at[p]` is the place of poller
`p` in `syncDaemon`, `load[p]` its place in `loadWalletDeposit`, `cur[p]` the
deposit it is saving. `chain`, `from`, `target` are the `blockDiff` and
`maxProcessBlock` it computed, which stay as they were while the chain grows.
`page` is what is left of the pending rows; `seen` is what the node told it of
each transaction. The client asks for the height in a later call
(`EthereumClient.js:271` and `:283`, `:313` and `CryptoClient.js:23`):
`AdaptTransactions` sets `seenAt`, and the chain may have grown or forked since.
Status and confirmations come from these two, not from the chain of the moment;
`stale` is the history of transactions that were taken for confirmed in a block
they had left by then. The blocks of one list are read in one step, which is exact
where a list is of one block, as in the runs (`MaxBlocks` 1). `row`, `loaded`
and `available` are the tables, `rowLock` the lock of `findByUid`, `cursor` the
cached block (0 is "none", and is read as none by the `||` of line 129) and
`since` the history of its first value. `sweeping`, `swept` follow the coins
`moveBalanceToBank` sends on. `Restart` is every exception: the transaction is
rolled back, the memory is lost. Transactions to foreign addresses are in
`ClientPoller`, not here; rows of a batch are saved in any order.

### ChainClients and ClientPoller

`ChainClients` translates the clients the poller can run: `Uid` is what a client
makes of a transaction (the whole of it for Bitcoin's, one of its outputs, one
block of it), `List` what it lists for a range of blocks, `Find` what it finds
when it looks a row up again, `Confirmations` and its comparison the client's own
rule, `Sweeps` how its `moveBalanceToBank` may end when the poller calls it.
`Null` and `NaN` stand for what a client returns when a transaction has no block or
a field is missing. An output is a "coin", a payment in the currency, a "claim",
which has the form of one and pays nothing in it (a transfer of another contract's
token, a reverted transfer, an issued currency, a mosaic), or a "call", anything
else. The clients in `Credulous` look at the form only and show claims as
deposits. The clients in `Late` read blocks and ask for the height afterwards: what
they have read is a `Reading`, and `Adapt` counts its confirmations at the height
of the later call. Stellar's list takes the first page of a ledger's payments
(`PaymentsPage`), and Monero's and Electroneum's throw at a range in which some
address receives nothing.
An answer is a set of deposits, or one of several where the node may choose: the
poller saves them in any order, `queue` being what is left of them; a list that
shows one deposit twice (EOS's does) saves the same row twice, the second time
to no effect. `Exception` is the answer of a client that throws.
`ClientPoller` has one process with one of these clients, chosen by `Init`; the
rest of its state is that of `CryptoDeposits`, with `row` keyed by uid,
`credited` the history by transaction; `reading` says that the blocks are read and
the height is not, `moved` what a fork has moved meanwhile, `stale` what was
confirmed by `AdaptTransactions` from a block it had left; and for ERC20 the ETH
an address has (`gas`), what the bank has sent it (`sent`) and how often
(`topUps`). The blocks of one list are read in one step here too: a fork between
two of them could hide or repeat only what it moves. `NoPaymentSkipped` leaves out
what a fork has moved, and a repetition is saved to the same row (but for Tron's
and NEM's clients, which load nothing: finding 4).
`loadWalletDeposit` is one step here, or two and a wait where a top-up comes
first: its inside is `CryptoDeposits`' matter, and so is the first start of a
poller that has no cursor.

### MessageBus

One worker and one message group. `body` is what the messages ask for, `exists`
and `deleted` the queue; `inFlight` says that the head was handed out and has not
timed out, which is also when its receipt is good. `pc`, `msg`, `next` are the
worker's place; `draft` and `created` the uncommitted updates. An update that
throws, a refused delete and a crash all end in `Restart`. The bodies are the two
messages `src/InternalApi.apib` documents. `other` is what the rest of the system
put into each column; what an order has locked is left alone by it, except that
up to `MaxShort` may be missing. `applied` and `lost` are histories.

### BinanceWithdrawals

`addPayment` holds the wallet's row lock (`walletHolder`) while it waits for
`binance.withdraw`; after a lost answer (`AddLost`), a crash (`ApiRestart`) or an
exception that ends in the outer `catch` (`AddLeak`) the exchange has a withdrawal
and no payment does. After the last one the holder is `Leaked`, and nobody unlocks
the wallet until the API process ends. `LockBalance` and `UnlockBalance` are the
engine's holds: `held` is their net sum, below zero when `unlockBalance` has given
back what a pending payment had reserved, which the code does not prevent; then
the settlement throws and the poller starts again (the `ELSE` of `Settle`). One
wallet, and no credits from deposits. The poller's
`answer` is what `listWithdrawals` returned, which may be old when it is used;
`Look` is the status read outside the transaction, `Settle` the transaction that
trusts it. The provider is there three times: `provider` is the settings table,
`table` the API process' copy that `findAll` keeps for five minutes, `client` what
the memoised `getClient` made of it, a rejection included; `ApiRestart` forgets
both. `pay` and `cancelPayment` are one step each after their provider check
(`Admit`, then `Handle`); `Withdrawals` has their inside.

### MarketDeposits

The loop of `PROCESS_NAME=market`. It is not `pollCryptoDaemon` again: the pending
rows are looked up first and in every round, there are no batches, and the
message is sent from inside the transaction. `open` and `phase` are the
transaction of `updateDeposit`: row locked, account credited, message sent.
`messages` is the queue with the balance each message tells. A row whose
transaction is back in the mempool is found with the block `null`, which the
client takes for block 0 and so for confirmed: `orphaned` says which transactions
that may have happened to.

### Accounts

One currency and one address per user (`WALLET_ADDRESS_LIMIT`). A wallet row has
an `owner` and, until the commit of the transaction that made it, an `inserter`;
`rows`, `gaps` and `scans` are InnoDB's locks at REPEATABLE READ: rows, gaps of
the user index, the whole of `Addresses` (which has no index on what `countAll`
asks for). `WaitsFor` says whom a statement waits for. `snap` is the snapshot of
the bus worker's transaction, `draft` uncommitted increments. `Deadlock` and
`LockTimeout` end the statement and, in the handler's `catch`, the transaction;
`changeBulkWalletBalance` has its `findByUser` and `create` outside its `try`,
and `LockTimeoutLeaks` leaves its transaction open. `credited` counts what callers
have seen: `createWalletWithBalance` answers with the wallet its second
`findByUser` finds (`Refind`), which shows the balance it brought only if that is
the wallet it created; until then, or for good, that wallet is in `untold`. A bulk
credit, a message or a deposit counts at its commit. `hidden` is the history of
users for whom the API made a wallet while the bus worker had an uncommitted one.

## 3. Runs

| run | question | instance |
|---|---|---|
| `withdrawals_ledger` | do the interleaved handlers implement the atomic ledger, send exactly once, and answer every request, leaked locks or not? | 2 wallets, 2 payments, 2 requests, no broadcast lost; 143 668 states |
| `withdrawals_faults` | do the books balance under every failure? | 3 requests on 1 wallet, all faults |
| `withdrawals_double` | can a payment be broadcast twice? (**violated**: finding 1) | 2 requests |
| `deposits_ledger` | two pollers, a fork, a crash: is each deposit credited once, confirmed and atomically, and no block skipped? | 2 deposits to 1 wallet; 1 036 330 states |
| `deposits_stuck` | is every deposit credited where the client sweeps? (**violated**: finding 2) | chain of 4, no crash |
| `clients` | the same questions of the poller with each client, its ids, ranges and rules | 12 clients, 2 transactions of up to 5 outputs; 829 484 states |
| `clients_keys` | do the clients whose sweep takes a private key load a deposit? (**violated**: finding 4) | 4 clients, 1 payment |
| `bus` | are messages applied in order, once, whole, and in the end? | 2 messages, 4 wallets; 173 992 states |
| `bus_lost` | is every message applied? (**violated**: finding 3) | 1 failure |
| `binance` | is each payment settled once, by one side, as the exchange settled it? | 2 payments and a hold, balance of 2, 3 failures; 60 776 states |
| `market` | do balance, row and message agree, and is every deposit loaded? | 2 transactions, 2 accounts; 612 900 states |
| `accounts` | do the find-then-create races keep one address and every credit that was shown? | 2 users, 3 requests; 152 827 states |

Why the bounds are enough. Two requests on one row are what every lock race
needs; the third in `withdrawals_faults` and `accounts` lets two of them race
over the lock a third has leaked, or over the gap two others have locked. Amounts
1 and 2 with a fee of 1 or 2 give a final amount that is positive, zero and
negative. Two broadcasts are the second one that must not happen. Two deposits to
one address are what the sweep, the row lock and the page limit (1 in
`deposits_ledger`) need; a sweep fee of 2 there makes one deposit too small to
sweep and two enough; the chain is long enough for a batch boundary, a
confirmation and a fork of `MaxReorg` blocks, which is at most the confirmations
required (`MaxForked` 1: no second fork after one that has moved a deposit). In
`clients` a transaction with outputs to one wallet twice, to two wallets, to a
stranger and one that is a claim is what tells the uids apart (for the clients
whose transactions may have several outputs; the others pay one), two
transactions in one block what tells Tron's and NEM's lists apart;
`IncomingPage` 1 makes NEM's page too short and `PaymentsPage` 3 Stellar's; a
claim and a call alone in their transactions are what a client that looks at the
form takes for a payment or leaves. In `binance` the balance covers two of what
two payments and a hold of one unit ask for, and the hold given back once too
often (`MaxHeld` 1) is what makes a settlement of one unit throw. Two messages
make an order. The failures a run may have are counted by `MaxCrashes`,
`MaxFailures` and `MaxFaults`, one to three being each failure followed by a
recovery. `Symmetry` is used only where no
liveness is checked. Deadlock is checked except in five instances: in
`withdrawals_ledger` and `accounts` requests may end up answered, leaked or
waiting for good, in the two `clients` runs and in `market` the chain is
finite and a poller may restart for good without a change of state.

### Fairness

* `Withdrawals`: strong fairness of each handler's next step. Node runs what is
  ready and InnoDB grants a lock in the order of the requests; a lock wait ends
  with `innodb_lock_wait_timeout` (weak fairness of `LockTimeout`). Requests need
  not arrive.
* `CryptoDeposits`, `MarketDeposits`, `ClientPoller`: weak fairness of each
  poller, which is a `while (true)` that systemd restarts. The chain may stop;
  only an ETH transfer of the bank is assumed to be mined. Crashes are bounded by
  a constant: a poller that crashes for ever does nothing for ever.
* `MessageBus`: weak fairness of the worker and of the visibility timeout of a
  message nobody is working on. Processing that takes longer than the timeout is
  one of the bounded failures.
* `BinanceWithdrawals`: weak fairness of the poller and of an `addPayment` under
  way, strong fairness of the settlement, which waits for a row lock that InnoDB
  grants in order. Binance may never answer.
* `Accounts`: none; it has safety properties only.

### What the runs show beyond the findings

Some properties are as strong as the code allows and say where it stops.

* `AddressOnShownWallet` excepts users in `hidden`: when the bus worker's
  uncommitted wallet precedes the API's, the address goes to the API's wallet and
  everything else uses the worker's.
* `LoadedIsSettled` of `CryptoDeposits`, `CreditedIsSettled` and the ledger's
  `Credit` except `stale`: a fork between the call that reads a block and the one
  that asks for the height can make a dropped deposit look confirmed, and the code
  credits it.
* `CreditedOnce` and `CreditedToPayee` bound a credit by what the client shows of a
  transaction. For the clients in `Credulous` that includes claims: EOS and xDac
  look at neither contract nor symbol, ERC20 not at the receipt, NEM not at the
  mosaic, Ripple not at the currency, so units nobody paid are credited.
* `CreditedToPayee` excepts Bitcoin's client: its uid names the transaction and
  not the output, so two outputs to two users share one row.
* `NoPaymentSkipped` says when Tron's, NEM's and Stellar's lists are complete; what
  they leave out is passed for good.
* `EveryDepositLoaded` of `ClientPoller` is about Bitcoin's, ERC20's and EOS's
  clients. The others end the poller: Monero's and Electroneum's at a range in
  which an address receives nothing, Ripple's at a deposit it lists again, Neo's at
  its first height, those of finding 4 at a sweep, Ethereum's at a second sweep of
  an address (finding 2).
* `LoadedIsSettled` of `MarketDeposits` excepts transactions a fork returned to
  the mempool, `EveryDepositLoaded` those the node has forgotten.
* `Settled` and `OnePayout` of `BinanceWithdrawals` are about currencies moved to
  Binance and not back (`SwitchTo`). `Settled` excepts a wallet that a failed
  `addPayment` has left locked (`WalletLeaked`), and reservations that
  `unlockBalance` has given back (`ReservationGone`), over which the poller ends at
  every start.
* `CreditsKept` names the credits nobody is shown: when two requests create a
  user's wallet at once, the balance `createWalletWithBalance` brought may be on
  the wallet that `findByUser` does not show.

### Findings

1. **A payment can be broadcast twice** (`withdrawals_double`,
   `handlers/payments/pay.js:73`). The row lock serialises requests; it does not
   help when the broadcast succeeded and its record did not.
2. **A second deposit to a swept address is never credited** (`deposits_stuck`,
   `workers/pollCryptoDaemon.js:171`). The sweep of the first took its coins, its
   own sweep throws inside the transaction of its credit, at every poll. The
   poller dies each time, so later deposits wait as well.
3. **A message can be lost** (`bus_lost`, `workers/pollMessageBus.js:22`).
   It is deleted before the commit.
4. **Deposits of Stellar, xDac, NEM and Tron are not credited** (`clients_keys`,
   `workers/pollCryptoDaemon.js:171`). The poller passes the `Addresses` row to
   `moveBalanceToBank`; these clients, and their tests, take a private key. The
   sweep throws inside the transaction of the credit.

## 4. Proofs

Each theorem holds for every value of the constants that satisfies the named
assumption of its module, which TLC also evaluates on every run.

**Withdrawals** (`TypeCorrect`, `ChecksAreStable`, `EverySendAccounted`,
`PaidExactlyOnce`, `SettledIsFinal`). The inductive invariant is
`TypeOK /\ ChecksStayValid /\ SendsAccounted`. The type invariant alone is not
inductive: a commit subtracts a balance it checked some steps earlier, so that
the result is a natural number needs `ChecksStayValid`, which says that what a
handler checked under its locks still holds. That in turn is kept by the steps of
the others because they may only touch rows whose lock is free or their own:
`StepFrame` and `FailFrame` state this once, and `OthersChecked` concludes for
every handler that is not moving. `SendsAccounted` needs that two handlers are
never past the broadcast of one payment (`OneSender`), again from the locks.
`PaidExactlyOnce` and `SettledIsFinal` follow.

**The books** (`MoneyConserved`, `LockedIsBacked`, in `WithdrawalsBooks`). The sum
of the amounts of a set of payments is written as the cardinality of the set of
their units, so that the theorems about finite sets apply: `TotalAdd` says what
one payment adds. The two equations are proved together, by what each commit
moves between columns and status.

**The payment ledger** (`Refinement` of `WithdrawalsProofs`). It has a
hypothesis, `Recorded`: no failure separates a broadcast from its commit (an
answer is a hash or a rejection, and the faults are lock timeouts and leaks).
Without it the statement is false, which is finding 1. The invariant adds to the
one above that no broadcast is lost (`NothingLost`); then every commit step is a
step of `PaymentLedger`, every other one a stutter.

**Deposits** (`TypeCorrect`, `BalanceMatchesDeposits`, `LoadedStaysSettled`,
`Refinement`). The strengthening says of each poller: what it read and no fork has
moved since is in the block it read; once it has the height, what is confirmed at
that height is settled in that block or in `stale` (`Sighted`); the deposit it is
about to credit is settled or in `stale` (`DueSettled`); and it holds the row lock past the check
that the deposit is not loaded (`Exclusive`). With it every step of the pollers
is a step of `DepositLedger` or a stutter (`AdaptTransactions` is `Misread`), so the pollers implement the ledger
for any number of pollers, deposits, crashes and any fork up to the required
confirmations. One lemma (`PollerKeeps`) carries the invariant of a poller over
the steps of the others.

**The cursor** (`NoBlockIsSkipped`). A block is `Covered` when
each of its deposits that no fork moved has a row. The invariant says that all
blocks up to the cursor are covered, and of each poller, by its place, that the
blocks it starts from are covered and that what it listed up to its target is
saved or still in `seen` (`Progress`); and that those blocks exist (`OnChain`), so
that no deposit is mined into them later. So a slow poller with an old target can
move the cursor back, but never past a block without its rows.

**Message bus** (`InOrder`, `TypeCorrect`, `Atomic`). The history of applied
messages is increasing because the queue is deleted from its head, only what was
deleted is applied, and the message at hand is the head until it is deleted. For
the columns, the invariant says what the draft of the message at hand is after
each of its updates (`DraftIsDone`) and that the committed columns cover what it
takes (`DraftIsCovered`), so that its commit leaves no column negative and no half
of a message.

**Binance** (`PaidOutOnce`, `BooksBalance`, `TypeCorrect`). What Binance has heard
of and what `pay` or `cancelPayment` may touch are disjoint (`Apart`), an answer
the poller holds has become final (`AnswersStayTrue`), and a job it has started
is about a payment that is still pending (`JobPending`). The books (`BooksInv`) add
that a paid payment is one Binance has sent or never heard of (`PaidSent`) and that
the wallet's lock keeps the balance an open `addPayment` has checked
(`ReserveCovered`); then each step moves one unit between `available`, `locked`,
`held` and the pending or paid payments. They assume
`"vault" \notin SwitchTo`: with a provider that can be taken away again
the property is false (TLC finds: ask, complete, switch, pay).

**Market** (`TypeCorrect`, `BalanceMatches`, `CreditIsNotified`, `InOrder`,
`LoadedStaysSettled`, `RepeatsNeedCrashes`). `Sighted` and `Known` say what a found transaction and a row
mean for the chain; `OpenUpdate` what the transaction under way has locked and
sent; `OneAhead` that no message tells more than one unit above the balance: what the
one between its message and its commit, or a crash there, may be ahead. For the
number of messages, what a crash may have wasted has to be named: `ToldInVain` is
the deposits told and not loaded that nobody is about to commit; each of them and
each repetition is paid for by one crash.

**Accounts** (`TypeCorrect`, `AddressIsUnique`, `AddressIsShown`,
`CreditsAreKept`). The type invariant is about ids: that an insert always finds
one free (`NextId \in Ids`) needs that the rows are numbered without a gap
(`Numbered`) and that each insert still to come is counted against a user of a
list nobody has inserted for (`InsertsLeft`). Who may find what is in the locks:
an uncommitted row comes after the user's committed ones (`Ordered`), a locked gap
is one with no row in it and only bulk credits lock one (`GapsOK`), and a request
past its locking read holds what it found (`HeldOK`). `AddressIsUnique` follows
from `ScansOK`: past the count, a request with no address found holds the whole
table, or its gap, and the insert waits for everyone else's. `AddressIsShown`
follows because a wallet found by a plain read stays the first (`Ordered` again,
and ids grow). `CreditsAreKept` counts units (`Balanced`): a commit adds one for
each wallet in the draft, all of them on rows the request still holds (`DraftOK`),
a rollback none, and an answer takes the wallet it shows out of `untold` (`Told`).
A wallet in `untold` whose request has answered stays behind the user's first
wallet (`ToldOK`, `StaysBehind`). The first wallet is a minimum; what the proofs need of `Min` and `Max` comes
from the well-foundedness of the naturals, by `WFMin`.

**Clients** (`TypeCorrect`, `NothingCreditedTwice`, `CreditsAreSettled`,
`CreditsReachThePayee`, `NoPaymentIsSkipped`, `TopUpsAreBounded`). What the twelve
clients have in common is `Sound`: a deposit that a client shows is about a
transaction and is no larger than those outputs its uid names that the client
takes for payments; one it calls confirmed is mined too deep to be moved, or is in
`stale` (`Settled`). What a client in `Late` has read carries no confirmations
(`AsRead`), is in the block it names as long as it is not in `moved` (`Fresh`), and
becomes sound with the later height (`AdaptSound`). There is one lemma for each
list and each second look, and `ChainStepInv` keeps what was shown true while
the chain grows and forks behind the poller's back. A uid names a transaction, one
of its outputs, or its block; two settled uids of one transaction name different
outputs or are the same (`NamedApart`: a settled transaction has one block), so
what loaded rows name can be counted: `Counted` says that a transaction has
brought no more than the outputs its loaded rows name (`UsedOf`), and a wallet no
more than those that are its own (`UsedFor`). For the cursor, `ListComplete` says
per client which payments its list of a range holds (`StellarCounts` for a page), `Listed` that those
of the range at hand are saved or in `queue`, `Covered` that those at or below
the cursor have a row. For the top-ups, one is counted against the
deposit at hand, which either loads or fails. The assumptions are
`ClientPollerAssumption` (a fork is shallower than the required confirmations, the
addresses of others are no wallets) and `NoneAssumption`.

Only model-checked: liveness, which is out of the proof system's reach. That is
`EveryRequestAnswered`, `AppliedUnlessLost`, `Settled` of `BinanceWithdrawals`,
and the two `EveryDepositLoaded`. Every invariant and action property that a
passing run checks is stated by a theorem.

## 5. Not modelled

* `CardanoClient`: commented out of `getClient`. Neo's `countBlocks` is not a
  number, so that a poller never reaches its other methods; `ClientPoller` has
  what it does instead (`CountNaN`).
* `checkBankLevels` and cold storage: it calls `getWalletBalance`, which no
  client has, so that it does nothing or ends every poll in a `TypeError`.
* `updateClientStatus` and the health table: written for an operator, read by
  nothing that moves money.
* `addCurrency`, `validateCurrency`: a table of settings an operator writes now and
  then, and a refusal before a handler. What a stale copy of the settings does to
  money is in `BinanceWithdrawals`.
* `createMarketAccount`, `deploySmartContract`, address generation and fee
  estimation: calls of a node, with at most one insert.
* Read handlers, authentication, wiring and the one-off jobs: no state whose order
  matters.
* The connection pool: how many leaked transactions the API survives depends on
  `newKnex` of `@cc-dev/application`, which is not in the repository.
