---------------------------- MODULE ChainClients ----------------------------
(***************************************************************************)
(* The clients of src/lib/cryptoClients: what each answers when the poller *)
(* lists the transactions after a block, looks one up again, or sweeps an  *)
(* address.  They share the poller but neither the way they number the     *)
(* deposits of a transaction, nor what they list, nor when they call a     *)
(* deposit confirmed.                                                      *)
(*                                                                         *)
(* An answer is a set of transactions in the vault's own form, called      *)
(* deposits here, for the poller to save one by one: their order is the    *)
(* node's (of a block's transactions, an account's transfers, a wallet's   *)
(* addresses), and an entry that is listed twice is saved twice, to the    *)
(* same effect.  Where the node may answer differently the definition is   *)
(* the set of the answers.                                                 *)
(*                                                                         *)
(* Most clients read the blocks first and ask for the height of the chain  *)
(* afterwards: what they read is an answer without confirmations, and      *)
(* Adapt counts them at the height of the later call.                      *)
(***************************************************************************)
EXTENDS Integers, Sequences, FiniteSets

CONSTANTS Txs,               \* transactions, numbered in the order of a block
          Wallets,           \* deposit addresses of the vault, one per wallet
          Stranger,          \* an address that is not the vault's
          NaN, Null,         \* the two values no integer column takes
          MinConfirmations,  \* config.minConfirmations
          IncomingPage,      \* transfers NEM's account.transactions.incoming gives
          PaymentsPage       \* payments on the first page of a Stellar ledger's

VARIABLES client,            \* the client of the currency
          outs,              \* outputs of each transaction: to whom, and what kind
          height, minedIn    \* the chain: its blocks, the block of each transaction

Mined(a, b) == {t \in Txs : minedIn[t] \in a + 1 .. b}
Confirmations(b) == height - b

\* The columns of a Deposits row; a block of 0 leaves the column alone.
Deposit(uid, address, amount, confirmations, confirmed, block) ==
    [uid |-> uid, address |-> address, amount |-> amount, confirmations |-> confirmations,
     status |-> IF confirmed THEN "confirmed" ELSE "pending", block |-> block]

\* An exception in the client ends the poller, as a deposit does that the
\* table refuses.
Exception == {Deposit(<<0, 0>>, Stranger, 0, 0, FALSE, Null)}

\* "coin": a payment in the currency.  "claim": it has the form of one and pays
\* nothing in the currency: a transfer of another contract's token or symbol, a
\* transfer of tokens that was reverted, an issued currency, a mosaic.
\* "call": anything else.
Payments(t) == {i \in DOMAIN outs[t] : outs[t][i].kind = "coin"}
Claims(t) == {i \in DOMAIN outs[t] : outs[t][i].kind # "call"}
Received(t) == {i \in Payments(t) : outs[t][i].to \in Wallets}

\* These look at the form only.
Credulous == {"erc20", "eos", "xdac", "xem", "xrp"}

\* The clients that call countBlocks after they have read the blocks.
Late == {"eth", "erc20", "xlm", "eos", "xdac", "xem", "trx"}
Reading(uid, address, amount, block) == Deposit(uid, address, amount, 0, FALSE, block)

\* CryptoClient has its own comparison.
Enough(confirmations) ==
    IF client \in {"eth", "erc20"} THEN confirmations >= MinConfirmations
                                  ELSE confirmations > MinConfirmations

\* _adaptSingleTransaction, with the height of the call.
Adapt(d) ==
    IF client \in Late /\ d.block # Null
    THEN Deposit(d.uid, d.address, d.amount, Confirmations(d.block),
                 Enough(Confirmations(d.block)), d.block)
    ELSE d
-----------------------------------------------------------------------------
(* BtcForkClient: bitcoind knows which outputs are the vault's. *)

BtcUid(t) == <<t, 0>>

BtcDeposit(t, address, amount) ==
    LET c == IF minedIn[t] = 0 THEN 0 ELSE Confirmations(minedIn[t]) + 1
    IN  Deposit(BtcUid(t), address, amount, c, c >= MinConfirmations, 0)

\* listSinceBlock has no upper bound and shows the mempool too.
BtcList(from) ==
    {UNION {{BtcDeposit(t, outs[t][i].to, 1) : i \in Received(t)} : t \in Mined(from, height) \cup pool} :
     pool \in SUBSET {t \in Txs : minedIn[t] = 0}}

\* getTransaction knows the amount of the whole transaction, and the address
\* is taken from the row.
BtcFind(u, row) == {{BtcDeposit(u[1], row.address, Cardinality(Received(u[1])))}}
-----------------------------------------------------------------------------
(* EthereumClient and Erc20/Client: one payment per transaction. *)

EthUid(t) == <<t, 0>>

\* The other transactions are contracts, or move nothing.
EthIsValidTx(t) == outs[t][1].kind = "coin"

\* blockNumber is null in the mempool.
EthDeposit(t) ==
    Reading(EthUid(t), outs[t][1].to, 1, IF minedIn[t] = 0 THEN Null ELSE minedIn[t])

EthList(from, max) ==
    {{EthDeposit(t) : t \in {s \in Mined(from, IF max < height THEN max ELSE height) : EthIsValidTx(s)}}}

\* The node may have forgotten a transaction that is not mined.
EthFind(u) == {{EthDeposit(u[1])}} \cup IF minedIn[u[1]] = 0 THEN {{}} ELSE {}

\* The contract is one of the tokens and the input decodes as a transfer;
\* whether it was reverted is in the receipt, which is not read.
TokenTransfer(t) == outs[t][1].kind # "call"

\* Any other call becomes no deposit.
Erc20Deposits(t) == IF TokenTransfer(t) THEN {EthDeposit(t)} ELSE {}

\* Erc20Deposits.listTransactionsSinceBlock and findTransaction delegate.
Erc20List(from, max) ==
    {UNION {Erc20Deposits(t) : t \in Mined(from, IF max < height THEN max ELSE height)}}
Erc20Find(u) == {Erc20Deposits(u[1])} \cup IF minedIn[u[1]] = 0 THEN {{}} ELSE {}
-----------------------------------------------------------------------------
(* StellarClient: every operation of a transaction has an id. *)

StellarUid(t, i) == <<t, i>>

StellarDeposit(t, i) == Reading(StellarUid(t, i), outs[t][i].to, 1, minedIn[t])

\* Horizon's payments of the ledger of t, of every asset, before the i-th of t.
Earlier(t, i) ==
    {p \in UNION {{s} \X Claims(s) : s \in Txs} :
        minedIn[p[1]] = minedIn[t] /\ (p[1] < t \/ (p[1] = t /\ p[2] < i))}

\* The records of block.payments() are its first page; lumens are picked from it.
StellarList(from, max) ==
    {UNION {{StellarDeposit(t, i) : i \in {j \in Payments(t) :
                 Cardinality(Earlier(t, j)) < PaymentsPage}} : t \in Mined(from, max)}}

\* Of the transaction's payments, too, the first page.
StellarFind(u) ==
    {{StellarDeposit(u[1], i) : i \in {j \in Payments(u[1]) :
         StellarUid(u[1], j) = u /\ Cardinality({k \in Claims(u[1]) : k < j}) < PaymentsPage}}}
-----------------------------------------------------------------------------
(* EosClient: the address is the bank's name and the memo of the action. *)

\* isValidAction looks at the method, the form of the data and the recipient,
\* not at the contract or the symbol.  Two actions with the same data have the
\* same uid.
EosUid(t, i) ==
    <<t, CHOOSE j \in DOMAIN outs[t] :
            outs[t][j] = outs[t][i] /\ \A k \in 1 .. j - 1 : outs[t][k] # outs[t][i]>>

EosDeposit(t, i) == Reading(EosUid(t, i), outs[t][i].to, 1, minedIn[t])

\* The loop puts the same object into the list once per action: every entry
\* shows the last one.
EosList(from, max) ==
    {UNION {{EosDeposit(t, i) : i \in {j \in Claims(t) : \A k \in Claims(t) : k <= j}} :
            t \in Mined(from, max)}}

\* It looks into the block the row names.
EosFind(u, row) ==
    {IF minedIn[u[1]] = row.block THEN {EosDeposit(u[1], u[2])} ELSE {}}

\* xDacClient is the same code on another chain.
XdacUid(t, i) == EosUid(t, i)
XdacDeposit(t, i) == EosDeposit(t, i)
XdacList(from, max) == EosList(from, max)
XdacFind(u, row) == EosFind(u, row)
-----------------------------------------------------------------------------
(* NemClient *)

NemUid(t) == <<t, minedIn[t]>>

NemDeposit(t) == Reading(NemUid(t), outs[t][1].to, 1, minedIn[t])

\* The hash of a transfer comes from the latest incoming transfers of its
\* recipient: an older one is left out.  A mosaic's transfer has the same type.
NemList(from, max) ==
    LET later(t) == {s \in Txs : /\ outs[s][1].to = outs[t][1].to
                                 /\ minedIn[s] > minedIn[t] \/ (minedIn[s] = minedIn[t] /\ s > t)}
    IN  {{NemDeposit(t) : t \in {r \in Mined(from, max) :
             outs[r][1].kind # "call" /\ Cardinality(later(r)) < IncomingPage}}}

NemFind(u) ==
    {IF minedIn[u[1]] = 0 THEN Exception
     ELSE IF NemUid(u[1]) = u THEN {NemDeposit(u[1])} ELSE {}}
-----------------------------------------------------------------------------
(* TronClient *)

TronUid(t, block) == <<t, block>>

TronDeposit(t, block) == Reading(TronUid(t, block), outs[t][1].to, 1, block)

\* getBlockRange includes both ends; getTransactionFromBlock gives the first
\* transaction of a block.
TronList(from, max) ==
    {{TronDeposit(t, minedIn[t]) : t \in {r \in Mined(from - 1, max) :
         outs[r][1].kind = "coin" /\ \A s \in Mined(minedIn[r] - 1, minedIn[r]) : r <= s}}}

\* The block is the row's: a transaction that has left it is still found there.
TronFind(u, row) ==
    {{TronDeposit(u[1], row.block)}} \cup IF minedIn[u[1]] = 0 THEN {Exception} ELSE {}
-----------------------------------------------------------------------------
(* MoneroClient: the wallet knows which outputs are the vault's. *)

MoneroUid(t) == <<t, minedIn[t]>>

\* The wallet adds up what an address gets.
MoneroDeposit(t, i) ==
    LET c == Confirmations(minedIn[t])
    IN  Deposit(MoneroUid(t), outs[t][i].to, Cardinality({j \in Payments(t) : outs[t][j] = outs[t][i]}),
                c, c > MinConfirmations, minedIn[t])

\* The wallet has no list of incoming transfers for an address without any: the
\* loop over it throws.
MoneroList(from, max) ==
    {IF \A w \in Wallets : \E t \in Mined(from, max) : \E i \in Received(t) : outs[t][i].to = w
     THEN UNION {{MoneroDeposit(t, i) : i \in Received(t)} : t \in Mined(from, max)}
     ELSE Exception}

\* Mutant: the amount is the whole transaction's, as in Bitcoin's client.
MoneroFindTotal(u) ==
    IF minedIn[u[1]] = 0
    THEN {{}, Exception}
    ELSE {IF MoneroUid(u[1]) = u
          THEN {[MoneroDeposit(u[1], i) EXCEPT !.amount = Cardinality(Received(u[1]))]} ELSE {} :
          i \in Received(u[1])}

\* Mined elsewhere it has another uid, and is no answer.
MoneroFind(u) ==
    IF minedIn[u[1]] = 0
    THEN {{}, Exception}
    ELSE {IF MoneroUid(u[1]) = u THEN {MoneroDeposit(u[1], i)} ELSE {} : i \in Received(u[1])}

\* ElectroneumClient is the same code on another chain.
EtnUid(t) == MoneroUid(t)
EtnDeposit(t, i) == MoneroDeposit(t, i)
EtnList(from, max) == MoneroList(from, max)
EtnFind(u) == MoneroFind(u)
-----------------------------------------------------------------------------
(* RippleClient *)

RippleUid(t) == <<t, 0>>

\* A payment that has succeeded, in XRP or in an issued currency.
RippleIsValidTx(t) == outs[t][1].kind # "call"

\* A ledger is final; blockNumber is not a field of a transaction, so the
\* confirmations are not a number.
RippleDeposit(t) == Deposit(RippleUid(t), outs[t][1].to, 1, NaN, TRUE, minedIn[t])

\* Mutant: the list ends where the cursor will be, one block early.
RippleListShort(from) ==
    {{RippleDeposit(t) : t \in {s \in Mined(from, height - 1) : RippleIsValidTx(s)}}}

\* There is no second parameter: the list goes on to the last ledger.
RippleList(from) ==
    {{RippleDeposit(t) : t \in {s \in Mined(from, height) : RippleIsValidTx(s)}}}

\* findTransaction is the base class's, which returns nothing.
RippleFind == {{}}
-----------------------------------------------------------------------------
(* countBlocks: a chain that ends, in NeoClient, nowhere: the string it      *)
(* takes the first element of has become an object without elements.         *)

NeoCountBlocks == NaN
-----------------------------------------------------------------------------
(* moveBalanceToBank: the poller passes the row of the address as second     *)
(* argument.  TRUE: the call may return; FALSE: it may throw.                *)

SecondArgument == "row"

\* The base class: EOS, Monero, Electroneum, Ripple.
BaseSweep(arg) == {TRUE}
BtcSweep(arg) == {TRUE}
\* CryptoDeposits follows the coins, which another sweep may have taken.
EthSweep(arg) == {arg \in {"row", "options"}}

\* An address with less than 2.5 lumens is left alone.
StellarSweep(arg) == {TRUE, arg = "secret"}

NemSweep(arg) == {arg = "secret"}

\* Mutant: the sweep takes its key from the row it is given.
TronSweepRow(arg) == {TRUE}
TronSweep(arg) == {arg = "secret"}

XdacSweep(arg) == {arg = "secret"}
-----------------------------------------------------------------------------
(* getClient(CURRENCY): the calls the poller makes, for the client it has. *)

List(from, max) ==
    CASE client = "btc" -> BtcList(from)
      [] client = "eth" -> EthList(from, max)
      [] client = "erc20" -> Erc20List(from, max)
      [] client = "xlm" -> StellarList(from, max)
      [] client = "eos" -> EosList(from, max)
      [] client = "xdac" -> XdacList(from, max)
      [] client = "xem" -> NemList(from, max)
      [] client = "trx" -> TronList(from, max)
      [] client = "xmr" -> MoneroList(from, max)
      [] client = "etn" -> EtnList(from, max)
      [] client = "xrp" -> RippleList(from)

Find(u, row) ==
    CASE client = "btc" -> BtcFind(u, row)
      [] client = "eth" -> EthFind(u)
      [] client = "erc20" -> Erc20Find(u)
      [] client = "xlm" -> StellarFind(u)
      [] client = "eos" -> EosFind(u, row)
      [] client = "xdac" -> XdacFind(u, row)
      [] client = "xem" -> NemFind(u)
      [] client = "trx" -> TronFind(u, row)
      [] client = "xmr" -> MoneroFind(u)
      [] client = "etn" -> EtnFind(u)
      [] client = "xrp" -> RippleFind

Sweeps ==
    CASE client = "btc" -> BtcSweep(SecondArgument)
      [] client = "eth" -> EthSweep(SecondArgument)
      [] client = "xlm" -> StellarSweep(SecondArgument)
      [] client = "xdac" -> XdacSweep(SecondArgument)
      [] client = "xem" -> NemSweep(SecondArgument)
      [] client = "trx" -> TronSweep(SecondArgument)
      [] OTHER -> BaseSweep(SecondArgument)

CountBlocks == IF client = "neo" THEN NeoCountBlocks ELSE height
=============================================================================
