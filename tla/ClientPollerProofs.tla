------------------------- MODULE ClientPollerProofs -------------------------
(***************************************************************************)
(* Theorems about ClientPoller, for every value of its constants: any      *)
(* number of transactions, outputs and wallets, any confirmation depth and *)
(* any page, on every client.  The parts of the inductive invariant come   *)
(* first; then what a client may answer, one lemma for each client's list  *)
(* and second look; then the actions; then the theorems.                   *)
(***************************************************************************)
EXTENDS ClientPoller, FiniteSetTheorems, WellFoundedInduction, TLAPS

\* Their sweep takes a private key, and the poller has none: nothing is loaded.
Keyed == {"xdac", "xem", "trx"}
\* Their uid names an output, the block, or nothing but the transaction.
ByOutput == {"xlm", "eos", "xdac"}
ByBlock == {"xmr", "etn"}
ByTx == {"btc", "eth", "erc20", "xrp"}
\* They know one output of a transaction.
OneOutputOnly == {"eth", "erc20", "xrp", "xem", "trx"}

\* The outputs of t that the client takes for payments to the vault.
Shown(t) ==
    {i \in DOMAIN outs[t] :
        /\ outs[t][i].to \in Wallets
        /\ outs[t][i].kind = "coin" \/ (outs[t][i].kind = "claim" /\ client \in Credulous)}

\* Those that a row of this uid may bring to a wallet.
Named(u) == {i \in Shown(u[1]) : client \in ByOutput => i = u[2]}

\* Those of them that are the address's; Bitcoin's client does not ask.
NamedFor(u, a) == {i \in Named(u) : client # "btc" => outs[u[1]][i].to = a}

\* The transaction is in a block no fork will reach, and the uid names that one;
\* or its block was lost before the height was asked for.
Settled(u) ==
    \/ client \in Late /\ u[1] \in stale
    \/ /\ minedIn[u[1]] # 0
       /\ client \in Final \/ Confirmations(minedIn[u[1]]) + 1 >= MinConfirmations
       /\ client \in ByBlock => u[2] = minedIn[u[1]]

\* What a client makes up, or the poller saves, is a uid of a transaction.
KnownUid(u) ==
    /\ u \in Uids /\ client # "neo"
    /\ client \in ByTx => u[2] = 0
    /\ client \in ByOutput => u[2] \in Shown(u[1])
    /\ client \in OneOutputOnly => 1 \in Shown(u[1])
    /\ client \in Final => minedIn[u[1]] # 0

\* A deposit that the poller will not throw at.
Savable(d) == d.address \in Wallets /\ d.block # Null

Sound(d) ==
    /\ KnownUid(d.uid)
    /\ d.block \in 0 .. MaxHeight
    /\ client = "eos" => d.block # 0
    /\ d.status \in {"pending", "confirmed"}
    /\ d.amount \in Nat /\ d.amount <= Cardinality(NamedFor(d.uid, d.address))
    /\ d.status = "confirmed" => client \in Keyed \/ Settled(d.uid)

\* A reading names the block of its transaction ...
AsRead(d) == client \in Late \ Keyed => d.block # 0 /\ minedIn[d.uid[1]] = d.block

\* ... until a fork moves the transaction.
Fresh(d) ==
    reading /\ client \notin Keyed =>
        d.block # 0 /\ (minedIn[d.uid[1]] = d.block \/ d.uid[1] \in moved)

RowOK(u) ==
    /\ KnownUid(u)
    /\ client = "eos" => row[u].block # 0
    /\ row[u].amount <= Cardinality(NamedFor(u, row[u].address))
    /\ row[u].loaded => client \notin Keyed /\ Settled(u)

\* The row to load is not loaded, and nothing else moves until it is.
DueOK ==
    /\ due # None => ~row[due].loaded /\ (client \in Keyed \/ Settled(due))
    /\ waiting => due # None /\ client = "erc20"
    /\ reading => client \in Late

\* Where the poller stands, and with which blocks.
Placed ==
    /\ cursor # 0
    /\ at # "count" => client # "neo"
    /\ at = "cursor" => target >= cursor
    /\ at \notin {"count", "cursor"} => from = cursor
    /\ at = "store" => target = from

\* The outputs that loaded rows have brought, of a transaction and to a wallet.
UsedOf(t) == {i \in Shown(t) : \E u \in Loaded : u[1] = t /\ i \in Named(u)}
UsedFor(w) == {p \in Txs \X (1 .. MaxHeight) : p[2] \in UsedOf(p[1]) /\ outs[p[1]][p[2]].to = w}

Counted ==
    /\ \A t \in Txs : credited[t] <= Cardinality(UsedOf(t))
    /\ client # "btc" => \A w \in Wallets : available[w] <= Cardinality(UsedFor(w))

\* Each top-up is for a loaded deposit, or the one at hand, or was lost.
TopUpsOK == topUps <= Cardinality(Loaded) + faults + IF waiting THEN 1 ELSE 0

\* What NoPaymentSkipped asks of a payment, but for its block.
Listable(t) ==
    /\ t \notin forked
    /\ Len(outs[t]) = 1 /\ outs[t][1].kind = "coin" /\ outs[t][1].to \in Wallets
    /\ client = "trx" => forked = {} /\ \A s \in Txs \ {t} : minedIn[s] # minedIn[t]
    /\ client = "xem" => Cardinality({s \in Txs : outs[s][1].to = outs[t][1].to}) <= IncomingPage
    /\ client = "xlm" => Cardinality(InLedger(t)) <= PaymentsPage

HasRow(t) == \E u \in Saved : u[1] = t

Covered == \A t \in Txs : Listable(t) /\ minedIn[t] \in since + 1 .. cursor => HasRow(t)

\* What was listed and has no row is still to be saved, or the client threw.
Awaited(t, A) == (\E d \in A : Savable(d) /\ d.uid[1] = t) \/ \E d \in A : d.block = Null

Listed ==
    at = "save" =>
        \A t \in Txs : Listable(t) /\ minedIn[t] \in from + 1 .. target =>
            HasRow(t) \/ Awaited(t, queue)

Coming == \A d \in queue : Savable(d) => Sound(d) /\ Fresh(d)

IInv ==
    /\ TypeOK /\ Placed
    /\ \A u \in Saved : RowOK(u)
    /\ Coming /\ DueOK
    /\ Counted /\ TopUpsOK
    /\ Covered /\ Listed
-----------------------------------------------------------------------------
(* Cardinalities and the outputs of a transaction *)

LEMMA CardNat == ASSUME NEW S, IsFiniteSet(S) PROVE Cardinality(S) \in Nat
  BY FS_CardinalityType

LEMMA HasOne == ASSUME NEW S, IsFiniteSet(S), NEW x \in S PROVE Cardinality(S) >= 1
<1>1. Cardinality({x}) = 1 /\ {x} \in SUBSET S
  BY FS_Singleton
<1>2. Cardinality({x}) <= Cardinality(S)
  BY <1>1, FS_Subset
<1> QED
  BY <1>1, <1>2, CardNat

LEMMA LoadedFinite == IsFiniteSet(Loaded) /\ Cardinality(Loaded) \in Nat
<1>1. IsFiniteSet(0 .. MaxHeight)
  BY FS_Interval, ClientPollerAssumption
<1>2. IsFiniteSet(Txs \X (0 .. MaxHeight))
  BY <1>1, FS_Product, ClientPollerAssumption
<1>3. IsFiniteSet(Loaded)
  BY <1>2, FS_Subset DEF Loaded, Saved, Uids
<1> QED
  BY <1>3, CardNat

LEMMA OutsFacts ==
    ASSUME TypeOK, NEW t \in Txs
    PROVE  /\ DOMAIN outs[t] = 1 .. Len(outs[t]) /\ Len(outs[t]) \in 1 .. MaxHeight
           /\ DOMAIN outs[t] \subseteq 1 .. MaxHeight
           /\ 1 \in DOMAIN outs[t]
           /\ IsFiniteSet(DOMAIN outs[t])
           /\ \A i \in DOMAIN outs[t] :
                  outs[t][i] \in [to : Wallets \cup {Stranger}, kind : {"coin", "claim", "call"}]
<1> DEFINE R == [to : Wallets \cup {Stranger}, kind : {"coin", "claim", "call"}]
<1>1. outs[t] \in Seq(R) /\ Len(outs[t]) \in 1 .. MaxHeight /\ MaxHeight \in Nat
  BY ClientPollerAssumption DEF TypeOK
<1> HIDE DEF R
<1>4. \A i \in DOMAIN outs[t] : outs[t][i] \in R
  BY <1>1
<1>2. DOMAIN outs[t] = 1 .. Len(outs[t]) /\ Len(outs[t]) \in Nat
  BY <1>1
<1>3. IsFiniteSet(1 .. Len(outs[t]))
  BY <1>2, FS_Interval
<1> QED
  BY <1>1, <1>2, <1>3, <1>4 DEF R

LEMMA NamedFacts ==
    ASSUME TypeOK, NEW u, u[1] \in Txs, NEW a
    PROVE  /\ Shown(u[1]) \subseteq DOMAIN outs[u[1]]
           /\ Named(u) \subseteq Shown(u[1]) /\ NamedFor(u, a) \subseteq Named(u)
           /\ IsFiniteSet(Shown(u[1])) /\ IsFiniteSet(Named(u)) /\ IsFiniteSet(NamedFor(u, a))
           /\ Cardinality(NamedFor(u, a)) \in Nat
<1>1. IsFiniteSet(DOMAIN outs[u[1]])
  BY OutsFacts
<1>2. /\ Shown(u[1]) \subseteq DOMAIN outs[u[1]]
      /\ Named(u) \subseteq Shown(u[1]) /\ NamedFor(u, a) \subseteq Named(u)
  BY DEF Shown, Named, NamedFor
<1>3. IsFiniteSet(Shown(u[1]))
  BY <1>1, <1>2, FS_Subset
<1>4. IsFiniteSet(Named(u))
  BY <1>2, <1>3, FS_Subset
<1>5. IsFiniteSet(NamedFor(u, a))
  BY <1>2, <1>4, FS_Subset
<1> QED
  BY <1>2, <1>3, <1>4, <1>5, CardNat

LEMMA TxFacts ==
    ASSUME TypeOK
    PROVE  /\ height \in 1 .. MaxHeight /\ MaxHeight \in Nat \ {0} /\ MinConfirmations \in Nat \ {0}
           /\ from \in 0 .. height /\ target \in 0 .. height
           /\ \A t \in Txs : t \in Nat \ {0} /\ minedIn[t] \in 0 .. height
           /\ \A t \in Txs, n \in 0 .. MaxHeight : <<t, n>> \in Uids
           /\ \A a \in Wallets : a # Stranger
  BY ClientPollerAssumption DEF TypeOK, Uids

\* Who saves a payment of one unit to the address of one of its outputs.
LEMMA OneUnit ==
    ASSUME TypeOK, NEW d, d.uid[1] \in Txs,
           NEW i \in Shown(d.uid[1]), outs[d.uid[1]][i].to = d.address,
           client \in ByOutput => d.uid[2] = i
    PROVE  1 <= Cardinality(NamedFor(d.uid, d.address))
<1>1. i \in NamedFor(d.uid, d.address)
  BY DEF NamedFor, Named
<1>2. IsFiniteSet(NamedFor(d.uid, d.address)) /\ Cardinality(NamedFor(d.uid, d.address)) \in Nat
  BY NamedFacts
<1> QED
  BY <1>1, <1>2, HasOne
-----------------------------------------------------------------------------
(* What the clients answer is sound *)

SoundAnswer(A) == \A d \in A : Savable(d) => Sound(d) /\ AsRead(d)

LEMMA ExceptionSound == ASSUME TypeOK PROVE SoundAnswer(Exception)
<1>1. \A d \in Exception : d.address = Stranger
  BY DEF Exception, Deposit
<1> QED
  BY <1>1, TxFacts DEF SoundAnswer, Savable

LEMMA EmptySound == SoundAnswer({})
  BY DEF SoundAnswer

LEMMA BtcSound ==
    ASSUME TypeOK, client = "btc", NEW t \in Txs, NEW a \in Wallets, NEW n \in Nat,
           n <= Cardinality(NamedFor(BtcUid(t), a))
    PROVE  Sound(BtcDeposit(t, a, n)) /\ AsRead(BtcDeposit(t, a, n))
<1> DEFINE c == IF minedIn[t] = 0 THEN 0 ELSE Confirmations(minedIn[t]) + 1
           d == BtcDeposit(t, a, n)
<1>1. /\ d.uid = <<t, 0>> /\ d.address = a /\ d.amount = n /\ d.block = 0
      /\ d.status \in {"pending", "confirmed"} /\ (d.status = "confirmed" <=> c >= MinConfirmations)
  BY DEF BtcDeposit, BtcUid, Deposit
<1>2. KnownUid(d.uid)
  BY <1>1, TxFacts DEF KnownUid, ByOutput, OneOutputOnly, Final
<1>3. c >= MinConfirmations => Settled(d.uid)
  BY <1>1, TxFacts DEF Settled, Confirmations, ByBlock
<1> QED
  BY <1>1, <1>2, <1>3, TxFacts DEF Sound, BtcUid, AsRead, Late

LEMMA BtcAnswers ==
    ASSUME TypeOK, client = "btc"
    PROVE  /\ \A A \in BtcList(from) : SoundAnswer(A)
           /\ \A u \in Saved : RowOK(u) => \A A \in BtcFind(u, row[u]) : SoundAnswer(A)
<1>1. ASSUME NEW A \in BtcList(from), NEW d \in A, Savable(d)
      PROVE  Sound(d) /\ AsRead(d)
  <2>0. PICK t \in Txs : \E i \in Received(t) : d = BtcDeposit(t, outs[t][i].to, 1)
    BY <1>1 DEF BtcList, Mined
  <2>1. PICK i \in Received(t) : d = BtcDeposit(t, outs[t][i].to, 1)
    BY <2>0
  <2>2. i \in Shown(t) /\ outs[t][i].to \in Wallets
    BY DEF Received, Payments, Shown
  <2>3. i \in NamedFor(BtcUid(t), outs[t][i].to)
    BY <1>1, <2>2 DEF NamedFor, Named, BtcUid, ByOutput
  <2>4. 1 <= Cardinality(NamedFor(BtcUid(t), outs[t][i].to))
    <3>1. BtcUid(t)[1] = t
      BY DEF BtcUid
    <3>2. /\ IsFiniteSet(NamedFor(BtcUid(t), outs[t][i].to))
          /\ Cardinality(NamedFor(BtcUid(t), outs[t][i].to)) \in Nat
      BY <3>1, NamedFacts
    <3> QED
      BY <2>3, <3>2, HasOne
  <2> QED
    BY <2>1, <2>2, <2>4, BtcSound
<1>2. ASSUME NEW u \in Saved, RowOK(u), NEW A \in BtcFind(u, row[u]), NEW d \in A, Savable(d)
      PROVE  Sound(d) /\ AsRead(d)
  <2> DEFINE n == Cardinality(Received(u[1]))
  <2>1. d = BtcDeposit(u[1], row[u].address, n)
    BY <1>2 DEF BtcFind
  <2>2. u[1] \in Txs /\ row[u].address \in Wallets
    BY <1>2, <2>1 DEF Saved, Uids, Savable, BtcDeposit, Deposit
  <2>3. NamedFor(BtcUid(u[1]), row[u].address) = Received(u[1])
    <3>1. Shown(u[1]) = Received(u[1])
      BY DEF Shown, Received, Payments, Credulous
    <3> QED
      BY <3>1 DEF NamedFor, Named, BtcUid, ByOutput
  <2>4. n \in Nat
    BY <2>2, <2>3, NamedFacts, CardNat DEF BtcUid
  <2> HIDE DEF n
  <2>5. n <= Cardinality(NamedFor(BtcUid(u[1]), row[u].address))
    BY <2>3, <2>4 DEF n
  <2> QED
    BY <2>1, <2>2, <2>4, <2>5, BtcSound
<1> QED
  BY <1>1, <1>2 DEF SoundAnswer

\* The clients that know one output of a transaction, and pay one unit for it.
LEMMA OneOutput ==
    ASSUME TypeOK, client \in OneOutputOnly, NEW d, d.uid[1] \in Txs,
           d.address = outs[d.uid[1]][1].to, 1 \in Shown(d.uid[1])
    PROVE  1 <= Cardinality(NamedFor(d.uid, d.address))
<1>1. client \notin ByOutput
  BY DEF OneOutputOnly, ByOutput
<1> QED
  BY <1>1, OneUnit

LEMMA FirstShown ==
    ASSUME TypeOK, client \in OneOutputOnly, NEW t \in Txs, outs[t][1].to \in Wallets,
           outs[t][1].kind = "coin" \/ (outs[t][1].kind # "call" /\ client \in Credulous)
    PROVE  1 \in Shown(t)
<1>1. 1 \in DOMAIN outs[t] /\ outs[t][1].kind \in {"coin", "claim", "call"}
  BY OutsFacts
<1> QED
  BY <1>1 DEF Shown

LEMMA EthSound ==
    ASSUME TypeOK, client \in {"eth", "erc20"}, NEW t \in Txs, 1 \in Shown(t),
           Savable(EthDeposit(t))
    PROVE  Sound(EthDeposit(t)) /\ AsRead(EthDeposit(t))
<1> DEFINE d == EthDeposit(t)
<1>1. /\ d.uid = <<t, 0>> /\ d.address = outs[t][1].to /\ d.amount = 1
      /\ d.block = minedIn[t] /\ minedIn[t] # 0
      /\ d.status = "pending"
  BY DEF EthDeposit, Reading, Deposit, EthUid, Savable
<1> HIDE DEF d
<1>2. KnownUid(d.uid)
  BY <1>1, TxFacts DEF KnownUid, ByOutput, Final
<1>4. 1 <= Cardinality(NamedFor(d.uid, d.address))
  BY <1>1, OneOutput DEF OneOutputOnly
<1>5. Sound(d) /\ AsRead(d)
  BY <1>1, <1>2, <1>4, TxFacts DEF Sound, AsRead
<1> QED
  BY <1>5 DEF d

LEMMA EthAnswers ==
    ASSUME TypeOK, client = "eth"
    PROVE  /\ \A A \in EthList(from, target) : SoundAnswer(A)
           /\ \A u \in Saved : RowOK(u) => \A A \in EthFind(u) : SoundAnswer(A)
<1>1. ASSUME NEW A \in EthList(from, target), NEW d \in A, Savable(d)
      PROVE  \E t \in Txs : d = EthDeposit(t) /\ 1 \in Shown(t)
  <2>1. PICK t \in Txs : d = EthDeposit(t) /\ EthIsValidTx(t)
    BY <1>1 DEF EthList, Mined
  <2>2. outs[t][1].to \in Wallets
    BY <1>1, <2>1 DEF EthDeposit, Reading, Deposit, Savable
  <2> QED
    BY <2>1, <2>2, FirstShown DEF EthIsValidTx, OneOutputOnly
<1>2. ASSUME NEW u \in Saved, RowOK(u), NEW A \in EthFind(u), NEW d \in A
      PROVE  d = EthDeposit(u[1]) /\ u[1] \in Txs /\ 1 \in Shown(u[1])
  BY <1>2 DEF EthFind, Saved, Uids, RowOK, KnownUid, OneOutputOnly
<1> QED
  BY <1>1, <1>2, EthSound DEF SoundAnswer

LEMMA Erc20Answers ==
    ASSUME TypeOK, client = "erc20"
    PROVE  /\ \A A \in Erc20List(from, target) : SoundAnswer(A)
           /\ \A u \in Saved : \A A \in Erc20Find(u) : SoundAnswer(A)
<1>1. ASSUME NEW t \in Txs, NEW d \in Erc20Deposits(t), Savable(d) PROVE Sound(d) /\ AsRead(d)
  <2>1. d = EthDeposit(t) /\ outs[t][1].kind # "call"
    BY <1>1 DEF Erc20Deposits, TokenTransfer
  <2>2. outs[t][1].to \in Wallets
    BY <1>1, <2>1 DEF EthDeposit, Reading, Deposit, Savable
  <2> QED
    BY <1>1, <2>1, <2>2, FirstShown, EthSound DEF OneOutputOnly, Credulous
<1>2. ASSUME NEW A \in Erc20List(from, target), NEW d \in A
      PROVE  \E t \in Txs : d \in Erc20Deposits(t)
  BY <1>2 DEF Erc20List, Mined
<1>3. ASSUME NEW u \in Saved, NEW A \in Erc20Find(u), NEW d \in A
      PROVE  d \in Erc20Deposits(u[1]) /\ u[1] \in Txs
  BY <1>3 DEF Erc20Find, Saved, Uids
<1> QED
  BY <1>1, <1>2, <1>3 DEF SoundAnswer

LEMMA RippleAnswers ==
    ASSUME TypeOK, client = "xrp"
    PROVE  /\ \A A \in RippleList(from) : SoundAnswer(A)
           /\ \A A \in RippleFind : SoundAnswer(A)
<1>1. ASSUME NEW A \in RippleList(from), NEW d \in A, Savable(d)
      PROVE  Sound(d) /\ AsRead(d)
  <2>1. PICK t \in Mined(from, height) : d = RippleDeposit(t) /\ outs[t][1].kind # "call"
    BY <1>1 DEF RippleList, RippleIsValidTx
  <2>2. t \in Txs /\ minedIn[t] # 0
    BY TxFacts DEF Mined
  <2>3. /\ d.uid = <<t, 0>> /\ d.address = outs[t][1].to /\ d.amount = 1 /\ d.block = minedIn[t]
        /\ d.status = "confirmed"
    BY <2>1 DEF RippleDeposit, RippleUid, Deposit
  <2>6. 1 \in Shown(t)
    BY <1>1, <2>1, <2>2, <2>3, FirstShown DEF Savable, OneOutputOnly, Credulous
  <2>4. KnownUid(d.uid) /\ Settled(d.uid)
    BY <2>2, <2>3, <2>6, TxFacts DEF KnownUid, Settled, ByOutput, ByBlock, Final
  <2>5. 1 <= Cardinality(NamedFor(d.uid, d.address))
    BY <2>2, <2>3, <2>6, OneOutput DEF OneOutputOnly
  <2> QED
    BY <2>2, <2>3, <2>4, <2>5, TxFacts DEF Sound, AsRead, Late
<1>2. \A A \in RippleFind : A = {}
  BY DEF RippleFind
<1> QED
  BY <1>1, <1>2 DEF SoundAnswer

LEMMA StellarAnswers ==
    ASSUME TypeOK, client = "xlm"
    PROVE  /\ \A A \in StellarList(from, target) : SoundAnswer(A)
           /\ \A u \in Saved : RowOK(u) => \A A \in StellarFind(u) : SoundAnswer(A)
<1>1. ASSUME NEW t \in Txs, minedIn[t] # 0, NEW i \in Payments(t), Savable(StellarDeposit(t, i))
      PROVE  Sound(StellarDeposit(t, i)) /\ AsRead(StellarDeposit(t, i))
  <2> DEFINE d == StellarDeposit(t, i)
  <2>1. /\ d.uid = <<t, i>> /\ d.address = outs[t][i].to /\ d.amount = 1 /\ d.block = minedIn[t]
        /\ d.status = "pending"
    BY DEF StellarDeposit, StellarUid, Reading, Deposit
  <2>4. d.address \in Wallets
    BY <1>1 DEF Savable
  <2> HIDE DEF d
  <2>2. i \in Shown(t) /\ i \in 0 .. MaxHeight
    BY <2>1, <2>4, OutsFacts DEF Payments, Shown
  <2>3. KnownUid(d.uid)
    BY <1>1, <2>1, <2>2, TxFacts DEF KnownUid, ByTx, OneOutputOnly, Final
  <2>5. 1 <= Cardinality(NamedFor(d.uid, d.address))
    BY <2>1, <2>2, OneUnit
  <2>6. Sound(d) /\ AsRead(d)
    BY <1>1, <2>1, <2>3, <2>5, TxFacts DEF Sound, AsRead
  <2> QED
    BY <2>6 DEF d
<1>2. ASSUME NEW A \in StellarList(from, target), NEW d \in A
      PROVE  \E t \in Txs : minedIn[t] # 0 /\ \E i \in Payments(t) : d = StellarDeposit(t, i)
  <2>1. PICK t \in Mined(from, target) : \E i \in Payments(t) : d = StellarDeposit(t, i)
    BY <1>2 DEF StellarList
  <2>2. t \in Txs /\ minedIn[t] # 0
    BY TxFacts DEF Mined
  <2> QED
    BY <2>1, <2>2
<1>3. ASSUME NEW u \in Saved, RowOK(u), NEW A \in StellarFind(u), NEW d \in A
      PROVE  /\ u[1] \in Txs /\ minedIn[u[1]] # 0
             /\ \E i \in Payments(u[1]) : d = StellarDeposit(u[1], i)
  BY <1>3 DEF StellarFind, RowOK, KnownUid, Uids, Final
<1> QED
  BY <1>1, <1>2, <1>3 DEF SoundAnswer

LEMMA EosUidFacts ==
    ASSUME TypeOK, NEW t \in Txs, NEW i \in DOMAIN outs[t]
    PROVE  \E j \in DOMAIN outs[t] : EosUid(t, i) = <<t, j>> /\ outs[t][j] = outs[t][i]
<1> DEFINE S == {j \in DOMAIN outs[t] : outs[t][j] = outs[t][i]}
           L == {ss \in Nat \X Nat : ss[1] < ss[2]}
<1>1. S \in SUBSET Nat /\ S # {} /\ \A k \in DOMAIN outs[t] : k \in Nat
  BY OutsFacts, TxFacts
<1>2. IsWellFoundedOn(L, Nat)
  BY NatLessThanWellFounded, Zenon DEF OpToRel
<1>3. \A x, y \in Nat : x < y => <<x, y>> \in L
  OBVIOUS
<1> HIDE DEF L
<1>4. \E m \in S : \A y \in S : <<y, m>> \notin L
  BY <1>1, <1>2, WFMin
<1>5. PICK m \in S : \A y \in S : ~(y < m)
  BY <1>1, <1>3, <1>4
<1>6. DOMAIN outs[t] = 1 .. Len(outs[t]) /\ Len(outs[t]) \in Nat
  BY OutsFacts, TxFacts
<1>7. \A k \in 1 .. m - 1 : outs[t][k] # outs[t][i]
  BY <1>5, <1>6
<1>8. m \in DOMAIN outs[t] /\ outs[t][m] = outs[t][i]
  OBVIOUS
<1> DEFINE P(j) == outs[t][j] = outs[t][i] /\ \A k \in 1 .. j - 1 : outs[t][k] # outs[t][i]
<1>9. P(CHOOSE j \in DOMAIN outs[t] : P(j)) /\ (CHOOSE j \in DOMAIN outs[t] : P(j)) \in DOMAIN outs[t]
  <2>1. \E j \in DOMAIN outs[t] : P(j)
    BY <1>7, <1>8
  <2> HIDE DEF P
  <2> QED
    BY <2>1
<1> QED
  BY <1>9 DEF EosUid

LEMMA EosAnswers ==
    ASSUME TypeOK, client \in {"eos", "xdac"}
    PROVE  /\ \A A \in EosList(from, target) : SoundAnswer(A)
           /\ \A u \in Saved : RowOK(u) => \A A \in EosFind(u, row[u]) : SoundAnswer(A)
<1>1. ASSUME NEW t \in Txs, NEW i \in Claims(t), Savable(EosDeposit(t, i)),
             client = "eos" => minedIn[t] # 0
      PROVE  Sound(EosDeposit(t, i)) /\ AsRead(EosDeposit(t, i))
  <2> DEFINE d == EosDeposit(t, i)
  <2>1. /\ d.uid = EosUid(t, i) /\ d.address = outs[t][i].to /\ d.amount = 1
        /\ d.block = minedIn[t] /\ d.status = "pending"
    BY DEF EosDeposit, Reading, Deposit
  <2>2. i \in DOMAIN outs[t] /\ outs[t][i].kind \in {"coin", "claim"}
    BY OutsFacts DEF Claims
  <2>3. PICK j \in DOMAIN outs[t] : EosUid(t, i) = <<t, j>> /\ outs[t][j] = outs[t][i]
    BY <2>2, EosUidFacts
  <2>4. d.address \in Wallets
    BY <1>1 DEF Savable
  <2> HIDE DEF d
  <2>5. j \in Shown(t) /\ j \in 0 .. MaxHeight
    BY <2>1, <2>2, <2>3, <2>4, OutsFacts, TxFacts DEF Shown, Credulous
  <2>6. KnownUid(d.uid)
    BY <2>1, <2>3, <2>5, TxFacts DEF KnownUid, ByTx, OneOutputOnly, Final
  <2>7. 1 <= Cardinality(NamedFor(d.uid, d.address))
    BY <2>1, <2>3, <2>5, OneUnit
  <2>8. Sound(d) /\ AsRead(d)
    BY <1>1, <2>1, <2>3, <2>6, <2>7, TxFacts DEF Sound, AsRead, Keyed
  <2> QED
    BY <2>8 DEF d
<1>2. ASSUME NEW A \in EosList(from, target), NEW d \in A
      PROVE  \E t \in Txs : minedIn[t] # 0 /\ \E i \in Claims(t) : d = EosDeposit(t, i)
  <2>1. PICK t \in Mined(from, target) : \E i \in Claims(t) : d = EosDeposit(t, i)
    BY <1>2 DEF EosList
  <2>2. t \in Txs /\ minedIn[t] # 0
    BY TxFacts DEF Mined
  <2> QED
    BY <2>1, <2>2
<1>3. ASSUME NEW u \in Saved, RowOK(u), NEW A \in EosFind(u, row[u]), NEW d \in A
      PROVE  /\ u[1] \in Txs /\ u[2] \in Claims(u[1]) /\ d = EosDeposit(u[1], u[2])
             /\ client = "eos" => minedIn[u[1]] # 0
  <2>1. u[1] \in Txs /\ u[2] \in Shown(u[1]) /\ (client = "eos" => row[u].block # 0)
    BY <1>3 DEF RowOK, KnownUid, Uids, ByOutput
  <2>2. minedIn[u[1]] = row[u].block /\ d = EosDeposit(u[1], u[2])
    BY <1>3 DEF EosFind
  <2> QED
    BY <2>1, <2>2 DEF Shown, Claims
<1> QED
  BY <1>1, <1>2, <1>3 DEF SoundAnswer

LEMMA NemAnswers ==
    ASSUME TypeOK, client = "xem"
    PROVE  /\ \A A \in NemList(from, target) : SoundAnswer(A)
           /\ \A u \in Saved : RowOK(u) => \A A \in NemFind(u) : SoundAnswer(A)
<1>1. ASSUME NEW t \in Txs, 1 \in Shown(t) PROVE Sound(NemDeposit(t)) /\ AsRead(NemDeposit(t))
  <2> DEFINE d == NemDeposit(t)
  <2>1. /\ d.uid = <<t, minedIn[t]>> /\ d.address = outs[t][1].to /\ d.amount = 1
        /\ d.block = minedIn[t] /\ d.status = "pending"
    BY DEF NemDeposit, NemUid, Reading, Deposit
  <2> HIDE DEF d
  <2>2. 1 <= Cardinality(NamedFor(d.uid, d.address))
    BY <1>1, <2>1, OneOutput DEF OneOutputOnly
  <2>3. Sound(d) /\ AsRead(d)
    BY <1>1, <2>1, <2>2, TxFacts DEF Sound, AsRead, KnownUid, ByTx, ByOutput, Final, Keyed
  <2> QED
    BY <2>3 DEF d
<1>2. ASSUME NEW A \in NemList(from, target), NEW d \in A, Savable(d)
      PROVE  \E t \in Txs : d = NemDeposit(t) /\ 1 \in Shown(t)
  <2>1. PICK t \in Txs : d = NemDeposit(t) /\ outs[t][1].kind # "call"
    BY <1>2 DEF NemList, Mined
  <2>2. outs[t][1].to \in Wallets
    BY <1>2, <2>1 DEF NemDeposit, Reading, Deposit, Savable
  <2> QED
    BY <2>1, <2>2, FirstShown DEF OneOutputOnly, Credulous
<1>3. ASSUME NEW u \in Saved, RowOK(u), NEW A \in NemFind(u)
      PROVE  /\ A = Exception \/ \A d \in A : d = NemDeposit(u[1])
             /\ u[1] \in Txs /\ 1 \in Shown(u[1])
  BY <1>3 DEF NemFind, Saved, Uids, RowOK, KnownUid, OneOutputOnly
<1> QED
  BY <1>1, <1>2, <1>3, ExceptionSound DEF SoundAnswer

LEMMA TronAnswers ==
    ASSUME TypeOK, client = "trx"
    PROVE  /\ \A A \in TronList(from, target) : SoundAnswer(A)
           /\ \A u \in Saved : RowOK(u) => \A A \in TronFind(u, row[u]) : SoundAnswer(A)
<1>1. ASSUME NEW t \in Txs, NEW b \in 0 .. MaxHeight, 1 \in Shown(t)
      PROVE  Sound(TronDeposit(t, b)) /\ AsRead(TronDeposit(t, b))
  <2> DEFINE d == TronDeposit(t, b)
  <2>1. /\ d.uid = <<t, b>> /\ d.address = outs[t][1].to /\ d.amount = 1
        /\ d.block = b /\ d.status = "pending"
    BY DEF TronDeposit, TronUid, Reading, Deposit
  <2> HIDE DEF d
  <2>2. 1 <= Cardinality(NamedFor(d.uid, d.address))
    BY <1>1, <2>1, OneOutput DEF OneOutputOnly
  <2>3. Sound(d) /\ AsRead(d)
    BY <1>1, <2>1, <2>2, TxFacts DEF Sound, AsRead, KnownUid, ByTx, ByOutput, Final, Keyed
  <2> QED
    BY <2>3 DEF d
<1>2. ASSUME NEW A \in TronList(from, target), NEW d \in A, Savable(d)
      PROVE  \E t \in Txs : \E b \in 0 .. MaxHeight : d = TronDeposit(t, b) /\ 1 \in Shown(t)
  <2>1. \A t \in Txs : minedIn[t] \in 0 .. MaxHeight
    BY TxFacts
  <2>2. PICK t \in Txs : d = TronDeposit(t, minedIn[t]) /\ outs[t][1].kind = "coin"
    BY <1>2 DEF TronList, Mined
  <2>3. outs[t][1].to \in Wallets
    BY <1>2, <2>2 DEF TronDeposit, Reading, Deposit, Savable
  <2> QED
    BY <2>1, <2>2, <2>3, FirstShown DEF OneOutputOnly
<1>3. ASSUME NEW u \in Saved, RowOK(u), NEW A \in TronFind(u, row[u])
      PROVE  /\ A = Exception \/ \A d \in A : d = TronDeposit(u[1], row[u].block)
             /\ u[1] \in Txs /\ 1 \in Shown(u[1]) /\ row[u].block \in 0 .. MaxHeight
  <2>1. u \in Uids /\ row[u] \in Rows
    BY DEF TypeOK, Saved
  <2>2. 1 \in Shown(u[1])
    BY <1>3 DEF RowOK, KnownUid, OneOutputOnly
  <2> QED
    BY <1>3, <2>1, <2>2 DEF TronFind, Uids, Rows
<1> QED
  BY <1>1, <1>2, <1>3, ExceptionSound DEF SoundAnswer

LEMMA MoneroAnswers ==
    ASSUME TypeOK, client \in {"xmr", "etn"}
    PROVE  /\ \A A \in MoneroList(from, target) : SoundAnswer(A)
           /\ \A u \in Saved : \A A \in MoneroFind(u) : SoundAnswer(A)
<1>1. ASSUME NEW t \in Txs, minedIn[t] # 0, NEW i \in Received(t)
      PROVE  Sound(MoneroDeposit(t, i)) /\ AsRead(MoneroDeposit(t, i))
  <2> DEFINE d == MoneroDeposit(t, i)
             n == Cardinality({j \in Payments(t) : outs[t][j] = outs[t][i]})
  <2>1. /\ d.uid = <<t, minedIn[t]>> /\ d.address = outs[t][i].to /\ d.block = minedIn[t]
        /\ d.amount = n
        /\ d.status \in {"pending", "confirmed"}
        /\ d.status = "confirmed" => Confirmations(minedIn[t]) > MinConfirmations
    BY DEF MoneroDeposit, MoneroUid, Deposit
  <2>2. outs[t][i].to \in Wallets /\ outs[t][i].kind = "coin" /\ i \in DOMAIN outs[t]
    BY DEF Received, Payments
  <2>9. \A j \in Payments(t) : outs[t][j] = outs[t][i] <=> outs[t][j].to = outs[t][i].to
    <3> SUFFICES ASSUME NEW j \in Payments(t), outs[t][j].to = outs[t][i].to
                 PROVE  outs[t][j] = outs[t][i]
      OBVIOUS
    <3>1. /\ outs[t][j] \in [to : Wallets \cup {Stranger}, kind : {"coin", "claim", "call"}]
          /\ outs[t][i] \in [to : Wallets \cup {Stranger}, kind : {"coin", "claim", "call"}]
          /\ outs[t][j].kind = "coin"
      BY <2>2, OutsFacts DEF Payments
    <3> QED
      BY <2>2, <3>1
  <2>10. Shown(t) = Received(t)
    BY <1>1 DEF Shown, Received, Payments, Credulous
  <2>3. NamedFor(d.uid, d.address) = {j \in Payments(t) : outs[t][j] = outs[t][i]}
    BY <1>1, <2>1, <2>2, <2>9, <2>10 DEF NamedFor, Named, Received, ByOutput
  <2>4. n = Cardinality(NamedFor(d.uid, d.address))
    BY <2>3
  <2> HIDE DEF d, n
  <2>5. n \in Nat
    BY <2>1, <2>4, NamedFacts
  <2>6. KnownUid(d.uid)
    BY <2>1, TxFacts DEF KnownUid, ByTx, ByOutput, OneOutputOnly, Final
  <2>7. Confirmations(minedIn[t]) > MinConfirmations => Settled(d.uid)
    BY <1>1, <2>1, TxFacts DEF Settled, Confirmations
  <2>8. Sound(d) /\ AsRead(d)
    BY <1>1, <2>1, <2>4, <2>5, <2>6, <2>7, TxFacts DEF Sound, AsRead, Late
  <2> QED
    BY <2>8 DEF d
<1>2. ASSUME NEW A \in MoneroList(from, target), A # Exception, NEW d \in A
      PROVE  \E t \in Txs : minedIn[t] # 0 /\ \E i \in Received(t) : d = MoneroDeposit(t, i)
  <2>1. PICK t \in Mined(from, target) : \E i \in Received(t) : d = MoneroDeposit(t, i)
    BY <1>2 DEF MoneroList
  <2>2. t \in Txs /\ minedIn[t] # 0
    BY TxFacts DEF Mined
  <2> QED
    BY <2>1, <2>2
<1>3. ASSUME NEW u \in Saved, NEW A \in MoneroFind(u), A # Exception, NEW d \in A
      PROVE  /\ u[1] \in Txs /\ minedIn[u[1]] # 0
             /\ \E i \in Received(u[1]) : d = MoneroDeposit(u[1], i)
  BY <1>3 DEF MoneroFind, Saved, Uids
<1>4. \A u \in Saved : \A A \in MoneroFind(u) : A = Exception \/ SoundAnswer(A)
  BY <1>1, <1>3 DEF SoundAnswer
<1>5. \A A \in MoneroList(from, target) : A = Exception \/ SoundAnswer(A)
  BY <1>1, <1>2 DEF SoundAnswer
<1> QED
  BY <1>4, <1>5, ExceptionSound DEF SoundAnswer

\* Whatever the currency, the poller hears of uids it may save, of amounts their
\* outputs pay, and of "confirmed" only where no fork will reach.
LEMMA Answers ==
    ASSUME TypeOK, client # "neo"
    PROVE  /\ \A A \in List(from, target) : SoundAnswer(A)
           /\ \A u \in Saved : RowOK(u) => \A A \in Find(u, row[u]) : SoundAnswer(A)
<1>1. client \in {"btc", "eth", "erc20", "xlm", "eos", "xdac", "xem", "trx", "xmr", "etn", "xrp"}
  BY ClientPollerAssumption DEF TypeOK
<1>2. CASE client = "btc"
  BY <1>2, BtcAnswers DEF List, Find
<1>3. CASE client = "eth"
  BY <1>3, EthAnswers DEF List, Find
<1>4. CASE client = "erc20"
  BY <1>4, Erc20Answers DEF List, Find
<1>5. CASE client = "xlm"
  BY <1>5, StellarAnswers DEF List, Find
<1>6. CASE client = "eos"
  BY <1>6, EosAnswers DEF List, Find
<1>7. CASE client = "xdac"
  BY <1>7, EosAnswers DEF List, Find, XdacList, XdacFind
<1>8. CASE client = "xem"
  BY <1>8, NemAnswers DEF List, Find
<1>9. CASE client = "trx"
  BY <1>9, TronAnswers DEF List, Find
<1>10. CASE client = "xmr"
  BY <1>10, MoneroAnswers DEF List, Find
<1>11. CASE client = "etn"
  BY <1>11, MoneroAnswers DEF List, Find, EtnList, EtnFind
<1>12. CASE client = "xrp"
  BY <1>12, RippleAnswers DEF List, Find
<1> QED
  BY <1>1, <1>2, <1>3, <1>4, <1>5, <1>6, <1>7, <1>8, <1>9, <1>10, <1>11, <1>12
-----------------------------------------------------------------------------
(* What the clients list is complete *)

LEMMA BlockIsNoNull == \A n \in Nat : n # Null
  BY ClientPollerAssumption

\* The one output of t is a payment to the vault, in a block to be listed.
Payment(t) ==
    /\ minedIn[t] \in 1 .. height
    /\ t \in Mined(from, target) /\ t \in Mined(from - 1, target) /\ t \in Mined(from, height)
    /\ t \in Mined(from, IF target < height THEN target ELSE height)
    /\ outs[t][1].to \in Wallets /\ outs[t][1].kind = "coin"
    /\ DOMAIN outs[t] = {1} /\ Payments(t) = {1} /\ Claims(t) = {1} /\ Received(t) = {1}

LEMMA PaymentFacts ==
    ASSUME TypeOK, NEW t \in Txs, Listable(t), minedIn[t] \in from + 1 .. target
    PROVE  Payment(t)
<1>1. minedIn[t] \in 1 .. height /\ target <= height
  BY TxFacts
<1>2. DOMAIN outs[t] = {1} /\ outs[t][1].to \in Wallets /\ outs[t][1].kind = "coin"
  BY OutsFacts, TxFacts DEF Listable
<1>3. Payments(t) = {1} /\ Claims(t) = {1} /\ Received(t) = {1}
  BY <1>2 DEF Payments, Claims, Received
<1> QED
  BY <1>1, <1>2, <1>3, TxFacts DEF Payment, Mined

LEMMA NemCounts ==
    ASSUME TypeOK, client = "xem", NEW t \in Txs, Listable(t), Payment(t)
    PROVE  \A A \in NemList(from, target) : NemDeposit(t) \in A
<1> DEFINE S == {s \in Txs : outs[s][1].to = outs[t][1].to}
           Later(r) == {s \in Txs : /\ outs[s][1].to = outs[r][1].to
                                    /\ \/ minedIn[s] > minedIn[r]
                                       \/ minedIn[s] = minedIn[r] /\ s > r}
<1>1. IsFiniteSet(S) /\ Cardinality(S) <= IncomingPage /\ t \in S
  BY FS_Subset, ClientPollerAssumption DEF Listable
<1>2. Later(t) \in SUBSET (S \ {t})
  BY TxFacts
<1>3. IncomingPage \in Nat
  BY ClientPollerAssumption
<1>4. NemList(from, target) =
          {{NemDeposit(r) : r \in {q \in Mined(from, target) :
              outs[q][1].kind # "call" /\ Cardinality(Later(q)) < IncomingPage}}}
  BY DEF NemList
<1>5. Cardinality(Later(t)) < IncomingPage
  <2> HIDE DEF S, Later
  <2>1. IsFiniteSet(S \ {t}) /\ Cardinality(S \ {t}) = Cardinality(S) - 1
    BY <1>1, FS_RemoveElement
  <2>2. Cardinality(Later(t)) <= Cardinality(S \ {t}) /\ IsFiniteSet(Later(t))
    BY <1>2, <2>1, FS_Subset
  <2>3. Cardinality(S) \in Nat /\ Cardinality(Later(t)) \in Nat
    BY <1>1, <2>2, CardNat
  <2> QED
    BY <1>1, <1>3, <2>1, <2>2, <2>3
<1> HIDE DEF Later
<1> QED
  BY <1>4, <1>5 DEF Payment

LEMMA LedgerFinite ==
    ASSUME TypeOK, NEW t \in Txs
    PROVE  /\ IsFiniteSet(Txs \X (1 .. MaxHeight)) /\ InLedger(t) \subseteq Txs \X (1 .. MaxHeight)
           /\ IsFiniteSet(InLedger(t)) /\ \A s \in Txs : Claims(s) \subseteq 1 .. MaxHeight
<1>1. IsFiniteSet(1 .. MaxHeight)
  BY FS_Interval, TxFacts
<1>2. IsFiniteSet(Txs \X (1 .. MaxHeight))
  BY <1>1, FS_Product, ClientPollerAssumption
<1>3. \A s \in Txs : Claims(s) \subseteq 1 .. MaxHeight
  BY OutsFacts DEF Claims
<1>4. InLedger(t) \subseteq Txs \X (1 .. MaxHeight)
  BY <1>3 DEF InLedger
<1> QED
  BY <1>2, <1>3, <1>4, FS_Subset

LEMMA StellarCounts ==
    ASSUME TypeOK, client = "xlm", NEW t \in Txs, Listable(t), Payment(t)
    PROVE  Cardinality(Earlier(t, 1)) < PaymentsPage
<1>1. /\ IsFiniteSet(InLedger(t)) /\ Cardinality(InLedger(t)) <= PaymentsPage
      /\ PaymentsPage \in Nat
  BY LedgerFinite, ClientPollerAssumption DEF Listable
<1>2. <<t, 1>> \in InLedger(t)
  BY DEF InLedger, Payment
<1>3. Earlier(t, 1) \in SUBSET (InLedger(t) \ {<<t, 1>>})
  <2> SUFFICES ASSUME NEW p \in Earlier(t, 1) PROVE p \in InLedger(t) /\ p # <<t, 1>>
    OBVIOUS
  <2>1. p \in InLedger(t) /\ (p[1] < t \/ (p[1] = t /\ p[2] < 1))
    BY DEF Earlier, InLedger
  <2> QED
    BY <2>1, TxFacts
<1>4. /\ IsFiniteSet(InLedger(t) \ {<<t, 1>>})
      /\ Cardinality(InLedger(t) \ {<<t, 1>>}) = Cardinality(InLedger(t)) - 1
  BY <1>1, <1>2, FS_RemoveElement
<1>5. /\ Cardinality(Earlier(t, 1)) <= Cardinality(InLedger(t) \ {<<t, 1>>})
      /\ IsFiniteSet(Earlier(t, 1))
  BY <1>3, <1>4, FS_Subset
<1>6. Cardinality(InLedger(t)) \in Nat /\ Cardinality(Earlier(t, 1)) \in Nat
  BY <1>1, <1>5, CardNat
<1> QED
  BY <1>1, <1>4, <1>5, <1>6

LEMMA ListComplete ==
    ASSUME TypeOK, client # "neo", NEW A \in List(from, target),
           NEW t \in Txs, Listable(t), minedIn[t] \in from + 1 .. target
    PROVE  Awaited(t, A)
<1>1. client \in {"btc", "eth", "erc20", "xlm", "eos", "xdac", "xem", "trx", "xmr", "etn", "xrp"}
  BY ClientPollerAssumption DEF TypeOK
<1>2. Payment(t) /\ minedIn[t] # 0 /\ minedIn[t] # Null /\ 0 # Null
  BY PaymentFacts, TxFacts, BlockIsNoNull DEF Payment
<1>3. CASE client = "btc"
  <2>1. BtcDeposit(t, outs[t][1].to, 1) \in A
    BY <1>2, <1>3 DEF List, BtcList, Payment
  <2> QED
    BY <1>2, <2>1 DEF BtcDeposit, BtcUid, Deposit, Savable, Payment, Awaited
<1>4. CASE client = "eth"
  <2>1. EthDeposit(t) \in A
    BY <1>2, <1>4 DEF List, EthList, Payment, EthIsValidTx
  <2> QED
    BY <1>2, <2>1 DEF EthDeposit, EthUid, Reading, Deposit, Savable, Payment, Awaited
<1>5. CASE client = "erc20"
  <2>1. Erc20Deposits(t) \subseteq A
    BY <1>2, <1>5 DEF List, Erc20List, Payment
  <2> QED
    BY <1>2, <2>1 DEF Erc20Deposits, TokenTransfer, EthDeposit, EthUid, Reading, Deposit, Savable, Payment, Awaited
<1>6. CASE client = "xlm"
  <2>1. StellarDeposit(t, 1) \in A
    BY <1>2, <1>6, StellarCounts DEF List, StellarList, Payment
  <2> QED
    BY <1>2, <2>1 DEF StellarDeposit, StellarUid, Reading, Deposit, Savable, Payment, Awaited
<1>7. CASE client \in {"eos", "xdac"}
  <2>1. EosDeposit(t, 1) \in A
    BY <1>2, <1>7 DEF List, XdacList, EosList, Payment
  <2>2. EosUid(t, 1)[1] = t
    BY <1>2, EosUidFacts DEF Payment
  <2> QED
    BY <1>2, <2>1, <2>2 DEF EosDeposit, Reading, Deposit, Savable, Payment, Awaited
<1>8. CASE client = "xem"
  <2>1. NemDeposit(t) \in A
    BY <1>2, <1>8, NemCounts DEF List
  <2> QED
    BY <1>2, <2>1 DEF NemDeposit, NemUid, Reading, Deposit, Savable, Payment, Awaited
<1>9. CASE client = "trx"
  <2>1. \A s \in Mined(minedIn[t] - 1, minedIn[t]) : s = t
    BY <1>2, <1>9, TxFacts DEF Mined, Listable, Payment
  <2>2. TronDeposit(t, minedIn[t]) \in A
    BY <1>2, <1>9, <2>1, TxFacts DEF List, TronList, Payment
  <2> QED
    BY <1>2, <2>2 DEF TronDeposit, TronUid, Reading, Deposit, Savable, Payment, Awaited
<1>10. CASE client \in {"xmr", "etn"}
  <2>1. A = Exception \/ MoneroDeposit(t, 1) \in A
    BY <1>2, <1>10 DEF List, EtnList, MoneroList, Payment
  <2>2. CASE A = Exception
    BY <2>2 DEF Exception, Deposit, Awaited
  <2> QED
    BY <1>2, <2>1, <2>2 DEF MoneroDeposit, MoneroUid, Deposit, Savable, Payment, Awaited
<1>11. CASE client = "xrp"
  <2>1. RippleDeposit(t) \in A
    BY <1>2, <1>11 DEF List, RippleList, RippleIsValidTx, Payment
  <2> QED
    BY <1>2, <2>1 DEF RippleDeposit, RippleUid, Deposit, Savable, Payment, Awaited
<1> QED
  BY <1>1, <1>3, <1>4, <1>5, <1>6, <1>7, <1>8, <1>9, <1>10, <1>11
-----------------------------------------------------------------------------
(* Steps of the chain *)

\* A step may add blocks, and move transactions no deeper than MaxReorg.
ChainMoves ==
    /\ UNCHANGED <<client, outs, reading, stale, db, cache, memory, ether>>
    /\ moved' \in SUBSET Txs /\ moved \subseteq moved'
    /\ reading =>
          \A t \in Txs : minedIn[t] # 0 /\ minedIn'[t] # minedIn[t] => t \in moved'
    /\ height' \in height .. MaxHeight /\ faults' \in faults .. MaxFaults
    /\ minedIn' \in [Txs -> 0 .. height']
    /\ forked' \in SUBSET Txs /\ forked \subseteq forked'
    /\ \A t \in Txs :
          minedIn[t] # 0 /\ (client \in Final \/ Confirmations(minedIn[t]) + 1 >= MinConfirmations)
              => minedIn'[t] = minedIn[t]
    /\ \A t \in Txs : t \notin forked' /\ minedIn'[t] # minedIn[t] =>
          minedIn[t] = 0 /\ minedIn'[t] = height + 1

LEMMA MineMoves == ASSUME TypeOK, NEW S \in SUBSET Txs, Mine(S) PROVE ChainMoves
<1>1. /\ height' = height + 1 /\ height' \in height .. MaxHeight
      /\ faults' = faults /\ faults \in 0 .. MaxFaults /\ MaxFaults \in Nat
      /\ forked' = forked /\ forked \in SUBSET Txs
      /\ moved' = moved /\ moved \in SUBSET Txs
      /\ UNCHANGED <<client, outs, reading, stale, db, cache, memory, ether>>
  BY TxFacts, ClientPollerAssumption DEF Mine, TypeOK, late
<1>2. \A t \in Txs : minedIn'[t] = IF t \in S THEN height + 1 ELSE minedIn[t]
  BY DEF Mine
<1>3. minedIn' \in [Txs -> 0 .. height']
  BY <1>1, TxFacts DEF Mine
<1>4. \A t \in S : minedIn[t] = 0
  BY DEF Mine
<1> QED
  BY <1>1, <1>2, <1>3, <1>4 DEF ChainMoves

LEMMA ReorgMoves == ASSUME TypeOK, NEW d \in 1 .. MaxReorg, Reorg(d) PROVE ChainMoves
<1> DEFINE fork == height - d + 1 .. height
<1>1. /\ height' = height /\ height \in 1 .. MaxHeight /\ MaxHeight \in Nat
      /\ faults' = faults + 1 /\ faults' \in faults .. MaxFaults
      /\ forked' = forked \cup {t \in Txs : minedIn'[t] # minedIn[t]} /\ forked \in SUBSET Txs
      /\ client \notin Final
      /\ UNCHANGED <<client, outs, reading, stale, db, cache, memory, ether>>
  BY TxFacts, ClientPollerAssumption DEF Reorg, TypeOK
<1>7. /\ moved' \in SUBSET Txs /\ moved \subseteq moved'
      /\ reading => \A t \in Txs : minedIn'[t] # minedIn[t] => t \in moved'
  BY DEF Reorg, TypeOK
<1>2. /\ minedIn' \in [Txs -> {0} \cup fork \cup {minedIn[t] : t \in Txs}]
      /\ \A t \in Txs : minedIn[t] \notin fork \cup {0} => minedIn'[t] = minedIn[t]
  BY DEF Reorg
<1>3. d \in Nat \ {0} /\ d < MinConfirmations /\ MinConfirmations \in Nat /\ d < height
  BY ClientPollerAssumption DEF Reorg
<1>4. {0} \cup fork \cup {minedIn[t] : t \in Txs} \subseteq 0 .. height
  BY <1>1, <1>3, TxFacts
<1>5. minedIn' \in [Txs -> 0 .. height']
  BY <1>1, <1>2, <1>4
<1>6. \A t \in Txs : minedIn[t] # 0 /\ Confirmations(minedIn[t]) + 1 >= MinConfirmations
          => minedIn[t] \notin fork \cup {0}
  BY <1>1, <1>3, TxFacts DEF Confirmations
<1> QED
  BY <1>1, <1>2, <1>5, <1>6, <1>7 DEF ChainMoves

LEMMA ChainStepInv == ASSUME IInv, ChainMoves PROVE IInv'
<1> USE DEF db, cache, memory, ether
<1>1. TypeOK /\ TypeOK'
  <2>1. TypeOK /\ height \in 1 .. MaxHeight /\ MaxHeight \in Nat /\ faults \in 0 .. MaxFaults
        /\ MaxFaults \in Nat
    BY TxFacts, ClientPollerAssumption DEF IInv, TypeOK
  <2>2. Saved' = Saved
    BY DEF ChainMoves, Saved
  <2> QED
    BY <2>1, <2>2 DEF ChainMoves, TypeOK
<1>2. /\ Saved' = Saved /\ Loaded' = Loaded
      /\ \A u : Named(u)' = Named(u)
      /\ \A u, a : NamedFor(u, a)' = NamedFor(u, a)
      /\ \A t : UsedOf(t)' = UsedOf(t) /\ (HasRow(t)' <=> HasRow(t))
  BY DEF ChainMoves, Saved, Loaded, Named, NamedFor, Shown, UsedOf, HasRow
<1>3. \A w : UsedFor(w)' = UsedFor(w)
  BY <1>2 DEF ChainMoves, UsedFor
<1>4. ASSUME NEW u \in Uids PROVE /\ Settled(u) => Settled(u)'
                                  /\ KnownUid(u) => KnownUid(u)'
  <2>1. u[1] \in Txs
    BY DEF Uids
  <2>2. height' \in Nat /\ height \in Nat /\ height' >= height /\ client' = client
        /\ outs' = outs /\ minedIn[u[1]] \in Nat /\ MinConfirmations \in Nat
    BY <1>1, <2>1, TxFacts DEF ChainMoves
  <2>3. Settled(u) => Settled(u)'
    BY <2>1, <2>2 DEF ChainMoves, Settled, Confirmations
  <2>4. KnownUid(u) => KnownUid(u)'
    BY <2>1, <2>2 DEF ChainMoves, KnownUid, Shown
  <2> QED
    BY <2>3, <2>4
<1>5. \A u \in Saved' : RowOK(u)'
  <2> SUFFICES ASSUME NEW u \in Saved PROVE RowOK(u)'
    BY <1>2
  <2>1. RowOK(u) /\ u \in Uids
    BY DEF IInv, Saved
  <2>2. KnownUid(u)' /\ (row[u].loaded => client \notin Keyed /\ Settled(u)')
    BY <1>4, <2>1 DEF RowOK
  <2>3. NamedFor(u, row[u].address)' = NamedFor(u, row[u].address)
    BY <1>2 DEF ChainMoves
  <2> QED
    BY <2>1, <2>2, <2>3 DEF RowOK, ChainMoves
<1>6. Coming'
  <2> SUFFICES ASSUME NEW d \in queue, Savable(d) PROVE Sound(d)' /\ Fresh(d)'
    BY DEF Coming, ChainMoves, Savable
  <2>1. Sound(d) /\ d.uid \in Uids
    BY DEF IInv, Coming, Sound, KnownUid
  <2>4. Fresh(d)'
    <3>1. Fresh(d) /\ d.uid[1] \in Txs /\ d.block \in Nat
      BY <2>1, TxFacts DEF IInv, Coming, Uids, Sound
    <3> QED
      BY <3>1 DEF Fresh, ChainMoves
  <2>2. KnownUid(d.uid)' /\ (d.status = "confirmed" => client \in Keyed \/ Settled(d.uid)')
    BY <1>4, <2>1 DEF Sound
  <2>3. NamedFor(d.uid, d.address)' = NamedFor(d.uid, d.address)
    BY <1>2
  <2> QED
    BY <2>1, <2>2, <2>3, <2>4 DEF Sound, ChainMoves
<1>7. DueOK'
  <2>1. due # None => due \in Uids
    BY <1>1 DEF TypeOK, Saved
  <2> QED
    BY <1>4, <2>1 DEF IInv, DueOK, ChainMoves
<1>8. Placed' /\ Counted'
  BY <1>2, <1>3 DEF IInv, Placed, Counted, ChainMoves
<1>9. TopUpsOK'
  <2>2. Cardinality(Loaded) \in Nat
    BY LoadedFinite
  <2>3. /\ faults \in Nat /\ faults' \in Nat /\ faults' >= faults /\ topUps \in Nat
        /\ topUps' = topUps /\ waiting' = waiting /\ waiting \in BOOLEAN
    BY <1>1, ClientPollerAssumption DEF ChainMoves, TypeOK
  <2> QED
    BY <1>2, <2>2, <2>3 DEF IInv, TopUpsOK
<1>10. ASSUME NEW t \in Txs, Listable(t)', minedIn'[t] \in 1 .. height
       PROVE  Listable(t) /\ minedIn'[t] = minedIn[t]
  <2>1. height \in Nat /\ t \notin forked' /\ t \notin forked
    BY <1>1, <1>10, TxFacts DEF ChainMoves, Listable
  <2>2. minedIn'[t] = minedIn[t]
    BY <1>10, <2>1 DEF ChainMoves
  <2>3. client = "trx" => forked = {} /\ \A s \in Txs \ {t} : minedIn[s] # minedIn[t]
    <3> SUFFICES ASSUME client = "trx", NEW s \in Txs \ {t}, minedIn[s] = minedIn[t] PROVE FALSE
      BY <1>10 DEF ChainMoves, Listable
    <3>1. forked' = {} /\ minedIn'[s] # minedIn'[t]
      BY <1>10 DEF ChainMoves, Listable
    <3>2. minedIn[s] = 0
      BY <2>2, <3>1 DEF ChainMoves
    <3> QED
      BY <1>10, <2>2, <3>2
  <2>4. client = "xlm" => Cardinality(InLedger(t)) <= PaymentsPage
    <3> SUFFICES ASSUME client = "xlm" PROVE Cardinality(InLedger(t)) <= PaymentsPage
      OBVIOUS
    <3>1. \A s \in Txs : minedIn[s] # 0 => minedIn'[s] = minedIn[s]
      BY DEF ChainMoves, Final
    <3>2. minedIn[t] # 0 /\ \A s : Claims(s)' = Claims(s)
      BY <1>10, <2>2 DEF ChainMoves, Claims
    <3>3. InLedger(t) \subseteq InLedger(t)'
      BY <2>2, <3>1, <3>2 DEF InLedger
    <3>4. IsFiniteSet(InLedger(t)) /\ IsFiniteSet(InLedger(t)')
      <4>1. /\ IsFiniteSet(InLedger(t)) /\ IsFiniteSet(Txs \X (1 .. MaxHeight))
            /\ \A s \in Txs : Claims(s)' \subseteq 1 .. MaxHeight
        BY <1>1, <3>2, LedgerFinite
      <4>2. InLedger(t)' \subseteq Txs \X (1 .. MaxHeight)
        BY <4>1 DEF InLedger
      <4> QED
        BY <4>1, <4>2, FS_Subset
    <3>5. /\ Cardinality(InLedger(t)) <= Cardinality(InLedger(t)')
          /\ Cardinality(InLedger(t)) \in Nat /\ Cardinality(InLedger(t)') \in Nat
      BY <3>3, <3>4, FS_Subset, CardNat
    <3>6. Cardinality(InLedger(t)') <= PaymentsPage /\ PaymentsPage \in Nat
      BY <1>10, ClientPollerAssumption DEF Listable, ChainMoves
    <3> QED
      BY <3>5, <3>6
  <2> QED
    BY <1>10, <2>1, <2>2, <2>3, <2>4 DEF ChainMoves, Listable
<1>11. Covered' /\ Listed'
  <2>1. /\ since' = since /\ cursor' = cursor /\ at' = at /\ from' = from /\ target' = target
        /\ queue' = queue
        /\ since \in Nat /\ cursor \in 0 .. height /\ from \in 0 .. height /\ target \in 0 .. height
        /\ height \in Nat
    BY <1>1, TxFacts DEF ChainMoves, TypeOK
  <2>2. Covered'
    BY <1>2, <1>10, <2>1 DEF IInv, Covered
  <2>3. Listed'
    BY <1>2, <1>10, <2>1 DEF IInv, Listed, Awaited, Savable, ChainMoves
  <2> QED
    BY <2>2, <2>3
<1> QED
  BY <1>1, <1>5, <1>6, <1>7, <1>8, <1>9, <1>11 DEF IInv
-----------------------------------------------------------------------------
(* Steps of the poller that leave the tables alone *)

LEMMA SameRows ==
    ASSUME UNCHANGED <<client, chain, stale, row>>
    PROVE  /\ Saved' = Saved /\ Loaded' = Loaded
           /\ \A u : /\ Settled(u)' <=> Settled(u)
                     /\ KnownUid(u)' <=> KnownUid(u)
                     /\ RowOK(u)' <=> RowOK(u)
           /\ \A u, a : NamedFor(u, a)' = NamedFor(u, a)
           /\ \A d : (Sound(d)' <=> Sound(d)) /\ (Savable(d)' <=> Savable(d))
           /\ UNCHANGED late => \A d : Fresh(d)' <=> Fresh(d)
           /\ \A t : /\ Listable(t)' <=> Listable(t)
                     /\ HasRow(t)' <=> HasRow(t)
                     /\ UsedOf(t)' = UsedOf(t)
           /\ \A w : UsedFor(w)' = UsedFor(w)
<1> USE DEF chain
<1>1. Saved' = Saved /\ Loaded' = Loaded
  BY DEF Saved, Loaded
<1>2. \A u, a : NamedFor(u, a)' = NamedFor(u, a) /\ Named(u)' = Named(u)
  BY DEF NamedFor, Named, Shown
<1>3. \A u : (Settled(u)' <=> Settled(u)) /\ (KnownUid(u)' <=> KnownUid(u))
  BY DEF Settled, KnownUid, Shown, Confirmations
<1>4. \A u : RowOK(u)' <=> RowOK(u)
  <2> TAKE u
  <2>1. NamedFor(u, row[u].address)' = NamedFor(u, row[u].address)
    BY <1>2
  <2> QED
    BY <1>3, <2>1 DEF RowOK
<1>5. \A d : (Sound(d)' <=> Sound(d)) /\ (Savable(d)' <=> Savable(d))
  <2> TAKE d
  <2>1. NamedFor(d.uid, d.address)' = NamedFor(d.uid, d.address)
    BY <1>2
  <2> QED
    BY <1>3, <2>1 DEF Sound, Savable
<1>6. \A t : (HasRow(t)' <=> HasRow(t)) /\ UsedOf(t)' = UsedOf(t)
  BY <1>1, <1>2 DEF HasRow, UsedOf, Shown
<1>7. \A t : Listable(t)' <=> Listable(t)
  BY DEF Listable, InLedger, Claims
<1>9. UNCHANGED late => \A d : Fresh(d)' <=> Fresh(d)
  BY DEF late, Fresh
<1>8. \A w : UsedFor(w)' = UsedFor(w)
  BY <1>6 DEF UsedFor
<1> QED
  BY <1>1, <1>2, <1>3, <1>4, <1>5, <1>6, <1>7, <1>8, <1>9

LEMMA MemoryStep ==
    ASSUME IInv, UNCHANGED <<client, chain, stale, db, cache>>,
           TypeOK', Placed', Coming', DueOK', TopUpsOK', Listed'
    PROVE  IInv'
<1>1. \A u \in Saved' : RowOK(u)'
  BY SameRows DEF IInv, db
<1>2. Counted'
  BY SameRows DEF IInv, Counted, db
<1>3. Covered'
  BY SameRows DEF IInv, Covered, chain, cache, db
<1> QED
  BY <1>1, <1>2, <1>3 DEF IInv

LEMMA PollerFacts ==
    ASSUME IInv
    PROVE  /\ TypeOK /\ Placed /\ Coming /\ DueOK /\ TopUpsOK /\ Listed
           /\ height \in Nat /\ cursor \in 1 .. height /\ faults \in Nat /\ topUps \in Nat
           /\ Cardinality(Loaded) \in Nat
           /\ MaxBlocks \in Nat \ {0}
  BY LoadedFinite, TxFacts, ClientPollerAssumption DEF IInv, TypeOK, Placed

\* What was loaded stays loaded; a top-up that nobody waits for is paid for.
LEMMA RestartInv ==
    ASSUME IInv, Restart, UNCHANGED ether,
           (UNCHANGED faults /\ ~waiting) \/ (faults < MaxFaults /\ faults' = faults + 1)
    PROVE  IInv'
<1> USE DEF Restart, chain, db, cache, ether
<1>1. Saved' = Saved /\ Loaded' = Loaded
  BY SameRows
<1>2. TypeOK'
  <2>1. faults' \in 0 .. MaxFaults
    BY PollerFacts, ClientPollerAssumption DEF TypeOK
  <2>2. from' \in 0 .. height /\ target' \in from' .. height
    BY PollerFacts
  <2>3. page' \subseteq Saved /\ due' \in Saved \cup {None} /\ waiting' \in BOOLEAN
    OBVIOUS
  <2> QED
    BY PollerFacts, <1>1, <2>1, <2>2, <2>3 DEF TypeOK
<1>3. Placed' /\ Coming' /\ DueOK' /\ Listed'
  BY PollerFacts DEF Placed, Coming, DueOK, Listed
<1>4. TopUpsOK'
  BY PollerFacts, <1>1 DEF TopUpsOK
<1> QED
  BY <1>2, <1>3, <1>4, MemoryStep

LEMMA CountInv == ASSUME IInv, Count PROVE IInv'
<1> USE DEF Count, late, ether
<1>1. Saved' = Saved /\ Loaded' = Loaded
  BY SameRows DEF db
<1>2. client # "neo" /\ target' = height
  BY DEF CountBlocks, NeoCountBlocks
<1>3. TypeOK'
  BY PollerFacts, <1>1, <1>2 DEF TypeOK, chain, db, cache
<1>4. Placed'
  BY PollerFacts, <1>2 DEF Placed, cache
<1>5. Coming'
  BY PollerFacts, SameRows DEF Coming, db
<1>6. DueOK'
  BY PollerFacts, SameRows DEF DueOK, db
<1>7. TopUpsOK' /\ Listed'
  BY PollerFacts, <1>1 DEF TopUpsOK, Listed
<1> QED
  BY <1>3, <1>4, <1>5, <1>6, <1>7, MemoryStep

LEMMA ReadCursorInv == ASSUME IInv, ReadCursor PROVE IInv'
<1> USE DEF ReadCursor, late, ether, cache
<1>1. Saved' = Saved /\ Loaded' = Loaded
  BY SameRows DEF db
<1>2. at = "cursor" /\ cursor # 0 /\ cursor \in Nat /\ target \in Nat /\ target >= cursor
      /\ target <= height
  BY PollerFacts, TxFacts DEF Placed
<1>3. /\ from' = cursor /\ UNCHANGED <<cursor, since>>
      /\ target' = IF cursor + MaxBlocks < target THEN cursor + MaxBlocks ELSE target
      /\ at' = IF cursor = target THEN "store" ELSE "pending"
  BY <1>2
<1>4. target' \in from' .. height /\ (at' = "store" => target' = from')
  BY <1>2, <1>3, PollerFacts
<1>5. TypeOK'
  BY PollerFacts, <1>1, <1>3, <1>4 DEF TypeOK, chain, db
<1>6. Placed'
  BY PollerFacts, <1>2, <1>3, <1>4 DEF Placed
<1>7. Coming'
  BY PollerFacts, SameRows DEF Coming, db
<1>8. DueOK'
  BY PollerFacts, SameRows DEF DueOK, db
<1>9. TopUpsOK' /\ Listed'
  BY PollerFacts, <1>1, <1>3 DEF TopUpsOK, Listed
<1> QED
  BY <1>3, <1>5, <1>6, <1>7, <1>8, <1>9, MemoryStep

LEMMA ListPendingInv == ASSUME IInv, NEW S \in SUBSET Saved, ListPending(S) PROVE IInv'
<1> USE DEF ListPending, late, ether
<1>1. Saved' = Saved /\ Loaded' = Loaded
  BY SameRows DEF db
<1>2. TypeOK'
  BY PollerFacts, <1>1 DEF TypeOK, chain, db, cache
<1>3. Placed'
  BY PollerFacts DEF Placed, cache
<1>4. Coming'
  BY PollerFacts, SameRows DEF Coming, db
<1>5. DueOK'
  BY PollerFacts, SameRows DEF DueOK, db
<1>6. TopUpsOK' /\ Listed'
  BY PollerFacts, <1>1 DEF TopUpsOK, Listed
<1> QED
  BY <1>2, <1>3, <1>4, <1>5, <1>6, MemoryStep

LEMMA FindTransactionInv == ASSUME IInv, NEW u \in page, FindTransaction(u) PROVE IInv'
<1> USE DEF FindTransaction, ether
<1>1. Saved' = Saved /\ Loaded' = Loaded
  BY SameRows DEF db
<1>2. u \in Saved /\ RowOK(u) /\ client # "neo"
  BY PollerFacts DEF IInv, TypeOK, Placed
<1>9. reading' => client \in Late
  OBVIOUS
<1>3. SoundAnswer(queue')
  BY <1>2, PollerFacts, Answers
<1>4. TypeOK'
  BY PollerFacts, <1>1 DEF TypeOK, chain, db, cache
<1>5. Placed'
  BY PollerFacts DEF Placed, cache
<1>6. Coming'
  <2> SUFFICES ASSUME NEW d \in queue', Savable(d) PROVE Sound(d)' /\ Fresh(d)'
    BY DEF Coming, Savable
  <2>1. Sound(d) /\ AsRead(d)
    BY <1>3 DEF SoundAnswer
  <2> QED
    BY <2>1, SameRows DEF AsRead, Fresh, chain, db
<1>7. DueOK'
  BY PollerFacts, SameRows DEF DueOK, db
<1>8. TopUpsOK' /\ Listed'
  BY PollerFacts, <1>1 DEF TopUpsOK, Listed
<1> QED
  BY <1>4, <1>5, <1>6, <1>7, <1>8, MemoryStep

LEMMA PendingDoneInv == ASSUME IInv, PendingDone PROVE IInv'
<1> USE DEF PendingDone, late, ether
<1>1. Saved' = Saved /\ Loaded' = Loaded
  BY SameRows DEF db
<1>2. TypeOK'
  BY PollerFacts, <1>1 DEF TypeOK, chain, db, cache
<1>3. Placed'
  BY PollerFacts DEF Placed, cache
<1>4. Coming'
  BY PollerFacts, SameRows DEF Coming, db
<1>5. DueOK'
  BY PollerFacts, SameRows DEF DueOK, db
<1>6. TopUpsOK' /\ Listed'
  BY PollerFacts, <1>1 DEF TopUpsOK, Listed
<1> QED
  BY <1>2, <1>3, <1>4, <1>5, <1>6, MemoryStep

LEMMA ListTransactionsInv == ASSUME IInv, ListTransactionsSinceBlock PROVE IInv'
<1> USE DEF ListTransactionsSinceBlock, ether
<1>1. Saved' = Saved /\ Loaded' = Loaded
  BY SameRows DEF db
<1>2. at = "list" /\ client # "neo"
  BY PollerFacts DEF Placed
<1>3. SoundAnswer(queue')
  BY <1>2, PollerFacts, Answers
<1>4. TypeOK'
  BY PollerFacts, <1>1 DEF TypeOK, chain, db, cache
<1>5. Placed'
  BY PollerFacts DEF Placed, cache
<1>6. Coming'
  <2> SUFFICES ASSUME NEW d \in queue', Savable(d) PROVE Sound(d)' /\ Fresh(d)'
    BY DEF Coming, Savable
  <2>1. Sound(d) /\ AsRead(d)
    BY <1>3 DEF SoundAnswer
  <2> QED
    BY <2>1, SameRows DEF AsRead, Fresh, chain, db
<1>7. DueOK'
  BY PollerFacts, SameRows DEF DueOK, db
<1>8. TopUpsOK'
  BY PollerFacts, <1>1 DEF TopUpsOK
<1>9. Listed'
  <2>1. \A t \in Txs : Listable(t) /\ minedIn[t] \in from + 1 .. target =>
            Awaited(t, queue')
    BY <1>2, PollerFacts, ListComplete
  <2> QED
    BY <2>1, SameRows DEF Listed, Awaited, Savable, chain, db
<1> QED
  BY <1>4, <1>5, <1>6, <1>7, <1>8, <1>9, MemoryStep

\* A block that was read and is still there is deep enough when the height says
\* so; one that a fork has dropped makes its transaction stale.
LEMMA AdaptSound ==
    ASSUME IInv, AdaptTransactions, NEW d \in queue, NEW e, e = Adapt(d), Savable(e)
    PROVE  Sound(e)'
<1> USE DEF AdaptTransactions
<1>8. Savable(d)
  BY DEF Adapt, Deposit, Savable
<1>1. client \in Late /\ d.block # Null /\ Sound(d) /\ Fresh(d) /\ reading /\ d.address \in Wallets
  BY <1>8, PollerFacts DEF DueOK, Coming, Savable
<1>2. /\ e.uid = d.uid /\ e.address = d.address /\ e.amount = d.amount /\ e.block = d.block
      /\ e.status \in {"pending", "confirmed"}
      /\ e.status = "confirmed" => Enough(Confirmations(d.block))
  BY <1>1 DEF Adapt, Deposit
<1>3. e \in queue'
  OBVIOUS
<1>4. /\ d.uid \in Uids /\ d.uid[1] \in Txs /\ d.block \in Nat
  BY <1>1, TxFacts, PollerFacts DEF Sound, KnownUid, Uids
<1>5. ASSUME e.status = "confirmed", client \notin Keyed PROVE Settled(e.uid)'
  <2>1. d.block # 0 /\ (minedIn[d.uid[1]] = d.block \/ d.uid[1] \in moved)
    BY <1>1, <1>5 DEF Fresh
  <2>2. CASE minedIn[d.uid[1]] = d.block
    <3>1. Confirmations(d.block) >= MinConfirmations
      <4>1. Enough(Confirmations(d.block)) /\ Confirmations(d.block) \in Int
            /\ MinConfirmations \in Nat
        BY <1>2, <1>4, <1>5, PollerFacts, TxFacts DEF Confirmations
      <4> QED
        BY <4>1 DEF Enough
    <3>2. Confirmations(d.block) \in Int /\ MinConfirmations \in Nat
      BY <1>4, PollerFacts, TxFacts DEF Confirmations
    <3>3. client \notin ByBlock
      BY <1>1 DEF Late, ByBlock
    <3>4. minedIn[e.uid[1]] # 0 /\ Confirmations(minedIn[e.uid[1]]) + 1 >= MinConfirmations
      BY <1>2, <2>1, <2>2, <3>1, <3>2
    <3> QED
      BY <3>3, <3>4 DEF Settled, Confirmations, chain
  <2>3. CASE minedIn[d.uid[1]] # d.block
    <3>1. d.uid[1] \in stale'
      BY <1>2, <1>3, <1>4, <1>5, <2>1, <2>3
    <3> QED
      BY <1>1, <1>2, <3>1 DEF Settled
  <2> QED
    BY <2>2, <2>3
<1>6. /\ KnownUid(e.uid)' <=> KnownUid(e.uid)
      /\ NamedFor(e.uid, e.address)' = NamedFor(e.uid, e.address)
  BY DEF KnownUid, NamedFor, Named, Shown, chain
<1> QED
  BY <1>1, <1>2, <1>5, <1>6 DEF Sound

LEMMA AdaptInv == ASSUME IInv, AdaptTransactions PROVE IInv'
<1> USE DEF AdaptTransactions, ether, chain, db, cache
<1>1. /\ UNCHANGED <<client, outs, height, minedIn, forked, row, available, credited, cursor, since,
                     at, from, target, page, due, waiting, gas, sent, topUps, faults>>
      /\ queue' = {Adapt(d) : d \in queue}
      /\ reading' = FALSE /\ moved' = {} /\ stale \subseteq stale' /\ stale' \subseteq stale \cup moved
  OBVIOUS
<1> HIDE DEF AdaptTransactions
<1>2. Saved' = Saved /\ Loaded' = Loaded
  BY <1>1 DEF Saved, Loaded
<1>3. /\ \A u : (Settled(u) => Settled(u)') /\ (KnownUid(u)' <=> KnownUid(u)) /\ Named(u)' = Named(u)
      /\ \A u, a : NamedFor(u, a)' = NamedFor(u, a)
      /\ \A t : /\ Listable(t)' <=> Listable(t)
                /\ HasRow(t)' <=> HasRow(t)
                /\ Shown(t)' = Shown(t)
  BY <1>1, <1>2
     DEF Settled, KnownUid, Confirmations, NamedFor, Named, Shown, Listable, InLedger, Claims, HasRow
<1>4. TypeOK'
  BY <1>1, <1>2, PollerFacts DEF TypeOK
<1>5. Placed' /\ TopUpsOK'
  BY <1>1, <1>2, PollerFacts DEF Placed, TopUpsOK
<1>6. ASSUME NEW u \in Saved' PROVE RowOK(u)'
  <2>1. RowOK(u)
    BY <1>2 DEF IInv
  <2>2. \A a : a = row'[u].address => NamedFor(u, a)' = NamedFor(u, row[u].address)
    BY <1>1, <1>3
  <2> QED
    BY <1>1, <1>3, <2>1, <2>2 DEF RowOK
<1>7. \A d : /\ d.block = Null => Adapt(d) = d
             /\ d.block # Null => Adapt(d).block # Null
             /\ Savable(d) => Savable(Adapt(d)) /\ Adapt(d).uid = d.uid
             /\ Savable(Adapt(d)) => Savable(d)
  BY DEF Adapt, Savable, Deposit
<1>8. Coming'
  <2> SUFFICES ASSUME NEW e \in queue', Savable(e) PROVE Sound(e)' /\ Fresh(e)'
    BY DEF Coming, Savable
  <2>1. PICK d \in queue : e = Adapt(d)
    BY <1>1
  <2>2. Sound(e)'
    BY <2>1, AdaptSound
  <2> QED
    BY <1>1, <2>2 DEF Fresh
<1>9. DueOK'
  BY <1>1, <1>3, PollerFacts DEF DueOK
<1>10. Counted'
  <2>1. \A t : UsedOf(t)' = UsedOf(t)
    BY <1>2, <1>3 DEF UsedOf
  <2>2. \A w : UsedFor(w)' = UsedFor(w)
    BY <1>1, <2>1 DEF UsedFor
  <2> QED
    BY <1>1, <2>1, <2>2 DEF IInv, Counted
<1>11. Covered'
  BY <1>1, <1>3 DEF IInv, Covered
<1>12. Listed'
  <2>1. \A t : Awaited(t, queue) => Awaited(t, queue')
    BY <1>1, <1>7 DEF Awaited
  <2> QED
    BY <1>1, <1>3, <2>1 DEF IInv, Listed, Awaited, Savable
<1> QED
  BY <1>4, <1>5, <1>6, <1>8, <1>9, <1>10, <1>11, <1>12 DEF IInv

LEMMA NotInterestingInv == ASSUME IInv, NEW d \in queue, NotInteresting(d) PROVE IInv'
<1> USE DEF NotInteresting, late, ether
<1>1. Saved' = Saved /\ Loaded' = Loaded
  BY SameRows DEF db
<1>2. TypeOK'
  BY PollerFacts, <1>1 DEF TypeOK, chain, db, cache
<1>3. Placed'
  BY PollerFacts DEF Placed, cache
<1>4. Coming'
  BY PollerFacts, SameRows DEF Coming, db
<1>5. DueOK'
  BY PollerFacts, SameRows DEF DueOK, db
<1>6. TopUpsOK'
  BY PollerFacts, <1>1 DEF TopUpsOK
<1>7. Listed'
  <2>1. \A e \in queue : Savable(e) \/ e.block = Null => e \in queue'
    BY DEF Savable
  <2> QED
    BY PollerFacts, SameRows, <2>1 DEF Listed, Awaited, Savable, chain, db
<1> QED
  BY <1>2, <1>3, <1>4, <1>5, <1>6, <1>7, MemoryStep

LEMMA CacheAddInv == ASSUME IInv, CacheAdd PROVE IInv'
<1> USE DEF CacheAdd, late, ether
<1>1. Saved' = Saved /\ Loaded' = Loaded
  BY SameRows DEF db
<1>2. /\ at \in {"save", "store"} /\ from = cursor /\ target \in from .. height
      /\ at = "store" => target = cursor
      /\ at = "save" => queue = {}
  BY PollerFacts DEF Placed, TypeOK
<1>3. cursor' = target /\ cursor' \in 1 .. height /\ cursor' >= cursor
  BY <1>2, PollerFacts
<1>4. TypeOK'
  <2>1. from' \in 0 .. height /\ target' \in from' .. height /\ cursor' \in 0 .. height
    BY <1>3, PollerFacts
  <2> QED
    BY PollerFacts, <1>1, <2>1 DEF TypeOK, chain, db
<1>5. Placed'
  BY PollerFacts, <1>3 DEF Placed
<1>6. Coming'
  BY PollerFacts, SameRows DEF Coming, db
<1>7. DueOK'
  BY PollerFacts, SameRows DEF DueOK, db
<1>8. TopUpsOK' /\ Listed'
  BY PollerFacts, <1>1 DEF TopUpsOK, Listed
<1>9. \A u \in Saved' : RowOK(u)'
  BY SameRows DEF IInv, db
<1>10. Counted'
  BY SameRows DEF IInv, Counted, db
<1>11. Covered'
  <2>1. ASSUME NEW t \in Txs, Listable(t), minedIn[t] \in since + 1 .. target PROVE HasRow(t)
    <3>1. /\ minedIn[t] \in since + 1 .. cursor \/ minedIn[t] \in from + 1 .. target
          /\ at = "store" => minedIn[t] \in since + 1 .. cursor
      BY <1>2, <2>1, PollerFacts, TxFacts DEF TypeOK
    <3> QED
      BY <1>2, <2>1, <3>1 DEF IInv, Covered, Listed, Awaited
  <2> QED
    BY <1>3, <2>1, SameRows DEF Covered, chain, db
<1> QED
  BY <1>4, <1>5, <1>6, <1>7, <1>8, <1>9, <1>10, <1>11 DEF IInv

\* A failure: the memory is lost, and with it what a top-up was for.
LEMMA FailureInv ==
    ASSUME IInv,
           CountNaN \/ (\E d \in queue : SaveFails(d)) \/ SweepThrows \/ GiveUpWaiting \/ Crash
    PROVE  IInv'
<1>1. CASE CountNaN
  <2>1. client # "erc20"
    BY <1>1, PollerFacts, ClientPollerAssumption DEF CountNaN, CountBlocks
  <2> QED
    BY <1>1, <2>1, PollerFacts, RestartInv DEF CountNaN, DueOK
<1>2. CASE \E d \in queue : SaveFails(d)
  BY <1>2, PollerFacts, RestartInv DEF SaveFails, DueOK
<1>3. CASE SweepThrows
  <2>1. client # "erc20"
    BY <1>3 DEF SweepThrows, Sweeps, BaseSweep
  <2> QED
    BY <1>3, <2>1, PollerFacts, RestartInv DEF SweepThrows, DueOK
<1>4. CASE GiveUpWaiting
  BY <1>4, RestartInv DEF GiveUpWaiting
<1>5. CASE Crash
  BY <1>5, RestartInv DEF Crash
<1> QED
  BY <1>1, <1>2, <1>3, <1>4, <1>5

LEMMA MineTopUpInv == ASSUME IInv, NEW w \in Wallets, MineTopUp(w) PROVE IInv'
<1> USE DEF MineTopUp, late, memory
<1>1. Saved' = Saved /\ Loaded' = Loaded
  BY SameRows DEF db
<1>2. gas' \in [Wallets -> Nat] /\ sent' \in [Wallets -> Nat]
  BY PollerFacts DEF TypeOK
<1>3. TypeOK'
  BY PollerFacts, <1>1, <1>2 DEF TypeOK, chain, db, cache
<1>4. Placed'
  BY PollerFacts DEF Placed, cache
<1>5. Coming'
  BY PollerFacts, SameRows DEF Coming, db
<1>6. DueOK'
  BY PollerFacts, SameRows DEF DueOK, db
<1>7. TopUpsOK'
  BY PollerFacts, <1>1 DEF TopUpsOK
<1>8. Listed'
  BY PollerFacts, SameRows DEF Listed, Awaited, Savable, chain, db
<1> QED
  BY <1>3, <1>4, <1>5, <1>6, <1>7, <1>8, MemoryStep

LEMMA TopUpInv == ASSUME IInv, TopUp PROVE IInv'
<1> USE DEF TopUp, late
<1>1. Saved' = Saved /\ Loaded' = Loaded
  BY SameRows DEF db
<1>2. client = "erc20" /\ due # None /\ ~waiting /\ row[due].address \in Wallets
  BY PollerFacts DEF NeedsGas, TypeOK, Saved, Rows
<1>3. sent' \in [Wallets -> Nat]
  BY <1>2, PollerFacts DEF TypeOK
<1>4. topUps' = topUps + 1 /\ waiting' = TRUE
  OBVIOUS
<1>5. TypeOK'
  BY PollerFacts, <1>1, <1>3, <1>4 DEF TypeOK, chain, db, cache
<1>6. Placed'
  BY PollerFacts DEF Placed, cache
<1>7. Coming'
  BY PollerFacts, SameRows DEF Coming, db
<1>8. DueOK'
  BY PollerFacts, SameRows, <1>2 DEF DueOK, db
<1>9. TopUpsOK'
  BY PollerFacts, <1>1, <1>2, <1>4 DEF TopUpsOK
<1>10. Listed'
  BY PollerFacts, SameRows DEF Listed, Awaited, Savable, chain, db
<1> QED
  BY <1>5, <1>6, <1>7, <1>8, <1>9, <1>10, MemoryStep
-----------------------------------------------------------------------------
(* Steps that write the tables *)

LEMMA SaveDepositInv == ASSUME IInv, NEW d \in queue, SaveDeposit(d) PROVE IInv'
<1> DEFINE old == row[d.uid]
           done == old # None /\ old.loaded
           new == [address |-> d.address, amount |-> d.amount, status |-> d.status,
                   block |-> IF d.block = 0 /\ old # None THEN old.block ELSE d.block,
                   loaded |-> done]
<1>1. /\ due = None /\ d.address \in Wallets /\ d.block # Null
      /\ row' = [row EXCEPT ![d.uid] = new]
      /\ due' = IF d.status = "confirmed" /\ ~done THEN d.uid ELSE None
      /\ queue' = queue \ {d}
      /\ UNCHANGED <<client, outs, height, minedIn, forked, reading, moved, stale,
                     available, credited, cursor, since,
                     at, from, target, page, waiting, gas, sent, topUps, faults>>
  BY DEF SaveDeposit, Accepted, chain, late, cache, ether
<1>2. /\ TypeOK /\ Sound(d) /\ Savable(d) /\ d.uid \in Uids
      /\ row \in [Uids -> Rows \cup {None}]
      /\ ~waiting /\ None \notin Uids /\ None \notin Rows
  BY <1>1, PollerFacts, NoneAssumption DEF TypeOK, Coming, Sound, Savable, KnownUid, DueOK
<1>3. old # None => d.uid \in Saved /\ RowOK(d.uid) /\ old \in Rows
  BY <1>2 DEF IInv, Saved
<1>4. new \in Rows
  <2>1. /\ d.amount \in Nat /\ d.status \in {"pending", "confirmed"} /\ d.block \in 0 .. MaxHeight
        /\ old # None => old.block \in 0 .. MaxHeight /\ old.loaded \in BOOLEAN
    BY <1>2, <1>3 DEF Sound, Rows
  <2> QED
    BY <1>1, <2>1 DEF Rows
<1>5. /\ row' \in [Uids -> Rows \cup {None}]
      /\ row'[d.uid] = new /\ new # None
      /\ \A u \in Uids : u # d.uid => row'[u] = row[u]
  BY <1>1, <1>2, <1>4
<1>6. /\ new.address = d.address /\ new.amount = d.amount /\ (new.loaded <=> done)
      /\ new.block = IF d.block = 0 /\ old # None THEN old.block ELSE d.block
  OBVIOUS
<1> HIDE DEF new
<1>7. Saved' = Saved \cup {d.uid}
  BY <1>2, <1>5 DEF Saved
<1>8. Loaded' = Loaded
  <2>1. \A u \in Uids : u \in Loaded' <=> row'[u] # None /\ row'[u].loaded
    BY DEF Loaded, Saved
  <2>2. \A u \in Uids : u \in Loaded <=> row[u] # None /\ row[u].loaded
    BY DEF Loaded, Saved
  <2>3. d.uid \in Loaded' <=> d.uid \in Loaded
    BY <1>2, <1>5, <1>6, <2>1, <2>2
  <2>4. Loaded \subseteq Uids /\ Loaded' \subseteq Uids
    BY DEF Loaded, Saved
  <2>5. \A u \in Uids : u # d.uid => (u \in Loaded' <=> u \in Loaded)
    BY <1>5, <2>1, <2>2
  <2> QED
    BY <2>3, <2>4, <2>5
<1>9. /\ \A u : /\ Settled(u)' <=> Settled(u)
                /\ KnownUid(u)' <=> KnownUid(u)
                /\ Named(u)' = Named(u)
      /\ \A u, a : NamedFor(u, a)' = NamedFor(u, a)
      /\ \A t : (Listable(t)' <=> Listable(t)) /\ Shown(t)' = Shown(t)
      /\ \A d2 : Fresh(d2)' <=> Fresh(d2)
  BY <1>1 DEF Settled, KnownUid, Confirmations, NamedFor, Named, Shown, Listable, InLedger,
              Claims, Fresh
<1>10. TypeOK'
  <2>1. due' \in Saved' \cup {None} /\ page' \subseteq Saved'
    BY <1>1, <1>2, <1>7 DEF TypeOK
  <2> QED
    BY <1>1, <1>2, <1>5, <2>1 DEF TypeOK
<1>11. Placed'
  BY <1>1, PollerFacts DEF Placed
<1>12. ASSUME NEW u \in Saved' PROVE RowOK(u)'
  <2>1. CASE u = d.uid
    <3>1. KnownUid(u)' /\ (client = "eos" => new.block # 0)
      BY <1>2, <1>3, <1>6, <1>9, <2>1 DEF Sound, RowOK
    <3>2. new.amount <= Cardinality(NamedFor(u, new.address))
      BY <1>2, <1>6, <2>1 DEF Sound
    <3>3. new.loaded => client \notin Keyed /\ Settled(u)
      BY <1>3, <1>6, <2>1 DEF RowOK
    <3>4. \A a : a = row'[u].address => NamedFor(u, a)' = NamedFor(u, new.address)
      BY <1>5, <1>9, <2>1
    <3> QED
      BY <1>1, <1>5, <1>9, <2>1, <3>1, <3>2, <3>3, <3>4 DEF RowOK
  <2>2. CASE u # d.uid
    <3>1. u \in Saved /\ RowOK(u) /\ row'[u] = row[u]
      BY <1>5, <1>7, <2>2 DEF IInv, Saved
    <3>2. \A a : a = row'[u].address => NamedFor(u, a)' = NamedFor(u, row[u].address)
      BY <1>9, <3>1
    <3> QED
      BY <1>1, <1>9, <3>1, <3>2 DEF RowOK
  <2> QED
    BY <2>1, <2>2
<1>13. Coming'
  <2> SUFFICES ASSUME NEW e \in queue, Savable(e) PROVE Sound(e)' /\ Fresh(e)'
    BY <1>1 DEF Coming, Savable
  <2>1. Sound(e) /\ Fresh(e)
    BY PollerFacts DEF Coming
  <2>2. NamedFor(e.uid, e.address)' = NamedFor(e.uid, e.address)
    BY <1>9
  <2> QED
    BY <1>1, <1>9, <2>1, <2>2 DEF Sound
<1>14. DueOK'
  <2>1. due' # None => due' = d.uid /\ d.status = "confirmed" /\ ~done
    BY <1>1
  <2>2. due' # None => ~row'[due'].loaded
    BY <1>5, <1>6, <2>1
  <2>3. due' # None => client \in Keyed \/ Settled(d.uid)'
    BY <1>2, <1>9, <2>1 DEF Sound
  <2> QED
    BY <1>1, <1>2, <2>1, <2>2, <2>3, PollerFacts DEF DueOK
<1>15. Counted'
  <2>1. \A t : UsedOf(t)' = UsedOf(t)
    BY <1>8, <1>9 DEF UsedOf
  <2>2. \A w : UsedFor(w)' = UsedFor(w)
    BY <1>1, <2>1 DEF UsedFor
  <2> QED
    BY <1>1, <2>1, <2>2 DEF IInv, Counted
<1>16. TopUpsOK'
  BY <1>1, <1>8, PollerFacts DEF TopUpsOK
<1>17. /\ \A t : HasRow(t) => HasRow(t)'
       /\ HasRow(d.uid[1])'
  BY <1>7 DEF HasRow
<1>18. Covered'
  BY <1>1, <1>9, <1>17 DEF IInv, Covered
<1>19. Listed'
  <2>1. \A t : Awaited(t, queue) => HasRow(t)' \/ Awaited(t, queue')
    BY <1>1, <1>17 DEF Awaited
  <2> QED
    BY <1>1, <1>9, <1>17, <2>1 DEF IInv, Listed, Awaited, Savable
<1> QED
  BY <1>10, <1>11, <1>12, <1>13, <1>14, <1>15, <1>16, <1>18, <1>19 DEF IInv

\* Two rows of a transaction that are loaded, or about to be, name different
\* outputs: a uid names the transaction, or the block it will stay in, or the
\* output.
LEMMA NamedApart ==
    ASSUME NEW u \in Uids, NEW v \in Uids, u # v, u[1] = v[1], client \notin Keyed,
           client \in Clients, KnownUid(u), KnownUid(v), Settled(u), Settled(v)
    PROVE  Named(u) \cap Named(v) = {}
<1>1. u = <<u[1], u[2]>> /\ v = <<v[1], v[2]>>
  BY DEF Uids
<1>2. u[2] # v[2]
  BY <1>1
<1>3. client \in ByTx \cup ByBlock \cup ByOutput
  BY ClientPollerAssumption DEF KnownUid, ByTx, ByBlock, ByOutput, Keyed
<1>4. client \in ByOutput
  BY <1>2, <1>3 DEF KnownUid, Settled, ByBlock, Late
<1> QED
  BY <1>2, <1>4 DEF Named

LEMMA Disjoint ==
    ASSUME NEW S, NEW T, IsFiniteSet(S), IsFiniteSet(T), S \cap T = {}
    PROVE  /\ IsFiniteSet(S \cup T)
           /\ Cardinality(S \cup T) = Cardinality(S) + Cardinality(T)
           /\ Cardinality(S) \in Nat /\ Cardinality(T) \in Nat
<1>1. Cardinality(S \cap T) = 0
  BY FS_EmptySet
<1>2. Cardinality(S) \in Nat /\ Cardinality(T) \in Nat
  BY CardNat
<1>3. /\ IsFiniteSet(S \cup T)
      /\ Cardinality(S \cup T) = Cardinality(S) + Cardinality(T) - Cardinality(S \cap T)
  BY FS_Union
<1> QED
  BY <1>1, <1>2, <1>3

LEMMA UsedFinite ==
    ASSUME TypeOK
    PROVE  /\ \A t \in Txs : UsedOf(t) \subseteq Shown(t) /\ IsFiniteSet(UsedOf(t))
           /\ \A w : IsFiniteSet(UsedFor(w))
<1>1. ASSUME NEW t \in Txs PROVE UsedOf(t) \subseteq Shown(t) /\ IsFiniteSet(UsedOf(t))
  <2>1. UsedOf(t) \subseteq Shown(t)
    BY DEF UsedOf
  <2>2. IsFiniteSet(Shown(t))
    <3>1. <<t, 0>>[1] = t
      OBVIOUS
    <3> QED
      BY <3>1, NamedFacts
  <2> QED
    BY <2>1, <2>2, FS_Subset
<1>2. IsFiniteSet(1 .. MaxHeight)
  BY FS_Interval, TxFacts
<1>3. IsFiniteSet(Txs \X (1 .. MaxHeight))
  BY <1>2, FS_Product, ClientPollerAssumption
<1>4. \A w : IsFiniteSet(UsedFor(w))
  BY <1>3, FS_Subset DEF UsedFor
<1> QED
  BY <1>1, <1>4

\* What is loaded is counted: the row's outputs were used by no row before.
LEMMA CreditsCounted ==
    ASSUME TypeOK, Counted,
           NEW u \in Uids, NEW a \in Wallets, NEW n \in Nat,
           n <= Cardinality(NamedFor(u, a)),
           \A v \in Loaded : v[1] = u[1] => Named(u) \cap Named(v) = {},
           UNCHANGED <<client, outs>>, Loaded' = Loaded \cup {u},
           available' = [available EXCEPT ![a] = @ + n],
           credited' = [credited EXCEPT ![u[1]] = @ + n]
    PROVE  Counted'
<1>1. u[1] \in Txs
  BY DEF Uids
<1>2. /\ IsFiniteSet(Named(u)) /\ IsFiniteSet(NamedFor(u, a)) /\ NamedFor(u, a) \subseteq Named(u)
      /\ Named(u) \subseteq Shown(u[1]) /\ Shown(u[1]) \subseteq DOMAIN outs[u[1]]
      /\ DOMAIN outs[u[1]] \subseteq 1 .. MaxHeight
  BY <1>1, NamedFacts, OutsFacts
<1>3. Cardinality(NamedFor(u, a)) <= Cardinality(Named(u)) /\ Cardinality(Named(u)) \in Nat
      /\ Cardinality(NamedFor(u, a)) \in Nat
  BY <1>2, FS_Subset, CardNat
<1>4. \A t : UsedOf(t)' = IF t = u[1] THEN UsedOf(t) \cup Named(u) ELSE UsedOf(t)
  <2>1. \A v : Named(v)' = Named(v)
    BY DEF Named, Shown
  <2>2. \A t : UsedOf(t)' = {i \in Shown(t) : \E v \in Loaded \cup {u} : v[1] = t /\ i \in Named(v)}
    BY <2>1 DEF UsedOf, Shown
  <2> QED
    BY <1>2, <2>2 DEF UsedOf
<1>5. UsedOf(u[1]) \cap Named(u) = {}
  BY DEF UsedOf
<1>6. ASSUME NEW t \in Txs PROVE credited'[t] <= Cardinality(UsedOf(t)')
  <2>1. credited[t] <= Cardinality(UsedOf(t)) /\ credited[t] \in Nat /\ IsFiniteSet(UsedOf(t))
    BY UsedFinite DEF Counted, TypeOK
  <2>2. CASE t = u[1]
    <3>1. credited'[t] = credited[t] + n
      BY <1>1, <2>2 DEF TypeOK
    <3>2. Cardinality(UsedOf(t)') = Cardinality(UsedOf(t)) + Cardinality(Named(u))
          /\ Cardinality(UsedOf(t)) \in Nat
      BY <1>2, <1>4, <1>5, <2>1, <2>2, Disjoint
    <3> QED
      BY <1>3, <2>1, <3>1, <3>2
  <2>3. CASE t # u[1]
    BY <1>4, <2>1, <2>3 DEF TypeOK
  <2> QED
    BY <2>2, <2>3
<1>7. ASSUME client # "btc", NEW w \in Wallets PROVE available'[w] <= Cardinality(UsedFor(w)')
  <2> DEFINE P == {u[1]} \X NamedFor(u, a)
  <2>1. /\ available[w] <= Cardinality(UsedFor(w)) /\ available[w] \in Nat
        /\ IsFiniteSet(UsedFor(w)) /\ Cardinality(UsedFor(w)) \in Nat
    BY <1>7, UsedFinite, CardNat DEF Counted, TypeOK
  <2>2. IsFiniteSet(P) /\ Cardinality(P) = Cardinality(NamedFor(u, a))
    <3>1. IsFiniteSet({u[1]}) /\ Cardinality({u[1]}) = 1
      BY FS_Singleton
    <3>2. IsFiniteSet(P) /\ Cardinality(P) = 1 * Cardinality(NamedFor(u, a))
      BY <1>2, <3>1, FS_Product
    <3> QED
      BY <1>3, <3>2
  <2>3. UsedFor(w)' = {p \in Txs \X (1 .. MaxHeight) : p[2] \in UsedOf(p[1])' /\ outs[p[1]][p[2]].to = w}
    BY DEF UsedFor
  <2>4. CASE w = a
    <3>1. NamedFor(u, a) = {i \in Named(u) : outs[u[1]][i].to = a}
      BY <1>7 DEF NamedFor
    <3>2. UsedFor(w)' = UsedFor(w) \cup P
      <4>1. \A p \in Txs \X (1 .. MaxHeight) :
                p \in P <=> p[1] = u[1] /\ p[2] \in Named(u) /\ outs[p[1]][p[2]].to = w
        BY <2>4, <3>1
      <4>2. P \subseteq Txs \X (1 .. MaxHeight)
        BY <1>1, <1>2
      <4>3. \A p \in Txs \X (1 .. MaxHeight) :
                p \in UsedFor(w)' <=> p \in UsedFor(w) \/ p \in P
        BY <1>4, <2>3, <4>1 DEF UsedFor
      <4>4. UsedFor(w) \subseteq Txs \X (1 .. MaxHeight)
            /\ UsedFor(w)' \subseteq Txs \X (1 .. MaxHeight)
        BY <2>3 DEF UsedFor
      <4> HIDE DEF P
      <4> QED
        BY <4>2, <4>3, <4>4
    <3>3. UsedFor(w) \cap P = {}
      BY <1>2, <1>5 DEF UsedFor
    <3>4. available'[w] = available[w] + n
      BY <2>4 DEF TypeOK
    <3> HIDE DEF P
    <3>5. Cardinality(UsedFor(w)') = Cardinality(UsedFor(w)) + Cardinality(P)
      BY <2>1, <2>2, <3>2, <3>3, Disjoint
    <3> QED
      BY <1>3, <2>1, <2>2, <3>4, <3>5
  <2>5. CASE w # a
    <3>1. available'[w] = available[w]
      BY <2>5 DEF TypeOK
    <3>2. UsedFor(w) \subseteq UsedFor(w)'
      BY <1>4, <2>3 DEF UsedFor
    <3>3. IsFiniteSet(UsedFor(w)')
      <4>1. IsFiniteSet(Txs \X (1 .. MaxHeight))
        <5>1. IsFiniteSet(1 .. MaxHeight)
          BY FS_Interval, TxFacts
        <5> QED
          BY <5>1, FS_Product, ClientPollerAssumption
      <4> QED
        BY <2>3, <4>1, FS_Subset
    <3>4. Cardinality(UsedFor(w)) <= Cardinality(UsedFor(w)') /\ Cardinality(UsedFor(w)') \in Nat
      BY <3>2, <3>3, FS_Subset, CardNat
    <3> QED
      BY <2>1, <3>1, <3>4
  <2> QED
    BY <2>4, <2>5
<1> QED
  BY <1>6, <1>7 DEF Counted

LEMMA LoadInv == ASSUME IInv, Load PROVE IInv'
<1> DEFINE d == row[due]
           new == [d EXCEPT !.loaded = TRUE]
<1>1. /\ due # None /\ TRUE \in Sweeps /\ ~NeedsGas(d.address)
      /\ available' = [available EXCEPT ![d.address] = @ + d.amount]
      /\ credited' = [credited EXCEPT ![due[1]] = @ + d.amount]
      /\ row' = [row EXCEPT ![due] = new]
      /\ gas' = IF client = "erc20" THEN SendTokens(d.address) ELSE gas
      /\ due' = None /\ waiting' = FALSE
      /\ UNCHANGED <<client, outs, height, minedIn, forked, reading, moved, stale, cursor, since, at, from, target, page,
                     queue, sent, topUps, faults>>
  BY DEF Load, chain, late, cache
<1>2. /\ TypeOK /\ due \in Saved /\ due \in Uids /\ RowOK(due) /\ d \in Rows
      /\ ~d.loaded
  BY <1>1, PollerFacts DEF IInv, TypeOK, Saved, DueOK
<1>3. client \notin Keyed
  BY <1>1 DEF Sweeps, XdacSweep, NemSweep, TronSweep, SecondArgument, Keyed
<1>4. Settled(due)
  BY <1>1, <1>3, PollerFacts DEF DueOK
<1>5. /\ new \in Rows /\ new.loaded /\ new.amount = d.amount /\ new.address = d.address
      /\ new.block = d.block
  BY <1>2 DEF Rows
<1> HIDE DEF new
<1>6. /\ row' \in [Uids -> Rows \cup {None}]
      /\ row'[due] = new /\ new # None
      /\ \A u \in Uids : u # due => row'[u] = row[u]
  BY <1>1, <1>2, <1>5, NoneAssumption DEF TypeOK
<1>7. Saved' = Saved
  BY <1>2, <1>6 DEF Saved
<1>8. Loaded' = Loaded \cup {due} /\ due \notin Loaded
  <2>1. \A u \in Saved : u \in Loaded' <=> row'[u].loaded
    BY <1>7 DEF Loaded
  <2>2. \A u \in Saved : u \in Loaded <=> row[u].loaded
    BY DEF Loaded
  <2>3. Loaded \subseteq Saved /\ Loaded' \subseteq Saved /\ Saved \subseteq Uids
    BY <1>7 DEF Loaded, Saved
  <2>4. \A u \in Saved : u # due => (u \in Loaded' <=> u \in Loaded)
    BY <1>6, <2>1, <2>2, <2>3
  <2>5. due \in Loaded' /\ due \notin Loaded
    BY <1>2, <1>5, <1>6, <2>1, <2>2
  <2> QED
    BY <1>2, <2>3, <2>4, <2>5
<1>9. /\ \A u : /\ Settled(u)' <=> Settled(u)
                /\ KnownUid(u)' <=> KnownUid(u)
      /\ \A u, a : NamedFor(u, a)' = NamedFor(u, a)
      /\ \A t : Listable(t)' <=> Listable(t)
      /\ \A t : HasRow(t)' <=> HasRow(t)
      /\ \A d2 : Fresh(d2)' <=> Fresh(d2)
  BY <1>1, <1>7
     DEF InLedger, Claims, Fresh, Settled, KnownUid, Confirmations, NamedFor, Named, Shown, Listable, HasRow
<1>10. TypeOK'
  <2>1. gas' \in [Wallets -> Nat]
    <3>1. CASE client = "erc20"
      <4>1. gas[d.address] # 0 /\ gas \in [Wallets -> Nat] /\ d.address \in Wallets
        BY <1>1, <1>2, <3>1 DEF NeedsGas, TypeOK, Rows
      <4>2. gas[d.address] - 1 \in Nat
        BY <4>1
      <4> QED
        BY <1>1, <3>1, <4>1, <4>2 DEF SendTokens
    <3>2. CASE client # "erc20"
      BY <1>1, <1>2, <3>2 DEF TypeOK
    <3> QED
      BY <3>1, <3>2
  <2>2. available' \in [Wallets -> Nat] /\ credited' \in [Txs -> Nat]
    <3>1. d.amount \in Nat /\ d.address \in Wallets /\ due[1] \in Txs
      BY <1>2 DEF Rows, Uids
    <3>2. available \in [Wallets -> Nat] /\ credited \in [Txs -> Nat]
      BY <1>2 DEF TypeOK
    <3>3. available[d.address] + d.amount \in Nat /\ credited[due[1]] + d.amount \in Nat
      BY <3>1, <3>2
    <3> HIDE DEF d
    <3> QED
      BY <1>1, <3>2, <3>3
  <2> QED
    BY <1>1, <1>2, <1>6, <1>7, <2>1, <2>2 DEF TypeOK
<1>11. Placed'
  BY <1>1, PollerFacts DEF Placed
<1>12. ASSUME NEW u \in Saved' PROVE RowOK(u)'
  <2>1. CASE u = due
    <3>1. \A a : a = row'[u].address => NamedFor(u, a)' = NamedFor(u, d.address)
      BY <1>5, <1>6, <1>9, <2>1
    <3>2. /\ KnownUid(u) /\ (client = "eos" => d.block # 0)
          /\ d.amount <= Cardinality(NamedFor(u, d.address))
      BY <1>2, <2>1 DEF RowOK
    <3> QED
      BY <1>1, <1>3, <1>4, <1>5, <1>6, <1>9, <2>1, <3>1, <3>2 DEF RowOK
  <2>2. CASE u # due
    <3>1. u \in Saved /\ RowOK(u) /\ row'[u] = row[u]
      BY <1>6, <1>7, <2>2 DEF IInv, Saved
    <3>2. \A a : a = row'[u].address => NamedFor(u, a)' = NamedFor(u, row[u].address)
      BY <1>9, <3>1
    <3> QED
      BY <1>1, <1>9, <3>1, <3>2 DEF RowOK
  <2> QED
    BY <2>1, <2>2
<1>13. Coming'
  <2> SUFFICES ASSUME NEW e \in queue, Savable(e) PROVE Sound(e)' /\ Fresh(e)'
    BY <1>1 DEF Coming, Savable
  <2>1. Sound(e) /\ Fresh(e)
    BY PollerFacts DEF Coming
  <2>2. NamedFor(e.uid, e.address)' = NamedFor(e.uid, e.address)
    BY <1>9
  <2> QED
    BY <1>1, <1>9, <2>1, <2>2 DEF Sound
<1>14. DueOK'
  BY <1>1, PollerFacts DEF DueOK
<1>15. Counted'
  <2>1. ASSUME NEW v \in Loaded, v[1] = due[1] PROVE Named(due) \cap Named(v) = {}
    <3>1. v \in Saved /\ v \in Uids /\ v # due /\ row[v].loaded
      BY <1>8 DEF Loaded, Saved
    <3>2. KnownUid(v) /\ Settled(v)
      BY <3>1 DEF IInv, RowOK
    <3> QED
      BY <1>2, <1>3, <1>4, <2>1, <3>1, <3>2, NamedApart DEF RowOK, TypeOK
  <2>2. d.amount \in Nat /\ d.address \in Wallets /\ d.amount <= Cardinality(NamedFor(due, d.address))
    BY <1>2 DEF Rows, RowOK
  <2>3. Counted
    BY DEF IInv
  <2> HIDE DEF d
  <2> QED
    BY <1>1, <1>2, <1>8, <2>1, <2>2, <2>3, CreditsCounted
<1>16. TopUpsOK'
  <2>1. IsFiniteSet(Loaded) /\ Cardinality(Loaded) \in Nat
    BY LoadedFinite
  <2>2. Cardinality(Loaded') = Cardinality(Loaded) + 1
    BY <1>8, <2>1, FS_AddElement
  <2> QED
    BY <1>1, <2>1, <2>2, PollerFacts DEF TopUpsOK
<1>17. Covered'
  BY <1>1, <1>9 DEF IInv, Covered
<1>18. Listed'
  BY <1>1, <1>9 DEF IInv, Listed, Awaited, Savable
<1> QED
  BY <1>10, <1>11, <1>12, <1>13, <1>14, <1>15, <1>16, <1>17, <1>18 DEF IInv
-----------------------------------------------------------------------------
(* The invariant *)

LEMMA InitInv == Init => IInv
<1> SUFFICES ASSUME Init PROVE IInv
  OBVIOUS
<1>1. Saved = {} /\ Loaded = {}
  BY DEF Init, Saved, Loaded
<1>2. MaxHeight \in Nat \ {0} /\ MaxFaults \in Nat
  BY ClientPollerAssumption
<1>3. TypeOK
  <2>1. height = 1 /\ cursor = 1 /\ since = 1 /\ from = 0 /\ target = 0 /\ topUps = 0 /\ faults = 0
    BY DEF Init
  <2>2. /\ height \in 1 .. MaxHeight /\ cursor \in 0 .. height /\ since \in 0 .. MaxHeight
        /\ from \in 0 .. height /\ target \in from .. height
        /\ topUps \in Nat /\ faults \in 0 .. MaxFaults
    BY <1>2, <2>1
  <2>3. client \in Clients /\ outs \in OutputLists /\ at = "count" /\ waiting \in BOOLEAN
    BY DEF Init
  <2>8. moved \subseteq Txs /\ stale \subseteq Txs /\ reading \in BOOLEAN
    BY DEF Init
  <2>4. forked \subseteq Txs /\ page \subseteq Saved /\ due \in Saved \cup {None}
    BY DEF Init
  <2>5. minedIn \in [Txs -> 0 .. height]
    BY <2>1 DEF Init
  <2>6. row \in [Uids -> Rows \cup {None}]
    BY DEF Init
  <2>7. /\ available \in [Wallets -> Nat] /\ credited \in [Txs -> Nat]
        /\ gas \in [Wallets -> Nat] /\ sent \in [Wallets -> Nat]
    BY DEF Init
  <2> QED
    BY <2>2, <2>3, <2>4, <2>5, <2>6, <2>7, <2>8 DEF TypeOK
<1>4. Placed /\ Coming /\ DueOK /\ Listed /\ \A u \in Saved : RowOK(u)
  BY <1>1 DEF Init, Placed, Coming, DueOK, Listed
<1>5. Counted
  <2>1. \A t \in Txs : Cardinality(UsedOf(t)) \in Nat
    BY <1>3, UsedFinite, CardNat
  <2>2. \A w \in Wallets : Cardinality(UsedFor(w)) \in Nat
    BY <1>3, UsedFinite, CardNat
  <2> QED
    BY <2>1, <2>2 DEF Init, Counted
<1>6. TopUpsOK
  BY LoadedFinite DEF Init, TopUpsOK
<1>7. Covered
  <2>1. since = 1 /\ cursor = 1
    BY DEF Init
  <2> QED
    BY <1>3, <2>1, TxFacts DEF Covered
<1> QED
  BY <1>3, <1>4, <1>5, <1>6, <1>7 DEF IInv

LEMMA NextInv == IInv /\ [Next]_vars => IInv'
<1> SUFFICES ASSUME IInv, [Next]_vars PROVE IInv'
  OBVIOUS
<1>1. CASE \E S \in SUBSET Txs : Mine(S)
  BY <1>1, MineMoves, ChainStepInv DEF IInv
<1>2. CASE \E d \in 1 .. MaxReorg : Reorg(d)
  BY <1>2, ReorgMoves, ChainStepInv DEF IInv
<1>3. CASE \E w \in Wallets : MineTopUp(w)
  BY <1>3, MineTopUpInv
<1>4. CASE Poll
  <2>1. CASE Count
    BY <2>1, CountInv
  <2>2. CASE ReadCursor
    BY <2>2, ReadCursorInv
  <2>3. CASE PendingDone
    BY <2>3, PendingDoneInv
  <2>4. CASE \E S \in SUBSET Saved : ListPending(S)
    BY <2>4, ListPendingInv
  <2>5. CASE \E u \in page : FindTransaction(u)
    BY <2>5, FindTransactionInv
  <2>6. CASE ListTransactionsSinceBlock
    BY <2>6, ListTransactionsInv
  <2>13. CASE AdaptTransactions
    BY <2>13, AdaptInv
  <2>7. CASE \E d \in queue : NotInteresting(d)
    BY <2>7, NotInterestingInv
  <2>8. CASE \E d \in queue : SaveDeposit(d)
    BY <2>8, SaveDepositInv
  <2>9. CASE CacheAdd
    BY <2>9, CacheAddInv
  <2>10. CASE TopUp
    BY <2>10, TopUpInv
  <2>11. CASE Load
    BY <2>11, LoadInv
  <2>12. CASE CountNaN \/ (\E d \in queue : SaveFails(d)) \/ SweepThrows
    BY <2>12, FailureInv
  <2> QED
    BY <1>4, <2>1, <2>2, <2>3, <2>4, <2>5, <2>6, <2>7, <2>8, <2>9, <2>10, <2>11, <2>12, <2>13 DEF Poll
<1>5. CASE GiveUpWaiting \/ Crash
  BY <1>5, FailureInv
<1>6. CASE UNCHANGED vars
  <2> USE <1>6 DEF vars
  <2>1. /\ UNCHANGED <<client, chain, stale, db, cache>> /\ UNCHANGED late
        /\ Saved' = Saved /\ Loaded' = Loaded
    BY SameRows DEF chain, late, db, cache
  <2>2. TypeOK'
    BY PollerFacts, <2>1 DEF TypeOK
  <2>3. Placed' /\ TopUpsOK'
    BY PollerFacts, <2>1 DEF Placed, TopUpsOK
  <2>4. Coming'
    BY PollerFacts, SameRows, <2>1 DEF Coming, db
  <2>5. DueOK'
    BY PollerFacts, SameRows, <2>1 DEF DueOK, db
  <2>6. Listed'
    BY PollerFacts, SameRows, <2>1 DEF Listed, db
  <2> QED
    BY <2>1, <2>2, <2>3, <2>4, <2>5, <2>6, MemoryStep
<1> QED
  BY <1>1, <1>2, <1>3, <1>4, <1>5, <1>6 DEF Next

THEOREM Invariance == Spec => []IInv
  BY InitInv, NextInv, PTL DEF Spec

-----------------------------------------------------------------------------
(* The theorems *)

\* The tables, the cursor and the poller's memory keep their types: balances
\* and gas never go below zero, the cursor never beyond the chain.
THEOREM TypeCorrect == Spec => []TypeOK
<1>1. IInv => TypeOK
  BY DEF IInv
<1> QED
  BY <1>1, Invariance, PTL

\* Whatever a client's uid names, and however a fork mines a transaction again,
\* its rows bring the wallets no more than what the client shows of it for them;
\* that is what it paid to the vault, but for the clients of Credulous.
THEOREM NothingCreditedTwice == Spec => []CreditedOnce
<1>1. IInv => CreditedOnce
  <2> SUFFICES ASSUME IInv, NEW t \in Txs
               PROVE  credited[t] <= Cardinality(UNION {Brings(t, w) : w \in Wallets})
    BY DEF CreditedOnce
  <2>1. TypeOK /\ credited[t] <= Cardinality(UsedOf(t)) /\ credited[t] \in Nat
    BY DEF IInv, Counted, TypeOK
  <2>2. UsedOf(t) \subseteq Shown(t) /\ IsFiniteSet(Shown(t))
    <3>1. <<t, 0>>[1] = t
      OBVIOUS
    <3> QED
      BY <2>1, <3>1, NamedFacts, UsedFinite
  <2>3. /\ Cardinality(UsedOf(t)) <= Cardinality(Shown(t))
        /\ Cardinality(UsedOf(t)) \in Nat /\ Cardinality(Shown(t)) \in Nat
    BY <2>1, <2>2, UsedFinite, FS_Subset, CardNat
  <2> DEFINE U == UNION {Brings(t, w) : w \in Wallets}
  <2>4. U = Shown(t)
    BY DEF Brings, Shown
  <2> HIDE DEF U
  <2>5. credited[t] <= Cardinality(U)
    BY <2>1, <2>3, <2>4
  <2> QED
    BY <2>5 DEF U
<1> QED
  BY <1>1, Invariance, PTL

\* No client's rule of confirmation lets the vault credit what a fork may still
\* take back, unless a fork took it back between the call that read its block and
\* the one that asked for the height.
THEOREM CreditsAreSettled == Spec => []CreditedIsSettled
<1>1. IInv => CreditedIsSettled
  <2> SUFFICES ASSUME IInv, NEW t \in Txs, credited[t] > 0
               PROVE  \E u \in Loaded : u[1] = t /\ Settled(u)
    BY DEF CreditedIsSettled, Settled
  <2>1. credited[t] <= Cardinality(UsedOf(t)) /\ credited[t] \in Nat /\ IsFiniteSet(UsedOf(t))
    BY UsedFinite DEF IInv, Counted, TypeOK
  <2>2. UsedOf(t) # {}
    BY <2>1, FS_EmptySet
  <2>3. PICK u \in Loaded : u[1] = t
    BY <2>2 DEF UsedOf
  <2>4. Settled(u)
    BY DEF IInv, RowOK, Loaded
  <2> QED
    BY <2>3, <2>4
<1> QED
  BY <1>1, Invariance, PTL

\* A wallet gets nothing that its client does not show to be for its address,
\* but from Bitcoin's client.
THEOREM CreditsReachThePayee == Spec => []CreditedToPayee
<1>1. IInv => CreditedToPayee
  <2> SUFFICES ASSUME IInv, client # "btc", NEW w \in Wallets
               PROVE  available[w] <=
                          Cardinality({p \in Txs \X (1 .. MaxHeight) : p[2] \in Brings(p[1], w)})
    BY DEF CreditedToPayee
  <2> DEFINE P == {p \in Txs \X (1 .. MaxHeight) : p[2] \in Brings(p[1], w)}
  <2>1. available[w] <= Cardinality(UsedFor(w)) /\ available[w] \in Nat
    BY DEF IInv, Counted, TypeOK
  <2>2. IsFiniteSet(P)
    <3>1. IsFiniteSet(1 .. MaxHeight)
      BY FS_Interval, TxFacts DEF IInv
    <3>2. IsFiniteSet(Txs \X (1 .. MaxHeight))
      BY <3>1, FS_Product, ClientPollerAssumption
    <3> QED
      BY <3>2, FS_Subset
  <2>3. UsedFor(w) \subseteq P
    BY DEF UsedFor, UsedOf, Shown, Brings
  <2> HIDE DEF P
  <2>4. Cardinality(UsedFor(w)) <= Cardinality(P) /\ Cardinality(P) \in Nat
        /\ Cardinality(UsedFor(w)) \in Nat
    BY <2>2, <2>3, FS_Subset, CardNat
  <2>5. available[w] <= Cardinality(P)
    BY <2>1, <2>4
  <2> QED
    BY <2>5 DEF P
<1> QED
  BY <1>1, Invariance, PTL

\* The cursor does not pass a payment the client can list: every payment of one
\* output in its blocks has a row.
THEOREM NoPaymentIsSkipped == Spec => []NoPaymentSkipped
<1>1. IInv => NoPaymentSkipped
  BY DEF IInv, Covered, Listable, HasRow, NoPaymentSkipped
<1> QED
  BY <1>1, Invariance, PTL

\* The bank sends ETH at most once for each deposit it loads, and once more for
\* each failure and for the deposit at hand.
THEOREM TopUpsAreBounded == Spec => []TopUpsBounded
<1>1. IInv => TopUpsBounded
  BY PollerFacts DEF TopUpsOK, TopUpsBounded
<1> QED
  BY <1>1, Invariance, PTL
=============================================================================
