------------------------------ MODULE Accounts ------------------------------
(***************************************************************************)
(* How a user gets a wallet and an address, in one currency: createWallet, *)
(* createWalletWithBalance, changeBulkWalletBalance and updateWallets of   *)
(* pollMessageBus each find the user's wallet and create it when there is  *)
(* none; (userUid, currency) is no unique key.  Then a deposit goes to the *)
(* wallet its address belongs to, while everything else uses the first     *)
(* wallet findByUser finds.                                                *)
(*                                                                         *)
(* The locks are InnoDB's at REPEATABLE READ: a locking read locks what it *)
(* finds, or the gap where it found nothing, and gap locks exclude inserts *)
(* but not each other.  Addresses has no index on what countAll looks for, *)
(* so it locks the whole table, or when that is empty its one gap.         *)
(***************************************************************************)
EXTENDS Integers, Sequences, FiniteSets, FiniteSetsExt

CONSTANTS Users,
          Requests,      \* requests, and the message the bus worker handles
          None,
          MaxCredited    \* bound on a user's credits, for the deposits

ASSUME AccountsAssumption ==
    /\ IsFiniteSet(Users) /\ IsFiniteSet(Requests)
    /\ None \notin Users \cup Requests \cup Nat
    /\ MaxCredited \in Nat

Ids == 1 .. Cardinality(Requests) * Cardinality(Users)

VARIABLES owner, inserter,   \* Wallets: userUid; whose transaction has not committed the row
          balance,           \* Wallets: availableBalance, committed
          addresses,         \* Addresses, committed
          kind, todo,        \* requests: handler, users left to handle
          at, wallet,        \* requests: next step, the wallet held in memory, or just created
          snap,              \* bus: wallets its snapshot has
          rows, gaps, scans, \* locks: wallet rows, gaps by user, Addresses
          draft,             \* uncommitted increments
          credited,          \* history: what answers have shown to be credited
          untold,            \* history: wallets created with a balance that no answer has shown
          hidden             \* history: users the API created a wallet for while the bus did

wallets == <<owner, inserter, balance>>
locks   == <<rows, gaps, scans>>
memory  == <<wallet, snap, draft>>
history == <<credited, untold, hidden>>
vars    == <<owner, inserter, balance, addresses, kind, todo, at, wallet, snap, rows, gaps,
             scans, draft, credited, untold, hidden>>

Kinds == {"create", "withBalance", "bulk", "bus"}
Ended == {"ok", "refused", "leaked"}

TypeOK ==
    /\ owner \in [Ids -> Users \cup {None}]
    /\ inserter \in [Ids -> Requests \cup {None}]
    /\ balance \in [Ids -> Nat]
    /\ addresses \subseteq [user : Users, wallet : Ids, by : Requests]
    /\ kind \in [Requests -> Kinds]
    /\ todo \in [Requests -> Seq(Users)]
    /\ at \in [Requests -> {"find", "insert", "refind", "count", "client", "add", "credit", "commit"}
                           \cup Ended]
    /\ \A r \in Requests : at[r] \notin Ended \cup {"commit"} => todo[r] # <<>>
    /\ wallet \in [Requests -> Ids \cup {None}]
    /\ \A r \in Requests : at[r] \in {"count", "client", "add", "credit"} => wallet[r] # None
    /\ snap \in [Requests -> SUBSET Ids]
    /\ rows \in [Requests -> SUBSET Ids]
    /\ gaps \in [Requests -> SUBSET Users]
    /\ scans \subseteq Requests
    /\ draft \in [Requests -> SUBSET Ids]
    /\ credited \in [Users -> Nat]
    /\ untold \subseteq Ids
    /\ hidden \subseteq Users

Lists == {<<u>> : u \in Users} \cup {s \in Users \X Users : s[1] # s[2]}

Init ==
    /\ owner = [w \in Ids |-> None]
    /\ inserter = [w \in Ids |-> None]
    /\ balance = [w \in Ids |-> 0]
    /\ addresses = {}
    /\ kind \in [Requests -> Kinds]
    /\ Cardinality({r \in Requests : kind[r] = "bus"}) <= 1
    /\ todo \in [Requests -> Lists]
    /\ \A r \in Requests : kind[r] \in {"create", "withBalance"} => Len(todo[r]) = 1
    /\ at = [r \in Requests |-> "find"]
    /\ wallet = [r \in Requests |-> None]
    /\ snap = [r \in Requests |-> {}]
    /\ rows = [r \in Requests |-> {}]
    /\ gaps = [r \in Requests |-> {}]
    /\ scans = {}
    /\ draft = [r \in Requests |-> {}]
    /\ credited = [u \in Users |-> 0]
    /\ untold = {}
    /\ hidden = {}
-----------------------------------------------------------------------------
(* The tables and their locks *)

UserOf(r) == Head(todo[r])

\* What a plain read of a user's wallets sees: the committed rows.
WalletsOf(u) == {w \in Ids : owner[w] = u /\ inserter[w] = None}

\* .first(): the lowest walletId, which is the order of the index.
First(S) == IF S = {} THEN None ELSE Min(S)

Uncommitted(u) == {w \in Ids : owner[w] = u /\ inserter[w] # None}

AddressesOf(u) == {a \in addresses : a.user = u}

RowHolders(w) == {q \in Requests : w \in rows[q]}
GapHolders(u) == {q \in Requests : u \in gaps[q]}

\* Whom a request waits for at its next statement.  A locking read stops at
\* the first row, which may be one that is not committed.
WaitsFor(r) ==
    CASE at[r] = "find" /\ kind[r] = "bulk" ->
             UNION {RowHolders(w) : w \in {First({v \in Ids : owner[v] = UserOf(r)})} \ {None}}
      [] at[r] = "insert" -> GapHolders(UserOf(r))
      [] at[r] = "credit" -> RowHolders(wallet[r])
      [] at[r] = "count"  -> IF addresses = {} THEN {} ELSE scans
      [] at[r] = "add"    -> scans
      [] OTHER -> {}

Blockers(r) == WaitsFor(r) \ {r}

Release(r) ==
    /\ rows' = [rows EXCEPT ![r] = {}]
    /\ gaps' = [gaps EXCEPT ![r] = {}]
    /\ scans' = scans \ {r}

\* The transaction is undone and its locks are gone.
Rollback(r) ==
    /\ Release(r)
    /\ owner' = [w \in Ids |-> IF inserter[w] = r THEN None ELSE owner[w]]
    /\ inserter' = [w \in Ids |-> IF inserter[w] = r THEN None ELSE inserter[w]]
    /\ draft' = [draft EXCEPT ![r] = {}]
    /\ UNCHANGED <<balance, addresses, kind, todo, wallet, snap, history>>

\* The next auto-increment id: ids of undone inserts are used again, which
\* leaves the order of the ones that stay as it is.
NextId == 1 + Max({0} \cup {w \in Ids : owner[w] # None})

InsertRow(r, u, by) ==
    /\ owner' = [owner EXCEPT ![NextId] = u]
    /\ inserter' = [inserter EXCEPT ![NextId] = by]
    /\ hidden' = hidden \cup
           {v \in {u} : \E w \in Uncommitted(u) : kind[inserter[w]] = "bus" /\ inserter[w] # r}

Goto(r, place) == at' = [at EXCEPT ![r] = place]
Found(r) == IF kind[r] = "create" THEN "count" ELSE "ok"
-----------------------------------------------------------------------------
(* createWallet and createWalletWithBalance *)

\* findByUser outside a transaction.
Find(r) ==
    LET w == First(WalletsOf(UserOf(r)))
    IN  /\ at[r] = "find" /\ kind[r] \in {"create", "withBalance"}
        /\ wallet' = [wallet EXCEPT ![r] = w]
        /\ Goto(r, IF w = None THEN "insert" ELSE Found(r))
        /\ UNCHANGED <<wallets, addresses, kind, todo, snap, locks, draft, history>>

\* The row that createWallet or createWalletWithBalance creates: the insert commits
\* by itself, and withBalance's brings its balance of 1.
Create(r) ==
    LET given == IF kind[r] = "withBalance" THEN 1 ELSE 0
    IN  /\ InsertRow(r, UserOf(r), None)
        /\ balance' = [balance EXCEPT ![NextId] = given]
        /\ untold' = IF given = 1 THEN untold \cup {NextId} ELSE untold

\* Mutant: the created wallet is not looked up.
InsertOnly(r) ==
    /\ at[r] = "insert" /\ kind[r] \in {"create", "withBalance"} /\ Blockers(r) = {}
    /\ Create(r)
    /\ Goto(r, Found(r))
    /\ UNCHANGED <<addresses, kind, todo, memory, locks, credited>>

Insert(r) ==
    /\ at[r] = "insert" /\ kind[r] \in {"create", "withBalance"} /\ Blockers(r) = {}
    /\ Create(r)
    /\ wallet' = [wallet EXCEPT ![r] = NextId]
    /\ Goto(r, "refind")
    /\ UNCHANGED <<addresses, kind, todo, snap, draft, locks, credited>>

\* findByUser again: withBalance answers with this wallet, which shows the balance
\* it brought only if it is the one it created.
Refind(r) ==
    LET shown == First(WalletsOf(UserOf(r)))
        told  == kind[r] = "withBalance" /\ wallet[r] = shown
    IN  /\ at[r] = "refind"
        /\ wallet' = [wallet EXCEPT ![r] = shown]
        /\ credited' = IF told THEN [credited EXCEPT ![UserOf(r)] = @ + 1] ELSE credited
        /\ untold' = IF told THEN untold \ {shown} ELSE untold
        /\ Goto(r, Found(r))
        /\ UNCHANGED <<wallets, addresses, kind, todo, snap, locks, draft, hidden>>

\* Mutant: countAll without forUpdate.
CountUnlocked(r) ==
    /\ at[r] = "count"
    /\ Goto(r, IF AddressesOf(UserOf(r)) = {} THEN "client" ELSE "ok")
    /\ UNCHANGED <<wallets, addresses, kind, todo, memory, locks, history>>

\* countAll FOR UPDATE; at WALLET_ADDRESS_LIMIT the transaction ends here.
Count(r) ==
    LET room == AddressesOf(UserOf(r)) = {}
    IN  /\ at[r] = "count" /\ Blockers(r) = {}
        /\ scans' = IF room THEN scans \cup {r} ELSE scans
        /\ Goto(r, IF room THEN "client" ELSE "ok")
        /\ UNCHANGED <<wallets, addresses, kind, todo, memory, rows, gaps, history>>

\* getClient, generateAddress or a statement rejects: 500.
ClientFails(r) ==
    /\ at[r] \in {"client", "add"}
    /\ Goto(r, "refused")
    /\ Rollback(r)

GenerateAddress(r) ==
    /\ at[r] = "client"
    /\ Goto(r, "add")
    /\ UNCHANGED <<wallets, addresses, kind, todo, memory, locks, history>>

\* Addresses.create and the commit: nobody else reads in between, since the
\* table is locked.
AddAddress(r) ==
    /\ at[r] = "add" /\ Blockers(r) = {}
    /\ addresses' = addresses \cup {[user |-> UserOf(r), wallet |-> wallet[r], by |-> r]}
    /\ Release(r)
    /\ Goto(r, "ok")
    /\ UNCHANGED <<wallets, kind, todo, memory, history>>
-----------------------------------------------------------------------------
(* changeBulkWalletBalance and updateWallets: one transaction, one unit for *)
(* each user of the list                                                    *)

\* Mutant: changeBulkWalletBalance reads without forUpdate.
FindUnlocked(r) ==
    LET w == First(WalletsOf(UserOf(r)))
    IN  /\ at[r] = "find" /\ kind[r] = "bulk"
        /\ wallet' = [wallet EXCEPT ![r] = w]
        /\ Goto(r, IF w = None THEN "insert" ELSE "credit")
        /\ UNCHANGED <<wallets, addresses, kind, todo, snap, locks, draft, history>>

\* changeBulkWalletBalance: findByUser FOR UPDATE.
FindForUpdate(r) ==
    LET w == First(WalletsOf(UserOf(r)))
    IN  /\ at[r] = "find" /\ kind[r] = "bulk" /\ Blockers(r) = {}
        /\ wallet' = [wallet EXCEPT ![r] = w]
        /\ IF w = None
           THEN gaps' = [gaps EXCEPT ![r] = @ \cup {UserOf(r)}] /\ rows' = rows
           ELSE rows' = [rows EXCEPT ![r] = @ \cup {w}] /\ gaps' = gaps
        /\ Goto(r, IF w = None THEN "insert" ELSE "credit")
        /\ UNCHANGED <<wallets, addresses, kind, todo, snap, scans, draft, history>>

\* updateWallets: a read in the transaction's snapshot, taken by its first read.
FindInSnapshot(r) ==
    LET seen == IF draft[r] = {} THEN {w \in Ids : owner[w] # None /\ inserter[w] = None}
                ELSE snap[r]
        w == First({v \in seen : owner[v] = UserOf(r)})
    IN  /\ at[r] = "find" /\ kind[r] = "bus"
        /\ snap' = [snap EXCEPT ![r] = seen]
        /\ wallet' = [wallet EXCEPT ![r] = w]
        /\ Goto(r, IF w = None THEN "insert" ELSE "credit")
        /\ UNCHANGED <<wallets, addresses, kind, todo, locks, draft, history>>

\* The row and its lock are the transaction's until the commit.
InsertInTransaction(r) ==
    /\ at[r] = "insert" /\ kind[r] \in {"bulk", "bus"} /\ Blockers(r) = {}
    /\ InsertRow(r, UserOf(r), r)
    /\ wallet' = [wallet EXCEPT ![r] = NextId]
    /\ rows' = [rows EXCEPT ![r] = @ \cup {NextId}]
    /\ Goto(r, "credit")
    /\ UNCHANGED <<balance, addresses, kind, todo, snap, gaps, scans, draft, credited, untold>>

ChangeBalance(r) ==
    /\ at[r] = "credit" /\ Blockers(r) = {}
    /\ draft' = [draft EXCEPT ![r] = @ \cup {wallet[r]}]
    /\ rows' = [rows EXCEPT ![r] = @ \cup {wallet[r]}]
    /\ todo' = [todo EXCEPT ![r] = Tail(@)]
    /\ Goto(r, IF Len(todo[r]) = 1 THEN "commit" ELSE "find")
    /\ UNCHANGED <<wallets, addresses, kind, wallet, snap, gaps, scans, history>>

\* Mutant: the catch block commits.
RefuseCommits(r) ==
    /\ at[r] = "credit"
    /\ balance' = [w \in Ids |-> balance[w] + IF w \in draft[r] THEN 1 ELSE 0]
    /\ inserter' = [w \in Ids |-> IF inserter[w] = r THEN None ELSE inserter[w]]
    /\ draft' = [draft EXCEPT ![r] = {}]
    /\ Release(r)
    /\ Goto(r, "refused")
    /\ UNCHANGED <<owner, addresses, kind, todo, wallet, snap, history>>

\* changeBalance throws: rolled back, and answered 409 or the worker ends.
Refuse(r) ==
    /\ at[r] = "credit"
    /\ Goto(r, "refused")
    /\ Rollback(r)

CommitTransfers(r) ==
    /\ at[r] = "commit"
    /\ balance' = [w \in Ids |-> balance[w] + IF w \in draft[r] THEN 1 ELSE 0]
    /\ inserter' = [w \in Ids |-> IF inserter[w] = r THEN None ELSE inserter[w]]
    /\ credited' = [u \in Users |-> credited[u] + IF \E w \in draft[r] : owner[w] = u THEN 1 ELSE 0]
    /\ draft' = [draft EXCEPT ![r] = {}]
    /\ Release(r)
    /\ Goto(r, "ok")
    /\ UNCHANGED <<owner, addresses, kind, todo, wallet, snap, untold, hidden>>
-----------------------------------------------------------------------------
(* What the database does, and the rest of the vault *)

\* Two that wait for each other: InnoDB rolls one of them back.  The find and
\* the create of changeBulkWalletBalance are outside its try block: its
\* connection is never given back.
Deadlock(r) ==
    /\ \E q \in Blockers(r) : r \in Blockers(q)
    /\ Goto(r, IF kind[r] = "bulk" /\ at[r] \in {"find", "insert"} THEN "leaked" ELSE "refused")
    /\ Rollback(r)

\* innodb_lock_wait_timeout ends the statement, the caller the transaction.
LockTimeout(r) ==
    /\ Blockers(r) # {}
    /\ ~(kind[r] = "bulk" /\ at[r] \in {"find", "insert"})
    /\ Goto(r, "refused")
    /\ Rollback(r)

\* Nobody ends the transaction: it keeps what it has locked.
LockTimeoutLeaks(r) ==
    /\ Blockers(r) # {}
    /\ kind[r] = "bulk" /\ at[r] \in {"find", "insert"}
    /\ Goto(r, "leaked")
    /\ UNCHANGED <<wallets, addresses, kind, todo, memory, locks, history>>

\* loadWalletDeposit: the wallet of the address, in a transaction of its own.
LoadDeposit(a) ==
    /\ RowHolders(a.wallet) = {}
    /\ credited[a.user] < MaxCredited
    /\ balance' = [balance EXCEPT ![a.wallet] = @ + 1]
    /\ credited' = [credited EXCEPT ![a.user] = @ + 1]
    /\ UNCHANGED <<owner, inserter, addresses, kind, todo, at, memory, locks, untold, hidden>>
-----------------------------------------------------------------------------
Handle(r) ==
    \/ Find(r) \/ Insert(r) \/ Refind(r)
    \/ Count(r) \/ GenerateAddress(r) \/ AddAddress(r) \/ ClientFails(r)
    \/ FindForUpdate(r) \/ FindInSnapshot(r) \/ InsertInTransaction(r)
    \/ ChangeBalance(r) \/ Refuse(r) \/ CommitTransfers(r)

Next ==
    \/ \E r \in Requests : Handle(r) \/ Deadlock(r) \/ LockTimeout(r) \/ LockTimeoutLeaks(r)
    \/ \E a \in addresses : LoadDeposit(a)

Spec == Init /\ [][Next]_vars
-----------------------------------------------------------------------------
(* Properties *)

\* A user has at most one address, however many ask at once: who counts
\* locks the table, or the gap that keeps all inserts out.
OneAddress ==
    \A a, b \in addresses : a.user = b.user => a = b

\* The address is one of the wallet findByUser shows, so that deposits can be
\* spent, however many wallets the races create; unless the bus worker's
\* uncommitted row was the first one.
AddressOnShownWallet ==
    \A a \in addresses : a.user \notin hidden => a.wallet = First(WalletsOf(a.user))

\* The units of a user's committed balances, numbered in each wallet.
Units(u) == UNION {{w} \X (1 .. balance[w]) : w \in WalletsOf(u)}

\* Every credit an answer, a commit or a deposit has shown is in the user's wallets,
\* whoever was rolled back or left behind, and nothing else is, but what
\* createWalletWithBalance has put in a wallet of its own and not shown: it is about
\* to answer, or another request has created the user's wallet at the same time, the
\* answer reports that one (createWalletWithBalance.js:10-16), and findByUser never
\* shows the credit to anybody.
CreditsKept ==
    \A u \in Users :
        LET hers == {w \in untold : owner[w] = u}
        IN  /\ Cardinality(Units(u)) = credited[u] + Cardinality(hers)
            /\ \A w \in hers :
                   \/ \E r \in Requests : at[r] = "refind" /\ wallet[r] = w
                   \/ w # First(WalletsOf(u))
=============================================================================
