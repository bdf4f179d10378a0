----------------------------- MODULE AccountsProofs -----------------------------
(***************************************************************************)
(* Theorems about Accounts, for every value of its constants: whatever the *)
(* handlers that look for a user's wallet do at the same time, a user has  *)
(* one address, it belongs to the wallet the others read, and no credit is *)
(* lost or made.                                                           *)
(***************************************************************************)
EXTENDS Accounts, FiniteSetTheorems, WellFoundedInduction, TLAPS

-----------------------------------------------------------------------------
(* The inductive invariant *)

Listed(r, u) == \E i \in DOMAIN todo[r] : todo[r][i] = u

\* r has u's wallet still to find, and may insert one.
MayInsert(r, u) ==
    \/ at[r] \in {"find", "insert"} /\ Listed(r, u)
    \/ at[r] = "credit" /\ Listed(r, u) /\ u # UserOf(r)

InsertsLeft == {p \in Requests \X Users : MayInsert(p[1], p[2])}

\* A list has a user once, and the bus worker handles one message at a time.
Given ==
    /\ \A r \in Requests : \A i, j \in DOMAIN todo[r] : todo[r][i] = todo[r][j] => i = j
    /\ \A r, q \in Requests : kind[r] = "bus" /\ kind[q] = "bus" => r = q

\* There are ids for all the wallets that may still be inserted.
Numbered ==
    \A w \in Ids : owner[w] # None =>
        w + Cardinality(InsertsLeft) <= Cardinality(Requests) * Cardinality(Users)

\* A row that is not committed is locked by the one transaction that inserted
\* it, and is empty.
RowOK(w) ==
    /\ owner[w] = None => inserter[w] = None /\ balance[w] = 0
    /\ inserter[w] # None =>
           /\ kind[inserter[w]] \in {"bulk", "bus"}
           /\ w \in rows[inserter[w]]
           /\ balance[w] = 0
           /\ ~MayInsert(inserter[w], owner[w])
           /\ kind[inserter[w]] = "bulk" => owner[w] \in gaps[inserter[w]]

\* Who locked the gap of a user is the only one to have inserted there since.
GapsOK ==
    /\ \A q \in Requests : \A u \in gaps[q] : \A w \in Ids : owner[w] = u => inserter[w] = q
    /\ \A q \in Requests : kind[q] = "bulk" /\ at[q] = "insert" => UserOf(q) \in gaps[q]
    /\ \A q \in Requests : gaps[q] # {} => kind[q] = "bulk"

\* A row that is not committed comes after the committed ones.
Ordered ==
    \A u \in Users \ hidden : \A v \in WalletsOf(u), w \in Uncommitted(u) : v < w

\* The wallet held in memory.
HeldOK(r) ==
    /\ at[r] \in {"refind", "count", "client", "add"} => kind[r] \in {"create", "withBalance"}
    /\ at[r] \in {"credit", "commit"} => kind[r] \in {"bulk", "bus"}
    /\ at[r] = "refind" => WalletsOf(UserOf(r)) # {}
    /\ at[r] \in {"count", "client", "add"} =>
           /\ wallet[r] \in WalletsOf(UserOf(r))
           /\ UserOf(r) \in hidden \/ wallet[r] = First(WalletsOf(UserOf(r)))
    /\ at[r] = "credit" =>
           owner[wallet[r]] = UserOf(r) /\ inserter[wallet[r]] \in {None, r}

\* The snapshot, and the increments that are not committed.
DraftOK(r) ==
    /\ \A w \in snap[r] : owner[w] # None /\ inserter[w] = None
    /\ \A w \in draft[r] :
           owner[w] # None /\ inserter[w] \in {None, r} /\ ~Listed(r, owner[w])
    /\ \A v, w \in draft[r] : owner[v] = owner[w] => v = w

\* Who counted no address has locked the table.
ScansOK ==
    \A r \in Requests : at[r] \in {"client", "add"} => r \in scans /\ AddressesOf(UserOf(r)) = {}

\* Of a user's balances, what no answer has shown, and what is accounted for.
Hers(u) == {w \in untold : owner[w] = u}
Told(u) == credited[u] + Cardinality(Hers(u))

Balanced(u) == IsFiniteSet(Units(u)) /\ Cardinality(Units(u)) = Told(u)

AboutToTell(w) == \E r \in Requests : at[r] = "refind" /\ wallet[r] = w

\* Each creator has a wallet of its own until it looks for the user's; one that was
\* not the first then never is.
ToldOK ==
    /\ \A w \in untold : owner[w] # None /\ inserter[w] = None
    /\ \A r \in Requests : at[r] = "refind" =>
           /\ wallet[r] \in WalletsOf(UserOf(r))
           /\ kind[r] = "withBalance" <=> wallet[r] \in untold
    /\ \A r, q \in Requests :
           at[r] = "refind" /\ at[q] = "refind" /\ wallet[r] = wallet[q] => r = q
    /\ \A w \in untold : AboutToTell(w) \/ w # First(WalletsOf(owner[w]))

AddressesCommitted == \A a \in addresses : a.wallet \in WalletsOf(a.user)

IInv ==
    /\ TypeOK /\ Given /\ Numbered
    /\ \A w \in Ids : RowOK(w)
    /\ GapsOK /\ Ordered
    /\ \A r \in Requests : HeldOK(r) /\ DraftOK(r)
    /\ ScansOK /\ AddressesCommitted
    /\ OneAddress /\ AddressOnShownWallet
    /\ ToldOK /\ \A u \in Users : Balanced(u)

-----------------------------------------------------------------------------
(* The operators of the model *)

LEMMA IdsFacts ==
    /\ Cardinality(Requests) * Cardinality(Users) \in Nat
    /\ IsFiniteSet(Requests \X Users)
    /\ Cardinality(Requests \X Users) = Cardinality(Requests) * Cardinality(Users)
    /\ Ids \subseteq Nat \ {0}
    /\ None \notin Ids /\ None \notin Users /\ None \notin Requests
<1>1. /\ IsFiniteSet(Requests \X Users)
      /\ Cardinality(Requests \X Users) = Cardinality(Requests) * Cardinality(Users)
  BY FS_Product, AccountsAssumption
<1>2. Cardinality(Requests) * Cardinality(Users) \in Nat
  BY <1>1, FS_CardinalityType
<1> QED
  BY <1>1, <1>2, AccountsAssumption DEF Ids

\* A set of naturals has a least element; < is well-founded.
LEMMA MinFacts ==
    ASSUME NEW S \in SUBSET Nat, S # {}
    PROVE  Min(S) \in S /\ \A x \in S : Min(S) <= x
<1> DEFINE L == {ss \in Nat \X Nat : ss[1] < ss[2]}
<1>1. IsWellFoundedOn(L, Nat)
  BY NatLessThanWellFounded, Zenon DEF OpToRel
<1>2. \A x, y \in Nat : x < y => <<x, y>> \in L
  OBVIOUS
<1> HIDE DEF L
<1>3. \E m \in S : \A y \in S : <<y, m>> \notin L
  BY <1>1, WFMin
<1>4. \E m \in S : \A y \in S : m <= y
  <2>1. \E m \in S : \A y \in S : ~(y < m)
    BY <1>2, <1>3
  <2> QED
    BY <2>1
<1> QED
  BY <1>4 DEF Min

\* One that is bounded has a greatest, at the least distance from the bound.
LEMMA MaxFacts ==
    ASSUME NEW n \in Nat, NEW S \in SUBSET (0 .. n), S # {}
    PROVE  Max(S) \in S /\ \A x \in S : Max(S) >= x
<1> DEFINE D == {n - x : x \in S}
<1>1. D \in SUBSET Nat /\ D # {}
  <2>1. \A x \in S : n - x \in Nat
    OBVIOUS
  <2> QED
    BY <2>1
<1>2. Min(D) \in D /\ \A d \in D : Min(D) <= d
  BY <1>1, MinFacts
<1> HIDE DEF D
<1>3. PICK m \in S : Min(D) = n - m
  BY <1>2 DEF D
<1>4. \A x \in S : n - x \in D
  BY DEF D
<1>5. \A x \in S : m >= x
  BY <1>2, <1>3, <1>4
<1> QED
  BY <1>5 DEF Max

LEMMA FirstFacts ==
    ASSUME NEW S \in SUBSET Ids
    PROVE  /\ First(S) = None <=> S = {}
           /\ First(S) \in Ids \cup {None}
           /\ S # {} => First(S) \in S /\ \A x \in S : First(S) <= x
           /\ \A m \in S : (\A x \in S : m <= x) => First(S) = m
<1>1. S \in SUBSET Nat
  BY IdsFacts
<1>2. CASE S = {}
  BY <1>2 DEF First
<1>3. CASE S # {}
  <2>1. First(S) = Min(S) /\ Min(S) \in S /\ \A x \in S : Min(S) <= x
    BY <1>1, <1>3, MinFacts DEF First
  <2>2. ASSUME NEW m \in S, \A x \in S : m <= x PROVE Min(S) = m
    <3>1. Min(S) \in Nat /\ m \in Nat /\ m <= Min(S) /\ Min(S) <= m
      BY <1>1, <2>1, <2>2
    <3> QED
      BY <3>1
  <2> QED
    BY <1>3, <2>1, <2>2, IdsFacts
<1> QED
  BY <1>2, <1>3

\* Rows that come after all others leave the first one in its place.
LEMMA SameFirst ==
    ASSUME NEW S \in SUBSET Ids, NEW T \in SUBSET Ids, S # {}, S \subseteq T,
           \A s \in S, t \in T \ S : s < t
    PROVE  First(T) = First(S) /\ T # {}
<1>1. First(S) \in S /\ \A x \in S : First(S) <= x
  BY FirstFacts
<1>2. \A t \in T : First(S) <= t
  <2> SUFFICES ASSUME NEW t \in T PROVE First(S) <= t
    OBVIOUS
  <2>1. First(S) \in Nat /\ t \in Nat
    BY <1>1, IdsFacts
  <2> QED
    BY <1>1, <2>1
<1> QED
  BY <1>1, <1>2, FirstFacts

LEMMA NextIdFacts ==
    ASSUME TypeOK
    PROVE  /\ NextId \in Nat \ {0}
           /\ \A w \in Ids : owner[w] # None => w < NextId
           /\ NextId = 1 \/ (NextId - 1 \in Ids /\ owner[NextId - 1] # None)
           /\ NextId \in Ids => owner[NextId] = None
<1> DEFINE S == {0} \cup {w \in Ids : owner[w] # None}
           n == Cardinality(Requests) * Cardinality(Users)
<1>1. n \in Nat /\ S \in SUBSET (0 .. n) /\ S # {}
  BY IdsFacts DEF Ids
<1>2. Max(S) \in S /\ \A x \in S : Max(S) >= x
  BY <1>1, MaxFacts
<1>3. NextId = 1 + Max(S) /\ Max(S) \in Nat
  BY <1>1, <1>2 DEF NextId
<1>4. \A w \in Ids : w \in Nat \ {0}
  BY IdsFacts
<1>5. \A w \in Ids : owner[w] # None => w < NextId
  <2> SUFFICES ASSUME NEW w \in Ids, owner[w] # None PROVE w < NextId
    OBVIOUS
  <2>1. w \in S
    OBVIOUS
  <2> QED
    BY <1>2, <1>3, <1>4, <2>1
<1>6. Max(S) = 0 \/ (Max(S) \in Ids /\ owner[Max(S)] # None)
  BY <1>2
<1>7. NextId - 1 = Max(S) /\ NextId \in Nat \ {0}
  BY <1>3
<1>8. NextId = 1 \/ (NextId - 1 \in Ids /\ owner[NextId - 1] # None)
  BY <1>3, <1>6, <1>7
<1>9. NextId \in Ids => owner[NextId] = None
  BY <1>5, <1>7
<1> QED
  BY <1>5, <1>7, <1>8, <1>9

LEMMA TodoFacts ==
    ASSUME TypeOK, NEW r \in Requests
    PROVE  /\ todo[r] \in Seq(Users) /\ Len(todo[r]) \in Nat /\ DOMAIN todo[r] = 1 .. Len(todo[r])
           /\ \A u : Listed(r, u) => u \in Users
           /\ todo[r] # <<>> => /\ 1 \in DOMAIN todo[r] /\ UserOf(r) = todo[r][1]
                                /\ UserOf(r) \in Users /\ Listed(r, UserOf(r))
<1>1. todo[r] \in Seq(Users)
  BY DEF TypeOK
<1>2. /\ Len(todo[r]) \in Nat /\ DOMAIN todo[r] = 1 .. Len(todo[r])
      /\ \A i \in 1 .. Len(todo[r]) : todo[r][i] \in Users
  BY <1>1
<1>3. \A u : Listed(r, u) => u \in Users
  BY <1>2 DEF Listed
<1>4. ASSUME todo[r] # <<>>
      PROVE  /\ 1 \in DOMAIN todo[r] /\ UserOf(r) = todo[r][1]
             /\ UserOf(r) \in Users /\ Listed(r, UserOf(r))
  <2>1. Len(todo[r]) # 0
    BY <1>1, <1>4
  <2>2. 1 \in DOMAIN todo[r]
    BY <1>2, <2>1
  <2>3. UserOf(r) = todo[r][1]
    BY DEF UserOf
  <2> QED
    BY <1>2, <2>2, <2>3 DEF Listed
<1> QED
  BY <1>1, <1>2, <1>3, <1>4

LEMMA BusyFacts ==
    ASSUME TypeOK, NEW r \in Requests, at[r] \notin Ended \cup {"commit"}
    PROVE  todo[r] # <<>> /\ UserOf(r) \in Users /\ Listed(r, UserOf(r))
  BY TodoFacts DEF TypeOK

\* What is left of a list is the list without the user just handled.
LEMMA TailListed ==
    ASSUME TypeOK, Given, NEW r \in Requests, todo[r] # <<>>,
           todo' = [todo EXCEPT ![r] = Tail(@)]
    PROVE  /\ \A u : Listed(r, u)' <=> Listed(r, u) /\ u # UserOf(r)
           /\ \A q \in Requests \ {r} : todo'[q] = todo[q]
           /\ todo' \in [Requests -> Seq(Users)]
           /\ Len(todo[r]) # 1 => todo'[r] # <<>>
           /\ \A i, j \in DOMAIN todo'[r] : todo'[r][i] = todo'[r][j] => i = j
<1>1. /\ todo[r] \in Seq(Users) /\ Len(todo[r]) \in Nat \ {0} /\ DOMAIN todo[r] = 1 .. Len(todo[r])
      /\ UserOf(r) = todo[r][1]
  BY TodoFacts
<1>2. todo'[r] = Tail(todo[r]) /\ \A q \in Requests \ {r} : todo'[q] = todo[q]
  BY DEF TypeOK
<1> DEFINE n == Len(todo[r]) - 1
<1>3. n \in Nat /\ Len(todo[r]) = n + 1
  BY <1>1
<1> HIDE DEF n
<1>4. /\ Tail(todo[r]) \in Seq(Users) /\ Len(Tail(todo[r])) = n
      /\ DOMAIN Tail(todo[r]) = 1 .. n
      /\ \A i \in 1 .. n : Tail(todo[r])[i] = todo[r][i + 1]
  <2>1. Len(Tail(todo[r])) = n /\ Tail(todo[r]) \in Seq(Users)
    BY <1>1, <1>3
  <2>2. \A i \in 1 .. n : Tail(todo[r])[i] = todo[r][i + 1]
    BY <1>1, <1>3
  <2>3. DOMAIN Tail(todo[r]) = 1 .. n
    BY <2>1
  <2> QED
    BY <2>1, <2>2, <2>3
<1>5. todo' \in [Requests -> Seq(Users)]
  BY <1>4 DEF TypeOK
<1>6. \A i, j \in 1 .. n + 1 : todo[r][i] = todo[r][j] => i = j
  BY <1>1, <1>3 DEF Given
<1>7. \A i, j \in DOMAIN todo'[r] : todo'[r][i] = todo'[r][j] => i = j
  <2>1. ASSUME NEW i \in 1 .. n, NEW j \in 1 .. n, todo[r][i + 1] = todo[r][j + 1]
        PROVE  i = j
    <3>1. i + 1 \in 1 .. n + 1 /\ j + 1 \in 1 .. n + 1
      BY <1>3
    <3>2. i + 1 = j + 1
      BY <1>6, <2>1, <3>1
    <3> QED
      BY <3>2
  <2>2. \A i, j \in DOMAIN Tail(todo[r]) : Tail(todo[r])[i] = Tail(todo[r])[j] => i = j
    BY <1>4, <2>1
  <2> QED
    BY <1>2, <2>2
<1>8. ASSUME NEW u PROVE Listed(r, u)' <=> Listed(r, u) /\ u # UserOf(r)
  <2>1. Listed(r, u)' <=> \E i \in 1 .. n : todo[r][i + 1] = u
    BY <1>2, <1>4 DEF Listed
  <2>2. Listed(r, u) <=> \E i \in 1 .. n + 1 : todo[r][i] = u
    BY <1>1, <1>3 DEF Listed
  <2>3. ASSUME NEW i \in 1 .. n, todo[r][i + 1] = u PROVE Listed(r, u) /\ u # UserOf(r)
    <3>1. i + 1 \in 1 .. n + 1 /\ 1 \in 1 .. n + 1 /\ i + 1 # 1
      BY <1>3
    <3> QED
      BY <1>1, <1>6, <2>2, <2>3, <3>1
  <2>4. ASSUME NEW i \in 1 .. n + 1, todo[r][i] = u, u # UserOf(r) PROVE Listed(r, u)'
    <3>0. i # 1
      BY <1>1, <2>4
    <3>1. i - 1 \in 1 .. n /\ (i - 1) + 1 = i
      BY <1>3, <3>0
    <3> QED
      BY <2>1, <2>4, <3>1
  <2> QED
    BY <2>1, <2>2, <2>3, <2>4
<1>9. Len(todo[r]) # 1 => todo'[r] # <<>>
  BY <1>2, <1>3, <1>4
<1> QED
  BY <1>2, <1>5, <1>7, <1>8, <1>9

\* What a request does, or what the database does to it.
Step(r) == Handle(r) \/ Deadlock(r) \/ LockTimeout(r) \/ LockTimeoutLeaks(r)

\* A step of r leaves the other requests' memory and locks alone.
Frame(r) ==
    /\ kind' = kind
    /\ \A q \in Requests \ {r} :
           /\ at'[q] = at[q] /\ todo'[q] = todo[q] /\ wallet'[q] = wallet[q]
           /\ snap'[q] = snap[q] /\ draft'[q] = draft[q]
           /\ rows'[q] = rows[q] /\ gaps'[q] = gaps[q]
           /\ q \in scans' <=> q \in scans

LEMMA StepFrame ==
    ASSUME TypeOK, NEW r \in Requests, Step(r)
    PROVE  Frame(r)
<1> USE DEF wallets, locks, memory, history, TypeOK, Goto, Release, Rollback, Create, InsertRow, Frame
<1>1. CASE Find(r) \/ Insert(r) \/ Refind(r)
  BY <1>1 DEF Find, Insert, Refind
<1>2. CASE Count(r) \/ GenerateAddress(r) \/ AddAddress(r) \/ ClientFails(r)
  BY <1>2 DEF Count, GenerateAddress, AddAddress, ClientFails
<1>3. CASE FindForUpdate(r)
  BY <1>3 DEF FindForUpdate
<1>4. CASE FindInSnapshot(r)
  BY <1>4 DEF FindInSnapshot
<1>5. CASE InsertInTransaction(r) \/ ChangeBalance(r)
  BY <1>5 DEF InsertInTransaction, ChangeBalance
<1>6. CASE Refuse(r) \/ CommitTransfers(r)
  BY <1>6 DEF Refuse, CommitTransfers
<1>7. CASE Deadlock(r) \/ LockTimeout(r) \/ LockTimeoutLeaks(r)
  BY <1>7 DEF Deadlock, LockTimeout, LockTimeoutLeaks
<1> QED
  BY <1>1, <1>2, <1>3, <1>4, <1>5, <1>6, <1>7 DEF Step, Handle

\* How a request goes through its list.
LEMMA Moves ==
    ASSUME TypeOK, NEW r \in Requests, Step(r), ~ChangeBalance(r)
    PROVE  /\ todo'[r] = todo[r]
           /\ at'[r] # "find"
           /\ at'[r] = "insert" => at[r] = "find"
           /\ at'[r] = "credit" => at[r] \in {"find", "insert"} /\ ~Insert(r)
<1> USE DEF wallets, locks, memory, history, TypeOK, Goto, Release, Rollback, Create, InsertRow,
            Ended, Found
<1>1. CASE Find(r) \/ Insert(r) \/ Refind(r)
  BY <1>1 DEF Find, Insert, Refind
<1>2. CASE Count(r) \/ GenerateAddress(r) \/ AddAddress(r) \/ ClientFails(r)
  BY <1>2 DEF Count, GenerateAddress, AddAddress, ClientFails, Insert
<1>3. CASE FindForUpdate(r)
  BY <1>3 DEF FindForUpdate, Insert
<1>4. CASE FindInSnapshot(r)
  BY <1>4 DEF FindInSnapshot, Insert
<1>5. CASE InsertInTransaction(r)
  BY <1>5 DEF InsertInTransaction, Insert
<1>6. CASE Refuse(r) \/ CommitTransfers(r)
  BY <1>6 DEF Refuse, CommitTransfers, Insert
<1>7. CASE Deadlock(r) \/ LockTimeout(r) \/ LockTimeoutLeaks(r)
  BY <1>7 DEF Deadlock, LockTimeout, LockTimeoutLeaks, Insert
<1> QED
  BY <1>1, <1>2, <1>3, <1>4, <1>5, <1>6, <1>7 DEF Step, Handle

LEMMA MayInsertShrinks ==
    ASSUME TypeOK, Given, NEW r \in Requests, Step(r)
    PROVE  /\ \A q \in Requests : \A u : MayInsert(q, u)' => MayInsert(q, u)
           /\ \A u : (Insert(r) \/ InsertInTransaction(r)) /\ u = UserOf(r) =>
                  MayInsert(r, u) /\ ~MayInsert(r, u)'
<1>1. ASSUME NEW q \in Requests \ {r}, NEW u PROVE MayInsert(q, u)' => MayInsert(q, u)
  BY <1>1, StepFrame DEF Frame, MayInsert, Listed, UserOf
<1>2. CASE ChangeBalance(r)
  <2>1. /\ at[r] = "credit" /\ todo' = [todo EXCEPT ![r] = Tail(@)]
        /\ at'[r] \in {"commit", "find"}
    BY <1>2 DEF ChangeBalance, Goto, TypeOK
  <2>2. todo[r] # <<>>
    BY <2>1, BusyFacts DEF Ended
  <2>3. \A u : Listed(r, u)' <=> Listed(r, u) /\ u # UserOf(r)
    BY <2>1, <2>2, TailListed
  <2>4. \A u : MayInsert(r, u)' => MayInsert(r, u)
    BY <2>1, <2>3 DEF MayInsert
  <2> QED
    BY <1>1, <2>1, <2>4 DEF Insert, InsertInTransaction
<1>3. CASE ~ChangeBalance(r)
  <2>1. /\ \A u : Listed(r, u)' <=> Listed(r, u)
        /\ UserOf(r)' = UserOf(r)
        /\ at'[r] # "find"
        /\ at'[r] = "insert" => at[r] = "find"
        /\ at'[r] = "credit" => at[r] \in {"find", "insert"} /\ ~Insert(r)
    BY <1>3, Moves DEF Listed, UserOf
  <2>2. \A u : MayInsert(r, u)' => MayInsert(r, u)
    BY <2>1 DEF MayInsert
  <2>3. ASSUME Insert(r) \/ InsertInTransaction(r), NEW u, u = UserOf(r)
        PROVE  MayInsert(r, u) /\ ~MayInsert(r, u)'
    <3>1. at[r] = "insert"
      BY <2>3 DEF Insert, InsertInTransaction
    <3>2. Listed(r, u)
      BY <2>3, <3>1, BusyFacts DEF Ended
    <3>3. ~MayInsert(r, u)'
      BY <2>1, <2>3, <3>1 DEF MayInsert
    <3> QED
      BY <3>1, <3>2, <3>3 DEF MayInsert
  <2> QED
    BY <1>1, <2>2, <2>3
<1> QED
  BY <1>2, <1>3

LEMMA LeftFacts ==
    ASSUME TypeOK
    PROVE  /\ InsertsLeft \subseteq Requests \X Users
           /\ IsFiniteSet(InsertsLeft) /\ Cardinality(InsertsLeft) \in Nat
           /\ Cardinality(InsertsLeft) <= Cardinality(Requests) * Cardinality(Users)
           /\ \A r \in Requests, u \in Users : <<r, u>> \in InsertsLeft <=> MayInsert(r, u)
<1>1. InsertsLeft \in SUBSET (Requests \X Users)
  BY DEF InsertsLeft
<1>2. /\ IsFiniteSet(InsertsLeft)
      /\ Cardinality(InsertsLeft) <= Cardinality(Requests) * Cardinality(Users)
  BY <1>1, IdsFacts, FS_Subset
<1>3. Cardinality(InsertsLeft) \in Nat
  BY <1>2, FS_CardinalityType
<1>4. \A r \in Requests, u \in Users : <<r, u>> \in InsertsLeft <=> MayInsert(r, u)
  BY DEF InsertsLeft
<1> QED
  BY <1>1, <1>2, <1>3, <1>4

\* There is an id for the row a request inserts.
LEMMA InsertRoom ==
    ASSUME TypeOK, Given, Numbered, NEW r \in Requests, at[r] = "insert"
    PROVE  /\ NextId \in Ids
           /\ NextId + Cardinality(InsertsLeft) - 1 <= Cardinality(Requests) * Cardinality(Users)
<1> DEFINE n == Cardinality(Requests) * Cardinality(Users)
           c == Cardinality(InsertsLeft)
<1>1. UserOf(r) \in Users /\ MayInsert(r, UserOf(r))
  BY BusyFacts DEF Ended, MayInsert
<1>2. c \in Nat \ {0}
  <2>1. <<r, UserOf(r)>> \in InsertsLeft
    BY <1>1, LeftFacts
  <2> QED
    BY <2>1, LeftFacts, FS_EmptySet
<1>3. n \in Nat /\ c <= n
  BY IdsFacts, LeftFacts
<1>4. NextId \in Nat \ {0}
  BY NextIdFacts
<1>5. CASE NextId = 1
  BY <1>2, <1>3, <1>5 DEF Ids
<1>6. CASE NextId - 1 \in Ids /\ owner[NextId - 1] # None
  <2>1. NextId - 1 + c <= n
    BY <1>6 DEF Numbered
  <2> QED
    BY <1>2, <1>3, <1>4, <2>1 DEF Ids
<1> QED
  BY <1>5, <1>6, NextIdFacts

-----------------------------------------------------------------------------
(* Type correctness.  The only subtle part is that the ids do not run out. *)

LEMMA ReleaseType ==
    ASSUME TypeOK, NEW r \in Requests, Release(r)
    PROVE  /\ rows' \in [Requests -> SUBSET Ids] /\ gaps' \in [Requests -> SUBSET Users]
           /\ scans' \subseteq Requests
  BY DEF Release, TypeOK

LEMMA RollbackType ==
    ASSUME TypeOK, NEW r \in Requests, Rollback(r), NEW place \in Ended, Goto(r, place)
    PROVE  TypeOK'
<1>1. /\ rows' \in [Requests -> SUBSET Ids] /\ gaps' \in [Requests -> SUBSET Users]
      /\ scans' \subseteq Requests
  BY ReleaseType DEF Rollback
<1>2. /\ owner' \in [Ids -> Users \cup {None}] /\ inserter' \in [Ids -> Requests \cup {None}]
      /\ draft' \in [Requests -> SUBSET Ids]
  BY DEF Rollback, TypeOK
<1>3. \A q \in Requests : at'[q] = IF q = r THEN place ELSE at[q]
  BY DEF Goto, TypeOK
<1> QED
  BY <1>1, <1>2, <1>3 DEF Rollback, Goto, TypeOK, Ended, history

LEMMA InsertType ==
    ASSUME TypeOK, Given, Numbered, NEW r \in Requests, at[r] = "insert",
           NEW by \in Requests \cup {None}, InsertRow(r, UserOf(r), by)
    PROVE  /\ owner' \in [Ids -> Users \cup {None}] /\ inserter' \in [Ids -> Requests \cup {None}]
           /\ hidden' \subseteq Users
           /\ NextId \in Ids
           /\ \A w \in Ids : /\ owner'[w] = IF w = NextId THEN UserOf(r) ELSE owner[w]
                             /\ inserter'[w] = IF w = NextId THEN by ELSE inserter[w]
<1>1. NextId \in Ids
  BY InsertRoom
<1>2. UserOf(r) \in Users
  BY BusyFacts DEF Ended
<1> QED
  BY <1>1, <1>2 DEF InsertRow, TypeOK

LEMMA StepType ==
    ASSUME TypeOK, Given, Numbered, NEW r \in Requests, HeldOK(r), Step(r)
    PROVE  TypeOK'
<1> DEFINE u == UserOf(r)
<1> USE DEF wallets, locks, memory, history
<1>w. ASSUME NEW S \in SUBSET Ids PROVE First(S) \in Ids \cup {None}
  BY FirstFacts
<1>b. at[r] \notin Ended \cup {"commit"} => todo[r] # <<>> /\ u \in Users
  BY BusyFacts
<1>o. WalletsOf(u) \in SUBSET Ids
  BY DEF WalletsOf
<1>f. /\ First(WalletsOf(u)) \in Ids \cup {None}
      /\ WalletsOf(u) # {} => First(WalletsOf(u)) # None
  BY <1>o, FirstFacts, IdsFacts
<1> HIDE DEF u
<1>1. CASE Find(r)
  <2>1. /\ at[r] = "find" /\ wallet' = [wallet EXCEPT ![r] = First(WalletsOf(u))]
        /\ Goto(r, IF First(WalletsOf(u)) = None THEN "insert" ELSE Found(r))
    BY <1>1 DEF Find, u
  <2> QED
    BY <1>1, <1>b, <1>f, <2>1 DEF Find, Goto, Found, Ended, TypeOK
<1>2. CASE Insert(r)
  <2> DEFINE given == IF kind[r] = "withBalance" THEN 1 ELSE 0
  <2>1. /\ at[r] = "insert" /\ InsertRow(r, UserOf(r), None)
        /\ balance' = [balance EXCEPT ![NextId] = given]
        /\ untold' \in {untold, untold \cup {NextId}}
        /\ wallet' = [wallet EXCEPT ![r] = NextId]
        /\ Goto(r, "refind")
    BY <1>2 DEF Insert, Create
  <2>2. given \in Nat
    OBVIOUS
  <2> HIDE DEF given
  <2>4. /\ owner' \in [Ids -> Users \cup {None}] /\ inserter' \in [Ids -> Requests \cup {None}]
        /\ hidden' \subseteq Users /\ NextId \in Ids
    BY <2>1, InsertType
  <2>3. balance' \in [Ids -> Nat] /\ untold' \subseteq Ids
    BY <2>1, <2>2, <2>4 DEF TypeOK
  <2> QED
    BY <1>2, <1>b, <2>1, <2>3, <2>4, IdsFacts DEF Insert, Goto, Ended, TypeOK
<1>3. CASE Refind(r)
  <2>1. /\ at[r] = "refind" /\ wallet' = [wallet EXCEPT ![r] = First(WalletsOf(u))]
        /\ First(WalletsOf(u)) # None
        /\ credited' = credited \/ credited' = [credited EXCEPT ![u] = @ + 1]
        /\ untold' \subseteq untold
    <3>1. /\ at[r] = "refind" /\ wallet' = [wallet EXCEPT ![r] = First(WalletsOf(u))]
          /\ credited' = credited \/ credited' = [credited EXCEPT ![u] = @ + 1]
          /\ untold' \subseteq untold
      BY <1>3, Zenon DEF Refind, u
    <3>2. First(WalletsOf(u)) # None
      BY <1>f, <3>1 DEF HeldOK, u
    <3> QED BY <3>1, <3>2
  <2>3. u \in Users /\ credited \in [Users -> Nat]
    BY <1>b, <2>1 DEF Ended, TypeOK
  <2>2. credited' \in [Users -> Nat]
    BY <2>1, <2>3
  <2> QED
    BY <1>3, <1>b, <1>f, <2>1, <2>2 DEF Refind, Goto, Found, Ended, TypeOK
<1>4. CASE Count(r) \/ GenerateAddress(r) \/ LockTimeoutLeaks(r)
  BY <1>4, <1>b DEF Count, GenerateAddress, LockTimeoutLeaks, Goto, Ended, TypeOK
<1>5. CASE ClientFails(r) \/ Refuse(r) \/ Deadlock(r) \/ LockTimeout(r)
  <2>1. Rollback(r) /\ (Goto(r, "refused") \/ Goto(r, "leaked"))
    BY <1>5 DEF ClientFails, Refuse, Deadlock, LockTimeout
  <2> QED
    BY <2>1, RollbackType DEF Ended
<1>6. CASE AddAddress(r)
  <2>1. /\ at[r] = "add" /\ Release(r) /\ Goto(r, "ok")
        /\ addresses' = addresses \cup {[user |-> u, wallet |-> wallet[r], by |-> r]}
    BY <1>6 DEF AddAddress, u
  <2>2. wallet[r] \in Ids
    BY <2>1 DEF TypeOK
  <2>3. [user |-> u, wallet |-> wallet[r], by |-> r] \in [user : Users, wallet : Ids, by : Requests]
    BY <1>b, <2>1, <2>2 DEF Ended
  <2>4. addresses' \subseteq [user : Users, wallet : Ids, by : Requests]
    BY <2>1, <2>3 DEF TypeOK
  <2> QED
    BY <1>6, <2>1, <2>4, ReleaseType DEF AddAddress, Goto, Ended, TypeOK
<1>7. CASE FindForUpdate(r)
  <2> DEFINE w == First(WalletsOf(u))
  <2>1. /\ at[r] = "find" /\ wallet' = [wallet EXCEPT ![r] = w]
        /\ \/ w = None /\ gaps' = [gaps EXCEPT ![r] = @ \cup {u}] /\ rows' = rows
           \/ w # None /\ rows' = [rows EXCEPT ![r] = @ \cup {w}] /\ gaps' = gaps
        /\ Goto(r, IF w = None THEN "insert" ELSE "credit")
        /\ UNCHANGED <<wallets, addresses, kind, todo, snap, scans, draft, history>>
    BY <1>7 DEF FindForUpdate, u
  <2>2. w \in Ids \cup {None}
    BY <1>f
  <2> HIDE DEF w
  <2>3. u \in Users /\ gaps \in [Requests -> SUBSET Users] /\ rows \in [Requests -> SUBSET Ids]
    BY <1>b, <2>1 DEF Ended, TypeOK
  <2>4. gaps' \in [Requests -> SUBSET Users]
    BY <2>1, <2>3
  <2>5. rows' \in [Requests -> SUBSET Ids]
    BY <2>1, <2>2, <2>3
  <2> QED
    BY <1>b, <2>1, <2>2, <2>4, <2>5 DEF Goto, Ended, TypeOK
<1>8. CASE FindInSnapshot(r)
  <2> DEFINE seen == IF draft[r] = {} THEN {v \in Ids : owner[v] # None /\ inserter[v] = None}
                     ELSE snap[r]
             w == First({v \in seen : owner[v] = u})
  <2>1. /\ at[r] = "find" /\ snap' = [snap EXCEPT ![r] = seen] /\ wallet' = [wallet EXCEPT ![r] = w]
        /\ Goto(r, IF w = None THEN "insert" ELSE "credit")
        /\ UNCHANGED <<wallets, addresses, kind, todo, locks, draft, history>>
    BY <1>8 DEF FindInSnapshot, u
  <2>2. seen \in SUBSET Ids
    BY DEF TypeOK
  <2>3. w \in Ids \cup {None}
    BY <2>2, FirstFacts
  <2> HIDE DEF w, seen
  <2> QED
    BY <1>b, <2>1, <2>2, <2>3 DEF Goto, Ended, TypeOK
<1>9. CASE InsertInTransaction(r)
  <2>1. /\ at[r] = "insert" /\ InsertRow(r, UserOf(r), r) /\ NextId \in Ids
        /\ owner' \in [Ids -> Users \cup {None}] /\ inserter' \in [Ids -> Requests \cup {None}]
        /\ hidden' \subseteq Users
    BY <1>9, InsertType DEF InsertInTransaction
  <2> QED
    BY <1>9, <1>b, <2>1, IdsFacts DEF InsertInTransaction, Goto, Ended, TypeOK
<1>10. CASE ChangeBalance(r)
  <2>1. /\ at[r] = "credit" /\ todo' = [todo EXCEPT ![r] = Tail(@)] /\ todo[r] # <<>>
        /\ wallet[r] \in Ids
    BY <1>10, <1>b DEF ChangeBalance, Ended, TypeOK
  <2>2. /\ todo' \in [Requests -> Seq(Users)] /\ (Len(todo[r]) # 1 => todo'[r] # <<>>)
        /\ \A q \in Requests \ {r} : todo'[q] = todo[q]
    BY <2>1, TailListed
  <2> QED
    BY <1>10, <2>1, <2>2 DEF ChangeBalance, Goto, Ended, TypeOK
<1>11. CASE CommitTransfers(r)
  <2>1. balance' \in [Ids -> Nat] /\ credited' \in [Users -> Nat]
        /\ inserter' \in [Ids -> Requests \cup {None}] /\ draft' \in [Requests -> SUBSET Ids]
    BY <1>11 DEF CommitTransfers, TypeOK
  <2> QED
    BY <1>11, <2>1, ReleaseType DEF CommitTransfers, Goto, Ended, TypeOK
<1> QED
  BY <1>1, <1>2, <1>3, <1>4, <1>5, <1>6, <1>7, <1>8, <1>9, <1>10, <1>11 DEF Step, Handle

-----------------------------------------------------------------------------
(* What a step does to the rows *)

Inserts(r) == Insert(r) \/ InsertInTransaction(r)

LEMMA InsertFacts ==
    ASSUME IInv, NEW r \in Requests, Inserts(r)
    PROVE  /\ at[r] = "insert" /\ Blockers(r) = {} /\ NextId \in Ids /\ owner[NextId] = None
           /\ UserOf(r) \in Users /\ Listed(r, UserOf(r))
           /\ \A w \in Ids : owner'[w] = IF w = NextId THEN UserOf(r) ELSE owner[w]
           /\ Insert(r) => /\ kind[r] \in {"create", "withBalance"}
                           /\ \A w \in Ids : inserter'[w] = IF w = NextId THEN None ELSE inserter[w]
           /\ InsertInTransaction(r) =>
                  /\ kind[r] \in {"bulk", "bus"}
                  /\ \A w \in Ids : inserter'[w] = IF w = NextId THEN r ELSE inserter[w]
           /\ hidden \subseteq hidden'
           /\ \A u \in gaps[r] : InsertInTransaction(r)
           /\ \A q \in Requests : UserOf(r) \in gaps[q] => q = r
<1>0. TypeOK /\ Given /\ Numbered /\ GapsOK
  BY DEF IInv
<1>1. at[r] = "insert" /\ Blockers(r) = {}
  BY DEF Inserts, Insert, InsertInTransaction
<1>2. NextId \in Ids /\ owner[NextId] = None
  BY <1>0, <1>1, InsertRoom, NextIdFacts
<1>3. UserOf(r) \in Users /\ Listed(r, UserOf(r))
  BY <1>0, <1>1, BusyFacts DEF Ended
<1>4. \A q \in Requests : UserOf(r) \in gaps[q] => q = r
  BY <1>1 DEF Blockers, WaitsFor, GapHolders
<1>5. CASE Insert(r)
  <2>1. kind[r] \in {"create", "withBalance"} /\ InsertRow(r, UserOf(r), None)
    BY <1>5 DEF Insert, Create
  <2>2. \A w \in Ids : /\ owner'[w] = IF w = NextId THEN UserOf(r) ELSE owner[w]
                       /\ inserter'[w] = IF w = NextId THEN None ELSE inserter[w]
    BY <1>0, <1>1, <2>1, InsertType
  <2>3. hidden \subseteq hidden' /\ ~InsertInTransaction(r)
    BY <2>1 DEF InsertRow, InsertInTransaction
  <2>4. gaps[r] = {}
    BY <1>0, <2>1 DEF GapsOK
  <2> QED
    BY <1>1, <1>2, <1>3, <1>4, <2>1, <2>2, <2>3, <2>4
<1>6. CASE InsertInTransaction(r)
  <2>1. kind[r] \in {"bulk", "bus"} /\ InsertRow(r, UserOf(r), r)
    BY <1>6 DEF InsertInTransaction
  <2>2. \A w \in Ids : /\ owner'[w] = IF w = NextId THEN UserOf(r) ELSE owner[w]
                       /\ inserter'[w] = IF w = NextId THEN r ELSE inserter[w]
    BY <1>0, <1>1, <2>1, InsertType
  <2>3. hidden \subseteq hidden' /\ ~Insert(r)
    BY <2>1 DEF InsertRow, Insert
  <2> QED
    BY <1>1, <1>2, <1>3, <1>4, <1>6, <2>1, <2>2, <2>3
<1> QED
  BY <1>5, <1>6 DEF Inserts

\* Rows change in four ways.
LEMMA Effects ==
    ASSUME TypeOK, NEW r \in Requests, Step(r)
    PROVE  \/ UNCHANGED <<owner, inserter, balance, hidden>>
           \/ Rollback(r) /\ at'[r] \in Ended
           \/ Inserts(r)
           \/ CommitTransfers(r)
<1> USE DEF wallets, history, Goto, TypeOK
<1>1. CASE Find(r) \/ Refind(r) \/ Count(r) \/ GenerateAddress(r) \/ AddAddress(r)
  BY <1>1 DEF Find, Refind, Count, GenerateAddress, AddAddress
<1>2. CASE FindForUpdate(r) \/ ChangeBalance(r) \/ LockTimeoutLeaks(r)
  BY <1>2 DEF FindForUpdate, ChangeBalance, LockTimeoutLeaks
<1>3. CASE FindInSnapshot(r)
  BY <1>3 DEF FindInSnapshot
<1>4. CASE ClientFails(r) \/ Refuse(r) \/ Deadlock(r) \/ LockTimeout(r)
  BY <1>4 DEF ClientFails, Refuse, Deadlock, LockTimeout, Ended
<1> QED
  BY <1>1, <1>2, <1>3, <1>4 DEF Step, Handle, Inserts

\* Nobody but its transaction touches a row that is not committed, and nobody
\* removes one that is.
LEMMA RowsKept ==
    ASSUME IInv, NEW r \in Requests, Step(r)
    PROVE  /\ \A w \in Ids : owner[w] # None /\ inserter[w] # r =>
                  owner'[w] = owner[w] /\ inserter'[w] = inserter[w]
           /\ \A w \in Ids : owner[w] # None /\ at'[r] \notin Ended =>
                  owner'[w] = owner[w] /\ inserter'[w] = inserter[w]
           /\ \A w \in Ids : owner'[w] # None =>
                  \/ owner[w] = owner'[w] /\ inserter'[w] \in {inserter[w], None}
                  \/ w = NextId /\ Inserts(r)
           /\ hidden \subseteq hidden'
<1>0. TypeOK
  BY DEF IInv
<1>1. CASE UNCHANGED <<owner, inserter, balance, hidden>>
  BY <1>1
<1>2. CASE Rollback(r) /\ at'[r] \in Ended
  BY <1>0, <1>2 DEF Rollback, TypeOK, history
<1>3. CASE Inserts(r)
  <2>1. /\ owner[NextId] = None
        /\ \A w \in Ids : w # NextId => owner'[w] = owner[w] /\ inserter'[w] = inserter[w]
        /\ hidden \subseteq hidden'
    BY <1>3, InsertFacts DEF Inserts
  <2> QED
    BY <1>3, <2>1
<1>4. CASE CommitTransfers(r)
  BY <1>0, <1>4 DEF CommitTransfers, Goto, Ended, TypeOK
<1> QED
  BY <1>0, <1>1, <1>2, <1>3, <1>4, Effects

\* The wallet findByUser shows stays the one it shows.
LEMMA WalletsGrow ==
    ASSUME IInv, NEW r \in Requests, Step(r)
    PROVE  \A u \in Users :
               /\ WalletsOf(u) \subseteq WalletsOf(u)'
               /\ u \notin hidden' /\ WalletsOf(u) # {} =>
                      WalletsOf(u)' # {} /\ First(WalletsOf(u)') = First(WalletsOf(u))
<1> SUFFICES ASSUME NEW u \in Users
             PROVE  /\ WalletsOf(u) \subseteq WalletsOf(u)'
                    /\ u \notin hidden' /\ WalletsOf(u) # {} =>
                           WalletsOf(u)' # {} /\ First(WalletsOf(u)') = First(WalletsOf(u))
  OBVIOUS
<1>1. u # None /\ r # None
  BY IdsFacts
<1>2. WalletsOf(u) \in SUBSET Ids /\ WalletsOf(u)' \in SUBSET Ids
  BY DEF WalletsOf
<1>3. WalletsOf(u) \subseteq WalletsOf(u)'
  BY <1>1, RowsKept DEF WalletsOf
<1>4. ASSUME u \notin hidden', NEW s \in WalletsOf(u), NEW t \in WalletsOf(u)' \ WalletsOf(u)
      PROVE  s < t
  <2>1. t \in Ids /\ owner'[t] = u /\ (t = NextId \/ (owner[t] = u /\ inserter[t] # None))
    BY <1>1, RowsKept DEF WalletsOf
  <2>2. CASE t = NextId
    BY <1>1, <2>2, NextIdFacts DEF IInv, WalletsOf
  <2>3. CASE owner[t] = u /\ inserter[t] # None
    <3>1. t \in Uncommitted(u) /\ u \notin hidden
      BY <1>4, <2>1, <2>3, RowsKept DEF Uncommitted
    <3> QED
      BY <3>1 DEF IInv, Ordered
  <2> QED
    BY <2>1, <2>2, <2>3
<1>5. ASSUME u \notin hidden', WalletsOf(u) # {}
      PROVE  WalletsOf(u)' # {} /\ First(WalletsOf(u)') = First(WalletsOf(u))
  <2>1. \A s \in WalletsOf(u), t \in WalletsOf(u)' \ WalletsOf(u) : s < t
    BY <1>4, <1>5
  <2> DEFINE S == WalletsOf(u)
             T == WalletsOf(u)'
  <2>2. S \in SUBSET Ids /\ T \in SUBSET Ids /\ S # {} /\ S \subseteq T /\ \A s \in S, t \in T \ S : s < t
    BY <1>2, <1>3, <1>5, <2>1
  <2> HIDE DEF S, T
  <2>3. First(T) = First(S) /\ T # {}
    BY <2>2, SameFirst
  <2> QED
    BY <2>3 DEF S, T
<1> QED
  BY <1>3, <1>5

LEMMA OrderedKept ==
    ASSUME IInv, NEW r \in Requests, Step(r)
    PROVE  Ordered'
<1> SUFFICES ASSUME NEW u \in Users, u \notin hidden',
                    NEW v \in WalletsOf(u)', NEW w \in Uncommitted(u)'
             PROVE  v < w
  BY DEF Ordered
<1>0. TypeOK /\ Given /\ GapsOK /\ Ordered
  BY DEF IInv
<1>1. u # None /\ r # None /\ u \notin hidden
  BY IdsFacts, RowsKept
<1>2. v \in Ids /\ w \in Ids /\ owner'[v] = u /\ owner'[w] = u /\ inserter'[v] = None /\ inserter'[w] # None
  BY DEF WalletsOf, Uncommitted
<1>3. CASE w = NextId /\ Inserts(r)
  <2>1. v # w
    BY <1>2
  <2>2. owner[v] # None
    BY <1>1, <1>2, <1>3, <2>1, InsertFacts
  <2> QED
    BY <1>0, <1>2, <1>3, <2>2, NextIdFacts
<1>4. CASE owner[w] = u /\ inserter[w] = inserter'[w]
  <2> DEFINE q == inserter[w]
  <2>1. /\ q \in Requests /\ kind[q] \in {"bulk", "bus"} /\ (kind[q] = "bulk" => u \in gaps[q])
        /\ w \in Uncommitted(u)
    BY <1>0, <1>2, <1>4 DEF IInv, RowOK, Uncommitted, TypeOK
  <2>2. CASE v = NextId /\ Inserts(r)
    <3>1. UserOf(r) = u /\ Insert(r) /\ kind[r] \in {"create", "withBalance"}
      BY <1>1, <1>2, <2>2, InsertFacts DEF Inserts
    <3>2. q # r
      BY <2>1, <3>1
    <3>3. kind[q] = "bus"
      BY <2>1, <2>2, <3>1, <3>2, InsertFacts
    <3>4. u \in hidden'
      BY <2>1, <3>1, <3>2, <3>3 DEF Insert, Create, InsertRow
    <3> QED
      BY <3>4
  <2>3. CASE owner[v] = u /\ inserter[v] = None
    <3>1. v \in WalletsOf(u)
      BY <1>2, <2>3 DEF WalletsOf
    <3> QED
      BY <1>0, <1>1, <2>1, <3>1 DEF Ordered
  <2>4. CASE owner[v] = u /\ inserter[v] # None
    <3>1. inserter[v] = r
      BY <1>1, <1>2, <2>4, RowsKept
    <3>2. CommitTransfers(r)
      <4>1. ~(UNCHANGED <<owner, inserter, balance, hidden>>)
        BY <1>2, <2>4
      <4>2. ~Rollback(r)
        BY <1>1, <1>2, <3>1 DEF Rollback
      <4>3. ASSUME Inserts(r) PROVE FALSE
        BY <1>1, <1>2, <2>4, <4>3, InsertFacts DEF Inserts
      <4> QED
        BY <1>0, <4>1, <4>2, <4>3, Effects
    <3>3. q # r
      BY <1>2, <1>4, <3>2 DEF CommitTransfers
    <3>4. kind[r] \in {"bulk", "bus"} /\ (kind[r] = "bulk" => u \in gaps[r])
      BY <1>2, <1>1, <2>4, <3>1 DEF IInv, RowOK
    <3>5. kind[r] = "bus" /\ kind[q] = "bus"
      BY <1>0, <1>2, <1>4, <2>1, <2>4, <3>1, <3>3, <3>4 DEF GapsOK
    <3> QED
      BY <1>0, <2>1, <3>3, <3>5 DEF Given
  <2> QED
    BY <1>1, <1>2, <2>2, <2>3, <2>4, RowsKept
<1> QED
  BY <1>1, <1>2, <1>3, <1>4, RowsKept

\* A request gives its locks back when it ends, and only then.
LEMMA LocksGrow ==
    ASSUME TypeOK, NEW r \in Requests, Step(r),
           ~Rollback(r), ~CommitTransfers(r), ~AddAddress(r)
    PROVE  /\ rows[r] \subseteq rows'[r] /\ gaps[r] \subseteq gaps'[r]
           /\ ~FindForUpdate(r) => gaps'[r] = gaps[r]
<1> USE DEF locks, TypeOK
<1>1. CASE Find(r) \/ Insert(r) \/ Refind(r) \/ Count(r) \/ GenerateAddress(r)
  BY <1>1 DEF Find, Insert, Refind, Count, GenerateAddress
<1>2. CASE FindForUpdate(r)
  BY <1>2 DEF FindForUpdate
<1>3. CASE FindInSnapshot(r)
  BY <1>3 DEF FindInSnapshot
<1>4. CASE InsertInTransaction(r) \/ ChangeBalance(r) \/ LockTimeoutLeaks(r)
  BY <1>4 DEF InsertInTransaction, ChangeBalance, LockTimeoutLeaks
<1> QED
  BY <1>1, <1>2, <1>3, <1>4 DEF Step, Handle, ClientFails, Refuse, Deadlock, LockTimeout

LEMMA GivenKept ==
    ASSUME IInv, NEW r \in Requests, Step(r)
    PROVE  Given'
<1>0. TypeOK /\ Given
  BY DEF IInv
<1>1. kind' = kind /\ \A q \in Requests \ {r} : todo'[q] = todo[q]
  BY <1>0, StepFrame DEF Frame
<1>2. \A i, j \in DOMAIN todo'[r] : todo'[r][i] = todo'[r][j] => i = j
  <2>1. CASE ChangeBalance(r)
    <3>1. todo[r] # <<>> /\ todo' = [todo EXCEPT ![r] = Tail(@)]
      BY <1>0, <2>1, BusyFacts DEF ChangeBalance, Ended
    <3> QED
      BY <1>0, <3>1, TailListed
  <2>2. CASE ~ChangeBalance(r)
    <3>1. todo'[r] = todo[r]
      BY <1>0, <2>2, Moves
    <3> QED
      BY <1>0, <3>1 DEF Given
  <2> QED
    BY <2>1, <2>2
<1> QED
  BY <1>0, <1>1, <1>2 DEF Given

LEMMA NumberedKept ==
    ASSUME IInv, TypeOK', NEW r \in Requests, Step(r)
    PROVE  Numbered'
<1> DEFINE n == Cardinality(Requests) * Cardinality(Users)
           c == Cardinality(InsertsLeft)
           d == Cardinality(InsertsLeft')
<1>0. TypeOK /\ Given /\ Numbered
  BY DEF IInv
<1>1. InsertsLeft' \in SUBSET InsertsLeft
  BY <1>0, MayInsertShrinks DEF InsertsLeft
<1>2. n \in Nat /\ c \in Nat /\ d \in Nat /\ d <= c /\ IsFiniteSet(InsertsLeft)
  <2>1. n \in Nat /\ c \in Nat /\ IsFiniteSet(InsertsLeft)
    BY <1>0, IdsFacts, LeftFacts
  <2>2. IsFiniteSet(InsertsLeft') /\ d <= c
    BY <1>1, <2>1, FS_Subset
  <2> QED
    BY <2>1, <2>2, FS_CardinalityType
<1>3. CASE ~Inserts(r)
  <2>1. \A w \in Ids : owner'[w] # None => owner[w] # None
    BY <1>3, RowsKept
  <2>2. ASSUME NEW w \in Ids, owner'[w] # None PROVE w + d <= n
    <3>1. w + c <= n /\ w \in Nat
      BY <1>0, <2>1, <2>2, IdsFacts DEF Numbered
    <3> QED
      BY <1>2, <3>1
  <2> QED
    BY <2>2 DEF Numbered
<1>4. CASE Inserts(r)
  <2>1. UserOf(r) \in Users /\ at[r] = "insert"
    BY <1>4, InsertFacts
  <2>2. <<r, UserOf(r)>> \in InsertsLeft /\ <<r, UserOf(r)>> \notin InsertsLeft'
    BY <1>0, <1>4, <2>1, MayInsertShrinks DEF Inserts, InsertsLeft
  <2>3. InsertsLeft' \in SUBSET (InsertsLeft \ {<<r, UserOf(r)>>})
    BY <1>1, <2>2
  <2>4. /\ IsFiniteSet(InsertsLeft \ {<<r, UserOf(r)>>})
        /\ Cardinality(InsertsLeft \ {<<r, UserOf(r)>>}) = c - 1
    BY <1>2, <2>2, FS_RemoveElement
  <2>5. d <= c - 1
    BY <2>3, <2>4, FS_Subset
  <2>6. NextId \in Ids /\ NextId + c - 1 <= n
    BY <1>0, <2>1, InsertRoom
  <2>7. ASSUME NEW w \in Ids, owner'[w] # None PROVE w + d <= n
    <3>1. w \in Nat
      BY IdsFacts
    <3>2. CASE w = NextId
      BY <1>2, <2>5, <2>6, <3>1, <3>2
    <3>3. CASE w # NextId
      <4>1. w + c <= n
        BY <1>0, <1>4, <2>7, <3>3, InsertFacts DEF Numbered
      <4> QED
        BY <1>2, <2>5, <3>1, <4>1
    <3> QED
      BY <3>2, <3>3
  <2> QED
    BY <2>7 DEF Numbered
<1> QED
  BY <1>3, <1>4

LEMMA RowsOKKept ==
    ASSUME IInv, TypeOK', NEW r \in Requests, Step(r), NEW w \in Ids
    PROVE  RowOK(w)'
<1>0. TypeOK /\ Given /\ RowOK(w) /\ GapsOK /\ \A q \in Requests : HeldOK(q) /\ DraftOK(q)
  BY DEF IInv
<1>1. r # None /\ None \notin Users
  BY IdsFacts
<1>2. /\ kind' = kind
      /\ \A q \in Requests : q # r => rows'[q] = rows[q] /\ gaps'[q] = gaps[q]
      /\ \A q \in Requests : \A u : MayInsert(q, u)' => MayInsert(q, u)
  BY <1>0, StepFrame, MayInsertShrinks DEF Frame
<1>t. inserter[w] \in Requests \cup {None} /\ owner[w] \in Users \cup {None}
  BY <1>0 DEF TypeOK
<1>3. CASE UNCHANGED <<owner, inserter, balance, hidden>>
  <2>1. CASE inserter[w] = r
    <3>1. rows[r] \subseteq rows'[r] /\ gaps[r] \subseteq gaps'[r]
      <4>1. ~Rollback(r)
        BY <1>0, <1>1, <1>3, <2>1 DEF Rollback
      <4>2. ~CommitTransfers(r)
        BY <1>0, <1>1, <1>3, <2>1 DEF CommitTransfers
      <4>3. ~AddAddress(r)
        BY <1>0, <1>1, <2>1 DEF AddAddress, RowOK, HeldOK
      <4> QED
        BY <1>0, <4>1, <4>2, <4>3, LocksGrow
    <3> QED
      BY <1>0, <1>2, <1>3, <2>1, <3>1 DEF RowOK
  <2>2. CASE inserter[w] # r
    BY <1>0, <1>2, <1>3, <1>t, <2>2 DEF RowOK
  <2> QED
    BY <2>1, <2>2
<1>4. CASE Rollback(r)
  <2>1. /\ balance'[w] = balance[w]
        /\ owner'[w] = IF inserter[w] = r THEN None ELSE owner[w]
        /\ inserter'[w] = IF inserter[w] = r THEN None ELSE inserter[w]
    BY <1>4 DEF Rollback
  <2> QED
    BY <1>0, <1>1, <1>2, <1>t, <2>1 DEF RowOK
<1>5. CASE Insert(r)
  <2>1. /\ UserOf(r) \in Users /\ kind[r] \in {"create", "withBalance"}
        /\ owner'[w] = IF w = NextId THEN UserOf(r) ELSE owner[w]
        /\ inserter'[w] = IF w = NextId THEN None ELSE inserter[w]
    BY <1>5, InsertFacts DEF Inserts
  <2>2. w # NextId => balance'[w] = balance[w]
    BY <1>0, <1>5 DEF Insert, Create, TypeOK
  <2>3. inserter[w] # r
    BY <1>0, <1>1, <2>1 DEF RowOK
  <2> QED
    BY <1>0, <1>1, <1>2, <1>t, <2>1, <2>2, <2>3 DEF RowOK
<1>6. CASE InsertInTransaction(r)
  <2>1. /\ UserOf(r) \in Users /\ kind[r] \in {"bulk", "bus"} /\ at[r] = "insert"
        /\ NextId \in Ids /\ owner[NextId] = None
        /\ owner'[w] = IF w = NextId THEN UserOf(r) ELSE owner[w]
        /\ inserter'[w] = IF w = NextId THEN r ELSE inserter[w]
    BY <1>6, InsertFacts DEF Inserts
  <2>2. balance' = balance /\ rows'[r] = rows[r] \cup {NextId} /\ gaps' = gaps
    BY <1>0, <1>6 DEF InsertInTransaction, TypeOK
  <2>3. \A u : u = UserOf(r) => ~MayInsert(r, u)'
    BY <1>0, <1>6, MayInsertShrinks
  <2>4. kind[r] = "bulk" => UserOf(r) \in gaps[r]
    BY <1>0, <2>1 DEF GapsOK
  <2>5. CASE w = NextId
    BY <1>0, <1>1, <1>2, <2>1, <2>2, <2>3, <2>4, <2>5 DEF RowOK
  <2>6. CASE w # NextId
    BY <1>0, <1>1, <1>2, <1>t, <2>1, <2>2, <2>6 DEF RowOK
  <2> QED
    BY <2>5, <2>6
<1>7. CASE CommitTransfers(r)
  <2>1. /\ owner'[w] = owner[w]
        /\ balance'[w] = balance[w] + IF w \in draft[r] THEN 1 ELSE 0
        /\ inserter'[w] = IF inserter[w] = r THEN None ELSE inserter[w]
    BY <1>7 DEF CommitTransfers
  <2>2. w \in draft[r] => owner[w] # None /\ inserter[w] \in {None, r}
    BY <1>0 DEF DraftOK
  <2> QED
    BY <1>0, <1>1, <1>2, <1>t, <2>1, <2>2 DEF RowOK
<1> QED
  BY <1>0, <1>3, <1>4, <1>5, <1>6, <1>7, Effects DEF Inserts

\* A locking read that finds nothing, and waits for nobody, has found that
\* the user has no row at all.
LEMMA GapIsEmpty ==
    ASSUME IInv, NEW r \in Requests, FindForUpdate(r), WalletsOf(UserOf(r)) = {}
    PROVE  \A w \in Ids : owner[w] # UserOf(r)
<1> DEFINE u == UserOf(r)
           S == {v \in Ids : owner[v] = u}
<1>0. TypeOK
  BY DEF IInv
<1>1. at[r] = "find" /\ kind[r] = "bulk" /\ Blockers(r) = {} /\ u \in Users /\ MayInsert(r, u)
  BY <1>0, BusyFacts DEF FindForUpdate, MayInsert, Ended
<1>2. SUFFICES ASSUME S # {} PROVE FALSE
  OBVIOUS
<1>3. S \in SUBSET Ids
  OBVIOUS
<1> DEFINE x == First(S)
<1>4. x \in S /\ x # None
  BY <1>2, <1>3, FirstFacts
<1>5. inserter[x] \in Requests /\ x \in rows[inserter[x]] /\ ~MayInsert(inserter[x], u)
  <2>1. inserter[x] # None
    BY <1>4 DEF WalletsOf
  <2> QED
    BY <1>0, <1>4, <2>1 DEF IInv, RowOK, TypeOK
<1>6. inserter[x] \in RowHolders(x)
  BY <1>5 DEF RowHolders
<1>7. inserter[x] \in WaitsFor(r)
  <2>1. WaitsFor(r) = UNION {RowHolders(w) : w \in {x} \ {None}}
    BY <1>1 DEF WaitsFor
  <2> QED
    BY <1>4, <1>6, <2>1
<1>8. inserter[x] = r
  BY <1>1, <1>7 DEF Blockers
<1> QED
  BY <1>1, <1>5, <1>8

LEMMA GapsKept ==
    ASSUME IInv, TypeOK', NEW r \in Requests, Step(r)
    PROVE  GapsOK'
<1>0. TypeOK /\ GapsOK
  BY DEF IInv
<1>1. /\ kind' = kind /\ None \notin Users
      /\ \A q \in Requests : q # r => gaps'[q] = gaps[q] /\ at'[q] = at[q] /\ todo'[q] = todo[q]
  BY <1>0, StepFrame, IdsFacts DEF Frame
<1>2. ASSUME NEW q \in Requests, NEW u \in gaps'[q], NEW w \in Ids, owner'[w] = u
      PROVE  inserter'[w] = q
  <2>1. u \in Users /\ u # None
    BY <1>0, <1>1, TypeOK' DEF TypeOK
  <2>2. CASE u \in gaps[q] /\ Inserts(r)
    BY <1>0, <1>2, <2>2, InsertFacts DEF GapsOK, Inserts
  <2>3. CASE u \in gaps[q] /\ ~Inserts(r) /\ q # r
    <3>1. owner[w] = u /\ inserter[w] = q
      BY <1>0, <1>2, <2>1, <2>3, RowsKept DEF GapsOK
    <3> QED
      BY <2>1, <2>3, <3>1, RowsKept
  <2>4. CASE u \in gaps[q] /\ ~Inserts(r) /\ q = r
    <3>1. gaps'[r] # {}
      BY <1>2, <2>4
    <3>2. ~Rollback(r) /\ ~CommitTransfers(r)
      BY <1>0, <3>1 DEF Rollback, CommitTransfers, Release, TypeOK
    <3>3. owner'[w] = owner[w] /\ inserter'[w] = inserter[w]
      BY <1>0, <2>4, <3>2, Effects
    <3> QED
      BY <1>0, <1>2, <2>4, <3>3 DEF GapsOK
  <2>5. CASE u \notin gaps[q]
    <3>1. q = r
      BY <1>1, <1>2, <2>5
    <3>2. ~Rollback(r) /\ ~CommitTransfers(r) /\ ~AddAddress(r)
      BY <1>0, <1>2, <3>1 DEF Rollback, CommitTransfers, AddAddress, Release, TypeOK
    <3>3. FindForUpdate(r)
      BY <1>0, <1>2, <2>5, <3>1, <3>2, LocksGrow
    <3>4. u = UserOf(r) /\ First(WalletsOf(UserOf(r))) = None /\ owner' = owner
      BY <1>0, <1>2, <2>5, <3>1, <3>3 DEF FindForUpdate, TypeOK, wallets
    <3>5. WalletsOf(UserOf(r)) = {}
      <4>1. WalletsOf(UserOf(r)) \in SUBSET Ids
        BY DEF WalletsOf
      <4> QED
        BY <3>4, <4>1, FirstFacts
    <3> QED
      BY <1>2, <3>3, <3>4, <3>5, GapIsEmpty
  <2> QED
    BY <2>2, <2>3, <2>4, <2>5
<1>3. ASSUME NEW q \in Requests, kind'[q] = "bulk", at'[q] = "insert"
      PROVE  UserOf(q)' \in gaps'[q]
  <2>1. CASE q # r
    BY <1>0, <1>1, <1>3, <2>1 DEF GapsOK, UserOf
  <2>2. CASE q = r
    <3>1. ~ChangeBalance(r)
      BY <1>0, <1>3, <2>2 DEF ChangeBalance, Goto, TypeOK
    <3>2. at[r] = "find" /\ todo'[r] = todo[r]
      BY <1>0, <1>3, <2>2, <3>1, Moves
    <3>3. FindForUpdate(r)
      BY <1>1, <1>0, <1>3, <2>2, <3>2 DEF Step, Handle, Find, Insert, Refind, Count, GenerateAddress,
            AddAddress, ClientFails, FindInSnapshot, InsertInTransaction, ChangeBalance, Refuse,
            CommitTransfers, Deadlock, LockTimeout, LockTimeoutLeaks, Goto, TypeOK
    <3>4. UserOf(r) \in gaps'[r]
      BY <1>0, <1>3, <2>2, <3>3 DEF FindForUpdate, Goto, TypeOK
    <3> QED
      BY <2>2, <3>2, <3>4 DEF UserOf
  <2> QED
    BY <2>1, <2>2
<1>4. ASSUME NEW q \in Requests, gaps'[q] # {} PROVE kind'[q] = "bulk"
  <2>1. CASE q # r
    BY <1>0, <1>1, <1>4, <2>1 DEF GapsOK
  <2>2. CASE q = r
    <3>1. ~Rollback(r) /\ ~CommitTransfers(r) /\ ~AddAddress(r)
      BY <1>0, <1>4, <2>2 DEF Rollback, CommitTransfers, AddAddress, Release, TypeOK
    <3>2. FindForUpdate(r) \/ gaps'[r] = gaps[r]
      BY <1>0, <3>1, LocksGrow
    <3> QED
      BY <1>0, <1>1, <1>4, <2>2, <3>2 DEF FindForUpdate, GapsOK
  <2> QED
    BY <2>1, <2>2
<1> QED
  BY <1>2, <1>3, <1>4 DEF GapsOK

-----------------------------------------------------------------------------
(* What a request holds in memory *)

LEMMA OthersKept ==
    ASSUME IInv, NEW r \in Requests, Step(r), NEW q \in Requests, q # r
    PROVE  HeldOK(q)' /\ DraftOK(q)'
<1>0. TypeOK /\ HeldOK(q) /\ DraftOK(q)
  BY DEF IInv
<1>1. /\ kind' = kind /\ at'[q] = at[q] /\ todo'[q] = todo[q] /\ wallet'[q] = wallet[q]
      /\ snap'[q] = snap[q] /\ draft'[q] = draft[q]
  BY <1>0, StepFrame DEF Frame
<1>2. UserOf(q)' = UserOf(q) /\ \A u : Listed(q, u)' <=> Listed(q, u)
  BY <1>1 DEF UserOf, Listed
<1>3. r # None /\ None \notin Users
  BY IdsFacts
<1>4. \A w \in Ids : owner[w] # None /\ inserter[w] \in {None, q} =>
          owner'[w] = owner[w] /\ inserter'[w] = inserter[w]
  BY <1>3, RowsKept
<1>5. HeldOK(q)'
  <2> DEFINE u == UserOf(q)
  <2>1. at[q] \in {"refind", "count", "client", "add", "credit"} => u \in Users
    BY <1>0, BusyFacts DEF Ended
  <2>2. \A v \in Users : /\ WalletsOf(v) \subseteq WalletsOf(v)'
                         /\ v \notin hidden' /\ WalletsOf(v) # {} =>
                                First(WalletsOf(v)') = First(WalletsOf(v))
    BY WalletsGrow
  <2>3. hidden \subseteq hidden'
    BY RowsKept
  <2>v. \A v : v = u => WalletsOf(UserOf(q))' = WalletsOf(v)'
                      /\ First(WalletsOf(UserOf(q)))' = First(WalletsOf(v)')
    BY <1>2 DEF WalletsOf, First
  <2>4. ASSUME at[q] = "refind" PROVE WalletsOf(UserOf(q))' # {}
    <3>1. PICK v \in Users : v = u
      BY <2>1, <2>4
    <3>2. WalletsOf(v) # {}
      BY <1>0, <2>4, <3>1 DEF HeldOK
    <3> QED
      BY <2>2, <2>v, <3>1, <3>2
  <2>5. ASSUME at[q] \in {"count", "client", "add"}
        PROVE  /\ wallet'[q] \in WalletsOf(UserOf(q))'
               /\ UserOf(q)' \in hidden' \/ wallet'[q] = First(WalletsOf(UserOf(q)))'
    <3>1. PICK v \in Users : v = u
      BY <2>1, <2>5
    <3>2. wallet[q] \in WalletsOf(v) /\ (v \in hidden \/ wallet[q] = First(WalletsOf(v)))
      BY <1>0, <2>5, <3>1 DEF HeldOK
    <3>3. wallet[q] \in WalletsOf(v)' /\ (v \in hidden' \/ wallet[q] = First(WalletsOf(v)'))
      BY <2>2, <2>3, <3>2
    <3> QED
      BY <1>1, <1>2, <2>v, <3>1, <3>3
  <2>6. ASSUME at[q] = "credit"
        PROVE  owner'[wallet'[q]] = UserOf(q)' /\ inserter'[wallet'[q]] \in {None, q}
    <3>1. wallet[q] \in Ids /\ owner[wallet[q]] # None
      BY <1>0, <1>3, <2>1, <2>6 DEF HeldOK, TypeOK
    <3> QED
      BY <1>0, <1>1, <1>2, <1>4, <2>6, <3>1 DEF HeldOK
  <2> QED
    BY <1>0, <1>1, <2>4, <2>5, <2>6 DEF HeldOK
<1>6. DraftOK(q)'
  <2>1. draft[q] \subseteq Ids /\ snap[q] \subseteq Ids
    BY <1>0 DEF TypeOK
  <2> QED
    BY <1>0, <1>1, <1>2, <1>4, <2>1 DEF DraftOK
<1> QED
  BY <1>5, <1>6

LEMMA OwnHeld ==
    ASSUME IInv, TypeOK', NEW r \in Requests, Step(r)
    PROVE  HeldOK(r)'
<1> DEFINE u == UserOf(r)
<1>0. TypeOK /\ HeldOK(r) /\ DraftOK(r)
  BY DEF IInv
<1>1. kind' = kind /\ None \notin Users /\ None \notin Ids
  BY <1>0, StepFrame, IdsFacts DEF Frame
<1>2. WalletsOf(u) \in SUBSET Ids
  BY DEF WalletsOf
<1>3. First(WalletsOf(u)) # None => First(WalletsOf(u)) \in WalletsOf(u)
  BY <1>2, FirstFacts
<1>u. ASSUME todo'[r] = todo[r], owner' = owner, inserter' = inserter
      PROVE  UserOf(r)' = u /\ WalletsOf(UserOf(r))' = WalletsOf(u)
             /\ First(WalletsOf(UserOf(r)))' = First(WalletsOf(u))
  BY <1>u DEF UserOf, WalletsOf, First
<1>4. CASE Find(r) \/ Refind(r)
  <2>1. /\ wallet'[r] = First(WalletsOf(u))
        /\ at'[r] \in {"insert", "count", "ok"}
        /\ at'[r] = "count" => kind[r] = "create" /\ First(WalletsOf(u)) # None
        /\ todo' = todo /\ owner' = owner /\ inserter' = inserter
    <3>1. at[r] = "refind" => WalletsOf(u) # {}
      BY <1>0 DEF HeldOK
    <3>2. at[r] = "refind" => First(WalletsOf(u)) # None
      BY <1>2, <3>1, FirstFacts
    <3>3. /\ wallet'[r] = First(WalletsOf(u))
          /\ todo' = todo /\ owner' = owner /\ inserter' = inserter
      BY <1>4, <1>0 DEF Find, Refind, TypeOK, wallets
    <3>4. CASE Find(r)
      BY <1>0, <3>3, <3>4 DEF Find, Goto, Found, TypeOK
    <3>5. CASE Refind(r)
      BY <1>0, <3>2, <3>3, <3>5 DEF Refind, Goto, Found, TypeOK
    <3> QED
      BY <1>4, <3>4, <3>5
  <2>2. at'[r] = "count" => First(WalletsOf(u)) \in WalletsOf(u)
    BY <1>3, <2>1
  <2> QED
    BY <1>1, <1>u, <2>1, <2>2 DEF HeldOK
<1>5. CASE Insert(r)
  <2>1. /\ at'[r] = "refind" /\ kind[r] \in {"create", "withBalance"} /\ todo' = todo
    BY <1>0, <1>5 DEF Insert, Goto, TypeOK
  <2>2. NextId \in Ids /\ owner'[NextId] = u /\ inserter'[NextId] = None
    BY <1>5, InsertFacts DEF Inserts
  <2>3. NextId \in WalletsOf(UserOf(r))'
    BY <2>1, <2>2 DEF WalletsOf, UserOf
  <2> QED
    BY <1>1, <2>1, <2>3 DEF HeldOK
<1>6. CASE Count(r) \/ GenerateAddress(r)
  <2>1. /\ at[r] \in {"count", "client"} /\ at'[r] \in {"client", "add", "ok"}
        /\ UNCHANGED <<wallet, todo, owner, inserter, hidden>>
    BY <1>0, <1>6 DEF Count, GenerateAddress, Goto, TypeOK, wallets, memory, history
  <2>2. /\ wallet[r] \in WalletsOf(u) /\ (u \in hidden \/ wallet[r] = First(WalletsOf(u)))
        /\ kind[r] \in {"create", "withBalance"}
    BY <1>0, <2>1 DEF HeldOK
  <2> QED
    BY <1>1, <1>u, <2>1, <2>2 DEF HeldOK
<1>7. CASE FindForUpdate(r)
  <2>1. /\ kind[r] = "bulk" /\ wallet'[r] = First(WalletsOf(u))
        /\ at'[r] \in {"insert", "credit"} /\ (at'[r] = "credit" => First(WalletsOf(u)) # None)
        /\ todo' = todo /\ owner' = owner /\ inserter' = inserter
    BY <1>0, <1>7 DEF FindForUpdate, Goto, TypeOK, wallets
  <2>2. at'[r] = "credit" => owner[wallet'[r]] = u /\ inserter[wallet'[r]] = None
    BY <1>3, <2>1 DEF WalletsOf
  <2> QED
    BY <1>1, <1>u, <2>1, <2>2 DEF HeldOK
<1>8. CASE FindInSnapshot(r)
  <2> DEFINE seen == IF draft[r] = {} THEN {v \in Ids : owner[v] # None /\ inserter[v] = None}
                     ELSE snap[r]
             S == {v \in seen : owner[v] = u}
  <2>1. /\ kind[r] = "bus" /\ wallet'[r] = First(S)
        /\ at'[r] \in {"insert", "credit"} /\ (at'[r] = "credit" => First(S) # None)
        /\ todo' = todo /\ owner' = owner /\ inserter' = inserter
    BY <1>0, <1>8 DEF FindInSnapshot, Goto, TypeOK, wallets
  <2>2. \A v \in S : v \in Ids /\ owner[v] = u /\ inserter[v] = None
    BY <1>0 DEF TypeOK, DraftOK
  <2>3. S \in SUBSET Ids
    BY <2>2
  <2> HIDE DEF S, seen
  <2>4. at'[r] = "credit" => First(S) \in S
    BY <2>1, <2>3, FirstFacts
  <2>5. at'[r] = "credit" => owner[wallet'[r]] = u /\ inserter[wallet'[r]] = None
    BY <2>1, <2>2, <2>4
  <2> QED
    BY <1>1, <1>u, <2>1, <2>5 DEF HeldOK
<1>9. CASE InsertInTransaction(r)
  <2>1. at'[r] = "credit" /\ wallet'[r] = NextId /\ todo' = todo
    BY <1>0, <1>9 DEF InsertInTransaction, Goto, TypeOK
  <2>2. NextId \in Ids /\ owner'[NextId] = u /\ inserter'[NextId] = r /\ kind[r] \in {"bulk", "bus"}
    BY <1>9, InsertFacts DEF Inserts
  <2>3. UserOf(r)' = u
    BY <2>1 DEF UserOf
  <2> QED
    BY <1>1, <2>1, <2>2, <2>3 DEF HeldOK
<1>10. CASE ChangeBalance(r)
  <2>1. at[r] = "credit" /\ at'[r] \in {"commit", "find"}
    BY <1>0, <1>10 DEF ChangeBalance, Goto, TypeOK
  <2> QED
    BY <1>0, <1>1, <2>1 DEF HeldOK
<1>11. CASE AddAddress(r) \/ ClientFails(r) \/ Refuse(r) \/ CommitTransfers(r)
            \/ Deadlock(r) \/ LockTimeout(r) \/ LockTimeoutLeaks(r)
  <2>1. at'[r] \in Ended
    BY <1>0, <1>11 DEF AddAddress, ClientFails, Refuse, CommitTransfers, Deadlock, LockTimeout,
          LockTimeoutLeaks, Goto, TypeOK, Ended
  <2> QED
    BY <2>1 DEF HeldOK, Ended
<1> QED
  BY <1>4, <1>5, <1>6, <1>7, <1>8, <1>9, <1>10, <1>11 DEF Step, Handle

LEMMA OwnDraft ==
    ASSUME IInv, TypeOK', NEW r \in Requests, Step(r)
    PROVE  DraftOK(r)'
<1>0. TypeOK /\ Given /\ HeldOK(r) /\ DraftOK(r)
  BY DEF IInv
<1>1. r # None /\ None \notin Users /\ None \notin Ids
  BY IdsFacts
<1>2. \A w \in Ids : owner[w] # None /\ inserter[w] = None =>
          owner'[w] = owner[w] /\ inserter'[w] = inserter[w]
  BY <1>1, RowsKept
<1>3. \A w \in snap'[r] : owner'[w] # None /\ inserter'[w] = None
  <2>1. CASE snap'[r] = snap[r]
    <3>1. \A w \in snap[r] : w \in Ids /\ owner[w] # None /\ inserter[w] = None
      BY <1>0 DEF TypeOK, DraftOK
    <3> QED
      BY <1>2, <2>1, <3>1
  <2>2. CASE snap'[r] # snap[r]
    <3>1. FindInSnapshot(r)
      BY <1>0, <2>2 DEF Step, Handle, Find, Insert, Refind, Count, GenerateAddress, memory,
            AddAddress, ClientFails, FindForUpdate, InsertInTransaction, ChangeBalance, Refuse,
            CommitTransfers, Deadlock, LockTimeout, LockTimeoutLeaks, Rollback
    <3>2. /\ owner' = owner /\ inserter' = inserter
          /\ snap'[r] = IF draft[r] = {} THEN {v \in Ids : owner[v] # None /\ inserter[v] = None}
                        ELSE snap[r]
      BY <1>0, <3>1 DEF FindInSnapshot, TypeOK, wallets
    <3> QED
      BY <2>2, <3>2
  <2> QED
    BY <2>1, <2>2
<1>4. CASE draft'[r] = {}
  BY <1>3, <1>4 DEF DraftOK
<1>5. CASE ChangeBalance(r)
  <2>1. /\ at[r] = "credit" /\ owner' = owner /\ inserter' = inserter
        /\ draft'[r] = draft[r] \cup {wallet[r]} /\ todo' = [todo EXCEPT ![r] = Tail(@)]
    BY <1>0, <1>5 DEF ChangeBalance, TypeOK, wallets
  <2>2. todo[r] # <<>> /\ UserOf(r) \in Users /\ Listed(r, UserOf(r))
    BY <1>0, <2>1, BusyFacts DEF Ended
  <2>3. owner[wallet[r]] = UserOf(r) /\ inserter[wallet[r]] \in {None, r}
    BY <1>0, <2>1 DEF HeldOK
  <2>4. \A u : Listed(r, u)' <=> Listed(r, u) /\ u # UserOf(r)
    BY <1>0, <2>1, <2>2, TailListed
  <2>5. \A w \in draft[r] : owner[w] # UserOf(r)
    BY <1>0, <2>2 DEF DraftOK
  <2>6. \A w \in draft'[r] : owner'[w] # None /\ inserter'[w] \in {None, r}
    BY <1>0, <1>1, <2>1, <2>2, <2>3 DEF DraftOK
  <2>7. ASSUME NEW w \in draft'[r] PROVE ~Listed(r, owner[w])'
    <3>1. PICK u : u = owner[w]
      OBVIOUS
    <3>2. ~Listed(r, u)'
      BY <1>0, <2>1, <2>3, <2>4, <3>1 DEF DraftOK
    <3> QED
      BY <2>1, <3>1, <3>2 DEF Listed
  <2>8. \A v, w \in draft'[r] : owner'[v] = owner'[w] => v = w
    BY <1>0, <2>1, <2>3, <2>5 DEF DraftOK
  <2> QED
    BY <1>3, <2>6, <2>7, <2>8 DEF DraftOK
<1>6. CASE draft'[r] = draft[r] /\ draft'[r] # {} /\ ~ChangeBalance(r)
  <2>1. ~Rollback(r) /\ ~CommitTransfers(r)
    BY <1>0, <1>6 DEF Rollback, CommitTransfers, TypeOK
  <2>2. todo'[r] = todo[r]
    BY <1>0, <1>6, Moves
  <2>3. \A w \in Ids : owner[w] # None => owner'[w] = owner[w] /\ inserter'[w] = inserter[w]
    <3>1. CASE UNCHANGED <<owner, inserter, balance, hidden>>
      BY <3>1
    <3>2. CASE Inserts(r)
      BY <3>2, InsertFacts DEF Inserts
    <3> QED
      BY <1>0, <2>1, <3>1, <3>2, Effects
  <2>4. \A w \in draft[r] : w \in Ids /\ owner[w] # None
    BY <1>0 DEF TypeOK, DraftOK
  <2> QED
    BY <1>0, <1>3, <1>6, <2>2, <2>3, <2>4 DEF DraftOK, Listed
<1>7. draft'[r] = {} \/ ChangeBalance(r) \/ draft'[r] = draft[r]
  BY <1>0 DEF Step, Handle, Find, Insert, Refind, Count, GenerateAddress, memory,
        AddAddress, ClientFails, FindForUpdate, FindInSnapshot, InsertInTransaction, Refuse,
        CommitTransfers, Deadlock, LockTimeout, LockTimeoutLeaks, Rollback, TypeOK
<1> QED
  BY <1>4, <1>5, <1>6, <1>7

-----------------------------------------------------------------------------
(* Addresses *)

LEMMA ScansKept ==
    ASSUME IInv, TypeOK', NEW r \in Requests, Step(r)
    PROVE  ScansOK'
<1> SUFFICES ASSUME NEW q \in Requests, at'[q] \in {"client", "add"}
             PROVE  q \in scans' /\ AddressesOf(UserOf(q))' = {}
  BY DEF ScansOK
<1>0. TypeOK /\ ScansOK
  BY DEF IInv
<1>1. CASE q # r
  <2>1. /\ at'[q] = at[q] /\ todo'[q] = todo[q] /\ (q \in scans' <=> q \in scans)
    BY <1>0, <1>1, StepFrame DEF Frame
  <2>2. q \in scans /\ AddressesOf(UserOf(q)) = {} /\ UserOf(q)' = UserOf(q)
    BY <1>0, <2>1 DEF ScansOK, UserOf
  <2>3. ~AddAddress(r)
    BY <1>1, <2>2 DEF AddAddress, Blockers, WaitsFor
  <2>4. addresses' = addresses
    BY <2>3 DEF Step, Handle, Find, Insert, Refind, Count, GenerateAddress, ClientFails, Rollback,
          FindForUpdate, FindInSnapshot, InsertInTransaction, ChangeBalance, Refuse,
          CommitTransfers, Deadlock, LockTimeout, LockTimeoutLeaks
  <2> QED
    BY <2>1, <2>2, <2>4 DEF AddressesOf
<1>2. CASE q = r
  <2>1. Count(r) \/ GenerateAddress(r)
    BY <1>0, <1>2 DEF Step, Handle, Find, Insert, Refind, ClientFails, Rollback, Goto, Found,
          AddAddress, FindForUpdate, FindInSnapshot, InsertInTransaction, ChangeBalance, Refuse,
          CommitTransfers, Deadlock, LockTimeout, LockTimeoutLeaks, TypeOK
  <2>2. /\ UNCHANGED <<addresses, todo>>
        /\ r \in scans' /\ AddressesOf(UserOf(r)) = {}
    <3>1. CASE Count(r)
      BY <1>0, <1>2, <3>1 DEF Count, Goto, TypeOK
    <3>2. CASE GenerateAddress(r)
      BY <1>0, <3>2 DEF GenerateAddress, ScansOK, locks
    <3> QED
      BY <2>1, <3>1, <3>2
  <2> QED
    BY <1>2, <2>2 DEF AddressesOf, UserOf
<1> QED
  BY <1>1, <1>2

LEMMA AddressesKept ==
    ASSUME IInv, TypeOK', NEW r \in Requests, Step(r)
    PROVE  AddressesCommitted' /\ OneAddress' /\ AddressOnShownWallet'
<1>0. TypeOK /\ HeldOK(r) /\ ScansOK /\ AddressesCommitted /\ OneAddress /\ AddressOnShownWallet
  BY DEF IInv
<1>1. \A v \in Users : /\ WalletsOf(v) \subseteq WalletsOf(v)'
                       /\ v \notin hidden' /\ WalletsOf(v) # {} =>
                              First(WalletsOf(v)') = First(WalletsOf(v))
  BY WalletsGrow
<1>2. hidden \subseteq hidden'
  BY RowsKept
<1>3. \A a \in addresses : /\ a.user \in Users /\ a.wallet \in WalletsOf(a.user)
                           /\ a.user \notin hidden => a.wallet = First(WalletsOf(a.user))
  BY <1>0 DEF TypeOK, AddressesCommitted, AddressOnShownWallet
<1>4. \A a \in addresses : /\ a.wallet \in WalletsOf(a.user)'
                           /\ a.user \notin hidden' => a.wallet = First(WalletsOf(a.user)')
  BY <1>1, <1>2, <1>3
<1>5. CASE addresses' = addresses
  BY <1>0, <1>4, <1>5 DEF AddressesCommitted, OneAddress, AddressOnShownWallet
<1>6. CASE AddAddress(r)
  <2> DEFINE u == UserOf(r)
             b == [user |-> u, wallet |-> wallet[r], by |-> r]
  <2>1. /\ at[r] = "add" /\ addresses' = addresses \cup {b}
        /\ owner' = owner /\ inserter' = inserter /\ hidden' = hidden
    BY <1>6 DEF AddAddress, wallets, history
  <2>2. /\ AddressesOf(u) = {} /\ wallet[r] \in WalletsOf(u)
        /\ u \in hidden \/ wallet[r] = First(WalletsOf(u))
    BY <1>0, <2>1 DEF ScansOK, HeldOK
  <2>3. b.user = u /\ b.wallet = wallet[r]
    OBVIOUS
  <2> HIDE DEF b, u
  <2>4. OneAddress'
    <3>1. \A a \in addresses : a.user # u
      BY <2>2 DEF AddressesOf
    <3> QED
      BY <1>0, <2>1, <2>3, <3>1 DEF OneAddress
  <2>5. \A v : WalletsOf(v)' = WalletsOf(v)
    BY <2>1 DEF WalletsOf
  <2>6. AddressesCommitted'
    BY <1>3, <2>1, <2>2, <2>3, <2>5 DEF AddressesCommitted
  <2>7. ASSUME NEW a \in addresses', a.user \notin hidden'
        PROVE  a.wallet = First(WalletsOf(a.user)')
    BY <1>3, <2>1, <2>2, <2>3, <2>5, <2>7
  <2>8. AddressOnShownWallet'
    BY <2>7 DEF AddressOnShownWallet, First
  <2> QED
    BY <2>4, <2>6, <2>8
<1>7. addresses' = addresses \/ AddAddress(r)
  BY DEF Step, Handle, Find, Insert, Refind, Count, GenerateAddress, ClientFails, Rollback,
        FindForUpdate, FindInSnapshot, InsertInTransaction, ChangeBalance, Refuse,
        CommitTransfers, Deadlock, LockTimeout, LockTimeoutLeaks
<1> QED
  BY <1>5, <1>6, <1>7

-----------------------------------------------------------------------------
(* Credits *)

UnitsIn(W, b) == UNION {{w} \X (1 .. b[w]) : w \in W}

\* Rows without a balance bring no unit.
LEMMA SameUnits ==
    ASSUME NEW W, NEW b, NEW V, NEW c, W \subseteq V,
           \A w \in W : c[w] = b[w],
           \A w \in V \ W : c[w] = 0
    PROVE  UnitsIn(V, c) = UnitsIn(W, b)
<1>1. \A w \in V \ W : {w} \X (1 .. c[w]) = {}
  BY DEF UnitsIn
<1>2. \A w \in W : {w} \X (1 .. c[w]) = {w} \X (1 .. b[w])
  OBVIOUS
<1>3. \A x : x \in UnitsIn(V, c) <=> \E w \in V : x \in {w} \X (1 .. c[w])
  BY DEF UnitsIn
<1>4. \A x : x \in UnitsIn(W, b) <=> \E w \in W : x \in {w} \X (1 .. b[w])
  BY DEF UnitsIn
<1>5. \A x : x \in UnitsIn(V, c) <=> x \in UnitsIn(W, b)
  BY <1>1, <1>2, <1>3, <1>4
<1> QED
  BY <1>5

\* One more unit in one row, which may be a new one.
LEMMA OneMoreUnit ==
    ASSUME NEW W, NEW b, NEW V, NEW c, W \subseteq V, NEW d \in V,
           \A w \in W \ {d} : c[w] = b[w],
           \A w \in V \ (W \cup {d}) : c[w] = 0,
           d \in W => b[d] \in Nat /\ c[d] = b[d] + 1,
           d \notin W => c[d] = 1
    PROVE  /\ UnitsIn(V, c) = UnitsIn(W, b) \cup {<<d, c[d]>>}
           /\ <<d, c[d]>> \notin UnitsIn(W, b)
<1>1. \A w \in V \ (W \cup {d}) : {w} \X (1 .. c[w]) = {}
  OBVIOUS
<1>2. \A w \in W \ {d} : {w} \X (1 .. c[w]) = {w} \X (1 .. b[w])
  OBVIOUS
<1>3. \A x : x \in UnitsIn(V, c) <=> \E w \in V : x \in {w} \X (1 .. c[w])
  BY DEF UnitsIn
<1>4. \A x : x \in UnitsIn(W, b) <=> \E w \in W : x \in {w} \X (1 .. b[w])
  BY DEF UnitsIn
<1>5. CASE d \in W
  <2>1. 1 .. c[d] = (1 .. b[d]) \cup {c[d]} /\ c[d] \notin 1 .. b[d]
    BY <1>5
  <2>2. {d} \X (1 .. c[d]) = ({d} \X (1 .. b[d])) \cup {<<d, c[d]>>}
    BY <2>1
  <2>3. \A x : x \in UnitsIn(V, c) <=> x \in UnitsIn(W, b) \/ x = <<d, c[d]>>
    BY <1>1, <1>2, <1>3, <1>4, <1>5, <2>2
  <2>4. <<d, c[d]>> \notin UnitsIn(W, b)
    BY <1>4, <2>1
  <2> QED
    BY <2>3, <2>4
<1>6. CASE d \notin W
  <2>1. {d} \X (1 .. c[d]) = {<<d, c[d]>>}
    <3>1. 1 .. c[d] = {c[d]}
      BY <1>6
    <3> QED
      BY <3>1
  <2>2. \A x : x \in UnitsIn(V, c) <=> x \in UnitsIn(W, b) \/ x = <<d, c[d]>>
    BY <1>1, <1>2, <1>3, <1>4, <1>6, <2>1
  <2>3. <<d, c[d]>> \notin UnitsIn(W, b)
    BY <1>4, <1>6
  <2> QED
    BY <2>2, <2>3
<1> QED
  BY <1>5, <1>6

\* A user is credited the unit a row of theirs receives, or it is untold.
LEMMA NothingCredited ==
    ASSUME TypeOK, NEW u \in Users, Balanced(u), Told(u)' = Told(u),
           WalletsOf(u) \subseteq WalletsOf(u)',
           \A w \in WalletsOf(u) : balance'[w] = balance[w],
           \A w \in WalletsOf(u)' \ WalletsOf(u) : balance'[w] = 0
    PROVE  Balanced(u)'
<1> DEFINE W == WalletsOf(u)
           V == WalletsOf(u)'
<1>1. W \subseteq V /\ (\A w \in W : balance'[w] = balance[w]) /\ (\A w \in V \ W : balance'[w] = 0)
  OBVIOUS
<1>2. Units(u) = UnitsIn(W, balance) /\ Units(u)' = UnitsIn(V, balance')
  BY DEF Units, UnitsIn
<1> HIDE DEF W, V
<1>3. UnitsIn(V, balance') = UnitsIn(W, balance)
  BY <1>1, SameUnits
<1> QED
  BY <1>2, <1>3 DEF Balanced

LEMMA UnitCredited ==
    ASSUME TypeOK, NEW u \in Users, Balanced(u), Told(u)' = Told(u) + 1,
           WalletsOf(u) \subseteq WalletsOf(u)',
           NEW d \in WalletsOf(u)',
           \A w \in WalletsOf(u) \ {d} : balance'[w] = balance[w],
           \A w \in WalletsOf(u)' \ (WalletsOf(u) \cup {d}) : balance'[w] = 0,
           d \in WalletsOf(u) => balance'[d] = balance[d] + 1,
           d \notin WalletsOf(u) => balance'[d] = 1
    PROVE  Balanced(u)'
<1> DEFINE W == WalletsOf(u)
           V == WalletsOf(u)'
           c == balance'
           x == <<d, c[d]>>
<1>1. /\ W \subseteq V /\ d \in V /\ (\A w \in W \ {d} : c[w] = balance[w])
      /\ \A w \in V \ (W \cup {d}) : c[w] = 0
      /\ d \in W => balance[d] \in Nat /\ c[d] = balance[d] + 1
      /\ d \notin W => c[d] = 1
  BY DEF WalletsOf, TypeOK
<1>2. Units(u) = UnitsIn(W, balance) /\ Units(u)' = UnitsIn(V, c)
  BY DEF Units, UnitsIn
<1> HIDE DEF W, V, c
<1>3. UnitsIn(V, c) = UnitsIn(W, balance) \cup {x} /\ x \notin UnitsIn(W, balance)
  BY <1>1, OneMoreUnit
<1>4. IsFiniteSet(UnitsIn(W, balance)) /\ Cardinality(UnitsIn(W, balance)) = Told(u)
  BY <1>2 DEF Balanced
<1>5. IsFiniteSet(UnitsIn(V, c)) /\ Cardinality(UnitsIn(V, c)) = Told(u) + 1
  BY <1>3, <1>4, FS_AddElement
<1> QED
  BY <1>2, <1>5 DEF Balanced

LEMMA HersFacts ==
    ASSUME TypeOK, NEW u
    PROVE  /\ Hers(u) \subseteq Ids /\ IsFiniteSet(Hers(u)) /\ Cardinality(Hers(u)) \in Nat
           /\ u \in Users => Told(u) \in Nat
<1>1. IsFiniteSet(Ids)
  BY IdsFacts, FS_Interval DEF Ids
<1>2. Hers(u) \subseteq Ids
  BY DEF Hers, TypeOK
<1>3. IsFiniteSet(Hers(u)) /\ Cardinality(Hers(u)) \in Nat
  BY <1>1, <1>2, FS_Subset, FS_CardinalityType
<1> QED
  BY <1>2, <1>3 DEF Told, TypeOK

\* Who begins to look for the wallet it created, and who stops.
LEMMA RefindMoves ==
    ASSUME IInv, NEW r \in Requests, Step(r)
    PROVE  /\ at[r] = "refind" => Refind(r)
           /\ at'[r] = "refind" => Insert(r)
           /\ ~Insert(r) /\ ~Refind(r) => untold' = untold
           /\ ~Insert(r) /\ ~Refind(r) /\ ~CommitTransfers(r) => credited' = credited
<1>0. TypeOK /\ HeldOK(r)
  BY DEF IInv
<1>1. Blockers(r) # {} => at[r] \in {"find", "insert", "credit", "count", "add"}
  <2>1. WaitsFor(r) # {} => at[r] \in {"find", "insert", "credit", "count", "add"}
    BY DEF WaitsFor
  <2> QED
    BY <2>1 DEF Blockers
<1> USE DEF Goto, Found, Ended, TypeOK, history
<1>2. CASE Find(r) \/ Insert(r) \/ Refind(r)
  <2>1. CASE Find(r)
    BY <1>0, <2>1 DEF Find
  <2>2. CASE Insert(r)
    BY <1>0, <2>2 DEF Insert
  <2>3. CASE Refind(r)
    BY <1>0, <2>3 DEF Refind
  <2> QED
    BY <1>2, <2>1, <2>2, <2>3
<1>3. CASE Count(r) \/ GenerateAddress(r) \/ AddAddress(r) \/ ClientFails(r) \/ Refuse(r)
  BY <1>0, <1>3 DEF Count, GenerateAddress, AddAddress, ClientFails, Refuse, Rollback
<1>4. CASE FindForUpdate(r)
  BY <1>0, <1>4 DEF FindForUpdate
<1>5. CASE FindInSnapshot(r)
  BY <1>0, <1>5 DEF FindInSnapshot
<1>6. CASE InsertInTransaction(r) \/ ChangeBalance(r)
  BY <1>0, <1>6 DEF InsertInTransaction, ChangeBalance
<1>7. CASE CommitTransfers(r)
  BY <1>0, <1>7 DEF CommitTransfers
<1>8. CASE Deadlock(r) \/ LockTimeout(r) \/ LockTimeoutLeaks(r)
  <2>1. Blockers(r) # {}
    BY <1>8 DEF Deadlock, LockTimeout, LockTimeoutLeaks
  <2> QED
    BY <1>0, <1>1, <1>8, <2>1 DEF Deadlock, LockTimeout, LockTimeoutLeaks, Rollback
<1> QED
  BY <1>2, <1>3, <1>4, <1>5, <1>6, <1>7, <1>8 DEF Step, Handle

\* What createWalletWithBalance writes, and what its answer tells.
LEMMA InsertTold ==
    ASSUME IInv, NEW r \in Requests, Insert(r)
    PROVE  /\ untold' = IF kind[r] = "withBalance" THEN untold \cup {NextId} ELSE untold
           /\ credited' = credited
           /\ wallet'[r] = NextId /\ at'[r] = "refind" /\ todo' = todo
           /\ \A w \in Ids : balance'[w] = IF w = NextId
                                           THEN IF kind[r] = "withBalance" THEN 1 ELSE 0
                                           ELSE balance[w]
  BY InsertFacts DEF Insert, Create, Inserts, Goto, TypeOK, IInv

LEMMA RefindTold ==
    ASSUME IInv, NEW r \in Requests, Refind(r)
    PROVE  /\ UNCHANGED <<owner, inserter, balance, todo, hidden>>
           /\ at[r] = "refind" /\ UserOf(r) \in Users
           /\ wallet[r] \in WalletsOf(UserOf(r))
           /\ \/ /\ kind[r] = "withBalance" /\ wallet[r] = First(WalletsOf(UserOf(r)))
                 /\ wallet[r] \in untold
                 /\ untold' = untold \ {wallet[r]}
                 /\ credited' = [credited EXCEPT ![UserOf(r)] = @ + 1]
              \/ /\ kind[r] # "withBalance" \/ wallet[r] # First(WalletsOf(UserOf(r)))
                 /\ untold' = untold
                 /\ credited' = credited
<1>1. /\ at[r] = "refind" /\ UNCHANGED <<owner, inserter, balance, todo, hidden>>
      /\ credited' = IF kind[r] = "withBalance" /\ wallet[r] = First(WalletsOf(UserOf(r)))
                     THEN [credited EXCEPT ![UserOf(r)] = @ + 1] ELSE credited
      /\ untold' = IF kind[r] = "withBalance" /\ wallet[r] = First(WalletsOf(UserOf(r)))
                   THEN untold \ {First(WalletsOf(UserOf(r)))} ELSE untold
  BY Zenon DEF Refind, wallets
<1>2. /\ wallet[r] \in WalletsOf(UserOf(r))
      /\ kind[r] = "withBalance" <=> wallet[r] \in untold
  BY <1>1 DEF IInv, ToldOK
<1>3. UserOf(r) \in Users
  BY <1>1, BusyFacts DEF IInv, Ended
<1> QED
  BY <1>1, <1>2, <1>3

\* A wallet that is not the first of its user's does not become it.
LEMMA StaysBehind ==
    ASSUME NEW W \in SUBSET Ids, NEW V \in SUBSET Ids, W \subseteq V, NEW w \in W, w # First(W)
    PROVE  w # First(V)
<1>1. First(W) \in W /\ First(W) <= w
  BY FirstFacts
<1>2. First(V) <= First(W)
  BY <1>1, FirstFacts
<1>3. First(W) \in Nat /\ w \in Nat /\ First(W) \in V
  BY <1>1, IdsFacts
<1> QED
  BY <1>1, <1>2, <1>3

LEMMA ToldKept ==
    ASSUME IInv, TypeOK', NEW r \in Requests, Step(r)
    PROVE  ToldOK'
<1>0. /\ TypeOK /\ ToldOK /\ Frame(r) /\ None \notin Users /\ r # None
      /\ \A u \in Users : WalletsOf(u) \subseteq WalletsOf(u)'
  BY StepFrame, WalletsGrow, IdsFacts DEF IInv
<1>k. kind' = kind /\ \A q \in Requests \ {r} :
          at'[q] = at[q] /\ wallet'[q] = wallet[q] /\ todo'[q] = todo[q] /\ UserOf(q)' = UserOf(q)
  BY <1>0 DEF Frame, UserOf
<1>w. \A u : WalletsOf(u) \in SUBSET Ids /\ WalletsOf(u)' \in SUBSET Ids
  BY DEF WalletsOf
<1>o. \A w \in untold : /\ w \in Ids /\ owner[w] \in Users /\ w \in WalletsOf(owner[w])
                        /\ owner'[w] = owner[w] /\ inserter'[w] = inserter[w]
  <2> SUFFICES ASSUME NEW w \in untold
               PROVE  /\ w \in Ids /\ owner[w] \in Users /\ w \in WalletsOf(owner[w])
                      /\ owner'[w] = owner[w] /\ inserter'[w] = inserter[w]
    OBVIOUS
  <2>1. w \in Ids /\ owner[w] # None /\ inserter[w] = None
    BY <1>0 DEF TypeOK, ToldOK
  <2>2. owner[w] \in Users /\ w \in WalletsOf(owner[w])
    BY <1>0, <2>1 DEF TypeOK, WalletsOf
  <2>3. owner'[w] = owner[w] /\ inserter'[w] = inserter[w]
    BY <1>0, <2>1, RowsKept
  <2> QED
    BY <2>1, <2>2, <2>3
\* Others' part of the second and third conjunct.
<1>q. ASSUME NEW q \in Requests, q # r, at'[q] = "refind"
      PROVE  /\ at[q] = "refind" /\ wallet'[q] = wallet[q] /\ UserOf(q) \in Users
             /\ wallet[q] \in WalletsOf(UserOf(q))
             /\ wallet'[q] \in WalletsOf(UserOf(q))'
             /\ kind'[q] = "withBalance" <=> wallet[q] \in untold
  <2>1. at[q] = "refind" /\ wallet'[q] = wallet[q] /\ UserOf(q)' = UserOf(q)
    BY <1>k, <1>q
  <2>2. UserOf(q) \in Users
    BY <1>0, <2>1, BusyFacts DEF Ended
  <2>3. wallet[q] \in WalletsOf(UserOf(q)) /\ (kind[q] = "withBalance" <=> wallet[q] \in untold)
    BY <1>0, <2>1 DEF ToldOK
  <2>4. wallet[q] \in WalletsOf(UserOf(q))'
    BY <1>0, <2>1, <2>2, <2>3 DEF WalletsOf
  <2> QED
    BY <1>k, <2>1, <2>2, <2>3, <2>4
<1>b. ASSUME NEW w \in untold, w # First(WalletsOf(owner[w]))
      PROVE  w # First(WalletsOf(owner[w]))'
  <2> DEFINE W == WalletsOf(owner[w])
             V == WalletsOf(owner[w])'
  <2>1. /\ W \in SUBSET Ids /\ V \in SUBSET Ids /\ w \in W /\ w # First(W)
        /\ owner'[w] = owner[w]
    BY <1>b, <1>o, <1>w DEF WalletsOf
  <2>2. W \subseteq V
    <3> DEFINE u == owner[w]
    <3>1. u \in Users /\ owner'[w] = u
      BY <1>o
    <3>2. V = {v \in Ids : owner'[v] = u /\ inserter'[v] = None}
      BY <3>1 DEF WalletsOf
    <3>3. W = {v \in Ids : owner[v] = u /\ inserter[v] = None}
      BY DEF WalletsOf
    <3> HIDE DEF u
    <3>4. {v \in Ids : owner[v] = u /\ inserter[v] = None}
              \subseteq {v \in Ids : owner'[v] = u /\ inserter'[v] = None}
      BY <1>0, <3>1 DEF WalletsOf
    <3> QED
      BY <3>2, <3>3, <3>4
  <2> HIDE DEF W, V
  <2>3. w # First(V)
    BY <2>1, <2>2, StaysBehind
  <2> QED
    BY <2>3 DEF V, First
<1>1. CASE Insert(r)
  <2>1. /\ NextId \in Ids /\ owner[NextId] = None /\ UserOf(r) \in Users
        /\ owner'[NextId] = UserOf(r) /\ inserter'[NextId] = None
    BY <1>1, InsertFacts DEF Inserts
  <2>2. /\ untold' = IF kind[r] = "withBalance" THEN untold \cup {NextId} ELSE untold
        /\ wallet'[r] = NextId /\ at'[r] = "refind" /\ UserOf(r)' = UserOf(r)
    BY <1>1, InsertTold DEF UserOf
  <2>3. \A w \in untold' : owner'[w] # None /\ inserter'[w] = None
    BY <1>0, <1>o, <2>1, <2>2 DEF ToldOK
  <2>4. NextId \in WalletsOf(UserOf(r))'
    BY <2>1, <2>2 DEF WalletsOf
  <2>6. \A q \in Requests : q # r /\ at'[q] = "refind" => wallet'[q] # NextId
    BY <1>0, <1>q, <2>1 DEF WalletsOf
  <2>5. ASSUME NEW q \in Requests, at'[q] = "refind"
        PROVE  /\ wallet'[q] \in WalletsOf(UserOf(q))'
               /\ kind'[q] = "withBalance" <=> wallet'[q] \in untold'
    <3>1. NextId \notin untold
      BY <1>0, <2>1 DEF ToldOK
    <3>2. CASE q = r
      BY <1>k, <2>2, <2>4, <3>1, <3>2
    <3>3. CASE q # r
      BY <1>q, <2>2, <2>5, <2>6, <3>3
    <3> QED
      BY <3>2, <3>3
  <2>7. \A p, q \in Requests :
            at'[p] = "refind" /\ at'[q] = "refind" /\ wallet'[p] = wallet'[q] => p = q
    BY <1>0, <1>k, <2>2, <2>6 DEF ToldOK
  <2>8. \A w \in untold' : AboutToTell(w)' \/ w # First(WalletsOf(owner[w]))'
    <3> SUFFICES ASSUME NEW w \in untold' PROVE AboutToTell(w)' \/ w # First(WalletsOf(owner[w]))'
      OBVIOUS
    <3>1. CASE w = NextId
      BY <2>2, <3>1 DEF AboutToTell
    <3>2. CASE w \in untold /\ AboutToTell(w)
      <4>1. PICK q \in Requests : at[q] = "refind" /\ wallet[q] = w
        BY <3>2 DEF AboutToTell
      <4>2. q # r
        BY <1>1, <4>1 DEF Insert
      <4> QED
        BY <1>k, <4>1, <4>2 DEF AboutToTell
    <3>3. CASE w \in untold /\ w # First(WalletsOf(owner[w]))
      BY <1>b, <3>3
    <3> QED
      BY <1>0, <2>2, <3>1, <3>2, <3>3 DEF ToldOK
  <2> QED
    BY <2>3, <2>5, <2>7, <2>8 DEF ToldOK
<1>2. CASE ~Insert(r)
  <2>1. at'[r] # "refind" /\ untold' \subseteq untold
    BY <1>2, RefindMoves, RefindTold
  <2>2. \A w \in untold' : owner'[w] # None /\ inserter'[w] = None
    BY <1>0, <1>o, <2>1 DEF ToldOK
  <2>3. \A q \in Requests : at'[q] = "refind" =>
            /\ wallet'[q] \in WalletsOf(UserOf(q))'
            /\ kind'[q] = "withBalance" <=> wallet'[q] \in untold'
    <3> SUFFICES ASSUME NEW q \in Requests, at'[q] = "refind"
                 PROVE  /\ wallet'[q] \in WalletsOf(UserOf(q))'
                        /\ kind'[q] = "withBalance" <=> wallet'[q] \in untold'
      OBVIOUS
    <3>1. q # r
      BY <2>1
    <3>2. CASE Refind(r)
      <4>1. at[r] = "refind" /\ (untold' = untold \/ untold' = untold \ {wallet[r]})
        BY <3>2, RefindTold
      <4>2. at[q] = "refind" /\ wallet[q] # wallet[r]
        BY <1>0, <1>q, <3>1, <4>1 DEF ToldOK
      <4> QED
        BY <1>q, <3>1, <4>1, <4>2
    <3>3. CASE ~Refind(r)
      BY <1>2, <1>q, <3>1, <3>3, RefindMoves
    <3> QED
      BY <3>2, <3>3
  <2>4. \A p, q \in Requests :
            at'[p] = "refind" /\ at'[q] = "refind" /\ wallet'[p] = wallet'[q] => p = q
    BY <1>0, <1>q, <2>1 DEF ToldOK
  <2>5. \A w \in untold' : AboutToTell(w)' \/ w # First(WalletsOf(owner[w]))'
    <3> SUFFICES ASSUME NEW w \in untold' PROVE AboutToTell(w)' \/ w # First(WalletsOf(owner[w]))'
      OBVIOUS
    <3>0. w \in untold
      BY <2>1
    <3>1. CASE w # First(WalletsOf(owner[w]))
      BY <1>b, <3>0, <3>1
    <3>2. CASE w = First(WalletsOf(owner[w]))
      <4>1. PICK q \in Requests : at[q] = "refind" /\ wallet[q] = w
        BY <1>0, <3>0, <3>2 DEF ToldOK, AboutToTell
      <4>2. q # r
        <5> SUFFICES ASSUME q = r PROVE FALSE
          OBVIOUS
        <5>1. Refind(r)
          BY <4>1, RefindMoves
        <5>2. owner[w] = UserOf(r)
          BY <4>1, <5>1, RefindTold DEF WalletsOf
        <5>3. kind[r] = "withBalance"
          BY <1>0, <3>0, <4>1 DEF ToldOK
        <5> QED
          BY <3>2, <4>1, <5>1, <5>2, <5>3, RefindTold
      <4> QED
        BY <1>k, <4>1, <4>2 DEF AboutToTell
    <3> QED
      BY <3>1, <3>2
  <2> QED
    BY <2>2, <2>3, <2>4, <2>5 DEF ToldOK
<1> QED
  BY <1>1, <1>2

LEMMA CreditsStep ==
    ASSUME IInv, TypeOK', NEW r \in Requests, Step(r), NEW u \in Users
    PROVE  Balanced(u)'
<1>0. TypeOK /\ Balanced(u) /\ DraftOK(r) /\ \A w \in Ids : RowOK(w)
  BY DEF IInv
<1>h. (~Insert(r) /\ ~Refind(r)) => Hers(u)' = Hers(u)
  <2> SUFFICES ASSUME ~Insert(r), ~Refind(r) PROVE Hers(u)' = Hers(u)
    OBVIOUS
  <2>1. untold' = untold
    BY RefindMoves
  <2>2. \A w \in untold : owner'[w] = owner[w]
    <3>1. \A w \in untold : w \in Ids /\ owner[w] # None /\ inserter[w] = None
      BY <1>0 DEF IInv, ToldOK, TypeOK
    <3> QED
      BY <3>1, RowsKept, IdsFacts
  <2> QED
    BY <2>1, <2>2 DEF Hers
<1>n. Told(u) \in Nat /\ credited[u] \in Nat /\ Cardinality(Hers(u)) \in Nat
  BY <1>0, HersFacts DEF TypeOK
<1>1. WalletsOf(u) \subseteq WalletsOf(u)' /\ u # None /\ r # None
  BY WalletsGrow, IdsFacts
<1>7. CASE Refind(r)
  <2>1. UNCHANGED <<owner, inserter, balance>> /\ UserOf(r) \in Users
    BY <1>7, RefindTold
  <2>2. WalletsOf(u)' = WalletsOf(u)
    BY <2>1 DEF WalletsOf
  <2>3. CASE untold' = untold /\ credited' = credited
    <3>1. Hers(u)' = Hers(u)
      BY <2>1, <2>3 DEF Hers
    <3> QED
      BY <1>0, <2>1, <2>2, <2>3, <3>1, NothingCredited DEF Told
  <2>4. CASE /\ untold' = untold \ {wallet[r]} /\ wallet[r] \in untold
             /\ credited' = [credited EXCEPT ![UserOf(r)] = @ + 1]
             /\ wallet[r] \in WalletsOf(UserOf(r))
    <3>1. owner[wallet[r]] = UserOf(r)
      BY <2>4 DEF WalletsOf
    <3>2. CASE UserOf(r) = u
      <4>1. Hers(u)' = Hers(u) \ {wallet[r]} /\ wallet[r] \in Hers(u)
        BY <2>1, <2>4, <3>1, <3>2 DEF Hers
      <4>2. Cardinality(Hers(u)') = Cardinality(Hers(u)) - 1
        BY <1>0, <4>1, HersFacts, FS_RemoveElement
      <4>3. credited'[u] = credited[u] + 1
        BY <1>0, <2>4, <3>2 DEF TypeOK
      <4>4. Told(u)' = Told(u)
        BY <1>n, <4>2, <4>3 DEF Told
      <4> QED
        BY <1>0, <2>1, <2>2, <4>4, NothingCredited
    <3>3. CASE UserOf(r) # u
      <4>1. Hers(u)' = Hers(u)
        BY <2>1, <2>4, <3>1, <3>3 DEF Hers
      <4>2. Told(u)' = Told(u)
        BY <1>0, <2>4, <3>3, <4>1 DEF Told, TypeOK
      <4> QED
        BY <1>0, <2>1, <2>2, <4>2, NothingCredited
    <3> QED
      BY <3>2, <3>3
  <2> QED
    BY <1>7, <2>3, <2>4, RefindTold
<1>2. CASE /\ UNCHANGED <<owner, inserter, balance, hidden>>
           /\ ~Insert(r) /\ ~Refind(r) /\ ~CommitTransfers(r)
  <2>1. WalletsOf(u)' = WalletsOf(u)
    BY <1>2 DEF WalletsOf
  <2>2. Told(u)' = Told(u)
    BY <1>2, <1>h, RefindMoves DEF Told
  <2> QED
    BY <1>0, <1>2, <2>1, <2>2, NothingCredited
<1>3. CASE Rollback(r) /\ at'[r] \in Ended /\ ~Refind(r)
  <2>1. WalletsOf(u)' = WalletsOf(u)
    BY <1>1, <1>3 DEF Rollback, WalletsOf
  <2>2. ~Insert(r) /\ ~Refind(r) /\ credited' = credited
    BY <1>0, <1>3, InsertTold DEF Rollback, history, Ended
  <2>3. Told(u)' = Told(u)
    BY <1>h, <2>2 DEF Told
  <2> QED
    BY <1>0, <1>3, <2>1, <2>3, NothingCredited DEF Rollback
<1>4. CASE InsertInTransaction(r)
  <2>1. WalletsOf(u)' = WalletsOf(u)
    BY <1>1, <1>4, InsertFacts DEF Inserts, WalletsOf
  <2>2. ~Insert(r) /\ ~Refind(r) /\ credited' = credited
    BY <1>4 DEF InsertInTransaction, Insert, Refind
  <2>3. Told(u)' = Told(u)
    BY <1>h, <2>2 DEF Told
  <2> QED
    BY <1>0, <1>4, <2>1, <2>3, NothingCredited DEF InsertInTransaction
<1>5. CASE Insert(r)
  <2> DEFINE given == IF kind[r] = "withBalance" THEN 1 ELSE 0
  <2>1. /\ NextId \in Ids /\ owner[NextId] = None /\ UserOf(r) \in Users
        /\ \A w \in Ids : /\ owner'[w] = IF w = NextId THEN UserOf(r) ELSE owner[w]
                          /\ inserter'[w] = IF w = NextId THEN None ELSE inserter[w]
    BY <1>5, InsertFacts DEF Inserts
  <2>2. /\ \A w \in Ids : balance'[w] = IF w = NextId THEN given ELSE balance[w]
        /\ untold' = IF given = 1 THEN untold \cup {NextId} ELSE untold
        /\ credited' = credited
    BY <1>5, InsertTold
  <2>3. given \in {0, 1}
    OBVIOUS
  <2> HIDE DEF given
  <2>4. NextId \notin WalletsOf(u) /\ WalletsOf(u) \subseteq Ids
    BY <1>1, <2>1 DEF WalletsOf
  <2>5. Hers(u)' = IF given = 1 /\ UserOf(r) = u THEN Hers(u) \cup {NextId} ELSE Hers(u)
    <3>1. \A w \in untold : w \in Ids /\ w # NextId
      BY <1>0, <2>1 DEF IInv, ToldOK, TypeOK
    <3>2. \A w \in untold : owner'[w] = owner[w]
      BY <2>1, <3>1
    <3> QED
      BY <2>1, <2>2, <3>1, <3>2 DEF Hers
  <2>6. CASE UserOf(r) # u
    <3>1. WalletsOf(u)' = WalletsOf(u)
      BY <1>1, <2>1, <2>6 DEF WalletsOf
    <3>2. Told(u)' = Told(u)
      BY <2>2, <2>5, <2>6 DEF Told
    <3> QED
      BY <1>0, <2>2, <2>4, <2>6, <3>1, <3>2, NothingCredited
  <2>7. CASE UserOf(r) = u
    <3>1. WalletsOf(u)' = WalletsOf(u) \cup {NextId}
      BY <1>1, <2>1, <2>7 DEF WalletsOf
    <3>2. CASE given = 0
      <4>1. Told(u)' = Told(u)
        BY <2>2, <2>5, <3>2 DEF Told
      <4> QED
        BY <1>0, <2>1, <2>2, <2>4, <2>7, <3>1, <3>2, <4>1, NothingCredited
    <3>3. CASE given = 1
      <4> DEFINE d == NextId
      <4>1. /\ d \in WalletsOf(u)' /\ d \notin WalletsOf(u) /\ balance'[d] = 1
            /\ \A w \in WalletsOf(u) \ {d} : balance'[w] = balance[w]
            /\ \A w \in WalletsOf(u)' \ (WalletsOf(u) \cup {d}) : balance'[w] = 0
        BY <2>1, <2>2, <2>4, <2>7, <3>1, <3>3
      <4>2. NextId \notin Hers(u)
        BY <1>0, <2>1 DEF IInv, ToldOK, Hers
      <4>3. Cardinality(Hers(u)') = Cardinality(Hers(u)) + 1
        BY <1>0, <2>5, <2>7, <3>3, <4>2, HersFacts, FS_AddElement
      <4>4. Told(u)' = Told(u) + 1
        BY <1>n, <2>2, <4>3 DEF Told
      <4> HIDE DEF d
      <4> QED
        BY <1>0, <1>1, <4>1, <4>4, UnitCredited
    <3> QED
      BY <2>3, <3>2, <3>3
  <2> QED
    BY <2>6, <2>7
<1>6. CASE CommitTransfers(r)
  <2>1. /\ owner' = owner
        /\ \A w \in Ids : /\ balance'[w] = balance[w] + IF w \in draft[r] THEN 1 ELSE 0
                          /\ inserter'[w] = IF inserter[w] = r THEN None ELSE inserter[w]
        /\ credited'[u] = credited[u] + IF \E w \in draft[r] : owner[w] = u THEN 1 ELSE 0
    BY <1>6 DEF CommitTransfers
  <2>0. Hers(u)' = Hers(u)
    BY <1>6, <1>h DEF CommitTransfers, Insert, Refind
  <2>2. \A w \in Ids : balance[w] \in Nat
    BY <1>0 DEF TypeOK
  <2>3. /\ draft[r] \subseteq Ids /\ credited[u] \in Nat
        /\ \A w \in draft[r] : inserter[w] \in {None, r}
        /\ \A v, w \in draft[r] : owner[v] = owner[w] => v = w
    BY <1>0 DEF TypeOK, DraftOK
  <2>4. WalletsOf(u)' = WalletsOf(u) \cup {w \in Ids : owner[w] = u /\ inserter[w] = r}
    BY <2>1 DEF WalletsOf
  <2>5. \A w \in WalletsOf(u)' \ WalletsOf(u) : w \in Ids /\ inserter[w] = r /\ balance[w] = 0
    BY <1>0, <1>1, <2>4 DEF RowOK
  <2>6. \A w \in WalletsOf(u)' : w \in Ids /\ owner[w] = u
    BY <2>4 DEF WalletsOf
  <2>7. CASE \E w \in draft[r] : owner[w] = u
    <3>1. PICK d \in draft[r] : owner[d] = u
      BY <2>7
    <3>2. \A w \in Ids : owner[w] = u /\ w # d => balance'[w] = balance[w]
      BY <2>1, <2>2, <2>3, <3>1
    <3>3. d \in Ids /\ d \in WalletsOf(u)' /\ balance'[d] = balance[d] + 1
      BY <2>1, <2>3, <2>4, <3>1 DEF WalletsOf
    <3>4. d \notin WalletsOf(u) => balance'[d] = 1
      BY <2>5, <3>3
    <3>5. Told(u)' = Told(u) + 1
      BY <1>n, <2>0, <2>1, <2>7 DEF Told
    <3>6. \A w \in WalletsOf(u) \ {d} : balance'[w] = balance[w]
      BY <1>1, <2>6, <3>2
    <3>7. \A w \in WalletsOf(u)' \ (WalletsOf(u) \cup {d}) : balance'[w] = 0
      BY <2>5, <2>6, <3>2
    <3> QED
      BY <1>0, <1>1, <3>3, <3>4, <3>5, <3>6, <3>7, UnitCredited
  <2>8. CASE ~\E w \in draft[r] : owner[w] = u
    <3>1. \A w \in WalletsOf(u)' : balance'[w] = balance[w]
      BY <2>1, <2>2, <2>6, <2>8
    <3>2. Told(u)' = Told(u)
      BY <1>n, <2>0, <2>1, <2>8 DEF Told
    <3> QED
      BY <1>0, <1>1, <2>5, <3>1, <3>2, NothingCredited
  <2> QED
    BY <2>7, <2>8
<1> QED
  BY <1>0, <1>2, <1>3, <1>4, <1>5, <1>6, <1>7, Effects DEF Inserts

-----------------------------------------------------------------------------
(* The invariant *)

LEMMA LoadDepositInv ==
    ASSUME IInv, NEW a \in addresses, LoadDeposit(a)
    PROVE  IInv'
<1> USE DEF memory, locks, history
<1>0. /\ TypeOK /\ a.user \in Users /\ a.wallet \in Ids /\ a.wallet \in WalletsOf(a.user)
      /\ \A u \in Users : Balanced(u)
  BY DEF IInv, TypeOK, AddressesCommitted
<1>1. /\ owner[a.wallet] = a.user /\ inserter[a.wallet] = None /\ a.user # None
  BY <1>0, IdsFacts DEF WalletsOf
<1>2. /\ UNCHANGED <<owner, inserter, addresses, kind, todo, at, wallet, snap, rows, gaps, scans,
                     draft, untold, hidden>>
      /\ \A w \in Ids : balance'[w] = IF w = a.wallet THEN balance[w] + 1 ELSE balance[w]
      /\ \A u \in Users : credited'[u] = IF u = a.user THEN credited[u] + 1 ELSE credited[u]
      /\ balance' \in [Ids -> Nat] /\ credited' \in [Users -> Nat]
  BY <1>0 DEF LoadDeposit, TypeOK
<1>3. TypeOK'
  BY <1>0, <1>2 DEF TypeOK
<1>4. /\ \A r \in Requests : UserOf(r)' = UserOf(r)
      /\ \A r, u : (Listed(r, u)' <=> Listed(r, u)) /\ (MayInsert(r, u)' <=> MayInsert(r, u))
      /\ InsertsLeft' = InsertsLeft
      /\ \A u : WalletsOf(u)' = WalletsOf(u) /\ Uncommitted(u)' = Uncommitted(u)
      /\ \A u : AddressesOf(u)' = AddressesOf(u)
  BY <1>2 DEF UserOf, Listed, MayInsert, InsertsLeft, WalletsOf, Uncommitted, AddressesOf
<1>5. Given' /\ Numbered' /\ GapsOK' /\ Ordered' /\ ScansOK' /\ AddressesCommitted' /\ OneAddress'
  BY <1>2, <1>4 DEF IInv, Given, Numbered, GapsOK, Ordered, ScansOK, AddressesCommitted, OneAddress
<1>6. AddressOnShownWallet'
  BY <1>2, <1>4 DEF IInv, AddressOnShownWallet, First
<1>7. \A r \in Requests : HeldOK(r)' /\ DraftOK(r)'
  <2> SUFFICES ASSUME NEW r \in Requests PROVE HeldOK(r)' /\ DraftOK(r)'
    OBVIOUS
  <2>1. HeldOK(r) /\ DraftOK(r)
    BY DEF IInv
  <2>2. /\ WalletsOf(UserOf(r))' = WalletsOf(UserOf(r))
        /\ First(WalletsOf(UserOf(r)))' = First(WalletsOf(UserOf(r)))
    BY <1>2 DEF WalletsOf, UserOf, First
  <2>3. HeldOK(r)'
    BY <1>2, <1>4, <2>1, <2>2 DEF HeldOK
  <2>4. DraftOK(r)'
    BY <1>2, <2>1 DEF DraftOK, Listed
  <2> QED
    BY <2>3, <2>4
<1>8. \A w \in Ids : RowOK(w)'
  <2> SUFFICES ASSUME NEW w \in Ids PROVE RowOK(w)'
    OBVIOUS
  <2>1. RowOK(w)
    BY DEF IInv
  <2>2. w = a.wallet => owner[w] # None /\ inserter[w] = None
    BY <1>1
  <2>3. MayInsert(inserter[w], owner[w])' <=> MayInsert(inserter[w], owner[w])
    BY <1>2 DEF MayInsert, Listed, UserOf
  <2> QED
    BY <1>2, <2>1, <2>2, <2>3 DEF RowOK
<1>9. ASSUME NEW u \in Users PROVE Balanced(u)'
  <2>0. Hers(u)' = Hers(u) /\ Cardinality(Hers(u)) \in Nat /\ credited[u] \in Nat
    BY <1>0, <1>2, HersFacts DEF Hers, TypeOK
  <2>1. CASE u = a.user
    <3> DEFINE d == a.wallet
    <3>1. /\ d \in WalletsOf(u)' /\ d \in WalletsOf(u) /\ balance'[d] = balance[d] + 1
          /\ WalletsOf(u)' = WalletsOf(u)
          /\ \A w \in WalletsOf(u) \ {d} : balance'[w] = balance[w]
      BY <1>0, <1>2, <1>4, <2>1 DEF WalletsOf
    <3>2. Told(u)' = Told(u) + 1
      BY <1>2, <2>0, <2>1 DEF Told
    <3> HIDE DEF d
    <3>3. WalletsOf(u) \subseteq WalletsOf(u)' /\ WalletsOf(u)' \ (WalletsOf(u) \cup {d}) = {}
      BY <3>1
    <3> QED
      BY <1>0, <3>1, <3>2, <3>3, UnitCredited
  <2>2. CASE u # a.user
    <3>1. a.wallet \notin WalletsOf(u)
      BY <1>1, <2>2 DEF WalletsOf
    <3>2. \A w \in WalletsOf(u) : w \in Ids /\ balance'[w] = balance[w]
      BY <1>2, <3>1 DEF WalletsOf
    <3>3. Told(u)' = Told(u)
      BY <1>2, <2>0, <2>2 DEF Told
    <3> QED
      BY <1>0, <1>4, <3>2, <3>3, NothingCredited
  <2> QED
    BY <2>1, <2>2
<1>10. ToldOK'
  <2>1. \A w : AboutToTell(w)' <=> AboutToTell(w)
    BY <1>2 DEF AboutToTell
  <2>2. \A w : First(WalletsOf(owner[w]))' = First(WalletsOf(owner[w]))
    BY <1>2 DEF WalletsOf, First
  <2>3. \A r \in Requests : WalletsOf(UserOf(r))' = WalletsOf(UserOf(r))
    BY <1>2 DEF WalletsOf, UserOf
  <2>4. ToldOK
    BY DEF IInv
  <2>5. \A w \in untold' : AboutToTell(w)' \/ w # First(WalletsOf(owner[w]))'
    BY <1>2, <2>1, <2>2, <2>4 DEF ToldOK
  <2> QED
    BY <1>2, <2>3, <2>4, <2>5 DEF ToldOK
<1> QED
  BY <1>3, <1>5, <1>6, <1>7, <1>8, <1>9, <1>10 DEF IInv

LEMMA StepInv ==
    ASSUME IInv, NEW r \in Requests, Step(r)
    PROVE  IInv'
<1>1. TypeOK'
  BY StepType DEF IInv
<1>2. \A q \in Requests : HeldOK(q)' /\ DraftOK(q)'
  BY <1>1, OthersKept, OwnHeld, OwnDraft
<1>3. \A w \in Ids : RowOK(w)'
  BY <1>1, RowsOKKept
<1>4. ToldOK' /\ \A u \in Users : Balanced(u)'
  BY <1>1, CreditsStep, ToldKept
<1> QED
  BY <1>1, <1>2, <1>3, <1>4, GivenKept, NumberedKept, OrderedKept, GapsKept, ScansKept,
     AddressesKept DEF IInv

LEMMA InitInv == Init => IInv
<1> SUFFICES ASSUME Init PROVE IInv
  OBVIOUS
<1>1. \A s \in Lists : /\ s \in Seq(Users) /\ s # <<>>
                       /\ \A i, j \in DOMAIN s : s[i] = s[j] => i = j
  <2> SUFFICES ASSUME NEW s \in Lists
               PROVE  /\ s \in Seq(Users) /\ s # <<>>
                      /\ \A i, j \in DOMAIN s : s[i] = s[j] => i = j
    OBVIOUS
  <2>1. CASE s \in {<<u>> : u \in Users}
    <3>1. PICK u \in Users : s = <<u>>
      BY <2>1
    <3> QED
      BY <3>1
  <2>2. CASE s \in {p \in Users \X Users : p[1] # p[2]}
    <3>1. PICK u \in Users, v \in Users : s = <<u, v>>
      BY <2>2
    <3>2. u # v
      BY <2>2, <3>1
    <3>3. s \in Seq(Users) /\ s # <<>>
      BY <3>1
    <3>4. DOMAIN s = {1, 2} /\ s[1] = u /\ s[2] = v
      BY <3>1
    <3> QED
      BY <3>2, <3>3, <3>4
  <2> QED
    BY <2>1, <2>2 DEF Lists
<1>2. \A r \in Requests : todo[r] \in Lists
  BY DEF Init
<1>3. todo \in [Requests -> Seq(Users)]
  BY <1>1, <1>2 DEF Init
<1>4. TypeOK
  BY <1>1, <1>2, <1>3, AccountsAssumption DEF Init, TypeOK, Kinds, Ended
<1>5. \A r, q \in Requests : kind[r] = "bus" /\ kind[q] = "bus" => r = q
  <2> DEFINE B == {r \in Requests : kind[r] = "bus"}
  <2>1. IsFiniteSet(B) /\ Cardinality(B) <= 1
    BY FS_Subset, AccountsAssumption DEF Init
  <2> SUFFICES ASSUME NEW r \in B, NEW q \in B, r # q PROVE FALSE
    OBVIOUS
  <2> HIDE DEF B
  <2>2. IsFiniteSet({r}) /\ Cardinality({r}) = 1
    BY FS_Singleton
  <2>3. Cardinality({r} \cup {q}) = 2
    BY <2>2, FS_AddElement
  <2>4. Cardinality({r} \cup {q}) <= Cardinality(B)
    BY <2>1, FS_Subset
  <2>5. Cardinality(B) \in Nat
    BY <2>1, FS_CardinalityType
  <2> QED
    BY <2>1, <2>3, <2>4, <2>5
<1>6. Given
  BY <1>1, <1>2, <1>5 DEF Given
<1>7. None \notin Users /\ None \notin Ids
  BY IdsFacts
<1>8. \A u \in Users : WalletsOf(u) = {} /\ Uncommitted(u) = {}
  BY <1>7 DEF Init, WalletsOf, Uncommitted
<1>9. \A u \in Users : Units(u) = {}
  BY <1>8 DEF Units
<1>10. ToldOK /\ \A u \in Users : Balanced(u)
  <2>1. ToldOK
    BY DEF Init, ToldOK
  <2>2. \A u \in Users : Hers(u) = {} /\ credited[u] = 0
    BY DEF Init, Hers
  <2>3. \A u \in Users : Told(u) = 0
    BY <2>2, FS_EmptySet DEF Told
  <2> QED
    BY <1>9, <2>1, <2>3, FS_EmptySet DEF Balanced
<1>11. Numbered /\ Ordered /\ \A w \in Ids : RowOK(w)
  BY <1>8 DEF Init, Numbered, Ordered, RowOK
<1>12. GapsOK /\ ScansOK /\ AddressesCommitted /\ OneAddress /\ AddressOnShownWallet
  BY DEF Init, GapsOK, ScansOK, AddressesCommitted, OneAddress, AddressOnShownWallet
<1>13. \A r \in Requests : HeldOK(r) /\ DraftOK(r)
  BY DEF Init, HeldOK, DraftOK
<1> QED
  BY <1>4, <1>6, <1>10, <1>11, <1>12, <1>13 DEF IInv

LEMMA NextInv == IInv /\ [Next]_vars => IInv'
<1> SUFFICES ASSUME IInv, [Next]_vars PROVE IInv'
  OBVIOUS
<1>1. CASE \E r \in Requests : Step(r)
  BY <1>1, StepInv
<1>2. CASE \E a \in addresses : LoadDeposit(a)
  BY <1>2, LoadDepositInv
<1>3. CASE UNCHANGED vars
  <2>1. TypeOK'
    BY <1>3 DEF IInv, TypeOK, vars
  <2>2. Given' /\ Numbered' /\ GapsOK' /\ Ordered' /\ ScansOK' /\ AddressesCommitted'
        /\ OneAddress' /\ AddressOnShownWallet'
    BY <1>3 DEF IInv, Given, Numbered, GapsOK, Ordered, ScansOK, AddressesCommitted, OneAddress,
          AddressOnShownWallet, InsertsLeft, MayInsert, Listed, UserOf,
          WalletsOf, Uncommitted, AddressesOf, First, vars
  <2>3. ASSUME NEW r \in Requests PROVE HeldOK(r)' /\ DraftOK(r)'
    <3>1. HeldOK(r) /\ DraftOK(r)
      BY DEF IInv
    <3>2. UserOf(r)' = UserOf(r) /\ \A u : Listed(r, u)' <=> Listed(r, u)
      BY <1>3 DEF UserOf, Listed, vars
    <3>3. /\ WalletsOf(UserOf(r))' = WalletsOf(UserOf(r))
          /\ First(WalletsOf(UserOf(r)))' = First(WalletsOf(UserOf(r)))
      BY <1>3 DEF WalletsOf, UserOf, First, vars
    <3>4. HeldOK(r)'
      BY <1>3, <3>1, <3>2, <3>3 DEF HeldOK, vars
    <3>5. DraftOK(r)'
      BY <1>3, <3>1 DEF DraftOK, Listed, vars
    <3> QED
      BY <3>4, <3>5
  <2>4. ASSUME NEW w \in Ids PROVE RowOK(w)'
    <3>1. RowOK(w)
      BY DEF IInv
    <3>2. MayInsert(inserter[w], owner[w])' <=> MayInsert(inserter[w], owner[w])
      BY <1>3 DEF MayInsert, Listed, UserOf, vars
    <3> QED
      BY <1>3, <3>1, <3>2 DEF RowOK, vars
  <2>5. \A u \in Users : Balanced(u)'
    BY <1>3 DEF IInv, Balanced, Told, Hers, Units, WalletsOf, vars
  <2>6. ToldOK'
    <3>1. /\ \A w : AboutToTell(w)' <=> AboutToTell(w)
          /\ \A w : First(WalletsOf(owner[w]))' = First(WalletsOf(owner[w]))
          /\ \A r \in Requests : WalletsOf(UserOf(r))' = WalletsOf(UserOf(r))
      BY <1>3 DEF AboutToTell, First, WalletsOf, UserOf, vars
    <3>2. ToldOK
      BY DEF IInv
    <3>3. \A w \in untold' : AboutToTell(w)' \/ w # First(WalletsOf(owner[w]))'
      BY <1>3, <3>1, <3>2 DEF ToldOK, vars
    <3> QED
      BY <1>3, <3>1, <3>2, <3>3 DEF ToldOK, vars
  <2> QED
    BY <2>1, <2>2, <2>3, <2>4, <2>5, <2>6 DEF IInv
<1> QED
  BY <1>1, <1>2, <1>3 DEF Next, Step

THEOREM Invariance == Spec => []IInv
  BY InitInv, NextInv, PTL DEF Spec

-----------------------------------------------------------------------------
(* The theorems *)

\* Tables, locks and memory keep their types; no insert lacks an id.
THEOREM TypeCorrect == Spec => []TypeOK
<1>1. IInv => TypeOK
  BY DEF IInv
<1> QED
  BY <1>1, Invariance, PTL

\* countAll FOR UPDATE makes the check of WALLET_ADDRESS_LIMIT and the insert
\* of the address one step, however many ask for an address at once.
THEOREM AddressIsUnique == Spec => []OneAddress
<1>1. IInv => OneAddress
  BY DEF IInv
<1> QED
  BY <1>1, Invariance, PTL

\* Nothing comes before the wallet findByUser has shown, so deposits go where
\* the user's payments are taken from, but for the users the bus worker and
\* the API create a wallet for at the same time.
THEOREM AddressIsShown == Spec => []AddressOnShownWallet
<1>1. IInv => AddressOnShownWallet
  BY DEF IInv
<1> QED
  BY <1>1, Invariance, PTL

\* No rollback, leaked connection or race between creators loses a credit that an
\* answer, a commit or a deposit has shown, or makes one; what is in the balances
\* besides is what createWalletWithBalance put in a wallet of its own, which it is
\* about to show, or which another request's wallet hides for good
\* (createWalletWithBalance.js:10-16).
THEOREM CreditsAreKept == Spec => []CreditsKept
<1>1. IInv => CreditsKept
  <2> SUFFICES ASSUME IInv, NEW u \in Users
               PROVE  /\ Cardinality(Units(u)) = credited[u] + Cardinality(Hers(u))
                      /\ \A w \in Hers(u) :
                             AboutToTell(w) \/ w # First(WalletsOf(u))
    BY DEF CreditsKept, Hers, AboutToTell
  <2>1. Balanced(u) /\ ToldOK
    BY DEF IInv
  <2> QED
    BY <2>1 DEF Balanced, Told, ToldOK, Hers
<1> QED
  BY <1>1, Invariance, PTL
=============================================================================
