--------------------------- MODULE MessageBusProofs ---------------------------
(***************************************************************************)
(* The order of the message bus: whatever times out, fails or is delivered *)
(* again, pollMessageBus applies the messages in the order of the queue,   *)
(* each at most once.                                                      *)
(*                                                                         *)
(* AppliedInOrder is not inductive: that the next message applied is later *)
(* than every earlier one follows from what is deleted.  The queue is      *)
(* deleted from its head, a message is applied only after it was deleted,  *)
(* and the one at hand is the head until it is deleted itself.             *)
(***************************************************************************)
EXTENDS MessageBus, FiniteSetTheorems, TLAPS

\* The part of the type invariant the argument needs.
QueueTypeOK ==
    /\ deleted \subseteq Messages
    /\ pc \in {"poll", "update", "delete", "commit"}
    /\ msg \in Messages \cup {0}
    /\ applied \in Seq(Messages)

\* What was deleted comes before what was not.
DeletedFromHead ==
    \A m \in deleted, n \in Messages \ deleted : m < n

\* The message at hand is the head of the queue; at the commit it has left it.
AtHand ==
    /\ pc \in {"update", "delete"} =>
          /\ msg \in Messages \ deleted
          /\ \A n \in Messages \ deleted : msg <= n
    /\ pc = "commit" =>
          /\ msg \in deleted
          /\ \A i \in 1..Len(applied) : applied[i] < msg

AppliedIsDeleted == \A i \in 1..Len(applied) : applied[i] \in deleted

IInv ==
    /\ QueueTypeOK
    /\ DeletedFromHead
    /\ AtHand
    /\ AppliedIsDeleted
    /\ AppliedInOrder

\* The initial states satisfy the invariant.
LEMMA InitInvariant == Init => IInv
  BY DEF Init, IInv, QueueTypeOK, DeletedFromHead, AtHand, AppliedIsDeleted,
         AppliedInOrder

\* Deleting the message at hand deletes the head of the queue.
LEMMA HeadDeleted ==
  ASSUME QueueTypeOK, DeletedFromHead, AtHand, pc = "delete",
         deleted' = deleted \cup {msg}
  PROVE  DeletedFromHead'
<1>1. /\ msg \in Messages
      /\ \A n \in Messages \ deleted : msg <= n
  BY DEF AtHand
<1>2. Messages \subseteq Int
  BY MessageBusAssumption DEF Messages
<1>3. \A n \in Messages \ deleted' : msg < n
  BY <1>1, <1>2
<1>4. Messages' = Messages
  BY DEF Messages
<1> QED BY <1>3, <1>4 DEF DeletedFromHead

\* An exception or a crash leaves the history alone, and may have deleted the
\* head before.
LEMMA RestartKeeps ==
  ASSUME IInv, Restart,
         deleted' = deleted \/ (pc = "delete" /\ deleted' = deleted \cup {msg})
  PROVE  IInv'
<1>1. pc' = "poll" /\ msg' = 0 /\ applied' = applied
  BY DEF Restart, EndTransaction
<1>2. QueueTypeOK' /\ AtHand' /\ AppliedIsDeleted' /\ AppliedInOrder'
  BY <1>1 DEF IInv, QueueTypeOK, AtHand, AppliedIsDeleted, AppliedInOrder
<1>3. CASE deleted' = deleted
  BY <1>2, <1>3 DEF IInv, DeletedFromHead
<1>4. CASE pc = "delete" /\ deleted' = deleted \cup {msg}
  BY <1>2, <1>4, HeadDeleted DEF IInv
<1> QED BY <1>3, <1>4

\* A step that touches neither the queue nor the history.
LEMMA QuietKeeps ==
  ASSUME IInv, deleted' = deleted, msg' = msg, applied' = applied,
         pc' = pc \/ (pc = "update" /\ pc' = "delete")
  PROVE  IInv'
  BY DEF IInv, QueueTypeOK, DeletedFromHead, AtHand, AppliedIsDeleted, AppliedInOrder

LEMMA NextKeeps ==
  ASSUME IInv, [Next]_vars
  PROVE  IInv'
<1>1. CASE ReceiveMessage
  BY <1>1 DEF ReceiveMessage, IInv, QueueTypeOK, DeletedFromHead, AtHand,
              AppliedIsDeleted, AppliedInOrder
<1>2. CASE UpdateWallet
  BY <1>2, QuietKeeps DEF UpdateWallet, queue
<1>3. CASE UpdateFails
  BY <1>3, RestartKeeps DEF UpdateFails, queue
<1>4. CASE UpdatesDone
  BY <1>4, QuietKeeps DEF UpdatesDone, queue
<1>5. CASE DeleteMessage
  <2>1. /\ pc = "delete" /\ pc' = "commit" /\ deleted' = deleted \cup {msg}
        /\ msg' = msg /\ applied' = applied
    BY <1>5 DEF DeleteMessage
  <2>2. QueueTypeOK' /\ AppliedIsDeleted' /\ AppliedInOrder'
    BY <2>1 DEF IInv, QueueTypeOK, AtHand, AppliedIsDeleted, AppliedInOrder
  <2>3. DeletedFromHead'
    BY <2>1, HeadDeleted DEF IInv
  <2>4. AtHand'
    BY <2>1 DEF IInv, DeletedFromHead, AtHand, AppliedIsDeleted
  <2> QED BY <2>2, <2>3, <2>4 DEF IInv
<1>6. CASE DeleteRefused
  BY <1>6, RestartKeeps DEF DeleteRefused, queue
<1>7. CASE Commit
  <2>1. /\ pc = "commit" /\ pc' = "poll" /\ msg' = 0 /\ deleted' = deleted
        /\ applied' = Append(applied, msg)
    BY <1>7 DEF Commit, EndTransaction, queue
  <2>2. msg \in Messages /\ applied \in Seq(Messages)
    BY <2>1 DEF IInv, QueueTypeOK, AtHand
  <2>3. /\ Len(applied') = Len(applied) + 1
        /\ \A i \in 1..Len(applied) : applied'[i] = applied[i]
        /\ applied'[Len(applied) + 1] = msg
        /\ applied' \in Seq(Messages)
        /\ Len(applied) \in Nat
    BY <2>1, <2>2
  <2>4. QueueTypeOK' /\ DeletedFromHead' /\ AtHand'
    BY <2>1, <2>3 DEF IInv, QueueTypeOK, DeletedFromHead, AtHand
  <2>5. AppliedIsDeleted'
    BY <2>1, <2>3 DEF IInv, AtHand, AppliedIsDeleted
  <2>6. AppliedInOrder'
    BY <2>1, <2>3 DEF IInv, AtHand, AppliedInOrder
  <2> QED BY <2>4, <2>5, <2>6 DEF IInv
<1>8. CASE ReceiveNothing
  BY <1>8, QuietKeeps DEF ReceiveNothing, vars
<1>9. CASE DeleteAnswerLost
  BY <1>9, RestartKeeps DEF DeleteAnswerLost
<1>10. CASE Crash
  BY <1>10, RestartKeeps DEF Crash, queue
<1>11. CASE VisibilityTimeout
  BY <1>11, QuietKeeps DEF VisibilityTimeout
<1>12. CASE WorkerTooSlow
  BY <1>12, QuietKeeps DEF WorkerTooSlow
<1>13. ASSUME NEW w \in Wallets, NEW f \in Fields, NEW d \in {-1, 1}, OtherChange(w, f, d)
       PROVE  IInv'
  BY <1>13, QuietKeeps DEF OtherChange, queue
<1>14. CASE UNCHANGED vars
  BY <1>14, QuietKeeps DEF vars
<1> QED
  BY <1>1, <1>2, <1>3, <1>4, <1>5, <1>6, <1>7, <1>8, <1>9, <1>10, <1>11, <1>12,
     <1>13, <1>14 DEF Next, Worker

\* Order matches are applied in the order of the queue, each at most once, for
\* any number of messages, wallets, crashes, timeouts and lost answers.
THEOREM InOrder == Spec => []AppliedInOrder
<1>1. IInv /\ [Next]_vars => IInv'
  BY NextKeeps
<1>2. IInv => AppliedInOrder
  BY DEF IInv
<1> QED BY InitInvariant, <1>1, <1>2, PTL DEF Spec

-----------------------------------------------------------------------------
(* The balances                                                            *)
(*                                                                         *)
(* A draft is what the updates at hand have changed so far.  It never      *)
(* takes a column below zero, because nobody else can write the rows the   *)
(* transaction has written.                                                *)

\* The updates of the message at hand that the transaction has made.
Doing(a, op) == {k \in 1..MaxUpdates : k < next /\ Moves(msg, k, a, op)}

AtUpdate ==
    /\ pc = "poll" => next = 1
    /\ pc # "poll" => msg \in Messages /\ next <= Len(body[msg]) + 1
    /\ pc \in {"delete", "commit"} => next = Len(body[msg]) + 1

DraftIsDone ==
    \A a \in Accounts : draft[a] = Cardinality(Doing(a, "+")) - Cardinality(Doing(a, "-"))

DraftIsCovered == \A a \in Accounts : balance[a] + draft[a] >= 0

BooksInv ==
    /\ TypeOK
    /\ AtUpdate
    /\ DraftIsDone
    /\ DraftIsCovered
    /\ AppliedAtomically

LEMMA BooksFacts ==
    ASSUME TypeOK
    PROVE  /\ body \in [Messages -> Bodies]
           /\ \A m \in Messages : /\ body[m] \in Seq(Updates)
                                 /\ Len(body[m]) \in 0..MaxUpdates
           /\ balance \in [Accounts -> Nat] /\ draft \in [Accounts -> Int]
           /\ other \in [Accounts -> Int]
           /\ next \in Nat \ {0} /\ Len(applied) \in Nat
           /\ MaxUpdates \in Nat /\ 0 \notin Messages
  BY MessageBusAssumption DEF TypeOK, Messages

\* What is counted is finite.
LEMMA CountsAreFinite ==
    ASSUME TypeOK, NEW a, NEW op
    PROVE  /\ IsFiniteSet(Doing(a, op)) /\ Cardinality(Doing(a, op)) \in Nat
           /\ IsFiniteSet(Done(a, op)) /\ Cardinality(Done(a, op)) \in Nat
<1>1. IsFiniteSet(1..MaxUpdates) /\ IsFiniteSet(1..Len(applied))
  BY BooksFacts, FS_Interval
<1>2. IsFiniteSet((1..Len(applied)) \X (1..MaxUpdates))
  BY <1>1, FS_Product
<1>3. Doing(a, op) \in SUBSET (1..MaxUpdates)
  BY DEF Doing
<1>4. Done(a, op) \in SUBSET ((1..Len(applied)) \X (1..MaxUpdates))
  BY DEF Done
<1> QED
  BY <1>1, <1>2, <1>3, <1>4, FS_Subset, FS_CardinalityType

\* Before the first update nothing is done.
LEMMA NothingDone ==
    ASSUME next = 1, NEW a, NEW op
    PROVE  Cardinality(Doing(a, op)) = 0
<1>1. Doing(a, op) = {}
  BY MessageBusAssumption DEF Doing
<1> QED
  BY <1>1, FS_EmptySet

LEMMA InitBooks == Init => BooksInv
<1> SUFFICES ASSUME Init PROVE BooksInv
  OBVIOUS
<1>1. ASSUME NEW a
      PROVE  Taken(a) \in Nat
  <2> DEFINE All == Messages \X (1..MaxUpdates)
             Some == {u \in Messages \X (1..MaxUpdates) : Moves(u[1], u[2], a, "-")}
  <2>1. IsFiniteSet(Messages) /\ IsFiniteSet(1..MaxUpdates)
    BY MessageBusAssumption, FS_Interval DEF Messages
  <2>2. IsFiniteSet(All)
    BY <2>1, FS_Product
  <2>3. Some \in SUBSET All
    OBVIOUS
  <2>4. Cardinality(Some) \in Nat
    <3> HIDE DEF Some, All
    <3> QED BY <2>2, <2>3, FS_Subset, FS_CardinalityType
  <2> QED
    BY <2>4 DEF Taken
<1>2. balance \in [Accounts -> Nat]
  <2>1. PICK short \in [Wallets -> 0..MaxShort] :
          balance = [a \in Accounts |->
                        IF a[2] = "locked" /\ Taken(a) > short[a[1]]
                        THEN Taken(a) - short[a[1]] ELSE 0]
    BY DEF Init
  <2>2. \A a \in Accounts : short[a[1]] \in Nat
    BY MessageBusAssumption DEF Accounts
  <2>3. \A a \in Accounts : (IF a[2] = "locked" /\ Taken(a) > short[a[1]]
                             THEN Taken(a) - short[a[1]] ELSE 0) \in Nat
    BY <1>1, <2>2
  <2> QED
    BY <2>1, <2>3
<1>3. TypeOK
  <2>1. draft \in [Accounts -> Int] /\ other \in [Accounts -> Int]
    BY <1>2 DEF Init, NoChange
  <2>2. applied \in Seq(Messages)
    BY DEF Init
  <2>3. exists \subseteq Wallets /\ crashes \in 0..MaxCrashes
    BY MessageBusAssumption DEF Init
  <2>4. body \in [Messages -> Bodies] /\ deleted \subseteq Messages /\ lost \subseteq Messages
    BY DEF Init
  <2>5. inFlight \in BOOLEAN /\ pc \in {"poll", "update", "delete", "commit"}
    BY DEF Init
  <2>6. msg \in Messages \cup {0} /\ next \in Nat \ {0} /\ created \in SUBSET Wallets
    BY DEF Init
  <2> QED
    BY <1>2, <2>1, <2>2, <2>3, <2>4, <2>5, <2>6 DEF TypeOK
<1>4. AtUpdate
  BY DEF Init, AtUpdate
<1>5. DraftIsDone
  BY NothingDone DEF Init, DraftIsDone, NoChange
<1>6. DraftIsCovered
  BY <1>2 DEF Init, DraftIsCovered, NoChange
<1>7. AppliedAtomically
  <2>1. ASSUME NEW a, NEW op PROVE Done(a, op) = {}
    BY DEF Init, Done
  <2> QED
    BY <1>2, <2>1, FS_EmptySet DEF Init, AppliedAtomically
<1> QED
  BY <1>3, <1>4, <1>5, <1>6, <1>7 DEF BooksInv

\* Balances and history stay as they were.
LEMMA AtomicKept ==
    ASSUME AppliedAtomically, UNCHANGED <<body, applied, balance, other>>
    PROVE  AppliedAtomically'
<1>1. ASSUME NEW a, NEW op
      PROVE  Done(a, op)' = Done(a, op)
  BY DEF Done, Moves
<1> QED
  BY <1>1 DEF AppliedAtomically, Accounts

\* Rolling back loses the draft and nothing else.
LEMMA RestartBooks ==
    ASSUME BooksInv, Restart, deleted' \subseteq Messages, inFlight' \in BOOLEAN,
           lost' \subseteq Messages, crashes' \in 0..MaxCrashes
    PROVE  BooksInv'
<1>1. /\ pc' = "poll" /\ msg' = 0 /\ next' = 1 /\ draft' = NoChange /\ created' = {}
      /\ UNCHANGED <<body, balance, exists, applied, other>>
  BY DEF Restart, EndTransaction, rows
<1>2. TypeOK' /\ AtUpdate'
  BY <1>1 DEF BooksInv, TypeOK, NoChange, AtUpdate
<1>3. \A a, op : Cardinality(Doing(a, op))' = 0
  <2> SUFFICES ASSUME NEW a, NEW op PROVE Cardinality(Doing(a, op))' = 0
    OBVIOUS
  <2>1. Doing(a, op)' = {}
    BY <1>1, MessageBusAssumption DEF Doing
  <2> QED BY <2>1, FS_EmptySet
<1>4. DraftIsDone'
  BY <1>1, <1>3 DEF DraftIsDone, NoChange, Accounts
<1>5. DraftIsCovered'
  BY <1>1, BooksFacts DEF BooksInv, DraftIsCovered, NoChange, Accounts
<1>6. AppliedAtomically'
  BY <1>1, AtomicKept DEF BooksInv
<1> QED
  BY <1>2, <1>4, <1>5, <1>6 DEF BooksInv

\* A step that writes no balance and no draft.
LEMMA QuietBooks ==
    ASSUME BooksInv, TypeOK', AtUpdate', UNCHANGED <<body, balance, draft, other, applied>>,
           \/ next' = next /\ msg' = msg
           \/ next = 1 /\ next' = 1
    PROVE  BooksInv'
<1>1. ASSUME NEW a, NEW op
      PROVE  Cardinality(Doing(a, op))' = Cardinality(Doing(a, op))
  <2>1. CASE next' = next /\ msg' = msg
    BY <2>1 DEF Doing, Moves
  <2>2. CASE next = 1 /\ next' = 1
    <3>1. Doing(a, op)' = {} /\ Doing(a, op) = {}
      BY <2>2, MessageBusAssumption DEF Doing
    <3> QED BY <3>1
  <2> QED BY <2>1, <2>2
<1>2. DraftIsDone'
  BY <1>1 DEF BooksInv, DraftIsDone, Accounts
<1>3. DraftIsCovered' /\ AppliedAtomically'
  BY AtomicKept DEF BooksInv, DraftIsCovered, Accounts
<1> QED
  BY <1>2, <1>3 DEF BooksInv

\* One walletUpdate more in the draft.
LEMMA UpdateBooks ==
    ASSUME BooksInv, UpdateWallet
    PROVE  BooksInv'
<1>0. /\ TypeOK /\ AtUpdate /\ pc = "update" /\ msg \in Messages /\ next \in 1..Len(body[msg])
      /\ UNCHANGED <<body, balance, exists, deleted, inFlight, pc, msg, applied, lost, other, crashes>>
      /\ next' = next + 1
  BY DEF BooksInv, TypeOK, AtUpdate, UpdateWallet, rows, queue
<1>1. /\ next \in 1..MaxUpdates /\ body[msg][next] \in Updates /\ Len(body[msg]) \in Nat
      /\ balance \in [Accounts -> Nat] /\ draft \in [Accounts -> Int]
  BY <1>0, BooksFacts
<1> DEFINE u == body[msg][next]
           b == <<u.wallet, u.field>>
<1>2. u.wallet \in Wallets /\ u.field \in Fields /\ u.op \in {"+", "-"} /\ b \in Accounts
  BY <1>1 DEF Updates, Accounts
<1>3. /\ u.op = "-" => u.wallet \in exists /\ balance[b] + draft[b] >= 1
      /\ created' = IF u.wallet \in exists THEN created ELSE created \cup {u.wallet}
      /\ draft' = [draft EXCEPT ![b] = IF u.op = "+" THEN @ + 1 ELSE @ - 1]
  BY DEF UpdateWallet, Covered
<1>4. TypeOK'
  <2>1. draft' \in [Accounts -> Int]
    BY <1>1, <1>2, <1>3
  <2>2. created' \in SUBSET Wallets
    BY <1>0, <1>2, <1>3 DEF TypeOK
  <2>3. next' \in Nat \ {0}
    BY <1>0, <1>1
  <2> QED
    BY <1>0, <2>1, <2>2, <2>3 DEF TypeOK
<1>5. AtUpdate'
  BY <1>0, <1>1 DEF AtUpdate
<1>6. ASSUME NEW a \in Accounts, NEW op \in {"+", "-"}
      PROVE  Cardinality(Doing(a, op))' =
                 Cardinality(Doing(a, op)) + (IF a = b /\ op = u.op THEN 1 ELSE 0)
  <2>1. Moves(msg, next, a, op) <=> a = b /\ op = u.op
    BY <1>0, <1>1, <1>2 DEF Moves, Accounts
  <2>2. Doing(a, op)' = IF Moves(msg, next, a, op) THEN Doing(a, op) \cup {next} ELSE Doing(a, op)
    BY <1>0, <1>1 DEF Doing, Moves
  <2>3. next \notin Doing(a, op)
    BY <1>1 DEF Doing
  <2>4. IsFiniteSet(Doing(a, op)) /\ Cardinality(Doing(a, op)) \in Nat
    BY <1>0, CountsAreFinite
  <2>5. Cardinality(Doing(a, op) \cup {next}) = Cardinality(Doing(a, op)) + 1
    BY <2>3, <2>4, FS_AddElement
  <2> QED
    BY <2>1, <2>2, <2>4, <2>5
<1>7. \A a \in Accounts : draft'[a] = draft[a] + (IF a = b THEN IF u.op = "+" THEN 1 ELSE -1 ELSE 0)
  <2> HIDE DEF u, b
  <2>1. draft'[b] = draft[b] + (IF u.op = "+" THEN 1 ELSE -1)
    BY <1>1, <1>2, <1>3
  <2>2. \A a \in Accounts : a # b => draft'[a] = draft[a] + 0
    BY <1>1, <1>3
  <2> QED
    BY <2>1, <2>2
<1>8. DraftIsDone'
  <2> SUFFICES ASSUME NEW a \in Accounts
               PROVE  draft'[a] = Cardinality(Doing(a, "+"))' - Cardinality(Doing(a, "-"))'
    BY DEF DraftIsDone, Accounts
  <2>1. draft[a] = Cardinality(Doing(a, "+")) - Cardinality(Doing(a, "-"))
    BY DEF BooksInv, DraftIsDone
  <2>2. Cardinality(Doing(a, "+")) \in Nat /\ Cardinality(Doing(a, "-")) \in Nat
    BY <1>0, CountsAreFinite
  <2>3. Cardinality(Doing(a, "+"))' = Cardinality(Doing(a, "+")) + (IF a = b /\ "+" = u.op THEN 1 ELSE 0)
    BY <1>6
  <2>4. Cardinality(Doing(a, "-"))' = Cardinality(Doing(a, "-")) + (IF a = b /\ "-" = u.op THEN 1 ELSE 0)
    BY <1>6
  <2>5. draft'[a] = draft[a] + (IF a = b THEN IF u.op = "+" THEN 1 ELSE -1 ELSE 0)
    BY <1>7
  <2>6. CASE a # b
    BY <2>1, <2>2, <2>3, <2>4, <2>5, <2>6
  <2>7. CASE a = b /\ u.op = "+"
    BY <2>1, <2>2, <2>3, <2>4, <2>5, <2>7
  <2>8. CASE a = b /\ u.op = "-"
    BY <2>1, <2>2, <2>3, <2>4, <2>5, <2>8
  <2> QED
    BY <1>2, <2>6, <2>7, <2>8
<1>9. DraftIsCovered'
  <2> SUFFICES ASSUME NEW a \in Accounts PROVE balance'[a] + draft'[a] >= 0
    BY DEF DraftIsCovered, Accounts
  <2>1. balance[a] + draft[a] >= 0 /\ balance[a] \in Nat /\ draft[a] \in Int /\ balance' = balance
    BY <1>0, <1>1 DEF BooksInv, DraftIsCovered
  <2>2. draft'[a] = draft[a] + (IF a = b THEN IF u.op = "+" THEN 1 ELSE -1 ELSE 0)
    BY <1>7
  <2>3. a = b /\ u.op = "-" => balance[a] + draft[a] >= 1
    BY <1>3
  <2>4. CASE a # b
    BY <2>1, <2>2, <2>4
  <2>5. CASE a = b /\ u.op = "+"
    BY <2>1, <2>2, <2>5
  <2>6. CASE a = b /\ u.op = "-"
    BY <2>1, <2>2, <2>3, <2>6
  <2> QED
    BY <1>2, <2>4, <2>5, <2>6
<1>10. AppliedAtomically'
  BY <1>0, AtomicKept DEF BooksInv
<1> QED
  BY <1>4, <1>5, <1>8, <1>9, <1>10 DEF BooksInv

\* The commit adds exactly the updates of its message to the history.
LEMMA CommitBooks ==
    ASSUME BooksInv, Commit
    PROVE  BooksInv'
<1>0. /\ TypeOK /\ pc = "commit" /\ msg \in Messages /\ next = Len(body[msg]) + 1
      /\ UNCHANGED <<body, deleted, inFlight, lost, other, crashes>>
      /\ pc' = "poll" /\ msg' = 0 /\ next' = 1 /\ draft' = NoChange /\ created' = {}
      /\ exists' = exists \cup created
      /\ applied' = Append(applied, msg)
      /\ balance' = [a \in Accounts |-> balance[a] + draft[a]]
  BY DEF BooksInv, TypeOK, AtUpdate, Commit, EndTransaction, queue
<1>1. /\ balance \in [Accounts -> Nat] /\ draft \in [Accounts -> Int] /\ other \in [Accounts -> Int]
      /\ Len(applied) \in Nat /\ Len(body[msg]) \in 0..MaxUpdates /\ MaxUpdates \in Nat
      /\ applied \in Seq(Messages)
  BY <1>0, BooksFacts DEF TypeOK
<1>2. /\ applied' \in Seq(Messages) /\ Len(applied') = Len(applied) + 1
      /\ applied'[Len(applied) + 1] = msg
      /\ \A i \in 1..Len(applied) : applied'[i] = applied[i]
  BY <1>0, <1>1
<1>3. balance' \in [Accounts -> Nat]
  BY <1>0, <1>1 DEF BooksInv, DraftIsCovered
<1>4. TypeOK'
  BY <1>0, <1>2, <1>3 DEF TypeOK, NoChange
<1>5. AtUpdate'
  BY <1>0 DEF AtUpdate
<1>6. \A a, op : Cardinality(Doing(a, op))' = 0
  <2> SUFFICES ASSUME NEW a, NEW op PROVE Cardinality(Doing(a, op))' = 0
    OBVIOUS
  <2>1. Doing(a, op)' = {}
    BY <1>0, <1>1 DEF Doing
  <2> QED BY <2>1, FS_EmptySet
<1>7. DraftIsDone' /\ DraftIsCovered'
  BY <1>0, <1>3, <1>6 DEF DraftIsDone, DraftIsCovered, NoChange, Accounts
<1>8. ASSUME NEW a \in Accounts, NEW op \in {"+", "-"}
      PROVE  Cardinality(Done(a, op))' = Cardinality(Done(a, op)) + Cardinality(Doing(a, op))
  <2> DEFINE c == Len(applied) + 1
             New == {c} \X Doing(a, op)
  <2>1. /\ IsFiniteSet(Doing(a, op)) /\ Cardinality(Doing(a, op)) \in Nat
        /\ IsFiniteSet(Done(a, op)) /\ Cardinality(Done(a, op)) \in Nat
    BY <1>0, CountsAreFinite
  <2>2. IsFiniteSet(New) /\ Cardinality(New) = Cardinality(Doing(a, op))
    <3>1. IsFiniteSet({c}) /\ Cardinality({c}) = 1
      BY FS_Singleton
    <3> HIDE DEF c
    <3>2. IsFiniteSet(New) /\ Cardinality(New) = Cardinality({c}) * Cardinality(Doing(a, op))
      BY <2>1, <3>1, FS_Product
    <3> QED BY <2>1, <3>1, <3>2
  <2>3. Done(a, op)' = Done(a, op) \cup New
    <3>1. \A k \in 1..MaxUpdates : k < next /\ Moves(msg, k, a, op) <=> Moves(msg, k, a, op)
      BY <1>0, <1>1 DEF Moves
    <3>2. \A m, k : Moves(m, k, a, op)' <=> Moves(m, k, a, op)
      BY <1>0 DEF Moves
    <3>3. 1..c = (1..Len(applied)) \cup {c}
      BY <1>1
    <3>4. Doing(a, op) = {k \in 1..MaxUpdates : Moves(msg, k, a, op)}
      BY <3>1 DEF Doing
    <3>5. Done(a, op)' = {v \in (1..c) \X (1..MaxUpdates) : Moves(applied'[v[1]], v[2], a, op)}
      BY <1>2, <1>0 DEF Done, Moves
    <3>6. ASSUME NEW i \in 1..c, NEW k \in 1..MaxUpdates
          PROVE  <<i, k>> \in Done(a, op)' <=> <<i, k>> \in Done(a, op) \cup New
      <4>1. CASE i = c
        <5>1. <<i, k>> \notin Done(a, op)
          BY <1>1, <4>1 DEF Done
        <5>2. <<i, k>> \in New <=> Moves(msg, k, a, op)
          BY <3>4, <4>1
        <5> QED BY <1>2, <3>5, <4>1, <5>1, <5>2
      <4>2. CASE i # c
        <5>1. <<i, k>> \notin New
          BY <4>2
        <5>2. i \in 1..Len(applied) /\ applied'[i] = applied[i]
          BY <1>1, <1>2, <4>2
        <5> QED BY <3>5, <5>1, <5>2 DEF Done
      <4> QED BY <4>1, <4>2
    <3>7. Done(a, op)' \subseteq (1..c) \X (1..MaxUpdates)
      BY <3>5
    <3>8. Done(a, op) \cup New \subseteq (1..c) \X (1..MaxUpdates)
      BY <3>3, <1>1 DEF Done, Doing
    <3> QED BY <3>6, <3>7, <3>8
  <2>4. Done(a, op) \cap New = {}
    BY <1>1 DEF Done
  <2>5. Cardinality(Done(a, op) \cup New) = Cardinality(Done(a, op)) + Cardinality(New) - Cardinality({})
    <3> HIDE DEF New
    <3> QED BY <2>1, <2>2, <2>4, FS_Union
  <2> QED
    BY <2>1, <2>2, <2>3, <2>5, FS_EmptySet
<1>9. AppliedAtomically'
  <2> SUFFICES ASSUME NEW a \in Accounts
               PROVE  balance'[a] + Cardinality(Done(a, "-"))' = other'[a] + Cardinality(Done(a, "+"))'
    BY DEF AppliedAtomically, Accounts
  <2>1. /\ Cardinality(Doing(a, "+")) \in Nat /\ Cardinality(Doing(a, "-")) \in Nat
        /\ Cardinality(Done(a, "+")) \in Nat /\ Cardinality(Done(a, "-")) \in Nat
    BY <1>0, CountsAreFinite
  <2>2. balance'[a] = balance[a] + draft[a] /\ other'[a] = other[a]
    BY <1>0
  <2>3. draft[a] = Cardinality(Doing(a, "+")) - Cardinality(Doing(a, "-"))
    BY DEF BooksInv, DraftIsDone
  <2>4. balance[a] + Cardinality(Done(a, "-")) = other[a] + Cardinality(Done(a, "+"))
    BY DEF BooksInv, AppliedAtomically
  <2>5. /\ Cardinality(Done(a, "+"))' = Cardinality(Done(a, "+")) + Cardinality(Doing(a, "+"))
        /\ Cardinality(Done(a, "-"))' = Cardinality(Done(a, "-")) + Cardinality(Doing(a, "-"))
    BY <1>8
  <2>6. balance[a] \in Int /\ other[a] \in Int
    BY <1>1
  <2> QED
    BY <2>1, <2>2, <2>3, <2>4, <2>5, <2>6
<1> QED
  BY <1>4, <1>5, <1>7, <1>9 DEF BooksInv

\* Another process changes a row that the draft does not.
LEMMA OtherBooks ==
    ASSUME BooksInv, NEW w \in Wallets, NEW f \in Fields, NEW d \in {-1, 1}, OtherChange(w, f, d)
    PROVE  BooksInv'
<1> DEFINE b == <<w, f>>
<1>0. /\ TypeOK /\ AtUpdate /\ ~RowLocked(w) /\ b \in Accounts
      /\ UNCHANGED <<body, exists, deleted, inFlight, pc, msg, next, draft, created, applied, lost, crashes>>
      /\ balance[b] + d >= 0
      /\ balance' = [balance EXCEPT ![b] = @ + d]
      /\ other' = [other EXCEPT ![b] = @ + d]
  BY DEF BooksInv, OtherChange, queue, Accounts
<1>1. /\ balance \in [Accounts -> Nat] /\ draft \in [Accounts -> Int] /\ other \in [Accounts -> Int]
      /\ next \in Nat \ {0} /\ d \in Int
  BY <1>0, BooksFacts
<1>2. balance' \in [Accounts -> Nat] /\ other' \in [Accounts -> Int]
  BY <1>0, <1>1
<1>3. TypeOK' /\ AtUpdate'
  BY <1>0, <1>2 DEF TypeOK, AtUpdate
<1>4. draft[b] = 0
  <2>1. \A op : Doing(b, op) = {}
    BY <1>0, <1>1 DEF Doing, Moves, RowLocked
  <2> QED
    BY <1>0, <2>1, FS_EmptySet DEF BooksInv, DraftIsDone
<1>5. DraftIsDone'
  BY <1>0 DEF BooksInv, DraftIsDone, Doing, Moves, Accounts
<1>6. DraftIsCovered'
  <2> SUFFICES ASSUME NEW a \in Accounts PROVE balance'[a] + draft[a] >= 0
    BY <1>0 DEF DraftIsCovered, Accounts
  <2>1. CASE a = b
    BY <1>0, <1>1, <1>4, <2>1
  <2>2. CASE a # b
    BY <1>0, <1>1, <2>2 DEF BooksInv, DraftIsCovered
  <2> QED BY <2>1, <2>2
<1>7. AppliedAtomically'
  <2> SUFFICES ASSUME NEW a \in Accounts
               PROVE  balance'[a] + Cardinality(Done(a, "-"))' = other'[a] + Cardinality(Done(a, "+"))'
    BY DEF AppliedAtomically, Accounts
  <2>1. Done(a, "-")' = Done(a, "-") /\ Done(a, "+")' = Done(a, "+")
    BY <1>0 DEF Done, Moves
  <2>2. balance[a] + Cardinality(Done(a, "-")) = other[a] + Cardinality(Done(a, "+"))
    BY DEF BooksInv, AppliedAtomically
  <2>3. Cardinality(Done(a, "-")) \in Nat /\ Cardinality(Done(a, "+")) \in Nat
    BY <1>0, CountsAreFinite
  <2>4. \E x \in Int : balance'[a] = balance[a] + x /\ other'[a] = other[a] + x
    BY <1>0, <1>1
  <2>5. balance[a] \in Int /\ other[a] \in Int
    BY <1>1
  <2> QED BY <2>1, <2>2, <2>3, <2>4, <2>5
<1> QED
  BY <1>3, <1>5, <1>6, <1>7 DEF BooksInv

LEMMA NextBooks ==
    ASSUME BooksInv, [Next]_vars
    PROVE  BooksInv'
<1>0. TypeOK /\ AtUpdate
  BY DEF BooksInv
<1>1. CASE ReceiveMessage
  <2>1. /\ UNCHANGED <<body, balance, draft, other, applied, next, deleted, exists, created, lost, crashes>>
        /\ pc = "poll" /\ pc' = "update" /\ msg' \in Messages /\ inFlight' = TRUE
    BY <1>1 DEF ReceiveMessage, rows
  <2>2. next = 1 /\ Len(body[msg']) \in Nat
    BY <1>0, <2>1, BooksFacts DEF AtUpdate
  <2>3. TypeOK' /\ AtUpdate'
    BY <1>0, <2>1, <2>2 DEF TypeOK, AtUpdate
  <2> QED BY <2>1, <2>2, <2>3, QuietBooks
<1>2. CASE UpdatesDone
  <2>1. /\ UNCHANGED <<body, balance, draft, other, applied, next, msg, deleted, inFlight, exists, created, lost, crashes>>
        /\ pc = "update" /\ pc' = "delete" /\ next > Len(body[msg])
    BY <1>2 DEF UpdatesDone, rows, queue
  <2>2. TypeOK'
    BY <1>0, <2>1 DEF TypeOK
  <2>3. AtUpdate'
    <3>1. msg \in Messages /\ Len(body[msg]) \in Nat /\ next \in Nat
      BY <1>0, <2>1, BooksFacts DEF AtUpdate
    <3> QED BY <1>0, <2>1, <3>1 DEF AtUpdate
  <2> QED BY <2>1, <2>2, <2>3, QuietBooks
<1>3. CASE DeleteMessage
  <2>1. /\ UNCHANGED <<body, balance, draft, other, applied, next, msg, exists, created, lost, crashes>>
        /\ pc = "delete" /\ pc' = "commit" /\ deleted' = deleted \cup {msg} /\ inFlight' = FALSE
    BY <1>3 DEF DeleteMessage, rows
  <2>2. TypeOK' /\ AtUpdate'
    BY <1>0, <2>1 DEF TypeOK, AtUpdate
  <2> QED BY <2>1, <2>2, QuietBooks
<1>4. CASE UpdateFails \/ DeleteRefused
  BY <1>0, <1>4, RestartBooks DEF UpdateFails, DeleteRefused, queue, TypeOK
<1>5. CASE DeleteAnswerLost
  <2>1. msg \in Messages
    BY <1>0, <1>5 DEF DeleteAnswerLost, AtUpdate
  <2>2. crashes' \in 0..MaxCrashes
    BY <1>0, <1>5, MessageBusAssumption DEF DeleteAnswerLost, TypeOK
  <2> QED
    BY <1>0, <1>5, <2>1, <2>2, RestartBooks DEF DeleteAnswerLost, TypeOK
<1>6. CASE Crash
  <2>1. msg \in Messages
    BY <1>0, <1>6 DEF Crash, AtUpdate
  <2>2. crashes' \in 0..MaxCrashes
    BY <1>0, <1>6, MessageBusAssumption DEF Crash, TypeOK
  <2> QED
    BY <1>0, <1>6, <2>1, <2>2, RestartBooks DEF Crash, queue, TypeOK
<1>7. CASE VisibilityTimeout \/ ReceiveNothing \/ UNCHANGED vars
  <2>1. UNCHANGED <<body, balance, draft, other, applied, next, msg, pc, deleted, exists, created, lost, crashes>>
    BY <1>7 DEF VisibilityTimeout, ReceiveNothing, vars, rows
  <2>2. inFlight' \in BOOLEAN
    BY <1>0, <1>7 DEF VisibilityTimeout, ReceiveNothing, vars, TypeOK
  <2>3. TypeOK' /\ AtUpdate'
    BY <1>0, <2>1, <2>2 DEF TypeOK, AtUpdate
  <2> QED BY <2>1, <2>3, QuietBooks
<1>8. CASE WorkerTooSlow
  <2>1. /\ UNCHANGED <<body, balance, draft, other, applied, next, msg, pc, deleted, exists, created, lost>>
        /\ inFlight' = FALSE
    BY <1>8 DEF WorkerTooSlow, rows
  <2>2. crashes' \in 0..MaxCrashes
    BY <1>0, <1>8, MessageBusAssumption DEF WorkerTooSlow, TypeOK
  <2>3. TypeOK' /\ AtUpdate'
    BY <1>0, <2>1, <2>2 DEF TypeOK, AtUpdate
  <2> QED BY <2>1, <2>3, QuietBooks
<1> QED
  BY <1>1, <1>2, <1>3, <1>4, <1>5, <1>6, <1>7, <1>8, UpdateBooks, CommitBooks, OtherBooks
  DEF Next, Worker

THEOREM BooksInvariance == Spec => []BooksInv
<1>1. BooksInv /\ [Next]_vars => BooksInv'
  BY NextBooks
<1> QED BY InitBooks, <1>1, PTL DEF Spec

\* Types; in particular no balance ever goes negative, although changeBalance
\* checks the committed row and the draft is written over several steps.
THEOREM TypeCorrect == Spec => []TypeOK
  BY BooksInvariance, PTL DEF BooksInv

\* The walletUpdates of a message reach the wallets together or not at all.
THEOREM Atomic == Spec => []AppliedAtomically
  BY BooksInvariance, PTL DEF BooksInv
=============================================================================
