------------------------------ MODULE MessageBus ------------------------------
(***************************************************************************)
(* The message bus: messageBus.js runs pollMessageBus, which takes order   *)
(* matches and cancellations from the exchange core off an SQS FIFO queue  *)
(* and applies their walletUpdates to the Wallets table.  The message is   *)
(* deleted inside the MySQL transaction, before the commit.                *)
(*                                                                         *)
(* There is one worker (scripts/deploy/messageBus.service) and one message *)
(* group, so SQS hands out one message at a time, in order.  A walletUpdate*)
(* moves one unit.  What the core settles it has locked first, through     *)
(* lockBalance: MaxShort = 0 says that all of it is still there.           *)
(***************************************************************************)
EXTENDS Integers, Sequences, FiniteSets

CONSTANTS Wallets,      \* (userUid, currency) pairs
          MaxMessages,  \* length of the queue
          Bodies,       \* the walletUpdates a message may carry
          MaxUpdates,   \* how many of them at most
          MaxShort,     \* how much of a wallet's locked balance may be missing
          MaxOther,     \* bound on what the other processes add to a balance
          MaxCrashes    \* bound on crashes, lost answers and late workers

Fields  == {"available", "locked"}
Updates == [wallet : Wallets, field : Fields, op : {"+", "-"}]

ASSUME MessageBusAssumption ==
    /\ MaxMessages \in Nat /\ MaxUpdates \in Nat
    /\ MaxShort \in Nat /\ MaxOther \in Nat /\ MaxCrashes \in Nat
    /\ \A b \in Bodies : b \in Seq(Updates) /\ Len(b) <= MaxUpdates

Messages == 1..MaxMessages

VARIABLES body,             \* the walletUpdates of each message
          balance, exists,  \* committed Wallets rows: both columns, which exist
          deleted,          \* messages deleted from the queue
          inFlight,         \* the head was received and has not timed out since
          pc, msg, next,    \* worker: place, message, index of its next update
          draft, created,   \* uncommitted changes and wallets of its transaction
          applied,          \* history: messages whose updates were committed, in order
          lost,             \* history: messages deleted by a transaction that failed
          other, crashes    \* history: what other processes put in, failures so far

rows  == <<balance, exists>>
queue == <<deleted, inFlight>>
vars  == <<body, balance, exists, deleted, inFlight, pc, msg, next, draft, created,
           applied, lost, other, crashes>>

Accounts == Wallets \X Fields
NoChange == [a \in Accounts |-> 0]

\* Update k of message m adds to (takes from) column a.
Moves(m, k, a, op) ==
    /\ k <= Len(body[m])
    /\ body[m][k].wallet = a[1] /\ body[m][k].field = a[2] /\ body[m][k].op = op

\* What all the messages of the queue take from a column.
Taken(a) == Cardinality({u \in Messages \X (1..MaxUpdates) : Moves(u[1], u[2], a, "-")})

TypeOK ==
    /\ body \in [Messages -> Bodies]
    /\ balance \in [Accounts -> Nat]
    /\ exists \subseteq Wallets
    /\ deleted \subseteq Messages
    /\ inFlight \in BOOLEAN
    /\ pc \in {"poll", "update", "delete", "commit"}
    /\ msg \in Messages \cup {0}
    /\ next \in Nat \ {0}
    /\ draft \in [Accounts -> Int]
    /\ created \in SUBSET Wallets
    /\ applied \in Seq(Messages)
    /\ lost \subseteq Messages
    /\ other \in [Accounts -> Int]
    /\ crashes \in 0..MaxCrashes

\* A wallet in which an order has locked something exists.
Init ==
    /\ body \in [Messages -> Bodies]
    /\ \E short \in [Wallets -> 0..MaxShort] :
          balance = [a \in Accounts |->
                        IF a[2] = "locked" /\ Taken(a) > short[a[1]]
                        THEN Taken(a) - short[a[1]] ELSE 0]
    /\ exists \in {ws \in SUBSET Wallets :
                      \A w \in Wallets : Taken(<<w, "locked">>) > 0 => w \in ws}
    /\ deleted = {} /\ inFlight = FALSE
    /\ pc = "poll" /\ msg = 0 /\ next = 1
    /\ draft = NoChange /\ created = {}
    /\ applied = <<>> /\ lost = {}
    /\ other = balance /\ crashes = 0
-----------------------------------------------------------------------------
(* Helpers *)

\* The transaction has ended: its memory is blank.
EndTransaction ==
    /\ pc' = "poll" /\ msg' = 0 /\ next' = 1
    /\ draft' = NoChange /\ created' = {}

\* An exception: knex rolls back, the process exits and systemd starts it again.
\* A message that was not deleted stays in flight until its visibility timeout.
Restart ==
    /\ EndTransaction
    /\ UNCHANGED <<body, rows, applied, other>>

\* Mutant: lte for lt in changeBalance: one must not spend all one has.
CoveredStrictly(w, f) ==
    /\ w \in exists
    /\ balance[<<w, f>>] >= 2
    /\ balance[<<w, f>>] + draft[<<w, f>>] >= 1

\* changeBalance with a negative amount reads the committed row, on another
\* connection; the decrement then needs the UNSIGNED column to cover it.  A
\* wallet this transaction created does not exist for the other connection.
Covered(w, f) ==
    /\ w \in exists
    /\ balance[<<w, f>>] >= 1
    /\ balance[<<w, f>>] + draft[<<w, f>>] >= 1

\* The transaction holds the lock of every row it has written.
RowLocked(w) == \E i \in 1..(next - 1) : body[msg][i].wallet = w
-----------------------------------------------------------------------------
(* pollMessageBus *)

\* receiveMessage: the first message left, unless it is in flight.
ReceiveMessage ==
    /\ pc = "poll" /\ ~inFlight
    /\ \E m \in Messages \ deleted :
          /\ \A n \in Messages \ deleted : m <= n
          /\ msg' = m
    /\ inFlight' = TRUE
    /\ pc' = "update"
    /\ UNCHANGED <<body, rows, deleted, next, draft, created, applied, lost, other, crashes>>

\* The long poll ends with nothing to hand out, and starts again.
ReceiveNothing ==
    /\ pc = "poll" /\ (inFlight \/ deleted = Messages)
    /\ UNCHANGED vars

\* Mutant: changeBalance trusts the exchange core, the column is signed.
UpdateWalletUnchecked ==
    /\ pc = "update" /\ next <= Len(body[msg])
    /\ LET u == body[msg][next]
       IN  /\ created' = IF u.wallet \in exists THEN created ELSE created \cup {u.wallet}
           /\ draft' = [draft EXCEPT ![<<u.wallet, u.field>>] = IF u.op = "+" THEN @ + 1 ELSE @ - 1]
    /\ next' = next + 1
    /\ UNCHANGED <<body, rows, queue, pc, msg, applied, lost, other, crashes>>

\* Mutant: changeBalance is called without opts, outside the transaction.
UpdateOutsideTransaction ==
    /\ pc = "update" /\ next <= Len(body[msg])
    /\ LET u == body[msg][next]
       IN  /\ u.op = "-" => Covered(u.wallet, u.field)
           /\ exists' = exists \cup {u.wallet}
           /\ balance' = [balance EXCEPT ![<<u.wallet, u.field>>] = IF u.op = "+" THEN @ + 1 ELSE @ - 1]
    /\ next' = next + 1
    /\ UNCHANGED <<body, queue, pc, msg, draft, created, applied, lost, other, crashes>>

\* updateWallets: one walletUpdate, creating its wallet if need be.
UpdateWallet ==
    /\ pc = "update" /\ next <= Len(body[msg])
    /\ LET u == body[msg][next]
       IN  /\ u.op = "-" => Covered(u.wallet, u.field)
           /\ created' = IF u.wallet \in exists THEN created ELSE created \cup {u.wallet}
           /\ draft' = [draft EXCEPT ![<<u.wallet, u.field>>] = IF u.op = "+" THEN @ + 1 ELSE @ - 1]
    /\ next' = next + 1
    /\ UNCHANGED <<body, rows, queue, pc, msg, applied, lost, other, crashes>>

\* changeBalance throws.
UpdateFails ==
    /\ pc = "update" /\ next <= Len(body[msg])
    /\ LET u == body[msg][next] IN u.op = "-" /\ ~Covered(u.wallet, u.field)
    /\ Restart
    /\ UNCHANGED <<queue, lost, crashes>>

UpdatesDone ==
    /\ pc = "update" /\ next > Len(body[msg])
    /\ pc' = "delete"
    /\ UNCHANGED <<body, rows, queue, msg, next, draft, created, applied, lost, other, crashes>>

\* deleteMessage while the receipt is valid.
DeleteMessage ==
    /\ pc = "delete" /\ inFlight
    /\ deleted' = deleted \cup {msg}
    /\ inFlight' = FALSE
    /\ pc' = "commit"
    /\ UNCHANGED <<body, rows, msg, next, draft, created, applied, lost, other, crashes>>

\* Mutant: the catch block logs the refusal and goes on to commit.
DeleteRefusalIgnored ==
    /\ pc = "delete" /\ ~inFlight
    /\ pc' = "commit"
    /\ UNCHANGED <<body, rows, queue, msg, next, draft, created, applied, lost, other, crashes>>

\* The message has timed out: SQS refuses the receipt, the catch block rolls
\* back and throws.
DeleteRefused ==
    /\ pc = "delete" /\ ~inFlight
    /\ Restart
    /\ UNCHANGED <<queue, lost, crashes>>

\* SQS deletes the message but its answer is lost: rolled back all the same.
DeleteAnswerLost ==
    /\ crashes < MaxCrashes
    /\ pc = "delete" /\ inFlight
    /\ deleted' = deleted \cup {msg}
    /\ inFlight' = FALSE
    /\ lost' = lost \cup {msg}
    /\ crashes' = crashes + 1
    /\ Restart

Commit ==
    /\ pc = "commit"
    /\ balance' = [a \in Accounts |-> balance[a] + draft[a]]
    /\ exists' = exists \cup created
    /\ applied' = Append(applied, msg)
    /\ EndTransaction
    /\ UNCHANGED <<body, queue, lost, other, crashes>>

\* The process or its MySQL connection dies, or the commit fails; MySQL rolls
\* the transaction back.
Crash ==
    /\ crashes < MaxCrashes
    /\ pc # "poll"
    /\ lost' = IF pc = "commit" THEN lost \cup {msg} ELSE lost
    /\ crashes' = crashes + 1
    /\ Restart
    /\ UNCHANGED queue
-----------------------------------------------------------------------------
(* The rest of the world *)

\* Another process commits a change of a row the transaction has not written.
\* What an order has locked is left to the order.
OtherChange(w, f, d) ==
    /\ w \in exists
    /\ ~RowLocked(w)
    /\ balance[<<w, f>>] + d >= 0
    /\ other[<<w, f>>] + d <= Taken(<<w, f>>) + MaxOther
    /\ d < 0 /\ f = "locked" => other[<<w, f>>] > Taken(<<w, f>>)
    /\ balance' = [balance EXCEPT ![<<w, f>>] = @ + d]
    /\ other' = [other EXCEPT ![<<w, f>>] = @ + d]
    /\ UNCHANGED <<body, exists, queue, pc, msg, next, draft, created, applied, lost, crashes>>

\* SQS makes the message in flight visible again, the worker having given up.
VisibilityTimeout ==
    /\ inFlight /\ pc = "poll"
    /\ inFlight' = FALSE
    /\ UNCHANGED <<body, rows, deleted, pc, msg, next, draft, created, applied, lost, other, crashes>>

\* SQS makes it visible again while the worker is still at it.
WorkerTooSlow ==
    /\ crashes < MaxCrashes
    /\ inFlight /\ pc # "poll"
    /\ inFlight' = FALSE
    /\ crashes' = crashes + 1
    /\ UNCHANGED <<body, rows, deleted, pc, msg, next, draft, created, applied, lost, other>>
-----------------------------------------------------------------------------
Worker ==
    \/ ReceiveMessage \/ UpdateWallet \/ UpdateFails \/ UpdatesDone
    \/ DeleteMessage \/ DeleteRefused \/ Commit

Next ==
    \/ Worker
    \/ ReceiveNothing \/ DeleteAnswerLost \/ Crash
    \/ VisibilityTimeout \/ WorkerTooSlow
    \/ \E w \in Wallets, f \in Fields, d \in {-1, 1} : OtherChange(w, f, d)

Spec == Init /\ [][Next]_vars

\* A process that waits for SQS or MySQL goes on, and a message nobody holds
\* becomes visible again.
FairSpec == Spec /\ WF_vars(Worker) /\ WF_vars(VisibilityTimeout)
-----------------------------------------------------------------------------
(* Properties *)

Applied(m) == \E i \in 1..Len(applied) : applied[i] = m

\* Order matches are applied in the order the exchange made them, each at most
\* once, although a message is delivered again after every timeout and failure
\* of pollMessageBus.
AppliedInOrder ==
    \A i, j \in 1..Len(applied) : i < j => applied[i] < applied[j]

\* The updates of the applied messages that add to (take from) column a.
Done(a, op) == {u \in (1..Len(applied)) \X (1..MaxUpdates) : Moves(applied[u[1]], u[2], a, op)}

\* The walletUpdates of a message (processMessage) reach the Wallets table all
\* together or not at all: every balance is what the other processes put in
\* plus the net effect of the applied messages.
AppliedAtomically ==
    \A a \in Accounts :
        balance[a] + Cardinality(Done(a, "-")) = other[a] + Cardinality(Done(a, "+"))

\* Once the core has locked all that its messages settle, every message is
\* applied in the end, unless a failure between deleteMessage and the commit has
\* lost it (pollMessageBus.js:22-24): nothing the other processes do, no crash
\* and no redelivery blocks the head of the queue for good.
AllLocked == \A w \in Wallets : other[<<w, "locked">>] >= Taken(<<w, "locked">>)
AppliedUnlessLost ==
    \A m \in Messages : AllLocked ~> (Applied(m) \/ m \in lost)

\* What InternalApi.apib says: the Vault updates the user wallets with every
\* walletUpdate it finds.
EveryMessageApplied == \A m \in Messages : <>Applied(m)
=============================================================================
