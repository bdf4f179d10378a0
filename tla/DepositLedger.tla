---------------------------- MODULE DepositLedger ----------------------------
(***************************************************************************)
(* What the deposit pollers promise: a deposit is credited to its wallet   *)
(* in one step, once, and only when it is buried under MinConfirmations    *)
(* blocks or, having been moved by a fork, was taken for such a one.       *)
(* There are no rows, cursors, heights read, processes or sweeps here.     *)
(***************************************************************************)
EXTENDS Integers

CONSTANTS Txs, Wallets, MinConfirmations

VARIABLES height, to, minedIn,  \* the chain
          forked,               \* transactions that forks have moved
          stale,                \* of these, the ones misread as settled
          credited,             \* deposits credited so far
          balance               \* of each wallet

deposits == <<height, to, minedIn, forked, stale, credited, balance>>

Settled(t) == minedIn[t] # 0 /\ height - minedIn[t] >= MinConfirmations

Init ==
    /\ height \in Nat
    /\ to \in [Txs -> Wallets]
    /\ minedIn = [t \in Txs |-> 0]
    /\ forked = {}
    /\ stale = {}
    /\ credited = {}
    /\ balance = [w \in Wallets |-> 0]

\* The chain grows or forks, but keeps what is settled.
Chain ==
    /\ height' >= height
    /\ \A t \in Txs : Settled(t) => minedIn'[t] = minedIn[t]
    /\ forked \subseteq forked'
    /\ {t \in Txs : minedIn[t] # 0 /\ minedIn'[t] # minedIn[t]} \subseteq forked'
    /\ UNCHANGED <<to, stale, credited, balance>>

\* Some transactions are taken for settled in the block they were in.
Misread(S) ==
    /\ S \subseteq forked
    /\ stale' = stale \cup S
    /\ UNCHANGED <<height, to, minedIn, forked, credited, balance>>

Credit(t) ==
    /\ Settled(t) \/ t \in stale
    /\ t \notin credited
    /\ credited' = credited \cup {t}
    /\ balance' = [balance EXCEPT ![to[t]] = @ + 1]
    /\ UNCHANGED <<height, to, minedIn, forked, stale>>

Next ==
    \/ Chain
    \/ \E S \in SUBSET Txs : Misread(S)
    \/ \E t \in Txs : Credit(t)

Spec == Init /\ [][Next]_deposits
=============================================================================
