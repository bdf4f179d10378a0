---------------------------- MODULE PaymentLedger ----------------------------
(***************************************************************************)
(* What the payment endpoints promise their callers, with no requests,     *)
(* locks or transactions: each operation is one atomic step on the rows,   *)
(* and a payment is broadcast at most once, before it is marked paid and   *)
(* never when it is refunded.                                              *)
(***************************************************************************)
EXTENDS Integers

CONSTANTS Wallets, Payments, MaxAmount

VARIABLES available, locked, status, owner, amount, sends

ledger == <<available, locked, status, owner, amount, sends>>

Init ==
    /\ available = [w \in Wallets |-> 0]
    /\ locked = [w \in Wallets |-> 0]
    /\ status = [p \in Payments |-> "none"]
    /\ owner \in [Payments -> Wallets]
    /\ amount \in [Payments -> 1..MaxAmount]
    /\ sends = [p \in Payments |-> 0]

\* Funds arrive in, or leave, one wallet, which keeps covering both balances.
Transfer(w, da, dl) ==
    /\ available[w] + da >= 0
    /\ locked[w] + dl >= 0
    /\ available' = [available EXCEPT ![w] = @ + da]
    /\ locked' = [locked EXCEPT ![w] = @ + dl]

External(w, a) ==
    /\ \/ Transfer(w, a, 0)     \* deposit
       \/ Transfer(w, 0, -a)    \* settlement of an order's hold
       \/ Transfer(w, -a, a)    \* hold for an order
       \/ Transfer(w, a, -a)    \* release of a hold
    /\ UNCHANGED <<status, owner, amount, sends>>

Reserve(p, w, a) ==
    /\ status[p] = "none"
    /\ Transfer(w, -a, a)
    /\ status' = [status EXCEPT ![p] = "pending"]
    /\ owner' = [owner EXCEPT ![p] = w]
    /\ amount' = [amount EXCEPT ![p] = a]
    /\ UNCHANGED sends

Broadcast(p) ==
    /\ status[p] = "pending"
    /\ sends[p] = 0
    /\ sends' = [sends EXCEPT ![p] = 1]
    /\ UNCHANGED <<available, locked, status, owner, amount>>

Confirm(p) ==
    /\ status[p] = "pending"
    /\ sends[p] = 1
    /\ Transfer(owner[p], 0, -amount[p])
    /\ status' = [status EXCEPT ![p] = "paid"]
    /\ UNCHANGED <<owner, amount, sends>>

Refund(p) ==
    /\ status[p] = "pending"
    /\ sends[p] = 0
    /\ Transfer(owner[p], amount[p], -amount[p])
    /\ status' = [status EXCEPT ![p] = "canceled"]
    /\ UNCHANGED <<owner, amount, sends>>

Next ==
    \/ \E w \in Wallets, a \in 1..MaxAmount : External(w, a)
    \/ \E p \in Payments, w \in Wallets, a \in 1..MaxAmount : Reserve(p, w, a)
    \/ \E p \in Payments : Broadcast(p) \/ Confirm(p) \/ Refund(p)

Spec == Init /\ [][Next]_ledger
=============================================================================
