----------------------------- MODULE MCMessageBus -----------------------------
(* A two-user, two-currency exchange for TLC. *)
EXTENDS MessageBus, TLC

CONSTANTS btc1, ltc1, btc2, ltc2     \* the wallets of users 1 and 2

U(w, f, o) == [wallet |-> w, field |-> f, op |-> o]

\* The two messages of InternalApi.apib: an order match, in which user 1 buys ltc
\* from user 2 for btc, and the cancellation of an order of user 1.
Match  == << U(btc1, "locked", "-"), U(ltc1, "available", "+"),
             U(ltc2, "locked", "-"), U(btc2, "available", "+") >>
Cancelled == << U(btc1, "locked", "-"), U(btc1, "available", "+") >>
MCBodies  == {Match, Cancelled}
=============================================================================
