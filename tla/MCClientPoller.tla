--------------------------- MODULE MCClientPoller ---------------------------
(* ClientPoller for TLC. *)
EXTENDS ClientPoller

CONSTANTS alice, bob

Coin(a)  == [to |-> a, kind |-> "coin"]
Claim(a) == [to |-> a, kind |-> "claim"]
Call(a)  == [to |-> a, kind |-> "call"]

\* Two payments to one address, alone in their transactions; payments of one
\* transaction to several addresses after a claim; claims and calls alone.
SomeOutputs ==
    {<<<<Coin(alice)>>, <<Coin(alice)>>>>,
     <<<<Claim(alice), Coin(alice), Coin(Stranger), Coin(bob), Coin(alice)>>, <<Coin(alice)>>>>,
     <<<<Claim(alice)>>, <<Call(alice)>>>>}
OnePayment == {<<<<Coin(alice)>>>>}
=============================================================================
