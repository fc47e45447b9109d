-------------------------------- MODULE Payouts --------------------------------
(***************************************************************************)
(* What the tag bot's ledger promises each requester, whatever the bot     *)
(* does to keep it: lamports a coin earned for them are free, promised to  *)
(* them (a held claim), set aside for one payment or one burn, or gone,    *)
(* and they leave the treasury only out of what was set aside first.       *)
(* Taken from the header of indexer/tag_ledger.py: `exactly what the chain *)
(* credited minus exactly what was sent, burned, or is in flight'.         *)
(***************************************************************************)
EXTENDS Integers

CONSTANT Users

VARIABLES
    earned,     \* user -> lamports their coins' toll credited
    promised,   \* user -> lamports of an open held claim
    paying,     \* user -> lamports set aside for their payment
    burning,    \* user -> lamports set aside for the burn
    given       \* user -> lamports that left the treasury for them

vars == <<earned, promised, paying, burning, given>>

Amounts == [Users -> Nat]
Zero    == [u \in Users |-> 0]

\* Lamports of u nothing has been done with.
Free(u) == earned[u] - given[u] - paying[u] - burning[u]

Init ==
    /\ earned = Zero /\ promised = Zero
    /\ paying = Zero /\ burning = Zero /\ given = Zero

Earn ==
    /\ earned' \in Amounts
    /\ \A u \in Users : earned'[u] >= earned[u]
    /\ UNCHANGED <<promised, paying, burning, given>>

\* A claim is held for review, again, or its hold is given up.
Promise(u) ==
    /\ \E n \in 0..Free(u) : promised' = [promised EXCEPT ![u] = n]
    /\ UNCHANGED <<earned, paying, burning, given>>

\* A payment takes from what is free; a promise it answers is no longer open.
StartPayment(u) ==
    /\ paying[u] = 0 /\ burning[u] = 0
    /\ \E n \in 1..Free(u) : paying' = [paying EXCEPT ![u] = n]
    /\ promised' = [promised EXCEPT ![u] = 0]
    /\ UNCHANGED <<earned, burning, given>>

\* A burn takes from what is free and not promised.
StartBurn ==
    /\ burning = Zero
    /\ burning' \in Amounts
    /\ \A u \in Users : burning'[u] <= Free(u) /\
                        (burning'[u] > 0 => promised[u] + burning'[u] <= Free(u))
    /\ UNCHANGED <<earned, promised, paying, given>>

DeliverPayment(u) ==
    /\ paying' = [paying EXCEPT ![u] = 0]
    /\ given' = [given EXCEPT ![u] = @ + paying[u]]
    /\ UNCHANGED <<earned, promised, burning>>

DeliverBurn ==
    /\ burning' = Zero
    /\ given' = [u \in Users |-> given[u] + burning[u]]
    /\ UNCHANGED <<earned, promised, paying>>

\* Payments that can never arrive are given up: their lamports are free again,
\* and a promise such a payment was to answer is open again.
Release ==
    \E D \in SUBSET Users :
        /\ paying' = [u \in Users |-> IF u \in D THEN 0 ELSE paying[u]]
        /\ burning' \in {burning, Zero}
        /\ promised' \in Amounts
        /\ \A u \in Users : promised'[u] # promised[u]
               => u \in D /\ promised'[u] <= Free(u) + paying[u]
        /\ UNCHANGED <<earned, given>>

Next ==
    \/ Earn
    \/ \E u \in Users : Promise(u) \/ StartPayment(u) \/ DeliverPayment(u)
    \/ StartBurn \/ DeliverBurn
    \/ Release

Spec == Init /\ [][Next]_vars

\* Nobody is given more than they earned, and every promise can be kept.
Kept == \A u \in Users : 0 <= promised[u] /\ promised[u] <= Free(u)
================================================================================
