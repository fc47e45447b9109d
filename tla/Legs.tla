--------------------------------- MODULE Legs ---------------------------------
(***************************************************************************)
(* What a fee split must carry (indexer/legs.py): the rules of the two     *)
(* doors, of a launch from a tag, and of the check that calls a coin       *)
(* enrolled (indexer/enroll.py, indexer/launch.py, indexer/invariants.py). *)
(*                                                                         *)
(* A split is a function from the addresses it pays to basis points.       *)
(***************************************************************************)
EXTENDS Integers, FiniteSets, FiniteSetsExt, TLC

CONSTANTS
    TollBps,            \* TOLL_BPS
    OpsPercent,         \* CHARLIE_OPS_PERCENT
    MaxShareholders,    \* MAX_SHAREHOLDERS
    Toll, Incinerator, Treasury, Ops     \* the addresses the protocol recognises

TotalBps == 10000
MinIncineratorPercent == 1

ASSUME LegsAssumption ==
    /\ TollBps \in 1 .. TotalBps /\ OpsPercent \in 1 .. 100 /\ MaxShareholders \in Nat
    /\ Cardinality({Toll, Incinerator, Treasury, Ops}) = 4

Pays(split, address) == IF address \in DOMAIN split THEN split[address] ELSE 0

MinIncineratorBps(rate) == ((TotalBps - rate) * MinIncineratorPercent) \div 100
CharlieOpsBps(rate) == ((TotalBps - rate) * OpsPercent) \div 100
CarriesCharlieOps(split, rate) == Pays(split, Ops) >= CharlieOpsBps(rate)

\* missing_legs: the doors leave allowOps off.
MissingLegs(split, rate, allowOps) ==
    {leg \in {"incinerator", "buyback"} :
        \/ leg = "incinerator" /\ Pays(split, Incinerator) < MinIncineratorBps(rate)
        \/ /\ leg = "buyback" /\ Pays(split, Treasury) <= 0
           /\ ~(allowOps /\ CarriesCharlieOps(split, rate))}

\* validate
Valid(split) ==
    /\ DOMAIN split # {} /\ Cardinality(DOMAIN split) <= MaxShareholders
    /\ \A a \in DOMAIN split : split[a] \in 1 .. TotalBps
    /\ MapThenSumSet(LAMBDA a : split[a], DOMAIN split) = TotalBps

\* require_toll
CarriesToll(split) == Pays(split, Toll) = TollBps

\* launch.preflight, and the rules on the split of enroll.preflight.
Refused(split) == TRUE
Accepts(split) == Valid(split) /\ CarriesToll(split) /\ MissingLegs(split, TollBps, FALSE) = {}

--------------------------------------------------------------------------------
(* The page's rows: an address and hundredths of a percent of what the toll    *)
(* leaves. *)

\* shareRows: what stops a build, the rounding aside.
Complete(rows) ==
    /\ MapThenSumSet(LAMBDA a : rows[a], DOMAIN rows) = TotalBps
    /\ Toll \notin DOMAIN rows /\ {Incinerator, Treasury} \subseteq DOMAIN rows
    /\ Cardinality(DOMAIN rows) <= MaxShareholders - 1
    /\ \A a \in DOMAIN rows : rows[a] > 0
    /\ rows[Incinerator] >= 100 * MinIncineratorPercent

Rounded(part, rest) == (2 * part * rest + TotalBps) \div (2 * TotalBps)

\* Each row rounded on its own, and the dev's takes up the difference.
Absorbed(rows, rate, dev) ==
    LET rest == TotalBps - rate
        others == MapThenSumSet(LAMBDA a : Rounded(rows[a], rest), DOMAIN rows \ {dev})
    IN  [a \in DOMAIN rows |-> IF a = dev THEN rest - others ELSE Rounded(rows[a], rest)]

ShareRows(rows, rate, dev) == (Toll :> rate) @@ Absorbed(rows, rate, dev)

--------------------------------------------------------------------------------

\* protocol_share answers PASS, for a coin of today's rate.
ProtocolShare(split) ==
    Pays(split, Toll) >= TollBps /\ MissingLegs(split, TollBps, TRUE) = {}
================================================================================
