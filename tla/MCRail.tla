--------------------------------- MODULE MCRail ---------------------------------
(* Instances of RailKeeper for TLC. *)
EXTENDS RailKeeper

CONSTANTS coin, w, v

Split(sol, own, ops, address) == [sol |-> sol, own |-> own, ops |-> ops, address |-> address]

\* Every leg paid; nothing bought, and an ops leg too small for an empty
\* wallet; one that does not fill the whole, and is refused.
SomeSplits == {Split(1, 1, 2, w), Split(3, 0, 1, v), Split(1, 1, 1, w)}
================================================================================
