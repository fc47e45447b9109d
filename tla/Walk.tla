--------------------------------- MODULE Walk ---------------------------------
(***************************************************************************)
(* A bounded walk of the history of one address, as both scans of          *)
(* indexer/scan.py do it.  A signature is its place in the history, and 0  *)
(* stands for None.                                                        *)
(***************************************************************************)
EXTENDS Integers, FiniteSets, FiniteSetsExt

CONSTANTS
    Batch,          \* pages * limit: signatures a backfill lists in one run
    Lag             \* bound: how far behind the chain an answer may be

ASSUME WalkAssumption == {Batch, Lag} \subseteq Nat

None == 0
NoCursor == [last |-> None, oldest |-> None, complete |-> FALSE]

\* fetch_new_signatures: what lies between `until` and `before`, both excluded.
\* A node that has seen the history up to `tip' only, and so does not know
\* `until' yet, lists everything it has.
Between(known, tip, until, before) ==
    {s \in known : /\ until <= tip => s > until
                   /\ before # None => s < before}

Newest(set, n) == {s \in set : Cardinality({t \in set : t > s}) < n}

\* A walk reads the oldest first; it stops where a transaction is not returned,
\* or at None when it reads them all.
Passed(listed, stop) == {s \in listed : stop = None \/ s < stop}

FirstOf(set) == IF set = {} THEN None ELSE Min(set)
LastOf(set, kept) == IF set = {} THEN kept ELSE Max(set)
================================================================================
