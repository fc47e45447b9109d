------------------------------ MODULE BasisPoints ------------------------------
(***************************************************************************)
(* The one piece of arithmetic all three programs share: a part of an      *)
(* amount in basis points, with integer division (program/src/lib.rs,      *)
(* charlie-splitter/src/lib.rs, launchlab/src/state.rs).                   *)
(***************************************************************************)
EXTENDS Integers

\* The part of l that is bps out of whole, rounded down.
PartOf(l, bps, whole) == (l * bps) \div whole
================================================================================
