------------------------------- MODULE MCInflows -------------------------------
(* Instances of Inflows for TLC. *)
EXTENDS Inflows

\* A credit, and an outflow.
SomeAmounts == {-1, 1}
================================================================================
