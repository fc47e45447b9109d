------------------------------ MODULE MCTagLedger ------------------------------
(* Instances of TagLedger for TLC. *)
EXTENDS TagLedgerProps, TLC

\* Requesters are interchangeable, and so are wallets.
Symmetry == Permutations(Users) \cup Permutations(Wallets)
================================================================================
