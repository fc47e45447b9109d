-------------------------------- MODULE Lamports --------------------------------
(***************************************************************************)
(* The balances the two fee programs move, and the arithmetic they share   *)
(* (program/src/lib.rs, charlie-splitter/src/lib.rs).                      *)
(*                                                                         *)
(* A program derived address is a pair of its seed and its coin.  The      *)
(* deposit a payer puts into a new account comes from outside, and every   *)
(* account's rent exempt minimum is the same number.  The incinerator has  *)
(* no balance: what it is credited is gone at the end of the block.        *)
(***************************************************************************)
EXTENDS BasisPoints

CONSTANTS
    Whole,          \* 10000 basis points
    Coins,          \* mints
    Wallets,        \* ordinary wallets
    Rent,           \* the rent exempt minimum
    MaxOutside      \* bound: lamports brought in, less those gone

Collector(m) == <<"collect", m>>
BurnPool(m)  == <<"burn", m>>
CharliePool  == <<"charlie", "charlie">>
Vault(m)     == <<"vault", m>>
BurnVault(m) == <<"burn vault", m>>

Derived  == {"collect", "burn", "vault", "burn vault"} \X Coins \cup {CharliePool}
Accounts == Derived \cup Wallets

ASSUME WholeAssumption == Whole \in Nat \ {0}

\* A leg's share of an amount.
Share(l, bps) == PartOf(l, bps, Whole)

ASSUME LamportsAssumption ==
    /\ Rent \in Nat \ {0} /\ MaxOutside \in Nat
    /\ Wallets \cap Derived = {}

VARIABLES
    lamports,       \* account -> its balance
    created,        \* the derived addresses their program has created and owns
    outside         \* (bound) lamports brought in, less those gone

Holdings == <<lamports, created, outside>>

LamportsInit ==
    /\ lamports = [a \in Accounts |-> 0]
    /\ created = {} /\ outside = 0

\* The runtime refuses an instruction that leaves an account it touched with
\* lamports, but fewer than its minimum.
Accepted(new) == \A a \in Accounts : new[a] \in {0, lamports[a]} \/ new[a] >= Rent

Become(new, brought) ==
    /\ Accepted(new)
    /\ lamports' = new
    /\ outside' = outside + brought

--------------------------------------------------------------------------------
(* What may be moved, and what is paid. *)

\* saturating_sub of the reserve: what may be moved.
AboveNothing(a) == lamports[a]
Above(a) == IF lamports[a] > Rent THEN lamports[a] - Rent ELSE 0

\* The ops wallet is paid only once it can hold what it is paid.
OpsAlways(share, ops) == share
OpsAmount(share, ops) == IF lamports[ops] + share >= Rent THEN share ELSE 0

To(a, b, n) == IF a = b THEN n ELSE 0

\* create_pda, where the address holds nothing yet; where it does, it is left
\* as it is.
Opened(S)   == {a \in S : lamports[a] = 0}
WithRent(S) == [a \in Accounts |-> IF a \in Opened(S) THEN Rent ELSE lamports[a]]
Deposit(a)  == To(lamports[a], 0, Rent)

--------------------------------------------------------------------------------
(* Everybody else on the chain. *)

\* pump pays the fee of a coin to its destination, which need not exist yet.
Pay(a, n) ==
    /\ outside + n <= MaxOutside
    /\ Become([lamports EXCEPT ![a] = @ + n], n)
    /\ UNCHANGED created

\* A wallet's owner takes what it holds out of it.
Withdraw(w) ==
    /\ Become([lamports EXCEPT ![w] = 0], -lamports[w])
    /\ UNCHANGED created
================================================================================
