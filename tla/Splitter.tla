-------------------------------- MODULE Splitter --------------------------------
(***************************************************************************)
(* The splitter (charlie-splitter/src/lib.rs): for a coin which cannot     *)
(* enroll, a vault no key can sign for, and whose only exit is a split in  *)
(* proportions that are compiled in.                                       *)
(***************************************************************************)
EXTENDS Lamports

CONSTANTS
    SolBurn, Buyback, Ops,      \* SOL_BURN_BPS, BUYBACK_BPS, OPS_BPS
    OpsWallets                  \* ops addresses an initialisation may name

ASSUME SplitterAssumption ==
    /\ SolBurn \in Nat /\ Buyback \in Nat /\ Ops \in Nat
    /\ SolBurn + Buyback + Ops = Whole
    /\ OpsWallets \subseteq Accounts

VARIABLE config     \* coin -> the ops address of config(mint)

NoConfig == "none"

SplitterInit == config = [m \in Coins |-> NoConfig]

Vaults(m) == {Vault(m), BurnVault(m)}

Initialise(m, ops) ==
    /\ config[m] = NoConfig
    /\ config' = [config EXCEPT ![m] = ops]
    /\ created' = created \cup Opened(Vaults(m))
    /\ Become(WithRent(Vaults(m)), Deposit(Vault(m)) + Deposit(BurnVault(m)))

BurnOf(l)    == Share(l, SolBurn)

SplitUp(m) ==
    LET l   == Above(Vault(m))
        ops == OpsAmount(Share(l, Ops), config[m])
    IN  [a \in Accounts |->
            lamports[a] + To(a, BurnVault(m), Share(l, Buyback))
                        + To(a, config[m], ops)
                        - To(a, Vault(m), BurnOf(l) + Share(l, Buyback) + ops)]

CanSplit(m) == config[m] # NoConfig /\ Vaults(m) \subseteq created

Split(m) ==
    /\ CanSplit(m)
    /\ Above(Vault(m)) > 0
    /\ Become(SplitUp(m), -BurnOf(Above(Vault(m))))
    /\ UNCHANGED <<created, config>>
================================================================================
