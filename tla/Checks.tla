-------------------------------- MODULE Checks --------------------------------
(***************************************************************************)
(* The checks of an observation (indexer/invariants.py) and the silence    *)
(* rule: a figure is published when every check that backs it passed.      *)
(*                                                                         *)
(* st is the evidence store, None when the reader was given none; failed   *)
(* holds the addresses whose balance could not be read.                    *)
(***************************************************************************)
EXTENDS Coin

Figures == {"split", "sol_burn_total", "burn_total", "ops_total", "supply_destroyed"}

Check(status, backs) == [status |-> status, backs |-> backs]
PassIf(condition) == IF condition THEN "PASS" ELSE "FAIL"

\* One status of the destinations of a leg.
Fold(statuses) ==
    IF "FAIL" \in statuses THEN "FAIL"
    ELSE IF statuses # {} /\ statuses \subseteq {"PASS"} THEN "PASS" ELSE "UNCHECKED"

\* The runtime destroys what the incinerator is paid; burn111 keeps it.
Balance(a, failed) ==
    IF a \in failed THEN None ELSE IF a = Incinerator THEN 0 ELSE coin.paid[a]

SolBurnOf(st, a, balance) ==
    IF ~st.inflow[a].done \/ st.inflow[a].sum = 0 \/ balance = None
    THEN "UNCHECKED"
    ELSE PassIf(IF a = Incinerator THEN balance = 0 ELSE st.inflow[a].sum <= balance)

SolBurnBalance(st, failed) ==
    IF st = None THEN "UNCHECKED"
    ELSE Fold({SolBurnOf(st, a, Balance(a, failed)) : a \in OnLeg("sol_burn")})

OpsRouted(st) ==
    IF st = None THEN "UNCHECKED"
    ELSE Fold({IF st.inflow[a].done /\ st.inflow[a].sum > 0 THEN "PASS" ELSE "UNCHECKED" :
               a \in OnLeg("paid")})

\* Over-claimed is a failure; destroyed beyond what is recorded is not.
BurnSupply(st) ==
    IF st = None \/ st.initial # "known" \/ ~st.walked \/ Initial - st.seen > Supply
    THEN "UNCHECKED" ELSE PassIf(Initial - st.seen = Supply)

\* Not applicable, and backing nothing: no program burns yet.
BurnAtomic(st) ==
    Check("UNCHECKED", IF st = None \/ st.seen = 0 \/ ~st.walked THEN {"supply_destroyed"} ELSE {})

CanReissue == PassIf(TRUE)
Irreversible == PassIf(~coin.authority)

ConfigMint == PassIf(coin.config.own)
SplitSum == PassIf(Total(coin.config.split) = TotalBps)
SolBurnUnspendable == IF OnLeg("sol_burn") = {} THEN "UNCHECKED" ELSE "PASS"
BurnSpend == "UNCHECKED"

\* $CHARLIE is exempt; a coin that pays no toll, or lacks a leg, claims nothing.
ShareOf(split) ==
    IF Charlie THEN "UNCHECKED"
    ELSE IF ProtocolShare(split) THEN "PASS"
    ELSE IF Pays(split, Toll) \in 1 .. TollBps - 1 THEN "FAIL" ELSE "UNCHECKED"

Checks(st, failed) ==
    [CONFIG_MINT |-> Check(ConfigMint, Figures),
     SPLIT_SUM |-> Check(SplitSum, {"split"}),
     PROTOCOL_SHARE |-> Check(ShareOf(coin.config.split), {}),
     SOL_BURN_UNSPENDABLE |-> Check(SolBurnUnspendable, {"sol_burn_total"}),
     SOL_BURN_BALANCE |-> Check(SolBurnBalance(st, failed), {"sol_burn_total"}),
     BURN_SUPPLY |-> Check(BurnSupply(st), {"burn_total", "supply_destroyed"}),
     BURN_IRREVERSIBLE |-> Check(Irreversible, {"burn_total", "supply_destroyed"}),
     BURN_ATOMIC |-> BurnAtomic(st),
     BURN_SPEND |-> Check(BurnSpend, {"burn_total"}),
     OPS_ROUTED |-> Check(OpsRouted(st), {"ops_total"})]

\* apply_silence_rule
MayPublish(checks, figure) ==
    /\ \E name \in DOMAIN checks : figure \in checks[name].backs
    /\ \A name \in DOMAIN checks : figure \in checks[name].backs => checks[name].status = "PASS"
Blocked(checks) == {f \in Figures : ~MayPublish(checks, f)}

\* enrollment_reading
Reading(checks) ==
    CASE checks.PROTOCOL_SHARE.status = "PASS" -> "enrolled"
      [] checks.PROTOCOL_SHARE.status = "FAIL" -> "underpaying"
      [] OTHER -> IF Charlie THEN "exempt" ELSE "not-enrolled"
================================================================================
