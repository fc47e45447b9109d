-------------------------------- MODULE Buyers --------------------------------
(***************************************************************************)
(* What a person who buys is quoted: on a coin's page, for a coin that     *)
(* trades (indexer/sitebuy.py, api/buy.py), and at the launch door, in the *)
(* transaction that creates the coin (indexer/launchbuy.py).               *)
(*                                                                         *)
(* A quote is for exactly `out' tokens, expected to cost `cost' of the     *)
(* `lot' that was typed, and fails whole above `bound'.                    *)
(***************************************************************************)
EXTENDS Quotes

CONSTANTS
    Places,                         \* decimals of a SOL: nine
    MinBuy, MaxBuy, MaxDevBuy,      \* MIN_LAMPORTS, MAX_LAMPORTS, MAX_BUY_LAMPORTS
    MinSlippage, MaxSlippage, DefaultSlippage,
    DevSlippage,                    \* SLIPPAGE_BPS: taken off the tokens
    NewCurve,                       \* the reserves pump gives a new curve
    FreshFees                       \* the fees it may be found to charge

ASSUME BuyersAssumption ==
    /\ {Places, MinBuy, MaxBuy, MaxDevBuy, MinSlippage, MaxSlippage} \subseteq Nat
    /\ DefaultSlippage \in MinSlippage .. MaxSlippage /\ DevSlippage \in 0 .. BPS - 1
    /\ NewCurve \in [base : Nat, quote : Nat \ {0}, left : Nat] /\ FreshFees \subseteq FeeRates

--------------------------------------------------------------------------------
(* The form: the digits of an amount, before and after the point, and nothing   *)
(* or a number of basis points.                                                 *)

Lamports(sol) ==
    sol.whole * 10 ^ Places
        + MapThenSumSet(LAMBDA k : sol.frac[k] * 10 ^ (Places - k), DOMAIN sol.frac)

\* The one amount that may be meant, or none; at a launch no more than a curve holds.
ParseSol(sol) == IF Len(sol.frac) > Places THEN {} ELSE {Lamports(sol)} \cap (MinBuy .. MaxBuy)
ParseDevSol(sol) == IF Len(sol.frac) > Places THEN {} ELSE {Lamports(sol)} \cap (MinBuy .. MaxDevBuy)

ParseSlippage(typed) ==
    IF typed = <<>> THEN {DefaultSlippage} ELSE {typed[1]} \cap (MinSlippage .. MaxSlippage)

--------------------------------------------------------------------------------

Buys(out, cost, lot, bound, curve) ==
    [out |-> out, cost |-> cost, lot |-> lot, bound |-> bound, curve |-> curve]

\* The slippage is on the SOL, and on top of what was typed.
MaxCost(lot, slippage) == lot + (lot * slippage) \div BPS

\* curve_buy: a curve quoted in SOL, not in mayhem, with tokens left.
CurveBuy(lot, slippage, venue) ==
    {Buys(out, CurveCost(out, venue), lot, MaxCost(lot, slippage), TRUE) :
        out \in {o \in {CurveLot(lot, venue, 0)} : venue.open /\ venue.left > 0 /\ o > 0}}

\* amm_buy: a pool whose fee recipients are named.
AmmBuy(lot, slippage, venue) ==
    {Buys(out, PoolCost(out, venue), lot, MaxCost(lot, slippage), FALSE) :
        out \in {o \in {PoolLot(lot, venue, 0)} : venue.open /\ o > 0}}

\* plan: the chain chooses the venue.
SiteBuy(lot, slippage, venue) ==
    IF venue.curve THEN CurveBuy(lot, slippage, venue) ELSE AmmBuy(lot, slippage, venue)

\* fresh_curve: nothing sold yet.
FreshCurve(fees) ==
    [curve |-> TRUE, base |-> NewCurve.base, quote |-> NewCurve.quote, left |-> NewCurve.left,
     open |-> TRUE, fees |-> fees]
Fresh == {FreshCurve(fees) : fees \in FreshFees}

\* quote: on the curve as `create' leaves it, never for more than was typed.
DevBuy(lot, fresh) ==
    {Buys(out, CurveCost(out, fresh), lot, lot, TRUE) :
        out \in {o \in {CurveLot(lot, fresh, DevSlippage)} : fresh.open /\ o > 0}}
================================================================================
