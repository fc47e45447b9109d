-------------------------------- MODULE Quotes --------------------------------
(***************************************************************************)
(* The arithmetic of the keepers: what a buy costs on PumpSwap and on the  *)
(* bonding curve, how much a lot buys (indexer/buyback.py,                 *)
(* indexer/curvebuy.py), and the least a CPMM swap must pay out            *)
(* (indexer/platform_fees.py).                                             *)
(*                                                                         *)
(* A venue has a base and a quote reserve, the tokens left to sell, and    *)
(* the rates of its fees in basis points.                                  *)
(***************************************************************************)
EXTENDS Integers, Sequences, FiniteSetsExt

BPS == 10000
Million == 1000000

FeeRates == [lp : Nat, protocol : Nat, creator : Nat]
Markets == [curve : BOOLEAN, base : Nat, quote : Nat \ {0}, left : Nat, open : BOOLEAN, fees : FeeRates]

CeilDiv(a, b) == -((-a) \div b)
FeeOf(amount, bps) == CeilDiv(amount * bps, BPS)

\* The highest tier whose threshold the market cap meets; the first one below them all.
MarketCap(supply, base, quote) == (quote * supply) \div base
FeeTier(tiers, cap) ==
    LET met == {k \in DOMAIN tiers : cap >= tiers[k].threshold}
    IN  IF cap < tiers[1].threshold \/ met = {} THEN tiers[1].fees ELSE tiers[Max(met)].fees

--------------------------------------------------------------------------------
(* What `buy(out)' charges: the constant product, and each fee rounded up on top. *)

WithFees(quote, fees) == quote + FeeOf(quote, fees.lp) + FeeOf(quote, fees.protocol)
                               + FeeOf(quote, fees.creator)

PoolCost(out, venue) == WithFees(CeilDiv(venue.quote * out, venue.base - out), venue.fees)
CurveCost(out, venue) == WithFees((out * venue.quote) \div (venue.base - out) + 1, venue.fees)

\* What remains of a lot for the pool itself.
Effective(lot, fees) == (lot * BPS) \div (BPS + fees.lp + fees.protocol + fees.creator)
ForQuote(input, venue) == (venue.base * input) \div (venue.quote + input)

\* The amounts the loop may end on: it counts down from `first', one unit at a
\* time as long as there are less than 20,000, until the cost fits.
PoolFits(lot, venue, first) == {out \in 0 .. first : out = 0 \/ PoolCost(out, venue) <= lot}
CurveFits(lot, venue, first) == {out \in 0 .. first : out = 0 \/ CurveCost(out, venue) <= lot}

Slipped(out, slippage) == (out * (BPS - slippage)) \div BPS

\* The loop left out.
Unfitted(lot, venue, slippage) == Slipped(ForQuote(Effective(lot, venue.fees) - 1, venue), slippage)

\* base_out_for_lot and amount_for_lot; 0 where they refuse.
PoolLot(lot, venue, slippage) ==
    LET input == Effective(lot, venue.fees) - 1
    IN  IF input < 1 THEN 0
        ELSE Slipped(Max(PoolFits(lot, venue, ForQuote(input, venue))), slippage)

CurveLot(lot, venue, slippage) ==
    LET input == Effective(lot, venue.fees) - 1
        first == Min({ForQuote(input, venue), venue.left})
    IN  IF input <= 1 THEN 0
        ELSE Slipped(Max(CurveFits(lot, venue, first)), slippage)

SweepLot(balance, headroom) == Max({0, balance - headroom})

--------------------------------------------------------------------------------
(* A CPMM swap: the fees are parts of a million, each rounded up on its own. *)

CpmmFee(amount, rate) == CeilDiv(amount * rate, Million)

\* creator_fee_on_input: 0 takes it on both sides, 1 on token 0 only, 2 on token 1 only.
CreatorFeeOnInput(on, inIsZero) == on = 0 \/ ((on = 1) <=> inIsZero)

\* Nothing, where the fees leave nothing of the input: quote_out refuses it.
ProductOut(net, reserveIn, reserveOut) ==
    IF net <= 0 THEN 0 ELSE (reserveOut * net) \div (reserveIn + net)

QuoteOut(in, reserveIn, reserveOut, slippage, rate, creatorRate, onInput) ==
    LET net == in - CpmmFee(in, rate) - (IF onInput THEN CpmmFee(in, creatorRate) ELSE 0)
        out == ProductOut(net, reserveIn, reserveOut)
        kept == out - (IF onInput THEN 0 ELSE CpmmFee(out, creatorRate))
    IN  Slipped(kept, slippage)

\* What the program pays: one fee on the input, of both rates together.
CpmmPays(in, reserveIn, reserveOut, rate, creatorRate, onInput) ==
    LET net == in - CpmmFee(in, IF onInput THEN rate + creatorRate ELSE rate)
        out == ProductOut(net, reserveIn, reserveOut)
    IN  out - (IF onInput THEN 0 ELSE CpmmFee(out, creatorRate))
================================================================================
