------------------------------ MODULE MCKeepers ------------------------------
EXTENDS Keepers

CONSTANTS c, d

OneCoin == <<c>>

\* A curve, and a pool as it is quoted and after a move the lot does not cover.
Rates(bps) == [lp |-> 1, protocol |-> 1, creator |-> bps]
SomeTiers == <<[threshold |-> 0, fees |-> Rates(1)], [threshold |-> 80, fees |-> Rates(0)]>>
Venue(curve, quote) ==
    [curve |-> curve, base |-> 40, quote |-> quote, left |-> 30, open |-> TRUE,
     fees |-> FeeTier(SomeTiers, MarketCap(50, 40, quote))]
SomeVenues == {Venue(TRUE, 40), Venue(FALSE, 40), Venue(FALSE, 80)}

\* A new curve, before and after an edit of the fees.
InitialReserves == [base |-> 40, quote |-> 40, left |-> 30]
SomeFees == {Rates(1), Rates(500)}

\* What is typed: too small, too long, taken; the slippage left empty, and too large.
SomeAmounts == {[whole |-> 0, frac |-> <<2>>], [whole |-> 0, frac |-> <<6, 5>>], [whole |-> 0, frac |-> <<6>>]}
SomeSlippages == {<<>>, <<6000>>}

\* The pool of the swapped quote, as it is quoted and after a move.
SomePools ==
    {[in |-> 40, out |-> out, rate |-> 2500, creator |-> 5000, onInput |-> CreatorFeeOnInput(2, TRUE)] : out \in {60, 80}}
================================================================================
