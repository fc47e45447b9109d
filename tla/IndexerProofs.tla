----------------------------- MODULE IndexerProofs -----------------------------
(***************************************************************************)
(* Proofs about the keepers that move money on (Keepers) and about what is *)
(* said of a coin (Record), for every market, every configuration and      *)
(* every number of steps.                                                  *)
(***************************************************************************)
EXTENDS Keepers, Record, ArithmeticProofs

--------------------------------------------------------------------------------
(* Quotients of integers. *)

\* What a quotient rounded down is.
LEMMA Quotient ==
  ASSUME NEW a \in Int, NEW b \in Nat \ {0}
  PROVE  a \div b \in Int /\ b * (a \div b) <= a /\ a < b * (a \div b + 1)
OBVIOUS

\* A product of what is not negative, and one of a difference.
LEMMA Products ==
  ASSUME NEW a \in Int, NEW b \in Int, NEW n \in Nat
  PROVE  n * a \in Int /\ n * b \in Int /\ a * n = n * a /\ (a <= b => n * a <= n * b)
<1>1. n * (b - a) = n * b - n * a
  OBVIOUS
<1>2. a <= b => n * (b - a) >= 0
  OBVIOUS
<1>3. n * a \in Int /\ n * b \in Int /\ a * n = n * a
  OBVIOUS
<1> QED BY <1>1, <1>2, <1>3

\* Nothing above it fits.
LEMMA QuotientIsMost ==
  ASSUME NEW a \in Int, NEW b \in Nat \ {0}, NEW r \in Int, b * r <= a
  PROVE  r <= a \div b
<1> DEFINE q == a \div b
<1>1. q \in Int /\ a < b * (q + 1)
  BY Quotient
<1> HIDE DEF q
<1>2. b * (q + 1) <= b * r \/ r < q + 1
  BY <1>1, Products
<1>3. b * r \in Int /\ b * (q + 1) \in Int
  BY <1>1, Products
<1>4. r <= q
  BY <1>1, <1>2, <1>3
<1> QED BY <1>4 DEF q

\* Rounded down, a quotient grows with what is divided and as the divisor shrinks.
LEMMA QuotientGrows ==
  ASSUME NEW a \in Nat, NEW c \in Nat, a <= c, NEW b \in Nat \ {0}, NEW d \in Nat \ {0}, d <= b
  PROVE  a \div b \in Nat /\ c \div d \in Nat /\ a \div b <= c \div d
<1> DEFINE q == a \div b
<1>1. q \in Int /\ b * q <= a /\ c \div d \in Nat
  BY Quotient
<1>2. q \in Nat
  OBVIOUS
<1> HIDE DEF q
<1>3. d * q <= b * q
  BY <1>2, Products
<1>4. b * q \in Int /\ d * q \in Int
  BY <1>2, Products
<1>5. d * q <= c
  BY <1>1, <1>3, <1>4
<1>6. q <= c \div d
  BY <1>2, <1>5, QuotientIsMost
<1> QED BY <1>1, <1>2, <1>6 DEF q

\* So does one rounded up.
LEMMA CeilDivFacts ==
  ASSUME NEW a \in Nat, NEW b \in Nat \ {0}
  PROVE  CeilDiv(a, b) \in Nat /\ a <= b * CeilDiv(a, b)
<1> DEFINE q == (-a) \div b
<1>1. q \in Int /\ b * q <= -a
  BY Quotient
<1>2. q <= 0
  OBVIOUS
<1>3. CeilDiv(a, b) = -q
  BY DEF CeilDiv
<1> HIDE DEF q
<1>4. b * (-q) = -(b * q) /\ b * q \in Int
  BY <1>1
<1> QED BY <1>1, <1>2, <1>3, <1>4

LEMMA CeilDivGrows ==
  ASSUME NEW a \in Nat, NEW c \in Nat, a <= c, NEW b \in Nat \ {0}, NEW d \in Nat \ {0}, d <= b
  PROVE  CeilDiv(a, b) <= CeilDiv(c, d)
<1> DEFINE s == CeilDiv(c, d)
<1>1. s \in Nat /\ c <= d * s
  BY CeilDivFacts
<1> HIDE DEF s
<1>2. d * s <= b * s /\ d * s \in Int /\ b * s \in Int
  BY <1>1, Products
<1>3. b * (-s) = -(b * s)
  BY <1>1
<1>4. b * (-s) <= -a
  BY <1>1, <1>2, <1>3
<1>5. -s <= (-a) \div b
  BY <1>1, <1>4, QuotientIsMost
<1>6. (-a) \div b \in Int
  BY Quotient
<1>7. -((-a) \div b) <= s
  BY <1>1, <1>5, <1>6
<1> QED BY <1>7 DEF s, CeilDiv

--------------------------------------------------------------------------------
(* What a buy costs, for every market. *)

\* A fee rounded up grows with what it is taken of.
LEMMA FeeGrows ==
  ASSUME NEW a \in Nat, NEW c \in Nat, a <= c, NEW bps \in Nat
  PROVE  FeeOf(a, bps) \in Nat /\ FeeOf(c, bps) \in Nat /\ FeeOf(a, bps) <= FeeOf(c, bps)
<1>1. a * bps \in Nat /\ c * bps \in Nat
  OBVIOUS
<1>2. a * bps <= c * bps
  BY Products
<1>3. 10000 \in Nat \ {0}
  OBVIOUS
<1>4. CeilDiv(a * bps, 10000) \in Nat /\ CeilDiv(c * bps, 10000) \in Nat
  BY <1>1, <1>3, CeilDivFacts
<1>5. CeilDiv(a * bps, 10000) <= CeilDiv(c * bps, 10000)
  BY <1>1, <1>2, <1>3, CeilDivGrows
<1> QED BY <1>4, <1>5 DEF FeeOf, BPS

LEMMA WithFeesGrows ==
  ASSUME NEW a \in Nat, NEW c \in Nat, a <= c, NEW fees \in FeeRates
  PROVE  /\ WithFees(a, fees) \in Nat /\ WithFees(c, fees) \in Nat
         /\ WithFees(a, fees) <= WithFees(c, fees)
<1>1. fees.lp \in Nat /\ fees.protocol \in Nat /\ fees.creator \in Nat
  BY DEF FeeRates
<1>2. /\ FeeOf(a, fees.lp) \in Nat /\ FeeOf(c, fees.lp) \in Nat
      /\ FeeOf(a, fees.lp) <= FeeOf(c, fees.lp)
  BY <1>1, FeeGrows
<1>3. /\ FeeOf(a, fees.protocol) \in Nat /\ FeeOf(c, fees.protocol) \in Nat
      /\ FeeOf(a, fees.protocol) <= FeeOf(c, fees.protocol)
  BY <1>1, FeeGrows
<1>4. /\ FeeOf(a, fees.creator) \in Nat /\ FeeOf(c, fees.creator) \in Nat
      /\ FeeOf(a, fees.creator) <= FeeOf(c, fees.creator)
  BY <1>1, FeeGrows
<1> QED BY <1>2, <1>3, <1>4 DEF WithFees

\* On either venue, to buy less costs no more, up to what the market holds.
LEMMA CostGrows ==
  ASSUME NEW v \in Markets, NEW o \in Nat, NEW p \in Nat, o <= p, p < v.base
  PROVE  /\ PoolCost(o, v) \in Nat /\ PoolCost(p, v) \in Nat /\ PoolCost(o, v) <= PoolCost(p, v)
         /\ CurveCost(o, v) \in Nat /\ CurveCost(p, v) \in Nat /\ CurveCost(o, v) <= CurveCost(p, v)
<1> DEFINE b == v.base - o  d == v.base - p
           x == v.quote * o  y == v.quote * p
<1>1. v.base \in Nat /\ v.quote \in Nat /\ v.fees \in FeeRates
  BY DEF Markets
<1>2. b \in Nat \ {0} /\ d \in Nat \ {0} /\ d <= b
  BY <1>1
<1>3. x \in Nat /\ y \in Nat /\ o * v.quote = x /\ p * v.quote = y
  BY <1>1
<1>4. x <= y
  BY <1>1, Products
<1>5. /\ PoolCost(o, v) = WithFees(CeilDiv(x, b), v.fees)
      /\ PoolCost(p, v) = WithFees(CeilDiv(y, d), v.fees)
      /\ CurveCost(o, v) = WithFees(x \div b + 1, v.fees)
      /\ CurveCost(p, v) = WithFees(y \div d + 1, v.fees)
  BY <1>3 DEF PoolCost, CurveCost
<1> HIDE DEF b, d, x, y
<1>6. CeilDiv(x, b) \in Nat /\ CeilDiv(y, d) \in Nat /\ CeilDiv(x, b) <= CeilDiv(y, d)
  BY <1>2, <1>3, <1>4, CeilDivFacts, CeilDivGrows
<1>7. x \div b \in Nat /\ y \div d \in Nat /\ x \div b <= y \div d
  BY <1>2, <1>3, <1>4, QuotientGrows
<1>8. x \div b + 1 \in Nat /\ y \div d + 1 \in Nat /\ x \div b + 1 <= y \div d + 1
  BY <1>7
<1> QED BY <1>1, <1>5, <1>6, <1>8, WithFeesGrows
--------------------------------------------------------------------------------
(* Quotes: what is asked for costs no more than its lot. *)

LEMMA MinOfTwo ==
  ASSUME NEW a \in Int, NEW b \in Int
  PROVE  Min({a, b}) \in {a, b} /\ Min({a, b}) <= a /\ Min({a, b}) <= b
<1>1. \E m \in {a, b} : \A k \in {a, b} : m <= k
  <2>1. CASE a <= b
    BY <2>1
  <2>2. CASE b <= a
    BY <2>2
  <2> QED BY <2>1, <2>2
<1> QED BY <1>1 DEF Min

LEMMA MaxOfTwo ==
  ASSUME NEW a \in Int, NEW b \in Int
  PROVE  Max({a, b}) \in {a, b}
<1>1. \E m \in {a, b} : \A k \in {a, b} : m >= k
  <2>1. CASE a >= b
    BY <2>1
  <2>2. CASE b >= a
    BY <2>2
  <2> QED BY <2>1, <2>2
<1> QED BY <1>1 DEF Max

\* Slippage takes some of it away.
LEMMA SlippedFacts ==
  ASSUME NEW out \in Nat, NEW slippage \in Nat, slippage < BPS
  PROVE  Slipped(out, slippage) \in Nat /\ Slipped(out, slippage) <= out
<1> DEFINE n == out * (10000 - slippage)  r == n \div 10000
<1>0. slippage < 10000
  BY DEF BPS
<1>1. 10000 - slippage \in Nat /\ 10000 - slippage <= 10000
  BY <1>0
<1>2. n \in Nat /\ n <= out * 10000
  BY <1>1, Products
<1> HIDE DEF n
<1>3. r \in Nat /\ 10000 * r <= n
  BY <1>2, Quotient
<1> HIDE DEF r
<1>4. r <= out
  BY <1>2, <1>3
<1> QED BY <1>3, <1>4 DEF Slipped, BPS, n, r

\* A pool never gives all it holds.
LEMMA ForQuoteFacts ==
  ASSUME NEW input \in Nat \ {0}, NEW v \in Markets
  PROVE  /\ ForQuote(input, v) \in Nat
         /\ ForQuote(input, v) > 0 => ForQuote(input, v) < v.base
<1> DEFINE b == v.base  d == v.quote + input  n == b * input  q == n \div d
<1>1. b \in Nat /\ v.quote \in Nat \ {0} /\ d \in Nat \ {0}
  BY DEF Markets
<1>2. n \in Nat
  BY <1>1
<1>3. q \in Nat /\ d * q <= n
  <2> HIDE DEF d, n
  <2>1. q \in Int /\ d * q <= n
    BY <1>1, <1>2, Quotient
  <2>2. n \div d \in Nat
    BY <1>1, <1>2
  <2> QED BY <2>1, <2>2
<1>4. q >= b => b = 0
  <2> SUFFICES ASSUME q >= b, b > 0 PROVE FALSE
    BY <1>1, <1>3
  <2>1. d * b <= d * q
    BY <1>1, <1>3, Products
  <2>2. d * b = v.quote * b + b * input
    BY <1>1
  <2>3. v.quote * b > 0
    BY <1>1
  <2>4. d * b \in Int /\ d * q \in Int /\ v.quote * b \in Int
    BY <1>1, <1>3
  <2> QED BY <1>2, <1>3, <2>1, <2>2, <2>3, <2>4
<1>5. b = 0 => q = 0
  <2> SUFFICES ASSUME b = 0 PROVE q = 0
    OBVIOUS
  <2>1. n = 0
    BY <1>1
  <2> HIDE DEF n, d
  <2> QED BY <1>1, <2>1
<1>6. ForQuote(input, v) = q
  BY DEF ForQuote
<1> HIDE DEF q
<1> QED BY <1>1, <1>3, <1>4, <1>5, <1>6

\* What remains for the market of a lot is a number.
LEMMA EffectiveType ==
  ASSUME NEW lot \in Int, NEW fees \in FeeRates
  PROVE  Effective(lot, fees) \in Int
<1>1. 10000 + fees.lp + fees.protocol + fees.creator \in Nat \ {0}
  BY DEF FeeRates
<1> QED BY <1>1, Quotient DEF Effective, BPS

\* What fits has a most.
LEMMA MostThatFits ==
  ASSUME NEW first \in Nat, NEW fits, fits \subseteq 0 .. first, 0 \in fits
  PROVE  \E m \in Nat : m = Max(fits) /\ m \in fits /\ m <= first
<1>1. Max(fits) \in fits
  BY MaxIsGreatest
<1>2. PICK m \in fits : m = Max(fits)
  BY <1>1
<1>3. m \in 0 .. first
  OBVIOUS
<1>4. m \in Nat /\ m <= first
  BY <1>3
<1> QED BY <1>2, <1>4

\* base_out_for_lot and amount_for_lot: a quote fits its lot.
LEMMA PoolLotFits ==
  ASSUME NEW lot \in Int, NEW v \in Markets, NEW slippage \in Nat, slippage < BPS, NEW out,
         out = PoolLot(lot, v, slippage)
  PROVE  /\ out \in Nat
         /\ out > 0 => out < v.base /\ PoolCost(out, v) \in Nat /\ PoolCost(out, v) <= lot
<1>1. v.fees \in FeeRates /\ v.base \in Nat /\ v.left \in Nat
  BY DEF Markets
<1>2. PICK input \in Int : input = Effective(lot, v.fees) - 1
  <2>1. Effective(lot, v.fees) - 1 \in Int
    BY <1>1, EffectiveType
  <2> QED BY <2>1
<1>3. CASE input < 1
  BY <1>2, <1>3 DEF PoolLot
<1>4. CASE ~(input < 1)
  <2>1. input \in Nat \ {0}
    BY <1>2, <1>4
  <2>2. PICK first \in Nat : first = ForQuote(input, v) /\ (first > 0 => first < v.base)
    BY <2>1, ForQuoteFacts
  <2>3. PICK fits : fits = PoolFits(lot, v, first)
    OBVIOUS
  <2>4. out = Slipped(Max(fits), slippage)
    BY <1>2, <1>4, <2>2, <2>3 DEF PoolLot
  <2>5. fits \subseteq 0 .. first /\ 0 \in fits
    BY <2>3 DEF PoolFits
  <2>6. PICK m \in Nat : m = Max(fits) /\ m \in fits /\ m <= first
    BY <2>5, MostThatFits
  <2>7. m = 0 \/ PoolCost(m, v) <= lot
    BY <2>3, <2>6 DEF PoolFits
  <2>8. out \in Nat /\ out <= m
    <3>1. out = Slipped(m, slippage)
      BY <2>4, <2>6
    <3> QED BY <3>1, SlippedFacts
  <2>10. ASSUME out > 0
         PROVE  out < v.base /\ PoolCost(out, v) \in Nat /\ PoolCost(out, v) <= lot
    <3>1. m > 0 /\ m <= first /\ first < v.base
      BY <2>2, <2>6, <2>8, <2>10
    <3>2. m < v.base /\ out < v.base
      BY <1>1, <2>8, <3>1
    <3>3. PoolCost(out, v) \in Nat /\ PoolCost(m, v) \in Nat /\ PoolCost(out, v) <= PoolCost(m, v)
      BY <2>8, <3>2, CostGrows
    <3> QED BY <2>7, <3>1, <3>2, <3>3
  <2> QED BY <2>8, <2>10
<1> QED BY <1>3, <1>4

LEMMA CurveLotFits ==
  ASSUME NEW lot \in Int, NEW v \in Markets, NEW slippage \in Nat, slippage < BPS, NEW out,
         out = CurveLot(lot, v, slippage)
  PROVE  /\ out \in Nat
         /\ out > 0 => out < v.base /\ CurveCost(out, v) \in Nat /\ CurveCost(out, v) <= lot
<1>1. v.fees \in FeeRates /\ v.base \in Nat /\ v.left \in Nat
  BY DEF Markets
<1>2. PICK input \in Int : input = Effective(lot, v.fees) - 1
  <2>1. Effective(lot, v.fees) - 1 \in Int
    BY <1>1, EffectiveType
  <2> QED BY <2>1
<1>3. CASE input <= 1
  BY <1>2, <1>3 DEF CurveLot
<1>4. CASE ~(input <= 1)
  <2>1. input \in Nat \ {0}
    BY <1>2, <1>4
  <2>2. PICK most \in Nat : most = ForQuote(input, v) /\ (most > 0 => most < v.base)
    BY <2>1, ForQuoteFacts
  <2>9. PICK first \in Nat : first = Min({most, v.left}) /\ (first > 0 => first < v.base)
    <3>1. most \in Int /\ v.left \in Int
      BY <1>1, <2>2
    <3>2. PICK first \in {most, v.left} : first = Min({most, v.left}) /\ first <= most
      BY <3>1, MinOfTwo
    <3>3. first \in Nat /\ (first > 0 => first < v.base)
      BY <1>1, <2>2, <3>2
    <3> QED BY <3>2, <3>3
  <2>3. PICK fits : fits = CurveFits(lot, v, first)
    OBVIOUS
  <2>4. out = Slipped(Max(fits), slippage)
    BY <1>2, <1>4, <2>2, <2>9, <2>3 DEF CurveLot
  <2>5. fits \subseteq 0 .. first /\ 0 \in fits
    BY <2>3 DEF CurveFits
  <2>6. PICK m \in Nat : m = Max(fits) /\ m \in fits /\ m <= first
    BY <2>5, MostThatFits
  <2>7. m = 0 \/ CurveCost(m, v) <= lot
    BY <2>3, <2>6 DEF CurveFits
  <2>8. out \in Nat /\ out <= m
    <3>1. out = Slipped(m, slippage)
      BY <2>4, <2>6
    <3> QED BY <3>1, SlippedFacts
  <2>10. ASSUME out > 0
         PROVE  out < v.base /\ CurveCost(out, v) \in Nat /\ CurveCost(out, v) <= lot
    <3>1. m > 0 /\ m <= first /\ first < v.base
      BY <2>9, <2>6, <2>8, <2>10
    <3>2. m < v.base /\ out < v.base
      BY <1>1, <2>8, <3>1
    <3>3. CurveCost(out, v) \in Nat /\ CurveCost(m, v) \in Nat /\ CurveCost(out, v) <= CurveCost(m, v)
      BY <2>8, <3>2, CostGrows
    <3> QED BY <2>7, <3>1, <3>2, <3>3
  <2> QED BY <2>8, <2>10
<1> QED BY <1>3, <1>4

--------------------------------------------------------------------------------
(* What may be offered, of every quote. *)

ClaimTx == [tier : Tiers, held : Int, out : Int]
PayTx == [coin : Set, transfer : BOOLEAN]
BuyTx == [out : Int, cost : Int, lot : Int, bound : Int, curve : BOOLEAN]

\* A quote that fits its lot.
Fits(tx) == tx \in BuyTx /\ tx.out > 0 /\ tx.cost <= tx.lot

LEMMA BuysFits ==
  ASSUME NEW out \in Int, NEW cost \in Int, NEW lot \in Int, NEW bound \in Int,
         NEW curve \in BOOLEAN,
         out > 0, cost <= lot, NEW tx, tx = Buys(out, cost, lot, bound, curve)
  PROVE  Fits(tx) /\ tx.bound = bound
<1>1. tx = [out |-> out, cost |-> cost, lot |-> lot, bound |-> bound, curve |-> curve]
  BY DEF Buys
<1>2. tx.out = out /\ tx.cost = cost /\ tx.lot = lot /\ tx.bound = bound
  BY <1>1
<1>3. tx \in BuyTx
  BY <1>1 DEF BuyTx
<1> QED BY <1>2, <1>3 DEF Fits

LEMMA Constants ==
  /\ BPS \in Nat \ {0} /\ 0 < BPS
  /\ Slippage \in Nat /\ Slippage < BPS
  /\ DevSlippage \in Nat /\ DevSlippage < BPS
  /\ Lot \in Nat /\ MinLot \in Nat /\ Reserve \in Nat /\ MinClaim \in Nat /\ Fee \in Nat
<1>1. BPS \in Nat \ {0} /\ 0 < BPS
  BY DEF BPS
<1>2. Slippage \in 0 .. BPS - 1 /\ DevSlippage \in 0 .. BPS - 1
  BY KeepersAssumption, BuyersAssumption
<1>3. Lot \in Nat /\ MinLot \in Nat /\ Reserve \in Nat /\ MinClaim \in Nat /\ Fee \in Nat
  BY KeepersAssumption
<1> QED BY <1>1, <1>2, <1>3

\* Of a keeper: at most the lot, at the reserves it read.
LEMMA QuoteFits ==
  ASSUME NEW lot \in Int, NEW balance, NEW venue \in Venues, NEW tx \in Quote(lot, balance, venue)
  PROVE  Fits(tx) /\ tx.bound = lot
<1>1. venue \in Markets
  BY KeepersAssumption
<1>2. ASSUME venue.curve
      PROVE \E o, c \in Int, f \in BOOLEAN : tx = Buys(o, c, lot, lot, f) /\ o > 0 /\ c <= lot
  <2>1. PICK out : /\ out = CurveLot(lot, venue, Slippage) /\ out > 0
                   /\ tx = Buys(out, CurveCost(out, venue), lot, lot, TRUE)
    BY <1>2 DEF Quote, CurveQuote
  <2>2. out \in Nat /\ CurveCost(out, venue) \in Nat /\ CurveCost(out, venue) <= lot
    BY <1>1, <2>1, Constants, CurveLotFits
  <2>3. CurveCost(out, venue) \in Int /\ out \in Int
    BY <2>2
  <2> QED BY <2>1, <2>2, <2>3, Zenon
<1>3. ASSUME ~venue.curve
      PROVE \E o, c \in Int, f \in BOOLEAN : tx = Buys(o, c, lot, lot, f) /\ o > 0 /\ c <= lot
  <2>1. PICK out : /\ out = PoolLot(lot, venue, Slippage) /\ out > 0
                   /\ tx = Buys(out, PoolCost(out, venue), lot, lot, FALSE)
    BY <1>3 DEF Quote, PoolQuote
  <2>2. out \in Nat /\ PoolCost(out, venue) \in Nat /\ PoolCost(out, venue) <= lot
    BY <1>1, <2>1, Constants, PoolLotFits
  <2>3. PoolCost(out, venue) \in Int /\ out \in Int
    BY <2>2
  <2> QED BY <2>1, <2>2, <2>3, Zenon
<1>5. PICK out, cost \in Int, curve \in BOOLEAN :
         tx = Buys(out, cost, lot, lot, curve) /\ out > 0 /\ cost <= lot
  BY <1>2, <1>3
<1> QED BY <1>5, BuysFits

\* Of a person: at most what was typed.
LEMMA SiteBuyFits ==
  ASSUME NEW lot \in Int, NEW slippage \in Int, NEW venue \in Venues, NEW tx \in SiteBuy(lot, slippage, venue)
  PROVE  Fits(tx)
<1>1. venue \in Markets
  BY KeepersAssumption
<1>2. MaxCost(lot, slippage) \in Int
  <2>1. lot * slippage \in Int
    OBVIOUS
  <2>2. (lot * slippage) \div BPS \in Int
    BY <2>1, Constants, Quotient
  <2> QED BY <2>2 DEF MaxCost
<1>3. ASSUME venue.curve
      PROVE \E o, c \in Int, f \in BOOLEAN : tx = Buys(o, c, lot, MaxCost(lot, slippage), f) /\ o > 0 /\ c <= lot
  <2>1. PICK out : /\ out = CurveLot(lot, venue, 0) /\ out > 0
                   /\ tx = Buys(out, CurveCost(out, venue), lot, MaxCost(lot, slippage), TRUE)
    BY <1>3 DEF SiteBuy, CurveBuy
  <2>2. out \in Nat /\ CurveCost(out, venue) \in Nat /\ CurveCost(out, venue) <= lot
    BY <1>1, <2>1, Constants, CurveLotFits
  <2>3. CurveCost(out, venue) \in Int /\ out \in Int
    BY <2>2
  <2> QED BY <2>1, <2>2, <2>3, Zenon
<1>4. ASSUME ~venue.curve
      PROVE \E o, c \in Int, f \in BOOLEAN : tx = Buys(o, c, lot, MaxCost(lot, slippage), f) /\ o > 0 /\ c <= lot
  <2>1. PICK out : /\ out = PoolLot(lot, venue, 0) /\ out > 0
                   /\ tx = Buys(out, PoolCost(out, venue), lot, MaxCost(lot, slippage), FALSE)
    BY <1>4 DEF SiteBuy, AmmBuy
  <2>2. out \in Nat /\ PoolCost(out, venue) \in Nat /\ PoolCost(out, venue) <= lot
    BY <1>1, <2>1, Constants, PoolLotFits
  <2>3. PoolCost(out, venue) \in Int /\ out \in Int
    BY <2>2
  <2> QED BY <2>1, <2>2, <2>3, Zenon
<1>5. PICK out, cost \in Int, curve \in BOOLEAN :
         tx = Buys(out, cost, lot, MaxCost(lot, slippage), curve) /\ out > 0 /\ cost <= lot
  BY <1>3, <1>4
<1> QED BY <1>2, <1>5, BuysFits

LEMMA DevBuyFits ==
  ASSUME NEW lot \in Int, NEW fresh \in Fresh, NEW tx \in DevBuy(lot, fresh)
  PROVE  Fits(tx)
<1>1. fresh \in Markets
  <2>1. PICK fees \in FreshFees : fresh = FreshCurve(fees)
    BY DEF Fresh
  <2>2. fees \in FeeRates /\ NewCurve.base \in Nat /\ NewCurve.quote \in Nat \ {0} /\ NewCurve.left \in Nat
    BY BuyersAssumption
  <2> QED BY <2>1, <2>2 DEF FreshCurve, Markets
<1>2. PICK out : /\ out = CurveLot(lot, fresh, DevSlippage) /\ out > 0
                 /\ tx = Buys(out, CurveCost(out, fresh), lot, lot, TRUE)
  BY DEF DevBuy
<1>3. out \in Nat /\ CurveCost(out, fresh) \in Nat /\ CurveCost(out, fresh) <= lot
  BY <1>1, <1>2, Constants, CurveLotFits
<1>4. CurveCost(out, fresh) \in Int /\ out \in Int
  BY <1>3
<1> QED BY <1>2, <1>3, <1>4, BuysFits

\* What a landed buy took is a number of lamports.
LEMMA TakesType ==
  ASSUME NEW tx, Fits(tx), NEW balance, NEW venues, venues \subseteq Markets,
         NEW cost \in Takes(tx, balance, venues)
  PROVE  cost \in Nat
<1>1. PICK v \in venues : v.base > tx.out /\ cost = Cost(tx.out, v)
  BY DEF Takes, TakesBare
<1>2. v \in Markets /\ tx.out \in Nat /\ v.base \in Nat
  BY DEF Fits, BuyTx, Markets
<1>3. PoolCost(tx.out, v) \in Nat /\ CurveCost(tx.out, v) \in Nat
  BY <1>1, <1>2, CostGrows
<1> QED BY <1>1, <1>3 DEF Cost

\* quote_out, and what the pool pays: numbers, whatever is held.
LEMMA CpmmFeeType ==
  ASSUME NEW amount \in Int, NEW rate \in Int
  PROVE  CpmmFee(amount, rate) \in Int
<1>1. Million \in Nat \ {0} /\ -(amount * rate) \in Int
  BY DEF Million
<1>2. (-(amount * rate)) \div Million \in Int
  BY <1>1, Quotient
<1> QED BY <1>2 DEF CpmmFee, CeilDiv

LEMMA SwapTypes ==
  ASSUME NEW held \in Int, NEW pool \in Pools
  PROVE  SwapOut(held, pool) \in Int /\ SwapPays(held, pool) \in Int
<1>1. /\ pool.in \in Nat \ {0} /\ pool.out \in Nat \ {0} /\ pool.onInput \in BOOLEAN
      /\ pool.rate \in Int /\ pool.creator \in Int
  <2>1. pool \in CpmmPools
    BY KeepersAssumption
  <2>2. Million \in Nat
    BY DEF Million
  <2> QED BY <2>1, <2>2 DEF CpmmPools
<1>2. ASSUME NEW net \in Int PROVE ProductOut(net, pool.in, pool.out) \in Int
  <2>1. CASE net <= 0
    BY <2>1 DEF ProductOut
  <2>2. CASE ~(net <= 0)
    <3>1. pool.in + net \in Nat \ {0} /\ pool.out * net \in Int
      BY <1>1, <2>2
    <3>2. (pool.out * net) \div (pool.in + net) \in Int
      BY <3>1, Quotient
    <3> QED BY <2>2, <3>2 DEF ProductOut
  <2> QED BY <2>1, <2>2
<1>3. ASSUME NEW kept \in Int PROVE Slipped(kept, Slippage) \in Int
  <2>1. kept * (BPS - Slippage) \in Int
    BY Constants
  <2>2. (kept * (BPS - Slippage)) \div BPS \in Int
    BY <2>1, Constants, Quotient
  <2> QED BY <2>2 DEF Slipped
<1>4. SwapOut(held, pool) \in Int
  <2>1. PICK net \in Int : net = held - CpmmFee(held, pool.rate)
                                       - (IF pool.onInput THEN CpmmFee(held, pool.creator) ELSE 0)
    <3>1. CpmmFee(held, pool.rate) \in Int /\ CpmmFee(held, pool.creator) \in Int
      BY <1>1, CpmmFeeType
    <3> QED BY <3>1
  <2>2. PICK out \in Int : out = ProductOut(net, pool.in, pool.out)
    BY <1>2
  <2>3. PICK kept \in Int : kept = out - (IF pool.onInput THEN 0 ELSE CpmmFee(out, pool.creator))
    <3>1. CpmmFee(out, pool.creator) \in Int
      BY <1>1, CpmmFeeType
    <3> QED BY <3>1
  <2>4. SwapOut(held, pool) = Slipped(kept, Slippage)
    BY <2>1, <2>2, <2>3 DEF SwapOut, QuoteOut
  <2> QED BY <1>3, <2>4
<1>5. SwapPays(held, pool) \in Int
  <2>1. PICK net \in Int : net = held - CpmmFee(held, IF pool.onInput THEN pool.rate + pool.creator ELSE pool.rate)
    <3>1. (IF pool.onInput THEN pool.rate + pool.creator ELSE pool.rate) \in Int
      BY <1>1
    <3>2. CpmmFee(held, IF pool.onInput THEN pool.rate + pool.creator ELSE pool.rate) \in Int
      BY <3>1, CpmmFeeType
    <3> QED BY <3>2
  <2>2. PICK out \in Int : out = ProductOut(net, pool.in, pool.out)
    BY <1>2
  <2>3. CpmmFee(out, pool.creator) \in Int
    BY <1>1, CpmmFeeType
  <2>4. SwapPays(held, pool) = out - (IF pool.onInput THEN 0 ELSE CpmmFee(out, pool.creator))
    BY <2>1, <2>2 DEF SwapPays, CpmmPays
  <2> QED BY <2>3, <2>4
<1> QED BY <1>4, <1>5

--------------------------------------------------------------------------------
(* The invariant of the keepers.  Amounts are numbers, and what the cycles     *)
(* left the fee wallet is no debt; a keeper's transaction, from the sending    *)
(* until it is decided, is the one its plan made; and what the treasury is     *)
(* sent to spend is within the credit of the coin it is sent for.              *)

CoinRecords == [vault : Int, amm : Int, graduated : BOOLEAN]
LedgerRecords == [credited : Int, debited : Int, payouts : Int]

MoneyOK ==
    /\ coins \in [Set -> CoinRecords]
    /\ platform \in [Tiers -> [vault : Int, account : Int]]
    /\ purse \in [fee : Nat, toll : Int, treasury : Int]
    /\ ledger \in [Set -> LedgerRecords]

\* What each keeper may have sent.
TxOK(k, tx) ==
    /\ k = "distribute" => tx \in PayTx
    /\ k = "platform" => tx \in ClaimTx /\ (tx.tier = "sol" => tx.out = tx.held)
    /\ k \in {"charlie", "launch", "buyer"} => Fits(tx)

Shape(run) ==
    run = [at |-> run.at, state |-> run.state, tx |-> run.tx, todo |-> run.todo,
           loop |-> run.loop, lot |-> run.lot, spent |-> run.spent, failures |-> run.failures]

RunOK(k, run) ==
    /\ Shape(run) /\ run.lot \in Int /\ run.todo \in Seq(Set)
    /\ run.at = "sent" \/ run.state = "flying" => TxOK(k, run.tx)
    /\ k \in {"distribute", "launch"} /\ run.at = "sent" => run.todo # <<>>

JobsOK == job = [k \in Runs |-> job[k]] /\ \A k \in Runs : RunOK(k, job[k])

CreditOK == job["launch"].at = "sent" => job["launch"].tx.bound <= Available(Bought)

KeepersInv == MoneyOK /\ JobsOK /\ CreditOK

--------------------------------------------------------------------------------
(* Runs. *)

LEMMA RunsAre ==
  /\ "distribute" \in Runs /\ "platform" \in Runs /\ "charlie" \in Runs
  /\ "launch" \in Runs /\ "buyer" \in Runs
BY DEF Runs

LEMMA IdleIs ==
  Shape(Idle) /\ Idle.lot = 0 /\ Idle.todo = <<>> /\ Idle.at = "idle" /\ Idle.state = "none"
BY DEF Idle, Shape

LEMMA IdleOK == ASSUME NEW k PROVE RunOK(k, Idle) /\ Idle.at = "idle"
BY IdleIs DEF RunOK

\* A run that is put in the place of another.
LEMMA RunReplaced ==
  ASSUME JobsOK, NEW k \in Runs, NEW run, RunOK(k, run), job' = [job EXCEPT ![k] = run]
  PROVE  JobsOK' /\ job'[k] = run /\ \A l \in Runs : l # k => job'[l] = job[l]
<1>1. job'[k] = run /\ (\A l \in Runs : l # k => job'[l] = job[l])
  BY DEF JobsOK
<1>2. job' = [l \in Runs |-> job'[l]]
  BY DEF JobsOK
<1>3. \A l \in Runs : RunOK(l, job'[l])
  BY <1>1 DEF JobsOK
<1>4. JobsOK'
  <2>1. (\A l \in Runs : RunOK(l, job[l]))' <=> \A l \in Runs : RunOK(l, job'[l])
    BY DEF RunOK, TxOK, Shape, Fits, BuyTx, PayTx, ClaimTx
  <2> QED BY <1>2, <1>3, <2>1 DEF JobsOK
<1> QED BY <1>1, <1>4

\* Rest, of a run that is done or one that is decided.
LEMMA RestOK ==
  ASSUME NEW k, NEW run, RunOK(k, run)
  PROVE  /\ RunOK(k, Rest(run)) /\ Rest(run).at = run.at
         /\ Rest(run).at = "sent" => Rest(run) = run
<1>1. CASE Rest(run) = Idle /\ run.at = "idle"
  BY <1>1, IdleOK
<1>2. CASE Rest(run) = run
  BY <1>2
<1> QED BY <1>1, <1>2 DEF Rest

LEMMA StopsOK ==
  ASSUME JobsOK, NEW k \in Runs, Stops(k)
  PROVE  JobsOK' /\ job'[k].at = "idle" /\ \A l \in Runs : l # k => job'[l] = job[l]
<1> DEFINE run == [job[k] EXCEPT !.at = "idle"]
<1>1. RunOK(k, job[k])
  BY DEF JobsOK
<1>2. /\ run.at = "idle" /\ run.state = job[k].state /\ run.tx = job[k].tx /\ run.lot = job[k].lot
      /\ run.todo = job[k].todo /\ Shape(run)
  BY <1>1 DEF RunOK, Shape
<1>3. RunOK(k, run)
  <2> HIDE DEF run
  <2> QED BY <1>1, <1>2 DEF RunOK
<1>4. job' = [job EXCEPT ![k] = Rest(run)]
  BY DEF Stops
<1> HIDE DEF run
<1>5. RunOK(k, Rest(run)) /\ Rest(run).at = "idle"
  BY <1>2, <1>3, RestOK
<1> QED BY <1>4, <1>5, RunReplaced

\* What became of a transaction changes nothing else of the run that sent it.
LEMMA DecidedOK ==
  ASSUME JobsOK, NEW k \in Runs, NEW how \in {"landed", "dead"}, Decided(k, how)
  PROVE  /\ JobsOK' /\ \A l \in Runs : l # k => job'[l] = job[l]
         /\ job'[k].at = "sent" => /\ job[k].at = "sent" /\ job'[k].tx = job[k].tx
                                  /\ job'[k].todo = job[k].todo
<1> DEFINE run == [job[k] EXCEPT !.state = how]
<1>1. RunOK(k, job[k])
  BY DEF JobsOK
<1>2. /\ run.at = job[k].at /\ run.state = how /\ run.tx = job[k].tx /\ run.lot = job[k].lot
      /\ run.todo = job[k].todo /\ Shape(run)
  BY <1>1 DEF RunOK, Shape
<1>3. RunOK(k, run)
  <2> HIDE DEF run
  <2> QED BY <1>1, <1>2 DEF RunOK
<1>4. job' = [job EXCEPT ![k] = Rest(run)]
  BY DEF Decided
<1> HIDE DEF run
<1>5. RunOK(k, Rest(run)) /\ Rest(run).at = run.at /\ (Rest(run).at = "sent" => Rest(run) = run)
  BY <1>3, RestOK
<1>6. JobsOK' /\ job'[k] = Rest(run) /\ \A l \in Runs : l # k => job'[l] = job[l]
  BY <1>4, <1>5, RunReplaced
<1> QED BY <1>2, <1>5, <1>6

LEMMA SendsOK ==
  ASSUME JobsOK, NEW k \in Runs, k # "launch", k = "distribute" => job[k].todo # <<>>,
         NEW tx, TxOK(k, tx), Sends(k, tx)
  PROVE  JobsOK' /\ job'[k].tx = tx /\ \A l \in Runs : l # k => job'[l] = job[l]
<1> DEFINE run == [job[k] EXCEPT !.at = "sent", !.state = "flying", !.tx = tx]
<1>1. RunOK(k, job[k])
  BY DEF JobsOK
<1>2. /\ run.at = "sent" /\ run.state = "flying" /\ run.tx = tx /\ run.lot = job[k].lot
      /\ run.todo = job[k].todo /\ Shape(run)
  <2> DEFINE r1 == [job[k] EXCEPT !.at = "sent"]  r2 == [r1 EXCEPT !.state = "flying"]
  <2>1. /\ r1.at = "sent" /\ r1.lot = job[k].lot /\ r1.todo = job[k].todo /\ Shape(r1)
    BY <1>1 DEF RunOK, Shape
  <2>2. run = [r2 EXCEPT !.tx = tx]
    OBVIOUS
  <2> HIDE DEF r1, run
  <2>3. /\ r2.at = "sent" /\ r2.state = "flying" /\ r2.lot = job[k].lot /\ r2.todo = job[k].todo
        /\ Shape(r2)
    BY <2>1 DEF Shape
  <2> HIDE DEF r2
  <2> QED BY <2>2, <2>3 DEF Shape
<1>3. job' = [job EXCEPT ![k] = run]
  BY DEF Sends, JobsOK
<1>4. RunOK(k, run)
  <2> HIDE DEF run
  <2> QED BY <1>1, <1>2 DEF RunOK
<1> HIDE DEF run
<1> QED BY <1>2, <1>3, <1>4, RunReplaced

--------------------------------------------------------------------------------
(* The steps. *)

\* The credit holds as long as the treasury's run is what it was and no coin's
\* credit shrinks.
LEMMA CreditKept ==
  ASSUME MoneyOK, JobsOK, CreditOK,
         job'["launch"].at = "sent" =>
             /\ job["launch"].at = "sent" /\ job'["launch"].tx = job["launch"].tx
             /\ job'["launch"].todo = job["launch"].todo,
         \A c \in Set : /\ ledger'[c].credited \in Int /\ ledger'[c].debited \in Int
                        /\ ledger'[c].credited - ledger'[c].debited >= Available(c)
  PROVE  CreditOK'
<1> SUFFICES ASSUME job'["launch"].at = "sent"
             PROVE  job'["launch"].tx.bound <= ledger'[Head(job'["launch"].todo)].credited
                                                 - ledger'[Head(job'["launch"].todo)].debited
  BY DEF CreditOK, Available, Bought
<1> DEFINE c == Head(job["launch"].todo)  bound == job["launch"].tx.bound
<1>1. RunOK("launch", job["launch"])
  BY RunsAre DEF JobsOK
<1>2. c \in Set
  BY <1>1 DEF RunOK
<1>3. bound \in Int
  BY <1>1 DEF RunOK, TxOK, Fits, BuyTx
<1>4. bound <= Available(c) /\ Available(c) \in Int
  BY <1>2 DEF CreditOK, Bought, Available, MoneyOK, LedgerRecords
<1> HIDE DEF c, bound
<1>5. bound <= ledger'[c].credited - ledger'[c].debited
  BY <1>2, <1>3, <1>4
<1> QED BY <1>5 DEF c, bound

LEMMA CreditUnchanged ==
  ASSUME MoneyOK, JobsOK, CreditOK, ledger' = ledger,
         job'["launch"].at = "sent" =>
             /\ job["launch"].at = "sent" /\ job'["launch"].tx = job["launch"].tx
             /\ job'["launch"].todo = job["launch"].todo
  PROVE  CreditOK'
<1>1. \A c \in Set : /\ ledger'[c].credited \in Int /\ ledger'[c].debited \in Int
                     /\ ledger'[c].credited - ledger'[c].debited >= Available(c)
  BY DEF MoneyOK, LedgerRecords, Available
<1> QED BY <1>1, CreditKept

\* A step that leaves the runs, and the money, alone.
LEMMA SameJobs ==
  ASSUME JobsOK, UNCHANGED job
  PROVE  JobsOK'
BY DEF JobsOK, RunOK, TxOK, Shape, Fits, BuyTx, PayTx, ClaimTx

LEMMA SameMoney ==
  ASSUME MoneyOK, UNCHANGED <<coins, platform, purse, ledger>>
  PROVE  MoneyOK'
BY DEF MoneyOK

\* A run other than the treasury's changes, and nothing else.
LEMMA OtherRun ==
  ASSUME KeepersInv, NEW k \in Runs, k # "launch", JobsOK',
         \A l \in Runs : l # k => job'[l] = job[l],
         UNCHANGED <<coins, platform, purse, ledger>>
  PROVE  KeepersInv'
<1>1. job'["launch"] = job["launch"]
  BY RunsAre
<1>2. CreditOK'
  BY <1>1, CreditUnchanged DEF KeepersInv
<1> QED BY <1>2, SameMoney DEF KeepersInv

\* distribute_creator_fees: what reaches the vault is split, or stays.
LEMMA DistributedOK ==
  ASSUME MoneyOK, NEW c \in Set, NEW transfer \in BOOLEAN, Distributed(c, transfer),
         UNCHANGED platform
  PROVE  /\ MoneyOK'
         /\ \A d \in Set : /\ ledger'[d].credited = ledger[d].credited
                          /\ ledger'[d].debited = ledger[d].debited
<1> DEFINE reach == Reach(c, transfer)  half == reach \div 2
           left == IF transfer THEN 0 ELSE coins[c].amm
<1>1. reach \in Int /\ half \in Int /\ left \in Int
  <2>1. coins[c].vault \in Int /\ coins[c].amm \in Int
    BY DEF MoneyOK, CoinRecords
  <2>2. reach \in Int /\ left \in Int
    BY <2>1 DEF Reach
  <2> HIDE DEF reach
  <2> QED BY <2>2
<1>2. \/ /\ coins' = [coins EXCEPT ![c].vault = reach, ![c].amm = left]
         /\ UNCHANGED <<purse, ledger>>
      \/ /\ coins' = [coins EXCEPT ![c].vault = 0, ![c].amm = left]
         /\ purse' = [purse EXCEPT !.toll = @ + half, !.treasury = @ + half]
         /\ ledger' = [ledger EXCEPT ![c].payouts = @ + half]
  BY DEF Distributed
<1> HIDE DEF reach, half, left
<1>3. coins' \in [Set -> CoinRecords]
  <2>1. ASSUME NEW n \in Int
        PROVE  [coins EXCEPT ![c].vault = n, ![c].amm = left] \in [Set -> CoinRecords]
    BY <1>1 DEF MoneyOK, CoinRecords
  <2>2. 0 \in Int
    OBVIOUS
  <2> QED BY <1>1, <1>2, <2>1, <2>2
<1>4. purse' \in [fee : Nat, toll : Int, treasury : Int]
  <2>1. [purse EXCEPT !.toll = @ + half, !.treasury = @ + half] \in [fee : Nat, toll : Int, treasury : Int]
    <3> DEFINE first == [purse EXCEPT !.toll = @ + half]
    <3>1. purse.toll + half \in Int /\ purse.treasury + half \in Int
      BY <1>1 DEF MoneyOK
    <3>2. first \in [fee : Nat, toll : Int, treasury : Int] /\ first.treasury = purse.treasury
      BY <3>1 DEF MoneyOK
    <3>3. [purse EXCEPT !.toll = @ + half, !.treasury = @ + half]
            = [first EXCEPT !.treasury = purse.treasury + half]
      BY DEF MoneyOK
    <3> HIDE DEF first
    <3> QED BY <3>1, <3>2, <3>3
  <2> QED BY <1>2, <2>1 DEF MoneyOK
<1>5. /\ ledger' \in [Set -> LedgerRecords]
      /\ \A d \in Set : /\ ledger'[d].credited = ledger[d].credited
                       /\ ledger'[d].debited = ledger[d].debited
  <2>1. CASE UNCHANGED ledger
    BY <2>1 DEF MoneyOK
  <2>2. CASE ledger' = [ledger EXCEPT ![c].payouts = @ + half]
    <3>1. ledger[c].payouts + half \in Int
      BY <1>1 DEF MoneyOK, LedgerRecords
    <3> QED BY <2>2, <3>1 DEF MoneyOK, LedgerRecords
  <2> QED BY <1>2, <2>1, <2>2
<1> QED BY <1>3, <1>4, <1>5 DEF MoneyOK

LEMMA ElsewhereOK ==
  ASSUME KeepersInv, Elsewhere
  PROVE  KeepersInv'
<1>1. ASSUME NEW c \in Set, Accrues(c) PROVE KeepersInv'
  <2>1. coins' \in [Set -> CoinRecords]
    <3>1. coins[c].vault + Fee \in Int /\ coins[c].amm + Fee \in Int
      BY Constants DEF KeepersInv, MoneyOK, CoinRecords
    <3> QED BY <1>1, <3>1 DEF Accrues, KeepersInv, MoneyOK, CoinRecords
  <2> QED BY <1>1, <2>1, SameJobs, CreditUnchanged DEF Accrues, KeepersInv, MoneyOK
<1>2. ASSUME NEW c \in Set, Graduates(c) PROVE KeepersInv'
  <2>1. coins' \in [Set -> CoinRecords]
    BY <1>2 DEF Graduates, KeepersInv, MoneyOK, CoinRecords
  <2> QED BY <1>2, <2>1, SameJobs, CreditUnchanged DEF Graduates, KeepersInv, MoneyOK
<1>3. ASSUME NEW c \in Set, Anybody(c) PROVE KeepersInv'
  <2>1. coins[c].graduated \in BOOLEAN
    BY DEF KeepersInv, MoneyOK, CoinRecords
  <2>2. /\ MoneyOK'
        /\ \A d \in Set : /\ ledger'[d].credited = ledger[d].credited
                         /\ ledger'[d].debited = ledger[d].debited
    BY <1>3, <2>1, DistributedOK DEF Anybody, KeepersInv
  <2>3. CreditOK'
    BY <1>3, <2>2, CreditKept DEF Anybody, KeepersInv, MoneyOK, LedgerRecords, Available
  <2> QED BY <1>3, <2>2, <2>3, SameJobs DEF Anybody, KeepersInv
<1>4. ASSUME NEW tier \in Tiers, KeptByHand(tier) PROVE KeepersInv'
  <2>1. platform' \in [Tiers -> [vault : Int, account : Int]]
    BY <1>4 DEF KeptByHand, KeepersInv, MoneyOK
  <2> QED BY <1>4, <2>1, SameJobs, CreditUnchanged DEF KeptByHand, KeepersInv, MoneyOK
<1>5. ASSUME NEW tier \in Tiers, NEW pot \in {"vault", "account"}, PlatformAccrues(tier, pot)
      PROVE KeepersInv'
  <2>1. platform' \in [Tiers -> [vault : Int, account : Int]]
    <3>1. platform[tier].vault + MinClaim \in Int /\ platform[tier].account + MinClaim \in Int
      BY Constants DEF KeepersInv, MoneyOK
    <3> QED BY <1>5, <3>1 DEF PlatformAccrues, KeepersInv, MoneyOK
  <2> QED BY <1>5, <2>1, SameJobs, CreditUnchanged DEF PlatformAccrues, KeepersInv, MoneyOK
<1> QED BY <1>1, <1>2, <1>3, <1>4, <1>5 DEF Elsewhere

LEMMA DistributeOK ==
  ASSUME KeepersInv, Distribute \/ LandsDistribute
  PROVE  KeepersInv'
<1> DEFINE K == "distribute"
<1> USE RunsAre
<1>1. /\ JobsOK /\ MoneyOK /\ CreditOK /\ RunOK(K, job[K]) /\ Todo \in Seq(Set)
  BY DEF KeepersInv, JobsOK, RunOK, Todo
<1>2. CASE StartDistribute
  <2> DEFINE first == [job[K] EXCEPT !.at = "next"]  run == [first EXCEPT !.todo = Coins]
  <2>1. first.at = "next" /\ first.lot = job[K].lot /\ first.state = job[K].state /\ Shape(first)
    BY <1>1 DEF RunOK, Shape
  <2>2. job' = [job EXCEPT ![K] = run]
    BY <1>1, <1>2 DEF StartDistribute, JobsOK
  <2>3. job[K] = Idle
    BY <1>2 DEF StartDistribute, Free
  <2> HIDE DEF first
  <2>4. /\ run.at = "next" /\ run.lot = job[K].lot /\ run.state = job[K].state /\ run.todo = Coins
        /\ Shape(run)
    BY <2>1 DEF Shape
  <2> HIDE DEF run
  <2>5. Coins \in Seq(Set)
    BY KeepersAssumption DEF Set
  <2>6. RunOK(K, run)
    BY <1>1, <2>3, <2>4, <2>5 DEF RunOK, Idle
  <2>7. JobsOK' /\ \A l \in Runs : l # K => job'[l] = job[l]
    BY <1>1, <2>2, <2>6, RunReplaced
  <2> QED BY <1>2, <2>7, OtherRun DEF StartDistribute
<1>3. ASSUME Passes, Todo # <<>>, UNCHANGED <<coins, platform, purse, ledger>> PROVE KeepersInv'
  <2>2. PICK rest \in Seq(Set) : rest = Tail(Todo)
    <3>1. Tail(Todo) \in Seq(Set)
      BY <1>1, <1>3
    <3> QED BY <3>1, Zenon
  <2> DEFINE first == [Idle EXCEPT !.at = "next"]  run == [first EXCEPT !.todo = rest]
  <2>1. job' = [job EXCEPT ![K] = run]
    BY <1>3, <2>2 DEF Passes
  <2>3. first.at = "next" /\ first.lot = 0 /\ first.state = "none" /\ Shape(first)
    BY IdleIs DEF Shape
  <2> HIDE DEF first
  <2>4. run.at = "next" /\ run.lot = 0 /\ run.state = "none" /\ run.todo = rest /\ Shape(run)
    BY <2>3 DEF Shape
  <2> HIDE DEF run
  <2>5. RunOK(K, run)
    BY <2>2, <2>4 DEF RunOK
  <2>6. JobsOK' /\ \A l \in Runs : l # K => job'[l] = job[l]
    BY <1>1, <2>1, <2>5, RunReplaced
  <2> QED BY <1>3, <2>6, OtherRun
<1>4. CASE Skips
  BY <1>3, <1>4 DEF Skips
<1>5. CASE PaysOut
  <2> DEFINE tx == [coin |-> Head(Todo), transfer |-> coins[Head(Todo)].graduated]
  <2>1. Head(Todo) \in Set
    BY <1>1, <1>5 DEF PaysOut
  <2>2. coins[Head(Todo)].graduated \in BOOLEAN
    BY <1>1, <2>1 DEF MoneyOK, CoinRecords
  <2>3. TxOK(K, tx)
    BY <2>1, <2>2 DEF TxOK, PayTx
  <2>4. Sends(K, tx)
    BY <1>5 DEF PaysOut
  <2> HIDE DEF tx
  <2>5. JobsOK' /\ \A l \in Runs : l # K => job'[l] = job[l]
    BY <1>1, <1>5, <2>3, <2>4, SendsOK DEF PaysOut, Todo
  <2> QED BY <1>5, <2>5, OtherRun DEF PaysOut
<1>6. CASE PaidOut
  <2>1. Todo # <<>>
    BY <1>1, <1>6 DEF PaidOut, Answered, RunOK, Todo
  <2> QED BY <1>3, <1>6, <2>1 DEF PaidOut
<1>7. CASE EndDistribute
  <2>1. JobsOK' /\ \A l \in Runs : l # K => job'[l] = job[l]
    BY <1>1, <1>7, StopsOK DEF EndDistribute
  <2> QED BY <1>7, <2>1, OtherRun DEF EndDistribute
<1>8. CASE LandsDistribute
  <2>1. job[K].tx \in PayTx /\ Distributed(job[K].tx.coin, job[K].tx.transfer) /\ UNCHANGED platform
    BY <1>1, <1>8 DEF LandsDistribute, Flying, RunOK, TxOK
  <2>2. job[K].tx.coin \in Set /\ job[K].tx.transfer \in BOOLEAN
    BY <2>1 DEF PayTx
  <2>3. /\ MoneyOK'
        /\ \A d \in Set : /\ ledger'[d].credited = ledger[d].credited
                         /\ ledger'[d].debited = ledger[d].debited
    BY <1>1, <2>1, <2>2, DistributedOK
  <2>4. JobsOK' /\ \A l \in Runs : l # K => job'[l] = job[l]
    BY <1>1, <1>8, DecidedOK DEF LandsDistribute
  <2>5. CreditOK'
    <3>1. job'["launch"] = job["launch"]
      BY <2>4
    <3>2. \A c \in Set : /\ ledger'[c].credited \in Int /\ ledger'[c].debited \in Int
                         /\ ledger'[c].credited - ledger'[c].debited >= Available(c)
      BY <1>1, <2>3 DEF MoneyOK, LedgerRecords, Available
    <3> QED BY <1>1, <3>1, <3>2, CreditKept
  <2> QED BY <2>3, <2>4, <2>5 DEF KeepersInv
<1> QED BY <1>2, <1>4, <1>5, <1>6, <1>7, <1>8 DEF Distribute

LEMMA PlatformOK ==
  ASSUME KeepersInv, Platform \/ LandsPlatform
  PROVE  KeepersInv'
<1> DEFINE K == "platform"
<1> USE RunsAre
<1>1. JobsOK /\ MoneyOK /\ CreditOK /\ RunOK(K, job[K])
  BY DEF KeepersInv, JobsOK
<1>2. ASSUME NEW tier \in Tiers, Claim(tier) PROVE KeepersInv'
  <2>1. PICK out \in Forwards(tier) :
           Sends(K, [tier |-> tier, held |-> platform[tier].vault, out |-> out])
    BY <1>2 DEF Claim
  <2>2. PICK held \in Int : held = platform[tier].vault
    BY <1>1 DEF MoneyOK
  <2>3. out \in Int /\ (tier = "sol" => out = held)
    <3>1. \/ out = held
          \/ tier # "sol" /\ \E pool \in Pools : out = SwapOut(held, pool)
      BY <2>2 DEF Forwards
    <3> QED BY <3>1, SwapTypes
  <2> DEFINE tx == [tier |-> tier, held |-> held, out |-> out]
  <2>4. TxOK(K, tx)
    BY <2>3 DEF TxOK, ClaimTx
  <2>5. Sends(K, tx)
    BY <2>1, <2>2
  <2> HIDE DEF tx
  <2>6. JobsOK' /\ \A l \in Runs : l # K => job'[l] = job[l]
    BY <1>1, <2>4, <2>5, SendsOK
  <2> QED BY <1>2, <2>6, OtherRun DEF Claim
<1>3. CASE EndPlatform
  <2>1. JobsOK' /\ \A l \in Runs : l # K => job'[l] = job[l]
    BY <1>1, <1>3, StopsOK DEF EndPlatform
  <2> QED BY <1>3, <2>1, OtherRun DEF EndPlatform
<1>4. CASE LandsPlatform
  <2> DEFINE tx == job[K].tx
  <2>1. tx \in ClaimTx /\ (tx.tier = "sol" => tx.out = tx.held)
    BY <1>1, <1>4 DEF LandsPlatform, Flying, RunOK, TxOK
  <2>2. PICK lamports \in InSol(tx) : purse' = [purse EXCEPT !.fee = @ + lamports - tx.out, !.toll = @ + tx.out]
    BY <1>4 DEF LandsPlatform
  <2>3. platform' = [platform EXCEPT ![tx.tier] =
            [vault |-> 0, account |-> IF tx.tier = "sol" THEN 0 ELSE Account(tx.tier) - tx.held]]
    BY <1>4 DEF LandsPlatform
  <2>4. JobsOK' /\ \A l \in Runs : l # K => job'[l] = job[l]
    BY <1>1, <1>4, DecidedOK DEF LandsPlatform
  <2> HIDE DEF tx
  <2>5. tx.tier \in Tiers /\ tx.held \in Int /\ tx.out \in Int
    BY <2>1 DEF ClaimTx
  <2>6. Account(tx.tier) \in Int
    BY <1>1, <2>5 DEF Account, MoneyOK
  \* What is forwarded of it is no more than what came out of it.
  <2>7. lamports \in Int /\ lamports >= tx.out
    <3>1. CASE tx.tier = "sol"
      <4>1. lamports = Account(tx.tier) /\ lamports >= tx.held
        BY <3>1, <2>2 DEF InSol, Unwrapped
      <4> QED BY <2>1, <2>6, <3>1, <4>1
    <3>2. CASE tx.tier # "sol"
      <4>1. PICK pool \in Pools : lamports = SwapPays(tx.held, pool) /\ lamports >= tx.out
        BY <3>2, <2>2 DEF InSol, Swapped
      <4> QED BY <2>5, <4>1, SwapTypes
    <3> QED BY <3>1, <3>2
  <2>8. purse' \in [fee : Nat, toll : Int, treasury : Int]
    <3> DEFINE first == [purse EXCEPT !.fee = @ + lamports - tx.out]
    <3>1. purse.fee + lamports - tx.out \in Nat /\ purse.toll + tx.out \in Int
      BY <1>1, <2>5, <2>7 DEF MoneyOK
    <3>2. first \in [fee : Nat, toll : Int, treasury : Int] /\ first.toll = purse.toll
      BY <1>1, <3>1 DEF MoneyOK
    <3>3. purse' = [first EXCEPT !.toll = purse.toll + tx.out]
      BY <1>1, <2>2 DEF MoneyOK
    <3> HIDE DEF first
    <3> QED BY <3>1, <3>2, <3>3
  <2>9. platform' \in [Tiers -> [vault : Int, account : Int]]
    <3>1. (IF tx.tier = "sol" THEN 0 ELSE Account(tx.tier) - tx.held) \in Int
      BY <2>5, <2>6
    <3> QED BY <1>1, <2>3, <2>5, <3>1 DEF MoneyOK
  <2>10. CreditOK'
    <3>1. job'["launch"] = job["launch"] /\ ledger' = ledger
      BY <1>4, <2>4 DEF LandsPlatform
    <3> QED BY <1>1, <3>1, CreditUnchanged
  <2>11. coins' = coins /\ ledger' = ledger
    BY <1>4 DEF LandsPlatform
  <2> QED BY <1>1, <2>4, <2>8, <2>9, <2>10, <2>11 DEF KeepersInv, MoneyOK
<1> QED BY <1>2, <1>3, <1>4 DEF Platform

\* The loop of a keeper goes on, or ends: neither waits for an answer.
LEMMA OnwardsOK ==
  ASSUME NEW k, NEW run, RunOK(k, run)
  PROVE  RunOK(k, Onwards(run))
<1> DEFINE at == IF GoesOn(run) THEN "crank" ELSE "idle"  next == [run EXCEPT !.at = at]
<1>1. at # "sent"
  OBVIOUS
<1> HIDE DEF at
<1>2. next.at = at /\ next.state = run.state /\ next.tx = run.tx /\ next.lot = run.lot /\ next.todo = run.todo
      /\ Shape(next)
  BY DEF RunOK, Shape
<1>3. Onwards(run) = Rest(next)
  BY DEF Onwards, at
<1> HIDE DEF next
<1>4. RunOK(k, next)
  BY <1>1, <1>2 DEF RunOK
<1> QED BY <1>3, <1>4, RestOK

LEMMA CharlieOK ==
  ASSUME KeepersInv, CharlieRun \/ LandsCharlie
  PROVE  KeepersInv'
<1> DEFINE K == "charlie"
<1> USE RunsAre
<1>1. JobsOK /\ MoneyOK /\ CreditOK /\ RunOK(K, job[K])
  BY DEF KeepersInv, JobsOK
<1>2. ASSUME NEW loop \in BOOLEAN, StartCharlie(loop) PROVE KeepersInv'
  <2>1. PICK lot \in Int : lot = SweepLot(purse.toll, Reserve)
    <3>1. 0 \in Int /\ purse.toll - Reserve \in Int
      BY <1>1, Constants DEF MoneyOK
    <3>2. Max({0, purse.toll - Reserve}) \in {0, purse.toll - Reserve}
      BY <3>1, MaxOfTwo
    <3> QED BY <3>1, <3>2 DEF SweepLot
  <2> DEFINE one == [Idle EXCEPT !.at = "crank"]  two == [one EXCEPT !.loop = loop]
             run == [two EXCEPT !.lot = lot]
  <2>2. job' = [job EXCEPT ![K] = run]
    BY <1>2, <2>1 DEF StartCharlie
  <2>3. one.at = "crank" /\ one.state = "none" /\ one.todo = <<>> /\ Shape(one)
    BY IdleIs DEF Shape
  <2> HIDE DEF one
  <2>4. two.at = "crank" /\ two.state = "none" /\ two.todo = <<>> /\ Shape(two)
    BY <2>3 DEF Shape
  <2> HIDE DEF two
  <2>5. run.at = "crank" /\ run.state = "none" /\ run.todo = <<>> /\ run.lot = lot /\ Shape(run)
    BY <2>4 DEF Shape
  <2> HIDE DEF run
  <2>6. RunOK(K, run)
    BY <2>5 DEF RunOK
  <2>7. JobsOK' /\ \A l \in Runs : l # K => job'[l] = job[l]
    BY <1>1, <2>2, <2>6, RunReplaced
  <2> QED BY <1>2, <2>7, OtherRun DEF StartCharlie
<1>3. CASE Crank
  <2>1. PICK venue \in VenuesOf(TRUE) : \E tx \in Quote(job[K].lot, purse.toll, venue) : Sends(K, tx)
    BY <1>3 DEF Crank
  <2>2. PICK tx \in Quote(job[K].lot, purse.toll, venue) : Sends(K, tx)
    BY <2>1
  <2>3. venue \in Venues /\ job[K].lot \in Int
    BY <1>1 DEF VenuesOf, PoolsRead, RunOK
  <2>4. Fits(tx)
    BY <2>3, QuoteFits
  <2>5. TxOK(K, tx)
    BY <2>4 DEF TxOK
  <2>6. JobsOK' /\ \A l \in Runs : l # K => job'[l] = job[l]
    BY <1>1, <2>2, <2>5, SendsOK
  <2> QED BY <1>3, <2>6, OtherRun DEF Crank
<1>4. ASSUME NEW run, RunOK(K, run), job' = [job EXCEPT ![K] = Onwards(run)],
             UNCHANGED <<coins, platform, purse, ledger>>
      PROVE  KeepersInv'
  <2>1. RunOK(K, Onwards(run))
    BY <1>4, OnwardsOK
  <2>2. JobsOK' /\ \A l \in Runs : l # K => job'[l] = job[l]
    BY <1>1, <1>4, <2>1, RunReplaced
  <2> QED BY <1>4, <2>2, OtherRun
<1>5. CASE Burned
  <2> DEFINE one == [job[K] EXCEPT !.spent = @ + job[K].tx.cost]  run == [one EXCEPT !.failures = 0]
  <2>1. job' = [job EXCEPT ![K] = Onwards(run)]
    <3>1. run = [job[K] EXCEPT !.spent = @ + job[K].tx.cost, !.failures = 0]
      OBVIOUS
    <3> HIDE DEF run, one
    <3>2. job' = [job EXCEPT ![K] = Onwards([job[K] EXCEPT !.spent = @ + job[K].tx.cost, !.failures = 0])]
      BY <1>5 DEF Burned
    <3> QED BY <3>1, <3>2
  <2>2. one.at = job[K].at /\ one.state = job[K].state /\ one.tx = job[K].tx /\ one.lot = job[K].lot
        /\ one.todo = job[K].todo /\ Shape(one)
    BY <1>1 DEF RunOK, Shape
  <2> HIDE DEF one
  <2>3. run.at = job[K].at /\ run.state = job[K].state /\ run.tx = job[K].tx /\ run.lot = job[K].lot
        /\ run.todo = job[K].todo /\ Shape(run)
    BY <2>2 DEF Shape
  <2> HIDE DEF run
  <2>4. RunOK(K, run)
    BY <1>1, <2>3 DEF RunOK
  <2> QED BY <1>4, <1>5, <2>1, <2>4 DEF Burned
<1>6. ASSUME CrankFails, UNCHANGED <<coins, platform, purse, ledger>> PROVE KeepersInv'
  <2> DEFINE run == Counted(job[K])
  <2>1. job' = [job EXCEPT ![K] = Onwards(run)]
    BY <1>6 DEF CrankFails
  <2>2. run.at = job[K].at /\ run.state = job[K].state /\ run.tx = job[K].tx /\ run.lot = job[K].lot
        /\ run.todo = job[K].todo /\ Shape(run)
    BY <1>1 DEF RunOK, Shape, Counted
  <2> HIDE DEF run
  <2>3. RunOK(K, run)
    BY <1>1, <2>2 DEF RunOK
  <2> QED BY <1>4, <1>6, <2>1, <2>3
<1>7. CASE CrankRefused
  BY <1>6, <1>7 DEF CrankRefused
<1>8. CASE CrankRaises
  BY <1>6, <1>8 DEF CrankRaises
<1>9. CASE LandsCharlie
  <2>1. PICK cost \in Takes(job[K].tx, purse.toll, VenuesOf(TRUE)) : purse' = [purse EXCEPT !.toll = @ - cost]
    BY <1>9 DEF LandsCharlie
  <2>2. cost \in Nat
    <3>1. Fits(job[K].tx)
      BY <1>1, <1>9 DEF LandsCharlie, Flying, RunOK, TxOK
    <3>2. VenuesOf(TRUE) \subseteq Markets
      BY KeepersAssumption DEF VenuesOf, PoolsRead
    <3> QED BY <3>1, <3>2, TakesType
  <2>3. purse' \in [fee : Nat, toll : Int, treasury : Int]
    <3>1. purse.toll - cost \in Int
      BY <1>1, <2>2 DEF MoneyOK
    <3> QED BY <1>1, <2>1, <3>1 DEF MoneyOK
  <2>4. JobsOK' /\ \A l \in Runs : l # K => job'[l] = job[l]
    BY <1>1, <1>9, DecidedOK DEF LandsCharlie
  <2>5. CreditOK'
    <3>1. job'["launch"] = job["launch"] /\ ledger' = ledger
      BY <1>9, <2>4 DEF LandsCharlie
    <3> QED BY <1>1, <3>1, CreditUnchanged
  <2>6. UNCHANGED <<coins, platform, ledger>>
    BY <1>9 DEF LandsCharlie
  <2> QED BY <1>1, <2>3, <2>4, <2>5, <2>6 DEF KeepersInv, MoneyOK
<1> QED BY <1>2, <1>3, <1>5, <1>7, <1>8, <1>9 DEF CharlieRun

LEMMA LaunchOK ==
  ASSUME KeepersInv, Launch \/ LandsLaunch
  PROVE  KeepersInv'
<1> DEFINE K == "launch"
<1> USE RunsAre
<1>1. JobsOK /\ MoneyOK /\ CreditOK /\ RunOK(K, job[K])
  BY DEF KeepersInv, JobsOK
<1>2. ASSUME NEW c \in Set, Credit(c) PROVE KeepersInv'
  <2>1. ledger' = [ledger EXCEPT ![c].credited = @ + ledger[c].payouts, ![c].payouts = 0]
    BY <1>2 DEF Credit
  <2>2. ledger[c].payouts > 0
    BY <1>2 DEF Credit
  <2>3. \A d \in Set : ledger[d].credited \in Int /\ ledger[d].debited \in Int /\ ledger[d].payouts \in Int
    BY <1>1 DEF MoneyOK, LedgerRecords
  <2> DEFINE one == [ledger EXCEPT ![c].credited = @ + ledger[c].payouts]
  <2>4. /\ one \in [Set -> LedgerRecords] /\ one[c].credited = ledger[c].credited + ledger[c].payouts
        /\ one[c].debited = ledger[c].debited /\ \A d \in Set : d # c => one[d] = ledger[d]
    <3>1. ledger[c].credited + ledger[c].payouts \in Int
      BY <2>3
    <3> QED BY <1>1, <3>1 DEF MoneyOK, LedgerRecords
  <2>5. ledger' = [one EXCEPT ![c].payouts = 0]
    BY <1>1, <2>1 DEF MoneyOK
  <2> HIDE DEF one
  <2>6. /\ ledger' \in [Set -> LedgerRecords] /\ ledger'[c].credited = one[c].credited
        /\ ledger'[c].debited = one[c].debited /\ \A d \in Set : d # c => ledger'[d] = one[d]
    BY <2>4, <2>5 DEF LedgerRecords
  <2>9. ASSUME NEW d \in Set
        PROVE  /\ ledger'[d].credited \in Int /\ ledger'[d].debited \in Int
               /\ ledger'[d].credited - ledger'[d].debited >= Available(d)
    <3>1. CASE d = c
      <4>1. ledger'[d].credited = ledger[d].credited + ledger[d].payouts /\ ledger'[d].debited = ledger[d].debited
        BY <2>4, <2>6, <3>1
      <4> QED BY <2>2, <2>3, <3>1, <4>1 DEF Available
    <3>2. CASE d # c
      <4>1. ledger'[d] = ledger[d]
        BY <2>4, <2>6, <3>2
      <4> QED BY <2>3, <4>1 DEF Available
    <3> QED BY <3>1, <3>2
  <2>7. UNCHANGED <<coins, platform, purse, job>>
    BY <1>2 DEF Credit
  <2>8. CreditOK'
    BY <1>1, <2>9, <2>7, CreditKept
  <2> QED BY <1>1, <2>6, <2>7, <2>8, SameJobs DEF KeepersInv, MoneyOK
<1>3. ASSUME NEW c \in Set, Buyback(c) PROVE KeepersInv'
  <2>1. PICK venue \in VenuesOf(coins[c].graduated) :
          \E tx \in Quote(Min({Lot, Available(c)}), purse.treasury, venue) :
            job' = [job EXCEPT !["launch"].at = "sent", !["launch"].state = "flying",
                               !["launch"].tx = tx, !["launch"].todo = <<c>>]
    BY <1>3 DEF Buyback
  <2>2. PICK tx \in Quote(Min({Lot, Available(c)}), purse.treasury, venue) :
            job' = [job EXCEPT !["launch"].at = "sent", !["launch"].state = "flying",
                               !["launch"].tx = tx, !["launch"].todo = <<c>>]
    BY <2>1
  <2>3. PICK lot \in Int : lot = Min({Lot, Available(c)}) /\ lot <= Available(c)
    <3>1. Lot \in Int /\ Available(c) \in Int
      BY <1>1, Constants DEF MoneyOK, LedgerRecords, Available
    <3>2. /\ Min({Lot, Available(c)}) \in {Lot, Available(c)}
          /\ Min({Lot, Available(c)}) <= Available(c)
      BY <3>1, MinOfTwo
    <3> QED BY <3>1, <3>2
  <2>4. Fits(tx) /\ tx.bound = lot
    <3>1. venue \in Venues
      BY DEF VenuesOf, PoolsRead, CurvesRead
    <3> QED BY <2>3, <3>1, QuoteFits
  <2> DEFINE one == [job[K] EXCEPT !.at = "sent"]  two == [one EXCEPT !.state = "flying"]
             three == [two EXCEPT !.tx = tx]  run == [three EXCEPT !.todo = <<c>>]
  <2>5. job' = [job EXCEPT ![K] = run]
    BY <1>1, <2>2 DEF JobsOK
  <2>6. one.at = "sent" /\ one.lot = job[K].lot /\ Shape(one)
    BY <1>1 DEF RunOK, Shape
  <2> HIDE DEF one
  <2>7. two.at = "sent" /\ two.state = "flying" /\ two.lot = job[K].lot /\ Shape(two)
    BY <2>6 DEF Shape
  <2> HIDE DEF two
  <2>8. three.at = "sent" /\ three.state = "flying" /\ three.tx = tx /\ three.lot = job[K].lot /\ Shape(three)
    BY <2>7 DEF Shape
  <2> HIDE DEF three
  <2>9. run.at = "sent" /\ run.state = "flying" /\ run.tx = tx /\ run.lot = job[K].lot /\ run.todo = <<c>>
        /\ Shape(run)
    BY <2>8 DEF Shape
  <2> HIDE DEF run
  <2>10. RunOK(K, run)
    <3>1. TxOK(K, tx)
      BY <2>4 DEF TxOK
    <3>2. <<c>> \in Seq(Set) /\ <<c>> # <<>>
      OBVIOUS
    <3> QED BY <1>1, <2>9, <3>1, <3>2 DEF RunOK
  <2>11. JobsOK' /\ job'[K] = run
    BY <1>1, <2>5, <2>10, RunReplaced
  <2>12. UNCHANGED <<coins, platform, purse, ledger>>
    BY <1>3 DEF Buyback
  <2>13. CreditOK'
    <3>1. Head(<<c>>) = c
      OBVIOUS
    <3>2. job'[K].tx.bound = lot /\ Head(job'[K].todo) = c
      BY <2>4, <2>9, <2>11, <3>1
    <3>3. Available(c)' = Available(c)
      BY <2>12 DEF Available
    <3> QED BY <2>3, <2>12, <3>2, <3>3 DEF CreditOK, Bought, Available
  <2> QED BY <1>1, <2>11, <2>12, <2>13, SameMoney DEF KeepersInv
<1>4. CASE RecordBurn
  <2>1. JobsOK' /\ job'[K].at = "idle"
    BY <1>1, <1>4, StopsOK DEF RecordBurn
  <2>2. CreditOK'
    BY <2>1 DEF CreditOK
  <2>3. ledger' \in [Set -> LedgerRecords]
    <3>1. Fits(job[K].tx) /\ Bought \in Set
      BY <1>1, <1>4 DEF RecordBurn, Answered, RunOK, TxOK, Bought
    <3>2. ledger[Bought].debited + job[K].tx.cost \in Int
      BY <1>1, <3>1 DEF MoneyOK, LedgerRecords, Fits, BuyTx
    <3> QED BY <1>1, <1>4, <3>1, <3>2 DEF RecordBurn, MoneyOK, LedgerRecords
  <2>4. UNCHANGED <<coins, platform, purse>>
    BY <1>4 DEF RecordBurn
  <2> QED BY <1>1, <2>1, <2>2, <2>3, <2>4 DEF KeepersInv, MoneyOK
<1>5. CASE LandsLaunch
  <2>1. PICK cost \in Takes(job[K].tx, purse.treasury, VenuesOf(coins[Bought].graduated)) :
           purse' = [purse EXCEPT !.treasury = @ - cost]
    BY <1>5 DEF LandsLaunch
  <2>2. cost \in Nat
    <3>1. Fits(job[K].tx)
      BY <1>1, <1>5 DEF LandsLaunch, Flying, RunOK, TxOK
    <3>2. VenuesOf(coins[Bought].graduated) \subseteq Markets
      BY KeepersAssumption DEF VenuesOf, PoolsRead, CurvesRead
    <3> QED BY <2>1, <3>1, <3>2, TakesType
  <2>3. purse' \in [fee : Nat, toll : Int, treasury : Int]
    <3>1. purse.treasury - cost \in Int
      BY <1>1, <2>2 DEF MoneyOK
    <3> QED BY <1>1, <2>1, <3>1 DEF MoneyOK
  <2>4. /\ JobsOK'
        /\ job'[K].at = "sent" => job[K].at = "sent" /\ job'[K].tx = job[K].tx /\ job'[K].todo = job[K].todo
    BY <1>1, <1>5, DecidedOK DEF LandsLaunch
  <2>5. UNCHANGED <<coins, platform, ledger>>
    BY <1>5 DEF LandsLaunch
  <2>6. CreditOK'
    BY <1>1, <2>4, <2>5, CreditUnchanged
  <2> QED BY <1>1, <2>3, <2>4, <2>5, <2>6 DEF KeepersInv, MoneyOK
<1> QED BY <1>2, <1>3, <1>4, <1>5 DEF Launch

LEMMA BuyerOK ==
  ASSUME KeepersInv, Buyer \/ LandsBuyer
  PROVE  KeepersInv'
<1> DEFINE K == "buyer"
<1> USE RunsAre
<1>1. JobsOK /\ RunOK(K, job[K])
  BY DEF KeepersInv, JobsOK
<1>2. ASSUME NEW tx, Fits(tx), NEW todo \in Seq(Set), Offered(tx, todo),
             UNCHANGED <<coins, platform, purse, ledger>>
      PROVE  KeepersInv'
  <2> DEFINE one == [Idle EXCEPT !.at = "sent"]  two == [one EXCEPT !.state = "flying"]
             three == [two EXCEPT !.tx = tx]  run == [three EXCEPT !.todo = todo]
  <2>1. job' = [job EXCEPT ![K] = run]
    BY <1>2 DEF Offered
  <2>2. one.at = "sent" /\ one.lot = 0 /\ Shape(one)
    BY IdleIs DEF Shape
  <2> HIDE DEF one
  <2>3. two.at = "sent" /\ two.state = "flying" /\ two.lot = 0 /\ Shape(two)
    BY <2>2 DEF Shape
  <2> HIDE DEF two
  <2>4. three.at = "sent" /\ three.state = "flying" /\ three.tx = tx /\ three.lot = 0 /\ Shape(three)
    BY <2>3 DEF Shape
  <2> HIDE DEF three
  <2>5. run.at = "sent" /\ run.state = "flying" /\ run.tx = tx /\ run.lot = 0 /\ run.todo = todo /\ Shape(run)
    BY <2>4 DEF Shape
  <2> HIDE DEF run
  <2>6. RunOK(K, run)
    <3>1. TxOK(K, tx)
      BY <1>2 DEF TxOK
    <3> QED BY <1>2, <2>5, <3>1 DEF RunOK
  <2>7. JobsOK' /\ \A l \in Runs : l # K => job'[l] = job[l]
    BY <1>1, <2>1, <2>6, RunReplaced
  <2> QED BY <1>2, <2>7, OtherRun
<1>3. ASSUME NEW c \in Set, AskBuy(c) PROVE KeepersInv'
  <2>1. PICK sol \in Amounts, typed \in Slippages, venue \in VenuesOf(coins[c].graduated) :
          \E lot \in ParseSol(sol), slippage \in ParseSlippage(typed) :
          \E tx \in SiteBuy(lot, slippage, venue) : Offered(tx, <<c>>)
    BY <1>3 DEF AskBuy
  <2>2. PICK lot \in ParseSol(sol), slippage \in ParseSlippage(typed) :
          \E tx \in SiteBuy(lot, slippage, venue) : Offered(tx, <<c>>)
    BY <2>1
  <2>3. PICK tx \in SiteBuy(lot, slippage, venue) : Offered(tx, <<c>>)
    BY <2>2
  <2>4. lot \in Int
    <3>1. ParseSol(sol) \subseteq MinBuy .. MaxBuy
      BY DEF ParseSol
    <3> QED BY <3>1
  <2>5. slippage \in Int
    <3>1. DefaultSlippage \in MinSlippage .. MaxSlippage
      BY BuyersAssumption
    <3>2. ParseSlippage(typed) \subseteq MinSlippage .. MaxSlippage
      BY <3>1 DEF ParseSlippage
    <3> QED BY <3>2
  <2>6. Fits(tx)
    <3>1. venue \in Venues
      BY DEF VenuesOf, PoolsRead, CurvesRead
    <3> QED BY <2>4, <2>5, <3>1, SiteBuyFits
  <2>7. <<c>> \in Seq(Set) /\ UNCHANGED <<coins, platform, purse, ledger>>
    BY <1>3 DEF AskBuy
  <2> QED BY <1>2, <2>3, <2>6, <2>7
<1>4. CASE AskDevBuy
  <2>1. PICK sol \in Amounts, fresh \in Fresh :
          \E lot \in ParseDevSol(sol) : \E tx \in DevBuy(lot, fresh) : Offered(tx, <<>>)
    BY <1>4 DEF AskDevBuy
  <2>2. PICK lot \in ParseDevSol(sol) : \E tx \in DevBuy(lot, fresh) : Offered(tx, <<>>)
    BY <2>1
  <2>3. PICK tx \in DevBuy(lot, fresh) : Offered(tx, <<>>)
    BY <2>2
  <2>4. lot \in Int
    <3>1. ParseDevSol(sol) \subseteq MinBuy .. MaxDevBuy
      BY DEF ParseDevSol
    <3> QED BY <3>1
  <2>5. Fits(tx)
    BY <2>4, DevBuyFits
  <2>6. <<>> \in Seq(Set) /\ UNCHANGED <<coins, platform, purse, ledger>>
    BY <1>4 DEF AskDevBuy
  <2> QED BY <1>2, <2>3, <2>5, <2>6
<1>5. CASE LandsBuyer
  <2>1. PICK cost : job' = [job EXCEPT ![K].state = "landed", ![K].spent = cost]
    BY <1>5 DEF LandsBuyer
  <2> DEFINE one == [job[K] EXCEPT !.state = "landed"]  run == [one EXCEPT !.spent = cost]
  <2>2. job' = [job EXCEPT ![K] = run]
    BY <1>1, <2>1 DEF JobsOK
  <2>3. one.at = job[K].at /\ one.state = "landed" /\ one.tx = job[K].tx /\ one.lot = job[K].lot
        /\ one.todo = job[K].todo /\ Shape(one)
    BY <1>1 DEF RunOK, Shape
  <2> HIDE DEF one
  <2>4. run.at = job[K].at /\ run.state = "landed" /\ run.tx = job[K].tx /\ run.lot = job[K].lot
        /\ run.todo = job[K].todo /\ Shape(run)
    BY <2>3 DEF Shape
  <2> HIDE DEF run
  <2>5. RunOK(K, run)
    BY <1>1, <2>4 DEF RunOK
  <2>6. JobsOK' /\ \A l \in Runs : l # K => job'[l] = job[l]
    BY <1>1, <2>2, <2>5, RunReplaced
  <2> QED BY <1>5, <2>6, OtherRun DEF LandsBuyer
<1>6. CASE EndBuyer
  <2>1. JobsOK' /\ \A l \in Runs : l # K => job'[l] = job[l]
    BY <1>1, <1>6, StopsOK DEF EndBuyer
  <2> QED BY <1>6, <2>1, OtherRun DEF EndBuyer
<1> QED BY <1>3, <1>4, <1>5, <1>6 DEF Buyer

LEMMA EndsOK ==
  ASSUME KeepersInv, Ends
  PROVE  KeepersInv'
<1>1. JobsOK /\ MoneyOK /\ CreditOK
  BY DEF KeepersInv
<1>2. PICK k \in Runs : Dies(k) \/ Raises(k)
  BY DEF Ends
<1>3. UNCHANGED <<coins, platform, purse, ledger>>
  BY <1>2 DEF Dies, Raises
<1>4. /\ JobsOK' /\ \A l \in Runs : l # k => job'[l] = job[l]
      /\ job'[k].at = "sent" => /\ job[k].at = "sent" /\ job'[k].tx = job[k].tx
                               /\ job'[k].todo = job[k].todo
  <2>1. CASE Dies(k)
    BY <1>1, <2>1, DecidedOK DEF Dies
  <2>2. CASE Raises(k)
    BY <1>1, <2>2, StopsOK DEF Raises
  <2> QED BY <1>2, <2>1, <2>2
<1>5. CreditOK'
  <2>1. "launch" = k \/ job'["launch"] = job["launch"]
    BY <1>4, RunsAre
  <2>2. job'["launch"].at = "sent" =>
             /\ job["launch"].at = "sent" /\ job'["launch"].tx = job["launch"].tx
             /\ job'["launch"].todo = job["launch"].todo
    BY <1>4, <2>1
  <2> QED BY <1>1, <1>3, <2>2, CreditUnchanged
<1> QED BY <1>1, <1>3, <1>4, <1>5, SameMoney DEF KeepersInv

--------------------------------------------------------------------------------
(* The theorems about the keepers. *)

LEMMA KeepersStart == Init => KeepersInv
<1> SUFFICES ASSUME Init PROVE KeepersInv
  OBVIOUS
<1>1. MoneyOK
  BY Constants DEF Init, MoneyOK, CoinRecords, LedgerRecords
<1>2. job = [k \in Runs |-> Idle]
  BY DEF Init
<1>3. JobsOK
  BY <1>2, IdleOK DEF JobsOK
<1>4. CreditOK
  BY <1>2, IdleIs, RunsAre DEF CreditOK
<1> QED BY <1>1, <1>3, <1>4 DEF KeepersInv

LEMMA KeepersStep == KeepersInv /\ [Next]_vars => KeepersInv'
<1> SUFFICES ASSUME KeepersInv, [Next]_vars PROVE KeepersInv'
  OBVIOUS
<1>1. CASE UNCHANGED vars
  BY <1>1, SameJobs, SameMoney, CreditUnchanged DEF vars, KeepersInv
<1>2. CASE Elsewhere
  BY <1>2, ElsewhereOK
<1>3. CASE Distribute \/ LandsDistribute
  BY <1>3, DistributeOK
<1>4. CASE Platform \/ LandsPlatform
  BY <1>4, PlatformOK
<1>5. CASE CharlieRun \/ LandsCharlie
  BY <1>5, CharlieOK
<1>6. CASE Launch \/ LandsLaunch
  BY <1>6, LaunchOK
<1>7. CASE Buyer \/ LandsBuyer
  BY <1>7, BuyerOK
<1>8. CASE Ends
  BY <1>8, EndsOK
<1> QED BY <1>1, <1>2, <1>3, <1>4, <1>5, <1>6, <1>7, <1>8 DEF Next, Lands

\* Every quote in flight, of a keeper or of a person, costs no more than its lot,
\* on every market; and what the treasury is sent to spend for a coin stays within
\* the credit of that coin until the debit is written (buyback, curvebuy,
\* launch_buybacks).
THEOREM QuotesFitTheirLots == Spec => []QuoteFitsLot
<1>1. KeepersInv => QuoteFitsLot
  <2> SUFFICES ASSUME KeepersInv PROVE QuoteFitsLot
    OBVIOUS
  <2>1. ASSUME NEW k \in {"charlie", "launch", "buyer"}, job[k].at = "sent"
        PROVE  job[k].tx.out > 0 /\ job[k].tx.cost <= job[k].tx.lot
    <3>1. k \in Runs
      BY RunsAre
    <3>2. RunOK(k, job[k])
      BY <3>1 DEF KeepersInv, JobsOK
    <3> QED BY <2>1, <3>2 DEF RunOK, TxOK, Fits
  <2> QED BY <2>1 DEF QuoteFitsLot, KeepersInv, CreditOK
<1> QED BY <1>1, KeepersStart, KeepersStep, PTL DEF Spec

\* What is left in the fee wallet of the cycles is never a debt: no cycle forwards
\* more than its own claim brought, whatever anybody does to the vault and to the
\* account between the plan and the landing (platform_fees).
THEOREM OwnSolIsKept == Spec => []OwnSolKept
<1>1. KeepersInv => OwnSolKept
  BY DEF KeepersInv, MoneyOK, OwnSolKept
<1> QED BY <1>1, KeepersStart, KeepersStep, PTL DEF Spec

--------------------------------------------------------------------------------
(* What a check lets through (the silence rule). *)

\* A figure that is not blocked has every check that backs it behind it.
LEMMA Published ==
  ASSUME NEW st, NEW failed, NEW f \in Figures, f \notin Blocked(Checks(st, failed))
  PROVE  /\ ConfigMint = "PASS"
         /\ f = "split" => SplitSum = "PASS"
         /\ f = "supply_destroyed" => BurnSupply(st) = "PASS" /\ Irreversible = "PASS"
<1> DEFINE checks == Checks(st, failed)
<1>1. /\ {"CONFIG_MINT", "SPLIT_SUM", "BURN_SUPPLY", "BURN_IRREVERSIBLE"} \subseteq DOMAIN checks
      /\ checks["CONFIG_MINT"] = Check(ConfigMint, Figures)
      /\ checks["SPLIT_SUM"] = Check(SplitSum, {"split"})
      /\ checks["BURN_SUPPLY"] = Check(BurnSupply(st), {"burn_total", "supply_destroyed"})
      /\ checks["BURN_IRREVERSIBLE"] = Check(Irreversible, {"burn_total", "supply_destroyed"})
  BY DEF Checks
<1> HIDE DEF checks
<1>2. \A name \in DOMAIN checks : f \in checks[name].backs => checks[name].status = "PASS"
  BY DEF Blocked, MayPublish, checks
<1>3. ASSUME NEW status, NEW backs
      PROVE Check(status, backs).status = status /\ Check(status, backs).backs = backs
  BY DEF Check
<1>4. ConfigMint = "PASS"
  BY <1>1, <1>2, <1>3
<1>5. f = "split" => SplitSum = "PASS"
  BY <1>1, <1>2, <1>3
<1>6. f = "supply_destroyed" => BurnSupply(st) = "PASS" /\ Irreversible = "PASS"
  BY <1>1, <1>2, <1>3
<1> QED BY <1>4, <1>5, <1>6

LEMMA PassedMeans ==
  /\ ConfigMint = "PASS" => coin.config.own
  /\ SplitSum = "PASS" => Total(coin.config.split) = TotalBps
  /\ Irreversible = "PASS" => ~coin.authority
  /\ \A st : BurnSupply(st) = "PASS" => st # None /\ Initial - st.seen = Supply
BY DEF ConfigMint, SplitSum, Irreversible, BurnSupply, PassIf

\* A page calls a coin enrolled only when its split pays the toll.
LEMMA EnrolledMeans ==
  ASSUME NEW st, Reading(Checks(st, {})) = "enrolled"
  PROVE  ProtocolShare(coin.config.split)
<1> DEFINE checks == Checks(st, {})
<1>1. checks.PROTOCOL_SHARE = Check(ShareOf(coin.config.split), {})
  BY DEF Checks
<1>2. checks.PROTOCOL_SHARE.status = ShareOf(coin.config.split)
  BY <1>1 DEF Check
<1> HIDE DEF checks
<1>3. checks.PROTOCOL_SHARE.status = "PASS"
  BY DEF Reading, checks
<1> QED BY <1>2, <1>3 DEF ShareOf

--------------------------------------------------------------------------------
(* The invariant of the record. *)

\* A line of the log or the page of one: every field of it is there.
Line(l) ==
    l = [kind |-> "record", blocked |-> l.blocked, split |-> l.split, sums |-> l.sums,
         destroyed |-> l.destroyed, supply |-> l.supply]

Silent(l) == Reveals(l) \cap l.blocked = {}

CoinOK ==
    /\ coin \in [config : Configs, creator : {"wallet", "config", "other"}, fixed : BOOLEAN,
                 authority : BOOLEAN, reissued : Nat, burns : Seq(Kinds), paid : [Recipients -> Nat]]

StoreOK ==
    /\ store \in [inflow : [Recipients -> [done : BOOLEAN, sum : Nat]], walked : BOOLEAN, seen : Nat,
                  initial : {"underived", "known", "unreachable"}, recorded : BOOLEAN]
    /\ store.seen <= Len(coin.burns)
    /\ \A a \in Recipients : store.inflow[a].sum <= coin.paid[a]

Files == [rows : SUBSET Nat, complete : BOOLEAN]
FileOK == faults \in Nat /\ (file = None \/ file \in Files)

\* What is shown of the coin l is true of it, and stays so.
SplitHolds(l) == "split" \in Reveals(l) => Total(l.split) = TotalBps /\ coin.config.own
BurnsHold(l) ==
    /\ "supply_destroyed" \in Reveals(l) =>
         /\ ~coin.authority /\ l.destroyed \in Nat /\ l.destroyed <= Len(coin.burns)
         /\ Initial - l.destroyed = l.supply
    /\ l.kind \in {"page", "landing"} => l.events \in Nat /\ l.events <= Len(coin.burns)
SumsHold(l) ==
    l.kind = "record" =>
        \A a \in DOMAIN l.sums : a \in Recipients /\ l.sums[a] \in Nat /\ l.sums[a] <= coin.paid[a]
StandingHolds(l) ==
    /\ l.kind = "page" /\ l.enrolled = "fixed" => coin.fixed /\ ProtocolShare(coin.config.split)
    /\ l.kind = "replaced" => coin.creator = "other"

LineOK(l) ==
    /\ l.kind = "record" => Line(l)
    /\ Silent(l) /\ SplitHolds(l) /\ BurnsHold(l) /\ SumsHold(l) /\ StandingHolds(l)
SaidOK == said # None => LineOK(said)

RecordInv == CoinOK /\ StoreOK /\ FileOK /\ SaidOK

--------------------------------------------------------------------------------
(* What each surface writes. *)

\* A line that shows no figure.
LEMMA SaysNothing ==
  ASSUME NEW l, l.kind \in {"error", "unavailable", "unsplit", "residual"}
  PROVE  LineOK(l)
<1>1. Reveals(l) = {}
  BY DEF Reveals
<1> QED BY <1>1 DEF LineOK, Silent, SplitHolds, BurnsHold, SumsHold, StandingHolds

\* A record of what is shown, where nothing shown is blocked.
LEMMA MadeOK ==
  ASSUME RecordInv, NEW st \in {None, store}, NEW failed, NEW l, NEW blocked,
         blocked = Blocked(Checks(st, failed)),
         Line(l), l.blocked = blocked,
         l.split # None => "split" \notin blocked /\ l.split = coin.config.split,
         l.destroyed # None =>
            "supply_destroyed" \notin blocked /\ l.destroyed = Destroyed(st) /\ l.supply = Left(st),
         \A a \in DOMAIN l.sums :
            /\ LegOf(a) = "sol_burn" => "sol_burn_total" \notin blocked
            /\ LegOf(a) = "paid" => "ops_total" \notin blocked
            /\ st # None /\ a \in Recipients /\ l.sums[a] = st.inflow[a].sum
  PROVE  LineOK(l)
<1>1. l.kind = "record"
  BY DEF Line
<1>2. Silent(l)
  BY <1>1 DEF Silent, Reveals
<1>3. SplitHolds(l)
  <2> SUFFICES ASSUME l.split # None PROVE Total(l.split) = TotalBps /\ coin.config.own
    BY <1>1 DEF SplitHolds, Reveals
  <2>1. "split" \in Figures
    BY DEF Figures
  <2> QED BY <2>1, Published, PassedMeans
<1>4. BurnsHold(l)
  <2> SUFFICES ASSUME l.destroyed # None
               PROVE  /\ ~coin.authority /\ l.destroyed \in Nat /\ l.destroyed <= Len(coin.burns)
                      /\ Initial - l.destroyed = l.supply
    BY <1>1 DEF BurnsHold, Reveals
  <2>1. "supply_destroyed" \in Figures
    BY DEF Figures
  <2>2. ~coin.authority /\ st # None /\ Initial - st.seen = Supply
    BY <2>1, Published, PassedMeans
  <2> QED BY <2>2 DEF Destroyed, Left, RecordInv, StoreOK
<1>5. SumsHold(l)
  BY DEF SumsHold, RecordInv, StoreOK
<1>6. StandingHolds(l)
  BY <1>1 DEF StandingHolds
<1> QED BY <1>2, <1>3, <1>4, <1>5, <1>6 DEF LineOK

\* What a replay of a line shows, field by field.
LEMMA GatedIs ==
  ASSUME NEW l, Line(l)
  PROVE  /\ Line(Gated(l)) /\ Gated(l).blocked = l.blocked /\ Gated(l).supply = l.supply
         /\ Gated(l).split = Hidden(l, "split", l.split, None)
         /\ Gated(l).destroyed = Hidden(l, "supply_destroyed", l.destroyed, None)
         /\ Gated(l).sums = SumsGated(l)
<1> DEFINE one == [l EXCEPT !.split = Hidden(l, "split", @, None)]
           two == [one EXCEPT !.destroyed = Hidden(l, "supply_destroyed", @, None)]
           three == [two EXCEPT !.sums = SumsGated(l)]
<1>1. /\ Line(one) /\ one.blocked = l.blocked /\ one.sums = l.sums
      /\ one.destroyed = l.destroyed /\ one.supply = l.supply
      /\ one.split = Hidden(l, "split", l.split, None)
  BY DEF Line
<1> HIDE DEF one
<1>2. /\ Line(two) /\ two.blocked = one.blocked /\ two.split = one.split
      /\ two.sums = one.sums /\ two.supply = one.supply
      /\ two.destroyed = Hidden(l, "supply_destroyed", one.destroyed, None)
  BY <1>1 DEF Line
<1> HIDE DEF two
<1>3. /\ Line(three) /\ three.blocked = two.blocked /\ three.split = two.split
      /\ three.destroyed = two.destroyed /\ three.supply = two.supply /\ three.sums = SumsGated(l)
  BY <1>2 DEF Line
<1>4. Gated(l) = three
  BY DEF Gated, one, two, three
<1> QED BY <1>1, <1>2, <1>3, <1>4

LEMMA AddressesPaid == ASSUME CoinOK PROVE Addresses \subseteq Recipients
BY DEF CoinOK, Addresses, Recipients

\* What there is to say of each address is what the store holds of it.
LEMMA SumsAre ==
  ASSUME CoinOK, NEW st, NEW legs, NEW a \in DOMAIN Sums(st, legs)
  PROVE  /\ st # None /\ a \in Recipients /\ LegOf(a) \in legs
         /\ Sums(st, legs)[a] = st.inflow[a].sum
<1>1. st # None
  <2> SUFFICES ASSUME st = None PROVE FALSE OBVIOUS
  <2>1. Sums(st, legs) = << >>
    BY DEF Sums
  <2>2. DOMAIN << >> = {}
    OBVIOUS
  <2> QED BY <2>1, <2>2
<1>2. Sums(st, legs) = [b \in {b \in Addresses : LegOf(b) \in legs} |-> st.inflow[b].sum]
  BY <1>1 DEF Sums
<1>3. a \in Addresses /\ LegOf(a) \in legs
  BY <1>2
<1>4. Sums(st, legs)[a] = st.inflow[a].sum
  BY <1>2, <1>3
<1> QED BY <1>1, <1>3, <1>4, AddressesPaid

\* A record as it is made: of each figure only what is shown.
LEMMA MadeIs ==
  ASSUME CoinOK, NEW st, NEW blocked, NEW shown
  PROVE  LET l == Made(st, blocked, shown)
         IN  /\ Line(l) /\ l.blocked = blocked
             /\ l.split # None => "split" \in shown /\ l.split = coin.config.split
             /\ l.destroyed # None =>
                  /\ "supply_destroyed" \in shown
                  /\ l.destroyed = Destroyed(st) /\ l.supply = Left(st)
             /\ \A a \in DOMAIN l.sums :
                  /\ LegOf(a) = "sol_burn" => "sol_burn_total" \in shown
                  /\ LegOf(a) = "paid" => "ops_total" \in shown
                  /\ st # None /\ a \in Recipients /\ l.sums[a] = st.inflow[a].sum
<1> DEFINE legs == {leg \in {"sol_burn", "paid"} :
                      \/ leg = "sol_burn" /\ "sol_burn_total" \in shown
                      \/ leg = "paid" /\ "ops_total" \in shown}
           l == Made(st, blocked, shown)
<1>1. l.sums = Sums(st, legs)
  BY DEF Made
<1>2. /\ Line(l) /\ l.blocked = blocked
      /\ l.split # None => "split" \in shown /\ l.split = coin.config.split
      /\ l.destroyed # None =>
           "supply_destroyed" \in shown /\ l.destroyed = Destroyed(st) /\ l.supply = Left(st)
  BY DEF Made, Line
<1>3. \A leg \in legs :
        /\ leg = "sol_burn" => "sol_burn_total" \in shown
        /\ leg = "paid" => "ops_total" \in shown
  OBVIOUS
<1> HIDE DEF legs, l
<1>4. ASSUME NEW a \in DOMAIN l.sums
      PROVE  /\ LegOf(a) = "sol_burn" => "sol_burn_total" \in shown
             /\ LegOf(a) = "paid" => "ops_total" \in shown
             /\ st # None /\ a \in Recipients /\ l.sums[a] = st.inflow[a].sum
  BY <1>1, <1>3, <1>4, SumsAre
<1> QED BY <1>2, <1>4 DEF l

\* The log shows a record when it is replayed, of whichever schema it is.
LEMMA ReplayOK ==
  ASSUME RecordInv, NEW st \in {None, store}, NEW failed, NEW blocked,
         blocked = Blocked(Checks(st, failed)),
         NEW shown \in {Figures, Figures \ blocked}
  PROVE  LineOK(Gated(Made(st, blocked, shown)))
<1> DEFINE l == Made(st, blocked, shown)
           g == Gated(l)
<1>1. CoinOK
  BY DEF RecordInv
<1>2. /\ Line(l) /\ l.blocked = blocked
      /\ l.split # None => l.split = coin.config.split
      /\ l.destroyed # None => l.destroyed = Destroyed(st) /\ l.supply = Left(st)
      /\ \A a \in DOMAIN l.sums :
           st # None /\ a \in Recipients /\ l.sums[a] = st.inflow[a].sum
  BY <1>1, MadeIs
<1> HIDE DEF l
<1>3. /\ Line(g) /\ g.blocked = blocked /\ g.supply = l.supply
      /\ g.split = Hidden(l, "split", l.split, None)
      /\ g.destroyed = Hidden(l, "supply_destroyed", l.destroyed, None)
      /\ g.sums = SumsGated(l)
  BY <1>2, GatedIs
<1> HIDE DEF g
<1>4. g.split # None => "split" \notin blocked /\ g.split = coin.config.split
  BY <1>2, <1>3 DEF Hidden
<1>5. g.destroyed # None =>
        "supply_destroyed" \notin blocked /\ g.destroyed = Destroyed(st) /\ g.supply = Left(st)
  BY <1>2, <1>3 DEF Hidden
<1>6. ASSUME NEW a \in DOMAIN g.sums
      PROVE  /\ LegOf(a) = "sol_burn" => "sol_burn_total" \notin blocked
             /\ LegOf(a) = "paid" => "ops_total" \notin blocked
             /\ st # None /\ a \in Recipients /\ g.sums[a] = st.inflow[a].sum
  <2>1. CASE blocked \cap {"sol_burn_total", "ops_total"} = {}
    <3>1. g.sums = l.sums
      BY <1>2, <1>3, <2>1 DEF SumsGated
    <3> QED BY <1>2, <1>6, <2>1, <3>1
  <2>2. CASE blocked \cap {"sol_burn_total", "ops_total"} # {}
    <3>1. g.sums = << >>
      BY <1>2, <1>3, <2>2 DEF SumsGated
    <3>2. DOMAIN << >> = {}
      OBVIOUS
    <3> QED BY <1>6, <3>1, <3>2
  <2> QED BY <2>1, <2>2
<1>7. LineOK(g)
  BY <1>3, <1>4, <1>5, <1>6, MadeOK
<1> QED BY <1>7 DEF g, l

\* The record of a page shows nothing its gate withholds.
LEMMA DurableOK ==
  ASSUME RecordInv, NEW st \in {None, store}, NEW failed, NEW blocked,
         blocked = Blocked(Checks(st, failed))
  PROVE  LineOK(Durable(st, blocked))
<1> DEFINE l == Made(st, blocked, Figures \ blocked)
<1>1. CoinOK
  BY DEF RecordInv
<1>2. /\ Line(l) /\ l.blocked = blocked
      /\ l.split # None => "split" \notin blocked /\ l.split = coin.config.split
      /\ l.destroyed # None =>
           "supply_destroyed" \notin blocked /\ l.destroyed = Destroyed(st) /\ l.supply = Left(st)
      /\ \A a \in DOMAIN l.sums :
           /\ LegOf(a) = "sol_burn" => "sol_burn_total" \notin blocked
           /\ LegOf(a) = "paid" => "ops_total" \notin blocked
           /\ st # None /\ a \in Recipients /\ l.sums[a] = st.inflow[a].sum
  BY <1>1, MadeIs
<1> HIDE DEF l
<1>3. LineOK(l)
  BY <1>2, MadeOK
<1> QED BY <1>3 DEF l, Durable

\* A page shows a figure only where its gate lets it through, and lists burns of
\* the chain.
LEMMA ReportOK ==
  ASSUME RecordInv, NEW st \in {None, store}, NEW blocked, NEW reading,
         blocked = Blocked(Checks(st, {})), reading = Reading(Checks(st, {}))
  PROVE  LineOK(Report(st, blocked, reading))
<1> DEFINE l == Report(st, blocked, reading)
<1>1. /\ l.kind = "page" /\ l.blocked = blocked
      /\ l.enrolled = Enrolment(reading) /\ l.events = Listed(st)
      /\ l.split # None => "split" \notin blocked /\ l.split = coin.config.split
      /\ l.sol_burn # None => "sol_burn_total" \notin blocked
      /\ l.ops # None => "ops_total" \notin blocked
      /\ l.destroyed # None =>
           "supply_destroyed" \notin blocked /\ l.destroyed = Destroyed(st) /\ l.supply = Left(st)
  BY DEF Report, Row
<1> HIDE DEF l
<1>2. /\ store.seen \in Nat /\ store.seen <= Len(coin.burns)
      /\ Len(coin.burns) \in Nat
  BY DEF RecordInv, StoreOK, CoinOK
<1>3. Silent(l)
  BY <1>1 DEF Silent, Reveals
<1>4. SplitHolds(l)
  <2> SUFFICES ASSUME l.split # None PROVE Total(l.split) = TotalBps /\ coin.config.own
    BY <1>1 DEF SplitHolds, Reveals
  <2>1. "split" \in Figures
    BY DEF Figures
  <2> QED BY <1>1, <2>1, Published, PassedMeans
<1>5. BurnsHold(l)
  <2>1. l.events \in Nat /\ l.events <= Len(coin.burns)
    BY <1>1, <1>2 DEF Listed
  <2>2. ASSUME l.destroyed # None
        PROVE  /\ ~coin.authority /\ l.destroyed \in Nat /\ l.destroyed <= Len(coin.burns)
               /\ Initial - l.destroyed = l.supply
    <3>1. "supply_destroyed" \in Figures
      BY DEF Figures
    <3>2. ~coin.authority /\ st # None /\ Initial - st.seen = Supply
      BY <1>1, <2>2, <3>1, Published, PassedMeans
    <3> QED BY <1>1, <1>2, <2>2, <3>2 DEF Destroyed, Left
  <2> QED BY <1>1, <2>1, <2>2 DEF BurnsHold, Reveals
<1>6. SumsHold(l)
  BY <1>1 DEF SumsHold
<1>7. StandingHolds(l)
  <2> SUFFICES ASSUME l.enrolled = "fixed" PROVE coin.fixed /\ ProtocolShare(coin.config.split)
    BY <1>1 DEF StandingHolds
  <2>1. coin.fixed /\ reading = "enrolled"
    BY <1>1, RecordInv DEF Enrolment, RecordInv, CoinOK
  <2> QED BY <2>1, EnrolledMeans
<1>8. LineOK(l)
  BY <1>1, <1>3, <1>4, <1>5, <1>6, <1>7 DEF LineOK
<1> QED BY <1>8 DEF l

\* A coin that has no config: at most that its creator was replaced.
LEMMA NoSplitOK == ASSUME NEW st PROVE LineOK(NoSplit(st))
<1> DEFINE l == NoSplit(st)
<1>1. l.kind = "unsplit" \/ (l.kind = "replaced" /\ coin.creator = "other")
  BY DEF NoSplit, Replaced
<1> HIDE DEF l
<1>2. ASSUME l.kind = "unsplit" PROVE LineOK(l)
  <2>1. l.kind \in {"error", "unavailable", "unsplit", "residual"}
    BY <1>2
  <2> QED BY <2>1, SaysNothing
<1>3. ASSUME l.kind = "replaced", coin.creator = "other" PROVE LineOK(l)
  <2>1. Reveals(l) = {}
    BY <1>3 DEF Reveals
  <2> QED BY <1>3, <2>1 DEF LineOK, Silent, SplitHolds, BurnsHold, SumsHold, StandingHolds
<1>4. LineOK(l)
  BY <1>1, <1>2, <1>3
<1> QED BY <1>4 DEF l

LEMMA RenderedOK == ASSUME RecordInv, NEW st \in {None, store}, Rendered(st) PROVE LineOK(said')
<1>1. PICK checks : checks = Checks(st, {})
  OBVIOUS
<1>2. PICK blocked : blocked = Blocked(checks)
  OBVIOUS
<1>3. said' \in {Report(st, blocked, Reading(checks)), Durable(st, blocked)}
  BY <1>1, <1>2 DEF Rendered
<1>4. blocked = Blocked(Checks(st, {})) /\ Reading(checks) = Reading(Checks(st, {}))
  BY <1>1, <1>2
<1>5. LineOK(Durable(st, blocked))
  BY <1>4, DurableOK
<1>6. LineOK(Report(st, blocked, Reading(checks)))
  BY <1>4, ReportOK
<1> QED BY <1>3, <1>5, <1>6

\* The index shows of a coin what a replay of its record does.
LEMMA IndexOK ==
  ASSUME NEW line, LineOK(line), line.kind = "record"
  PROVE  LineOK(IndexPage(line))
<1> DEFINE l == IndexPage(line)
           shown == Gated(line).split
<1>1. shown = Hidden(line, "split", line.split, None)
  BY GatedIs DEF LineOK
<1>2. l.kind = "index" /\ l.blocked = line.blocked \cap {"split"} /\ l.split = shown
  BY DEF IndexPage, IndexRow
<1> HIDE DEF l, shown
<1>3. ASSUME l.split # None
      PROVE  /\ "split" \notin line.blocked /\ l.split = line.split
             /\ Total(l.split) = TotalBps /\ coin.config.own
  <2>1. "split" \notin line.blocked /\ l.split = line.split
    BY <1>1, <1>2, <1>3 DEF Hidden
  <2>2. "split" \in Reveals(line)
    BY <1>3, <2>1 DEF Reveals, Figures
  <2> QED BY <2>1, <2>2 DEF LineOK, SplitHolds
<1>4. Silent(l) /\ SplitHolds(l)
  BY <1>2, <1>3 DEF Silent, SplitHolds, Reveals
<1>5. BurnsHold(l) /\ SumsHold(l) /\ StandingHolds(l)
  BY <1>2 DEF BurnsHold, SumsHold, StandingHolds, Reveals
<1>6. LineOK(l)
  BY <1>2, <1>4, <1>5 DEF LineOK
<1> QED BY <1>6 DEF l

LEMMA LandingOK == ASSUME RecordInv PROVE LineOK(LandingPage)
<1> DEFINE l == LandingPage
<1>1. l.kind = "landing" /\ l.events = store.seen
  BY DEF LandingPage, Counters
<1> HIDE DEF l
<1>2. Reveals(l) = {}
  BY <1>1 DEF Reveals
<1>3. store.seen \in Nat /\ store.seen <= Len(coin.burns)
  BY DEF RecordInv, StoreOK
<1>4. LineOK(l)
  BY <1>1, <1>2, <1>3 DEF LineOK, Silent, SplitHolds, BurnsHold, SumsHold, StandingHolds
<1> QED BY <1>4 DEF l

LEMMA ReconcileOK == ASSUME NEW row PROVE LineOK(Rendering(row))
<1> DEFINE l == Rendering(row)
<1>1. l.kind = "residual"
  BY DEF Rendering
<1> HIDE DEF l
<1>2. l.kind \in {"error", "unavailable", "unsplit", "residual"}
  BY <1>1
<1>3. LineOK(l)
  BY <1>2, SaysNothing
<1> QED BY <1>3 DEF l

LEMMA SurfacesOK == ASSUME RecordInv, Surfaces PROVE LineOK(said')
<1>1. CASE Observe
  <2>1. PICK st \in {None, store}, failed \in SUBSET OnLeg("sol_burn") :
          IF Splits
          THEN \E blocked \in {Blocked(Checks(st, failed))} :
                 said' \in {Gated(Legacy(st, blocked)), Gated(Durable(st, blocked))}
          ELSE said' = NoSplit(st)
    BY <1>1 DEF Observe
  <2>2. CASE ~Splits
    BY <2>1, <2>2, NoSplitOK
  <2>3. CASE Splits
    <3>1. PICK blocked : /\ blocked = Blocked(Checks(st, failed))
                         /\ said' \in {Gated(Legacy(st, blocked)), Gated(Durable(st, blocked))}
      BY <2>1, <2>3
    <3>2. /\ LineOK(Gated(Made(st, blocked, Figures)))
          /\ LineOK(Gated(Made(st, blocked, Figures \ blocked)))
      BY <3>1, ReplayOK
    <3> QED BY <3>1, <3>2 DEF Legacy, Durable
  <2> QED BY <2>2, <2>3
<1>2. CASE ObserveFails
  <2>1. said' \in {Unread, Unavailable}
    BY <1>2 DEF ObserveFails
  <2>2. said'.kind \in {"error", "unavailable", "unsplit", "residual"}
    BY <2>1 DEF Unread, Unavailable
  <2> QED BY <2>2, SaysNothing
<1>3. CASE Refresh
  BY <1>3, RenderedOK DEF Refresh
<1>4. CASE Verify
  BY <1>4, RenderedOK, NoSplitOK DEF Verify
<1>5. CASE Index
  BY <1>5, IndexOK DEF Index, RecordInv, SaidOK
<1>6. CASE Landing
  BY <1>6, LandingOK DEF Landing
<1>7. CASE Reconcile
  BY <1>7, ReconcileOK DEF Reconcile
<1> QED BY <1>1, <1>2, <1>3, <1>4, <1>5, <1>6, <1>7 DEF Surfaces

--------------------------------------------------------------------------------
(* The record's invariant is inductive. *)

\* What no step takes back of the coin.
Grown ==
    /\ coin'.config.own = coin.config.own
    /\ coin'.authority => coin.authority
    /\ Len(coin.burns) <= Len(coin'.burns)
    /\ \A a \in Recipients : coin.paid[a] <= coin'.paid[a]
    /\ coin.fixed => coin'.fixed /\ coin'.config.split = coin.config.split
    /\ coin.creator = "other" => coin'.creator = "other"

LEMMA RecordStart == RecordInit => RecordInv
<1> SUFFICES ASSUME RecordInit PROVE RecordInv
  OBVIOUS
<1>1. PICK c \in Configs, who \in {"wallet", "config"}, live \in BOOLEAN :
        coin = [config |-> c, creator |-> who, fixed |-> c.charlie, authority |-> live,
                reissued |-> 0, burns |-> <<>>, paid |-> [a \in Recipients |-> 0]]
  BY DEF RecordInit, CoinInit
<1>2. c.charlie \in BOOLEAN /\ << >> \in Seq(Kinds) /\ Len(<< >>) = 0
  BY CoinAssumption
<1>3. [a \in Recipients |-> 0] \in [Recipients -> Nat]
  OBVIOUS
<1>4. CoinOK
  BY <1>1, <1>2, <1>3 DEF CoinOK
<1>5. store = [inflow |-> [a \in Recipients |-> Unwalked],
               walked |-> FALSE, seen |-> 0, initial |-> "underived", recorded |-> FALSE]
  BY DEF RecordInit, CoinInit
<1>6. StoreOK
  <2>1. coin.burns = << >> /\ \A a \in Recipients : coin.paid[a] = 0
    BY <1>1
  <2>2. [a \in Recipients |-> Unwalked] \in [Recipients -> [done : BOOLEAN, sum : Nat]]
    BY DEF Unwalked
  <2>3. \A a \in Recipients : store.inflow[a].sum = 0
    BY <1>5 DEF Unwalked
  <2> QED BY <1>2, <1>5, <2>1, <2>2, <2>3 DEF StoreOK
<1>7. FileOK /\ SaidOK
  BY DEF RecordInit, CoinInit, FileOK, SaidOK
<1> QED BY <1>4, <1>6, <1>7 DEF RecordInv

\* A coin, field by field.
LEMMA CoinIs ==
  ASSUME CoinOK
  PROVE  /\ coin = [config |-> coin.config, creator |-> coin.creator, fixed |-> coin.fixed,
                    authority |-> coin.authority, reissued |-> coin.reissued,
                    burns |-> coin.burns, paid |-> coin.paid]
         /\ coin.config \in Configs /\ coin.creator \in {"wallet", "config", "other"}
         /\ coin.fixed \in BOOLEAN /\ coin.authority \in BOOLEAN /\ coin.reissued \in Nat
         /\ coin.burns \in Seq(Kinds) /\ Len(coin.burns) \in Nat
         /\ coin.paid \in [Recipients -> Nat] /\ \A a \in Recipients : coin.paid[a] \in Nat
BY DEF CoinOK

\* The chain's steps.
LEMMA WorldGrows ==
  ASSUME RecordInv, World
  PROVE  CoinOK' /\ Grown /\ store' = store /\ faults' \in Nat
<1>0. CoinOK /\ faults \in Nat
  BY DEF RecordInv, FileOK
<1>1. ASSUME NEW kind \in Kinds, Burn(kind)
      PROVE CoinOK' /\ Grown /\ store' = store /\ faults' \in Nat
  <2>1. /\ Append(coin.burns, kind) \in Seq(Kinds)
        /\ Len(coin.burns) <= Len(Append(coin.burns, kind))
    BY <1>0, CoinIs
  <2>2. coin' = [config |-> coin.config, creator |-> coin.creator, fixed |-> coin.fixed,
                 authority |-> coin.authority, reissued |-> coin.reissued,
                 burns |-> Append(coin.burns, kind), paid |-> coin.paid]
    BY <1>0, <1>1, CoinIs DEF Burn
  <2>3. \A a \in Recipients : coin.paid[a] <= coin.paid[a]
    BY <1>0, CoinIs
  <2>4. CoinOK'
    BY <1>0, <2>1, <2>2, <2>3, CoinIs DEF CoinOK
  <2>5. Grown
    BY <1>0, <2>1, <2>2, <2>3, CoinIs DEF Grown
  <2> QED BY <1>0, <1>1, <2>4, <2>5 DEF Burn
<1>2. ASSUME NEW a \in Recipients, Pay(a)
      PROVE CoinOK' /\ Grown /\ store' = store /\ faults' \in Nat
  <2> DEFINE paid == [coin.paid EXCEPT ![a] = coin.paid[a] + 1]
  <2>1. paid \in [Recipients -> Nat] /\ \A b \in Recipients : coin.paid[b] <= paid[b]
    BY <1>0, CoinIs
  <2>2. coin' = [config |-> coin.config, creator |-> coin.creator, fixed |-> coin.fixed,
                 authority |-> coin.authority, reissued |-> coin.reissued,
                 burns |-> coin.burns, paid |-> paid]
    BY <1>0, <1>2, CoinIs DEF Pay
  <2> HIDE DEF paid
  <2>3. Len(coin.burns) <= Len(coin.burns)
    BY <1>0, CoinIs
  <2>4. CoinOK'
    BY <1>0, <2>1, <2>2, <2>3, CoinIs DEF CoinOK
  <2>5. Grown
    BY <1>0, <2>1, <2>2, <2>3, CoinIs DEF Grown
  <2> QED BY <1>0, <1>2, <2>4, <2>5 DEF Pay
<1>3. /\ Len(coin.burns) <= Len(coin.burns)
      /\ \A a \in Recipients : coin.paid[a] <= coin.paid[a]
  BY <1>0, CoinIs
<1>4. CASE Reissue
  <2>1. coin' = [coin EXCEPT !.reissued = coin.reissued + 1]
    BY <1>4 DEF Reissue
  <2>2. /\ coin' = [config |-> coin.config, creator |-> coin.creator, fixed |-> coin.fixed,
                    authority |-> coin.authority, reissued |-> coin.reissued + 1,
                    burns |-> coin.burns, paid |-> coin.paid]
        /\ coin.reissued + 1 \in Nat
    BY <1>0, <2>1, CoinIs
  <2>3. CoinOK'
    BY <1>0, <1>3, <2>2, CoinIs DEF CoinOK
  <2>4. Grown
    BY <1>0, <1>3, <2>2, CoinIs DEF Grown
  <2> QED BY <1>0, <1>4, <2>3, <2>4 DEF Reissue, Costs
<1>5. CASE Revoke
  <2>1. coin' = [config |-> coin.config, creator |-> coin.creator, fixed |-> coin.fixed,
                 authority |-> FALSE, reissued |-> coin.reissued,
                 burns |-> coin.burns, paid |-> coin.paid]
    BY <1>0, <1>5, CoinIs DEF Revoke
  <2>2. CoinOK'
    BY <1>0, <1>3, <2>1, CoinIs DEF CoinOK
  <2>3. Grown
    BY <1>0, <1>3, <2>1, CoinIs DEF Grown
  <2> QED BY <1>0, <1>5, <2>2, <2>3 DEF Revoke
<1>6. CASE SplitFees
  <2>1. /\ coin' = [config |-> coin.config, creator |-> "config", fixed |-> coin.fixed,
                    authority |-> coin.authority, reissued |-> coin.reissued,
                    burns |-> coin.burns, paid |-> coin.paid]
        /\ coin.creator = "wallet"
    BY <1>0, <1>6, CoinIs DEF SplitFees
  <2>2. CoinOK'
    BY <1>0, <1>3, <2>1, CoinIs DEF CoinOK
  <2>3. Grown
    BY <1>0, <1>3, <2>1, CoinIs DEF Grown
  <2> QED BY <1>0, <1>6, <2>2, <2>3 DEF SplitFees
<1>7. CASE UpdateShares
  <2>1. PICK c \in Configs : /\ c.own = coin.config.own
                             /\ coin' = [coin EXCEPT !.config = c, !.fixed = TRUE]
    BY <1>7 DEF UpdateShares
  <2>2. /\ coin' = [config |-> c, creator |-> coin.creator, fixed |-> TRUE,
                    authority |-> coin.authority, reissued |-> coin.reissued,
                    burns |-> coin.burns, paid |-> coin.paid]
        /\ ~coin.fixed
    BY <1>0, <1>7, <2>1, CoinIs DEF UpdateShares
  <2>3. CoinOK'
    BY <1>0, <1>3, <2>1, <2>2, CoinIs DEF CoinOK
  <2>4. Grown
    BY <1>0, <1>3, <2>1, <2>2, CoinIs DEF Grown
  <2> QED BY <1>0, <1>7, <2>3, <2>4 DEF UpdateShares
<1>8. CASE AdminCto
  <2>1. coin' = [config |-> coin.config, creator |-> "other", fixed |-> coin.fixed,
                 authority |-> coin.authority, reissued |-> coin.reissued,
                 burns |-> coin.burns, paid |-> coin.paid]
    BY <1>0, <1>8, CoinIs DEF AdminCto
  <2>2. CoinOK'
    BY <1>0, <1>3, <2>1, CoinIs DEF CoinOK
  <2>3. Grown
    BY <1>0, <1>3, <2>1, CoinIs DEF Grown
  <2> QED BY <1>0, <1>8, <2>2, <2>3 DEF AdminCto, Costs
<1> QED BY <1>1, <1>2, <1>4, <1>5, <1>6, <1>7, <1>8 DEF World

\* What was said of the coin stays true of one that only grows.
LEMMA SaidKept ==
  ASSUME RecordInv, CoinOK', Grown, said' = said
  PROVE  SaidOK'
<1> SUFFICES ASSUME said # None PROVE LineOK(said)'
  BY DEF SaidOK
<1>1. LineOK(said)
  BY DEF RecordInv, SaidOK
<1>2. /\ Len(coin.burns) \in Nat /\ Len(coin'.burns) \in Nat
      /\ \A a \in Recipients : coin.paid[a] \in Nat /\ coin'.paid[a] \in Nat
  BY DEF RecordInv, CoinOK
<1>3. (said.kind = "record" => Line(said))' /\ Silent(said)'
  BY <1>1 DEF LineOK, Line, Silent, Reveals
<1>4. SplitHolds(said)'
  BY <1>1 DEF LineOK, SplitHolds, Grown, Reveals
<1>5. BurnsHold(said)'
  BY <1>1, <1>2, CoinAssumption DEF LineOK, BurnsHold, Grown, Reveals
<1>6. SumsHold(said)'
  BY <1>1, <1>2 DEF LineOK, SumsHold, Grown
<1>7. StandingHolds(said)'
  BY <1>1 DEF LineOK, StandingHolds, Grown
<1> QED BY <1>3, <1>4, <1>5, <1>6, <1>7 DEF LineOK

LEMMA StoreKept ==
  ASSUME RecordInv, CoinOK', Grown, store' = store
  PROVE  StoreOK'
<1>1. /\ Len(coin.burns) \in Nat /\ Len(coin'.burns) \in Nat
      /\ \A a \in Recipients : coin.paid[a] \in Nat /\ coin'.paid[a] \in Nat
  BY DEF RecordInv, CoinOK
<1>2. \A a \in Recipients : store.inflow[a].sum \in Nat
  BY DEF RecordInv, StoreOK
<1> QED BY <1>1, <1>2 DEF RecordInv, StoreOK, Grown

\* The walks of the store.
LEMMA ScanOK ==
  ASSUME RecordInv, Scan
  PROVE  StoreOK' /\ coin' = coin /\ faults' \in Nat
<1>0. /\ CoinOK /\ faults \in Nat
      /\ Len(coin.burns) \in Nat /\ \A a \in Recipients : coin.paid[a] \in Nat
  BY CoinIs DEF RecordInv, FileOK
<1>1. /\ store = [inflow |-> store.inflow, walked |-> store.walked, seen |-> store.seen,
                  initial |-> store.initial, recorded |-> store.recorded]
      /\ store.inflow \in [Recipients -> [done : BOOLEAN, sum : Nat]]
      /\ store.walked \in BOOLEAN /\ store.seen \in Nat /\ store.seen <= Len(coin.burns)
      /\ store.initial \in {"underived", "known", "unreachable"} /\ store.recorded \in BOOLEAN
      /\ \A a \in Recipients :
           /\ store.inflow[a].done \in BOOLEAN /\ store.inflow[a].sum \in Nat
           /\ store.inflow[a].sum <= coin.paid[a]
  BY DEF RecordInv, StoreOK
<1>2. \A condition : Count(condition) \in Nat
  BY DEF Count
<1>3. ASSUME NEW a \in Recipients, WalkInflow(a)
      PROVE StoreOK' /\ coin' = coin /\ faults' \in Nat
  <2>1. PICK sum \in store.inflow[a].sum .. coin.paid[a], reached \in BOOLEAN, pruned \in BOOLEAN :
          /\ store' = [store EXCEPT !.inflow[a] = [done |-> @.done \/ reached, sum |-> sum]]
          /\ Costs(Count(pruned))
    BY <1>3 DEF WalkInflow
  <2>2. PICK done \in BOOLEAN : done = (store.inflow[a].done \/ reached)
    OBVIOUS
  <2> DEFINE inflow == [store.inflow EXCEPT ![a] = [done |-> done, sum |-> sum]]
  <2>3. store' = [store EXCEPT !.inflow = inflow]
    BY <2>1, <2>2
  <2>4. sum \in Nat /\ sum <= coin.paid[a]
    BY <1>0, <1>1
  <2>5. /\ inflow \in [Recipients -> [done : BOOLEAN, sum : Nat]]
        /\ \A b \in Recipients : inflow[b].sum <= coin.paid[b]
    BY <1>1, <2>2, <2>4
  <2> HIDE DEF inflow
  <2>6. store' = [inflow |-> inflow, walked |-> store.walked, seen |-> store.seen,
                  initial |-> store.initial, recorded |-> store.recorded]
    BY <1>1, <2>3
  <2>7. coin' = coin /\ faults' \in Nat
    BY <1>0, <1>2, <1>3, <2>1 DEF WalkInflow, Costs
  <2>8. StoreOK'
    BY <1>1, <2>5, <2>6, <2>7 DEF StoreOK
  <2> QED BY <2>7, <2>8
<1>4. CASE WalkBurns
  <2>1. PICK seen \in store.seen .. Len(coin.burns) :
          store' = [store EXCEPT !.seen = seen, !.walked = @ \/ seen = Len(coin.burns)]
    BY <1>4 DEF WalkBurns
  <2>2. PICK walked \in BOOLEAN : walked = (store.walked \/ seen = Len(coin.burns))
    OBVIOUS
  <2>3. store' = [inflow |-> store.inflow, walked |-> walked, seen |-> seen,
                  initial |-> store.initial, recorded |-> store.recorded]
    BY <1>1, <2>1, <2>2
  <2>4. seen \in Nat /\ seen <= Len(coin.burns)
    BY <1>0, <1>1
  <2>5. coin' = coin /\ faults' \in Nat
    BY <1>0, <1>4 DEF WalkBurns
  <2>6. StoreOK'
    BY <1>1, <2>2, <2>3, <2>4, <2>5 DEF StoreOK
  <2> QED BY <2>5, <2>6
<1>5. CASE DeriveInitial
  <2>1. PICK answer \in {"known", "unreachable"} :
          store' = [store EXCEPT !.initial = answer] /\ Costs(Count(answer = "unreachable"))
    BY <1>5 DEF DeriveInitial, RecordInitial
  <2>2. store' = [inflow |-> store.inflow, walked |-> store.walked, seen |-> store.seen,
                  initial |-> answer, recorded |-> store.recorded]
    BY <1>1, <2>1
  <2>3. coin' = coin /\ faults' \in Nat
    BY <1>0, <1>2, <1>5, <2>1 DEF DeriveInitial, Costs
  <2>4. StoreOK'
    BY <1>1, <2>2, <2>3 DEF StoreOK
  <2> QED BY <2>3, <2>4
<1>6. CASE Sweep
  <2>1. store' = [inflow |-> store.inflow, walked |-> store.walked, seen |-> store.seen,
                  initial |-> store.initial, recorded |-> TRUE]
    BY <1>1, <1>6 DEF Sweep, RecordConfig
  <2>2. coin' = coin /\ faults' \in Nat
    BY <1>0, <1>6 DEF Sweep
  <2>3. StoreOK'
    BY <1>1, <2>1, <2>2 DEF StoreOK
  <2> QED BY <2>2, <2>3
<1> QED BY <1>3, <1>4, <1>5, <1>6 DEF Scan

\* A surface that fails to read an address costs a fault for it.
LEMMA FaultsCounted ==
  ASSUME RecordInv, Surfaces
  PROVE  coin' = coin /\ store' = store /\ file' = file /\ faults' \in Nat
<1>0. faults \in Nat
  BY DEF RecordInv, FileOK
<1>1. CASE Observe
  <2>1. PICK failed \in SUBSET OnLeg("sol_burn") : Costs(Cardinality(failed))
    BY <1>1 DEF Observe
  <2>2. IsFiniteSet(Addresses)
    BY CoinAssumption DEF RecordInv, CoinOK, Addresses
  <2>3. IsFiniteSet(failed)
    BY <2>2, FS_Subset DEF OnLeg
  <2>4. faults' \in Nat
    BY <1>0, <2>1, <2>3, FS_CardinalityType DEF Costs
  <2> QED BY <1>1, <2>4 DEF Observe
<1>2. CASE ObserveFails
  BY <1>0, <1>2 DEF ObserveFails, Costs
<1>3. CASE Refresh \/ Verify \/ Index \/ Landing \/ Reconcile
  BY <1>0, <1>3 DEF Refresh, Verify, Index, Landing, Reconcile
<1> QED BY <1>1, <1>2, <1>3 DEF Surfaces

LEMMA SameCoin ==
  ASSUME RecordInv, coin' = coin, store' = store
  PROVE  CoinOK' /\ StoreOK'
BY DEF RecordInv, CoinOK, StoreOK

LEMMA SameLine ==
  ASSUME RecordInv, coin' = coin, said' = said \/ LineOK(said')
  PROVE  SaidOK'
<1> SUFFICES ASSUME said' # None PROVE LineOK(said)'
  BY DEF SaidOK
<1>1. LineOK(said')
  BY DEF RecordInv, SaidOK
<1> QED BY <1>1 DEF LineOK, Line, Silent, SplitHolds, BurnsHold, SumsHold, StandingHolds, Reveals

--------------------------------------------------------------------------------
(* The burns of the wallet. *)

LEMMA KnownRows == ASSUME RecordInv PROVE Known \subseteq Nat
<1>1. file = None \/ file \in Files
  BY DEF RecordInv, FileOK
<1>2. ASSUME file \in Files PROVE file.rows \subseteq Nat
  BY <1>2 DEF Files
<1> QED BY <1>1, <1>2 DEF Known

\* What a walk writes.
LEMMA WalkWrites ==
  ASSUME RecordInv, NEW listed \in SUBSET Full, NEW unread \in SUBSET listed,
         WalkWallet(listed, unread)
  PROVE  /\ file' \in Files /\ file' # None
         /\ file'.rows = Known \cup {k \in Unseen(listed) \ unread : Qualifies(k)}
<1> DEFINE rows == Known \cup {k \in Unseen(listed) \ unread : Qualifies(k)}
<1>1. listed \subseteq Nat
  <2>1. DOMAIN coin.burns \subseteq Nat
    BY DEF RecordInv, CoinOK
  <2> QED BY <2>1 DEF Full, Newest, ByWallet
<1>2. rows \subseteq Nat
  BY <1>1, KnownRows DEF Unseen
<1>3. PICK complete \in BOOLEAN : complete = (unread = {} /\ Cardinality(listed) < Page)
  OBVIOUS
<1>4. file' = [rows |-> rows, complete |-> complete]
  BY <1>3 DEF WalkWallet
<1> HIDE DEF rows
<1>5. file' \in Files /\ file'.rows = rows /\ file'.complete = complete
  BY <1>2, <1>4 DEF Files
<1>6. file' # None
  BY <1>5, RecordAssumption DEF Files
<1> QED BY <1>3, <1>5, <1>6 DEF rows

LEMMA RecordStep == RecordInv /\ [RecordNext]_recordVars => RecordInv'
<1> SUFFICES ASSUME RecordInv, [RecordNext]_recordVars PROVE RecordInv'
  OBVIOUS
<1>0. faults \in Nat /\ (file = None \/ file \in Files)
  BY DEF RecordInv, FileOK
<1>1. CASE World /\ UNCHANGED <<said, file>>
  <2>1. CoinOK' /\ Grown /\ store' = store /\ faults' \in Nat
    BY <1>1, WorldGrows
  <2>2. SaidOK'
    BY <1>1, <2>1, SaidKept
  <2>3. StoreOK'
    BY <2>1, StoreKept
  <2>4. FileOK'
    BY <1>0, <1>1, <2>1 DEF FileOK
  <2> QED BY <2>1, <2>2, <2>3, <2>4 DEF RecordInv
<1>2. CASE Scan /\ UNCHANGED <<said, file>>
  <2>1. StoreOK' /\ coin' = coin /\ faults' \in Nat
    BY <1>2, ScanOK
  <2>2. CoinOK'
    BY <2>1 DEF RecordInv, CoinOK
  <2>3. SaidOK'
    BY <1>2, <2>1, SameLine
  <2>4. FileOK'
    BY <1>0, <1>2, <2>1 DEF FileOK
  <2> QED BY <2>1, <2>2, <2>3, <2>4 DEF RecordInv
<1>3. CASE Surfaces
  <2>1. coin' = coin /\ store' = store /\ file' = file /\ faults' \in Nat
    BY <1>3, FaultsCounted
  <2>2. CoinOK' /\ StoreOK'
    BY <2>1, SameCoin
  <2>3. LineOK(said')
    BY <1>3, SurfacesOK
  <2>4. SaidOK'
    BY <2>1, <2>3, SameLine
  <2>5. FileOK'
    BY <1>0, <2>1 DEF FileOK
  <2> QED BY <2>2, <2>4, <2>5 DEF RecordInv
<1>4. CASE Walk
  <2>0. PICK listed \in SUBSET Full : \E unread \in SUBSET listed :
          WalkWallet(listed, unread) /\ Costs(Count(listed # Full \/ unread # {}))
    BY <1>4 DEF Walk
  <2>1. PICK unread \in SUBSET listed :
          WalkWallet(listed, unread) /\ Costs(Count(listed # Full \/ unread # {}))
    BY <2>0
  <2>2. coin' = coin /\ store' = store /\ said' = said
    BY <2>1 DEF WalkWallet
  <2>3. file' \in Files
    BY <2>1, WalkWrites
  <2>4. faults' \in Nat
    BY <1>0, <2>1 DEF Costs, Count
  <2>5. CoinOK' /\ StoreOK'
    BY <2>2, SameCoin
  <2>6. SaidOK'
    BY <2>2, SameLine
  <2> QED BY <2>3, <2>4, <2>5, <2>6 DEF RecordInv, FileOK
<1>5. CASE UNCHANGED recordVars
  <2>1. coin' = coin /\ store' = store /\ said' = said /\ file' = file /\ faults' = faults
    BY <1>5 DEF recordVars
  <2>2. CoinOK' /\ StoreOK'
    BY <2>1, SameCoin
  <2>3. SaidOK'
    BY <2>1, SameLine
  <2> QED BY <1>0, <2>1, <2>2, <2>3 DEF RecordInv, FileOK
<1> QED BY <1>1, <1>2, <1>3, <1>4, <1>5 DEF RecordNext

LEMMA RecordKept == RecordSpec => []RecordInv
<1> QED BY RecordStart, RecordStep, PTL DEF RecordSpec

\* A figure whose checks did not all pass is on no surface: not on a page, not in
\* a record of either schema when the log is replayed, and not on an index written
\* of one (publish: `durable_record', `gate_stored_record').
THEOREM WithheldIsWithheld == RecordSpec => []WithheldIsNotShown
<1>1. RecordInv => WithheldIsNotShown
  BY DEF RecordInv, SaidOK, LineOK, Silent, WithheldIsNotShown
<1> QED BY <1>1, RecordKept, PTL

\* What was said of a coin last is true of it, whatever the chain, the walks and
\* the readers have done since: a split shown is whole, what is called destroyed
\* was destroyed, no total is above what was paid, and what is said for good
\* holds for good (the silence rule).
THEOREM WhatIsShownHolds == RecordSpec => []ShownHolds
<1>1. RecordInv => ShownHolds
  <2> SUFFICES ASSUME RecordInv, said # None PROVE ShownHolds
    BY DEF ShownHolds
  <2>1. LineOK(said)
    BY DEF RecordInv, SaidOK
  <2>2. "split" \in Reveals(said) => Total(said.split) = TotalBps /\ coin.config.own
    BY <2>1 DEF LineOK, SplitHolds
  <2>3. /\ "supply_destroyed" \in Reveals(said) =>
             /\ ~coin.authority /\ said.destroyed <= Len(coin.burns)
             /\ Initial - said.destroyed = said.supply
        /\ said.kind \in {"page", "landing"} => said.events <= Len(coin.burns)
    BY <2>1 DEF LineOK, BurnsHold
  <2>4. said.kind = "record" => \A a \in DOMAIN said.sums : said.sums[a] <= coin.paid[a]
    BY <2>1 DEF LineOK, SumsHold
  <2>5. /\ said.kind = "page" /\ said.enrolled = "fixed" =>
             coin.creator = "other" \/ ProtocolShare(coin.config.split)
        /\ said.kind = "replaced" => ~Splits
    BY <2>1 DEF LineOK, StandingHolds, Splits
  <2> QED BY <2>2, <2>3, <2>4, <2>5 DEF ShownHolds
<1> QED BY <1>1, RecordKept, PTL

\* One walk of the wallet's history: nothing read is lost, and a walk that failed in
\* nothing has every burn of the page.
LEMMA WalkReads ==
  ASSUME RecordInv, Walk
  PROVE  /\ Known \subseteq Known'
         /\ file' # file /\ faults' = faults =>
              \A k \in Full : Qualifies(k) => k \in Known'
<1>0. PICK listed \in SUBSET Full : \E unread \in SUBSET listed :
        WalkWallet(listed, unread) /\ Costs(Count(listed # Full \/ unread # {}))
  BY DEF Walk
<1>1. PICK unread \in SUBSET listed :
        WalkWallet(listed, unread) /\ Costs(Count(listed # Full \/ unread # {}))
  BY <1>0
<1>2. /\ file' \in Files /\ file' # None
      /\ file'.rows = Known \cup {k \in Unseen(listed) \ unread : Qualifies(k)}
  BY <1>1, WalkWrites
<1>3. Known' = file'.rows
  BY <1>2 DEF Known
<1>4. Known \subseteq Known'
  BY <1>2, <1>3
<1>5. ASSUME faults' = faults PROVE listed = Full /\ unread = {}
  <2>1. faults \in Nat
    BY DEF RecordInv, FileOK
  <2>2. Count(listed # Full \/ unread # {}) \in {0, 1}
    BY DEF Count
  <2>3. Count(listed # Full \/ unread # {}) = 0
    BY <1>1, <1>5, <2>1, <2>2 DEF Costs
  <2> QED BY <2>3 DEF Count
<1>6. ASSUME faults' = faults, NEW k \in Full, Qualifies(k) PROVE k \in Known'
  BY <1>2, <1>3, <1>5, <1>6 DEF Unseen
<1> QED BY <1>4, <1>6

\* No walk of the wallet's history loses a burn read before, however short the node's
\* list is, and one that the node listed and answered for in full leaves out none of
\* the page that qualifies, whatever earlier walks could not read (protocol_burns).
THEOREM EveryBurnIsRead == RecordSpec => BurnsAreRead
<1>1. ASSUME RecordInv, [RecordNext]_recordVars
      PROVE  [/\ Known \subseteq Known'
              /\ file' # file /\ faults' = faults =>
                   \A k \in Full : Qualifies(k) => k \in Known']_recordVars
  <2>1. CASE file' = file
    BY <2>1 DEF Known
  <2>2. CASE file' # file
    <3>1. Walk
      BY <1>1, <2>2, FaultsCounted DEF RecordNext, recordVars
    <3> QED BY <1>1, <3>1, WalkReads
  <2> QED BY <2>1, <2>2
<1> QED BY <1>1, RecordKept, PTL DEF RecordSpec, BurnsAreRead
================================================================================
