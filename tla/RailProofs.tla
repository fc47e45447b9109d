------------------------------- MODULE RailProofs -------------------------------
(***************************************************************************)
(* What the rail keeps, for any number of coins and wallets, any routes,   *)
(* thresholds and fees, and whatever the keeper has in flight.             *)
(*                                                                         *)
(* RInv is inductive: FeesAccounted alone is not, for a launch writes a    *)
(* coin's totals as zeros, which NoTotals says they were.  All cranks end  *)
(* in one Pass, which hands on what it finds: PassKept says so once.  That *)
(* the legs fit, and leave at most two lamports, is arithmetic             *)
(* (ThreeSharesNear).                                                      *)
(***************************************************************************)
EXTENDS RailKeeper, ArithmeticProofs

\* A coin that is not launched has no totals.
NoTotals(c) == route[c].open \/ (route[c].coins = 0 /\ route[c].burned = 0 /\ route[c].paid = 0)

RInv == /\ RailTypeOK /\ FeesAccounted /\ CharlieAccounted /\ DustIsBounded
        /\ \A c \in Coins : NoTotals(c)

Routes  == [open : BOOLEAN, split : Splits, pool : BOOLEAN, coins : Nat, burned : Nat, paid : Nat]
Holding == [quote : Nat, coins : Nat, dust : Nat]
Deed    == [earned : Nat, coins : Nat, bought : Nat, shared : Nat, passes : Nat]
Pot     == [curve : Nat, quote : Nat, coins : Nat, lpQuote : Nat, lpCoins : Nat]

\* The parts of RailTypeOK that the programs change.
ProgramTypeOK ==
    /\ platform \in [open : BOOLEAN, admin : Admins \cup {NoOne}, paused : BOOLEAN, raydium : BOOLEAN]
    /\ quote \in [open : BOOLEAN, enabled : BOOLEAN, min : Nat]
    /\ route \in [Coins -> Routes]
    /\ \A c \in Coins : route[c].open =>
          route[c].split.sol + route[c].split.own + route[c].split.ops = Whole
HoldsTypeOK ==
    /\ collect \in [Coins -> Holding]
    /\ signer \in [quote : Nat, dust : Nat, paid : Nat]
    /\ wallet \in [Wallets -> Nat]
    /\ trading \in [Coins -> {"none", "curve", "full", "cpmm"}]
    /\ pots \in [Coins -> Pot]
    /\ vault \in Nat
    /\ record \in [coin : [Coins -> Deed], platform : Nat, strays : Nat]
KeeperTypeOK ==
    /\ keeper \in [min : Nat, todo : SUBSET (Coins \cup {Vault}), jobs : SUBSET Jobs]
    /\ flight \subseteq Jobs

LEMMA TypeParts == RailTypeOK <=> ProgramTypeOK /\ HoldsTypeOK /\ KeeperTypeOK
BY DEF RailTypeOK, ProgramTypeOK, HoldsTypeOK, KeeperTypeOK, Routes, Holding, Deed, Pot

\* A coin's part of the invariant, as one statement of its numbers.
Accounted(c) == /\ QuoteAccounted(c) /\ CoinsAccounted(c) /\ NoTotals(c)
                /\ collect[c].dust <= 2 * record.coin[c].passes

\* The invariant of the accounts, without the keeper's.
AInv == ProgramTypeOK /\ HoldsTypeOK /\ CharlieAccounted /\ \A c \in Coins : Accounted(c)

LEMMA InvParts == RInv <=> AInv /\ KeeperTypeOK
BY TypeParts DEF RInv, AInv, Accounted, FeesAccounted, DustIsBounded

--------------------------------------------------------------------------------

\* The legs of a route fit in what is routed, and leave at most two lamports of
\* it (split_legs); below min_crank all of it is left (route_cpmm).
LEMMA RoutedFacts ==
  ASSUME ProgramTypeOK, NEW c \in Coins, route[c].open, NEW q \in Nat
  PROVE  /\ Routed(c, q).sol \in Nat /\ Routed(c, q).own \in Nat /\ Routed(c, q).ops \in Nat
         /\ Left(c, q) = q - Routed(c, q).sol - Routed(c, q).own - Routed(c, q).ops
         /\ Left(c, q) \in Nat
         /\ Enough(q) => Left(c, q) <= 2
         /\ ~Enough(q) => Routed(c, q).sol = 0 /\ Routed(c, q).own = 0 /\ Routed(c, q).ops = 0
<1> DEFINE s == route[c].split
<1>1. s.sol \in Nat /\ s.own \in Nat /\ s.ops \in Nat /\ s.sol + s.own + s.ops = Whole
  BY WholeAssumption DEF ProgramTypeOK, Routes, Splits
<1>2. /\ Share(q, s.sol) \in Nat /\ Share(q, s.own) \in Nat /\ Share(q, s.ops) \in Nat
      /\ q - Share(q, s.sol) - Share(q, s.own) - Share(q, s.ops) \in 0..2
  BY <1>1, ThreeSharesNear, WholeAssumption DEF Share
<1>3. CASE Enough(q)
  <2>1. Routed(c, q) = [sol |-> Share(q, s.sol), own |-> Share(q, s.own), ops |-> Share(q, s.ops)]
    BY <1>3 DEF Routed, Legs
  <2> QED BY <1>2, <1>3, <2>1 DEF Left
<1>4. CASE ~Enough(q)
  <2>1. Routed(c, q) = [sol |-> 0, own |-> 0, ops |-> 0]
    BY <1>4 DEF Routed, NoLegs
  <2> QED BY <1>4, <2>1 DEF Left
<1> QED BY <1>3, <1>4

HandedOn(c, q, coins, share) ==
  /\ route[c].open /\ route' \in [Coins -> Routes] /\ collect' \in [Coins -> Holding]
  /\ wallet' \in [Wallets -> Nat]
  /\ record' \in [coin : [Coins -> Deed], platform : Nat, strays : Nat]
  /\ \A d \in Coins : route'[d].open = route[d].open /\ route'[d].split = route[d].split
  /\ \A d \in Coins \ {c} : route'[d] = route[d] /\ collect'[d] = collect[d]
                            /\ record'.coin[d] = record.coin[d]
  /\ record'.platform = record.platform /\ record'.strays = record.strays
  /\ record'.coin[c].earned = record.coin[c].earned /\ record'.coin[c].coins = record.coin[c].coins
  /\ record'.coin[c].shared = record.coin[c].shared + share
  /\ collect'[c].quote + collect'[c].dust + record'.coin[c].bought + route'[c].burned + route'[c].paid
       = q + collect[c].dust + record.coin[c].bought + route[c].burned + route[c].paid
  /\ collect'[c].coins = 0
  /\ route'[c].coins + record.coin[c].bought
       = route[c].coins + record'.coin[c].bought + collect[c].coins + coins
  /\ collect[c].dust <= 2 * record.coin[c].passes => collect'[c].dust <= 2 * record'.coin[c].passes

\* A crank hands on what it found: what the coin's accounts, totals and history
\* gain together is what was claimed.
LEMMA PassKept ==
  ASSUME ProgramTypeOK, HoldsTypeOK, NEW c \in Coins, NEW ops, NEW q \in Nat, NEW coins \in Nat,
         NEW pool \in BOOLEAN, NEW share \in Nat, Pass(c, ops, q, coins, pool, share)
  PROVE  HandedOn(c, q, coins, share)
<1> DEFINE sol == Routed(c, q).sol  own == Routed(c, q).own  paid == Routed(c, q).ops
<1>1. /\ sol \in Nat /\ own \in Nat /\ paid \in Nat /\ Left(c, q) \in Nat
      /\ Left(c, q) = q - sol - own - paid
      /\ Enough(q) => Left(c, q) <= 2
      /\ ~Enough(q) => sol = 0 /\ own = 0 /\ paid = 0
  BY RoutedFacts DEF Pass, Passes
<1>2. route[c] \in Routes /\ collect[c] \in Holding /\ record.coin[c] \in Deed
  BY DEF ProgramTypeOK, HoldsTypeOK
<1>3. /\ route' = [route EXCEPT ![c] = Counted(c, q, collect[c].coins + coins, pool)]
      /\ collect' = [collect EXCEPT ![c] = Kept(c, q)]
      /\ wallet' = [x \in Wallets |-> wallet[x] + (IF x = ops THEN paid ELSE 0)]
      /\ record' = [record EXCEPT !.coin[c] = Done(c, q, share)] /\ route[c].open
  BY DEF Pass, Passes
<1>4. Counted(c, q, collect[c].coins + coins, pool) =
        [open |-> route[c].open, split |-> route[c].split, pool |-> pool,
         coins |-> route[c].coins + (collect[c].coins + coins) + own,
         burned |-> route[c].burned + sol, paid |-> route[c].paid + paid]
  BY <1>2, <1>3 DEF Counted, ProgramTypeOK, Routes
<1>5. Kept(c, q) = IF Enough(q) THEN [quote |-> 0, coins |-> 0, dust |-> collect[c].dust + Left(c, q)]
                                ELSE [quote |-> q, coins |-> 0, dust |-> collect[c].dust]
  BY DEF Kept
<1> DEFINE deed == [earned |-> record.coin[c].earned, coins |-> record.coin[c].coins,
                    bought |-> record.coin[c].bought + own, shared |-> record.coin[c].shared + share,
                    passes |-> record.coin[c].passes + (IF Enough(q) THEN 1 ELSE 0)]
<1>6. record' = [coin |-> [record.coin EXCEPT ![c] = deed], platform |-> record.platform, strays |-> record.strays]
  <2>1. deed = Done(c, q, share)
    BY DEF Done
  <2> HIDE DEF deed
  <2> QED BY <1>3, <2>1 DEF HoldsTypeOK
<1> HIDE DEF sol, own, paid
<1>7. deed \in Deed
  BY <1>1, <1>2 DEF Deed
<1>8. Counted(c, q, collect[c].coins + coins, pool) \in Routes
  BY <1>1, <1>2, <1>4 DEF Routes, Holding
<1>9. Kept(c, q) \in Holding
  BY <1>1, <1>2, <1>5 DEF Holding
<1>10. /\ route' \in [Coins -> Routes] /\ collect' \in [Coins -> Holding]
       /\ route'[c] = Counted(c, q, collect[c].coins + coins, pool) /\ collect'[c] = Kept(c, q)
       /\ \A d \in Coins \ {c} : route'[d] = route[d] /\ collect'[d] = collect[d]
  BY <1>3, <1>8, <1>9 DEF ProgramTypeOK, HoldsTypeOK
<1>11. wallet' \in [Wallets -> Nat]
  BY <1>1, <1>3 DEF HoldsTypeOK
<1> HIDE DEF deed
<1>12. /\ record' \in [coin : [Coins -> Deed], platform : Nat, strays : Nat]
       /\ record'.platform = record.platform /\ record'.strays = record.strays
       /\ record'.coin[c] = deed /\ \A d \in Coins \ {c} : record'.coin[d] = record.coin[d]
  BY <1>6, <1>7 DEF HoldsTypeOK
<1>13. \A d \in Coins : route'[d].open = route[d].open /\ route'[d].split = route[d].split
  BY <1>4, <1>10
<1>14. /\ record'.coin[c].earned = record.coin[c].earned /\ record'.coin[c].coins = record.coin[c].coins
       /\ record'.coin[c].shared = record.coin[c].shared + share
       /\ record'.coin[c].bought = record.coin[c].bought + own
       /\ record'.coin[c].passes = record.coin[c].passes + (IF Enough(q) THEN 1 ELSE 0)
  BY <1>12 DEF deed
<1>15. /\ route'[c].coins = route[c].coins + (collect[c].coins + coins) + own
       /\ route'[c].burned = route[c].burned + sol /\ route'[c].paid = route[c].paid + paid
  BY <1>4, <1>10
<1>16. /\ collect'[c].coins = 0
       /\ Enough(q) => collect'[c].quote = 0 /\ collect'[c].dust = collect[c].dust + Left(c, q)
       /\ ~Enough(q) => collect'[c].quote = q /\ collect'[c].dust = collect[c].dust
  BY <1>5, <1>10
<1>17. /\ route[c].coins \in Nat /\ route[c].burned \in Nat /\ route[c].paid \in Nat
       /\ collect[c].coins \in Nat /\ collect[c].dust \in Nat
       /\ record.coin[c].bought \in Nat /\ record.coin[c].passes \in Nat
  BY <1>2 DEF Routes, Holding, Deed
<1>18. collect'[c].quote + collect'[c].dust + record'.coin[c].bought + route'[c].burned + route'[c].paid
          = q + collect[c].dust + record.coin[c].bought + route[c].burned + route[c].paid
  <2>1. CASE Enough(q)
    BY <1>1, <1>14, <1>15, <1>16, <1>17, <2>1
  <2>2. CASE ~Enough(q)
    BY <1>1, <1>14, <1>15, <1>16, <1>17, <2>2
  <2> QED BY <2>1, <2>2
<1>19. route'[c].coins + record.coin[c].bought
          = route[c].coins + record'.coin[c].bought + collect[c].coins + coins
  BY <1>1, <1>14, <1>15, <1>17
<1>20. collect[c].dust <= 2 * record.coin[c].passes => collect'[c].dust <= 2 * record'.coin[c].passes
  BY <1>1, <1>14, <1>16, <1>17
<1> QED BY <1>3, <1>10, <1>11, <1>12, <1>13, <1>14, <1>16, <1>18, <1>19, <1>20 DEF HandedOn

--------------------------------------------------------------------------------

\* A coin none of whose accounts a step touches stays accounted for.
LEMMA Untouched ==
  ASSUME NEW c \in Coins, Accounted(c), pots'[c] = pots[c], collect'[c] = collect[c],
         route'[c] = route[c], record'.coin[c] = record.coin[c]
  PROVE  Accounted(c)'
BY DEF Accounted, QuoteAccounted, CoinsAccounted, NoTotals

\* Charlie's share of an LP claim is a part of it (crank_lp).
LEMMA CharlieFacts ==
  ASSUME NEW n \in Nat
  PROVE  Charlie(n) \in Nat /\ DevPart(n) \in Nat /\ Charlie(n) + DevPart(n) = n
<1>1. LpShare \in Nat /\ Whole - LpShare \in Nat /\ LpShare + (Whole - LpShare) + 0 = Whole
  BY RailAssumption, WholeAssumption
<1>2. /\ Share(n, LpShare) \in Nat /\ Share(n, Whole - LpShare) \in Nat /\ Share(n, 0) \in Nat
      /\ n - Share(n, LpShare) - Share(n, Whole - LpShare) - Share(n, 0) \in 0..2
  BY <1>1, ThreeSharesNear, WholeAssumption DEF Share
<1>3. Share(n, LpShare) <= n
  BY <1>2
<1> QED BY <1>2, <1>3 DEF Charlie, DevPart

\* What a crank takes from the pots it hands on, so its coin stays accounted for.
LEMMA CoinKept ==
  ASSUME ProgramTypeOK, HoldsTypeOK, ProgramTypeOK', HoldsTypeOK', NEW c \in Coins, Accounted(c),
         NEW q \in Nat, NEW coins \in Nat, NEW share \in Nat, HandedOn(c, q, coins, share),
         pots'[c].curve + pots'[c].quote + pots'[c].lpQuote + q + share
           = collect[c].quote + pots[c].curve + pots[c].quote + pots[c].lpQuote,
         pots'[c].coins + pots'[c].lpCoins + coins = pots[c].coins + pots[c].lpCoins
  PROVE  Accounted(c)'
<1>1. /\ pots[c] \in Pot /\ collect[c] \in Holding /\ route[c] \in Routes /\ record.coin[c] \in Deed
      /\ pots'[c] \in Pot /\ collect'[c] \in Holding /\ route'[c] \in Routes /\ record'.coin[c] \in Deed
  BY DEF ProgramTypeOK, HoldsTypeOK
<1>2. /\ pots[c].curve \in Nat /\ pots[c].quote \in Nat /\ pots[c].lpQuote \in Nat
      /\ pots[c].coins \in Nat /\ pots[c].lpCoins \in Nat
      /\ pots'[c].curve \in Nat /\ pots'[c].quote \in Nat /\ pots'[c].lpQuote \in Nat
      /\ pots'[c].coins \in Nat /\ pots'[c].lpCoins \in Nat
  BY <1>1 DEF Pot
<1>3. /\ collect[c].quote \in Nat /\ collect[c].dust \in Nat /\ collect[c].coins \in Nat
      /\ collect'[c].quote \in Nat /\ collect'[c].dust \in Nat
  BY <1>1 DEF Holding
<1>4. /\ route[c].coins \in Nat /\ route[c].burned \in Nat /\ route[c].paid \in Nat
      /\ route'[c].coins \in Nat /\ route'[c].burned \in Nat /\ route'[c].paid \in Nat
  BY <1>1 DEF Routes
<1>5. /\ record.coin[c].earned \in Nat /\ record.coin[c].coins \in Nat
      /\ record.coin[c].bought \in Nat /\ record.coin[c].shared \in Nat
      /\ record'.coin[c].bought \in Nat
  BY <1>1 DEF Deed
<1>6. QuoteAccounted(c)'
  <2> DEFINE earned == record.coin[c].earned
             waiting == pots[c].curve + pots[c].quote + pots[c].lpQuote
             waiting1 == pots'[c].curve + pots'[c].quote + pots'[c].lpQuote
             kept == collect[c].quote
             gone == collect[c].dust + record.coin[c].bought + route[c].burned + route[c].paid
             gone1 == collect'[c].quote + collect'[c].dust + record'.coin[c].bought
                        + route'[c].burned + route'[c].paid
             shared == record.coin[c].shared
  <2>1. /\ earned \in Nat /\ waiting \in Nat /\ waiting1 \in Nat /\ kept \in Nat
        /\ gone \in Nat /\ gone1 \in Nat /\ shared \in Nat
    BY <1>2, <1>3, <1>4, <1>5
  <2>2. earned = waiting + kept + gone + shared
    BY <1>2, <1>3, <1>4, <1>5 DEF Accounted, QuoteAccounted
  <2>3. gone1 = q + gone
    BY <1>2, <1>3, <1>4, <1>5 DEF HandedOn
  <2>4. waiting1 + q + share = waiting + kept
    BY <1>2, <1>3
  <2>5. /\ record'.coin[c].earned = earned
        /\ record'.coin[c].shared = shared + share
    BY DEF HandedOn
  <2>6. earned = waiting1 + gone1 + (shared + share)
    <3> HIDE DEF earned, waiting, waiting1, kept, gone, gone1, shared
    <3> QED BY <2>1, <2>2, <2>3, <2>4
  <2> QED BY <1>2, <1>3, <1>4, <1>5, <2>1, <2>5, <2>6 DEF QuoteAccounted
<1>7. CoinsAccounted(c)'
  <2> DEFINE all == record.coin[c].coins       kept == collect[c].coins
             bought == record.coin[c].bought   bought1 == record'.coin[c].bought
             burned == route[c].coins          burned1 == route'[c].coins
             waiting == pots[c].coins + pots[c].lpCoins
             waiting1 == pots'[c].coins + pots'[c].lpCoins
  <2>1. /\ all \in Nat /\ kept \in Nat /\ bought \in Nat /\ bought1 \in Nat
        /\ burned \in Nat /\ burned1 \in Nat /\ waiting \in Nat /\ waiting1 \in Nat
    BY <1>2, <1>3, <1>4, <1>5
  <2>2. all + bought = waiting + kept + burned
    BY DEF Accounted, CoinsAccounted
  <2>3. burned1 + bought = burned + bought1 + kept + coins
    BY DEF HandedOn
  <2>4. waiting1 + coins = waiting
    OBVIOUS
  <2>5. collect'[c].coins = 0 /\ record'.coin[c].coins = all
    BY DEF HandedOn
  <2>6. all + bought1 = waiting1 + 0 + burned1
    <3> HIDE DEF all, kept, bought, bought1, burned, burned1, waiting, waiting1
    <3> QED BY <2>1, <2>2, <2>3, <2>4
  <2> QED BY <2>5, <2>6 DEF CoinsAccounted
<1> QED BY <1>6, <1>7 DEF Accounted, HandedOn, NoTotals

\* A crank that takes from the pots what it routes and shares keeps the accounts.
LEMMA CrankKept ==
  ASSUME AInv, NEW c \in Coins, NEW ops, NEW q \in Nat, NEW coins \in Nat,
         NEW pool \in BOOLEAN, NEW share \in Nat, Pass(c, ops, q, coins, pool, share),
         UNCHANGED <<platform, quote, trading, vault>>,
         signer' \in [quote : Nat, dust : Nat, paid : Nat], signer'.paid = signer.paid,
         signer'.quote + signer'.dust = signer.quote + signer.dust,
         NEW pot \in Pot, pots' = [pots EXCEPT ![c] = pot],
         pot.curve + pot.quote + pot.lpQuote + q + share
           = collect[c].quote + pots[c].curve + pots[c].quote + pots[c].lpQuote,
         pot.coins + pot.lpCoins + coins = pots[c].coins + pots[c].lpCoins
  PROVE  AInv'
<1>1. ProgramTypeOK /\ HoldsTypeOK /\ CharlieAccounted /\ \A d \in Coins : Accounted(d)
  BY DEF AInv
<1>2. HandedOn(c, q, coins, share)
  BY <1>1, PassKept
<1>3. /\ pots' \in [Coins -> Pot] /\ pots'[c] = pot /\ \A d \in Coins \ {c} : pots'[d] = pots[d]
  BY <1>1 DEF HoldsTypeOK
<1>4. ProgramTypeOK'
  BY <1>1, <1>2 DEF ProgramTypeOK, HandedOn
<1>5. HoldsTypeOK'
  BY <1>1, <1>2, <1>3 DEF HoldsTypeOK, HandedOn
<1>6. CharlieAccounted'
  <2>1. record'.platform = record.platform /\ record'.strays = record.strays /\ vault' = vault
    BY <1>2 DEF HandedOn
  <2>2. /\ record.platform \in Nat /\ record.strays \in Nat /\ vault \in Nat
        /\ signer.quote \in Nat /\ signer.dust \in Nat /\ signer.paid \in Nat
        /\ signer'.quote \in Nat /\ signer'.dust \in Nat
    BY <1>1 DEF HoldsTypeOK
  <2> QED BY <1>1, <2>1, <2>2 DEF CharlieAccounted
<1>7. ASSUME NEW d \in Coins \ {c} PROVE Accounted(d)'
  BY <1>1, <1>2, <1>3, Untouched DEF HandedOn
<1>8. Accounted(c)'
  <2>1. /\ pots'[c].curve + pots'[c].quote + pots'[c].lpQuote + q + share
             = collect[c].quote + pots[c].curve + pots[c].quote + pots[c].lpQuote
        /\ pots'[c].coins + pots'[c].lpCoins + coins = pots[c].coins + pots[c].lpCoins
    BY <1>3
  <2> QED BY <1>1, <1>2, <1>4, <1>5, <2>1, CoinKept
<1> QED BY <1>4, <1>5, <1>6, <1>7, <1>8 DEF AInv

LEMMA CurveKept ==
  ASSUME AInv, NEW c \in Coins, NEW a, NEW ops, CrankCurve(a, c, ops)
  PROVE  AInv'
<1> DEFINE q == OnCurve(c)  pool == route[c].pool  pot == [pots[c] EXCEPT !.curve = 0]
<1>1. /\ pots[c] \in Pot /\ collect[c] \in Holding /\ route[c] \in Routes /\ pots \in [Coins -> Pot]
      /\ signer \in [quote : Nat, dust : Nat, paid : Nat]
  BY DEF AInv, ProgramTypeOK, HoldsTypeOK
<1>2. q \in Nat /\ q = collect[c].quote + pots[c].curve /\ pool \in BOOLEAN
  BY <1>1 DEF OnCurve, Pot, Holding, Routes
<1>3. pot \in Pot /\ pots' = [pots EXCEPT ![c] = pot]
  BY <1>1 DEF CrankCurve, Pot
<1>4. /\ pot.curve + pot.quote + pot.lpQuote + q + 0
           = collect[c].quote + pots[c].curve + pots[c].quote + pots[c].lpQuote
      /\ pot.coins + pot.lpCoins + 0 = pots[c].coins + pots[c].lpCoins
  BY <1>1, <1>2 DEF Pot, Holding
<1>5. /\ Pass(c, ops, q, 0, pool, 0)
      /\ UNCHANGED <<platform, quote, signer, trading, vault>>
  BY DEF CrankCurve
<1> HIDE DEF q, pot, pool
<1>6. CASE pool = TRUE
  BY <1>1, <1>2, <1>3, <1>4, <1>5, <1>6, CrankKept
<1>7. CASE pool = FALSE
  BY <1>1, <1>2, <1>3, <1>4, <1>5, <1>7, CrankKept
<1> QED BY <1>2, <1>6, <1>7

LEMMA AmmKept ==
  ASSUME AInv, NEW c \in Coins, NEW a, NEW ops, CrankAmmCreator(a, c, ops)
  PROVE  AInv'
<1> DEFINE q == InPool(c)  coins == pots[c].coins  pot == [pots[c] EXCEPT !.quote = 0, !.coins = 0]
<1>1. /\ pots[c] \in Pot /\ collect[c] \in Holding /\ pots \in [Coins -> Pot]
      /\ signer \in [quote : Nat, dust : Nat, paid : Nat]
  BY DEF AInv, ProgramTypeOK, HoldsTypeOK
<1>2. q \in Nat /\ q = collect[c].quote + pots[c].quote /\ coins \in Nat
  BY <1>1 DEF InPool, Pot, Holding
<1>3. pot \in Pot /\ pots' = [pots EXCEPT ![c] = pot]
  BY <1>1 DEF CrankAmmCreator, Pot
<1>4. /\ pot.curve + pot.quote + pot.lpQuote + q + 0
           = collect[c].quote + pots[c].curve + pots[c].quote + pots[c].lpQuote
      /\ pot.coins + pot.lpCoins + coins = pots[c].coins + pots[c].lpCoins
  BY <1>1, <1>2 DEF Pot, Holding
<1>5. /\ Pass(c, ops, q, coins, TRUE, 0)
      /\ UNCHANGED <<platform, quote, signer, trading, vault>>
  BY DEF CrankAmmCreator
<1> HIDE DEF q, pot, coins
<1> QED BY <1>1, <1>2, <1>3, <1>4, <1>5, CrankKept

LEMMA LpKept ==
  ASSUME AInv, NEW c \in Coins, NEW a, NEW ops, CrankLp(a, c, ops)
  PROVE  AInv'
<1> DEFINE q == Claimed(c)  coins == pots[c].lpCoins  share == Charlie(pots[c].lpQuote)
           pot == [pots[c] EXCEPT !.lpQuote = 0, !.lpCoins = 0]
<1>1. /\ pots[c] \in Pot /\ collect[c] \in Holding /\ pots \in [Coins -> Pot]
      /\ signer \in [quote : Nat, dust : Nat, paid : Nat]
  BY DEF AInv, ProgramTypeOK, HoldsTypeOK
<1>2. /\ share \in Nat /\ DevPart(pots[c].lpQuote) \in Nat
      /\ share + DevPart(pots[c].lpQuote) = pots[c].lpQuote
  BY <1>1, CharlieFacts DEF Pot
<1>3. /\ q \in Nat /\ q + share = collect[c].quote + pots[c].lpQuote /\ coins \in Nat
  BY <1>1, <1>2 DEF Claimed, Pot, Holding
<1>4. pot \in Pot /\ pots' = [pots EXCEPT ![c] = pot]
  BY <1>1 DEF CrankLp, Pot
<1>5. /\ Pass(c, ops, q, coins, TRUE, share)
      /\ signer' = [quote |-> 0, dust |-> signer.dust + signer.quote, paid |-> signer.paid]
      /\ UNCHANGED <<platform, quote, trading, vault>>
  BY <1>1 DEF CrankLp
<1> HIDE DEF q, share
<1>6. /\ pot.curve + pot.quote + pot.lpQuote + q + share
           = collect[c].quote + pots[c].curve + pots[c].quote + pots[c].lpQuote
      /\ pot.coins + pot.lpCoins + coins = pots[c].coins + pots[c].lpCoins
  BY <1>1, <1>2, <1>3 DEF Pot, Holding
<1>7. /\ signer' \in [quote : Nat, dust : Nat, paid : Nat] /\ signer'.paid = signer.paid
      /\ signer'.quote + signer'.dust = signer.quote + signer.dust
  BY <1>1, <1>5
<1> HIDE DEF pot, coins
<1>8. Pass(c, ops, q, coins, TRUE, share) /\ UNCHANGED <<platform, quote, trading, vault>>
  BY <1>5
<1>9. q \in Nat /\ share \in Nat /\ coins \in Nat
  BY <1>2, <1>3
<1> QED BY <1>4, <1>6, <1>7, <1>8, <1>9, CrankKept

\* All the wrapped SOL of ll_signer goes to charlie_pool with the vault's.
LEMMA PlatformKept ==
  ASSUME AInv, NEW a, CrankPlatform(a)
  PROVE  AInv'
<1>1. ProgramTypeOK /\ HoldsTypeOK /\ CharlieAccounted /\ \A d \in Coins : Accounted(d)
  BY DEF AInv
<1>2. signer \in [quote : Nat, dust : Nat, paid : Nat] /\ vault \in Nat
  BY <1>1 DEF HoldsTypeOK
<1>3. /\ signer' = [quote |-> 0, dust |-> signer.dust, paid |-> signer.paid + (vault + signer.quote)]
      /\ vault' = 0 /\ UNCHANGED <<program, collect, wallet, trading, pots, record>>
  BY <1>2 DEF CrankPlatform, Unwrapped
<1>4. signer' \in [quote : Nat, dust : Nat, paid : Nat]
  BY <1>2, <1>3
<1>5. ProgramTypeOK' /\ HoldsTypeOK'
  BY <1>1, <1>3, <1>4 DEF ProgramTypeOK, HoldsTypeOK, program
<1>6. CharlieAccounted'
  BY <1>1, <1>2, <1>3 DEF CharlieAccounted, HoldsTypeOK
<1>7. \A d \in Coins : Accounted(d)'
  BY <1>1, <1>3, Untouched DEF program
<1> QED BY <1>5, <1>6, <1>7 DEF AInv

--------------------------------------------------------------------------------

\* What the owner changes moves no money.
LEMMA OwnerKept ==
  ASSUME AInv, UNCHANGED <<route, Holds>>,
         platform' \in [open : BOOLEAN, admin : Admins \cup {NoOne}, paused : BOOLEAN, raydium : BOOLEAN],
         quote' \in [open : BOOLEAN, enabled : BOOLEAN, min : Nat]
  PROVE  AInv'
<1>1. ProgramTypeOK' /\ HoldsTypeOK' /\ CharlieAccounted'
  BY DEF AInv, ProgramTypeOK, HoldsTypeOK, CharlieAccounted, Holds
<1>2. \A d \in Coins : Accounted(d)'
  BY Untouched DEF AInv, Holds
<1> QED BY <1>1, <1>2 DEF AInv

LEMMA SetQuoteKept ==
  ASSUME AInv, NEW on \in BOOLEAN, NEW min \in Nat, SetQuote(on, min)
  PROVE  AInv'
<1>1. quote' = [open |-> TRUE, enabled |-> on, min |-> min] /\ UNCHANGED <<platform, route, Holds>>
  BY DEF SetQuote
<1>2. quote' \in [open : BOOLEAN, enabled : BOOLEAN, min : Nat]
  <2>1. CASE on = TRUE
    BY <1>1, <2>1
  <2>2. CASE on = FALSE
    BY <1>1, <2>2
  <2> QED BY <2>1, <2>2
<1> QED BY <1>1, <1>2, OwnerKept DEF AInv, ProgramTypeOK

LEMMA PlatformSetKept ==
  ASSUME AInv, NEW a \in Admins,
         InitPlatform(a) \/ CreateRaydiumPlatform \/ SetPaused \/ SetAdmin(a)
  PROVE  AInv'
<1>1. UNCHANGED <<quote, route, Holds>>
  BY DEF InitPlatform, CreateRaydiumPlatform, SetPaused, SetAdmin
<1>2. platform' \in [open : BOOLEAN, admin : Admins \cup {NoOne}, paused : BOOLEAN, raydium : BOOLEAN]
  BY DEF AInv, ProgramTypeOK, InitPlatform, NoPlatform, CreateRaydiumPlatform, SetPaused, SetAdmin
<1> QED BY <1>1, <1>2, OwnerKept DEF AInv, ProgramTypeOK

\* A new split leaves the totals as they are.
LEMMA SetRouteKept ==
  ASSUME AInv, NEW c \in Coins, NEW t \in Offered, SetRoute(c, t)
  PROVE  AInv'
<1>1. ProgramTypeOK /\ HoldsTypeOK /\ CharlieAccounted /\ \A d \in Coins : Accounted(d)
  BY DEF AInv
<1>2. t \in Splits /\ t.sol + t.own + t.ops = Whole /\ UNCHANGED <<platform, quote, Holds>>
  BY RailAssumption DEF SetRoute, Valid
<1>3. HoldsTypeOK' /\ CharlieAccounted'
  BY <1>1, <1>2 DEF HoldsTypeOK, CharlieAccounted, Holds
<1>4. route[c] \in Routes
  BY <1>1 DEF ProgramTypeOK
<1>5. Rewritten(c, t) = [open |-> route[c].open, split |-> t, pool |-> route[c].pool,
                         coins |-> route[c].coins, burned |-> route[c].burned, paid |-> route[c].paid]
  BY <1>4 DEF Rewritten, Routes
<1>6. Rewritten(c, t) \in Routes
  BY <1>2, <1>4, <1>5 DEF Routes
<1>7. /\ route' \in [Coins -> Routes] /\ route'[c] = Rewritten(c, t)
      /\ \A d \in Coins \ {c} : route'[d] = route[d]
  BY <1>1, <1>6 DEF ProgramTypeOK, SetRoute
<1>8. ProgramTypeOK'
  BY <1>1, <1>2, <1>5, <1>7 DEF ProgramTypeOK
<1>9. ASSUME NEW d \in Coins PROVE Accounted(d)'
  <2>1. /\ route'[d].coins = route[d].coins /\ route'[d].burned = route[d].burned
        /\ route'[d].paid = route[d].paid
    BY <1>5, <1>7
  <2>2. route'[d].open = route[d].open
    BY <1>5, <1>7
  <2> QED BY <1>1, <1>2, <2>1, <2>2 DEF Accounted, QuoteAccounted, CoinsAccounted, NoTotals, Holds
<1> QED BY <1>3, <1>8, <1>9 DEF AInv

\* A launch writes a route whose totals are zero, as they were (NoTotals).
LEMMA LaunchKept ==
  ASSUME AInv, NEW c \in Coins, NEW t \in Offered, Launch(c, t)
  PROVE  AInv'
<1>1. ProgramTypeOK /\ HoldsTypeOK /\ CharlieAccounted /\ \A d \in Coins : Accounted(d)
  BY DEF AInv
<1> DEFINE new == Launched(t)
<1>2. /\ t \in Splits /\ t.sol + t.own + t.ops = Whole /\ ~route[c].open
      /\ route' = [route EXCEPT ![c] = new] /\ trading' = [trading EXCEPT ![c] = "curve"]
      /\ UNCHANGED <<platform, quote, collect, signer, wallet, pots, vault, record>>
  BY RailAssumption DEF Launch, Valid
<1>3. /\ new \in Routes /\ new.open /\ new.split = t
      /\ new.coins = 0 /\ new.burned = 0 /\ new.paid = 0
  BY <1>2 DEF Routes, Launched
<1>4. route' \in [Coins -> Routes] /\ route'[c] = new /\ \A d \in Coins \ {c} : route'[d] = route[d]
  BY <1>1, <1>2, <1>3 DEF ProgramTypeOK
<1>5. ProgramTypeOK'
  BY <1>1, <1>2, <1>3, <1>4 DEF ProgramTypeOK
<1>6. HoldsTypeOK' /\ CharlieAccounted'
  BY <1>1, <1>2 DEF HoldsTypeOK, CharlieAccounted
<1>7. ASSUME NEW d \in Coins \ {c} PROVE Accounted(d)'
  BY <1>1, <1>2, <1>4, Untouched
<1>8. Accounted(c)'
  BY <1>1, <1>2, <1>3, <1>4 DEF Accounted, QuoteAccounted, CoinsAccounted, NoTotals
<1> QED BY <1>5, <1>6, <1>7, <1>8 DEF AInv

--------------------------------------------------------------------------------

\* A step of the world that changes one coin's pots, account and history.
LEMMA CoinMoves ==
  ASSUME AInv, NEW c \in Coins, UNCHANGED program,
         signer' \in [quote : Nat, dust : Nat, paid : Nat], wallet' \in [Wallets -> Nat],
         trading' \in [Coins -> {"none", "curve", "full", "cpmm"}], vault' \in Nat,
         NEW pot \in Pot, pots' = [pots EXCEPT ![c] = pot],
         NEW held \in Holding, collect' = [collect EXCEPT ![c] = held],
         NEW deed \in Deed, NEW all \in Nat, NEW strays \in Nat,
         record' = [coin |-> [record.coin EXCEPT ![c] = deed], platform |-> all, strays |-> strays],
         CharlieAccounted', Accounted(c)'
  PROVE  AInv'
<1>1. ProgramTypeOK /\ HoldsTypeOK /\ \A d \in Coins : Accounted(d)
  BY DEF AInv
<1>2. /\ pots' \in [Coins -> Pot] /\ collect' \in [Coins -> Holding] /\ record'.coin \in [Coins -> Deed]
      /\ \A d \in Coins \ {c} : pots'[d] = pots[d] /\ collect'[d] = collect[d] /\ record'.coin[d] = record.coin[d]
  BY <1>1 DEF HoldsTypeOK
<1>3. record' \in [coin : [Coins -> Deed], platform : Nat, strays : Nat]
  BY <1>2
<1>4. HoldsTypeOK'
  BY <1>2, <1>3 DEF HoldsTypeOK
<1>5. ProgramTypeOK'
  BY <1>1 DEF ProgramTypeOK, program
<1>6. ASSUME NEW d \in Coins \ {c} PROVE Accounted(d)'
  BY <1>1, <1>2, Untouched DEF program
<1> QED BY <1>4, <1>5, <1>6 DEF AInv

LEMMA TradeKept ==
  ASSUME AInv, NEW c \in Coins, NEW n \in Nat, TradeOnCurve(c, n)
  PROVE  AInv'
<1> DEFINE pot == [pots[c] EXCEPT !.curve = @ + n]
           deed == [record.coin[c] EXCEPT !.earned = @ + n]
<1>1. ProgramTypeOK /\ HoldsTypeOK /\ CharlieAccounted /\ Accounted(c)
  BY DEF AInv
<1>2. pots[c] \in Pot /\ record.coin[c] \in Deed /\ collect[c] \in Holding /\ route[c] \in Routes
  BY <1>1 DEF ProgramTypeOK, HoldsTypeOK
<1>3. /\ pot = [curve |-> pots[c].curve + n, quote |-> pots[c].quote, coins |-> pots[c].coins,
                lpQuote |-> pots[c].lpQuote, lpCoins |-> pots[c].lpCoins]
      /\ pot \in Pot
  BY <1>2 DEF Pot
<1>4. /\ deed = [earned |-> record.coin[c].earned + n, coins |-> record.coin[c].coins,
                 bought |-> record.coin[c].bought, shared |-> record.coin[c].shared,
                 passes |-> record.coin[c].passes]
      /\ deed \in Deed
  BY <1>2 DEF Deed
<1>5. /\ pots' = [pots EXCEPT ![c] = pot] /\ vault' = vault + n
      /\ collect' = [collect EXCEPT ![c] = collect[c]]
      /\ UNCHANGED <<program, collect, signer, wallet, trading>>
  BY <1>1 DEF TradeOnCurve, HoldsTypeOK
<1>6. record' = [coin |-> [record.coin EXCEPT ![c] = deed], platform |-> record.platform + n,
                 strays |-> record.strays]
  BY <1>1 DEF TradeOnCurve, HoldsTypeOK
<1> HIDE DEF pot, deed
<1>7. /\ vault' \in Nat /\ record.platform + n \in Nat /\ record.strays \in Nat /\ vault \in Nat
      /\ record.platform \in Nat /\ signer \in [quote : Nat, dust : Nat, paid : Nat]
  BY <1>1, <1>5 DEF HoldsTypeOK
<1>8. CharlieAccounted'
  BY <1>1, <1>5, <1>6, <1>7 DEF CharlieAccounted
<1>9. pots'[c] = pot /\ record'.coin[c] = deed /\ UNCHANGED <<route, collect>>
  BY <1>1, <1>5, <1>6 DEF HoldsTypeOK, program
<1>10. QuoteAccounted(c)'
  BY <1>1, <1>2, <1>3, <1>4, <1>9 DEF Accounted, QuoteAccounted, Pot, Deed, Holding, Routes
<1>11. Accounted(c)'
  BY <1>1, <1>3, <1>4, <1>9, <1>10 DEF Accounted, CoinsAccounted, NoTotals
<1>12. /\ signer' \in [quote : Nat, dust : Nat, paid : Nat] /\ wallet' \in [Wallets -> Nat]
       /\ trading' \in [Coins -> {"none", "curve", "full", "cpmm"}] /\ UNCHANGED program
  BY <1>1, <1>5 DEF HoldsTypeOK
<1> QED BY <1>2, <1>3, <1>4, <1>5, <1>6, <1>7, <1>8, <1>11, <1>12, CoinMoves

LEMMA PoolTradeKept ==
  ASSUME AInv, NEW c \in Coins, NEW n \in Nat, NEW m \in Nat, TradeInPool(c, n, m)
  PROVE  AInv'
<1> DEFINE pot == Credited(c, n, m)  deed == Earned(c, n, m)
<1>1. ProgramTypeOK /\ HoldsTypeOK /\ CharlieAccounted /\ Accounted(c)
  BY DEF AInv
<1>2. pots[c] \in Pot /\ record.coin[c] \in Deed /\ collect[c] \in Holding /\ route[c] \in Routes
  BY <1>1 DEF ProgramTypeOK, HoldsTypeOK
<1>3. /\ pot.curve = pots[c].curve /\ pot.quote = pots[c].quote + n /\ pot.coins = pots[c].coins + m
      /\ pot.lpQuote = pots[c].lpQuote + n /\ pot.lpCoins = pots[c].lpCoins + m
      /\ pot \in Pot
  BY <1>2 DEF Pot, Credited
<1>4. /\ deed.earned = record.coin[c].earned + 2 * n /\ deed.coins = record.coin[c].coins + 2 * m
      /\ deed.bought = record.coin[c].bought /\ deed.shared = record.coin[c].shared
      /\ deed.passes = record.coin[c].passes
      /\ deed \in Deed
  BY <1>2 DEF Deed, Earned
<1>5. /\ pots' = [pots EXCEPT ![c] = pot]
      /\ collect' = [collect EXCEPT ![c] = collect[c]]
      /\ UNCHANGED <<program, collect, signer, wallet, trading, vault>>
  BY <1>1 DEF TradeInPool, HoldsTypeOK
<1> HIDE DEF pot, deed
<1>6. record' = [coin |-> [record.coin EXCEPT ![c] = deed], platform |-> record.platform,
                 strays |-> record.strays]
  <2>1. record' = [record EXCEPT !.coin[c] = deed]
    BY DEF TradeInPool, deed
  <2> QED BY <1>1, <2>1 DEF HoldsTypeOK
<1>7. record.platform \in Nat /\ record.strays \in Nat
  BY <1>1 DEF HoldsTypeOK
<1>8. CharlieAccounted'
  BY <1>1, <1>5, <1>6 DEF CharlieAccounted
<1>9. pots'[c] = pot /\ record'.coin[c] = deed /\ UNCHANGED <<route, collect>>
  BY <1>1, <1>5, <1>6 DEF HoldsTypeOK, program
<1>10. QuoteAccounted(c)'
  <2> DEFINE earned == record.coin[c].earned   curve == pots[c].curve
             cp == pots[c].quote   lp == pots[c].lpQuote
             rest == collect[c].quote + collect[c].dust + record.coin[c].shared
                     + record.coin[c].bought + route[c].burned + route[c].paid
  <2>1. earned \in Nat /\ curve \in Nat /\ cp \in Nat /\ lp \in Nat /\ rest \in Nat
    BY <1>2 DEF Pot, Deed, Holding, Routes
  <2>2. earned = curve + cp + lp + rest
    BY <1>1, <1>2 DEF Accounted, QuoteAccounted, Pot, Deed, Holding, Routes
  <2>3. earned + 2 * n = curve + (cp + n) + (lp + n) + rest
    <3> HIDE DEF earned, curve, cp, lp, rest
    <3> QED BY <2>1, <2>2
  <2>4. earned + 2 * n = curve + (cp + n) + (lp + n) + collect[c].quote + collect[c].dust
           + record.coin[c].shared + record.coin[c].bought + route[c].burned + route[c].paid
    BY <1>2, <2>3 DEF Pot, Deed, Holding, Routes
  <2> QED BY <1>3, <1>4, <1>9, <2>4 DEF QuoteAccounted
<1>11. CoinsAccounted(c)'
  <2> DEFINE all == record.coin[c].coins   bought == record.coin[c].bought
             cp == pots[c].coins   lp == pots[c].lpCoins
             rest == collect[c].coins + route[c].coins
  <2>1. all \in Nat /\ bought \in Nat /\ cp \in Nat /\ lp \in Nat /\ rest \in Nat
    BY <1>2 DEF Pot, Deed, Holding, Routes
  <2>2. all + bought = cp + lp + rest
    BY <1>1, <1>2 DEF Accounted, CoinsAccounted, Pot, Holding, Routes
  <2>3. (all + 2 * m) + bought = (cp + m) + (lp + m) + rest
    <3> HIDE DEF all, bought, cp, lp, rest
    <3> QED BY <2>1, <2>2
  <2>4. (all + 2 * m) + bought = (cp + m) + (lp + m) + collect[c].coins + route[c].coins
    BY <1>2, <2>3 DEF Pot, Holding, Routes
  <2> QED BY <1>3, <1>4, <1>9, <2>4 DEF CoinsAccounted
<1>12. Accounted(c)'
  BY <1>1, <1>4, <1>9, <1>10, <1>11 DEF Accounted, NoTotals
<1>13. /\ signer' \in [quote : Nat, dust : Nat, paid : Nat] /\ wallet' \in [Wallets -> Nat] /\ vault' \in Nat
       /\ trading' \in [Coins -> {"none", "curve", "full", "cpmm"}] /\ UNCHANGED program
  BY <1>1, <1>5 DEF HoldsTypeOK
<1> QED BY <1>2, <1>3, <1>4, <1>5, <1>6, <1>7, <1>8, <1>12, <1>13, CoinMoves

LEMMA CollectKept ==
  ASSUME AInv, NEW c \in Coins, AnyoneCollects(c)
  PROVE  AInv'
<1> DEFINE pot == [pots[c] EXCEPT !.quote = 0, !.coins = 0]
           held == Collected(c)
<1>1. ProgramTypeOK /\ HoldsTypeOK /\ CharlieAccounted /\ Accounted(c)
  BY DEF AInv
<1>2. pots[c] \in Pot /\ record.coin[c] \in Deed /\ collect[c] \in Holding /\ route[c] \in Routes
  BY <1>1 DEF ProgramTypeOK, HoldsTypeOK
<1>3. /\ pot.curve = pots[c].curve /\ pot.quote = 0
      /\ pot.coins = 0 /\ pot.lpQuote = pots[c].lpQuote
      /\ pot.lpCoins = pots[c].lpCoins
      /\ pot \in Pot
  BY <1>2 DEF Pot
<1>4. /\ held.quote = collect[c].quote + pots[c].quote /\ held.coins = collect[c].coins + pots[c].coins
      /\ held.dust = collect[c].dust
      /\ held \in Holding
  BY <1>2 DEF Holding, Pot, Collected
<1>5. /\ pots' = [pots EXCEPT ![c] = pot] /\ collect' = [collect EXCEPT ![c] = held]
      /\ UNCHANGED <<program, signer, wallet, trading, vault, record>>
  BY <1>1 DEF AnyoneCollects, HoldsTypeOK
<1>6. record' = [coin |-> [record.coin EXCEPT ![c] = record.coin[c]], platform |-> record.platform,
                 strays |-> record.strays]
  BY <1>1, <1>5 DEF HoldsTypeOK
<1> HIDE DEF pot, held
<1>7. record.platform \in Nat /\ record.strays \in Nat
  BY <1>1 DEF HoldsTypeOK
<1>8. CharlieAccounted'
  BY <1>1, <1>5 DEF CharlieAccounted
<1>9. pots'[c] = pot /\ collect'[c] = held /\ UNCHANGED <<route, record>>
  BY <1>1, <1>5 DEF HoldsTypeOK, program
<1>10. QuoteAccounted(c)' /\ CoinsAccounted(c)'
  BY <1>1, <1>2, <1>3, <1>4, <1>9 DEF Accounted, QuoteAccounted, CoinsAccounted, Pot, Deed, Holding, Routes
<1>11. Accounted(c)'
  BY <1>1, <1>4, <1>9, <1>10 DEF Accounted, NoTotals
<1>12. /\ signer' \in [quote : Nat, dust : Nat, paid : Nat] /\ wallet' \in [Wallets -> Nat] /\ vault' \in Nat
       /\ trading' \in [Coins -> {"none", "curve", "full", "cpmm"}] /\ UNCHANGED program
  BY <1>1, <1>5 DEF HoldsTypeOK
<1>13. pot \in Pot /\ held \in Holding /\ record.coin[c] \in Deed
  BY <1>2, <1>3, <1>4
<1>14. pots' = [pots EXCEPT ![c] = pot] /\ collect' = [collect EXCEPT ![c] = held]
  BY <1>5
<1> QED BY <1>6, <1>7, <1>8, <1>11, <1>12, <1>13, <1>14, CoinMoves

\* What moves no coin's fee.
LEMMA GraduateKept ==
  ASSUME AInv, NEW c \in Coins, Graduate(c)
  PROVE  AInv'
<1>1. ProgramTypeOK' /\ HoldsTypeOK' /\ CharlieAccounted'
  BY DEF AInv, ProgramTypeOK, HoldsTypeOK, CharlieAccounted, program, Graduate
<1>2. \A d \in Coins : Accounted(d)'
  BY Untouched DEF AInv, program, Graduate
<1> QED BY <1>1, <1>2 DEF AInv

LEMMA WithdrawKept ==
  ASSUME AInv, NEW w \in Wallets, Withdraw(w)
  PROVE  AInv'
<1>1. ProgramTypeOK' /\ HoldsTypeOK' /\ CharlieAccounted'
  BY DEF AInv, ProgramTypeOK, HoldsTypeOK, CharlieAccounted, program, Withdraw
<1>2. \A d \in Coins : Accounted(d)'
  BY Untouched DEF AInv, program, Withdraw
<1> QED BY <1>1, <1>2 DEF AInv

LEMMA StrayKept ==
  ASSUME AInv, Stray(1)
  PROVE  AInv'
<1>1. ProgramTypeOK /\ HoldsTypeOK /\ CharlieAccounted /\ \A d \in Coins : Accounted(d)
  BY DEF AInv
<1>2. /\ signer' = [quote |-> signer.quote + 1, dust |-> signer.dust, paid |-> signer.paid]
      /\ record' = [coin |-> record.coin, platform |-> record.platform, strays |-> record.strays + 1]
      /\ UNCHANGED <<program, collect, wallet, trading, pots, vault>>
  BY <1>1 DEF Stray, HoldsTypeOK
<1>3. ProgramTypeOK'
  BY <1>1, <1>2 DEF ProgramTypeOK, program
<1>4. /\ signer' \in [quote : Nat, dust : Nat, paid : Nat]
      /\ record' \in [coin : [Coins -> Deed], platform : Nat, strays : Nat]
  BY <1>1, <1>2 DEF HoldsTypeOK
<1>5. HoldsTypeOK'
  BY <1>1, <1>2, <1>4 DEF HoldsTypeOK
<1>6. CharlieAccounted'
  BY <1>1, <1>2 DEF HoldsTypeOK, CharlieAccounted
<1>7. \A d \in Coins : Accounted(d)'
  BY <1>1, <1>2, Untouched DEF program
<1> QED BY <1>3, <1>5, <1>6, <1>7 DEF AInv

--------------------------------------------------------------------------------
(* The keeper. *)

LEMMA InitKept == KInit => RInv
<1> SUFFICES ASSUME KInit PROVE RInv
  OBVIOUS
<1> USE DEF KInit, Init
<1>1. ProgramTypeOK
  <2>1. NoSplit \in Splits
    BY WholeAssumption DEF NoSplit, Splits
  <2>2. NoRoute \in Routes /\ ~NoRoute.open
    BY <2>1 DEF NoRoute, Routes
  <2> QED BY <2>2 DEF ProgramTypeOK, NoPlatform, NoQuote
<1>2. HoldsTypeOK
  BY DEF HoldsTypeOK, Empty, NoPots, NoDeeds, Holding, Pot, Deed
<1>3. KeeperTypeOK
  BY DEF KeeperTypeOK, Idle
<1>4. CharlieAccounted
  BY DEF CharlieAccounted
<1>5. ASSUME NEW c \in Coins PROVE Accounted(c)
  BY DEF Accounted, QuoteAccounted, CoinsAccounted, NoTotals, NoRoute, Empty, NoPots, NoDeeds
<1> QED BY <1>1, <1>2, <1>3, <1>4, <1>5, InvParts DEF AInv

\* A job that lands is a crank of one of the coins, or of the vault.
LEMMA ExecuteKept ==
  ASSUME AInv, NEW j \in Jobs, Execute(j)
  PROVE  AInv'
<1>1. CASE j = Platform
  BY <1>1, PlatformKept DEF Execute, Platform
<1>2. CASE j.kind \in Kinds /\ j.coin \in Coins
  BY <1>2, PlatformKept, CurveKept, AmmKept, LpKept DEF Execute
<1> QED BY <1>1, <1>2 DEF Jobs

LEMMA ByHandKept ==
  ASSUME AInv, NEW c \in Coins, ByHand(c)
  PROVE  AInv'
BY CurveKept, AmmKept, LpKept DEF ByHand

LEMMA SetupKept ==
  ASSUME AInv, Setup
  PROVE  AInv'
<1>1. ASSUME NEW min \in Mins, SetQuote(TRUE, min) PROVE AInv'
  BY <1>1, SetQuoteKept, KeeperAssumption
<1> QED BY <1>1, PlatformSetKept, LaunchKept, KeeperAssumption DEF Setup

LEMMA TradesKept ==
  ASSUME AInv, Trades
  PROVE  AInv'
<1>1. PICK c \in Coins, n \in Fees : TradeOnCurve(c, n) \/ BuyInPool(c, n) \/ SellInPool(c, n)
  BY DEF Trades
<1>2. n \in Nat
  BY KeeperAssumption
<1> QED BY <1>1, <1>2, TradeKept, PoolTradeKept DEF BuyInPool, SellInPool

\* What is planned is a job, and what is sent was planned (plan).
LEMMA KeeperTyped ==
  ASSUME ProgramTypeOK, KeeperTypeOK, KeeperStep
  PROVE  KeeperTypeOK'
<1>1. /\ keeper \in [min : Nat, todo : SUBSET (Coins \cup {Vault}), jobs : SUBSET Jobs]
      /\ flight \subseteq Jobs /\ Platform \in Jobs
  BY DEF KeeperTypeOK, Jobs
<1>2. Idle \in [min : Nat, todo : SUBSET (Coins \cup {Vault}), jobs : SUBSET Jobs]
  BY DEF Idle
<1>3. CASE Start
  BY <1>1, <1>3 DEF Start, ProgramTypeOK, KeeperTypeOK
<1>4. ASSUME NEW c \in Coins, PlanCoin(c) PROVE KeeperTypeOK'
  <2>1. {Job(k, c) : k \in Wanted(c)} \subseteq Jobs
    BY DEF Job, Wanted, Jobs, ProgramTypeOK, Routes, Splits
  <2> QED BY <1>1, <1>4, <2>1 DEF PlanCoin, KeeperTypeOK
<1>5. CASE PlanVault
  BY <1>1, <1>5 DEF PlanVault, KeeperTypeOK
<1>6. ASSUME NEW j \in keeper.jobs, Send(j) PROVE KeeperTypeOK'
  <2>1. After(j) \in [min : Nat, todo : SUBSET (Coins \cup {Vault}), jobs : SUBSET Jobs]
    BY <1>1, <1>2 DEF After
  <2> QED BY <1>1, <1>6, <2>1 DEF Send, KeeperTypeOK
<1>7. CASE NothingToCrank
  BY <1>1, <1>2, <1>7 DEF NothingToCrank, KeeperTypeOK
<1> QED BY <1>3, <1>4, <1>5, <1>6, <1>7 DEF KeeperStep

LEMMA InvPartsNext == RInv' <=> AInv' /\ KeeperTypeOK'
BY InvParts, PTL

\* A step of the keeper alone leaves the accounts as they are.
LEMMA RailKept ==
  ASSUME AInv, UNCHANGED rail
  PROVE  AInv'
<1>1. ProgramTypeOK' /\ HoldsTypeOK' /\ CharlieAccounted'
  BY DEF AInv, ProgramTypeOK, HoldsTypeOK, CharlieAccounted, rail, program, Holds
<1>2. \A d \in Coins : Accounted(d)'
  BY Untouched DEF AInv, rail, program, Holds
<1> QED BY <1>1, <1>2 DEF AInv

LEMMA ChangeKept ==
  ASSUME AInv, KeeperTypeOK, Change
  PROVE  AInv' /\ KeeperTypeOK'
<1>1. CASE keeper' = Idle /\ UNCHANGED <<rail, flight>>
  <2>1. AInv'
    BY <1>1, RailKept
  <2>2. Idle \in [min : Nat, todo : SUBSET (Coins \cup {Vault}), jobs : SUBSET Jobs]
    BY DEF Idle
  <2> QED BY <1>1, <2>1, <2>2 DEF KeeperTypeOK
<1>2. CASE UNCHANGED <<keeper, flight>>
  <2>1. KeeperTypeOK'
    BY <1>2 DEF KeeperTypeOK
  <2>2. ASSUME NEW min \in Mins, NEW on \in BOOLEAN, SetQuote(on, min) PROVE AInv'
    BY <2>2, SetQuoteKept, KeeperAssumption
  <2>3. CASE SetPaused
    BY <2>1, <2>3, PlatformSetKept, KeeperAssumption
  <2>4. CASE UNCHANGED rail
    BY <2>1, <2>4, RailKept
  <2>5. ASSUME NEW a \in Admins, SetAdmin(a) PROVE AInv'
    BY <2>5, PlatformSetKept
  <2> QED BY <1>2, <2>1, <2>2, <2>3, <2>4, <2>5, SetRouteKept, WithdrawKept DEF Change
<1> QED BY <1>1, <1>2 DEF Change

LEMMA StepKept ==
  ASSUME RInv, Next
  PROVE  RInv'
<1>1. AInv /\ KeeperTypeOK /\ ProgramTypeOK
  BY InvParts DEF AInv
<1>2. AInv' /\ KeeperTypeOK' => RInv'
  BY InvPartsNext
<1>3. CASE KeeperStep
  <2>1. UNCHANGED rail
    BY <1>3 DEF KeeperStep, Start, PlanCoin, PlanVault, Send, NothingToCrank
  <2> QED BY <1>1, <1>2, <1>3, <2>1, KeeperTyped, RailKept
<1>4. CASE Change
  BY <1>1, <1>2, <1>4, ChangeKept
<1>5. ASSUME NEW j \in flight, Land(j) PROVE RInv'
  <2>1. j \in Jobs /\ KeeperTypeOK'
    BY <1>1, <1>5 DEF KeeperTypeOK, Land
  <2> QED BY <1>1, <1>2, <1>5, <2>1, ExecuteKept DEF Land
<1>6. ASSUME NEW j \in flight, Lose(j) PROVE RInv'
  <2>1. UNCHANGED rail /\ KeeperTypeOK'
    BY <1>1, <1>6 DEF KeeperTypeOK, Lose
  <2> QED BY <1>1, <1>2, <2>1, RailKept
<1>7. CASE ((\E c \in Hand : ByHand(c)) \/ Setup \/ World) /\ UNCHANGED <<keeper, flight, changes>>
  <2>1. KeeperTypeOK'
    BY <1>1, <1>7 DEF KeeperTypeOK
  <2>2. ASSUME World PROVE AInv'
    BY <1>1, <2>2, TradesKept, GraduateKept, CollectKept, StrayKept DEF World
  <2>3. AInv'
    BY <1>1, <1>7, <2>2, ByHandKept, SetupKept, KeeperAssumption
  <2> QED BY <1>2, <2>1, <2>3
<1> QED BY <1>3, <1>4, <1>5, <1>6, <1>7 DEF Next

--------------------------------------------------------------------------------

\* The invariant holds always.
LEMMA RailSafe == Spec => []RInv
<1>1. RInv /\ [Next]_vars => RInv'
  <2>1. ASSUME RInv, UNCHANGED vars PROVE RInv'
    <3>1. AInv /\ KeeperTypeOK
      BY <2>1, InvParts
    <3>2. AInv'
      BY <2>1, <3>1, RailKept DEF vars
    <3>3. KeeperTypeOK'
      BY <2>1, <3>1 DEF KeeperTypeOK, vars
    <3> QED BY <3>2, <3>3, InvPartsNext
  <2> QED BY <2>1, StepKept
<1> QED BY <1>1, InitKept, PTL DEF Spec

\* Every amount stays a natural number, whatever is routed, swept or moved
\* (split_legs, crank_lp, ll_route's totals).
THEOREM RailTyped == Spec => []RailTypeOK
<1>1. RInv => RailTypeOK
  BY DEF RInv
<1> QED BY <1>1, RailSafe, PTL

\* The published totals of every coin account for all the fees it earned, over
\* any interleaving of cranks, retries, route changes and trades (ll_route).
THEOREM TotalsAreRight == Spec => []FeesAccounted
<1>1. RInv => FeesAccounted
  BY DEF RInv
<1> QED BY <1>1, RailSafe, PTL

\* No platform fee is left with ll_signer, nor swept twice (crank_platform, crank_lp).
THEOREM CharlieIsPaid == Spec => []CharlieAccounted
<1>1. RInv => CharlieAccounted
  BY DEF RInv
<1> QED BY <1>1, RailSafe, PTL

\* All the fees are accounted for, the coins' and the platform's.
THEOREM BooksBalance == Spec => []AllAccounted
<1>1. RInv => AllAccounted
  BY DEF RInv, AllAccounted
<1> QED BY <1>1, RailSafe, PTL

\* The dust of a coin is at most two lamports a crank, for any three shares of
\* any whole (split_legs).
THEOREM DustIsSmall == Spec => []DustIsBounded
<1>1. RInv => DustIsBounded
  BY DEF RInv
<1> QED BY <1>1, RailSafe, PTL
================================================================================
