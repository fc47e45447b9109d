------------------------------ MODULE RailKeeper ------------------------------
(***************************************************************************)
(* The keeper of the LaunchLab rail (indexer/launchlab_keeper.py) beside   *)
(* the program, Raydium and the people who use it.  A run reads the        *)
(* platform, then one coin after the other, then the platform's vault;     *)
(* only then does it simulate and send what it planned.  Nothing is        *)
(* confirmed: a job lands later, or never, and the next run may send the   *)
(* same again.                                                             *)
(***************************************************************************)
EXTENDS Rail

CONSTANTS
    Keeper,         \* the key the keeper signs with
    Hand,           \* coins whose cranks the admin also runs by hand
    Fees, Mins,     \* bounds: fees of a trade, and values of min_crank
    MaxEarned,      \* bound: fees a coin comes to
    MaxStrays,      \* bound: what others send to ll_signer
    MaxChanges      \* bound: changes by owners, and deaths of the keeper

ASSUME KeeperAssumption ==
    /\ Keeper \in Admins /\ Hand \subseteq Coins
    /\ Fees \subseteq Nat \ {0} /\ Mins \subseteq Nat

VARIABLES
    keeper,     \* min_crank as it was read, what is still to be read, the jobs
    flight,     \* jobs sent, not yet landed
    changes     \* (bound)

vars == <<rail, keeper, flight, changes>>

Vault == "platform fee vault"
Kinds == {"curve", "amm", "lp"}
Platform == [kind |-> "platform", coin |-> NoOne, ops |-> NoOne]
Jobs  == [kind : Kinds, coin : Coins, ops : Wallets \cup {NoOne}] \cup {Platform}

Idle == [min |-> 0, todo |-> {}, jobs |-> {}]

KInit == Init /\ keeper = Idle /\ flight = {} /\ changes = 0

--------------------------------------------------------------------------------
(* A run of the keeper. *)

\* plan: nothing is done while the platform is paused.
Start ==
    /\ keeper = Idle /\ platform.open /\ ~platform.paused
    /\ keeper' = [min |-> quote.min, todo |-> Coins \cup {Vault}, jobs |-> {}]
    /\ UNCHANGED <<rail, flight, changes>>

\* The cranks a coin is read to need.  One whose pool its route does not record
\* is taken to be on the curve still.
DueAbove(n) == n > keeper.min
Due(n)      == n >= keeper.min

Wanted(c) == {k \in Kinds :
    /\ route[c].open
    /\ \/ k = "curve" /\ ~route[c].pool /\ trading[c] = "curve" /\ Due(pots[c].curve)
       \/ k = "lp" /\ route[c].pool
       \/ k = "amm" /\ route[c].pool /\ Due(pots[c].quote)}

Job(kind, c) == [kind |-> kind, coin |-> c, ops |-> route[c].split.address]

PlanCoin(c) ==
    /\ c \in keeper.todo
    /\ keeper' = [keeper EXCEPT !.todo = @ \ {c}, !.jobs = @ \cup {Job(k, c) : k \in Wanted(c)}]
    /\ UNCHANGED <<rail, flight, changes>>

PlanVault ==
    /\ keeper.todo = {Vault}
    /\ keeper' = [keeper EXCEPT !.todo = {}, !.jobs = @ \cup {j \in {Platform} : Due(vault)}]
    /\ UNCHANGED <<rail, flight, changes>>

\* A job is sent if its simulation succeeds; either way the next one follows.
Succeeds(j) ==
    CASE j = Platform -> PlatformPasses(Keeper)
      [] j.kind = "curve" -> CurvePasses(Keeper, j.coin, j.ops)
      [] j.kind = "amm" -> AmmPasses(Keeper, j.coin, j.ops)
      [] j.kind = "lp" -> LpPasses(Keeper, j.coin, j.ops)

After(j) == IF keeper.jobs = {j} THEN Idle ELSE [keeper EXCEPT !.jobs = @ \ {j}]

Send(j) ==
    /\ keeper.todo = {} /\ j \in keeper.jobs
    /\ keeper' = After(j)
    /\ flight' = IF Succeeds(j) THEN flight \cup {j} ELSE flight
    /\ UNCHANGED <<rail, changes>>

NothingToCrank ==
    /\ keeper.todo = {} /\ keeper.jobs = {} /\ keeper # Idle
    /\ keeper' = Idle
    /\ UNCHANGED <<rail, flight, changes>>

KeeperStep == Start \/ (\E c \in Coins : PlanCoin(c)) \/ PlanVault
              \/ (\E j \in keeper.jobs : Send(j)) \/ NothingToCrank

\* A job lands; one of an earlier run may still be on its way.
Execute(j) ==
    \/ j.kind = "platform" /\ CrankPlatform(Keeper)
    \/ j.kind = "curve" /\ CrankCurve(Keeper, j.coin, j.ops)
    \/ j.kind = "amm" /\ CrankAmmCreator(Keeper, j.coin, j.ops)
    \/ j.kind = "lp" /\ CrankLp(Keeper, j.coin, j.ops)

Land(j) ==
    /\ j \in flight /\ Execute(j)
    /\ flight' \in {flight, flight \ {j}}
    /\ UNCHANGED <<keeper, changes>>

\* It fails, or is never included.
Lose(j) ==
    /\ flight' = flight \ {j}
    /\ UNCHANGED <<rail, keeper, changes>>

--------------------------------------------------------------------------------
(* Everybody else. *)

\* The cranks tools/launchlab_devnet.py records were sent by hand, with the
\* admin's key.
ByHand(c) ==
    LET a == platform.admin   ops == route[c].split.address
    IN  CrankCurve(a, c, ops) \/ CrankAmmCreator(a, c, ops) \/ CrankLp(a, c, ops)

Setup ==
    \/ InitPlatform(Keeper) \/ CreateRaydiumPlatform
    \/ ~quote.open /\ \E min \in Mins : SetQuote(TRUE, min)
    \/ \E c \in Coins, s \in Offered : Launch(c, s)

Change ==
    /\ changes < MaxChanges
    /\ changes' = changes + 1
    /\ \/ /\ \/ SetPaused \/ \E a \in Admins : SetAdmin(a)
             \/ quote.open /\ \E min \in Mins, on \in BOOLEAN : SetQuote(on, min)
             \/ \E c \in Coins, s \in Offered : SetRoute(c, s)
             \/ \E w \in Wallets : Withdraw(w)
          /\ UNCHANGED keeper
       \/ keeper' = Idle /\ keeper # Idle /\ UNCHANGED rail         \* the keeper dies
    /\ UNCHANGED flight

Trades ==
    \E c \in Coins, n \in Fees :
        LET room == MaxEarned - record.coin[c].earned - record.coin[c].coins
        IN  \/ n <= room /\ TradeOnCurve(c, n)
            \/ 2 * n <= room /\ (BuyInPool(c, n) \/ SellInPool(c, n))

World ==
    \/ Trades
    \/ \E c \in Coins : Graduate(c) \/ AnyoneCollects(c)
    \/ record.strays < MaxStrays /\ Stray(1)

Next ==
    \/ KeeperStep \/ Change
    \/ \E j \in flight : Land(j) \/ Lose(j)
    \/ ((\E c \in Hand : ByHand(c)) \/ Setup \/ World) /\ UNCHANGED <<keeper, flight, changes>>

Spec == KInit /\ [][Next]_vars

\* Somebody runs the keeper again and again; a crank sent again and again lands
\* in the end, unless the program refuses it.
FairSpec ==
    /\ Spec /\ WF_vars(KeeperStep) /\ SF_vars(Land(Platform))
    /\ \A c \in Coins, k \in Kinds : SF_vars(\E j \in flight : j.kind = k /\ j.coin = c /\ Land(j))

--------------------------------------------------------------------------------
(* Invariants. *)

\* Every amount is a natural number: no leg takes more than there is, and no
\* remainder is negative (split_legs, crank_lp).
RailTypeOK ==
    /\ platform \in [open : BOOLEAN, admin : Admins \cup {NoOne}, paused : BOOLEAN, raydium : BOOLEAN]
    /\ quote \in [open : BOOLEAN, enabled : BOOLEAN, min : Nat]
    /\ route \in [Coins -> [open : BOOLEAN, split : Splits, pool : BOOLEAN,
                            coins : Nat, burned : Nat, paid : Nat]]
    /\ \A c \in Coins : route[c].open =>
          route[c].split.sol + route[c].split.own + route[c].split.ops = Whole
    /\ collect \in [Coins -> [quote : Nat, coins : Nat, dust : Nat]]
    /\ signer \in [quote : Nat, dust : Nat, paid : Nat]
    /\ wallet \in [Wallets -> Nat]
    /\ trading \in [Coins -> {"none", "curve", "full", "cpmm"}]
    /\ pots \in [Coins -> [curve : Nat, quote : Nat, coins : Nat, lpQuote : Nat, lpCoins : Nat]]
    /\ vault \in Nat
    /\ record \in [coin : [Coins -> [earned : Nat, coins : Nat, bought : Nat, shared : Nat, passes : Nat]],
                   platform : Nat, strays : Nat]
    /\ keeper \in [min : Nat, todo : SUBSET (Coins \cup {Vault}), jobs : SUBSET Jobs]
    /\ flight \subseteq Jobs

\* The lifetime totals of ll_route, which the site publishes, account for every
\* fee the coin ever earned, together with what still waits to be routed.
QuoteAccounted(c) ==
    record.coin[c].earned = pots[c].curve + pots[c].quote + pots[c].lpQuote
                            + collect[c].quote + collect[c].dust + record.coin[c].shared
                            + record.coin[c].bought + route[c].burned + route[c].paid
CoinsAccounted(c) ==
    record.coin[c].coins + record.coin[c].bought
        = pots[c].coins + pots[c].lpCoins + collect[c].coins + route[c].coins

FeesAccounted == \A c \in Coins : QuoteAccounted(c) /\ CoinsAccounted(c)

\* Of the platform's own fees nothing but strays stays with ll_signer: all of
\* them wait in the vault or were paid to charlie_pool (crank_lp, crank_platform).
CharlieAccounted ==
    /\ record.platform + record.strays = vault + signer.quote + signer.dust + signer.paid
    /\ signer.quote + signer.dust <= record.strays

\* What is published of the fees, coin by coin and for the platform, adds up to what was
\* earned, whatever two cranks unwrap of one account and whoever pays into it.
AllAccounted == FeesAccounted /\ CharlieAccounted

\* The legs leave at most two lamports of a crank, however often the route
\* and min_crank change between (split_legs).
DustIsBounded == \A c \in Coins : collect[c].dust <= 2 * record.coin[c].passes

--------------------------------------------------------------------------------
(* What must happen. *)

\* What the program would let the keeper crank now: creator fees worth it on a
\* curve that still trades or in a graduated coin's pool, and any LP fees.
CurveDue(c) ==
    /\ trading[c] = "curve" /\ Enough(pots[c].curve)
    /\ CurvePasses(Keeper, c, route[c].split.address)
PoolDue(c) ==
    /\ trading[c] = "cpmm" /\ Enough(pots[c].quote)
    /\ AmmPasses(Keeper, c, route[c].split.address)
LpDue(c) ==
    /\ pots[c].lpQuote + pots[c].lpCoins > 0
    /\ LpPasses(Keeper, c, route[c].split.address)

\* When owners and trades have come to rest, the fees of a trading curve, of a
\* pool that the route records, and of the platform are cranked in the end, unless
\* the program refuses it (plan, run).  A pool the route does not record is
\* GraduatedIsCranked's; what is left on a curve that stopped trading, and quote
\* that waits in ll_collect, the keeper never asks for.
DueIsCranked ==
    <>[](/\ \A c \in Coins : ~CurveDue(c) /\ ~(route[c].pool /\ (PoolDue(c) \/ LpDue(c)))
         /\ ~(vault > 0 /\ PlatformPasses(Keeper)))

\* `crank_amm_creator: coin graduated; the CPMM pool records at least min_crank of
\* quote-side creator fees' (the keeper's own table, launchlab_keeper.py).  Nobody
\* but a crank records the pool in the route, and the keeper takes a coin whose
\* route records none to be on its curve still.
GraduatedIsCranked == \A c \in Coins : []<>~PoolDue(c)
================================================================================
