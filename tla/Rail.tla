---------------------------------- MODULE Rail ----------------------------------
(***************************************************************************)
(* The LaunchLab rail program (launchlab/src/processor.rs) and what        *)
(* Raydium's programs hold for it.  A coin launched here earns its creator *)
(* fee on the curve, then on the CPMM pool, and a share of the pool's LP   *)
(* fees; a crank claims one of them into ll_collect(mint), and divides all *)
(* that is there by the coin's route.                                      *)
(*                                                                         *)
(* Only coins quoted in SOL are modelled: every crank refuses another      *)
(* quote (not_built).  Comparisons of an account with a derived address    *)
(* are left out.  Prices are too: a lamport buys one coin.                 *)
(***************************************************************************)
EXTENDS BasisPoints, FiniteSets

CONSTANTS
    Whole,              \* 10000 basis points
    Coins, Wallets,     \* mints; the ops wallets devs name
    Admins,             \* keys that may be the platform's admin
    LpShare,            \* LP_CHARLIE_BPS
    Rent,               \* a system account's rent exempt minimum
    Offered             \* bound: the routes devs write

ASSUME WholeAssumption == Whole \in Nat \ {0}

\* A leg's share of an amount.
Share(l, bps) == PartOf(l, bps, Whole)

NoOne == "no one"       \* Pubkey::default()

Splits == [sol : 0..Whole, own : 0..Whole, ops : 0..Whole, address : Wallets \cup {NoOne}]

ASSUME RailAssumption ==
    /\ LpShare \in 0..Whole /\ Rent \in Nat \ {0} /\ Offered \subseteq Splits
    /\ IsFiniteSet(Coins) /\ NoOne \notin Wallets

VARIABLES
    platform,   \* ll_platform
    quote,      \* quote_cfg of wrapped SOL
    route,      \* coin -> ll_route(mint)
    collect,    \* coin -> what ll_collect(mint) holds
    signer,     \* what ll_signer holds, and has paid charlie_pool of platform fees
    wallet,     \* ops wallet -> lamports
    trading,    \* coin -> the stage of its LaunchLab pool
    pots,       \* coin -> fees Raydium holds for it
    vault,      \* the platform fee vault
    record      \* (history) what was earned, bought and paid

program == <<platform, quote, route>>
Holds   == <<collect, signer, wallet, trading, pots, vault, record>>
rail    == <<program, Holds>>

NoPlatform == [open |-> FALSE, admin |-> NoOne, paused |-> FALSE, raydium |-> FALSE]
NoQuote    == [open |-> FALSE, enabled |-> FALSE, min |-> 0]
NoSplit    == [sol |-> 0, own |-> 0, ops |-> 0, address |-> NoOne]
NoRoute    == [open |-> FALSE, split |-> NoSplit, pool |-> FALSE, coins |-> 0, burned |-> 0, paid |-> 0]

\* A wrapped and a coin account, and the lamports of fees that no leg took.
Empty   == [quote |-> 0, coins |-> 0, dust |-> 0]
NoPots  == [curve |-> 0, quote |-> 0, coins |-> 0, lpQuote |-> 0, lpCoins |-> 0]
NoDeeds == [earned |-> 0, coins |-> 0, bought |-> 0, shared |-> 0, passes |-> 0]

Init ==
    /\ platform = NoPlatform /\ quote = NoQuote /\ vault = 0
    /\ signer = [quote |-> 0, dust |-> 0, paid |-> 0]
    /\ route = [c \in Coins |-> NoRoute] /\ collect = [c \in Coins |-> Empty]
    /\ trading = [c \in Coins |-> "none"] /\ pots = [c \in Coins |-> NoPots]
    /\ wallet = [w \in Wallets |-> 0]
    /\ record = [coin |-> [c \in Coins |-> NoDeeds], platform |-> 0, strays |-> 0]

--------------------------------------------------------------------------------
(* Owner instructions. *)

\* Once, by the upgrade authority.
InitPlatform(a) ==
    /\ ~platform.open
    /\ platform' = [NoPlatform EXCEPT !.open = TRUE, !.admin = a]
    /\ UNCHANGED <<quote, route, Holds>>

\* Once: ll_signer becomes the Raydium platform's wallet.
CreateRaydiumPlatform ==
    /\ platform.open /\ ~platform.raydium
    /\ platform' = [platform EXCEPT !.raydium = TRUE]
    /\ UNCHANGED <<quote, route, Holds>>

SetPaused ==
    /\ platform.open
    /\ platform' = [platform EXCEPT !.paused = ~@]
    /\ UNCHANGED <<quote, route, Holds>>

SetAdmin(a) ==
    /\ platform.open /\ a # platform.admin
    /\ platform' = [platform EXCEPT !.admin = a]
    /\ UNCHANGED <<quote, route, Holds>>

SetQuote(enabled, min) ==
    /\ platform.open
    /\ quote' = [open |-> TRUE, enabled |-> enabled, min |-> min]
    /\ UNCHANGED <<platform, route, Holds>>

--------------------------------------------------------------------------------
(* A dev's instructions. *)

\* Route::validate, on every write.
Valid(s)     == s.sol + s.own + s.ops = Whole /\ (s.ops > 0 => s.address # NoOne)

Launched(s) == [open |-> TRUE, split |-> s, pool |-> FALSE, coins |-> 0, burned |-> 0, paid |-> 0]

Launch(c, s) ==
    /\ platform.raydium /\ ~platform.paused /\ quote.enabled
    /\ ~route[c].open /\ Valid(s)
    /\ route' = [route EXCEPT ![c] = Launched(s)]
    /\ trading' = [trading EXCEPT ![c] = "curve"]
    /\ UNCHANGED <<platform, quote, collect, signer, wallet, pots, vault, record>>

\* Totals, pools and the quote are carried over.
Afresh(c, s)    == [Launched(s) EXCEPT !.pool = route[c].pool]
Rewritten(c, s) == [route[c] EXCEPT !.split = s]

SetRoute(c, s) ==
    /\ route[c].open /\ Valid(s)
    /\ route' = [route EXCEPT ![c] = Rewritten(c, s)]
    /\ UNCHANGED <<platform, quote, Holds>>

--------------------------------------------------------------------------------
(* The cranks, signed by key a. *)

MayCrank(a) ==
    /\ platform.open /\ platform.admin = a /\ ~platform.paused
    /\ quote.open

\* split_legs.
Legs(c, q) == [sol |-> Share(q, route[c].split.sol), own |-> Share(q, route[c].split.own),
               ops |-> Share(q, route[c].split.ops)]
NoLegs == [sol |-> 0, own |-> 0, ops |-> 0]

\* The quote side is routed only from min_crank upwards.
Enough(q)    == q >= quote.min /\ q > 0
Routed(c, q) == IF Enough(q) THEN Legs(c, q) ELSE NoLegs

\* transfer_lamports: the runtime refuses to leave the wallet below its rent.
Payable(ops, n) == n = 0 \/ (ops \in Wallets /\ wallet[ops] + n >= Rent)

\* Whether a crank that is given this ops address and finds q to route succeeds.
Passes(c, ops, q) ==
    /\ route[c].open /\ ops = route[c].split.address
    /\ Payable(ops, Routed(c, q).ops)

\* The own leg buys, every coin is burned, the wrapped account is closed into
\* ll_collect, and the two SOL legs are paid out of it.  What the legs leave is
\* lamports of ll_collect from then on.
Left(c, q) == q - Routed(c, q).sol - Routed(c, q).own - Routed(c, q).ops
Kept(c, q) ==
    IF Enough(q) THEN [quote |-> 0, coins |-> 0, dust |-> collect[c].dust + Left(c, q)]
                 ELSE [quote |-> q, coins |-> 0, dust |-> collect[c].dust]

Counted(c, q, coins, pool) ==
    [open |-> TRUE, split |-> route[c].split, pool |-> pool,
     coins |-> route[c].coins + coins + Routed(c, q).own,
     burned |-> route[c].burned + Routed(c, q).sol, paid |-> route[c].paid + Routed(c, q).ops]

Done(c, q, share) ==
    LET old == record.coin[c]
    IN  [earned |-> old.earned, coins |-> old.coins, bought |-> old.bought + Routed(c, q).own,
         shared |-> old.shared + share, passes |-> old.passes + (IF Enough(q) THEN 1 ELSE 0)]

Pass(c, ops, q, coins, pool, share) ==
    /\ Passes(c, ops, q)
    /\ collect' = [collect EXCEPT ![c] = Kept(c, q)]
    /\ route' = [route EXCEPT ![c] = Counted(c, q, collect[c].coins + coins, pool)]
    /\ wallet' = [w \in Wallets |-> wallet[w] + (IF w = ops THEN Routed(c, q).ops ELSE 0)]
    /\ record' = [record EXCEPT !.coin[c] = Done(c, q, share)]

\* crank_curve routes the account's whole balance, or nothing happens at all;
\* its buy needs a curve that still trades.
OnCurve(c) == collect[c].quote + pots[c].curve

CurvePasses(a, c, ops) ==
    /\ MayCrank(a) /\ Passes(c, ops, OnCurve(c))
    /\ OnCurve(c) >= quote.min
    /\ Legs(c, OnCurve(c)).own > 0 => trading[c] = "curve"

CrankCurve(a, c, ops) ==
    /\ CurvePasses(a, c, ops)
    /\ Pass(c, ops, OnCurve(c), 0, route[c].pool, 0)
    /\ pots' = [pots EXCEPT ![c].curve = 0]
    /\ UNCHANGED <<platform, quote, signer, trading, vault>>

\* load_pool records the CPMM pool the first time.
InPool(c) == collect[c].quote + pots[c].quote

AmmPasses(a, c, ops) == MayCrank(a) /\ trading[c] = "cpmm" /\ Passes(c, ops, InPool(c))

CrankAmmCreator(a, c, ops) ==
    /\ AmmPasses(a, c, ops)
    /\ Pass(c, ops, InPool(c), pots[c].coins, TRUE, 0)
    /\ pots' = [pots EXCEPT ![c].quote = 0, ![c].coins = 0]
    /\ UNCHANGED <<platform, quote, signer, trading, vault>>

\* ll_signer claims the LP fees, burns their coins, pays charlie_pool its share
\* and nothing else, and moves the rest to ll_collect.
Charlie(n) == Share(n, LpShare)
DevPart(n) == n - Charlie(n)
Claimed(c) == collect[c].quote + DevPart(pots[c].lpQuote)

LpPasses(a, c, ops) == MayCrank(a) /\ trading[c] = "cpmm" /\ Passes(c, ops, Claimed(c))

CrankLp(a, c, ops) ==
    /\ LpPasses(a, c, ops)
    /\ Pass(c, ops, Claimed(c), pots[c].lpCoins, TRUE, Charlie(pots[c].lpQuote))
    /\ pots' = [pots EXCEPT ![c].lpQuote = 0, ![c].lpCoins = 0]
    /\ signer' = [signer EXCEPT !.quote = 0, !.dust = @ + signer.quote]
    /\ UNCHANGED <<platform, quote, trading, vault>>

\* All that the claim finds in ll_signer's account goes to charlie_pool.
PlatformPasses(a) == MayCrank(a) /\ platform.raydium /\ vault >= quote.min

Unwrapped == vault + signer.quote

CrankPlatform(a) ==
    /\ PlatformPasses(a)
    /\ signer' = [signer EXCEPT !.quote = 0, !.paid = @ + Unwrapped]
    /\ vault' = 0
    /\ UNCHANGED <<program, collect, wallet, trading, pots, record>>

--------------------------------------------------------------------------------
(* Raydium and everybody else. *)

\* A trade on the curve pays the coin's creator and the platform.
TradeOnCurve(c, n) ==
    /\ trading[c] = "curve"
    /\ pots' = [pots EXCEPT ![c].curve = @ + n]
    /\ vault' = vault + n
    /\ record' = [record EXCEPT !.coin[c].earned = @ + n, !.platform = @ + n]
    /\ UNCHANGED <<program, collect, signer, wallet, trading>>

\* A buy in the pool pays its fees in SOL, a sale in coins: as much to the
\* creator as to those whose liquidity is locked.
Credited(c, n, m) ==
    [curve |-> pots[c].curve, quote |-> pots[c].quote + n, coins |-> pots[c].coins + m,
     lpQuote |-> pots[c].lpQuote + n, lpCoins |-> pots[c].lpCoins + m]

Earned(c, n, m) ==
    LET old == record.coin[c]
    IN  [earned |-> old.earned + 2 * n, coins |-> old.coins + 2 * m,
         bought |-> old.bought, shared |-> old.shared, passes |-> old.passes]

TradeInPool(c, n, m) ==
    /\ trading[c] = "cpmm"
    /\ pots' = [pots EXCEPT ![c] = Credited(c, n, m)]
    /\ record' = [record EXCEPT !.coin[c] = Earned(c, n, m)]
    /\ UNCHANGED <<program, collect, signer, wallet, trading, vault>>

BuyInPool(c, n)  == TradeInPool(c, n, 0)
SellInPool(c, n) == TradeInPool(c, 0, n)

\* The curve is sold out, and later migrated.
Graduate(c) ==
    /\ trading[c] \in {"curve", "full"}
    /\ trading' = [trading EXCEPT ![c] = IF @ = "curve" THEN "full" ELSE "cpmm"]
    /\ UNCHANGED <<program, collect, signer, wallet, pots, vault, record>>

\* Anybody may run CPMM's collect for ll_collect.
Collected(c) == [quote |-> collect[c].quote + pots[c].quote,
                 coins |-> collect[c].coins + pots[c].coins, dust |-> collect[c].dust]

AnyoneCollects(c) ==
    /\ pots[c].quote + pots[c].coins > 0
    /\ collect' = [collect EXCEPT ![c] = Collected(c)]
    /\ pots' = [pots EXCEPT ![c].quote = 0, ![c].coins = 0]
    /\ UNCHANGED <<program, signer, wallet, trading, vault, record>>

\* Somebody sends wrapped SOL to ll_signer.
Stray(n) ==
    /\ signer' = [signer EXCEPT !.quote = @ + n]
    /\ record' = [record EXCEPT !.strays = @ + n]
    /\ UNCHANGED <<program, collect, wallet, trading, pots, vault>>

Withdraw(w) ==
    /\ wallet[w] > 0
    /\ wallet' = [wallet EXCEPT ![w] = 0]
    /\ UNCHANGED <<program, collect, signer, trading, pots, vault, record>>
================================================================================
