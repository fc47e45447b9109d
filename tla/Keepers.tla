------------------------------- MODULE Keepers -------------------------------
(***************************************************************************)
(* The keepers that move money on (indexer/distribute.py,                  *)
(* platform_fees.py, buyback.py, curvebuy.py, launch_buybacks.py and their *)
(* commands in cli.py): creator fees are distributed to the collection     *)
(* wallet and to the shared buyback treasury, platform fees are forwarded  *)
(* to the collection wallet, the collection wallet buys and burns          *)
(* $CHARLIE, and the treasury buys and burns each coin out of the credit   *)
(* its ledger holds for it.  Beside them, a person buys on a coin's page   *)
(* or at a launch (Buyers).                                                *)
(*                                                                         *)
(* Abstractions.  A market is one of a few pairs of reserves, read anew    *)
(* whenever it is looked at.  Network fees are paid out of the headroom.   *)
(* A transaction has landed, failed or expired before the keeper that sent *)
(* it runs again: a blockhash lives a minute, the schedules leave hours.   *)
(***************************************************************************)
EXTENDS Buyers, FiniteSets, Functions

CONSTANTS
    Coins,          \* the enrolled coins, in the order a run takes them
    Venues,         \* where a coin may be found to trade: records of Quotes
    Pools,          \* how the CPMM pool of the swapped quote may be found
    Slippage,
    Lot, MinLot,    \* DEFAULT_LOT_LAMPORTS, MIN_LOT_LAMPORTS
    Reserve,        \* RESERVE_LAMPORTS and the priority fee
    MinVault,       \* DEFAULT_MIN_LAMPORTS of distribute
    PumpMin,        \* pump's own minimum
    MinClaim,       \* MIN_CLAIM_LAMPORTS
    Fee,            \* what accrues at a time; half of it is the toll, half the treasury's
    MaxExtra,       \* bound: fees, gifts, purchases and faults, taken together
    MaxBusy,        \* bound: keepers under way at once; a buyer is alone
    MaxFailures,    \* MAX_CONSECUTIVE_FAILURES
    Budget,         \* --max-total of a keeper that loops
    Wallet,         \* what a buyer holds
    Amounts, Slippages      \* what a buyer may type

\* quote_out refuses a pool with an empty side, and a rate that is no part of a million.
CpmmPools == [in : Nat \ {0}, out : Nat \ {0}, rate : 0 .. Million - 1, creator : 0 .. Million - 1,
              onInput : BOOLEAN]

ASSUME KeepersAssumption ==
    /\ {Lot, MinLot, Reserve, MinVault, PumpMin, MinClaim, Fee, MaxExtra, MaxBusy, MaxFailures, Budget, Wallet} \subseteq Nat
    /\ Slippage \in 0 .. BPS - 1 /\ MinLot > 0 /\ Budget > 0
    /\ Venues \subseteq Markets /\ Pools \subseteq CpmmPools
    /\ Coins \in Seq(Range(Coins))

VARIABLES
    coins,      \* coin -> what its vaults hold, and whether it has graduated
    platform,   \* quote -> the platform's fee vault, and the fee wallet's token account
    purse,      \* lamports: what the cycles left the fee wallet, the collection wallet, the treasury
    ledger,     \* coin -> what it was credited and debited, its payouts not yet credited
    job,        \* keeper -> its run
    extra       \* (bound) fees, gifts, purchases and faults so far

vars == <<coins, platform, purse, ledger, job, extra>>

Set == Range(Coins)
Runs == {"distribute", "platform", "charlie", "launch", "buyer"}
Tiers == {"sol", "usdc"}
Idle == [at |-> "idle", state |-> "none", tx |-> <<>>, todo |-> <<>>,
         loop |-> FALSE, lot |-> 0, spent |-> 0, failures |-> 0]

Init ==
    /\ coins = [c \in Set |-> [vault |-> 0, amm |-> 0, graduated |-> FALSE]]
    /\ platform = [tier \in Tiers |-> [vault |-> 0, account |-> 0]]
    /\ purse = [fee |-> 0, toll |-> 0, treasury |-> Reserve]
    /\ ledger = [c \in Set |-> [credited |-> 0, debited |-> 0, payouts |-> 0]]
    /\ job = [k \in Runs |-> Idle]
    /\ extra = 0

--------------------------------------------------------------------------------
(* The chain: fees accrue, coins graduate, anybody may distribute. *)

Outside == extra < MaxExtra /\ extra' = extra + 1

Accrues(c) ==
    /\ Outside
    /\ coins' = IF coins[c].graduated THEN [coins EXCEPT ![c].amm = @ + Fee]
                                    ELSE [coins EXCEPT ![c].vault = @ + Fee]
    /\ UNCHANGED <<platform, purse, ledger, job>>

\* Platform fees, and tokens somebody sends to the fee wallet.
PlatformAccrues(tier, pot) ==
    /\ Outside
    /\ platform' = [platform EXCEPT ![tier][pot] = @ + MinClaim]
    /\ UNCHANGED <<coins, purse, ledger, job>>

\* A run by hand with --keep: the fees become the operator's.
KeptByHand(tier) ==
    /\ Outside /\ platform[tier].vault > 0
    /\ platform' = [platform EXCEPT ![tier] = [vault |-> 0, account |-> 0]]
    /\ UNCHANGED <<coins, purse, ledger, job>>

Graduates(c) ==
    /\ ~coins[c].graduated
    /\ coins' = [coins EXCEPT ![c].graduated = TRUE]
    /\ UNCHANGED <<platform, purse, ledger, job, extra>>

\* distribute_creator_fees, after the transfer from the AMM where there is one;
\* pump declines a vault below its minimum, and that is a success too.
Reach(c, transfer) == coins[c].vault + (IF transfer THEN coins[c].amm ELSE 0)

Distributed(c, transfer) ==
    LET reach == Reach(c, transfer)
        left == IF transfer THEN 0 ELSE coins[c].amm
    IN  IF reach < PumpMin
        THEN /\ coins' = [coins EXCEPT ![c].vault = reach, ![c].amm = left]
             /\ UNCHANGED <<purse, ledger>>
        ELSE /\ coins' = [coins EXCEPT ![c].vault = 0, ![c].amm = left]
             /\ purse' = [purse EXCEPT !.toll = @ + reach \div 2, !.treasury = @ + reach \div 2]
             /\ ledger' = [ledger EXCEPT ![c].payouts = @ + reach \div 2]

Anybody(c) ==
    /\ Distributed(c, coins[c].graduated)
    /\ UNCHANGED <<platform, job, extra>>

--------------------------------------------------------------------------------
(* What every keeper does: plan and simulate, sign and send, wait, read back.
   `state' is what became of the transaction it sent last. *)

Flying(k) == job[k].state = "flying"
Busy == {k \in Runs : job[k] # Idle}
Free(k) ==
    /\ job[k] = Idle /\ job["buyer"] = Idle
    /\ Cardinality(Busy) < IF k = "buyer" THEN 1 ELSE MaxBusy
Sends(k, tx) == job' = [job EXCEPT ![k].at = "sent", ![k].state = "flying", ![k].tx = tx]

\* A keeper that is done, and whose transaction is decided, leaves nothing behind.
Rest(of) == IF of.at = "idle" /\ of.state # "flying" THEN Idle ELSE of
Stops(k) == job' = [job EXCEPT ![k] = Rest([@ EXCEPT !.at = "idle"])]
Decided(k, how) == job' = [job EXCEPT ![k] = Rest([@ EXCEPT !.state = how])]

\* confirm, and verify_recorded where a burn is read back: answered once it has
\* landed, but they may raise whatever became of it.
Heard(k) == job[k].at = "sent" /\ job[k].state # "flying"
Answered(k) == job[k].at = "sent" /\ job[k].state = "landed"
Unanswered(k) ==
    /\ job[k].at = "sent"
    /\ IF job[k].state = "dead" THEN UNCHANGED extra ELSE Outside

--------------------------------------------------------------------------------
(* distribute: one coin at a time. *)

Payable(c) == Reach(c, coins[c].graduated)
Worth(c) == Payable(c) >= MinVault /\ Payable(c) >= PumpMin

\* A run that finds nothing worth it changes nothing, and is left out.
StartDistribute ==
    /\ Free("distribute") /\ \E c \in Set : Worth(c)
    /\ job' = [job EXCEPT !["distribute"].at = "next", !["distribute"].todo = Coins]
    /\ UNCHANGED <<coins, platform, purse, ledger, extra>>

Todo == job["distribute"].todo
Passes == job' = [job EXCEPT !["distribute"] = [Idle EXCEPT !.at = "next", !.todo = Tail(Todo)]]

Skips ==
    /\ job["distribute"].at = "next" /\ Todo # <<>> /\ ~Flying("distribute")
    /\ ~Worth(Head(Todo)) /\ Passes
    /\ UNCHANGED <<coins, platform, purse, ledger, extra>>

PaysOut ==
    /\ job["distribute"].at = "next" /\ Todo # <<>> /\ ~Flying("distribute")
    /\ Worth(Head(Todo))
    /\ Sends("distribute", [coin |-> Head(Todo), transfer |-> coins[Head(Todo)].graduated])
    /\ UNCHANGED <<coins, platform, purse, ledger, extra>>

LandsDistribute ==
    /\ Flying("distribute")
    /\ Distributed(job["distribute"].tx.coin, job["distribute"].tx.transfer)
    /\ Decided("distribute", "landed")
    /\ UNCHANGED <<platform, extra>>

PaidOut ==
    /\ Answered("distribute") /\ Passes
    /\ UNCHANGED <<coins, platform, purse, ledger, extra>>

EndDistribute ==
    /\ job["distribute"].at = "next" /\ Todo = <<>>
    /\ Stops("distribute")
    /\ UNCHANGED <<coins, platform, purse, ledger, extra>>

--------------------------------------------------------------------------------
(* platform_fees: claim, swap what is not wSOL, unwrap and forward, in one
   transaction. *)

Account(tier) == platform[tier].account + platform[tier].vault

\* quote_out, and what the pool really pays.
SwapOut(held, pool) ==
    QuoteOut(held, pool.in, pool.out, Slippage, pool.rate, pool.creator, pool.onInput)
SwapPays(held, pool) ==
    CpmmPays(held, pool.in, pool.out, pool.rate, pool.creator, pool.onInput)

\* plan: what is forwarded for what the vault holds.
Forwards(tier) ==
    LET held == platform[tier].vault
    IN  {out \in IF tier = "sol" \/ held = 0 THEN {held} ELSE {SwapOut(held, pool) : pool \in Pools} :
            out >= MinClaim}

Claim(tier) ==
    /\ Free("platform")
    /\ \E out \in Forwards(tier) :
         Sends("platform", [tier |-> tier, held |-> platform[tier].vault, out |-> out])
    /\ UNCHANGED <<coins, platform, purse, ledger, extra>>

\* wSOL: a transfer of `held' to itself asserts that the account holds it, and
\* the account is unwrapped whole.  Otherwise the swap itself takes `held', and
\* fails where the pool pays less than `out'.
Unasserted(tx) == {Account(tx.tier)}
Unwrapped(tx) == {held \in {Account(tx.tier)} : held >= tx.held}
Swapped(tx) ==
    {paid \in {SwapPays(tx.held, pool) : pool \in Pools} : paid >= tx.out /\ Account(tx.tier) >= tx.held}
InSol(tx) == IF tx.tier = "sol" THEN Unwrapped(tx) ELSE Swapped(tx)

LandsPlatform ==
    LET tx == job["platform"].tx
    IN  /\ Flying("platform")
        /\ \E lamports \in InSol(tx) :
             purse' = [purse EXCEPT !.fee = @ + lamports - tx.out, !.toll = @ + tx.out]
        /\ platform' = [platform EXCEPT ![tx.tier] =
                [vault |-> 0, account |-> IF tx.tier = "sol" THEN 0 ELSE Account(tx.tier) - tx.held]]
        /\ Decided("platform", "landed")
        /\ UNCHANGED <<coins, ledger, extra>>

EndPlatform ==
    /\ Answered("platform") /\ Stops("platform")
    /\ UNCHANGED <<coins, platform, purse, ledger, extra>>

--------------------------------------------------------------------------------
(* Buy and burn: quote the lot at the venue the coin is on, buy for at most the
   lot, and burn, in one transaction. *)

\* What `observe' may read of a pool and of a curve, and the venue of a coin.
PoolsRead == {v \in Venues : ~v.curve}
CurvesRead == {v \in Venues : v.curve}
VenuesOf(graduated) == IF graduated THEN PoolsRead ELSE CurvesRead

\* plan_buy_and_burn asking for more headroom than sweep_lot leaves.
CoversMore(balance, lot) == balance > lot + Reserve
Covers(balance, lot) == balance >= lot + Reserve

\* plan_buy_and_burn: what is bought, for what at the time of the quote, and
\* nothing where a lot or a wallet is too small.
Affords(lot, balance) == lot >= MinLot /\ Covers(balance, lot)

PoolQuote(lot, balance, venue) ==
    {Buys(out, PoolCost(out, venue), lot, lot, FALSE) :
        out \in {o \in {PoolLot(lot, venue, Slippage)} : o > 0 /\ Affords(lot, balance)}}
CurveQuote(lot, balance, venue) ==
    {Buys(out, CurveCost(out, venue), lot, lot, TRUE) :
        out \in {o \in {CurveLot(lot, venue, Slippage)} : o > 0 /\ Affords(lot, balance)}}
Quote(lot, balance, venue) ==
    IF venue.curve THEN CurveQuote(lot, balance, venue) ELSE PoolQuote(lot, balance, venue)

\* What a landed buy took; a venue that moved too far fails it whole.  The bound
\* is wrapped first, save by the `buy' of a person on a curve.
Cost(out, venue) == IF venue.curve THEN CurveCost(out, venue) ELSE PoolCost(out, venue)
TakesBare(tx, balance, venues) ==
    {cost \in {Cost(tx.out, v) : v \in {v \in venues : v.curve = tx.curve /\ v.base > tx.out}} :
        cost <= tx.bound /\ balance >= cost}
Takes(tx, balance, venues) == IF balance >= tx.bound THEN TakesBare(tx, balance, venues) ELSE {}

--------------------------------------------------------------------------------
(* charlie-buyback --sweep: once, or in the loop of run_keeper. *)

StartCharlie(loop) ==
    LET lot == SweepLot(purse.toll, Reserve)
    IN  /\ Free("charlie") /\ lot >= MinLot
        /\ job' = [job EXCEPT !["charlie"] = [Idle EXCEPT !.at = "crank", !.loop = loop, !.lot = lot]]
        /\ UNCHANGED <<coins, platform, purse, ledger, extra>>

Cranking == job["charlie"].at = "crank" /\ ~Flying("charlie")

Crank ==
    /\ Cranking
    /\ \E venue \in VenuesOf(TRUE) : \E tx \in Quote(job["charlie"].lot, purse.toll, venue) :
         Sends("charlie", tx)
    /\ UNCHANGED <<coins, platform, purse, ledger, extra>>

LandsCharlie ==
    /\ Flying("charlie")
    /\ \E cost \in Takes(job["charlie"].tx, purse.toll, VenuesOf(TRUE)) :
         purse' = [purse EXCEPT !.toll = @ - cost]
    /\ Decided("charlie", "landed")
    /\ UNCHANGED <<coins, platform, ledger, extra>>

\* The loop goes on until the budget is reached or too many in a row have failed.
GoesOn(of) == of.loop /\ of.spent < Budget /\ of.failures < MaxFailures
Onwards(of) == Rest([of EXCEPT !.at = IF GoesOn(of) THEN "crank" ELSE "idle"])

Counted(of) == [of EXCEPT !.failures = @ + 1]

Burned ==
    /\ Answered("charlie")
    /\ LET run == job["charlie"]
       IN  job' = [job EXCEPT !["charlie"] =
                       Onwards([run EXCEPT !.spent = @ + run.tx.cost, !.failures = 0])]
    /\ UNCHANGED <<coins, platform, purse, ledger, extra>>

CrankFails == job' = [job EXCEPT !["charlie"] = Onwards(Counted(@))]

\* Nothing is bought for so little, or the wallet no longer holds it.
CrankRefused ==
    /\ Cranking /\ CrankFails
    /\ \E venue \in VenuesOf(TRUE) : Quote(job["charlie"].lot, purse.toll, venue) = {}
    /\ IF Covers(purse.toll, job["charlie"].lot) THEN Outside ELSE UNCHANGED extra
    /\ UNCHANGED <<coins, platform, purse, ledger>>

CrankRaises ==
    /\ (Cranking /\ Outside) \/ Unanswered("charlie")
    /\ CrankFails
    /\ UNCHANGED <<coins, platform, purse, ledger>>

--------------------------------------------------------------------------------
(* launch-credit and launch-buyback. *)

Available(c) == ledger[c].credited - ledger[c].debited

Credit(c) ==
    /\ ledger[c].payouts > 0
    /\ ledger' = [ledger EXCEPT ![c].credited = @ + ledger[c].payouts, ![c].payouts = 0]
    /\ UNCHANGED <<coins, platform, purse, job, extra>>

Buyback(c) ==
    /\ Free("launch")
    /\ \E venue \in VenuesOf(coins[c].graduated) :
       \E tx \in Quote(Min({Lot, Available(c)}), purse.treasury, venue) :
         job' = [job EXCEPT !["launch"].at = "sent", !["launch"].state = "flying",
                            !["launch"].tx = tx, !["launch"].todo = <<c>>]
    /\ UNCHANGED <<coins, platform, purse, ledger, extra>>

Bought == Head(job["launch"].todo)

LandsLaunch ==
    /\ Flying("launch") /\ job["launch"].tx.curve # coins[Bought].graduated
    /\ \E cost \in Takes(job["launch"].tx, purse.treasury, VenuesOf(coins[Bought].graduated)) :
         purse' = [purse EXCEPT !.treasury = @ - cost]
    /\ Decided("launch", "landed")
    /\ UNCHANGED <<coins, platform, ledger, extra>>

\* record_burn: the cost of the quote, once the burn was read back.
RecordBurn ==
    /\ Answered("launch")
    /\ ledger' = [ledger EXCEPT ![Bought].debited = @ + job["launch"].tx.cost]
    /\ Stops("launch")
    /\ UNCHANGED <<coins, platform, purse, extra>>

--------------------------------------------------------------------------------
(* A person's buy: quoted, simulated, signed and handed to the relay.  One who   *)
(* never signs is one whose transaction expires.                                *)

\* `todo' is the coin bought, and nothing where the transaction creates it.
BuyerVenues(todo) == IF todo = <<>> THEN Fresh ELSE VenuesOf(coins[Head(todo)].graduated)
BuyerTakes(tx, todo) ==
    IF tx.curve THEN TakesBare(tx, Wallet, BuyerVenues(todo))
                ELSE Takes(tx, Wallet, BuyerVenues(todo))

\* No transaction is answered whose simulation fails.
Offered(tx, todo) ==
    /\ BuyerTakes(tx, todo) # {}
    /\ job' = [job EXCEPT !["buyer"] = [Idle EXCEPT !.at = "sent", !.state = "flying",
                                                   !.tx = tx, !.todo = todo]]

AskBuy(c) ==
    /\ Free("buyer") /\ Outside
    /\ \E sol \in Amounts, typed \in Slippages, venue \in VenuesOf(coins[c].graduated) :
       \E lot \in ParseSol(sol), slippage \in ParseSlippage(typed) :
       \E tx \in SiteBuy(lot, slippage, venue) : Offered(tx, <<c>>)
    /\ UNCHANGED <<coins, platform, purse, ledger>>

AskDevBuy ==
    /\ Free("buyer") /\ Outside
    /\ \E sol \in Amounts, fresh \in Fresh :
       \E lot \in ParseDevSol(sol) :
       \E tx \in DevBuy(lot, fresh) : Offered(tx, <<>>)
    /\ UNCHANGED <<coins, platform, purse, ledger>>

LandsBuyer ==
    /\ Flying("buyer")
    /\ \E cost \in BuyerTakes(job["buyer"].tx, job["buyer"].todo) :
         job' = [job EXCEPT !["buyer"].state = "landed", !["buyer"].spent = cost]
    /\ UNCHANGED <<coins, platform, purse, ledger, extra>>

EndBuyer ==
    /\ Heard("buyer") /\ Stops("buyer")
    /\ UNCHANGED <<coins, platform, purse, ledger, extra>>

--------------------------------------------------------------------------------

\* An exception ends a run, at any place; so does a wait of 90 seconds.
Raises(k) ==
    /\ (job[k].at = "next" /\ Outside) \/ (k \notin {"charlie", "buyer"} /\ Unanswered(k))
    /\ Stops(k)
    /\ UNCHANGED <<coins, platform, purse, ledger>>

CanLand(k) ==
    CASE k = "platform" -> InSol(job[k].tx) # {}
      [] k = "charlie" -> Takes(job[k].tx, purse.toll, VenuesOf(TRUE)) # {}
      [] k = "launch" -> /\ job[k].tx.curve # coins[Bought].graduated
                         /\ Takes(job[k].tx, purse.treasury, VenuesOf(coins[Bought].graduated)) # {}
      [] k = "buyer" -> BuyerTakes(job[k].tx, job[k].todo) # {}
      [] OTHER -> TRUE

\* A transaction fails on the chain, or expires.
Dies(k) ==
    /\ Flying(k) /\ Decided(k, "dead")
    /\ IF CanLand(k) THEN Outside ELSE UNCHANGED extra
    /\ UNCHANGED <<coins, platform, purse, ledger>>

Elsewhere ==
    \/ \E c \in Set : Accrues(c) \/ Graduates(c) \/ Anybody(c)
    \/ \E tier \in Tiers : KeptByHand(tier) \/ \E pot \in {"vault", "account"} : PlatformAccrues(tier, pot)

Distribute == StartDistribute \/ Skips \/ PaysOut \/ PaidOut \/ EndDistribute
Platform == (\E tier \in Tiers : Claim(tier)) \/ EndPlatform
CharlieRun == (\E loop \in BOOLEAN : StartCharlie(loop)) \/ Crank \/ Burned \/ CrankRefused \/ CrankRaises
Launch == (\E c \in Set : Credit(c) \/ Buyback(c)) \/ RecordBurn
Buyer == (\E c \in Set : AskBuy(c)) \/ AskDevBuy \/ EndBuyer
Lands == LandsDistribute \/ LandsPlatform \/ LandsCharlie \/ LandsLaunch \/ LandsBuyer
Ends == \E k \in Runs : Dies(k) \/ Raises(k)

Next == Elsewhere \/ Distribute \/ Platform \/ CharlieRun \/ Launch \/ Buyer \/ Lands \/ Ends

Spec == Init /\ [][Next]_vars

\* The schedules go on: what a keeper, or the chain for it, can do is done in the end.
FairSpec == Spec /\ WF_vars(Distribute \/ Platform \/ CharlieRun \/ Launch \/ EndBuyer \/ Lands \/ Ends)

--------------------------------------------------------------------------------
(* Properties. *)

\* A quote is never above its lot, at either venue, a keeper's or a person's
\* (base_out_for_lot, amount_for_lot): the slippage is left for the market.  What
\* the treasury may spend for a coin stays within that coin's own credit until the
\* debit is written (launch_buybacks: `only with the lamports credited to that mint').
QuoteFitsLot ==
    /\ \A k \in {"charlie", "launch", "buyer"} :
         job[k].at = "sent" => job[k].tx.out > 0 /\ job[k].tx.cost <= job[k].tx.lot
    /\ job["launch"].at = "sent" => job["launch"].tx.bound <= Available(Bought)

\* The fee wallet never forwards lamports of its own, whatever empties or fills
\* its vault and its account between the plan and the landing
\* (plan: `never forwards lamports it cannot prove it received').
OwnSolKept == purse.fee >= 0

\* What is worth moving is moved on in the end: distributed, forwarded, swept and burned.
Due(k) ==
    CASE k = "distribute" -> \E c \in Set : Worth(c)
      [] k = "platform" -> platform["sol"].vault >= MinClaim
      [] OTHER -> SweepLot(purse.toll, Reserve) >= MinLot
EveryFeeMovesOn == []<>(\A k \in Runs \ {"launch"} : ~Due(k))
================================================================================
