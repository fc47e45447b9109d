# A TLA+ model of the Charlie protocol

The Charlie protocol turns the creator fee of a coin into three things: a toll to
the protocol, burns, and money for somebody to run the coin with. Part of that
is three Solana programs, two for pump coins and one for Raydium's; most of it
is Python that runs beside them. This directory models the
parts where a wrong order of events costs money or a false statement: the bot that
launches a coin for a tag on X and pays its requester, the programs that divide a
fee, the keepers that move it on, the door a coin is launched through, and what is
measured and published of it.

- [The system](#the-system)
- [Modules](#modules)
- [What each run checks](#what-each-run-checks)
- [Bounds](#bounds)
- [Fairness](#fairness)
- [What is proved](#what-is-proved)
- [Where the source says something else](#where-the-source-says-something-else)
- [What the models leave out](#what-the-models-leave-out)
- [Plan](#plan)
- [Running it](#running-it)

## The system

Paths are relative to `src/`.

### Tag ledger and money tick: `indexer/tag_ledger.py`, `indexer/tag_bot.py`

**State.** A SQLite file: `tag_coins`, `tag_credits` (one row for each signature
and mint), `tag_debits` (pending or final, several rows may share a signature),
`tag_held` (held, approved, paid), `tag_wallets` (bound, pending, ready at) and a
few keys (the scan cursor, the stamp of the last burn). In the bot's memory: the
place in the tick, the claim being worked on, retries so far.

**Operations.** `tick_money` runs distribute, scan, reconcile, mirror, claims,
approved, burn, sweep, reconcile and mirror again, each on its own: one that
raises does not stop the next, but a claims step that raised, or did not see the
queue empty, stops that tick's burn.

**Interactions.** The chain; the claim site through a queue and a status in a KV
store; the owner, who approves holds from another process; launches, which add
the coins that credits are booked on.

**Hard.** A payment is written ahead, signed, sent, and then anything may happen
to it. Its debit may be dropped only when it can never land. Reconcile reads
statuses, then the finalized height, then statuses again, and its two commits
(debit, then status or stamp) can be split by a crash. Two claims can build the
byte-identical transaction.

**Correct if** nobody is paid more than their coins earned; the books say what
the chain did; a hold stays covered; no fee is paid that the ledger does not
see; a burn takes nothing young, promised or asked for; a payment goes only where
the requester agreed; every pending payment is settled in the end.

### Claim site: `api/claim.py`, `indexer/claim_session.py`, `indexer/kv.py`

**State.** `claim:queue`, `claim:status:{xid}`, `claim:credit:{xid}` in the KV, a
session in a signed cookie. **Operations.** OAuth login, `submit`, `status`.
**Hard.** `submit` writes the status first and the queue after; the function can
die in between, and a push that raised may have been applied. **Correct if** the bot
tells nobody `refused` who has a payment on its way. The site's own `refused`, after a
push that raised, promises less: the claim may be in the queue all the same.

### Tag launches: `indexer/tag_bot.py`, `indexer/tag_launch.py`, `indexer/mint_pool.py`, `indexer/xapi.py`

**State.** `tag_requests` (one row for each tag: outcome, code, mint), the
recovery list of creates that may still land, `tag_coins`, the cursor of the
search. **Operations.** `tick_mentions` looks at the recovery list, retries
pending splits, polls X, and takes each tag through the rules, the mint key, the
create, the split and the announcement; `replay` runs one tag again.
**Interactions.** X, pump, the image moderator, the owner, and the site's launch
door, which draws keys from the same pool. Between two money steps the loop runs
a due mentions tick.
**Hard.** Three writes come before a create; the create and the split may land
long after the bot gave up on them; a key in flight is not on chain yet; the
cursor must neither skip a tag nor be blocked by one.
**Correct if** a tag becomes at most one coin, a refused tag none, no coin is lost
sight of, limits and tickers hold however late a create lands, an announced coin
does pay its requester, no account is answered twice a day, and every tag is
acted on in the end.

### Protocol fee program: `program/src/lib.rs`

**State.** Accounts at derived addresses: `charlie_pool`, and for each coin
`route`, `collector`, `burn_pool`. **Operations.** `init_charlie_pool`,
`init_route`, `set_route`, `distribute` (permissionless).
**Hard.** The runtime refuses an instruction that leaves any account it touches
with lamports below its rent minimum, so one leg can take the others down with
it; legs are rounded down; the dev names the ops wallet and may rewrite the
route between two distributions; fees can arrive before the accounts exist.
**Correct if** the toll comes first, whatever the route; no pool is closed; no
lamport is made or lost; no distribution is refused because of one leg; every
toll due is paid in the end.

### Splitter: `charlie-splitter/src/lib.rs`, `tools/keeper.py`

**State.** `config`, `vault` and `burn_vault` of each coin. **Operations.**
`initialise`, `split`; the keeper calls `split` in a loop. Hard and correct as
above, with compiled-in shares and the burn in place of the toll.

### LaunchLab rail: `launchlab/src`, `indexer/launchlab_keeper.py`

**State.** `ll_platform` (admin, paused, the Raydium platform), one `quote_cfg` with
`min_crank`, for each coin an `ll_route` (the dev's split, the pool once it is
known, lifetime totals of what was burned and paid), and two addresses without
data that hold tokens and lamports: `ll_collect(mint)` and `ll_signer`. The keeper
keeps nothing between runs.
**Operations.** `init_platform`, `create_raydium_platform`, `set_quote`, `set_route`,
`set_paused`, `set_admin`, `launch`, and four cranks: curve fee, AMM creator fee,
LP fee, platform fee. The keeper's `plan` reads platform, routes, pools and vaults
and lists cranks; `run` simulates and sends them one by one.
**Interactions.** Raydium's LaunchLab and CPMM, which credit fees with every trade
and let anybody collect a pool's creator fee into `ll_collect`; wallets, which can
send anything to any of these addresses; the dev and the owner, who rewrite the
route and the thresholds at any time.
**Hard.** Three cranks route through one account, and each routes whatever it
finds there; below `min_crank` coins are burned but the quote waits; two cranks
unwrap the one quote account of `ll_signer`; a leg the runtime refuses takes the
whole crank with it; nothing the keeper sends is confirmed, so a run may plan what
an earlier one still has on its way.
**Correct if** the totals account for every fee, Charlie's part reaches
`charlie_pool` and nothing of it stays behind, rounding loses at most two lamports
a crank, and every fee worth a crank is cranked in the end.

`LAUNCHLAB-RAIL.md` now heads this design as decided against for the live
protocol. The program and its keeper are complete in the repository, ran on
devnet, and are modelled as they are.

### The keepers: `indexer/distribute.py`, `platform_fees.py`, `buyback.py`, `curvebuy.py`, `launch_buybacks.py`, `tools/`

**State.** Almost none: spent, cranks and failures of one `run_keeper`, and a JSONL
ledger of credits and burns for each mint of the shared treasury.
**Operations.** `distribute.run` coin by coin; the platform fee wallet's claim, swap
and forward in one transaction; the collection wallet's sweep, which buys and burns
$CHARLIE; the treasury's purchase for one mint out of that mint's credit.
**Interactions.** One keeper's output is the next one's input; pump, PumpSwap and
Raydium; anybody who trades, or pays into an account a keeper reads.
**Hard.** Each read may be stale when the transaction is sent; success does not mean
that anything was distributed; a send that is never confirmed counts as a failure
and not as spent.
**Correct if** no quote is above its lot or its mint's credit, the fee wallet forwards
no lamport of its own, and whatever is worth moving is moved on in the end.

### Launch door, enrolment, buys: `api/launch.py`, `api/enroll.py`, `api/buy.py`, `indexer/launch_page.py`, `enroll.py`, `legs.py`, `relay.py`, `sitebuy.py`, `launchbuy.py`

**State.** The script of the page (`state.phase`, the revision of the form, what was
built and when, the two signatures). The builders read the chain and return a
transaction to sign. **Operations.** Pin, build, sign and send the create, wait for it,
build, sign and send the split; retry whichever failed.
**Hard.** Answers arrive for a form that has changed since; an approval's fate may be
unknown after two minutes; a wallet may rewrite what it signs; the mint key comes
from the pool the bot draws from.
**Correct if** what is signed is what the page shows, no coin is made for a split the
protocol would not call enrolled, "confirmed" is said only of a split that is set, and
a dev who goes on gets the split set.

### Evidence and scan: `indexer/evidence.py`, `scan.py`, `protocol_burns.py`, `coverage.py`

**State.** An SQLite store: inflows, burns, opening balances, initial supply, sharing
configs, and for each address, purpose and endpoint a cursor. One JSON file of the
protocol's own burns. **Operations.** A scan walks what is new forward, and an
unfinished backfill backward, page by page, on every endpoint.
**Hard.** A walk that fails halfway, endpoints that drop history, lag, or list a
transaction they cannot return. **Correct if** nothing new is missed, neither an inflow
nor a burn, and no walk loses what an earlier one read.

### Checks and publication: `indexer/invariants.py`, `observe.py`, `publish.py`, `store.py`, `site.py`, `reconcile.py`, `api/verify.py`

**State.** A log of records, pages, an index, `RECONCILIATION.md`. Each check is PASS,
FAIL or UNCHECKED; a figure is shown when every check that backs it passed, and
older records go through a gate when they are replayed.
**Hard.** Each surface is written by other code, from a store that may be missing or
half walked. **Correct if** a figure whose checks did not pass is on no page, index or
record, old ones included, and what is shown holds. Two surfaces have no gate: the landing
page and `RECONCILIATION.md` print the sum of the burns recorded, which is also what a
withheld `supply_destroyed` would say.

### Issue intake: `indexer/intake.py`, `cli.py`

**State.** Attempts and answers, beside the issues on GitHub and the pages deployed.
**Operations.** A run measures what open issues ask for; a deployment publishes its
pages; a reply comments, closes and marks. **Hard.** Three separate runs and three
calls that can each raise, on issues that are edited meanwhile. **Correct if** an issue
that names a coin is answered and closed in the end, and the walk of burns that comes
with each measurement passes nothing over.

### The client and the sign-in: `indexer/rpc.py`, `codex_auth.py`, `moderation.py`

**State.** Failures and a cooldown for each endpoint, in memory; a file with the
moderator's single-use refresh token. **Hard.** All endpoints set aside at once; an
answer with the next refresh token that is lost, or read by two programs.
**Correct if** a call does not give up while an endpoint answers, a sign-in outlives
its refreshes, and a tag that waits for either is settled.

### The rest

The bytes of pages, encoding, cryptography, devnet drivers and simulations are not
modelled: they keep no state or are pure byte-level code.

## Modules

| module | what it models |
|---|---|
| `TagLedger` | the ledger file, the money tick step by step, the claim site, the owner, the chain |
| `TagLedgerProps` | its properties, the inductive invariant, the refinement mapping |
| `Payouts` | the abstract account of every requester: earned, promised, paying, burning, given |
| `TagRules` | the rules a post, its author, its words and its picture must meet, in their order |
| `TagLaunch`, `TagLaunchProps` | the mentions tick, the record of tags, the recovery list, the mint pool, X and pump; properties and inductive invariants |
| `Endpoints` | one call of the RPC client over its endpoints, in seconds |
| `SignIn` | the moderator's token store and the one call that judges a picture |
| `TagServices` | a tag that waits for both |
| `BasisPoints`, `Lamports` | a share in basis points; balances, rent, everybody else on the chain |
| `FeeRoute`, `Splitter`, `FeePrograms` | the instructions of the two fee programs, and both on one chain |
| `Rail`, `RailKeeper` | the LaunchLab program with Raydium beside it; its keeper and everybody else |
| `Quotes`, `Buyers` | what a buy costs and a lot buys; what a person who buys is quoted |
| `Keepers` | the four keepers that move money on, on markets that others use |
| `Legs` | what a split must carry, for the doors, a tag and the check |
| `LaunchPage` | the page of the launch door, its builders, relay, wallet and chain |
| `Walk` | a bounded walk of the history of one address |
| `Inflows` | the scan of one destination over several endpoints |
| `Intake` | the queue of issues, the walk of burns, pages, deployment, replies |
| `Coin`, `Checks`, `Record` | a coin and the store; the checks and the silence rule; every surface that says something of the coin |
| `MC*` | the instance each run checks; `MCPoolsAndServices`, `MCScanQueue` and `MCIndexer` two each |
| `ArithmeticProofs` | shares, sums over finite sets, greatest and least, for the other proofs |
| `TagLedgerProofs` | the abstract account; the ledger's invariant, its step properties, the refinement and the treasury |
| `TagLaunchProofs`, `LaunchPageProofs`, `FeeProofs`, `RailProofs` | theorems of these modules |
| `ServicesProofs` | theorems of `TagServices`, `Inflows` and `Intake` |
| `IndexerProofs` | theorems of `Keepers` and `Record` |

`FeePrograms` extends both programs over the same `Lamports`; `TagLedgerProps`
instantiates `Payouts`; `TagServices` extends `Endpoints` and `SignIn`; `Keepers` extends
`Buyers` and that `Quotes`; `LaunchPage` and `Coin` extend `Legs`; `Record`, `Checks` and
`Coin` are one chain; `Inflows` and `Intake` extend `Walk`. `TagLedger` and `TagLaunch` are
two halves of one process. They meet in `tag_coins` (a coin launched is one that can
earn) and in the loop, and neither reads what the other writes anywhere else, so they
are checked apart: `TagLedger` lets any of its users earn from the start. Where one proof
module extends several components their specifications have names of their own
(`InflowSpec`, `RecordSpec`, `ServicesSpec`).

**`TagLedger`.** A row of `tag_debits` has been folded into totals by user, except
for the pending ones: `debits[u]` is the one payment to `u`, `debits[Burn]` the
one burn with the rows of all users. A signature is the record of what is signed
(destination, lamports, blockhash), so two identical transactions have one
signature, as they do on chain. `named` is history, the wallet a requester's claims last
named and whether 72 hours passed since. `phase` and `at` are the step of the tick and the
place inside it; every commit to SQLite, KV write and RPC call is a place, and
`Crash`, `StepRaises` and `SettleRaises` can strike at each of them. An age is
the class the code compares it with: a credit is fresh or a week old, a wallet
change is ready or not, the last burn is a day old or not.
The scan and `_burn` between two RPC calls are one step each: nothing they
read can be changed by another process but the balance of the treasury, which
only the bot's own payments lower.

**`TagLaunch`.** Tags are numbered in the order X lists them. A row is one state
and a mint. `made[m]` says whose create landed on mint `m` (a tag's or the
door's), `flight` what may still land, `age[t]` whether the row is younger than
`CREATE_LANDING_SECONDS`, younger than a day, or older. What is read of a post, its
author, its words and its picture is a member of `Facts`, and `TagRules` computes which
rule refuses it; what the record says of the account and of the ticker is computed as
well. A read of the chain for a split may be behind the chain.

**`Endpoints`, `SignIn`, `TagServices`.** An endpoint is up, ill in one of the ways a
cooldown is computed for, or a gateway whose upstream fails; its health turns at any time.
An attempt is an action, and `penalise`, the waits and the counter of upstream failures
are as in `call`. A refresh token is a family and a turn; the file, what OpenAI issued
and revoked, and what each program holds are apart, so that an answer can be lost and
a spent token sent. `TagServices` polls a tag, asks both, and settles or holds it.

**`FeeRoute`, `Splitter`.** Each instruction is an action. `Become` is the
runtime: an instruction is atomic, and refused when it leaves an account it
changed with lamports below the rent minimum. `Distributed` and `SplitUp` are
the balances after a distribution and a split, written as sums, so that an ops
address that is one of the other accounts is treated as the code treats it.

**`Rail`.** Each instruction is an action, atomic as on chain. `pots[c]` is what
Raydium holds for coin `c` (curve fee, and the creator's and the LP's fees of the
pool in both tokens), `collect[c]` what is in `ll_collect`: wrapped quote, coins,
and `dust`, lamports that no leg took when the wrapped account was closed. `Pass` is
what the three cranks of a coin have in common, `route_cpmm` in the code and
written out once more in `crank_curve`. `record` is history for the properties, no
guard reads it. `CurvePasses`, `AmmPasses`, `LpPasses` and `PlatformPasses` say whether
a crank succeeds; the keeper's simulation and the liveness property ask the same.

**`RailKeeper`.** A run is `Start` (platform and `min_crank`), `PlanCoin` for one coin
after the other in any order, `PlanVault`, then a `Send` for each job: simulated,
and sent if that succeeds. A job carries the ops address it was built with, and
fails if the route names another by the time it lands. `Land` may leave the job in
flight, for an earlier run may have sent the same. The death of the keeper is one
of the `Change`s, as it loses nothing but the plan.

**`Keepers`.** `job[k]` is the run of each keeper, from its read through its plan to what it
sent; `Lands` applies what was sent to the state as it is by then, or fails. `purse` is
what the cycles left the fee wallet, the collection wallet and the treasury. `Quotes` holds
the integer arithmetic of both venues with its loops as what they may end on, and the
same operators quote a keeper's lot, a person's purchase and a launch's first buy.

**`LaunchPage`.** `page` is the script's `state` with the form beside it; `request` is what is
on its way to the server, with the revision it was asked for; `tx` is every transaction
signed for an approval of this page; another tab and other devs act on `coin`. Each `await` of the script is a place
where an answer may come late, and each sentence it says of a signature is an action.

**`Inflows`, `Intake`.** A signature is its place in the history. `Forward` and `Backward`
are one walk each: what an endpoint lists, up to a lag and without what it dropped, and
where it stops. `Inflows` adds rows, opening balances and cursors; `Intake` has the runs as
jobs whose steps can raise. `first` and `store.begun` are history: the oldest signature the
first walk passed, from where on nothing may be missed.

**`Record`.** Of all surfaces the one written last is kept in `said`, with what it shows and
what it had to withhold. In `Coin` a walk leaves what some prefix of the history holds
(how it does is `Inflows`), so that `Checks` meets every store a scan can leave.

## What each run checks

| run | instance | distinct states | shows |
|---|---|---|---|
| `TagPair` | two requesters, one wallet between them, no faults | 968 thousand | the treasury's balance is what went in less what the ledger knows went out (`EveryFeeSeen`); no two debits stand on one signature; a burn of both spares what is fresh or held |
| `TagLive` | one requester, two wallets, one fault at any place, fairness | 349 thousand | `NeverOverpaid`; `refused` means nothing was sent; a burn waits for the queue; an approval stands; a payment goes where agreed; the ledger implements `Payouts` (`KeepsAccount`); every payment written ahead is settled |
| `Launch` | two tags of one account for one ticker, a pool of one key shared with the door, replays, launches by hand, one fault, fairness | 510 thousand | no orphan coin; an announced coin pays; launched at most once; no coin behind a refusal; one answer a day; a late coin counts for limits and tickers; every tag is acted on |
| `Rail` | one coin from launch to pool, three routes of which one is refused, two values of `min_crank`, keeper and hand cranks, one change by an owner, fairness | 252 thousand | every fee is accounted for, Charlie's part is paid or waits in the vault, dust is bounded; what `plan` can see is cranked |
| `LaunchPage` | two mints, three forms, two rates of the toll, four approvals, two faults, fairness | 511 thousand | what is signed is what is shown; no coin with a split that would not enrol it; `done` means set; a dev who goes on gets the split |
| `PoolsAndServices` | *pools*: one enrolled coin, one served by the splitter, four routes of which one is invalid and one names the collector; *tag*: two endpoints, three retries, one lost answer; fairness | 278 thousand | pools open, nothing refused, lamports conserved, every toll due arrives; a call reaches an endpoint that stays up; a sign-in outlives its refreshes; the tag is settled |
| `ScanQueue` | *scan*: two endpoints of which one is steady, three transactions, answers one behind; *queue*: one coin, two issues, three inputs; fairness | 239 thousand | nothing since the first walk is missed, of inflows or of burns; new inflows are recorded in the end; an issue that names a coin is answered and closed |
| `Indexer` | *keepers*: one coin on a curve or a pool that moves, three fees, gifts, purchases or faults from outside; *record*: one coin of four splits ($CHARLIE's, enrolled, not enrolled, misread), two burns, one payment, one stranger's burn, one fault; fairness | 1.08 million | no quote above its lot or its mint's credit; the fee wallet keeps its own lamports; whatever is worth moving moves on; what is withheld is on no page, index or record; what is shown holds; no burn that was read is lost |

Two parts share the last three runs each. They have no state in common, one of them moves
in a behaviour and the other stays as it begins, and fairness is asked of each part as its
own specification asks it (`AllFair`): where one part moves, the actions of the other are
disabled, so a condition on either is a condition on both. The states of such a run are the
sum of those of its parts.

Four runs are expected to fail. Each states a sentence of the source that the code does
not keep, [quoted below](#where-the-source-says-something-else): `DryRun`
(`NoTokenIsReplayed`), `Graduation` (`GraduatedIsCranked`), `EmptyHistory`
(`EveryInflowRecorded`) and `Exact` (`ExactIsExact`). The passing runs check beside them
what does hold: a sign-in of one program, a pool the route records, an endpoint whose
history has begun, rows that are never lost.

## Bounds

Every bound is a constant, named `Max...` or given as a small set of sizes in the `MC`
module. Deadlock is checked in all runs but `Rail`, `LaunchPage`, `ScanQueue` and `Indexer`,
and the two short ones `Graduation` and `EmptyHistory`, where nothing is left to do once the
bounds are used up: a platform paused with the last change stays so, a page in phase
`unknown` has no button.
Symmetry (`MCTagLedger!Symmetry`) is used in `TagPair`, which checks safety only.

- *Ledger.* Lamports are small (`Rent` 2, `Fee` 1, `MinClaim` and `MinBurn` 3): what the
  code compares is whether an amount reaches a minimum, whether the treasury
  keeps its reserve, whether a transfer leaves it empty. One fault is enough to be
  inside the reconcile that a claim runs, and the restart after it meets everything the
  fault left behind. A queue of one, popped once a tick, is at its limit all the
  time. `TagPair` has two users for what one cannot show: a burn with two rows and
  two payments with one signature. Two wallets are a wallet bound and one named, with the
wait that a claim to the first ends; that a third restarts it is in the theorem. What is
proved of the ledger is proved for any number.
- *Launches.* One pool key is a pool that runs out and a key issued twice; a daily limit
  of one and a ceiling of two are reached by two tags. The two tags are of one account:
  with two accounts on one pool `NoOrphanCoin` does not hold (`LaunchCredit` below), and
  without a pool it is a theorem. Larger instances checked once and too slow to keep: two
  accounts without a pool (471 thousand states), the same with two faults (3.0 million),
  the pool with two faults (3.8 million).
- *Services.* Two endpoints are one that hangs beside one that answers; `RETRIES` of three
  a URL, delays and waits are the source's own seconds. The two theorems hold for any.
- *Fee programs.* The whole is 4 basis points and rent 3 lamports, so every share
  from 0 to 3 is rounded down somewhere and a leg is often below rent. The fees
  cover one that no leg can be paid from and several that can.
- *The rail.* The whole is 4 again, rent 2, Charlie's share of an LP fee 1 of 4. A fee
  of 5 reaches `min_crank` just so, which is where an off-by-one shows; three
  quarters of it, the dev's part of an LP fee, does not reach it and waits in
  `ll_collect` for the next crank. `MaxEarned` is 10: two curve trades, or one trade
  in the pool, which pays twice. The routes are one that pays every leg, one that buys
  nothing and pays an ops leg below the rent of an empty wallet, and one that does not
  fill the whole. One change (a new route, threshold or admin, a pause, an ops wallet
  emptied, the keeper's death) meets every state of the rest. `min_crank` is 5 or 6.
  `Graduation` has no crank by hand and no change: none is needed.
- *Keepers.* Lots and reserves are a few lamports, with fee rates that round up on every
  one of them, a budget of one lot and two failures in a row; one coin, since a coin's
  credit is its own. A market is a curve, or a pool before and after a move that the lot
  does not cover. Each of the three payments, purchases or faults may fall between a
  keeper's read and its landing.
- *Launch page.* Four approvals are each of the two, once more after a failure. Two mints
  are a coin made and one built again. The forms are the one the page opens with, one at
  the floor of the incinerator whose rows round up three times, and one that does not add
  up; the two rates are today's toll and an earlier one.
- *Walks.* With `MaxTx` 3 and pages of two there is a full page, a short one and something
  new while a backfill is open; an endpoint drops one transaction and is one behind. The
  address is a payee's (`Legs`), which money leaves as well: a vault is that without what
  leaves, and at the incinerator and the shared address no opening balance is admitted.
  `EmptyHistory` needs one endpoint and one transaction.
- *Issues.* One coin asked for by two issues, as many as a run takes; an edit and two
  failures are three inputs.
- *Records.* The rates `TollBps` 9925 and `OpsPercent` 1 let two rows carry every leg, so
  that a payment is 1 and every total 0 or 1; `Page` 2 is a full page of two burns. `Exact`
  has the same constants.

## Fairness

`TagLedger!FairSpec`: the loop keeps running (weak fairness of the bot's steps:
`tools/x_bot.py` catches what a tick raises and is restarted by its supervisor);
the finalized height advances; and a status read is, again and again, one that
shows all that has landed (strong fairness of `ShowAll`: a landed transaction is
confirmed sooner or later, while the bot may be busy with other reads). Nothing
is assumed of users, the owner, time or faults; `MaxFaults` bounds the faults,
since a bot that dies for ever settles nothing.

`TagLaunch!FairSpec`: the loop keeps running, a create lands or expires with its
blockhash, and time passes. The split need not ever land. `TagServices!FairServices`: the
bot's loop runs. Nothing is assumed of endpoints, OpenAI or the owner: a tag neither
answers for ages out.

`FeePrograms!FairSpec`: somebody calls `distribute` and `split` while they can
move something. Both are permissionless and `tools/keeper.py` is a loop that
does so.

`RailKeeper!FairSpec`: somebody runs the keeper again and again (weak fairness of
its steps; it is a command line program). For each kind of crank and coin, if it
could land again and again it does in the end (strong fairness of `Land`: each run
sends it anew, so one lost transaction ends nothing). Nothing is assumed of
owners, trades or hands; they are bounded, and a crank the program refuses, for a
pause or an ops wallet below its rent, is owed to nobody. `DueIsCranked` asks whether the
program would accept the crank (`CurveDue`, `PoolDue`, `LpDue`), of a coin on its curve or
one whose route records its pool; a graduated coin whose route does not is
`GraduatedIsCranked`'s, of the run `Graduation`. What is left on a curve that stopped
trading, and quote that waits in `ll_collect`, the keeper never asks for.

`Keepers!FairSpec`: the keepers run on their schedules, and what was sent lands or expires
before the keeper that sent it runs again. Faults and other people are bounded.

`LaunchPage!FairSpec`: the chain decides each transaction, the script goes on, and the
dev signs, waits and presses "Check again". A wallet that gives no answer ends the page,
and the property says so.

`Inflows!FairInflows`: the scan is scheduled, and of each steady endpoint a walk that reads all
there is happens again and again (strong fairness, as other answers come between). Of
the others nothing is assumed. `Intake!FairSpec`: the three jobs are scheduled; a run is
started, a reply begun and a measurement made without a failure of our own if each could
be again and again. `Record` has no fairness.

## What is proved

By TLAPS, for every value of the constants that the modules' `ASSUME`s allow. The bounds
are constants too, so a theorem holds for any number of faults, tags or trades.

**The ledger** (`TagLedgerProofs`). `IInv` is inductive: types, `TickIsCurrent` (what
the bot remembers in the middle of a tick is still so), and `Books`: a payment's
rows are its requester's; no two debits share a signature; what is in flight is
a pending debit that has not landed and has not expired; what landed is pending
or final on the books; what left the treasury for a requester is their final
debits and the pending ones that landed; a hold is covered by its user's balance;
a linked hold has its payment pending. None of these is inductive alone.
`NeverOverpaid` needs `BooksMatchChain`, which survives reconcile only because a
suspect past its height cannot be in flight (`SentIsPending`) and a second status
read taken after that height does see it if it landed. One lemma for each group of
actions; from them `InvariantHolds`, `TypeCorrect`, `BooksAreRight`, `NobodyOverpaid`,
`HoldsAreCovered`, `SignaturesAreUnique` (`OneDebitPerSignature`).

These theorems, and those of the next paragraph, assume `~StaleReads`: a status read that
shows nothing for a transaction, made after the finalized height passed its last valid
block, is right. The code relies on that and cannot check it. With `StaleReads` TLC finds
`NeverOverpaid` violated.

**The ledger's steps** (in the same module). A second invariant, `TickInv`, says what each
place of the tick still knows of the claim and the hold in hand; `IInv` and `TickInv` give,
action by action, `PaysWhereAgreed`, `BurnsSpareFreshAndHeld`, `BurnsWaitForQueue`,
`RefusalsAreTrue` and `ApprovalsStand`. `PaysWhereAgreed` rests on `WaitIsCurrent`, an
invariant of several claims: the wallet that waits is the one named last, and it is ready
only if 72 hours passed since it was named, so no wait is carried over from another wallet.
And `LedgerImplementsAccount`: every step of the
ledger is a step of `Payouts` or changes nothing there. A payment counts as given when it
lands, not when the ledger learns of it. `TreasuryIsSolvent` is `EveryFeeSeen` for any number of
requesters, by `TreasuryInv`, an equation of sums. It needs `Float >= Rent`, and that is
sharp: with less, a burn that lands between a claim's look at the treasury and the
landing of that claim makes the transfer fail, at a fee nobody records. `AccountIsKept`
says of the abstract account that it gives nobody more than they earned.

**The launches** (`TagLaunchProofs`). `LaunchInv` is inductive: types; each place of the tick
finds the row that was written on the way there, as it was written; every create that
has landed or may land is named by the row of its tag, which is neither refused nor
lost; and the tag in hand has no create beside the one it is about to make. From it
`OneCoinATag` and `RefusedHasNoCoin`. `CountInv` adds the claims: a tag counts for its ticker,
its account and the day from the recovery entry of its create on, however late the
coin is (`ClaimsAreCounted`), so what a launch checked before it is still so when its
coin lands (`LateCoinsCounted`). `ToldInv` says that what the record holds against an
account's next answer outlives the answer by a day, replays included (`OneAnswer`).
Two results hold with `Pool = <<>>`, where each create draws a key of its own (`MintInv`):
`NoCoinIsLost`, that a coin on chain is in the ledger or a tick will come upon it, and
`AnnouncedIsCredited`. With a pool the code does not keep the first (`LaunchCredit`), and the run
shows both for tags of one account.

**The launch door** (`LaunchPageProofs`). `PageInv` is inductive, in five parts. What is built, or
locked by an approval, is what the form shows (`FormKept`); an answer still current was
asked for the form as it is, and only of a page with nothing locked or built
(`PinCurrent`, `BuildCurrent`), which is why an answer never lands under an approval. Every
transaction signed carries a split the server accepted, and one that landed with a split
is what its coin has (`SignedWell`): a coin takes a split once, so neither another tab nor an
older signature can replace it. What the page waits for is among the transactions signed
and is about its own coin and split (`WaitsForSplit`). From these `SignsWhatIsShown`,
`OnlyEnrolling` and `ConfirmedIsSet`. The arithmetic of the rows stays closed in the proof:
the page, the server and the wallet agree on a split whatever it is, and that one
accepted enrols is a fact about the rules alone (`AcceptedEnrols`). It is assumed that a
split is never taken for none.

**The services** (`ServicesProofs`). `GrantInv`: with one program on the file, nothing is
revoked and what the file or the bot holds is the last token of its family, unless an answer
was lost; hence `GrantSurvives` and `AloneNothingIsReplayed`. `RpcInv`: an endpoint is set
aside only with a failure to its name, so a client with one that stays up asks none but
those without, and each failed attempt costs one of them; a call has an attempt for
every endpoint, so the attempts last (`ClientIsAnswered`). An upstream failure is the
exception: it costs an attempt and no endpoint.

**The walks** (in the same module). `InflowInv` is inductive: types; no cursor is past the end
of the history (`Behind`); what an endpoint has, from the oldest signature of its first walk
up to its cursor, is recorded (`Covered`), and so it is up to where the walk under way will
put that cursor (`AllCovered`); and nothing leaves a vault. That the cursor alone is covered
is not inductive: the forward walk ends with its rows written and the cursor not moved, and
any failure may come between. A step that needs an argument is the first walk: what it
lists are the newest of what there is, closed upwards (`NewestIsUpward`), and what it passes of
them has no gap (`PassedIsWhole`). Theorem: `NoInflowIsMissed`. `QueueInv` says the same of the
walk of burns, which keeps one cursor for each mint: from the oldest signature of the first
walk up to the cursor every burn is recorded (`BurnsCovered`), whichever of the scan command,
a measurement or the enumeration walked, and whether its cursor was stored or it raised
before. Theorem: `EveryNewBurnIsRecorded`.

**The keepers** (`IndexerProofs`). The quotes are proved by themselves: on a curve or a pool, with
fees rounded up at each step, to buy less costs no more, so that what the loops of
`base_out_for_lot` and `amount_for_lot` end on still fits its lot once slippage has taken
some of it away; a pool never gives all it holds. `KeepersInv`
is inductive: what the fee wallet has left of the cycles is never a debt, what each keeper
has sent is a transaction of its own kind, a buy in flight fits the lot it was made for
(`TxOK`), and what the treasury's keeper may spend for a coin stays within its credit until
the debit is written (`CreditOK`), as nobody else writes a debit. Theorems:
`QuotesFitTheirLots` and `OwnSolIsKept`.

**The record** (in the same module). `RecordInv` is inductive: types; the store never claims
more than the chain had (`StoreOK`); and of the surface written last (`SaidOK`): it shows
nothing it blocks (`Silent`), and each kind of figure on it is true of the coin now. That
it stays true needs what no step takes back of a coin (`Grown`): a config that is final, an
authority that is gone, burns and payments that only grow. Theorems: `WithheldIsWithheld`,
`WhatIsShownHolds`, and `EveryBurnIsRead`, an action property: a walk of the wallet's
history keeps what the file had however short its list, and one listed and answered for in
full leaves no burn of its page out, whatever walks before could not read. That a file
which says `exact` has every burn is not so (`Exact`).

**The fee programs** (`FeeProofs`). `FInv` is inductive: types, `PoolsStayOpen`, and
`Solid`, that a balance is zero or rent exempt. `Solid` is why nothing is refused: the
collector keeps its reserve, the pools are open, the ops wallet is paid only to its
minimum, and no leg exceeds what is there because shares that sum to the whole, each
rounded down, sum to no more than the amount. The theorems are `FeesTyped`, `PoolsOpen`,
`NothingRefused`, `TollIsFirst` (what a collector loses never exceeds the amount the toll is
computed from, and a share grows with its amount) and `NothingIsLost`: the sum over all
accounts changes only by what comes in and goes out, though the ops address may be
another account of the same instruction.

**The rail** (`RailProofs`). `RInv` is inductive: types, `FeesAccounted`,
`CharlieAccounted`, `DustIsBounded`, and `NoTotals`, that a coin not launched has no
totals. `FeesAccounted` alone is not inductive, for `launch` writes the totals as
zeros, and the equation survives that only if they were. That every open route's
shares fill the whole is part of `RailTypeOK`; with it `ThreeSharesNear` (three shares that
fill the whole, each rounded down, leave 0, 1 or 2 of the amount) gives both that no
remainder is negative and that dust is small. All three cranks of a coin go through one
`Pass`: `PassKept` says once what it hands on, and each crank adds only where it found the
fee. The keeper has no part in the argument beyond types: the equations hold whatever is
planned, sent, lost or sent twice. Theorems: `RailTyped`, `TotalsAreRight`,
`CharlieIsPaid`, `DustIsSmall`, `BooksBalance`.

**Sums** (`ArithmeticProofs`). What a fold over a finite set adds up to is proved without
induction, which would take an operator as its parameter: of the subsets for which a
statement fails a smallest one is taken, and taking one element away refutes it.

**Assumed of the constants.** What the code's own constants satisfy, and what a chain does:
fee rates are naturals, markets and pools have the shapes of `Markets` and `CpmmPools` (no
pool is quoted with an empty side), slippage is below the whole, a config names finitely many
recipients, and no file is taken for the absence of one. Where an assumption is more than
that the paragraphs above name it: `~StaleReads`, `Float >= Rent`, `Pool = <<>>`, one
program on the sign-in.

**Model-checked only.** Every safety invariant and action property a passing run checks is a
theorem as well. What TLC alone checks is liveness, which the prover does not reach:
`PendingSettles`, `TagIsActedOn`, `TagIsSettled`, `TollArrives`, `DueIsCranked`,
`NewInflowsRecorded`, `SubmissionIsAnswered`, `EveryFeeMovesOn`, `CoinGetsItsSplit`; and
`NoOrphanCoin` and `AnnouncedIsPaid` with a pool of keys, for tags of one account.

## Where the source says something else

With a run:

- `DryRun`: "refresh tokens are single use, so two programs sharing one grant would spend
  each other's token" (`indexer/codex_auth.py:4`) is why the bot has a file of its own. But
  a dry run is given the same store as the live bot (`tools/x_bot.py:118`), and `refresh`
  loads, asks and saves without a lock (`codex_auth.py:164`): the second of the two to
  refresh sends a spent token, and the family is revoked.
- `Graduation`: "coin graduated; the CPMM pool records at least `min_crank` of quote-side
  creator fees" (`indexer/launchlab_keeper.py:11`) is when `crank_amm_creator` is to run.
  `plan` takes a coin whose route records no pool to be on the curve (line 283), and the pool
  is recorded only by `crank_amm_creator` and `crank_lp` themselves
  (`launchlab/src/processor.rs:609`): the keeper never sends the first of them, and creator
  fees the program would hand out stay in the pool. Once somebody sends it by hand the keeper
  goes on (`DueIsCranked`).
- `EmptyHistory`: the forward walk is unbounded because "new activity must never be missed"
  (`indexer/scan.py:258`). A first scan of an address without history stores
  `backfill_complete` and no `last_signature` (lines 294 to 303), after which neither walk
  runs on that endpoint, and no later inflow is recorded from it. The scan of burns stores
  the same.
- `Exact`: "complete means the total is exact, and incomplete means it is a floor"
  (`indexer/protocol_burns.py:58`). A list counts as whole when it is shorter than a page
  (line 132), and that of a node which is behind is: the very node lines 14 to 21 tell of. The
  caption then reads "exact: every signature this wallet has was read".

Met while modelling, each checked once on an instance of its own or read off the code:

- "One burn transaction per day at most" (`indexer/tag_bot.py:60`). `_settle` makes the burn
  final and stamps its time in two commits (lines 797 to 799). If the bot dies between
  them the stamp stays old and the next tick may burn again.
- *LaunchCredit.* "The tweet's author is the only beneficiary" (`indexer/tag_launch.py:3`).
  `mint_pool.pick` (line 111) issues a key that is not on chain, though a create on it may
  be in flight after an unconfirmed send. The next tag takes the key and overwrites the
  recovery entry (`tag_bot.py:467`); when the first create lands, its coin is credited to
  the author of the second tag. No fault is needed, only a create confirmed too late.
- "The moment the immutable program is live at that id, `distribute` starts moving
  everything that accumulated" (`FEE-ROUTING.md:213`). `init_route` creates the collector
  only if it holds no lamports (`program/src/lib.rs:426`), and `distribute` refuses one the
  program does not own (line 540). A collector that was paid first is never distributed
  from. The splitter's `initialise` has the same condition.
- "A claim whose payment is already written ahead is done" (`indexer/tag_bot.py:827`).
  The claim's own reconcile may make the payment final and then raise on the
  status write. `_requeue` asks whether a payment is pending, it no longer is, and
  the claim goes back in the queue. No money is lost (`NeverOverpaid`); the second
  run pays what was earned since, or overwrites `paid` with `refused`.
- A different wallet waits 72 hours "from the request that names it"
  (`indexer/tag_ledger.py:206`). Paying an approved hold whose wallet has been
  replaced since starts such a wait, and may displace one that was running.
- The remainder of a split "stays in `ll_collect`'s token account and is routed with
  the next claim" (`launchlab/src/state.rs:278`). Every crank closes that account
  into `ll_collect`, and what remains becomes lamports that no crank routes: `dust`
  in `Rail`, at most two lamports each time.
- Enabling a quote "runs the same guard every crank runs"
  (`launchlab/src/processor.rs:180`). `launch` runs it; no crank does.
- "Neither walk advances its cursor past a signature it could not fetch"
  (`indexer/scan.py:268`). A page of the backfill after the first is read oldest first and
  left at a signature that cannot be fetched, while `oldest_signature` becomes the oldest
  of the page: the rest of that page, newer than where it stopped, is not walked again.
  `NothingNewMissed` is therefore about what came since an endpoint's first walk.
- "A mint can be bought only with the lamports credited to that mint"
  (`indexer/launch_buybacks.py:4`). The debit is written after the purchase is confirmed
  (`cli.py:855`); one that lands unconfirmed raises before it, and its credit is spent again.
  Two operators on one file may also both append, after which `summary` refuses it.
- `confirm`: "a transaction whose blockhash expires unconfirmed raises; it did not land"
  (`indexer/buyback.py:900`). It raises after 90 seconds whatever the blockhash, and its own
  message says to check an explorer. `run_keeper` takes that for a failure and not as spent
  (line 1101), so it may go on buying past its budget, up to five times in a row.
- "The coin's page states this" (`indexer/intake.py:553`), of a creator that was replaced. The
  run that finds it writes no page (line 530), so the one deployed may be the one from before.
- "The create transaction never reached the chain. No coin was created"
  (`indexer/launch_page.py:417`), and so "Nothing was signed" (line 462), are said of the
  signature the page knows. Bytes signed before, handed to a relay that did not answer, may
  land after.

## What the models leave out

- *Ledger.* The height a payment expires at is always known. The refusal of the
  protocol's own wallets, the recipient's rent check (it follows from the
  assumption `MinClaim - Fee >= Rent`, which the source's constants satisfy), the
  sweep between two other wallets, the mirror of credits to the site, dry runs.
  The scan of the treasury is one step that credits each inflow once: its cursor, and what a
  rescan finds again, are not in the model. The caps on claims are nondeterministic. The site refuses a second claim within
  600 seconds; in the model any time may pass, and a signed claim is a record.
- *Launches.* The wording of a tag, pinning, the STOP file, dry runs, rate limits. `Late`
  assumes that ten minutes exceed a blockhash's life and the bot's work on one
  tag. X lists every tag posted before the poll. A launch by hand (`tools/tag_launcher.py`)
  writes nothing ahead and applies no limits; in the model it runs while the bot does not,
  as its lock has it. With `--resume-split` and no requester named (line 177) it takes no lock
  and records nothing: the model always has both.
- *Services.* Jitter, batches, what is asked; the prompt and the picture.
- *Fee programs.* Comparisons of an account with its derived address: derived
  addresses are pairs, so they never collide. `init_route` and `set_route` ask
  for a signature without asking whose it is, and so do the actions. One rent
  minimum for all accounts; the rent of `route` and `config` themselves; a toll
  stored by another version of the program; the events. `init_charlie_pool` asks whether the
  account has data, the model whether it holds lamports. Documents describe cranks
  and a reimbursement of the caller that are in neither program.
- *The rail.* Quotes other than SOL, which every crank refuses, and with them the
  oracle and the guards on a quote mint. Comparisons of an account with its derived
  address. Prices: a lamport buys one coin, and the crank's own buy pays no fee.
  The rent of token accounts, which the keeper or `ll_collect` advances and gets
  back; `launch` funds `ll_collect` with enough for it. An ops wallet that is one of
  the rail's own accounts. Coins and SOL sent to `ll_collect` from outside, other
  than through CPMM's collect. `u64` totals saturate; no supply comes near. The
  keeper's key becoming another than the platform's admin is modelled, its loss is
  not. The two instructions for changing the Raydium platform are refused by the
  program (`not_built`).
- *Keepers.* Account lists, reports, the discovery of CPMM accounts, burning tokens already
  held; a market is read anew from a few pairs of reserves; network fees come out of the
  headroom.
- *Launch page.* Message sizes and wording, and the script of the enrolment page. A
  blockhash lives a minute, so whatever was signed is decided when the page has waited two.
- *Evidence and intake.* Decoding, exports, research reports. A transaction burns or does
  not; rows of our own failures are left out, since nothing is done with them. What is on a
  page is `Record`'s, and in `Intake` a page is there or not: that an exception of no kind
  (`observe.py:210`) leaves an error page which counts as a measurement is in the model, and
  that its issue is then answered as measured follows. The sums over endpoints that a
  publication compares with a balance are not modelled: the comparison decides them in the
  step that publishes. Of a history that fills the pages of a backfill's last run exactly, the
  next run walks nothing, and no opening balance is recorded.
- *Records.* HTML, wording, the report's text and the bytes of the log. Opening balances: no
  check of the surfaces reads them. `WithheldIsNotShown` says nothing of the landing page and
  of `RECONCILIATION.md`, which withhold nothing; that the landing page states no burn that
  was not is in `ShownHolds`.

## Plan

Everything planned is modelled, and what can be proved of it is proved but for two things:
`NoOrphanCoin` with a pool of keys and tags of one account only, and that `Inflows` leaves a
store `Coin` allows for (a refinement of the walks of `Record`).

## Running it

    tlc -workers 4 -config TagLive.cfg MCTagLedger.tla
    tlapm TagLedgerProofs.tla

`TagLaunchProofs` and `IndexerProofs` take some minutes; every other module a minute or two. `PROJECT.json`
lists the components, the runs, for each property a mutated definition that violates it,
the lines each definition models, the hazards and the theorems.
