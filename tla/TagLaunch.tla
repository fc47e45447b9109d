------------------------------- MODULE TagLaunch -------------------------------
(***************************************************************************)
(* The X-tag bot's launches: from a tag read in a mentions tick to a coin  *)
(* with its split and an announcement (indexer/tag_bot.py), the record of  *)
(* every tag acted on (indexer/tag_launch.py, Book) and the pool of mint   *)
(* keys shared with the site's /launch door (indexer/mint_pool.py).        *)
(*                                                                         *)
(* Record, recovery list, coins and cursor are tables of one SQLite file   *)
(* and survive a crash; the place inside a tick does not.  Each commit is  *)
(* a step of its own.                                                      *)
(*                                                                         *)
(* Abstractions.  Tags are numbered in the order X lists them, and a post  *)
(* that is no tag is left out.  Outcome and code of a row are one state.   *)
(* A refusal is `silent' (no reply), `account' (a reply; the owner may     *)
(* waive it), `malformed' or `answered' (a reply); `paused' is nobody's    *)
(* fault.  What is read of a post, its author, its words and its picture   *)
(* is any of Facts (TagRules); what the record says is not.  Thirty days   *)
(* never pass.                                                             *)
(*                                                                         *)
(* Beside the bot, and never at once with it (the lock on the database),   *)
(* the owner launches a coin for a tag by hand, or finishes one            *)
(* (tools/tag_launcher.py).                                                *)
(***************************************************************************)
EXTENDS TagRules

CONSTANTS
    Last,           \* the tags are 1..Last
    Accounts, Tickers,
    UserOf,         \* tag -> the account that posted it
    TickerOf,       \* tag -> the ticker it asks for
    Mints, NoMint,
    Pool,           \* the pre-ground keys, in order; <<>> is no pool
    Nobody, Door,   \* owners of a mint that is no coin yet, and of the door's
    PerDay,         \* PER_DAY
    PerThirtyDays,  \* PER_THIRTY_DAYS
    Timeout,        \* REFUSALS_BEFORE_TIMEOUT
    DailyCeiling,   \* DAILY_CEILING
    Banned,         \* the accounts in tag_bans
    ByHand,         \* does the owner launch and finish coins by hand?
    Bypass,         \* does the owner replay tags with --bypass-account?
    MaxFaults       \* bound: crashes, exceptions and replays

Tags == 1..Last

ASSUME LaunchAssumption ==
    /\ {Last, PerDay, PerThirtyDays, Timeout, DailyCeiling, MaxFaults} \subseteq Nat
    /\ UserOf \in [Tags -> Accounts] /\ TickerOf \in [Tags -> Tickers]
    /\ Pool \in Seq(Mints) /\ NoMint \notin Mints
    /\ Nobody \notin Tags /\ Door \notin Tags \cup {Nobody}
    /\ Bypass \in BOOLEAN /\ ByHand \in BOOLEAN /\ Banned \subseteq Accounts

VARIABLES
    \* the database
    book,           \* tag -> its row of tag_requests
    unconfirmed,    \* mint -> the tag whose create may still land
    coins,          \* mint -> the tag it is a coin of (tag_coins)
    cursor,         \* the last tag that need not be read again
    \* X
    posted,         \* tags posted so far
    told,           \* (history) tag -> refusals posted to it within a day
    announced,      \* (history) the tags whose launch was posted
    \* the chain
    made,           \* mint -> whose create landed
    config,         \* mint -> its fee-sharing config
    flight,         \* transactions that may still land
    \* time
    age,            \* tag -> how long ago its row was written
    \* the bot's memory
    phase, at,      \* the part of the tick, and the place inside it
    cur,            \* the tag worked on, and its mint
    checks, gone,   \* recovery entries to look at, and those settled
    retries,        \* splits to retry
    next, upto,     \* the tags of this poll not acted on yet
    held,           \* one raised, so the cursor stays
    waived,         \* (history) rows the owner had forgotten
    manual,         \* (history) tag -> what the owner did for it by hand
    faults          \* (bound) crashes, exceptions and replays so far

bookVars  == <<book, unconfirmed, coins, cursor>>
postVars  == <<told, announced>>
chainVars == <<made, config, flight>>
listVars  == <<checks, gone, retries>>
pollVars  == <<next, upto, held>>
tickVars  == <<phase, at, cur, listVars, pollVars>>
vars      == <<bookVars, posted, postVars, chainVars, age, tickVars, waived, manual, faults>>

--------------------------------------------------------------------------------
(* The record. *)

States == {"none", "silent", "account", "malformed", "answered", "paused", "launching", "launched",
           "create_failed", "create_lost", "split_pending", "split_mismatch"}
NoRow  == [state |-> "none", mint |-> NoMint]
Idle   == [tag |-> 0, mint |-> NoMint]

\* A coin that exists, or may: what the limits and the tickers count.
CountedLate == {"launched", "launching", "split_pending", "split_mismatch"}
Counted == {"launched", "launching", "split_pending", "split_mismatch", "create_failed"}
Recent(t) == age[t] # "day" /\ book[t].state \in Counted

LaunchesOf(u) == Cardinality({t \in Tags : UserOf[t] = u /\ Recent(t)})
LaunchesEver(u) == Cardinality({t \in Tags : UserOf[t] = u /\ book[t].state \in Counted})
RefusalsOf(u) ==
    Cardinality({t \in Tags : UserOf[t] = u /\ book[t].state \in {"silent", "account", "answered"}})
LaunchedToday == Cardinality({t \in Tags : Recent(t)})
Taken == {TickerOf[t] : t \in {s \in Tags : book[s].state \in Counted}}

\* Another tag of this account got one of the answered refusals today.
AnsweredRefusal(t) ==
    \E s \in Tags \ {t} : /\ UserOf[s] = UserOf[t] /\ age[s] # "day"
                          /\ book[s].state \in {"account", "malformed", "answered"}

Seen(t)  == book[t].state # "none"
Record(t, state, mint) == book' = [book EXCEPT ![t] = [state |-> state, mint |-> mint]]

Init ==
    /\ book = [t \in Tags |-> NoRow]
    /\ unconfirmed = [m \in Mints |-> Nobody] /\ coins = [m \in Mints |-> Nobody]
    /\ cursor = 0 /\ posted = 0
    /\ told = [t \in Tags |-> 0] /\ announced = {}
    /\ made = [m \in Mints |-> Nobody] /\ config = [m \in Mints |-> "absent"] /\ flight = {}
    /\ age = [t \in Tags |-> "new"]
    /\ phase = "idle" /\ at = "start" /\ cur = Idle
    /\ checks = {} /\ gone = {} /\ retries = {}
    /\ next = 0 /\ upto = 0 /\ held = FALSE
    /\ waived = {} /\ manual = [t \in Tags |-> "nothing"] /\ faults = 0

--------------------------------------------------------------------------------
(* X, the chain and time. *)

Post ==
    /\ posted < Last
    /\ posted' = posted + 1
    /\ UNCHANGED <<bookVars, postVars, chainVars, age, tickVars, waived, manual, faults>>

Tx(what, m, t) == [what |-> what, mint |-> m, tag |-> t]

\* A mint is created once; a second create of it fails.
LandCreate(x) ==
    /\ x.what = "create"
    /\ flight' = flight \ {x}
    /\ made' = IF made[x.mint] = Nobody THEN [made EXCEPT ![x.mint] = x.tag] ELSE made
    /\ UNCHANGED <<bookVars, posted, postVars, config, age, tickVars, waived, manual, faults>>

\* A config is created once, by the wallet that created the coin.
LandSplit(x) ==
    /\ x.what = "split"
    /\ flight' = flight \ {x}
    /\ config' = IF made[x.mint] \in Tags /\ config[x.mint] = "absent"
                 THEN [config EXCEPT ![x.mint] = "ours"] ELSE config
    /\ UNCHANGED <<bookVars, posted, postVars, made, age, tickVars, waived, manual, faults>>

\* Its blockhash expires: it will never land.
Expire(x) ==
    /\ flight' = flight \ {x}
    /\ UNCHANGED <<bookVars, posted, postVars, made, config, age, tickVars, waived, manual, faults>>

\* Someone at the /launch door lands a coin on a key of the pool.
DoorLaunch(m) ==
    /\ m \in {Pool[i] : i \in DOMAIN Pool} /\ made[m] = Nobody
    /\ made' = [made EXCEPT ![m] = Door]
    /\ \E c \in {"absent", "mismatch"} : config' = [config EXCEPT ![m] = c]
    /\ UNCHANGED <<bookVars, posted, postVars, flight, age, tickVars, waived, manual, faults>>

\* CREATE_LANDING_SECONDS pass: far longer than the bot works on a tag, or than
\* a create stays able to land.
Late(t) ==
    /\ age[t] = "new"
    /\ Seen(t) \/ \E m \in Mints : unconfirmed[m] = t
    /\ \A x \in flight : x.what = "create" => x.tag # t
    /\ cur.tag # t
    /\ age' = [age EXCEPT ![t] = "late"]
    /\ UNCHANGED <<bookVars, posted, postVars, chainVars, tickVars, waived, manual, faults>>

\* A day passes since the row was written.
Day(t) ==
    /\ age[t] = "late" /\ cur.tag # t
    /\ age' = [age EXCEPT ![t] = "day"]
    /\ told' = [told EXCEPT ![t] = 0]
    /\ UNCHANGED <<bookVars, posted, announced, chainVars, tickVars, waived, manual, faults>>

--------------------------------------------------------------------------------
(* The tick: its parts in order. *)

EndTick ==
    /\ phase' = "idle" /\ at' = "start" /\ cur' = Idle
    /\ checks' = {} /\ gone' = {} /\ retries' = {}
    /\ next' = 0 /\ upto' = 0 /\ held' = FALSE

\* A `launching' row with no recovery entry gets one, or its split if its coin
\* is known.
Unlisted == {t \in Tags : book[t].state = "launching" /\ unconfirmed[book[t].mint] = Nobody}

StartTick ==
    /\ phase = "idle"
    /\ LET known == {t \in Unlisted : coins[book[t].mint] # Nobody}
           relist == [m \in Mints |->
                        IF \E t \in Unlisted \ known : book[t].mint = m
                        THEN CHOOSE t \in Unlisted \ known : book[t].mint = m
                        ELSE unconfirmed[m]]
       IN  /\ book' = [t \in Tags |-> IF t \in known THEN [book[t] EXCEPT !.state = "split_pending"]
                                      ELSE book[t]]
           /\ unconfirmed' = relist
           /\ checks' = {m \in Mints : relist[m] # Nobody}
    /\ phase' = "watch"
    /\ UNCHANGED <<coins, cursor, posted, postVars, chainVars, age, at, cur, gone, retries,
                   pollVars, waived, manual, faults>>

(* _check_unconfirmed: each entry against its row and against the chain. *)

StaleOnceFailed(m) == book[unconfirmed[m]].mint # m \/ book[unconfirmed[m]].state # "launching"
Stale(m) ==
    LET row == book[unconfirmed[m]]
    IN  row.mint # m \/ row.state \notin {"launching", "create_failed"}

Settled(m) == checks' = checks \ {m} /\ gone' = gone \cup {m}
Watching(m) == phase = "watch" /\ at = "start" /\ m \in checks

CheckStale(m) ==
    /\ Watching(m) /\ Stale(m)
    /\ Settled(m)
    /\ UNCHANGED <<bookVars, posted, postVars, chainVars, age, phase, at, cur, retries, pollVars, waived, manual, faults>>

CheckLanded(m) ==
    /\ Watching(m) /\ ~Stale(m)
    /\ made[m] # Nobody
    /\ coins' = IF coins[m] = Nobody THEN [coins EXCEPT ![m] = unconfirmed[m]] ELSE coins
    /\ at' = "landed" /\ cur' = [tag |-> unconfirmed[m], mint |-> m]
    /\ UNCHANGED <<book, unconfirmed, cursor, posted, postVars, chainVars, age, phase, listVars,
                   pollVars, waived, manual, faults>>

RecordLanded ==
    /\ phase = "watch" /\ at = "landed"
    /\ Record(cur.tag, "split_pending", cur.mint)
    /\ Settled(cur.mint)
    /\ at' = "start" /\ cur' = Idle
    /\ UNCHANGED <<unconfirmed, coins, cursor, posted, postVars, chainVars, age, phase, retries,
                   pollVars, waived, manual, faults>>

LostAtOnce(t) == TRUE
Lost(t) == age[t] # "new"

CheckLost(m) ==
    /\ Watching(m) /\ ~Stale(m)
    /\ made[m] = Nobody
    /\ Lost(unconfirmed[m])
    /\ Record(unconfirmed[m], "create_lost", m)
    /\ Settled(m)
    /\ UNCHANGED <<unconfirmed, coins, cursor, posted, postVars, chainVars, age, phase, at, cur,
                   retries, pollVars, waived, manual, faults>>

\* Not seen on chain, perhaps only not yet: it is looked at again next tick.
CheckWaits(m) ==
    /\ Watching(m) /\ ~Stale(m)
    /\ ~Lost(unconfirmed[m])
    /\ checks' = checks \ {m}
    /\ UNCHANGED <<bookVars, posted, postVars, chainVars, age, phase, at, cur, gone, retries,
                   pollVars, waived, manual, faults>>

\* The list is saved without what was settled; then the pending splits are read.
WatchDone ==
    /\ phase = "watch" /\ at = "start" /\ checks = {}
    /\ unconfirmed' = [m \in Mints |-> IF m \in gone THEN Nobody ELSE unconfirmed[m]]
    /\ gone' = {}
    /\ retries' = {t \in Tags : book[t].state = "split_pending"}
    /\ phase' = "splits"
    /\ UNCHANGED <<book, coins, cursor, posted, postVars, chainVars, age, at, cur, checks,
                   pollVars, waived, manual, faults>>

\* X's search: the tags after the cursor.
Poll ==
    /\ phase = "splits" /\ at = "start" /\ retries = {}
    /\ phase' = "tags"
    /\ next' = cursor + 1 /\ upto' = posted
    /\ UNCHANGED <<bookVars, posted, postVars, chainVars, age, at, cur, listVars, held, waived, manual, faults>>

\* The cursor stops at the first tag that raised.
SaveAlways(t) == cursor' = t
Save(t) == cursor' = IF held THEN cursor ELSE t

PollDone ==
    /\ phase = "tags" /\ at = "start" /\ next > upto
    /\ Save(IF upto > cursor THEN upto ELSE cursor)
    /\ EndTick
    /\ UNCHANGED <<book, unconfirmed, coins, posted, postVars, chainVars, age, waived, manual, faults>>

\* The work on one tag is over.
Done ==
    /\ at = "done"
    /\ IF phase = "replay" THEN EndTick /\ UNCHANGED cursor
       ELSE /\ at' = "start" /\ cur' = Idle
            /\ IF phase = "tags" THEN Save(cur.tag) /\ next' = next + 1 /\ UNCHANGED retries
               ELSE retries' = retries \ {cur.tag} /\ UNCHANGED <<cursor, next>>
            /\ UNCHANGED <<phase, checks, gone, upto, held>>
    /\ UNCHANGED <<book, unconfirmed, coins, posted, postVars, chainVars, age, waived, manual, faults>>

--------------------------------------------------------------------------------
(* _one: a tag is refused, or launched. *)

TakeTag ==
    /\ phase = "tags" /\ at = "start" /\ next <= upto
    /\ at' = IF Seen(next) THEN "done" ELSE "decide"
    /\ cur' = [tag |-> next, mint |-> NoMint]
    /\ UNCHANGED <<bookVars, posted, postVars, chainVars, age, phase, listVars, pollVars, waived, manual, faults>>

\* The owner stops the bot and runs one tag again; `--bypass-account' first
\* drops a refusal for an account threshold.
AnyRow(t)   == Bypass
Waivable(t) == Bypass /\ book[t].state = "account"

Replay(t) ==
    /\ phase = "idle" /\ faults < MaxFaults
    /\ faults' = faults + 1
    /\ t <= posted
    /\ book' = IF Waivable(t) THEN [book EXCEPT ![t] = NoRow] ELSE book
    /\ waived' = IF Waivable(t) THEN waived \cup {t} ELSE waived
    /\ UNCHANGED manual
    /\ phase' = "replay"
    /\ at' = IF Seen(t) /\ ~Waivable(t) THEN "done" ELSE "decide"
    /\ cur' = [tag |-> t, mint |-> NoMint]
    /\ UNCHANGED <<unconfirmed, coins, cursor, posted, postVars, chainVars, age, listVars, pollVars>>

\* limit_refusal: what the record says against the account.
Limit(u) == First(<<
    <<u \in Banned, "banned">>,
    <<RefusalsOf(u) >= Timeout, "timeout">>,
    <<LaunchesOf(u) >= PerDay, "daily_limit">>,
    <<LaunchesEver(u) >= PerThirtyDays, "monthly_limit">>,
    <<LaunchedToday >= DailyCeiling, "ceiling">> >>)

\* What may come of the rules for the tag at hand, the moment they are asked.
Codes ==
    Refusals[Limit(UserOf[cur.tag])][TickerOf[cur.tag] \in Taken][phase = "replay"]
            [phase = "replay" /\ Bypass]

\* The create of a tag that met them all may yet fail its simulation.
Refused == {code \in Codes : code # "none"} \cup {code \in {"create_simulation"} : "none" \in Codes}

Refuse(code) ==
    /\ Record(cur.tag, StateOf(code), NoMint)
    /\ age' = [age EXCEPT ![cur.tag] = "new"]
    /\ at' = IF code \in Replied THEN "answer" ELSE "done"
    /\ UNCHANGED <<unconfirmed, coins, cursor, posted, postVars, chainVars, phase, cur, listVars,
                   pollVars, waived, manual, faults>>

\* One answer a day for each account; an answer that fails is not retried.
MayAnswerAll(t) == TRUE
MayAnswer(t) == ~AnsweredRefusal(t)

Answer ==
    /\ at = "answer"
    /\ told' \in {told} \cup (IF MayAnswer(cur.tag) THEN {[told EXCEPT ![cur.tag] = @ + 1]} ELSE {})
    /\ at' = "done"
    /\ UNCHANGED <<bookVars, posted, announced, chainVars, age, phase, cur, listVars, pollVars, waived, manual, faults>>

--------------------------------------------------------------------------------
(* _launch: written ahead, sent, confirmed; then the split. *)

\* A key to use: the first of the pool that is not on chain, or with none left
\* a random one.
Untouched(m) ==
    /\ made[m] = Nobody /\ unconfirmed[m] = Nobody /\ coins[m] = Nobody
    /\ \A t \in Tags : book[t].mint # m
    /\ \A x \in flight : x.mint # m

Left == {i \in DOMAIN Pool : made[Pool[i]] = Nobody}
NewMints == IF Left # {} THEN {Pool[Min(Left)]} ELSE {m \in Mints : Untouched(m)}

\* The create passed its simulation; its recovery entry is written.
List ==
    /\ at = "decide" /\ "none" \in Codes
    /\ \E m \in NewMints :
        /\ unconfirmed' = [unconfirmed EXCEPT ![m] = cur.tag]
        /\ cur' = [cur EXCEPT !.mint = m]
    /\ age' = [age EXCEPT ![cur.tag] = "new"]
    /\ at' = "listed"
    /\ UNCHANGED <<book, coins, cursor, posted, postVars, chainVars, phase, listVars, pollVars, waived, manual, faults>>

\* The tag is seen from here on, whatever happens to the create.
RecordLaunching ==
    /\ at = "listed"
    /\ Record(cur.tag, "launching", cur.mint)
    /\ at' = "send"
    /\ UNCHANGED <<unconfirmed, coins, cursor, posted, postVars, chainVars, age, phase, cur, listVars,
                   pollVars, waived, manual, faults>>

SendCreate ==
    /\ at = "send"
    /\ flight' = flight \cup {Tx("create", cur.mint, cur.tag)}
    /\ at' = "sent"
    /\ UNCHANGED <<bookVars, posted, postVars, made, config, age, phase, cur, listVars, pollVars, waived, manual, faults>>

\* The send or its confirmation raises: the create may land all the same.
CreateUnconfirmed ==
    /\ at \in {"send", "sent"} /\ phase # "hand"
    /\ Record(cur.tag, "create_failed", cur.mint)
    /\ at' = "done"
    /\ UNCHANGED <<unconfirmed, coins, cursor, posted, postVars, chainVars, age, phase, cur, listVars,
                   pollVars, waived, manual, faults>>

\* Confirmed: the coin exists.
AddCoin ==
    /\ at = "sent" /\ made[cur.mint] = cur.tag
    /\ coins' = IF coins[cur.mint] = Nobody THEN [coins EXCEPT ![cur.mint] = cur.tag] ELSE coins
    /\ at' = "coin"
    /\ UNCHANGED <<book, unconfirmed, cursor, posted, postVars, chainVars, age, phase, cur, listVars,
                   pollVars, waived, manual, faults>>

RecordPending ==
    /\ at = "coin" /\ phase # "hand"
    /\ Record(cur.tag, "split_pending", cur.mint)
    /\ at' = "pending"
    /\ UNCHANGED <<unconfirmed, coins, cursor, posted, postVars, chainVars, age, phase, cur, listVars,
                   pollVars, waived, manual, faults>>

Forget ==
    /\ at = "pending"
    /\ unconfirmed' = [unconfirmed EXCEPT ![cur.mint] = Nobody]
    /\ at' = "split"
    /\ UNCHANGED <<book, coins, cursor, posted, postVars, chainVars, age, phase, cur, listVars,
                   pollVars, waived, manual, faults>>

\* _retry_split: the config on chain decides; a read may be behind.
RetrySplit(t) ==
    /\ phase = "splits" /\ at = "start" /\ t \in retries
    /\ cur' = [tag |-> t, mint |-> book[t].mint]
    /\ \E seen \in {"unread", "absent", config[book[t].mint]} :
        /\ at' = CASE seen = "absent" -> "split"
                   [] seen = "ours"   -> "announce"
                   [] OTHER           -> "done"
        /\ IF seen = "mismatch" THEN Record(t, "split_mismatch", book[t].mint) ELSE UNCHANGED book
    /\ UNCHANGED <<unconfirmed, coins, cursor, posted, postVars, chainVars, age, phase, listVars,
                   pollVars, waived, manual, faults>>

SendSplit ==
    /\ at = "split"
    /\ made[cur.mint] \in Tags /\ config[cur.mint] = "absent"
    /\ flight' = flight \cup {Tx("split", cur.mint, cur.tag)}
    /\ at' = "splitting"
    /\ UNCHANGED <<bookVars, posted, postVars, made, config, age, phase, cur, listVars, pollVars, waived, manual, faults>>

\* Its simulation, the send or the confirmation raises.
SplitFails ==
    /\ at \in {"split", "splitting"} /\ phase # "hand"
    /\ Record(cur.tag, "split_pending", cur.mint)
    /\ at' = "done"
    /\ UNCHANGED <<unconfirmed, coins, cursor, posted, postVars, chainVars, age, phase, cur, listVars,
                   pollVars, waived, manual, faults>>

SplitAssumed ==
    /\ at = "splitting"
    /\ at' = "announce"
    /\ UNCHANGED <<bookVars, posted, postVars, chainVars, age, phase, cur, listVars, pollVars, waived, manual, faults>>

SplitConfirmed ==
    /\ at = "splitting" /\ config[cur.mint] = "ours"
    /\ at' = "announce"
    /\ UNCHANGED <<bookVars, posted, postVars, chainVars, age, phase, cur, listVars, pollVars, waived, manual, faults>>

\* _announce: recorded before it is posted, so it is not posted twice.
RecordLaunched ==
    /\ at = "announce" /\ phase # "hand"
    /\ Record(cur.tag, "launched", cur.mint)
    /\ at' = "post"
    /\ UNCHANGED <<unconfirmed, coins, cursor, posted, postVars, chainVars, age, phase, cur, listVars,
                   pollVars, waived, manual, faults>>

\* The quote, or the reply when X refuses it, or neither.
Announce ==
    /\ at = "post"
    /\ announced' \in {announced, announced \cup {cur.tag}}
    /\ at' = "done"
    /\ UNCHANGED <<bookVars, posted, told, chainVars, age, phase, cur, listVars, pollVars, waived, manual, faults>>

--------------------------------------------------------------------------------
(* By hand: `tag_launcher --send', and `--resume-split'.  From the create on it  *)
(* goes through the bot's own steps (SendCreate, AddCoin, SendSplit,             *)
(* SplitConfirmed), but writes nothing ahead and answers nothing.                *)

\* The bot's lock is free; its process lives for as long as the phase.
Locks(t, m, place) ==
    /\ ByHand /\ phase = "idle" /\ faults < MaxFaults
    /\ faults' = faults + 1
    /\ phase' = "hand" /\ at' = place /\ cur' = [tag |-> t, mint |-> m]
    /\ UNCHANGED <<bookVars, posted, postVars, chainVars, age, listVars, pollVars, waived>>

\* A tag the record does not know, on a random mint.  Neither the limits nor the
\* tickers taken are asked.
HandLaunch(t) ==
    /\ t <= posted /\ ~Seen(t)
    /\ \E f \in Facts : ContentRefusal(f, FALSE) = "none" /\ WalletRefusal(f) = "none"
    /\ \E m \in Mints : Untouched(m) /\ Locks(t, m, "send")
    /\ manual' = [manual EXCEPT ![t] = "launched"]

\* For the tag the coin was made for.
HandResume(m) ==
    /\ made[m] \in Tags /\ Locks(made[m], m, "sent")
    /\ manual' = [manual EXCEPT ![made[m]] = IF @ = "nothing" THEN "finished" ELSE @]

\* created: the coin, and then its row, unless that says it is launched.
HandCreated ==
    /\ phase = "hand" /\ at = "coin"
    /\ IF book[cur.tag].state = "launched" THEN UNCHANGED <<book, age>>
       ELSE /\ Record(cur.tag, "split_pending", cur.mint)
            /\ age' = [age EXCEPT ![cur.tag] = "new"]
    /\ at' = "split"
    /\ UNCHANGED <<unconfirmed, coins, cursor, posted, postVars, chainVars, phase, cur, listVars,
                   pollVars, waived, manual, faults>>

\* split_done.
HandDone ==
    /\ phase = "hand" /\ at = "announce"
    /\ Record(cur.tag, "launched", cur.mint) /\ EndTick
    /\ age' = [age EXCEPT ![cur.tag] = "new"]
    /\ UNCHANGED <<unconfirmed, coins, cursor, posted, postVars, chainVars, waived, manual, faults>>

\* A simulation, a send or a confirmation that fails ends the process.
HandFails ==
    /\ phase = "hand" /\ at \in {"send", "sent", "split", "splitting"} /\ EndTick
    /\ UNCHANGED <<bookVars, posted, postVars, chainVars, age, waived, manual, faults>>

--------------------------------------------------------------------------------
(* Faults. *)

\* An exception nothing nearer catches: one tag's is noted and the poll goes
\* on, any other ends the tick.
Raise ==
    /\ phase # "idle" /\ faults < MaxFaults
    /\ faults' = faults + 1
    /\ IF phase = "tags" /\ cur # Idle
       THEN /\ held' = TRUE /\ next' = next + 1
            /\ at' = "start" /\ cur' = Idle
            /\ UNCHANGED <<phase, listVars, upto>>
       ELSE EndTick
    /\ UNCHANGED <<bookVars, posted, postVars, chainVars, age, waived, manual>>

Crash ==
    /\ phase # "idle" /\ faults < MaxFaults
    /\ faults' = faults + 1
    /\ EndTick
    /\ UNCHANGED <<bookVars, posted, postVars, chainVars, age, waived, manual>>

--------------------------------------------------------------------------------
Chain  == \/ \E x \in flight : LandCreate(x) \/ LandSplit(x) \/ Expire(x)
          \/ \E m \in Mints : DoorLaunch(m)

Time   == \E t \in Tags : Late(t) \/ Day(t)

Owner  == \/ \E t \in Tags : Replay(t) \/ HandLaunch(t)
          \/ \E m \in Mints : HandResume(m)

Watch  == \/ StartTick
          \/ \E m \in Mints : CheckStale(m) \/ CheckLanded(m) \/ CheckLost(m) \/ CheckWaits(m)
          \/ RecordLanded \/ WatchDone

Tag    == \/ TakeTag
          \/ at = "decide" /\ \E code \in Refused : Refuse(code)
          \/ Answer \/ Done \/ Poll \/ PollDone

Launch == \/ List \/ RecordLaunching \/ SendCreate \/ CreateUnconfirmed
          \/ AddCoin \/ RecordPending \/ Forget
          \/ (\E t \in Tags : RetrySplit(t)) \/ SendSplit \/ SplitFails \/ SplitConfirmed
          \/ RecordLaunched \/ Announce

Hand   == HandCreated \/ HandDone \/ HandFails

Bot    == Watch \/ Tag \/ Launch \/ Hand

Next   == Post \/ Chain \/ Time \/ Owner \/ Bot \/ Raise \/ Crash

Spec == Init /\ [][Next]_vars

\* The loop runs, every create lands or expires, and time passes.
Leaves(t) == \E x \in flight : x.tag = t /\ (LandCreate(x) \/ (x.what = "create" /\ Expire(x)))

FairSpec ==
    /\ Spec /\ WF_vars(Bot)
    /\ \A t \in Tags : WF_vars(Late(t)) /\ WF_vars(Leaves(t))
================================================================================
