---------------------------- MODULE TagLaunchProps ----------------------------
(***************************************************************************)
(* What TagLaunch is checked against.                                      *)
(***************************************************************************)
EXTENDS TagLaunch

(* Invariants. *)

\* A launch by hand writes nothing ahead, and asks for no limit: it is left out.
Bots == {t \in Tags : manual[t] # "launched"}

\* A create of this tag has landed on this mint, or may still land.
MayExist(t, m) == made[m] = t \/ Tx("create", m, t) \in flight

\* A tag becomes at most one coin, through any crash, retry, replay or split
\* finished by hand (the row written ahead in _launch; forget_account_refusal).
LaunchedAtMostOnce == \A t \in Bots : Cardinality({m \in Mints : MayExist(t, m)}) <= 1

\* A tag recorded as refused or lost, or not recorded, has no coin and will
\* never have one (CREATE_LANDING_SECONDS, _check_unconfirmed).
NoCoinBehindRefusal ==
    \A t \in Bots :
        book[t].state \in {"none", "silent", "account", "malformed", "answered", "paused", "create_lost"}
        => \A m \in Mints : ~MayExist(t, m)

\* No ticker is given to two coins.
OneCoinPerTicker ==
    \A t, s \in Bots : (t # s /\ TickerOf[t] = TickerOf[s])
        => ~ \E m, n \in Mints : MayExist(t, m) /\ MayExist(s, n)

\* An account's coins of one day stay within PER_DAY, and all of them within the
\* ceiling.  Finishing a coin by hand dates its row anew.
WithinDailyLimits ==
    LET coined == {t \in Tags : manual[t] = "nothing" /\ age[t] # "day" /\ \E m \in Mints : MayExist(t, m)}
    IN  /\ Cardinality(coined) <= DailyCeiling
        /\ \A u \in Accounts : Cardinality({t \in coined : UserOf[t] = u}) <= PerDay

\* A coin counts from the row written ahead of its create, however late it lands:
\* for its ticker, for its account, and for the day (taken_tickers, limit_refusal,
\* launched_since).
LateCoinsCount == OneCoinPerTicker /\ WithinDailyLimits

\* A launch is announced only with its split on chain, so that the fees the
\* requester is promised do reach the treasury, for them (_announce).
AnnouncedIsPaid ==
    \A t \in announced : config[book[t].mint] = "ours" /\ coins[book[t].mint] = t

\* A coin on chain is never lost sight of: it is in the ledger, or its entry
\* and its row make the next tick find it (_check_unconfirmed).
NoOrphanCoin ==
    \A m \in Mints : made[m] \in Bots =>
        \/ coins[m] = made[m]
        \/ /\ unconfirmed[m] = made[m] /\ m \notin gone
           /\ book[made[m]].mint = m /\ book[made[m]].state \in {"launching", "create_failed"}

\* An account is told of at most one refusal a day, whatever it posts; a refusal
\* the owner waived, or a tag launched by hand, does not count (answered_refusal).
OneAnswerADay ==
    \A t, s \in Bots \ waived : UserOf[t] = UserOf[s] =>
        told[t] + (IF s = t THEN 0 ELSE told[s]) <= 1

--------------------------------------------------------------------------------
(* The inductive invariants: why the invariants above hold. *)

Phases == {"idle", "watch", "splits", "tags", "replay", "hand"}
Places == {"start", "landed", "decide", "answer", "listed", "send", "sent", "coin", "pending",
           "split", "splitting", "announce", "post", "done"}
Row    == [state : States, mint : Mints \cup {NoMint}]

RecordType ==
    /\ book \in [Tags -> Row]
    /\ unconfirmed \in [Mints -> Tags \cup {Nobody}] /\ coins \in [Mints -> Tags \cup {Nobody}]
    /\ cursor \in Nat

WorldType ==
    /\ posted \in 0..Last /\ told \in [Tags -> Nat] /\ announced \subseteq Tags
    /\ made \in [Mints -> Tags \cup {Nobody, Door}]
    /\ config \in [Mints -> {"absent", "ours", "mismatch"}]
    /\ flight \subseteq [what : {"create", "split"}, mint : Mints, tag : Tags]
    /\ age \in [Tags -> {"new", "late", "day"}]

TickType ==
    /\ phase \in Phases /\ at \in Places
    /\ cur \in [tag : Tags, mint : Mints \cup {NoMint}] \cup {Idle}
    /\ checks \subseteq Mints /\ gone \subseteq Mints /\ retries \subseteq Tags
    /\ next \in Nat /\ upto \in 0..Last /\ held \in BOOLEAN
    /\ waived \subseteq Tags /\ manual \in [Tags -> {"nothing", "launched", "finished"}] /\ faults \in Nat

\* Every variable keeps its type.
LaunchTypeOK == RecordType /\ WorldType /\ TickType

\* Where each part of the tick may be, and that it works on something there.
AtPlaces ==
    /\ at = "start" <=> cur = Idle
    /\ phase \in {"idle"} => at = "start"
    /\ phase = "watch" => at \in {"start", "landed"}
    /\ phase = "splits" => at \in {"start", "split", "splitting", "announce", "post", "done"}
    /\ phase \in {"tags", "replay"} => at # "landed"
    /\ phase = "replay" => at # "start"
    /\ phase = "hand" => at \in {"send", "sent", "coin", "split", "splitting", "announce"}
    /\ phase # "watch" => gone = {} /\ checks = {}
    /\ \A m \in checks : unconfirmed[m] \in Tags
    /\ phase # "splits" => retries = {}
    /\ phase = "tags" => next >= 1
    /\ at \in {"decide", "answer"} => cur.mint = NoMint
    /\ at \notin {"start", "decide", "answer", "done"} => cur.mint \in Mints

\* What the record says of the tag that is worked on.
WorkedRow ==
    LET row == book[cur.tag]
    IN  /\ at \in {"decide", "listed"} => row.state = "none"
        /\ at = "landed" => row.state \in {"launching", "create_failed"} /\ row.mint = cur.mint
        /\ phase # "hand" /\ at \in {"send", "sent", "coin"} =>
                row.state = "launching" /\ row.mint = cur.mint
        /\ phase # "hand" /\ at \in {"pending", "split", "splitting", "announce"} =>
                row.state = "split_pending" /\ row.mint = cur.mint
        /\ at = "post" => row.state = "launched" /\ row.mint = cur.mint
        /\ at = "answer" => row.state \in {"account", "malformed", "answered"} /\ age[cur.tag] = "new"
        /\ phase # "hand" /\ at \in {"listed", "send", "sent"} => age[cur.tag] = "new"
        /\ \A t \in retries : t # cur.tag => book[t].state = "split_pending"

\* A coin finished by hand is there, and is its tag's.
HandsOn ==
    phase = "hand" =>
        /\ manual[cur.tag] # "nothing"
        /\ manual[cur.tag] = "launched" \/ made[cur.mint] = cur.tag
        /\ at = "send" => manual[cur.tag] = "launched"
        /\ at \in {"coin", "split", "splitting", "announce"} => made[cur.mint] = cur.tag

WithMint == Counted \cup {"create_lost"}
RowsHaveMints == \A t \in Tags : book[t].mint \in Mints <=> book[t].state \in WithMint

\* Whatever coin a tag has, or may still get, is the one its row names; a create
\* of a row no longer new cannot land.
RowNamesCoin ==
    \A t \in Bots :
        /\ \A m \in Mints : MayExist(t, m) => book[t].mint = m /\ book[t].state \in Counted
        /\ age[t] # "new" => \A m \in Mints : Tx("create", m, t) \notin flight

LaunchInv == LaunchTypeOK /\ AtPlaces /\ WorkedRow /\ HandsOn /\ RowsHaveMints /\ RowNamesCoin

\* The tag at hand has a claim to its ticker, and a place of its account's and
\* of the day's, from the moment its recovery entry is written.
Claims(t) ==
    \/ \E m \in Mints : MayExist(t, m)
    \/ at \in {"listed", "send"} /\ phase # "hand" /\ cur.tag = t
Claimed == {t \in Tags : manual[t] = "nothing" /\ age[t] # "day" /\ Claims(t)}

CountInv ==
    /\ \A t, s \in Bots : t # s /\ TickerOf[t] = TickerOf[s] => ~(Claims(t) /\ Claims(s))
    /\ Cardinality(Claimed) <= DailyCeiling
    /\ \A u \in Accounts : Cardinality({t \in Claimed : UserOf[t] = u}) <= PerDay

\* What an account was told of is on its record.
ToldInv ==
    /\ \A t \in Bots \ waived : told[t] > 0 =>
            book[t].state \in {"account", "malformed", "answered"} /\ age[t] # "day"
    /\ at = "answer" /\ cur.tag \in Bots \ waived => told[cur.tag] = 0
    /\ OneAnswerADay

\* On keys of its own, a mint is one tag's wherever it is named.
Uses(t, m) ==
    \/ book[t].mint = m \/ unconfirmed[m] = t \/ coins[m] = t \/ made[m] = t
    \/ \E x \in flight : x.mint = m /\ x.tag = t
    \/ cur.tag = t /\ cur.mint = m
MintIsOneTags == \A m \in Mints : \A t, s \in Tags : Uses(t, m) /\ Uses(s, m) => t = s

\* A coin is in the ledger before its row says it is there.
CoinBeforeRow ==
    /\ \A t \in Tags : book[t].state \in {"split_pending", "split_mismatch", "launched"} => coins[book[t].mint] = t
    /\ at \in {"landed", "coin", "pending", "split", "splitting", "announce", "post"} => coins[cur.mint] = cur.tag

\* Until then its recovery entry is there, and its row still says so.
Watched(t, m) ==
    \/ coins[m] = t
    \/ unconfirmed[m] = t /\ m \notin gone /\ book[t].mint = m /\ book[t].state \in {"launching", "create_failed"}
CoinIsWatched ==
    /\ \A t \in Bots, m \in Mints : MayExist(t, m) => Watched(t, m)
    /\ phase # "hand" /\ at \in {"listed", "send", "sent"} => unconfirmed[cur.mint] = cur.tag

\* Only a coin with its split on chain is announced, or said to be launched.
PaidInv ==
    /\ at \in {"announce", "post"} => config[cur.mint] = "ours"
    /\ \A t \in announced : book[t].state = "launched" /\ config[book[t].mint] = "ours"

MintInv == MintIsOneTags /\ CoinBeforeRow /\ CoinIsWatched /\ PaidInv

--------------------------------------------------------------------------------
(* What must happen. *)

\* Every tag posted is acted on, though one before it keeps raising a while.
TagIsActedOn == \A t \in Tags : posted >= t ~> Seen(t)
================================================================================
