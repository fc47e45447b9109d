---------------------------- MODULE TagLaunchProofs ----------------------------
(***************************************************************************)
(* The launches, for every number of tags, accounts, keys, limits and      *)
(* faults.                                                                 *)
(*                                                                         *)
(* LaunchInv ties each place of the tick to the row the bot wrote on its   *)
(* way there, and each create that landed or may land to the row written   *)
(* ahead of it.  On it rest CountInv (a claim is counted from its recovery *)
(* entry on), ToldInv (an answer is on the record) and, where every create *)
(* has a key of its own, MintInv (a coin is watched for until the ledger   *)
(* has it).  Each proof that a step keeps a part goes through the steps by *)
(* the group of Next they are in.                                          *)
(***************************************************************************)
EXTENDS TagLaunchProps, FiniteSetTheorems, WellFoundedInduction, TLAPS

(* The rules. *)

\* The least of some numbers is one of them.
LEMMA LeastIn ==
  ASSUME NEW S, S \subseteq Nat, S # {}
  PROVE  Min(S) \in S /\ \A y \in S : Min(S) <= y
<1>1. PICK x \in S : \A y \in S : ~ (<<y, x>> \in OpToRel(<, Nat))
  BY NatLessThanWellFounded, WFMin
<1>2. \A y \in S : x <= y
  <2> SUFFICES ASSUME NEW y \in S PROVE x <= y
    OBVIOUS
  <2>1. x \in Nat /\ y \in Nat
    OBVIOUS
  <2>2. ~(y < x)
    BY <1>1, <2>1 DEF OpToRel
  <2> QED BY <2>1, <2>2
<1> QED BY <1>1, <1>2 DEF Min

\* What a list of rules says: the outcome of the first that is met, if any is.
LEMMA FirstFacts ==
  ASSUME NEW rules, DOMAIN rules \subseteq Nat
  PROVE  \/ First(rules) = "none" /\ \A k \in DOMAIN rules : ~rules[k][1]
         \/ \E k \in DOMAIN rules :
              /\ rules[k][1] /\ First(rules) = rules[k][2]
              /\ \A j \in DOMAIN rules : rules[j][1] => k <= j
<1> DEFINE met == {k \in DOMAIN rules : rules[k][1]}
<1>1. CASE met = {}
  BY <1>1 DEF First
<1>2. CASE met # {}
  <2>1. Min(met) \in met /\ \A y \in met : Min(met) <= y
    <3>1. met \subseteq Nat
      OBVIOUS
    <3> HIDE DEF met
    <3> QED BY <1>2, <3>1, LeastIn
  <2>2. First(rules) = rules[Min(met)][2]
    BY <1>2 DEF First
  <2> QED BY <2>1, <2>2
<1> QED BY <1>1, <1>2


\* A list in which no outcome is `none' says `none' only when nothing is met.
LEMMA NoneMet ==
  ASSUME NEW rules, DOMAIN rules \subseteq Nat, First(rules) = "none",
         \A k \in DOMAIN rules : rules[k][1] => rules[k][2] # "none"
  PROVE  \A k \in DOMAIN rules : ~rules[k][1]
  BY FirstFacts

\* A tag whose ticker is taken, or whose account is at a limit, is refused (_one).
LEMMA MetAll ==
  ASSUME NEW f, NEW limit, NEW taken \in BOOLEAN, NEW replayed, NEW bypass,
         Refusal(f, limit, taken, replayed, bypass) = "none"
  PROVE  limit = "none" /\ ~taken
<1> DEFINE problem == TweetRefusal(f.post, replayed)
           account == AccountRefusal(f.user)
           content == ContentRefusal(f, taken)
           wallet == WalletRefusal(f)
           rules == <<
            <<problem \notin {"none", "no_image"}, problem>>,
            <<f.user.unread, "no_user">>,
            <<account # "none" /\ ~(bypass /\ account \in Bypassable), account>>,
            <<limit # "none", limit>>,
            <<MissingParts(f.words) # {}, "malformed">>,
            <<problem = "no_image", problem>>,
            <<content # "none", content>>,
            <<wallet # "none", wallet>>,
            <<PhotosOf(f.post) # {} /\ BadImage(f.post), "bad_image">>,
            <<f.verdict = "unsafe", "image_refused">> >>
<1>1. First(rules) = "none"
  BY DEF Refusal
<1> HIDE DEF problem, account, content, wallet
<1>2. /\ DOMAIN rules = 1..10
      /\ rules[1][1] = (problem \notin {"none", "no_image"}) /\ rules[1][2] = problem
      /\ rules[2][2] = "no_user"
      /\ rules[3][1] = (account # "none" /\ ~(bypass /\ account \in Bypassable)) /\ rules[3][2] = account
      /\ rules[4][1] = (limit # "none") /\ rules[4][2] = limit
      /\ rules[5][2] = "malformed"
      /\ rules[6][1] = (problem = "no_image") /\ rules[6][2] = problem
      /\ rules[7][1] = (content # "none") /\ rules[7][2] = content
      /\ rules[8][1] = (wallet # "none") /\ rules[8][2] = wallet
      /\ rules[9][2] = "bad_image" /\ rules[10][2] = "image_refused"
  BY SMTT(60)
<1> HIDE DEF rules
<1>3. \A k \in 1..10 : rules[k][1] => rules[k][2] # "none"
  <2> SUFFICES ASSUME NEW k \in 1..10, rules[k][1] PROVE rules[k][2] # "none"
    OBVIOUS
  <2>1. k \in {2, 5, 9, 10} \/ k \in {1, 3, 4} \/ k \in {6, 7, 8}
    OBVIOUS
  <2>2. CASE k \in {2, 5, 9, 10}
    BY <1>2, <2>2, ZenonT(60)
  <2>3. CASE k \in {1, 3, 4}
    BY <1>2, <2>3, ZenonT(60)
  <2>4. CASE k \in {6, 7, 8}
    BY <1>2, <2>4, ZenonT(60)
  <2> QED BY <2>1, <2>2, <2>3, <2>4
<1>4. ~rules[4][1] /\ ~rules[7][1]
  BY <1>1, <1>2, <1>3, NoneMet
<1>5. limit = "none" /\ content = "none"
  BY <1>2, <1>4
<1>6. ~taken
  <2> DEFINE words == << <<f.reserved \/ taken, "ticker_taken">>, <<f.close, "impersonation">> >>
  <2>1. First(words) = "none"
    BY <1>5 DEF content, ContentRefusal
  <2>2. DOMAIN words = 1..2 /\ words[1][1] = (f.reserved \/ taken) /\ words[1][2] = "ticker_taken"
        /\ words[2][2] = "impersonation"
    OBVIOUS
  <2> HIDE DEF words
  <2>3. \A k \in 1..2 : words[k][1] => words[k][2] # "none"
    <3>1. \A k \in 1..2 : k \in {1, 2}
      OBVIOUS
    <3> QED BY <2>2, <3>1
  <2>4. ~words[1][1]
    BY <2>1, <2>2, <2>3, NoneMet
  <2> QED BY <2>2, <2>4
<1> QED BY <1>5, <1>6

\* What the record says of a refusal, and of one that is answered.
LEMMA StateOfFacts ==
  ASSUME NEW code
  PROVE  /\ StateOf(code) \in {"paused", "account", "malformed", "answered", "silent"}
         /\ code \in Replied => StateOf(code) \in {"account", "malformed", "answered"}
<1> DEFINE rules == << <<code \in Paused, "paused">>, <<code \in Bypassable, "account">>,
                       <<code = "malformed", "malformed">>, <<code \in Replied, "answered">>,
                       <<TRUE, "silent">> >>
<1>1. /\ DOMAIN rules = 1..5
      /\ rules[1][1] = (code \in Paused) /\ rules[1][2] = "paused"
      /\ rules[2][2] = "account" /\ rules[3][2] = "malformed"
      /\ rules[4][1] = (code \in Replied) /\ rules[4][2] = "answered"
      /\ rules[5][1] = TRUE /\ rules[5][2] = "silent"
  OBVIOUS
<1>2. StateOf(code) = First(rules)
  BY DEF StateOf
<1> HIDE DEF rules
<1>3. PICK k \in 1..5 : /\ rules[k][1] /\ First(rules) = rules[k][2]
                        /\ \A j \in 1..5 : rules[j][1] => k <= j
  <2>1. rules[5][1] /\ 5 \in DOMAIN rules /\ DOMAIN rules \subseteq Nat
    BY <1>1
  <2>2. \E k \in DOMAIN rules : /\ rules[k][1] /\ First(rules) = rules[k][2]
                                /\ \A j \in DOMAIN rules : rules[j][1] => k <= j
    BY <2>1, FirstFacts
  <2> QED BY <1>1, <2>2
<1>4. k \in {1, 2, 3, 4, 5}
  OBVIOUS
<1>5. code \in Replied => code \notin Paused
  BY DEF Replied, Paused, Bypassable
<1>6. ASSUME code \in Replied PROVE k \in {2, 3, 4}
  <2>1. rules[4][1]
    BY <1>1, <1>6, Zenon
  <2>2. k <= 4
    <3>1. 4 \in 1..5
      OBVIOUS
    <3> QED BY <1>3, <2>1, <3>1
  <2>3. k # 1
    BY <1>1, <1>3, <1>5, <1>6
  <2> QED BY <1>4, <2>2, <2>3
<1>7. First(rules) \in {"paused", "account", "malformed", "answered", "silent"}
  <2>1. CASE k = 1
    BY <1>1, <1>3, <2>1
  <2>2. CASE k = 2
    BY <1>1, <1>3, <2>2
  <2>3. CASE k = 3
    BY <1>1, <1>3, <2>3
  <2>4. CASE k = 4
    BY <1>1, <1>3, <2>4
  <2>5. CASE k = 5
    BY <1>1, <1>3, <2>5
  <2> QED BY <1>4, <2>1, <2>2, <2>3, <2>4, <2>5
<1>8. k \in {2, 3, 4} => First(rules) \in {"account", "malformed", "answered"}
  BY <1>1, <1>3
<1> QED BY <1>2, <1>6, <1>7, <1>8

--------------------------------------------------------------------------------
(* Types. *)

\* The key of a new coin is one of the mints.
LEMMA NewMintsAreMints == NewMints \subseteq Mints
<1>1. CASE Left = {}
  BY <1>1 DEF NewMints
<1>2. CASE Left # {}
  <2>1. Pool \in Seq(Mints)
    BY LaunchAssumption
  <2>2. Left \subseteq Nat /\ Left \subseteq DOMAIN Pool
    BY <2>1 DEF Left
  <2>3. Min(Left) \in DOMAIN Pool
    BY <1>2, <2>2, LeastIn
  <2>4. Pool[Min(Left)] \in Mints
    BY <2>1, <2>3
  <2> QED BY <1>2, <2>4 DEF NewMints
<1> QED BY <1>1, <1>2

\* What is worked on, when something is.
LEMMA AtWork ==
  ASSUME LaunchTypeOK, AtPlaces, at # "start"
  PROVE  /\ cur.tag \in Tags /\ cur.mint \in Mints \cup {NoMint} /\ cur # Idle
         /\ at \notin {"decide", "answer", "done"} => cur.mint \in Mints
  BY DEF LaunchTypeOK, TickType, AtPlaces

\* A row that is written is a row.
LEMMA RecordTyped ==
  ASSUME LaunchTypeOK, NEW t \in Tags, NEW m \in Mints \cup {NoMint}, NEW state \in States,
         Record(t, state, m)
  PROVE  /\ book' \in [Tags -> Row]
         /\ book'[t] = [state |-> state, mint |-> m]
         /\ \A s \in Tags : s # t => book'[s] = book[s]
  BY DEF LaunchTypeOK, RecordType, Row, Record

\* The end of a tick leaves nothing to work on.
LEMMA EndTickTyped ==
  ASSUME EndTick, waived' \subseteq Tags, manual' \in [Tags -> {"nothing", "launched", "finished"}], faults' \in Nat
  PROVE  TickType'
<1>1. 0 \in 0..Last
  BY LaunchAssumption
<1> QED BY <1>1 DEF EndTick, TickType, Phases, Places

\* At the start every variable has its type.
LEMMA InitTyped == Init => LaunchTypeOK
<1> SUFFICES ASSUME Init PROVE LaunchTypeOK
  OBVIOUS
<1>1. 0 \in 0..Last /\ Last \in Nat
  BY LaunchAssumption
<1>2. NoRow \in Row
  BY DEF NoRow, Row, States
<1>3. RecordType
  BY <1>2 DEF Init, RecordType
<1>4. WorldType
  BY <1>1 DEF Init, WorldType
<1>5. TickType
  BY <1>1 DEF Init, TickType, Phases, Places
<1> QED BY <1>3, <1>4, <1>5 DEF LaunchTypeOK

\* X, the chain and time touch neither the database nor the tick.
LEMMA OutsideTick ==
  ASSUME Post \/ Chain \/ Time
  PROVE  UNCHANGED <<bookVars, announced, tickVars, waived, manual, faults>>
<1> USE DEF bookVars, tickVars, listVars, pollVars, postVars, chainVars
<1>1. CASE Post
  BY <1>1 DEF Post
<1>2. CASE Chain
  BY <1>2 DEF Chain, LandCreate, LandSplit, Expire, DoorLaunch
<1>3. CASE Time
  BY <1>3 DEF Time, Late, Day
<1> QED BY <1>1, <1>2, <1>3

\* The bot's own steps leave the world as it is, but for what it sends and posts.
LEMMA BotInWorld ==
  ASSUME Owner \/ Watch \/ Tag \/ Launch \/ Hand \/ Raise \/ Crash
  PROVE  /\ UNCHANGED <<posted, made, config>>
         /\ ~Launch => UNCHANGED <<flight, announced>>
         /\ ~Tag => UNCHANGED told
<1> USE DEF bookVars, tickVars, listVars, pollVars, postVars, chainVars
<1>1. CASE Owner
  BY <1>1 DEF Owner, Replay, HandLaunch, HandResume, Locks
<1>2. CASE Watch
  BY <1>2 DEF Watch, StartTick, CheckStale, CheckLanded, CheckLost, CheckWaits, RecordLanded, WatchDone
<1>3. CASE Tag
  BY <1>3 DEF Tag, TakeTag, Refuse, Answer, Done, Poll, PollDone
<1>4. CASE Launch
  BY <1>4 DEF Launch, List, RecordLaunching, SendCreate, CreateUnconfirmed, AddCoin, RecordPending,
              Forget, RetrySplit, SendSplit, SplitFails, SplitConfirmed, RecordLaunched, Announce
<1>5. CASE Hand
  BY <1>5 DEF Hand, HandCreated, HandDone, HandFails
<1>6. CASE Raise \/ Crash
  BY <1>6 DEF Raise, Crash
<1> QED BY <1>1, <1>2, <1>3, <1>4, <1>5, <1>6

\* What X, the chain and time hold keeps its type.
LEMMA WorldTyped ==
  ASSUME LaunchTypeOK, AtPlaces, Next
  PROVE  WorldType'
<1> USE DEF bookVars, tickVars, listVars, pollVars, postVars, chainVars
<1>1. CASE Post
  <2>1. Last \in Nat
    BY LaunchAssumption
  <2> QED BY <1>1, <2>1 DEF Post, LaunchTypeOK, WorldType
<1>2. CASE Chain
  <2>1. ASSUME NEW x \in flight, LandCreate(x) PROVE WorldType'
    BY <2>1 DEF LandCreate, LaunchTypeOK, WorldType
  <2>2. ASSUME NEW x \in flight, LandSplit(x) PROVE WorldType'
    BY <2>2 DEF LandSplit, LaunchTypeOK, WorldType
  <2>3. ASSUME NEW x \in flight, Expire(x) PROVE WorldType'
    BY <2>3 DEF Expire, LaunchTypeOK, WorldType
  <2>4. ASSUME NEW m \in Mints, DoorLaunch(m) PROVE WorldType'
    BY <2>4 DEF DoorLaunch, LaunchTypeOK, WorldType
  <2> QED BY <1>2, <2>1, <2>2, <2>3, <2>4 DEF Chain
<1>3. CASE Time
  <2>1. ASSUME NEW t \in Tags, Late(t) PROVE WorldType'
    BY <2>1 DEF Late, LaunchTypeOK, WorldType
  <2>2. ASSUME NEW t \in Tags, Day(t) PROVE WorldType'
    BY <2>2 DEF Day, LaunchTypeOK, WorldType
  <2> QED BY <1>3, <2>1, <2>2 DEF Time
<1>4. CASE Owner
  BY <1>4 DEF Owner, Replay, HandLaunch, HandResume, Locks, LaunchTypeOK, WorldType
<1>5. CASE Watch
  BY <1>5 DEF Watch, StartTick, CheckStale, CheckLanded, CheckLost, CheckWaits, RecordLanded, WatchDone,
              LaunchTypeOK, WorldType
<1>6. CASE Tag
  <2>1. ASSUME at = "decide", NEW code \in Refused, Refuse(code) PROVE WorldType'
    BY <2>1, AtWork DEF Refuse, LaunchTypeOK, WorldType
  <2>2. CASE Answer
    <3>1. cur.tag \in Tags
      BY <2>2, AtWork DEF Answer
    <3>2. told' = told \/ told' = [told EXCEPT ![cur.tag] = @ + 1]
      BY <2>2 DEF Answer
    <3>3. told' \in [Tags -> Nat]
      BY <3>1, <3>2 DEF LaunchTypeOK, WorldType
    <3> QED BY <2>2, <3>3 DEF Answer, LaunchTypeOK, WorldType
  <2>3. CASE TakeTag \/ Done \/ Poll \/ PollDone
    BY <2>3 DEF TakeTag, Done, Poll, PollDone, LaunchTypeOK, WorldType
  <2> QED BY <1>6, <2>1, <2>2, <2>3 DEF Tag
<1>7. CASE Launch
  <2>1. CASE List
    BY <2>1, AtWork DEF List, LaunchTypeOK, WorldType
  <2>2. CASE SendCreate
    BY <2>2, AtWork DEF SendCreate, Tx, LaunchTypeOK, WorldType
  <2>3. CASE SendSplit
    BY <2>3, AtWork DEF SendSplit, Tx, LaunchTypeOK, WorldType
  <2>4. CASE Announce
    BY <2>4, AtWork DEF Announce, LaunchTypeOK, WorldType
  <2>5. CASE \/ RecordLaunching \/ CreateUnconfirmed \/ AddCoin \/ RecordPending \/ Forget
             \/ (\E t \in Tags : RetrySplit(t)) \/ SplitFails \/ SplitConfirmed \/ RecordLaunched
    BY <2>5 DEF RecordLaunching, CreateUnconfirmed, AddCoin, RecordPending, Forget, RetrySplit, SplitFails,
                SplitConfirmed, RecordLaunched, LaunchTypeOK, WorldType
  <2> QED BY <1>7, <2>1, <2>2, <2>3, <2>4, <2>5 DEF Launch
<1>8. CASE Hand
  <2>1. CASE HandCreated
    BY <2>1, AtWork DEF HandCreated, LaunchTypeOK, WorldType
  <2>2. CASE HandDone
    BY <2>2, AtWork DEF HandDone, LaunchTypeOK, WorldType
  <2>3. CASE HandFails
    BY <2>3 DEF HandFails, LaunchTypeOK, WorldType
  <2> QED BY <1>8, <2>1, <2>2, <2>3 DEF Hand
<1>9. CASE Raise \/ Crash
  BY <1>9 DEF Raise, Crash, LaunchTypeOK, WorldType
<1> QED BY <1>1, <1>2, <1>3, <1>4, <1>5, <1>6, <1>7, <1>8, <1>9 DEF Next, Bot

\* What the database holds keeps its type.
LEMMA RecordsTyped ==
  ASSUME LaunchInv, Next
  PROVE  RecordType'
<1> USE DEF bookVars, tickVars, listVars, pollVars, postVars, chainVars
<1>t. LaunchTypeOK /\ AtPlaces /\ RecordType /\ NoMint \notin Mints
  BY LaunchAssumption DEF LaunchInv, LaunchTypeOK
<1>b. ASSUME NEW t \in Tags, NEW m \in Mints \cup {NoMint}, NEW state \in States, Record(t, state, m),
             UNCHANGED <<unconfirmed, coins, cursor>>
      PROVE RecordType'
  BY <1>t, <1>b, RecordTyped DEF RecordType
<1>1. CASE Post \/ Chain \/ Time
  BY <1>t, <1>1, OutsideTick DEF RecordType
<1>2. CASE Owner
  <2>1. ASSUME NEW t \in Tags, Replay(t) PROVE RecordType'
    <3>1. NoRow \in Row
      BY DEF NoRow, Row, States
    <3> QED BY <1>t, <2>1, <3>1 DEF Replay, RecordType
  <2>2. ASSUME NEW t \in Tags, HandLaunch(t) PROVE RecordType'
    BY <1>t, <2>2 DEF HandLaunch, Locks, RecordType
  <2>3. ASSUME NEW m \in Mints, HandResume(m) PROVE RecordType'
    BY <1>t, <2>3 DEF HandResume, Locks, RecordType
  <2> QED BY <1>2, <2>1, <2>2, <2>3 DEF Owner
<1>3. CASE Watch
  <2>1. CASE StartTick
    <3>1. book' \in [Tags -> Row]
      BY <1>t, <2>1 DEF StartTick, RecordType, Row, States
    <3>2. unconfirmed' \in [Mints -> Tags \cup {Nobody}]
      <4> DEFINE known == {t \in Unlisted : coins[book[t].mint] # Nobody}
      <4>1. \A m \in Mints : (\E t \in Unlisted \ known : book[t].mint = m)
                => (CHOOSE t \in Unlisted \ known : book[t].mint = m) \in Tags
        BY DEF Unlisted
      <4> QED BY <1>t, <2>1, <4>1 DEF StartTick, RecordType
    <3> QED BY <1>t, <2>1, <3>1, <3>2 DEF StartTick, RecordType
  <2>2. ASSUME NEW m \in Mints, CheckStale(m) \/ CheckWaits(m) PROVE RecordType'
    BY <1>t, <2>2 DEF CheckStale, CheckWaits, RecordType
  <2>3. ASSUME NEW m \in Mints, CheckLanded(m) PROVE RecordType'
    BY <1>t, <2>3 DEF CheckLanded, RecordType
  <2>4. ASSUME NEW m \in Mints, CheckLost(m) PROVE RecordType'
    <3>1. unconfirmed[m] \in Tags
      BY <1>t, <2>4 DEF CheckLost, Watching, AtPlaces
    <3> QED BY <1>b, <2>4, <3>1 DEF CheckLost, States
  <2>5. CASE RecordLanded
    BY <1>t, <1>b, <2>5, AtWork DEF RecordLanded, States
  <2>6. CASE WatchDone
    BY <1>t, <2>6 DEF WatchDone, RecordType
  <2> QED BY <1>3, <2>1, <2>2, <2>3, <2>4, <2>5, <2>6 DEF Watch
<1>4. CASE Tag
  <2>1. ASSUME at = "decide", NEW code \in Refused, Refuse(code) PROVE RecordType'
    BY <1>t, <1>b, <2>1, AtWork, StateOfFacts DEF Refuse, States
  <2>2. CASE Answer \/ TakeTag \/ Poll
    BY <1>t, <2>2 DEF Answer, TakeTag, Poll, RecordType
  <2>3. CASE Done
    <3>1. cur.tag \in Nat
      BY <1>t, <2>3, AtWork DEF Done, Tags
    <3> QED BY <1>t, <2>3, <3>1 DEF Done, Save, RecordType
  <2>4. CASE PollDone
    <3>1. upto \in Nat
      BY <1>t DEF LaunchTypeOK, TickType
    <3> QED BY <1>t, <2>4, <3>1 DEF PollDone, Save, RecordType
  <2> QED BY <1>4, <2>1, <2>2, <2>3, <2>4 DEF Tag
<1>5. CASE Launch
  <2>1. CASE List
    <3>1. cur.tag \in Tags
      BY <1>t, <2>1, AtWork DEF List
    <3> QED BY <1>t, <2>1, <3>1, NewMintsAreMints DEF List, RecordType
  <2>2. CASE RecordLaunching
    BY <1>t, <1>b, <2>2, AtWork DEF RecordLaunching, States
  <2>3. CASE CreateUnconfirmed
    BY <1>t, <1>b, <2>3, AtWork DEF CreateUnconfirmed, States
  <2>4. CASE RecordPending
    BY <1>t, <1>b, <2>4, AtWork DEF RecordPending, States
  <2>5. CASE SplitFails
    BY <1>t, <1>b, <2>5, AtWork DEF SplitFails, States
  <2>6. CASE RecordLaunched
    BY <1>t, <1>b, <2>6, AtWork DEF RecordLaunched, States
  <2>7. CASE AddCoin
    <3>1. cur.tag \in Tags
      BY <1>t, <2>7, AtWork DEF AddCoin
    <3> QED BY <1>t, <2>7, <3>1 DEF AddCoin, RecordType
  <2>8. CASE Forget
    BY <1>t, <2>8 DEF Forget, RecordType
  <2>9. ASSUME NEW t \in Tags, RetrySplit(t) PROVE RecordType'
    <3>1. book[t].mint \in Mints \cup {NoMint}
      BY <1>t DEF RecordType, Row
    <3>2. Record(t, "split_mismatch", book[t].mint) \/ UNCHANGED book
      BY <2>9 DEF RetrySplit
    <3> QED BY <1>t, <1>b, <2>9, <3>1, <3>2 DEF RetrySplit, RecordType, States
  <2>10. CASE SendCreate \/ SendSplit \/ SplitConfirmed \/ Announce
    BY <1>t, <2>10 DEF SendCreate, SendSplit, SplitConfirmed, Announce, RecordType
  <2> QED BY <1>5, <2>1, <2>2, <2>3, <2>4, <2>5, <2>6, <2>7, <2>8, <2>9, <2>10 DEF Launch
<1>6. CASE Hand
  <2>1. CASE HandCreated
    BY <1>t, <1>b, <2>1, AtWork DEF HandCreated, RecordType, States
  <2>2. CASE HandDone
    BY <1>t, <1>b, <2>2, AtWork DEF HandDone, States
  <2>3. CASE HandFails
    BY <1>t, <2>3 DEF HandFails, RecordType
  <2> QED BY <1>6, <2>1, <2>2, <2>3 DEF Hand
<1>7. CASE Raise \/ Crash
  BY <1>t, <1>7 DEF Raise, Crash, RecordType
<1> QED BY <1>1, <1>2, <1>3, <1>4, <1>5, <1>6, <1>7 DEF Next, Bot

\* What the bot keeps in memory keeps its type.
LEMMA TickTyped ==
  ASSUME LaunchInv, Next
  PROVE  TickType'
<1> USE DEF bookVars, tickVars, listVars, pollVars, postVars, chainVars
<1>t. LaunchTypeOK /\ AtPlaces /\ TickType /\ RecordType /\ WorldType /\ NoMint \notin Mints
  BY LaunchAssumption DEF LaunchInv, LaunchTypeOK
<1>1. CASE Post \/ Chain \/ Time
  BY <1>t, <1>1, OutsideTick DEF TickType
<1>2. CASE Owner
  <2>1. ASSUME NEW t \in Tags, Replay(t) PROVE TickType'
    BY <1>t, <2>1 DEF Replay, TickType, Phases, Places
  <2>2. ASSUME NEW t \in Tags, HandLaunch(t) PROVE TickType'
    BY <1>t, <2>2 DEF HandLaunch, Locks, TickType, Phases, Places
  <2>3. ASSUME NEW m \in Mints, HandResume(m) PROVE TickType'
    BY <1>t, <2>3 DEF HandResume, Locks, TickType, Phases, Places
  <2> QED BY <1>2, <2>1, <2>2, <2>3 DEF Owner
<1>3. CASE Watch
  <2>1. CASE StartTick
    BY <1>t, <2>1 DEF StartTick, TickType, Phases
  <2>2. ASSUME NEW m \in Mints, CheckStale(m) \/ CheckWaits(m) \/ CheckLost(m) PROVE TickType'
    BY <1>t, <2>2 DEF CheckStale, CheckWaits, CheckLost, Settled, TickType
  <2>3. ASSUME NEW m \in Mints, CheckLanded(m) PROVE TickType'
    <3>1. unconfirmed[m] \in Tags
      BY <1>t, <2>3 DEF CheckLanded, Watching, AtPlaces
    <3> QED BY <1>t, <2>3, <3>1 DEF CheckLanded, TickType, Places
  <2>4. CASE RecordLanded
    BY <1>t, <2>4, AtWork DEF RecordLanded, Settled, TickType, Places
  <2>5. CASE WatchDone
    BY <1>t, <2>5 DEF WatchDone, TickType, Phases
  <2> QED BY <1>3, <2>1, <2>2, <2>3, <2>4, <2>5 DEF Watch
<1>4. CASE Tag
  <2>1. ASSUME at = "decide", NEW code \in Refused, Refuse(code) PROVE TickType'
    BY <1>t, <2>1 DEF Refuse, TickType, Places
  <2>2. CASE Answer
    BY <1>t, <2>2 DEF Answer, TickType, Places
  <2>3. CASE TakeTag
    <3>1. Last \in Nat /\ next \in Nat /\ upto \in 0..Last
      BY <1>t, LaunchAssumption DEF TickType
    <3>2. next >= 1 /\ next <= upto
      BY <1>t, <2>3 DEF TakeTag, AtPlaces
    <3>3. next \in Tags
      BY <3>1, <3>2 DEF Tags
    <3> QED BY <1>t, <2>3, <3>3 DEF TakeTag, TickType, Places
  <2>4. CASE Done
    <3>1. CASE phase = "replay"
      BY <1>t, <2>4, <3>1, EndTickTyped DEF Done, TickType
    <3>2. CASE phase # "replay"
      BY <1>t, <2>4, <3>2 DEF Done, TickType, Places
    <3> QED BY <3>1, <3>2
  <2>5. CASE Poll
    BY <1>t, <2>5 DEF Poll, RecordType, WorldType, TickType, Phases
  <2>6. CASE PollDone
    BY <1>t, <2>6, EndTickTyped DEF PollDone, TickType
  <2> QED BY <1>4, <2>1, <2>2, <2>3, <2>4, <2>5, <2>6 DEF Tag
<1>5. CASE Launch
  <2>1. CASE List
    <3>1. cur.tag \in Tags /\ cur \in [tag : Tags, mint : Mints \cup {NoMint}]
      BY <1>t, <2>1, AtWork DEF List, TickType
    <3>2. PICK m \in Mints : cur' = [cur EXCEPT !.mint = m]
      BY <2>1, NewMintsAreMints DEF List
    <3>3. cur' \in [tag : Tags, mint : Mints \cup {NoMint}]
      BY <3>1, <3>2
    <3> QED BY <1>t, <2>1, <3>3 DEF List, TickType, Places
  <2>2. ASSUME NEW t \in Tags, RetrySplit(t) PROVE TickType'
    <3>1. book[t].mint \in Mints \cup {NoMint}
      BY <1>t DEF RecordType, Row
    <3>2. at' \in Places
      BY <2>2 DEF RetrySplit, Places
    <3> QED BY <1>t, <2>2, <3>1, <3>2 DEF RetrySplit, TickType
  <2>3. CASE \/ RecordLaunching \/ SendCreate \/ CreateUnconfirmed \/ AddCoin \/ RecordPending \/ Forget
             \/ SendSplit \/ SplitFails \/ SplitConfirmed \/ RecordLaunched \/ Announce
    BY <1>t, <2>3 DEF RecordLaunching, SendCreate, CreateUnconfirmed, AddCoin, RecordPending, Forget,
                SendSplit, SplitFails, SplitConfirmed, RecordLaunched, Announce, TickType, Places
  <2> QED BY <1>5, <2>1, <2>2, <2>3 DEF Launch
<1>6. CASE Hand
  <2>1. CASE HandCreated
    BY <1>t, <2>1 DEF HandCreated, TickType, Places
  <2>2. CASE HandDone \/ HandFails
    BY <1>t, <2>2, EndTickTyped DEF HandDone, HandFails, TickType
  <2> QED BY <1>6, <2>1, <2>2 DEF Hand
<1>7. CASE Raise
  <2>1. CASE phase = "tags" /\ cur # Idle
    BY <1>t, <1>7, <2>1 DEF Raise, TickType, Places
  <2>2. CASE ~(phase = "tags" /\ cur # Idle)
    BY <1>t, <1>7, <2>2, EndTickTyped DEF Raise, TickType
  <2> QED BY <2>1, <2>2
<1>8. CASE Crash
  BY <1>t, <1>8, EndTickTyped DEF Crash, TickType
<1> QED BY <1>1, <1>2, <1>3, <1>4, <1>5, <1>6, <1>7, <1>8 DEF Next, Bot

--------------------------------------------------------------------------------
(* The record and the place in the tick. *)

\* A tag number is no zero.
LEMMA TagIsWork ==
  ASSUME NEW t \in Tags, NEW m
  PROVE  [tag |-> t, mint |-> m] # Idle
<1>1. t # 0
  BY LaunchAssumption DEF Tags
<1> QED BY <1>1 DEF Idle

\* A split that is retried is one the record says is pending.
LEMMA RetriedRow ==
  ASSUME LaunchInv, NEW t \in Tags, RetrySplit(t)
  PROVE  /\ book[t].state = "split_pending" /\ book[t].mint \in Mints
         /\ \A s \in Tags : s # cur.tag
<1>1. \A s \in Tags : s # cur.tag
  BY LaunchAssumption DEF LaunchInv, RetrySplit, AtPlaces, Idle, Tags
<1>2. book[t].state = "split_pending"
  BY <1>1 DEF LaunchInv, RetrySplit, WorkedRow
<1> QED BY <1>1, <1>2 DEF LaunchInv, RowsHaveMints, WithMint, Counted

\* Each part of the tick goes only to its own places, and leaves its lists behind.
LEMMA PlacesKept ==
  ASSUME LaunchInv, Next
  PROVE  AtPlaces'
<1> USE DEF bookVars, tickVars, listVars, pollVars, postVars, chainVars
<1>t. LaunchTypeOK /\ AtPlaces /\ TickType /\ RecordType /\ WorldType /\ RowsHaveMints /\ WorkedRow
      /\ NoMint \notin Mints /\ Nobody \notin Tags
  BY LaunchAssumption DEF LaunchInv, LaunchTypeOK
<1>1. CASE Post \/ Chain \/ Time
  BY <1>t, <1>1, OutsideTick DEF AtPlaces
<1>2. CASE Owner
  <2>1. ASSUME NEW t \in Tags, Replay(t) PROVE AtPlaces'
    BY <1>t, <2>1, TagIsWork DEF Replay, AtPlaces
  <2>2. ASSUME NEW t \in Tags, HandLaunch(t) PROVE AtPlaces'
    BY <1>t, <2>2, TagIsWork DEF HandLaunch, Locks, AtPlaces
  <2>3. ASSUME NEW m \in Mints, HandResume(m) PROVE AtPlaces'
    BY <1>t, <2>3, TagIsWork DEF HandResume, Locks, AtPlaces
  <2> QED BY <1>2, <2>1, <2>2, <2>3 DEF Owner
<1>3. CASE Watch
  <2>1. CASE StartTick
    <3>1. \A m \in checks' : unconfirmed'[m] \in Tags
      <4>1. unconfirmed' \in [Mints -> Tags \cup {Nobody}]
        BY <1>3, RecordsTyped DEF RecordType, Next, Bot
      <4> QED BY <2>1, <4>1 DEF StartTick
    <3> QED BY <1>t, <2>1, <3>1 DEF StartTick, AtPlaces
  <2>2. ASSUME NEW m \in Mints, CheckStale(m) \/ CheckWaits(m) \/ CheckLost(m) PROVE AtPlaces'
    BY <1>t, <2>2 DEF CheckStale, CheckWaits, CheckLost, Settled, Watching, AtPlaces
  <2>3. ASSUME NEW m \in Mints, CheckLanded(m) PROVE AtPlaces'
    <3>1. unconfirmed[m] \in Tags
      BY <1>t, <2>3 DEF CheckLanded, Watching, AtPlaces
    <3> QED BY <1>t, <2>3, <3>1, TagIsWork DEF CheckLanded, Watching, AtPlaces
  <2>4. CASE RecordLanded
    BY <1>t, <2>4 DEF RecordLanded, Settled, AtPlaces
  <2>5. CASE WatchDone
    BY <1>t, <2>5 DEF WatchDone, AtPlaces
  <2> QED BY <1>3, <2>1, <2>2, <2>3, <2>4, <2>5 DEF Watch
<1>4. CASE Tag
  <2>1. ASSUME at = "decide", NEW code \in Refused, Refuse(code) PROVE AtPlaces'
    BY <1>t, <2>1 DEF Refuse, AtPlaces
  <2>2. CASE Answer
    BY <1>t, <2>2 DEF Answer, AtPlaces
  <2>3. CASE TakeTag
    <3>1. next \in Tags
      <4>1. Last \in Nat /\ next \in Nat /\ upto \in 0..Last
        BY <1>t, LaunchAssumption DEF TickType
      <4>2. next >= 1 /\ next <= upto
        BY <1>t, <2>3 DEF TakeTag, AtPlaces
      <4> QED BY <4>1, <4>2 DEF Tags
    <3> QED BY <1>t, <2>3, <3>1, TagIsWork DEF TakeTag, AtPlaces
  <2>4. CASE Done
    <3>1. CASE phase = "replay"
      BY <1>t, <2>4, <3>1 DEF Done, EndTick, AtPlaces
    <3>2. CASE phase = "tags"
      BY <1>t, <2>4, <3>2 DEF Done, AtPlaces, TickType
    <3>3. CASE phase \notin {"replay", "tags"}
      BY <1>t, <2>4, <3>3 DEF Done, AtPlaces
    <3> QED BY <3>1, <3>2, <3>3
  <2>5. CASE Poll
    BY <1>t, <2>5 DEF Poll, RecordType, AtPlaces
  <2>6. CASE PollDone
    BY <1>t, <2>6 DEF PollDone, EndTick, AtPlaces
  <2> QED BY <1>4, <2>1, <2>2, <2>3, <2>4, <2>5, <2>6 DEF Tag
<1>5. CASE Launch
  <2>1. CASE List
    <3>1. cur.tag \in Tags /\ cur \in [tag : Tags, mint : Mints \cup {NoMint}]
      BY <1>t, <2>1, AtWork DEF List, TickType
    <3>2. PICK m \in Mints : cur' = [cur EXCEPT !.mint = m] /\ unconfirmed' = [unconfirmed EXCEPT ![m] = cur.tag]
      BY <2>1, NewMintsAreMints DEF List
    <3>3. cur' = [tag |-> cur.tag, mint |-> m]
      BY <3>1, <3>2
    <3>4. cur' # Idle /\ cur'.mint \in Mints
      BY <3>1, <3>3, TagIsWork
    <3>5. checks = {}
      BY <1>t, <2>1 DEF List, AtPlaces
    <3> QED BY <1>t, <2>1, <3>4, <3>5 DEF List, AtPlaces
  <2>2. ASSUME NEW t \in Tags, RetrySplit(t) PROVE AtPlaces'
    <3>1. book[t].mint \in Mints
      BY <2>2, RetriedRow
    <3>2. at' \in {"split", "announce", "done"}
      BY <2>2 DEF RetrySplit
    <3> QED BY <1>t, <2>2, <3>1, <3>2, TagIsWork DEF RetrySplit, AtPlaces
  <2>3. CASE Forget
    <3>1. checks = {}
      BY <1>t, <2>3 DEF Forget, AtPlaces
    <3> QED BY <1>t, <2>3, <3>1 DEF Forget, AtPlaces
  <2>4. CASE RecordLaunching \/ SendCreate \/ CreateUnconfirmed \/ AddCoin \/ RecordPending
    BY <1>t, <2>4 DEF RecordLaunching, SendCreate, CreateUnconfirmed, AddCoin, RecordPending, AtPlaces
  <2>5. CASE SendSplit \/ SplitFails \/ SplitConfirmed \/ RecordLaunched \/ Announce
    BY <1>t, <2>5 DEF SendSplit, SplitFails, SplitConfirmed, RecordLaunched, Announce, AtPlaces
  <2> QED BY <1>5, <2>1, <2>2, <2>3, <2>4, <2>5 DEF Launch
<1>6. CASE Hand
  <2>1. CASE HandCreated
    BY <1>t, <2>1 DEF HandCreated, AtPlaces
  <2>2. CASE HandDone \/ HandFails
    BY <1>t, <2>2 DEF HandDone, HandFails, EndTick, AtPlaces
  <2> QED BY <1>6, <2>1, <2>2 DEF Hand
<1>7. CASE Raise
  <2>1. CASE phase = "tags" /\ cur # Idle
    BY <1>t, <1>7, <2>1 DEF Raise, TickType, AtPlaces
  <2>2. CASE ~(phase = "tags" /\ cur # Idle)
    BY <1>t, <1>7, <2>2 DEF Raise, EndTick, AtPlaces
  <2> QED BY <2>1, <2>2
<1>8. CASE Crash
  BY <1>t, <1>8 DEF Crash, EndTick, AtPlaces
<1> QED BY <1>1, <1>2, <1>3, <1>4, <1>5, <1>6, <1>7, <1>8 DEF Next, Bot

\* Of the record, a step writes the row of the tag at hand and no other, but for
\* what the recovery list finds and what the owner drops.
LEMMA OneRowWritten ==
  ASSUME LaunchInv, (Tag \/ Launch \/ Hand) /\ cur # Idle
  PROVE  \A s \in Tags : s # cur.tag => book'[s] = book[s]
<1> USE DEF bookVars, tickVars, listVars, pollVars, postVars, chainVars
<1>t. LaunchTypeOK /\ AtPlaces /\ RecordType
  BY DEF LaunchInv, LaunchTypeOK
<1>1. ASSUME NEW state, NEW m, Record(cur.tag, state, m) PROVE \A s \in Tags : s # cur.tag => book'[s] = book[s]
  BY <1>t, <1>1 DEF Record, RecordType
<1>2. CASE Tag
  BY <1>1, <1>2 DEF Tag, TakeTag, Refuse, Answer, Done, Poll, PollDone
<1>3. CASE Launch
  <2>1. ~ \E t \in Tags : RetrySplit(t)
    BY <1>t DEF RetrySplit, AtPlaces
  <2> QED BY <1>1, <1>3, <2>1
        DEF Launch, List, RecordLaunching, SendCreate, CreateUnconfirmed, AddCoin, RecordPending, Forget,
            SendSplit, SplitFails, SplitConfirmed, RecordLaunched, Announce
<1>4. CASE Hand
  BY <1>1, <1>4 DEF Hand, HandCreated, HandDone, HandFails
<1> QED BY <1>2, <1>3, <1>4

\* The row of the tag at hand changes with the place: what one place wrote is what
\* the next one finds.
LEMMA WorkedRowKept ==
  ASSUME LaunchInv, Next
  PROVE  WorkedRow'
<1> USE DEF bookVars, tickVars, listVars, pollVars, postVars, chainVars
<1>t. LaunchTypeOK /\ AtPlaces /\ TickType /\ RecordType /\ WorldType /\ RowsHaveMints /\ WorkedRow
      /\ NoMint \notin Mints /\ Nobody \notin Tags
  BY LaunchAssumption DEF LaunchInv, LaunchTypeOK
<1>p. AtPlaces'
  BY PlacesKept
<1>r. ASSUME retries' = {}, at' \in {"start", "done"} PROVE WorkedRow'
  BY <1>r DEF WorkedRow
<1>1. CASE Post \/ Chain \/ Time
  <2>1. CASE Post \/ Chain
    BY <1>t, <2>1, OutsideTick DEF Post, Chain, LandCreate, LandSplit, Expire, DoorLaunch, WorkedRow
  <2>2. ASSUME NEW t \in Tags, Late(t) \/ Day(t) PROVE WorkedRow'
    <3>1. at # "start" => age'[cur.tag] = age[cur.tag]
      BY <1>t, <2>2, AtWork DEF Late, Day, WorldType
    <3> QED BY <1>t, <2>2, <3>1 DEF Late, Day, WorkedRow
  <2> QED BY <1>1, <2>1, <2>2 DEF Time
<1>2. CASE Owner
  <2>1. ASSUME NEW t \in Tags, Replay(t) PROVE WorkedRow'
    BY <1>t, <2>1 DEF Replay, AtPlaces, WorkedRow, RecordType, Seen, NoRow
  <2>2. ASSUME NEW t \in Tags, HandLaunch(t) PROVE WorkedRow'
    BY <1>t, <2>2 DEF HandLaunch, Locks, AtPlaces, WorkedRow
  <2>3. ASSUME NEW m \in Mints, HandResume(m) PROVE WorkedRow'
    BY <1>t, <2>3 DEF HandResume, Locks, AtPlaces, WorkedRow
  <2> QED BY <1>2, <2>1, <2>2, <2>3 DEF Owner
<1>3. CASE Watch
  <2>1. CASE StartTick
    BY <1>t, <1>r, <2>1 DEF StartTick, AtPlaces
  <2>2. ASSUME NEW m \in Mints, CheckStale(m) \/ CheckWaits(m) \/ CheckLost(m) PROVE WorkedRow'
    BY <1>t, <1>r, <2>2 DEF CheckStale, CheckWaits, CheckLost, Settled, Watching, AtPlaces
  <2>3. ASSUME NEW m \in Mints, CheckLanded(m) PROVE WorkedRow'
    BY <1>t, <2>3 DEF CheckLanded, Watching, Stale, AtPlaces, WorkedRow
  <2>4. CASE RecordLanded
    BY <1>t, <1>r, <2>4 DEF RecordLanded, AtPlaces
  <2>5. CASE WatchDone
    BY <1>t, <2>5 DEF WatchDone, WorkedRow
  <2> QED BY <1>3, <2>1, <2>2, <2>3, <2>4, <2>5 DEF Watch
<1>4. CASE Tag
  <2>1. ASSUME at = "decide", NEW code \in Refused, Refuse(code) PROVE WorkedRow'
    <3>1. cur.tag \in Tags
      BY <1>t, <2>1, AtWork
    <3>2. book'[cur.tag].state = StateOf(code) /\ age'[cur.tag] = "new"
      BY <1>t, <2>1, <3>1 DEF Refuse, Record, RecordType, WorldType
    <3>3. at' = "answer" => StateOf(code) \in {"account", "malformed", "answered"}
      BY <2>1, StateOfFacts DEF Refuse
    <3>4. retries' = {}
      BY <1>t, <2>1 DEF Refuse, AtPlaces
    <3>5. at' \in {"answer", "done"} /\ cur' = cur
      BY <2>1 DEF Refuse
    <3> QED BY <3>2, <3>3, <3>4, <3>5 DEF WorkedRow
  <2>2. CASE Answer
    BY <1>t, <1>r, <2>2 DEF Answer, AtPlaces
  <2>3. CASE TakeTag
    BY <1>t, <2>3 DEF TakeTag, Seen, AtPlaces, WorkedRow
  <2>4. CASE Done
    <3>1. CASE phase \in {"replay", "tags"}
      BY <1>t, <1>r, <2>4, <3>1 DEF Done, EndTick, AtPlaces
    <3>2. CASE phase \notin {"replay", "tags"}
      BY <1>t, <2>4, <3>2 DEF Done, WorkedRow
    <3> QED BY <3>1, <3>2
  <2>5. CASE Poll
    BY <1>t, <1>r, <2>5 DEF Poll, AtPlaces
  <2>6. CASE PollDone
    BY <1>t, <1>r, <2>6 DEF PollDone, EndTick, AtPlaces
  <2> QED BY <1>4, <2>1, <2>2, <2>3, <2>4, <2>5, <2>6 DEF Tag
<1>5. CASE Launch
  <2>o. cur # Idle => \A s \in Tags : s # cur.tag => book'[s] = book[s]
    BY <1>5, OneRowWritten
  <2>w. ASSUME NEW state, Record(cur.tag, state, cur.mint), cur.tag \in Tags
        PROVE  book'[cur.tag] = [state |-> state, mint |-> cur.mint]
    BY <1>t, <2>w DEF Record, RecordType
  <2>1. CASE List
    <3>1. cur.tag \in Tags /\ retries = {} /\ cur \in [tag : Tags, mint : Mints \cup {NoMint}]
      BY <1>t, <2>1, AtWork DEF List, AtPlaces, TickType
    <3>2. cur'.tag = cur.tag
      BY <2>1, <3>1 DEF List
    <3>3. age'[cur.tag] = "new"
      BY <1>t, <2>1, <3>1 DEF List, WorldType
    <3> QED BY <1>t, <2>1, <3>1, <3>2, <3>3 DEF List, WorkedRow
  <2>2. CASE RecordLaunching
    <3>1. cur.tag \in Tags /\ book'[cur.tag] = [state |-> "launching", mint |-> cur.mint]
      BY <1>t, <2>2, <2>w, AtWork DEF RecordLaunching
    <3>2. retries = {}
      BY <1>t, <2>2 DEF RecordLaunching, AtPlaces
    <3> QED BY <1>t, <2>2, <3>1, <3>2 DEF RecordLaunching, WorkedRow
  <2>3. CASE SendCreate
    BY <1>t, <2>3 DEF SendCreate, WorkedRow
  <2>4. CASE CreateUnconfirmed
    BY <1>t, <1>r, <2>4 DEF CreateUnconfirmed, AtPlaces
  <2>5. CASE AddCoin
    BY <1>t, <2>5 DEF AddCoin, WorkedRow
  <2>6. CASE RecordPending
    <3>1. cur.tag \in Tags /\ book'[cur.tag] = [state |-> "split_pending", mint |-> cur.mint]
      BY <1>t, <2>6, <2>w, AtWork DEF RecordPending
    <3>2. retries = {}
      BY <1>t, <2>6 DEF RecordPending, AtPlaces
    <3> QED BY <1>t, <2>6, <3>1, <3>2 DEF RecordPending, WorkedRow
  <2>7. CASE Forget
    BY <1>t, <2>7 DEF Forget, WorkedRow
  <2>8. ASSUME NEW t \in Tags, RetrySplit(t) PROVE WorkedRow'
    <3>1. \A s \in Tags : s # cur.tag
      BY <2>8, RetriedRow
    <3>2. \A s \in retries : book[s].state = "split_pending"
      BY <1>t, <3>1 DEF WorkedRow, TickType
    <3>3. cur' = [tag |-> t, mint |-> book[t].mint] /\ retries' = retries
      BY <2>8 DEF RetrySplit
    <3>4. \A s \in Tags : s # t => book'[s] = book[s]
      BY <1>t, <2>8 DEF RetrySplit, Record, RecordType
    <3>5. at' = "done" \/ (at' \in {"split", "announce"} /\ book' = book)
      BY <2>8 DEF RetrySplit
    <3>6. \A s \in retries' : s # cur'.tag => book'[s].state = "split_pending"
      BY <1>t, <3>2, <3>3, <3>4 DEF TickType
    <3>7. CASE at' = "done"
      BY <3>6, <3>7 DEF WorkedRow
    <3>8. CASE at' \in {"split", "announce"} /\ book' = book
      BY <2>8, <3>2, <3>3, <3>6, <3>8 DEF RetrySplit, WorkedRow
    <3> QED BY <3>5, <3>7, <3>8
  <2>9. CASE SendSplit
    BY <1>t, <2>9 DEF SendSplit, WorkedRow
  <2>10. CASE SplitFails
    BY <1>t, <2>10, <2>o, AtWork DEF SplitFails, TickType, WorkedRow
  <2>11. CASE SplitConfirmed
    BY <1>t, <2>11 DEF SplitConfirmed, WorkedRow
  <2>12. CASE RecordLaunched
    <3>1. cur.tag \in Tags /\ book'[cur.tag] = [state |-> "launched", mint |-> cur.mint]
      BY <1>t, <2>12, <2>w, AtWork DEF RecordLaunched
    <3>2. \A s \in retries' : s # cur'.tag => book'[s].state = "split_pending"
      BY <1>t, <2>12, <2>o, AtWork DEF RecordLaunched, TickType, WorkedRow
    <3> QED BY <2>12, <3>1, <3>2 DEF RecordLaunched, WorkedRow
  <2>13. CASE Announce
    BY <1>t, <2>13 DEF Announce, WorkedRow
  <2> QED BY <1>5, <2>1, <2>2, <2>3, <2>4, <2>5, <2>6, <2>7, <2>8, <2>9, <2>10, <2>11, <2>12, <2>13 DEF Launch
<1>6. CASE Hand
  <2>1. CASE HandCreated
    BY <1>t, <2>1 DEF HandCreated, AtPlaces, WorkedRow
  <2>2. CASE HandDone \/ HandFails
    BY <1>t, <1>r, <2>2 DEF HandDone, HandFails, EndTick
  <2> QED BY <1>6, <2>1, <2>2 DEF Hand
<1>7. CASE Raise
  BY <1>t, <1>r, <1>7 DEF Raise, EndTick, AtPlaces
<1>8. CASE Crash
  BY <1>t, <1>r, <1>8 DEF Crash, EndTick
<1> QED BY <1>1, <1>2, <1>3, <1>4, <1>5, <1>6, <1>7, <1>8 DEF Next, Bot

\* What is finished by hand is its tag's coin, from the confirmation on.
LEMMA HandsKept ==
  ASSUME LaunchInv, Next
  PROVE  HandsOn'
<1> USE DEF bookVars, tickVars, listVars, pollVars, postVars, chainVars
<1>t. LaunchTypeOK /\ AtPlaces /\ TickType /\ WorldType /\ HandsOn /\ Nobody \notin Tags
  BY LaunchAssumption DEF LaunchInv, LaunchTypeOK
<1>1. CASE Post \/ Chain \/ Time
  <2>1. CASE Post \/ Time
    BY <1>t, <2>1, OutsideTick DEF Post, Time, Late, Day, HandsOn
  <2>2. CASE Chain
    <3>1. \A m \in Mints : made[m] # Nobody => made'[m] = made[m]
      BY <1>t, <2>2 DEF Chain, LandCreate, LandSplit, Expire, DoorLaunch, WorldType
    <3>2. phase = "hand" => cur.tag \in Tags /\ cur.mint \in Mints
      BY <1>t, AtWork DEF AtPlaces
    <3> QED BY <1>t, <2>2, <3>1, <3>2, OutsideTick DEF HandsOn
  <2> QED BY <1>1, <2>1, <2>2
<1>2. CASE Owner
  <2>1. ASSUME NEW t \in Tags, Replay(t) PROVE HandsOn'
    BY <2>1 DEF Replay, HandsOn
  <2>2. ASSUME NEW t \in Tags, HandLaunch(t) PROVE HandsOn'
    BY <1>t, <2>2 DEF HandLaunch, Locks, TickType, HandsOn
  <2>3. ASSUME NEW m \in Mints, HandResume(m) PROVE HandsOn'
    <3>1. manual'[made[m]] # "nothing"
      BY <1>t, <2>3 DEF HandResume, TickType
    <3> QED BY <2>3, <3>1 DEF HandResume, Locks, HandsOn
  <2> QED BY <1>2, <2>1, <2>2, <2>3 DEF Owner
<1>3. CASE Watch
  BY <1>t, <1>3 DEF Watch, StartTick, CheckStale, CheckLanded, CheckLost, CheckWaits, RecordLanded, WatchDone,
              Watching, HandsOn
<1>4. CASE Tag
  <2>1. ASSUME NEW code \in Refused, at = "decide", Refuse(code) PROVE HandsOn'
    BY <1>t, <2>1 DEF Refuse, AtPlaces, HandsOn
  <2>2. CASE Answer \/ TakeTag \/ Done \/ Poll \/ PollDone
    BY <1>t, <2>2 DEF Answer, TakeTag, Done, Poll, PollDone, EndTick, AtPlaces, HandsOn
  <2> QED BY <1>4, <2>1, <2>2 DEF Tag
<1>5. CASE Launch
  <2>1. CASE List \/ RecordLaunching \/ CreateUnconfirmed \/ RecordPending \/ Forget \/ SplitFails
             \/ RecordLaunched \/ Announce \/ (\E t \in Tags : RetrySplit(t))
    BY <1>t, <2>1 DEF List, RecordLaunching, CreateUnconfirmed, RecordPending, Forget, SplitFails,
                RecordLaunched, Announce, RetrySplit, AtPlaces, HandsOn
  <2>2. CASE SendCreate \/ AddCoin \/ SendSplit \/ SplitConfirmed
    BY <1>t, <2>2 DEF SendCreate, AddCoin, SendSplit, SplitConfirmed, HandsOn
  <2> QED BY <1>5, <2>1, <2>2 DEF Launch
<1>6. CASE Hand
  BY <1>t, <1>6 DEF Hand, HandCreated, HandDone, HandFails, EndTick, HandsOn
<1>7. CASE Raise \/ Crash
  BY <1>t, <1>7 DEF Raise, Crash, EndTick, HandsOn
<1> QED BY <1>1, <1>2, <1>3, <1>4, <1>5, <1>6, <1>7 DEF Next, Bot

\* A row names a mint from the moment it says launching, and no refusal names one.
LEMMA MintsKept ==
  ASSUME LaunchInv, Next
  PROVE  RowsHaveMints'
<1> USE DEF bookVars, tickVars, listVars, pollVars, postVars, chainVars
<1>t. LaunchTypeOK /\ AtPlaces /\ TickType /\ RecordType /\ RowsHaveMints /\ WorkedRow /\ NoMint \notin Mints
  BY LaunchAssumption DEF LaunchInv, LaunchTypeOK
<1>u. UNCHANGED book => RowsHaveMints'
  BY <1>t DEF RowsHaveMints
<1>w. ASSUME NEW t \in Tags, NEW state \in WithMint, NEW m \in Mints, Record(t, state, m) PROVE RowsHaveMints'
  BY <1>t, <1>w DEF Record, RecordType, RowsHaveMints
<1>n. ASSUME NEW t \in Tags, NEW state \in States \ WithMint, Record(t, state, NoMint) PROVE RowsHaveMints'
  BY <1>t, <1>n DEF Record, RecordType, RowsHaveMints
<1>1. CASE Post \/ Chain \/ Time
  BY <1>u, <1>1, OutsideTick
<1>2. CASE Owner
  <2>1. ASSUME NEW t \in Tags, Replay(t) PROVE RowsHaveMints'
    <3>1. Record(t, "none", NoMint) \/ UNCHANGED book
      BY <2>1 DEF Replay, Record, NoRow
    <3>2. "none" \in States \ WithMint
      BY DEF States, WithMint, Counted
    <3> QED BY <1>u, <1>n, <3>1, <3>2
  <2>2. CASE (\E t \in Tags : HandLaunch(t)) \/ (\E m \in Mints : HandResume(m))
    BY <1>u, <2>2 DEF HandLaunch, HandResume, Locks
  <2> QED BY <1>2, <2>1, <2>2 DEF Owner
<1>3. CASE Watch
  <2>1. CASE StartTick
    <3>1. PICK known \in SUBSET Unlisted :
            book' = [t \in Tags |-> IF t \in known THEN [book[t] EXCEPT !.state = "split_pending"] ELSE book[t]]
      BY <2>1 DEF StartTick
    <3>2. \A t \in Tags : book[t] \in Row /\ (t \in known => book[t].state = "launching")
      BY <1>t, <3>1 DEF RecordType, Unlisted
    <3>3. \A t \in Tags : /\ book'[t].mint = book[t].mint
                          /\ book'[t].state = IF t \in known THEN "split_pending" ELSE book[t].state
      BY <3>1, <3>2 DEF Row
    <3> QED BY <1>t, <3>2, <3>3 DEF RowsHaveMints, WithMint, Counted
  <2>2. ASSUME NEW m \in Mints, CheckStale(m) \/ CheckWaits(m) \/ CheckLanded(m) PROVE RowsHaveMints'
    BY <1>u, <2>2 DEF CheckStale, CheckWaits, CheckLanded
  <2>3. ASSUME NEW m \in Mints, CheckLost(m) PROVE RowsHaveMints'
    <3>1. unconfirmed[m] \in Tags
      BY <1>t, <2>3 DEF CheckLost, Watching, AtPlaces
    <3> QED BY <1>w, <2>3, <3>1 DEF CheckLost, WithMint
  <2>4. CASE RecordLanded
    BY <1>t, <1>w, <2>4, AtWork DEF RecordLanded, WithMint, Counted
  <2>5. CASE WatchDone
    BY <1>u, <2>5 DEF WatchDone
  <2> QED BY <1>3, <2>1, <2>2, <2>3, <2>4, <2>5 DEF Watch
<1>4. CASE Tag
  <2>1. ASSUME NEW code \in Refused, at = "decide", Refuse(code) PROVE RowsHaveMints'
    <3>1. StateOf(code) \in States \ WithMint
      BY StateOfFacts DEF States, WithMint, Counted
    <3> QED BY <1>t, <1>n, <2>1, <3>1, AtWork DEF Refuse
  <2>2. CASE Answer \/ TakeTag \/ Done \/ Poll \/ PollDone
    BY <1>u, <2>2 DEF Answer, TakeTag, Done, Poll, PollDone
  <2> QED BY <1>4, <2>1, <2>2 DEF Tag
<1>5. CASE Launch
  <2>1. CASE List \/ SendCreate \/ AddCoin \/ Forget \/ SendSplit \/ SplitConfirmed \/ Announce
    BY <1>u, <2>1 DEF List, SendCreate, AddCoin, Forget, SendSplit, SplitConfirmed, Announce
  <2>2. CASE RecordLaunching
    BY <1>t, <1>w, <2>2, AtWork DEF RecordLaunching, WithMint, Counted
  <2>3. CASE CreateUnconfirmed
    BY <1>t, <1>w, <2>3, AtWork DEF CreateUnconfirmed, WithMint, Counted
  <2>4. CASE RecordPending
    BY <1>t, <1>w, <2>4, AtWork DEF RecordPending, WithMint, Counted
  <2>5. CASE SplitFails
    BY <1>t, <1>w, <2>5, AtWork DEF SplitFails, WithMint, Counted
  <2>6. CASE RecordLaunched
    BY <1>t, <1>w, <2>6, AtWork DEF RecordLaunched, WithMint, Counted
  <2>7. ASSUME NEW t \in Tags, RetrySplit(t) PROVE RowsHaveMints'
    <3>1. book[t].mint \in Mints
      BY <2>7, RetriedRow
    <3>2. Record(t, "split_mismatch", book[t].mint) \/ UNCHANGED book
      BY <2>7 DEF RetrySplit
    <3> QED BY <1>u, <1>w, <3>1, <3>2 DEF WithMint, Counted
  <2> QED BY <1>5, <2>1, <2>2, <2>3, <2>4, <2>5, <2>6, <2>7 DEF Launch
<1>6. CASE Hand
  <2>1. CASE HandCreated
    BY <1>t, <1>u, <1>w, <2>1, AtWork DEF HandCreated, WithMint, Counted
  <2>2. CASE HandDone
    BY <1>t, <1>w, <2>2, AtWork DEF HandDone, WithMint, Counted
  <2>3. CASE HandFails
    BY <1>u, <2>3 DEF HandFails
  <2> QED BY <1>6, <2>1, <2>2, <2>3 DEF Hand
<1>7. CASE Raise \/ Crash
  BY <1>u, <1>7 DEF Raise, Crash
<1> QED BY <1>1, <1>2, <1>3, <1>4, <1>5, <1>6, <1>7 DEF Next, Bot

\* A coin is there, or may yet be, only for what was there before or is sent now.
LEMMA OnlySendingAddsCoins ==
  ASSUME LaunchTypeOK, Next, NEW t \in Tags, NEW m \in Mints
  PROVE  /\ Tx("create", m, t) \in flight' =>
                Tx("create", m, t) \in flight \/ (SendCreate /\ t = cur.tag /\ m = cur.mint)
         /\ MayExist(t, m)' => MayExist(t, m) \/ (SendCreate /\ t = cur.tag /\ m = cur.mint)
<1> USE DEF bookVars, tickVars, listVars, pollVars, postVars, chainVars
<1>t. WorldType /\ Nobody \notin Tags /\ Door \notin Tags
  BY LaunchAssumption DEF LaunchTypeOK
<1>1. CASE Post \/ Time
  BY <1>1 DEF Post, Time, Late, Day, MayExist
<1>2. CASE Chain
  <2>1. ASSUME NEW x \in flight, LandCreate(x) PROVE MayExist(t, m)' => MayExist(t, m)
    <3>1. SUFFICES ASSUME made'[m] = t, made[m] # t PROVE Tx("create", m, t) \in flight
      BY <2>1, <3>1 DEF LandCreate, MayExist
    <3>2. x.mint = m /\ x.tag = t /\ x.what = "create"
      BY <1>t, <2>1, <3>1 DEF LandCreate, WorldType
    <3>3. x = Tx("create", m, t)
      BY <1>t, <3>2 DEF WorldType, Tx
    <3> QED BY <3>3
  <2>2. ASSUME NEW x \in flight, LandSplit(x) \/ Expire(x) PROVE MayExist(t, m)' => MayExist(t, m)
    BY <2>2 DEF LandSplit, Expire, MayExist
  <2>3. ASSUME NEW n \in Mints, DoorLaunch(n) PROVE MayExist(t, m)' => MayExist(t, m)
    BY <1>t, <2>3 DEF DoorLaunch, MayExist, WorldType
  <2>4. flight' \subseteq flight
    BY <1>2 DEF Chain, LandCreate, LandSplit, Expire, DoorLaunch
  <2> QED BY <1>2, <2>1, <2>2, <2>3, <2>4 DEF Chain
<1>3. CASE (Owner \/ Watch \/ Tag \/ Hand \/ Raise \/ Crash) /\ ~Launch
  BY <1>3, BotInWorld DEF MayExist
<1>4. CASE Launch
  <2>1. UNCHANGED made
    BY <1>4, BotInWorld
  <2>2. Tx("create", m, t) \in flight' =>
          Tx("create", m, t) \in flight \/ (SendCreate /\ t = cur.tag /\ m = cur.mint)
    <3>1. CASE SendCreate
      BY <3>1 DEF SendCreate, Tx
    <3>2. CASE SendSplit
      BY <3>2 DEF SendSplit, Tx
    <3>3. CASE ~SendCreate /\ ~SendSplit
      BY <1>4, <3>3 DEF Launch, List, RecordLaunching, CreateUnconfirmed, AddCoin, RecordPending,
              Forget, RetrySplit, SplitFails, SplitConfirmed, RecordLaunched, Announce
    <3> QED BY <3>1, <3>2, <3>3
  <2> QED BY <2>1, <2>2 DEF MayExist
<1> QED BY <1>1, <1>2, <1>3, <1>4 DEF Next, Bot

\* Nothing done by hand makes a tag the bot's again.
LEMMA BotsShrink ==
  ASSUME LaunchTypeOK, Next
  PROVE  Bots' \subseteq Bots
<1> USE DEF bookVars, tickVars, listVars, pollVars, postVars, chainVars
<1>1. CASE Owner
  BY <1>1, ZenonT(60) DEF Owner, Replay, HandLaunch, HandResume, Locks, Bots, LaunchTypeOK, TickType
<1>2. CASE Post \/ Chain \/ Time
  BY <1>2, OutsideTick DEF Bots
<1>3. CASE Watch
  BY <1>3 DEF Watch, StartTick, CheckStale, CheckLanded, CheckLost, CheckWaits, RecordLanded, WatchDone, Bots
<1>4. CASE Tag
  BY <1>4 DEF Tag, TakeTag, Refuse, Answer, Done, Poll, PollDone, Bots
<1>5. CASE Launch
  BY <1>5 DEF Launch, List, RecordLaunching, SendCreate, CreateUnconfirmed, AddCoin, RecordPending,
              Forget, RetrySplit, SendSplit, SplitFails, SplitConfirmed, RecordLaunched, Announce, Bots
<1>6. CASE Hand \/ Raise \/ Crash
  BY <1>6 DEF Hand, HandCreated, HandDone, HandFails, Raise, Crash, Bots
<1> QED BY <1>1, <1>2, <1>3, <1>4, <1>5, <1>6 DEF Next, Bot

\* A tag with a coin keeps the row that names it.
LEMMA CoinKeepsRow ==
  ASSUME LaunchInv, Next, NEW t \in Bots, NEW m \in Mints, MayExist(t, m)
  PROVE  book'[t].mint = m /\ book'[t].state \in Counted
<1> USE DEF bookVars, tickVars, listVars, pollVars, postVars, chainVars
<1>t. /\ LaunchTypeOK /\ AtPlaces /\ TickType /\ RecordType /\ WorldType /\ WorkedRow /\ HandsOn
      /\ t \in Tags /\ Nobody \notin Tags
  BY LaunchAssumption DEF LaunchInv, LaunchTypeOK, Bots
<1>r. book[t].mint = m /\ book[t].state \in Counted /\ book[t] \in Row
  BY <1>t DEF LaunchInv, RowNamesCoin, RecordType
<1>u. UNCHANGED book => book'[t].mint = m /\ book'[t].state \in Counted
  BY <1>r
<1>1. CASE Post \/ Chain \/ Time
  BY <1>u, <1>1, OutsideTick
<1>2. CASE Owner
  BY <1>t, <1>r, <1>2 DEF Owner, Replay, HandLaunch, HandResume, Locks, Waivable, RecordType, Counted
<1>3. CASE Watch
  <2>1. CASE StartTick
    BY <1>t, <1>r, <2>1 DEF StartTick, RecordType, Row, Counted
  <2>2. ASSUME NEW n \in Mints, CheckStale(n) \/ CheckWaits(n) \/ CheckLanded(n) PROVE UNCHANGED book
    BY <2>2 DEF CheckStale, CheckWaits, CheckLanded
  <2>3. ASSUME NEW n \in Mints, CheckLost(n) PROVE UNCHANGED book[t]
    <3>1. unconfirmed[n] # t
      <4> SUFFICES ASSUME unconfirmed[n] = t PROVE FALSE
        OBVIOUS
      <4>1. n = m /\ made[m] = Nobody /\ age[t] # "new"
        BY <1>r, <2>3 DEF CheckLost, Stale, Lost
      <4>2. Tx("create", m, t) \notin flight
        BY <4>1 DEF LaunchInv, RowNamesCoin
      <4> QED BY <1>t, <4>1, <4>2 DEF MayExist
    <3> QED BY <1>t, <2>3, <3>1 DEF CheckLost, Record, RecordType
  <2>4. CASE RecordLanded
    BY <1>t, <1>r, <2>4, AtWork DEF RecordLanded, Record, RecordType, WorkedRow, Counted
  <2>5. CASE WatchDone
    BY <1>u, <2>5 DEF WatchDone
  <2> QED BY <1>r, <1>3, <2>1, <2>2, <2>3, <2>4, <2>5 DEF Watch
<1>4. CASE Tag
  <2>1. ASSUME NEW code \in Refused, at = "decide", Refuse(code) PROVE UNCHANGED book[t]
    <3>1. cur.tag # t
      BY <1>t, <1>r, <2>1 DEF WorkedRow, Counted
    <3> QED BY <1>t, <2>1, <3>1 DEF Refuse, Record, RecordType
  <2>2. CASE Answer \/ TakeTag \/ Done \/ Poll \/ PollDone
    BY <1>u, <2>2 DEF Answer, TakeTag, Done, Poll, PollDone
  <2> QED BY <1>r, <1>4, <2>1, <2>2 DEF Tag
<1>5. CASE Launch
  <2>1. CASE List \/ SendCreate \/ AddCoin \/ Forget \/ SendSplit \/ SplitConfirmed \/ Announce
    BY <1>u, <2>1 DEF List, SendCreate, AddCoin, Forget, SendSplit, SplitConfirmed, Announce
  <2>2. ASSUME NEW s \in Tags, RetrySplit(s) PROVE book'[t].mint = m /\ book'[t].state \in Counted
    <3>1. Record(s, "split_mismatch", book[s].mint) \/ UNCHANGED book
      BY <2>2 DEF RetrySplit
    <3> QED BY <1>t, <1>r, <3>1 DEF Record, RecordType, Counted
  <2>3. CASE RecordLaunching \/ CreateUnconfirmed \/ RecordPending \/ SplitFails \/ RecordLaunched
    <3>1. CASE cur.tag # t
      BY <1>t, <1>r, <2>3, <3>1 DEF RecordLaunching, CreateUnconfirmed, RecordPending, SplitFails, RecordLaunched,
                                    Record, RecordType
    <3>2. CASE cur.tag = t
      <4>1. ~RecordLaunching
        BY <1>t, <1>r, <3>2 DEF RecordLaunching, WorkedRow, Counted
      <4>2. cur.mint = m
        BY <1>t, <1>r, <2>3, <3>2, <4>1 DEF CreateUnconfirmed, RecordPending, SplitFails, RecordLaunched, WorkedRow
      <4> QED BY <1>t, <2>3, <3>2, <4>1, <4>2 DEF CreateUnconfirmed, RecordPending, SplitFails, RecordLaunched,
                                                  Record, RecordType, Counted
    <3> QED BY <3>1, <3>2
  <2> QED BY <1>5, <2>1, <2>2, <2>3 DEF Launch
<1>6. CASE Hand
  <2>1. CASE HandCreated \/ HandDone
    <3>1. CASE cur.tag # t
      BY <1>t, <1>r, <2>1, <3>1 DEF HandCreated, HandDone, Record, RecordType
    <3>2. CASE cur.tag = t
      <4>1. made[cur.mint] = t /\ cur.mint \in Mints
        BY <1>t, <2>1, <3>2, AtWork DEF HandCreated, HandDone, HandsOn
      <4>2. book[t].mint = cur.mint
        BY <4>1 DEF LaunchInv, RowNamesCoin, MayExist
      <4> QED BY <1>t, <1>r, <2>1, <3>2, <4>2 DEF HandCreated, HandDone, Record, RecordType, Counted
    <3> QED BY <3>1, <3>2
  <2>2. CASE HandFails
    BY <1>u, <2>2 DEF HandFails
  <2> QED BY <1>6, <2>1, <2>2 DEF Hand
<1>7. CASE Raise \/ Crash
  BY <1>u, <1>7 DEF Raise, Crash
<1> QED BY <1>1, <1>2, <1>3, <1>4, <1>5, <1>6, <1>7 DEF Next, Bot

\* A row that is not new is not new again before it is written again.
LEMMA OldRows ==
  ASSUME LaunchTypeOK, AtPlaces, Next, NEW t \in Tags, age'[t] # "new"
  PROVE  age[t] # "new" \/ Late(t)
<1> USE DEF bookVars, tickVars, listVars, pollVars, postVars, chainVars
<1>t. WorldType
  BY DEF LaunchTypeOK
<1>1. CASE Post \/ Chain
  BY <1>1 DEF Post, Chain, LandCreate, LandSplit, Expire, DoorLaunch
<1>2. CASE Time
  BY <1>t, <1>2 DEF Time, Late, Day, WorldType
<1>3. CASE Owner \/ Watch
  BY <1>3 DEF Owner, Replay, HandLaunch, HandResume, Locks, Watch, StartTick, CheckStale, CheckLanded, CheckLost,
              CheckWaits, RecordLanded, WatchDone
<1>4. CASE Tag
  BY <1>t, <1>4 DEF Tag, TakeTag, Refuse, Answer, Done, Poll, PollDone, WorldType
<1>5. CASE Launch
  BY <1>t, <1>5 DEF Launch, List, RecordLaunching, SendCreate, CreateUnconfirmed, AddCoin, RecordPending,
              Forget, RetrySplit, SendSplit, SplitFails, SplitConfirmed, RecordLaunched, Announce, WorldType
<1>6. CASE Hand \/ Raise \/ Crash
  BY <1>t, <1>6 DEF Hand, HandCreated, HandDone, HandFails, Raise, Crash, WorldType
<1> QED BY <1>1, <1>2, <1>3, <1>4, <1>5, <1>6 DEF Next, Bot

\* What is sent for one of the bot's tags is what its new row says is launching.
LEMMA SentIsRecorded ==
  ASSUME LaunchInv, SendCreate, cur.tag \in Bots
  PROVE  /\ phase # "hand" /\ cur.mint \in Mints /\ age[cur.tag] = "new"
         /\ book[cur.tag] = [state |-> "launching", mint |-> cur.mint]
<1>1. /\ LaunchTypeOK /\ AtPlaces /\ HandsOn /\ WorkedRow /\ at = "send"
      /\ cur.tag \in Tags /\ book[cur.tag] \in Row
  BY DEF LaunchInv, SendCreate, Bots, LaunchTypeOK, RecordType
<1>2. phase # "hand"
  BY <1>1 DEF HandsOn, Bots
<1>3. book[cur.tag].state = "launching" /\ book[cur.tag].mint = cur.mint /\ age[cur.tag] = "new"
  BY <1>1, <1>2 DEF WorkedRow
<1> QED BY <1>1, <1>2, <1>3, AtWork DEF Row

\* Every coin a tag has, or may still get, stays the one its row names, and no step
\* makes a row late whose create may still land (_launch, CREATE_LANDING_SECONDS).
LEMMA NamesKept ==
  ASSUME LaunchInv, Next
  PROVE  RowNamesCoin'
<1> SUFFICES ASSUME NEW t \in Bots'
             PROVE  /\ \A m \in Mints : MayExist(t, m)' => book'[t].mint = m /\ book'[t].state \in Counted
                    /\ age'[t] # "new" => \A m \in Mints : Tx("create", m, t) \notin flight'
  BY DEF RowNamesCoin
<1>t. LaunchTypeOK /\ AtPlaces /\ t \in Bots /\ t \in Tags
  BY BotsShrink DEF LaunchInv, Bots
<1>1. ASSUME NEW m \in Mints, MayExist(t, m)' PROVE book'[t].mint = m /\ book'[t].state \in Counted
  <2>1. CASE MayExist(t, m)
    BY <1>t, <2>1, CoinKeepsRow
  <2>2. CASE SendCreate /\ t = cur.tag /\ m = cur.mint
    <3>1. book[t] = [state |-> "launching", mint |-> m] /\ book' = book
      BY <1>t, <2>2, SentIsRecorded DEF SendCreate, bookVars
    <3> QED BY <3>1 DEF Counted
  <2> QED BY <1>t, <1>1, <2>1, <2>2, OnlySendingAddsCoins
<1>2. ASSUME age'[t] # "new", NEW m \in Mints, Tx("create", m, t) \in flight' PROVE FALSE
  <2>1. age[t] # "new" \/ Late(t)
    BY <1>t, <1>2, OldRows
  <2>2. Tx("create", m, t) \notin flight
    BY <1>t, <2>1 DEF LaunchInv, RowNamesCoin, Late, Tx
  <2>3. SendCreate /\ t = cur.tag
    BY <1>t, <1>2, <2>2, OnlySendingAddsCoins
  <2>4. age[t] = "new" /\ age' = age
    BY <1>t, <2>3, SentIsRecorded DEF SendCreate
  <2> QED BY <1>2, <2>4
<1> QED BY <1>1, <1>2

--------------------------------------------------------------------------------
(* A tag becomes at most one coin, and none behind a refusal. *)

\* Every step keeps the inductive invariant of the launches.
LEMMA LaunchInvKept ==
  ASSUME LaunchInv, [Next]_vars
  PROVE  LaunchInv'
<1>1. CASE Next
  <2>1. LaunchTypeOK'
    BY <1>1, RecordsTyped, WorldTyped, TickTyped DEF LaunchInv, LaunchTypeOK
  <2> QED BY <1>1, <2>1, PlacesKept, WorkedRowKept, HandsKept, MintsKept, NamesKept DEF LaunchInv
<1>2. CASE UNCHANGED vars
  <2> USE <1>2 DEF vars, bookVars, postVars, chainVars, tickVars, listVars, pollVars
  <2>1. LaunchTypeOK'
    BY DEF LaunchInv, LaunchTypeOK, RecordType, WorldType, TickType
  <2>2. AtPlaces' /\ WorkedRow' /\ HandsOn'
    BY DEF LaunchInv, AtPlaces, WorkedRow, HandsOn
  <2>3. RowsHaveMints' /\ RowNamesCoin'
    BY DEF LaunchInv, RowsHaveMints, RowNamesCoin, Bots, MayExist
  <2> QED BY <2>1, <2>2, <2>3 DEF LaunchInv
<1> QED BY <1>1, <1>2

\* It holds at the start, where the record is empty.
LEMMA LaunchInvFirst == Init => LaunchInv
<1> SUFFICES ASSUME Init PROVE LaunchInv
  OBVIOUS
<1>1. NoMint \notin Mints /\ Nobody \notin Tags
  BY LaunchAssumption
<1>2. LaunchTypeOK
  BY InitTyped
<1>3. AtPlaces /\ WorkedRow /\ HandsOn
  BY <1>1 DEF Init, AtPlaces, WorkedRow, HandsOn
<1>4. RowsHaveMints /\ RowNamesCoin
  BY <1>1 DEF Init, NoRow, RowsHaveMints, WithMint, Counted, RowNamesCoin, MayExist, Bots
<1> QED BY <1>2, <1>3, <1>4 DEF LaunchInv

\* The inductive invariant of the launches holds in every state.
THEOREM LaunchInvHolds == Spec => []LaunchInv
  BY LaunchInvFirst, LaunchInvKept, PTL DEF Spec

\* Every variable of the launches keeps its type.
THEOREM LaunchTyped == Spec => []LaunchTypeOK
<1>1. LaunchInv => LaunchTypeOK
  BY DEF LaunchInv
<1> QED BY <1>1, LaunchInvHolds, PTL

\* A tag becomes at most one coin: whatever crashes, is retried, replayed or
\* finished by hand, the row written ahead of the create names the only mint it
\* can be on.
THEOREM OneCoinATag == Spec => []LaunchedAtMostOnce
<1>1. LaunchInv => LaunchedAtMostOnce
  <2> SUFFICES ASSUME LaunchInv, NEW t \in Bots
               PROVE  Cardinality({m \in Mints : MayExist(t, m)}) <= 1
    BY DEF LaunchedAtMostOnce
  <2> DEFINE its == {m \in Mints : MayExist(t, m)}
  <2>1. its \subseteq {book[t].mint}
    BY DEF LaunchInv, RowNamesCoin
  <2>2. IsFiniteSet({book[t].mint}) /\ Cardinality({book[t].mint}) = 1
    BY FS_Singleton
  <2>3. Cardinality(its) <= Cardinality({book[t].mint})
    BY <2>1, <2>2, FS_Subset
  <2> QED BY <2>2, <2>3
<1> QED BY <1>1, LaunchInvHolds, PTL

\* A tag the record calls refused, lost or unknown has no coin and gets none.
THEOREM RefusedHasNoCoin == Spec => []NoCoinBehindRefusal
<1>1. LaunchInv => NoCoinBehindRefusal
  BY DEF LaunchInv, RowNamesCoin, NoCoinBehindRefusal, Counted
<1> QED BY <1>1, LaunchInvHolds, PTL

--------------------------------------------------------------------------------
(* The limits count a coin from the moment it may come to be. *)

\* The limits say something the rules know; `none' when the account's day and the
\* day of all have room (limit_refusal).
LEMMA LimitFacts ==
  ASSUME NEW u
  PROVE  /\ Limit(u) \in Limits
         /\ Limit(u) = "none" => ~(LaunchesOf(u) >= PerDay) /\ ~(LaunchedToday >= DailyCeiling)
<1> DEFINE rules == <<
             <<u \in Banned, "banned">>,
             <<RefusalsOf(u) >= Timeout, "timeout">>,
             <<LaunchesOf(u) >= PerDay, "daily_limit">>,
             <<LaunchesEver(u) >= PerThirtyDays, "monthly_limit">>,
             <<LaunchedToday >= DailyCeiling, "ceiling">> >>
<1>1. /\ DOMAIN rules = 1..5
      /\ rules[1][2] = "banned" /\ rules[2][2] = "timeout" /\ rules[3][2] = "daily_limit"
      /\ rules[4][2] = "monthly_limit" /\ rules[5][2] = "ceiling"
      /\ rules[3][1] = (LaunchesOf(u) >= PerDay) /\ rules[5][1] = (LaunchedToday >= DailyCeiling)
  OBVIOUS
<1>2. Limit(u) = First(rules)
  BY DEF Limit
<1> HIDE DEF rules
<1>3. \A k \in 1..5 : rules[k][2] \in Limits \ {"none"}
  <2>1. \A k \in 1..5 : k \in {1, 2, 3, 4, 5}
    OBVIOUS
  <2> QED BY <1>1, <2>1 DEF Limits
<1>4. First(rules) \in Limits
  BY <1>1, <1>3, FirstFacts DEF Limits
<1>5. ASSUME First(rules) = "none" PROVE ~rules[3][1] /\ ~rules[5][1]
  BY <1>1, <1>3, <1>5, NoneMet
<1> QED BY <1>1, <1>2, <1>4, <1>5

\* A tag that met every rule asks for a ticker nobody has, and its account and the
\* day have room for it.
LEMMA NoneMeansRoom ==
  ASSUME "none" \in Codes
  PROVE  /\ ~(LaunchesOf(UserOf[cur.tag]) >= PerDay) /\ ~(LaunchedToday >= DailyCeiling)
         /\ TickerOf[cur.tag] \notin Taken
<1> DEFINE limit == Limit(UserOf[cur.tag])
           taken == TickerOf[cur.tag] \in Taken
           replayed == phase = "replay"
           bypass == phase = "replay" /\ Bypass
<1>1. limit \in Limits
  BY LimitFacts
<1>2. taken \in BOOLEAN /\ replayed \in BOOLEAN /\ bypass \in BOOLEAN
  OBVIOUS
<1>3. "none" \in Refusals[limit][taken][replayed][bypass]
  BY DEF Codes
<1>4. limit = "none" => ~(LaunchesOf(UserOf[cur.tag]) >= PerDay) /\ ~(LaunchedToday >= DailyCeiling)
  BY LimitFacts
<1> HIDE DEF limit
<1>5. ~taken => TickerOf[cur.tag] \notin Taken
  OBVIOUS
<1> HIDE DEF taken, replayed, bypass
<1>6. Refusals[limit][taken][replayed][bypass] = {Refusal(f, limit, taken, replayed, bypass) : f \in Facts}
  BY <1>1, <1>2 DEF Refusals
<1>7. PICK f \in Facts : Refusal(f, limit, taken, replayed, bypass) = "none"
  BY <1>3, <1>6
<1>8. limit = "none" /\ ~taken
  BY <1>2, <1>7, MetAll
<1> QED BY <1>4, <1>5, <1>8

\* A tag is about to be launched only if it was before, or List takes it up.
LEMMA OnlyListTakesUp ==
  ASSUME LaunchTypeOK, AtPlaces, Next, ~List, at' \in {"listed", "send"}, phase' # "hand"
  PROVE  at \in {"listed", "send"} /\ phase # "hand" /\ cur' = cur
<1> USE DEF bookVars, tickVars, listVars, pollVars, postVars, chainVars
<1>1. CASE Post \/ Chain \/ Time
  BY <1>1, OutsideTick
<1>2. CASE Owner
  BY <1>2 DEF Owner, Replay, HandLaunch, HandResume, Locks
<1>3. CASE Watch
  BY <1>3 DEF Watch, StartTick, CheckStale, CheckLanded, CheckLost, CheckWaits, RecordLanded, WatchDone,
              Watching, AtPlaces
<1>4. CASE Tag
  BY <1>4 DEF Tag, TakeTag, Refuse, Answer, Done, Poll, PollDone, EndTick
<1>5. CASE Launch
  BY <1>5 DEF Launch, RecordLaunching, SendCreate, CreateUnconfirmed, AddCoin, RecordPending, AtPlaces,
              Forget, RetrySplit, SendSplit, SplitFails, SplitConfirmed, RecordLaunched, Announce
<1>6. CASE Hand \/ Raise \/ Crash
  BY <1>6 DEF Hand, HandCreated, HandDone, HandFails, Raise, Crash, EndTick
<1> QED BY <1>1, <1>2, <1>3, <1>4, <1>5, <1>6 DEF Next, Bot

\* A row is dated anew only for a tag without a coin, or by hand.
LEMMA RenewedRows ==
  ASSUME LaunchTypeOK, AtPlaces, Next, ~List, NEW t \in Tags, age[t] = "day", age'[t] # "day"
  PROVE  t = cur.tag /\ (at = "decide" \/ phase = "hand")
<1> USE DEF bookVars, tickVars, listVars, pollVars, postVars, chainVars
<1>t. WorldType
  BY DEF LaunchTypeOK
<1>1. CASE Post \/ Chain
  BY <1>1 DEF Post, Chain, LandCreate, LandSplit, Expire, DoorLaunch
<1>2. CASE Time
  BY <1>t, <1>2 DEF Time, Late, Day, WorldType
<1>3. CASE Owner \/ Watch
  BY <1>3 DEF Owner, Replay, HandLaunch, HandResume, Locks, Watch, StartTick, CheckStale, CheckLanded, CheckLost,
              CheckWaits, RecordLanded, WatchDone
<1>4. CASE Tag
  BY <1>t, <1>4 DEF Tag, TakeTag, Refuse, Answer, Done, Poll, PollDone, WorldType
<1>5. CASE Launch
  BY <1>5 DEF Launch, RecordLaunching, SendCreate, CreateUnconfirmed, AddCoin, RecordPending,
              Forget, RetrySplit, SendSplit, SplitFails, SplitConfirmed, RecordLaunched, Announce
<1>6. CASE Hand \/ Raise \/ Crash
  BY <1>t, <1>6 DEF Hand, HandCreated, HandDone, HandFails, Raise, Crash, WorldType
<1> QED BY <1>1, <1>2, <1>3, <1>4, <1>5, <1>6 DEF Next, Bot

\* What the owner did by hand is not undone.
LEMMA HandsStay ==
  ASSUME LaunchTypeOK, Next, NEW t \in Tags, manual'[t] = "nothing"
  PROVE  manual[t] = "nothing"
<1> USE DEF bookVars, tickVars, listVars, pollVars, postVars, chainVars
<1>1. CASE Owner
  BY <1>1 DEF Owner, Replay, HandLaunch, HandResume, Locks, LaunchTypeOK, TickType
<1>2. CASE Post \/ Chain \/ Time
  BY <1>2, OutsideTick
<1>3. CASE Watch
  BY <1>3 DEF Watch, StartTick, CheckStale, CheckLanded, CheckLost, CheckWaits, RecordLanded, WatchDone
<1>4. CASE Tag
  BY <1>4 DEF Tag, TakeTag, Refuse, Answer, Done, Poll, PollDone
<1>5. CASE Launch
  BY <1>5 DEF Launch, List, RecordLaunching, SendCreate, CreateUnconfirmed, AddCoin, RecordPending,
              Forget, RetrySplit, SendSplit, SplitFails, SplitConfirmed, RecordLaunched, Announce
<1>6. CASE Hand \/ Raise \/ Crash
  BY <1>6 DEF Hand, HandCreated, HandDone, HandFails, Raise, Crash
<1> QED BY <1>1, <1>2, <1>3, <1>4, <1>5, <1>6 DEF Next, Bot

\* But for List, no step gives a tag a claim.
LEMMA ClaimsShrink ==
  ASSUME LaunchInv, Next, ~List
  PROVE  /\ \A t \in Bots' : Claims(t)' => Claims(t)
         /\ Claimed' \subseteq Claimed
<1>t. LaunchTypeOK /\ AtPlaces
  BY DEF LaunchInv
<1>1. ASSUME NEW t \in Bots', Claims(t)' PROVE Claims(t)
  <2>t. t \in Bots /\ t \in Tags
    BY <1>t, BotsShrink DEF Bots
  <2>1. CASE \E m \in Mints : MayExist(t, m)'
    <3>1. PICK m \in Mints : MayExist(t, m) \/ (SendCreate /\ t = cur.tag /\ m = cur.mint)
      BY <1>t, <2>t, <2>1, OnlySendingAddsCoins
    <3>2. CASE MayExist(t, m)
      BY <3>2 DEF Claims
    <3>3. CASE SendCreate /\ t = cur.tag
      BY <2>t, <3>3, SentIsRecorded DEF SendCreate, Claims
    <3> QED BY <3>1, <3>2, <3>3
  <2>2. CASE at' \in {"listed", "send"} /\ phase' # "hand" /\ cur'.tag = t
    BY <1>t, <2>2, OnlyListTakesUp DEF Claims
  <2> QED BY <1>1, <2>1, <2>2 DEF Claims
<1>2. ASSUME NEW t \in Claimed' PROVE t \in Claimed
  <2>1. t \in Tags /\ manual'[t] = "nothing" /\ age'[t] # "day" /\ Claims(t)'
    BY <1>2 DEF Claimed
  <2>2. manual[t] = "nothing"
    BY <1>t, <2>1, HandsStay
  <2>3. Claims(t)
    <3>1. t \in Bots'
      BY <2>1 DEF Bots
    <3> QED BY <1>1, <2>1, <3>1
  <2>4. age[t] # "day"
    <3> SUFFICES ASSUME age[t] = "day" PROVE FALSE
      OBVIOUS
    <3>1. t = cur.tag /\ (at = "decide" \/ phase = "hand")
      BY <1>t, <2>1, RenewedRows
    <3>2. CASE at = "decide"
      <4>1. book[t].state = "none" /\ t \in Bots
        BY <2>1, <2>2, <3>1, <3>2 DEF LaunchInv, WorkedRow, Bots
      <4>2. ~ \E m \in Mints : MayExist(t, m)
        BY <4>1 DEF LaunchInv, RowNamesCoin, Counted
      <4> QED BY <2>3, <3>2, <4>2 DEF Claims
    <3>3. CASE phase = "hand"
      BY <2>2, <3>1, <3>3 DEF LaunchInv, HandsOn
    <3> QED BY <3>1, <3>2, <3>3
  <2> QED BY <2>1, <2>2, <2>3, <2>4 DEF Claimed
<1> QED BY <1>1, <1>2

\* The tags are finitely many.
LEMMA TagsFinite == IsFiniteSet(Tags)
<1>1. Last \in Int /\ 1 \in Int
  BY LaunchAssumption
<1>2. IsFiniteSet(1..Last)
  BY <1>1, FS_Interval
<1> QED BY <1>2 DEF Tags

\* Fewer of the tags are within whatever limit more of them are within.
LEMMA SmallerStill ==
  ASSUME NEW T, T \subseteq Tags, NEW S, S \subseteq T, NEW limit \in Nat, Cardinality(T) <= limit
  PROVE  Cardinality(S) <= limit
<1>1. IsFiniteSet(T)
  BY TagsFinite, FS_Subset
<1>2. IsFiniteSet(S) /\ Cardinality(S) <= Cardinality(T)
  BY <1>1, FS_Subset
<1>3. Cardinality(S) \in Nat /\ Cardinality(T) \in Nat
  BY <1>1, <1>2, FS_CardinalityType
<1> QED BY <1>2, <1>3

\* Among finitely many tags, fewer than a limit, one more is still within it.
LEMMA OneMore ==
  ASSUME NEW S, NEW T \in SUBSET Tags, NEW x \in Tags, S \subseteq T \cup {x},
         NEW limit \in Nat, ~(Cardinality(T) >= limit)
  PROVE  Cardinality(S) <= limit
<1>1. IsFiniteSet(T)
  BY TagsFinite, FS_Subset
<1>2. IsFiniteSet(T \cup {x}) /\ Cardinality(T) \in Nat
  BY <1>1, FS_AddElement, FS_CardinalityType
<1>a. Cardinality(T \cup {x}) = IF x \in T THEN Cardinality(T) ELSE Cardinality(T) + 1
  BY <1>1, FS_AddElement
<1>b. Cardinality(T \cup {x}) <= Cardinality(T) + 1
  BY <1>2, <1>a
<1>3. Cardinality(S) <= Cardinality(T \cup {x})
  BY <1>2, FS_Subset
<1>4. Cardinality(T) \in Nat /\ Cardinality(T \cup {x}) \in Nat /\ Cardinality(S) \in Nat
  <2>1. IsFiniteSet(S)
    BY <1>2, FS_Subset
  <2> QED BY <1>1, <1>2, <2>1, FS_CardinalityType
<1> QED BY <1>3, <1>4, <1>b

\* A tag with a claim counts on the record, but for the one taken up now.
LEMMA ListKeepsCount ==
  ASSUME LaunchInv, CountInv, List
  PROVE  CountInv'
<1> USE DEF bookVars, tickVars, listVars, pollVars, postVars, chainVars
<1>t. /\ LaunchTypeOK /\ AtPlaces /\ WorldType /\ RecordType /\ at = "decide" /\ cur.tag \in Tags
      /\ cur \in [tag : Tags, mint : Mints \cup {NoMint}]
      /\ {PerDay, DailyCeiling} \subseteq Nat /\ UserOf \in [Tags -> Accounts]
  BY AtWork, LaunchAssumption DEF LaunchInv, LaunchTypeOK, TickType, List
<1>r. /\ ~(LaunchesOf(UserOf[cur.tag]) >= PerDay) /\ ~(LaunchedToday >= DailyCeiling)
      /\ TickerOf[cur.tag] \notin Taken
  BY NoneMeansRoom DEF List
<1>c. cur'.tag = cur.tag /\ Bots' = Bots /\ \A t \in Tags, m \in Mints : MayExist(t, m)' = MayExist(t, m)
  BY <1>t DEF List, Bots, MayExist
<1>1. \A t \in Tags : Claims(t)' => t = cur.tag \/ \E m \in Mints : MayExist(t, m)
  BY <1>c DEF Claims
<1>2. \A t \in Bots : (\E m \in Mints : MayExist(t, m)) => book[t].state \in Counted /\ Claims(t)
  BY DEF LaunchInv, RowNamesCoin, Claims
<1>3. ASSUME NEW t \in Bots', NEW s \in Bots', t # s, TickerOf[t] = TickerOf[s], Claims(t)', Claims(s)'
      PROVE  FALSE
  <2>1. t \in Tags /\ s \in Tags /\ t \in Bots /\ s \in Bots
    BY <1>c, <1>3 DEF Bots
  <2>2. CASE t = cur.tag \/ s = cur.tag
    BY <1>1, <1>2, <1>3, <1>r, <2>1, <2>2 DEF Taken
  <2>3. CASE t # cur.tag /\ s # cur.tag
    BY <1>1, <1>2, <1>3, <2>1, <2>3 DEF CountInv
  <2> QED BY <2>2, <2>3
<1>4. ASSUME NEW t \in Claimed', t # cur.tag PROVE t \in Tags /\ Recent(t)
  <2>1. t \in Tags /\ manual'[t] = "nothing" /\ age'[t] # "day" /\ Claims(t)'
    BY <1>4 DEF Claimed
  <2>2. manual[t] = "nothing" /\ age[t] # "day"
    BY <1>t, <1>4, <2>1 DEF List, WorldType
  <2>3. book[t].state \in Counted
    BY <1>1, <1>2, <1>4, <2>1, <2>2 DEF Bots
  <2> QED BY <2>1, <2>2, <2>3 DEF Recent
<1>5. Cardinality(Claimed') <= DailyCeiling
  <2> DEFINE recent == {t \in Tags : Recent(t)}
  <2>1. Claimed' \subseteq recent \cup {cur.tag}
    BY <1>4
  <2>2. ~(Cardinality(recent) >= DailyCeiling)
    BY <1>r DEF LaunchedToday
  <2>3. recent \in SUBSET Tags
    OBVIOUS
  <2> HIDE DEF recent
  <2> QED BY <1>t, <2>1, <2>2, <2>3, OneMore
<1>6. ASSUME NEW u \in Accounts PROVE Cardinality({t \in Claimed' : UserOf[t] = u}) <= PerDay
  <2>1. CASE u = UserOf[cur.tag]
    <3> DEFINE recent == {t \in Tags : UserOf[t] = u /\ Recent(t)}
               now == {t \in Claimed' : UserOf[t] = u}
    <3>1. now \subseteq recent \cup {cur.tag}
      BY <1>4
    <3>2. ~(Cardinality(recent) >= PerDay)
      BY <1>r, <2>1 DEF LaunchesOf
    <3>3. recent \in SUBSET Tags
      OBVIOUS
    <3> HIDE DEF recent, now
    <3>4. Cardinality(now) <= PerDay
      BY <1>t, <3>1, <3>2, <3>3, OneMore
    <3> QED BY <3>4 DEF now
  <2>2. CASE u # UserOf[cur.tag]
    <3> DEFINE before == {t \in Claimed : UserOf[t] = u}
               now == {t \in Claimed' : UserOf[t] = u}
    <3>1. now \subseteq before
      <4> SUFFICES ASSUME NEW t \in now PROVE t \in Claimed
        OBVIOUS
      <4>1. t \in Tags /\ t # cur.tag /\ manual'[t] = "nothing" /\ age'[t] # "day" /\ Claims(t)'
        BY <2>2 DEF Claimed
      <4>2. manual[t] = "nothing" /\ age[t] # "day"
        BY <1>t, <4>1 DEF List, WorldType
      <4>3. Claims(t)
        BY <1>1, <1>2, <4>1, <4>2 DEF Bots
      <4> QED BY <4>1, <4>2, <4>3 DEF Claimed
    <3>2. before \subseteq Tags /\ Cardinality(before) <= PerDay
      BY DEF Claimed, CountInv
    <3> HIDE DEF before, now
    <3>3. Cardinality(now) <= PerDay
      BY <1>t, <3>1, <3>2, SmallerStill
    <3> QED BY <3>3 DEF now
  <2> QED BY <2>1, <2>2
<1> QED BY <1>3, <1>5, <1>6 DEF CountInv

\* Every step keeps the claims within the limits: only List adds one, and Codes has
\* just found room for it.
LEMMA CountKept ==
  ASSUME LaunchInv, CountInv, [Next]_vars
  PROVE  CountInv'
<1>1. CASE Next /\ List
  BY <1>1, ListKeepsCount
<1>2. CASE Next /\ ~List
  <2>t. {PerDay, DailyCeiling} \subseteq Nat /\ LaunchTypeOK
    BY LaunchAssumption DEF LaunchInv
  <2>1. Claimed \subseteq Tags
    BY DEF Claimed
  <2>2. Claimed' \subseteq Claimed /\ Bots' \subseteq Bots /\ \A t \in Bots' : Claims(t)' => Claims(t)
    BY <1>2, <2>t, ClaimsShrink, BotsShrink
  <2>4. \A t, s \in Bots' : t # s /\ TickerOf[t] = TickerOf[s] => ~(Claims(t)' /\ Claims(s)')
    BY <2>2 DEF CountInv
  <2>5. Cardinality(Claimed') <= DailyCeiling
    BY <2>t, <2>1, <2>2, SmallerStill DEF CountInv
  <2>6. ASSUME NEW u \in Accounts PROVE Cardinality({t \in Claimed' : UserOf[t] = u}) <= PerDay
    <3>1. /\ {t \in Claimed' : UserOf[t] = u} \subseteq {t \in Claimed : UserOf[t] = u}
          /\ {t \in Claimed : UserOf[t] = u} \subseteq Tags
      BY <2>1, <2>2
    <3>2. Cardinality({t \in Claimed : UserOf[t] = u}) <= PerDay
      BY DEF CountInv
    <3> QED BY <2>t, <3>1, <3>2, SmallerStill
  <2> QED BY <2>4, <2>5, <2>6 DEF CountInv
<1>3. CASE UNCHANGED vars
  BY <1>3 DEF CountInv, Claims, Claimed, MayExist, Bots, vars, chainVars, tickVars
<1> QED BY <1>1, <1>2, <1>3

\* At the start there is no claim.
LEMMA CountFirst == Init => CountInv
<1> SUFFICES ASSUME Init PROVE CountInv
  OBVIOUS
<1>1. {PerDay, DailyCeiling} \subseteq Nat /\ Nobody \notin Tags
  BY LaunchAssumption
<1>2. \A t \in Tags : ~Claims(t)
  BY <1>1 DEF Init, Claims, MayExist
<1>3. Claimed = {} /\ Bots \subseteq Tags
  BY <1>2 DEF Claimed, Bots
<1>4. Cardinality({}) = 0
  BY FS_EmptySet
<1>5. ASSUME NEW u \in Accounts PROVE Cardinality({t \in Claimed : UserOf[t] = u}) <= PerDay
  <2>1. {t \in Claimed : UserOf[t] = u} = {}
    BY <1>3
  <2> QED BY <1>1, <1>4, <2>1
<1>6. Cardinality(Claimed) <= DailyCeiling
  BY <1>1, <1>3, <1>4
<1> QED BY <1>2, <1>3, <1>5, <1>6 DEF CountInv

\* What a launch holds, and what it counts for, in every state.
THEOREM ClaimsAreCounted == Spec => []CountInv
<1>1. LaunchInv /\ CountInv /\ [Next]_vars => CountInv'
  BY CountKept
<1> QED BY <1>1, CountFirst, LaunchInvHolds, PTL DEF Spec

\* A coin counts from the row written ahead of its create, however late it lands:
\* no ticker is given twice, no account passes its day's limit and the day never
\* passes the ceiling (taken_tickers, limit_refusal, launched_since).
THEOREM LateCoinsCounted == Spec => []LateCoinsCount
<1>1. ASSUME CountInv PROVE LateCoinsCount
  <2>1. OneCoinPerTicker
    BY <1>1 DEF CountInv, OneCoinPerTicker, Claims
  <2> DEFINE coined == {t \in Tags : manual[t] = "nothing" /\ age[t] # "day" /\ \E m \in Mints : MayExist(t, m)}
  <2>2. coined \subseteq Claimed /\ Claimed \subseteq Tags
    BY DEF Claimed, Claims
  <2>4. {PerDay, DailyCeiling} \subseteq Nat
    BY LaunchAssumption
  <2>5. Cardinality(coined) <= DailyCeiling
    <3> HIDE DEF coined
    <3> QED BY <1>1, <2>2, <2>4, SmallerStill DEF CountInv
  <2>6. ASSUME NEW u \in Accounts PROVE Cardinality({t \in coined : UserOf[t] = u}) <= PerDay
    <3> HIDE DEF coined
    <3>1. {t \in coined : UserOf[t] = u} \subseteq {t \in Claimed : UserOf[t] = u}
          /\ {t \in Claimed : UserOf[t] = u} \subseteq Tags
      BY <2>2
    <3>2. Cardinality({t \in Claimed : UserOf[t] = u}) <= PerDay
      BY <1>1 DEF CountInv
    <3> QED BY <2>4, <3>1, <3>2, SmallerStill
  <2>7. WithinDailyLimits
    BY <2>5, <2>6 DEF WithinDailyLimits
  <2> QED BY <2>1, <2>7 DEF LateCoinsCount
<1> QED BY <1>1, ClaimsAreCounted, PTL

--------------------------------------------------------------------------------
(* One answer a day. *)

\* A refusal that is answered stays on the record, unless the owner waives it or
\* launches the tag by hand.
LEMMA AnswerKeepsRow ==
  ASSUME LaunchInv, Next, NEW t \in Bots' \ waived', book[t].state \in {"account", "malformed", "answered"}
  PROVE  book'[t] = book[t]
<1> USE DEF bookVars, tickVars, listVars, pollVars, postVars, chainVars
<1>t. /\ LaunchTypeOK /\ AtPlaces /\ TickType /\ RecordType /\ WorkedRow /\ HandsOn
      /\ t \in Tags /\ t \in Bots /\ Nobody \notin Tags
  BY LaunchAssumption, BotsShrink DEF LaunchInv, LaunchTypeOK, Bots
<1>o. ASSUME NEW s \in Tags, s # t, NEW state, NEW m, Record(s, state, m) PROVE book'[t] = book[t]
  BY <1>t, <1>o DEF Record, RecordType
<1>1. CASE Post \/ Chain \/ Time
  BY <1>1, OutsideTick
<1>2. CASE Owner
  BY <1>t, <1>2 DEF Owner, Replay, HandLaunch, HandResume, Locks, RecordType
<1>3. CASE Watch
  <2>1. CASE StartTick
    BY <1>t, <2>1 DEF StartTick, Unlisted, RecordType
  <2>2. ASSUME NEW n \in Mints, CheckStale(n) \/ CheckWaits(n) \/ CheckLanded(n) PROVE UNCHANGED book
    BY <2>2 DEF CheckStale, CheckWaits, CheckLanded
  <2>3. ASSUME NEW n \in Mints, CheckLost(n) PROVE book'[t] = book[t]
    <3>1. unconfirmed[n] # t /\ unconfirmed[n] \in Tags
      BY <1>t, <2>3 DEF CheckLost, Stale, Watching, AtPlaces
    <3> QED BY <1>o, <2>3, <3>1 DEF CheckLost
  <2>4. CASE RecordLanded
    <3>1. cur.tag # t
      BY <1>t, <2>4 DEF RecordLanded, WorkedRow
    <3> QED BY <1>t, <1>o, <2>4, <3>1, AtWork DEF RecordLanded
  <2>5. CASE WatchDone
    BY <2>5 DEF WatchDone
  <2> QED BY <1>3, <2>1, <2>2, <2>3, <2>4, <2>5 DEF Watch
<1>4. CASE Tag
  <2>1. ASSUME NEW code \in Refused, at = "decide", Refuse(code) PROVE book'[t] = book[t]
    <3>1. cur.tag # t
      BY <1>t, <2>1 DEF WorkedRow
    <3> QED BY <1>t, <1>o, <2>1, <3>1, AtWork DEF Refuse
  <2>2. CASE Answer \/ TakeTag \/ Done \/ Poll \/ PollDone
    BY <2>2 DEF Answer, TakeTag, Done, Poll, PollDone
  <2> QED BY <1>4, <2>1, <2>2 DEF Tag
<1>5. CASE Launch
  <2>1. CASE List \/ SendCreate \/ AddCoin \/ Forget \/ SendSplit \/ SplitConfirmed \/ Announce
    BY <2>1 DEF List, SendCreate, AddCoin, Forget, SendSplit, SplitConfirmed, Announce
  <2>2. ASSUME NEW s \in Tags, RetrySplit(s) PROVE book'[t] = book[t]
    <3>1. Record(s, "split_mismatch", book[s].mint) \/ UNCHANGED book
      BY <2>2 DEF RetrySplit
    <3>2. s # t
      BY <2>2, RetriedRow
    <3> QED BY <1>o, <3>1, <3>2
  <2>3. CASE RecordLaunching \/ CreateUnconfirmed \/ RecordPending \/ SplitFails \/ RecordLaunched
    <3>1. cur.tag # t
      BY <1>t, <2>3 DEF RecordLaunching, CreateUnconfirmed, RecordPending, SplitFails, RecordLaunched, WorkedRow,
                        AtPlaces
    <3>2. cur.tag \in Tags
      BY <1>t, <2>3, AtWork DEF RecordLaunching, CreateUnconfirmed, RecordPending, SplitFails, RecordLaunched
    <3> QED BY <1>o, <2>3, <3>1, <3>2 DEF RecordLaunching, CreateUnconfirmed, RecordPending, SplitFails,
                                           RecordLaunched
  <2> QED BY <1>5, <2>1, <2>2, <2>3 DEF Launch
<1>6. CASE Hand
  <2>1. CASE HandCreated \/ HandDone
    <3>1. cur.tag # t
      <4> SUFFICES ASSUME cur.tag = t PROVE FALSE
        OBVIOUS
      <4>1. made[cur.mint] = t /\ cur.mint \in Mints
        BY <1>t, <2>1, AtWork DEF HandCreated, HandDone, HandsOn
      <4> QED BY <1>t, <4>1 DEF LaunchInv, RowNamesCoin, MayExist, Counted
    <3> QED BY <1>t, <1>o, <2>1, <3>1, AtWork DEF HandCreated, HandDone
  <2>2. CASE HandFails
    BY <2>2 DEF HandFails
  <2> QED BY <1>6, <2>1, <2>2 DEF Hand
<1>7. CASE Raise \/ Crash
  BY <1>7 DEF Raise, Crash
<1> QED BY <1>1, <1>2, <1>3, <1>4, <1>5, <1>6, <1>7 DEF Next, Bot

\* An account is told of something only by Answer.
LEMMA OnlyAnswerTells ==
  ASSUME LaunchTypeOK, AtPlaces, Next, ~Answer, NEW t \in Tags
  PROVE  /\ told'[t] \in {0, told[t]}
         /\ told'[t] > 0 => (age[t] # "day" => age'[t] # "day")
         /\ waived \subseteq waived'
<1> USE DEF bookVars, tickVars, listVars, pollVars, postVars, chainVars
<1>t. WorldType
  BY DEF LaunchTypeOK
<1>1. CASE Post \/ Chain
  BY <1>1 DEF Post, Chain, LandCreate, LandSplit, Expire, DoorLaunch
<1>2. CASE Time
  BY <1>t, <1>2 DEF Time, Late, Day, WorldType
<1>3. CASE Owner \/ Watch
  BY <1>3 DEF Owner, Replay, HandLaunch, HandResume, Locks, Watch, StartTick, CheckStale, CheckLanded, CheckLost,
              CheckWaits, RecordLanded, WatchDone
<1>4. CASE Tag
  BY <1>t, <1>4 DEF Tag, TakeTag, Refuse, Done, Poll, PollDone, WorldType
<1>5. CASE Launch
  BY <1>t, <1>5 DEF Launch, List, RecordLaunching, SendCreate, CreateUnconfirmed, AddCoin, RecordPending,
              Forget, RetrySplit, SendSplit, SplitFails, SplitConfirmed, RecordLaunched, Announce, WorldType
<1>6. CASE Hand \/ Raise \/ Crash
  BY <1>t, <1>6 DEF Hand, HandCreated, HandDone, HandFails, Raise, Crash, WorldType
<1> QED BY <1>1, <1>2, <1>3, <1>4, <1>5, <1>6 DEF Next, Bot

\* A tag is about to be answered only when it was before, or its refusal is
\* recorded now.
LEMMA OnlyRefuseAnswers ==
  ASSUME LaunchTypeOK, AtPlaces, Next, at' = "answer"
  PROVE  \/ at = "answer" /\ cur' = cur /\ ~Answer
         \/ at = "decide" /\ cur' = cur /\ ~Answer
<1> USE DEF bookVars, tickVars, listVars, pollVars, postVars, chainVars
<1>0. ~Answer
  BY DEF Answer
<1>1. CASE Post \/ Chain \/ Time
  BY <1>0, <1>1, OutsideTick
<1>2. CASE Owner
  BY <1>0, <1>2 DEF Owner, Replay, HandLaunch, HandResume, Locks
<1>3. CASE Watch
  BY <1>0, <1>3 DEF Watch, StartTick, CheckStale, CheckLanded, CheckLost, CheckWaits, RecordLanded, WatchDone,
              Watching, AtPlaces
<1>4. CASE Tag
  BY <1>0, <1>4 DEF Tag, TakeTag, Refuse, Answer, Done, Poll, PollDone, EndTick, AtPlaces
<1>5. CASE Launch
  BY <1>0, <1>5 DEF Launch, List, RecordLaunching, SendCreate, CreateUnconfirmed, AddCoin, RecordPending, AtPlaces,
              Forget, RetrySplit, SendSplit, SplitFails, SplitConfirmed, RecordLaunched, Announce
<1>6. CASE Hand \/ Raise \/ Crash
  BY <1>0, <1>6 DEF Hand, HandCreated, HandDone, HandFails, Raise, Crash, EndTick, AtPlaces
<1> QED BY <1>1, <1>2, <1>3, <1>4, <1>5, <1>6 DEF Next, Bot

\* An answer is an account's first of the day: every other of them has its row.
LEMMA AnswerKeepsTold ==
  ASSUME LaunchInv, ToldInv, Answer
  PROVE  ToldInv'
<1> USE DEF bookVars, tickVars, listVars, pollVars, postVars, chainVars
<1> DEFINE answered == {"account", "malformed", "answered"}
<1>t. /\ LaunchTypeOK /\ AtPlaces /\ WorldType /\ told \in [Tags -> Nat] /\ cur.tag \in Tags /\ at = "answer"
      /\ book[cur.tag].state \in answered /\ age[cur.tag] = "new"
  BY AtWork DEF Answer, LaunchInv, LaunchTypeOK, WorldType, WorkedRow
<1>u. /\ book' = book /\ age' = age /\ waived' = waived /\ Bots' = Bots /\ Bots \subseteq Tags /\ at' = "done"
  BY DEF Answer, Bots
<1>1. told' = told \/ (MayAnswer(cur.tag) /\ told' = [told EXCEPT ![cur.tag] = @ + 1])
  BY DEF Answer
<1>2. CASE told' = told
  BY <1>u, <1>2 DEF ToldInv, OneAnswerADay
<1>3. CASE MayAnswer(cur.tag) /\ told' = [told EXCEPT ![cur.tag] = @ + 1]
  <2>1. \A s \in Bots \ waived : s # cur.tag /\ UserOf[s] = UserOf[cur.tag] => told[s] = 0
    <3> SUFFICES ASSUME NEW s \in Bots \ waived, s # cur.tag, UserOf[s] = UserOf[cur.tag], told[s] > 0 PROVE FALSE
      BY <1>t, <1>u
    <3>1. book[s].state \in answered /\ age[s] # "day"
      BY DEF ToldInv
    <3> QED BY <1>u, <1>3, <3>1 DEF MayAnswer, AnsweredRefusal
  <2>2. cur.tag \in Bots \ waived => told[cur.tag] = 0
    BY <1>t DEF ToldInv
  <2>3. \A s \in Tags : told'[s] = IF s = cur.tag THEN told[s] + 1 ELSE told[s]
    BY <1>t, <1>3
  <2>4. \A t \in (Bots \ waived)' : told'[t] > 0 => book'[t].state \in answered /\ age'[t] # "day"
    BY <1>t, <1>u, <2>3 DEF ToldInv
  <2>5. ASSUME NEW t \in Bots \ waived, NEW s \in Bots \ waived, UserOf[t] = UserOf[s]
        PROVE  told'[t] + (IF s = t THEN 0 ELSE told'[s]) <= 1
    <3>1. t \in Tags /\ s \in Tags /\ told[t] \in Nat /\ told[s] \in Nat
      BY <1>t, <1>u
    <3>2. told[t] + (IF s = t THEN 0 ELSE told[s]) <= 1
      BY <2>5 DEF ToldInv, OneAnswerADay
    <3>3. CASE t # cur.tag /\ s # cur.tag
      BY <2>3, <3>1, <3>2, <3>3
    <3>4. CASE t = cur.tag
      BY <2>1, <2>2, <2>3, <2>5, <3>1, <3>4
    <3>5. CASE s = cur.tag
      BY <2>1, <2>2, <2>3, <2>5, <3>1, <3>5
    <3> QED BY <3>3, <3>4, <3>5
  <2>6. OneAnswerADay'
    BY <1>u, <2>5 DEF OneAnswerADay
  <2> QED BY <1>u, <2>4, <2>6 DEF ToldInv
<1> QED BY <1>1, <1>2, <1>3

\* Every step keeps what the accounts were told within one answer a day.
LEMMA ToldKept ==
  ASSUME LaunchInv, ToldInv, [Next]_vars
  PROVE  ToldInv'
<1> DEFINE answered == {"account", "malformed", "answered"}
<1>1. CASE Next /\ Answer
  BY <1>1, AnswerKeepsTold
<1>2. CASE Next /\ ~Answer
  <2>t. LaunchTypeOK /\ AtPlaces /\ WorldType /\ told \in [Tags -> Nat] /\ Bots \subseteq Tags
    BY DEF LaunchInv, LaunchTypeOK, WorldType, Bots
  <2>1. (Bots \ waived)' \subseteq Bots \ waived
    <3>1. ASSUME NEW t \in Bots' \ waived' PROVE t \in Bots \ waived
      BY <1>2, <2>t, <3>1, BotsShrink, OnlyAnswerTells
    <3> QED BY <3>1
  <2>2. \A t \in Bots : told'[t] \in {0, told[t]} /\ told[t] \in Nat
    BY <1>2, <2>t, OnlyAnswerTells
  <2>3. ASSUME NEW t \in Bots' \ waived', told'[t] > 0
        PROVE  book'[t].state \in answered /\ age'[t] # "day"
    <3>1. t \in Bots \ waived /\ t \in Tags /\ told[t] > 0
      BY <2>t, <2>1, <2>2, <2>3
    <3>2. book[t].state \in answered /\ age[t] # "day"
      BY <3>1 DEF ToldInv
    <3>3. book'[t] = book[t]
      BY <1>2, <2>3, <3>2, AnswerKeepsRow
    <3>4. age'[t] # "day"
      BY <1>2, <2>t, <2>3, <3>1, <3>2, OnlyAnswerTells
    <3> QED BY <3>2, <3>3, <3>4
  <2>4. ASSUME at' = "answer", cur'.tag \in Bots' \ waived' PROVE told'[cur'.tag] = 0
    <3>1. cur'.tag \in Bots \ waived
      BY <2>1, <2>4
    <3>2. at \in {"answer", "decide"} /\ cur' = cur
      BY <1>2, <2>t, <2>4, OnlyRefuseAnswers
    <3>3. CASE at = "answer"
      BY <2>2, <3>1, <3>2, <3>3 DEF ToldInv
    <3>4. CASE at = "decide"
      <4>1. book[cur.tag].state = "none"
        BY <3>4 DEF LaunchInv, WorkedRow
      <4>2. ~(told[cur.tag] > 0)
        BY <3>1, <3>2, <4>1 DEF ToldInv
      <4> QED BY <2>2, <3>1, <3>2, <4>2
    <3> QED BY <3>2, <3>3, <3>4
  <2>5. ASSUME NEW t \in Bots' \ waived', NEW s \in Bots' \ waived', UserOf[t] = UserOf[s]
        PROVE  told'[t] + (IF s = t THEN 0 ELSE told'[s]) <= 1
    <3>1. t \in Bots \ waived /\ s \in Bots \ waived
      BY <2>1
    <3>2. told[t] + (IF s = t THEN 0 ELSE told[s]) <= 1
      BY <2>5, <3>1 DEF ToldInv, OneAnswerADay
    <3> QED BY <2>2, <3>1, <3>2
  <2> QED BY <2>3, <2>4, <2>5 DEF ToldInv, OneAnswerADay
<1>3. CASE UNCHANGED vars
  BY <1>3 DEF ToldInv, OneAnswerADay, Bots, vars, bookVars, postVars, tickVars
<1> QED BY <1>1, <1>2, <1>3

\* At the start nobody was told anything.
LEMMA ToldFirst == Init => ToldInv
  BY DEF Init, ToldInv, OneAnswerADay, Bots

\* An account is told of at most one refusal a day, whatever it posts and whatever
\* of it is replayed (answered_refusal).
THEOREM OneAnswer == Spec => []OneAnswerADay
<1>1. LaunchInv /\ ToldInv /\ [Next]_vars => ToldInv'
  BY ToldKept
<1>2. ToldInv => OneAnswerADay
  BY DEF ToldInv
<1> QED BY <1>1, <1>2, ToldFirst, LaunchInvHolds, PTL DEF Spec

--------------------------------------------------------------------------------
(* Without a pool of keys, no coin is lost sight of. *)

\* Without a pool every new coin is on a key nothing knows, and the door has none.
LEMMA OwnKeys ==
  ASSUME Pool = <<>>
  PROVE  /\ NewMints = {m \in Mints : Untouched(m)}
         /\ \A m \in Mints : ~DoorLaunch(m)
<1>1. DOMAIN Pool = {}
  OBVIOUS
<1> QED BY <1>1 DEF NewMints, Left, DoorLaunch

\* A key nothing knows is used by nobody.
LEMMA UntouchedIsUnused ==
  ASSUME NEW m \in Mints, Untouched(m), cur.mint # m, NEW t \in Tags
  PROVE  ~Uses(t, m)
<1>1. Nobody \notin Tags
  BY LaunchAssumption
<1> QED BY <1>1 DEF Untouched, Uses

\* A step names a mint for a tag only where it was named for it before, or takes a
\* new key for it.
LEMMA UsesGrow ==
  ASSUME Pool = <<>>, LaunchInv, Next, NEW t \in Tags, NEW m \in Mints, Uses(t, m)'
  PROVE  Uses(t, m) \/ (Untouched(m) /\ cur.mint = NoMint /\ cur'.tag = t)
<1> USE DEF bookVars, tickVars, listVars, pollVars, postVars, chainVars
<1>t. /\ LaunchTypeOK /\ AtPlaces /\ TickType /\ RecordType /\ WorldType /\ WorkedRow /\ Nobody \notin Tags
      /\ NoMint \notin Mints
  BY LaunchAssumption DEF LaunchInv, LaunchTypeOK
<1>w. ASSUME NEW s \in Tags, NEW n, NEW state, Record(s, state, n), n \in Mints => Uses(s, n), book'[t].mint = m
      PROVE  Uses(t, m)
  <2>1. CASE s = t
    BY <1>t, <1>w, <2>1 DEF Record, RecordType
  <2>2. CASE s # t
    BY <1>t, <1>w, <2>2 DEF Record, RecordType, Uses
  <2> QED BY <2>1, <2>2
<1>c. cur.tag \in Tags /\ cur.mint \in Mints => Uses(cur.tag, cur.mint)
  BY DEF Uses
<1>0. ASSUME UNCHANGED <<book, unconfirmed, coins, made, flight>>, cur' \in {cur, Idle} PROVE Uses(t, m)
  BY <1>t, <1>0 DEF Uses, Idle
<1>1. CASE Post \/ Time
  BY <1>0, <1>1, OutsideTick DEF Post, Time, Late, Day
<1>2. CASE Chain
  <2>1. ASSUME NEW x \in flight, LandCreate(x) PROVE Uses(t, m)
    BY <1>t, <2>1 DEF LandCreate, Uses, WorldType
  <2>2. ASSUME NEW x \in flight, LandSplit(x) \/ Expire(x) PROVE Uses(t, m)
    BY <2>2 DEF LandSplit, Expire, Uses
  <2> QED BY <1>2, <2>1, <2>2, OwnKeys DEF Chain
<1>3. CASE Owner
  <2>1. ASSUME NEW s \in Tags, Replay(s) PROVE Uses(t, m)
    BY <1>t, <2>1 DEF Replay, Uses, RecordType, NoRow
  <2>2. ASSUME NEW s \in Tags, HandLaunch(s)
        PROVE Uses(t, m) \/ (Untouched(m) /\ cur.mint = NoMint /\ cur'.tag = t)
    BY <1>t, <2>2 DEF HandLaunch, Locks, Uses, AtPlaces, Idle
  <2>3. ASSUME NEW n \in Mints, HandResume(n) PROVE Uses(t, m)
    BY <2>3 DEF HandResume, Locks, Uses
  <2> QED BY <1>3, <2>1, <2>2, <2>3 DEF Owner
<1>4. CASE Watch
  <2>1. CASE StartTick
    <3>1. book'[t].mint = book[t].mint
      BY <1>t, <2>1 DEF StartTick, RecordType, Row
    <3>2. unconfirmed'[m] = t => unconfirmed[m] = t \/ book[t].mint = m
      <4> DEFINE known == {s \in Unlisted : coins[book[s].mint] # Nobody}
                 its == {s \in Unlisted \ known : book[s].mint = m}
      <4>1. (CHOOSE s \in Unlisted \ known : book[s].mint = m) = t /\ its # {} => book[t].mint = m
        OBVIOUS
      <4>2. unconfirmed'[m] = IF \E s \in Unlisted \ known : book[s].mint = m
                              THEN CHOOSE s \in Unlisted \ known : book[s].mint = m
                              ELSE unconfirmed[m]
        BY <2>1 DEF StartTick
      <4>3. (\E s \in Unlisted \ known : book[s].mint = m) => its # {}
        OBVIOUS
      <4> HIDE DEF known, its
      <4> QED BY <4>1, <4>2, <4>3
    <3> QED BY <2>1, <3>1, <3>2 DEF StartTick, Uses
  <2>2. ASSUME NEW n \in Mints, CheckStale(n) \/ CheckWaits(n) PROVE Uses(t, m)
    BY <1>0, <2>2 DEF CheckStale, CheckWaits
  <2>3. ASSUME NEW n \in Mints, CheckLanded(n) PROVE Uses(t, m)
    BY <1>t, <2>3 DEF CheckLanded, Uses, RecordType
  <2>4. ASSUME NEW n \in Mints, CheckLost(n) PROVE Uses(t, m)
    <3>1. unconfirmed[n] \in Tags /\ Uses(unconfirmed[n], n)
      BY <1>t, <2>4 DEF CheckLost, Watching, AtPlaces, Uses
    <3>2. book'[t].mint = m => Uses(t, m)
      BY <1>w, <2>4, <3>1 DEF CheckLost
    <3> QED BY <2>4, <3>2 DEF CheckLost, Uses
  <2>5. CASE RecordLanded
    <3>1. book'[t].mint = m => Uses(t, m)
      BY <1>t, <1>w, <1>c, <2>5, AtWork DEF RecordLanded
    <3> QED BY <1>t, <2>5, <3>1 DEF RecordLanded, Uses, Idle
  <2>6. CASE WatchDone
    BY <1>t, <2>6 DEF WatchDone, Uses
  <2> QED BY <1>4, <2>1, <2>2, <2>3, <2>4, <2>5, <2>6 DEF Watch
<1>5. CASE Tag
  <2>1. ASSUME NEW code \in Refused, at = "decide", Refuse(code) PROVE Uses(t, m)
    <3>1. book'[t].mint = m => Uses(t, m)
      BY <1>t, <1>w, <2>1, AtWork DEF Refuse
    <3> QED BY <2>1, <3>1 DEF Refuse, Uses
  <2>2. CASE TakeTag
    BY <1>t, <2>2 DEF TakeTag, Uses
  <2>3. CASE Answer \/ Done \/ Poll \/ PollDone
    BY <1>0, <2>3 DEF Answer, Done, Poll, PollDone, EndTick
  <2> QED BY <1>5, <2>1, <2>2, <2>3 DEF Tag
<1>6. CASE Launch
  <2>1. CASE List
    <3>1. cur.tag \in Tags /\ cur \in [tag : Tags, mint : Mints \cup {NoMint}] /\ cur.mint = NoMint
      BY <1>t, <2>1, AtWork DEF List, TickType, AtPlaces
    <3>2. PICK n \in Mints : /\ Untouched(n) /\ cur' = [cur EXCEPT !.mint = n]
                             /\ unconfirmed' = [unconfirmed EXCEPT ![n] = cur.tag]
      BY <2>1, OwnKeys DEF List
    <3>3. cur' = [tag |-> cur.tag, mint |-> n]
      BY <3>1, <3>2
    <3> QED BY <1>t, <2>1, <3>1, <3>2, <3>3 DEF List, Uses, RecordType
  <2>2. CASE RecordLaunching \/ CreateUnconfirmed \/ RecordPending \/ SplitFails \/ RecordLaunched
    <3>1. cur.tag \in Tags /\ Uses(cur.tag, cur.mint)
      BY <1>t, <1>c, <2>2, AtWork DEF RecordLaunching, CreateUnconfirmed, RecordPending, SplitFails, RecordLaunched
    <3>2. book'[t].mint = m => Uses(t, m)
      BY <1>w, <2>2, <3>1 DEF RecordLaunching, CreateUnconfirmed, RecordPending, SplitFails, RecordLaunched
    <3> QED BY <2>2, <3>2 DEF RecordLaunching, CreateUnconfirmed, RecordPending, SplitFails, RecordLaunched, Uses
  <2>3. CASE SendCreate \/ SendSplit
    BY <2>3 DEF SendCreate, SendSplit, Tx, Uses
  <2>4. CASE AddCoin
    BY <1>t, <2>4 DEF AddCoin, Uses, RecordType
  <2>5. CASE Forget
    BY <1>t, <2>5 DEF Forget, Uses, RecordType
  <2>6. ASSUME NEW s \in Tags, RetrySplit(s) PROVE Uses(t, m)
    <3>1. Record(s, "split_mismatch", book[s].mint) \/ UNCHANGED book
      BY <2>6 DEF RetrySplit
    <3>2. Uses(s, book[s].mint)
      BY DEF Uses
    <3>3. book'[t].mint = m => Uses(t, m)
      BY <1>w, <3>1, <3>2 DEF Uses
    <3> QED BY <2>6, <3>3 DEF RetrySplit, Uses
  <2>7. CASE SplitConfirmed \/ Announce
    BY <1>0, <2>7 DEF SplitConfirmed, Announce
  <2> QED BY <1>6, <2>1, <2>2, <2>3, <2>4, <2>5, <2>6, <2>7 DEF Launch
<1>7. CASE Hand
  <2>1. CASE HandCreated \/ HandDone
    <3>1. cur.tag \in Tags /\ Uses(cur.tag, cur.mint)
      BY <1>t, <1>c, <2>1, AtWork DEF HandCreated, HandDone
    <3>2. book'[t].mint = m => Uses(t, m)
      BY <1>w, <2>1, <3>1 DEF HandCreated, HandDone, Uses
    <3> QED BY <1>t, <2>1, <3>2 DEF HandCreated, HandDone, EndTick, Uses, Idle
  <2>2. CASE HandFails
    BY <1>0, <2>2 DEF HandFails, EndTick
  <2> QED BY <1>7, <2>1, <2>2 DEF Hand
<1>8. CASE Raise \/ Crash
  BY <1>0, <1>8 DEF Raise, Crash, EndTick
<1> QED BY <1>1, <1>2, <1>3, <1>4, <1>5, <1>6, <1>7, <1>8 DEF Next, Bot

\* A mint named for a tag is never named for another: a new one is a key nothing
\* knows.
LEMMA OneTagKept ==
  ASSUME Pool = <<>>, LaunchInv, MintIsOneTags, Next
  PROVE  MintIsOneTags'
<1> SUFFICES ASSUME NEW m \in Mints, NEW t \in Tags, NEW s \in Tags, Uses(t, m)', Uses(s, m)' PROVE t = s
  BY DEF MintIsOneTags
<1>1. NoMint \notin Mints
  BY LaunchAssumption
<1>2. CASE Uses(t, m) /\ Uses(s, m)
  BY <1>2 DEF MintIsOneTags
<1>3. CASE Untouched(m) /\ cur.mint = NoMint
  <2>1. ~Uses(t, m) /\ ~Uses(s, m)
    BY <1>1, <1>3, UntouchedIsUnused
  <2> QED BY <2>1, UsesGrow
<1> QED BY <1>2, <1>3, UsesGrow

\* A coin the ledger has it keeps, for the tag it is a coin of.
LEMMA CoinsStay ==
  ASSUME LaunchTypeOK, Next, NEW m \in Mints, coins[m] # Nobody
  PROVE  coins'[m] = coins[m]
<1> USE DEF bookVars, tickVars, listVars, pollVars, postVars, chainVars
<1>1. CASE Post \/ Chain \/ Time
  BY <1>1, OutsideTick
<1>2. CASE Owner
  BY <1>2 DEF Owner, Replay, HandLaunch, HandResume, Locks
<1>3. CASE Watch
  BY <1>3 DEF Watch, StartTick, CheckStale, CheckLanded, CheckLost, CheckWaits, RecordLanded, WatchDone,
              LaunchTypeOK, RecordType
<1>4. CASE Tag
  BY <1>4 DEF Tag, TakeTag, Refuse, Answer, Done, Poll, PollDone
<1>5. CASE Launch
  BY <1>5 DEF Launch, List, RecordLaunching, SendCreate, CreateUnconfirmed, AddCoin, RecordPending,
              Forget, RetrySplit, SendSplit, SplitFails, SplitConfirmed, RecordLaunched, Announce,
              LaunchTypeOK, RecordType
<1>6. CASE Hand \/ Raise \/ Crash
  BY <1>6 DEF Hand, HandCreated, HandDone, HandFails, Raise, Crash
<1> QED BY <1>1, <1>2, <1>3, <1>4, <1>5, <1>6 DEF Next, Bot

CoinStates == {"split_pending", "split_mismatch", "launched"}
CoinPlaces == {"landed", "coin", "pending", "split", "splitting", "announce", "post"}

\* The record says a coin is there only once the ledger has it.
LEMMA RowsFollowCoins ==
  ASSUME LaunchInv, MintIsOneTags, CoinBeforeRow, Next, NEW t \in Tags, book'[t].state \in CoinStates
  PROVE  coins'[book'[t].mint] = t
<1> USE DEF bookVars, tickVars, listVars, pollVars, postVars, chainVars
<1>t. /\ LaunchTypeOK /\ AtPlaces /\ TickType /\ RecordType /\ WorldType /\ WorkedRow /\ HandsOn
      /\ Nobody \notin Tags /\ NoMint \notin Mints
  BY LaunchAssumption DEF LaunchInv, LaunchTypeOK
<1>s. ASSUME NEW m \in Mints, coins[m] = t PROVE coins'[m] = t
  BY <1>t, <1>s, CoinsStay
<1>b. book[t].state \in CoinStates => coins[book[t].mint] = t /\ book[t].mint \in Mints
  BY DEF CoinBeforeRow, CoinStates, LaunchInv, RowsHaveMints, WithMint, Counted
<1>u. book'[t] = book[t] => coins'[book'[t].mint] = t
  BY <1>s, <1>b
<1>r. ASSUME NEW s \in Tags, NEW m \in Mints, NEW state, Record(s, state, m), coins[m] = s
      PROVE  coins'[book'[t].mint] = t
  BY <1>t, <1>s, <1>u, <1>r DEF Record, RecordType
<1>n. ASSUME NEW s \in Tags, NEW m, NEW state, Record(s, state, m), state \notin CoinStates
      PROVE  coins'[book'[t].mint] = t
  BY <1>t, <1>u, <1>n DEF Record, RecordType
<1>c. at \in CoinPlaces => coins[cur.mint] = cur.tag /\ cur.tag \in Tags /\ cur.mint \in Mints
  BY <1>t, AtWork DEF CoinBeforeRow, CoinPlaces
<1>1. CASE Post \/ Chain \/ Time
  BY <1>u, <1>1, OutsideTick
<1>2. CASE Owner
  <2>1. ASSUME NEW s \in Tags, Replay(s) PROVE coins'[book'[t].mint] = t
    <3>1. Record(s, "none", NoMint) \/ UNCHANGED book
      BY <2>1 DEF Replay, Record, NoRow
    <3> QED BY <1>u, <1>n, <3>1 DEF CoinStates
  <2>2. CASE (\E s \in Tags : HandLaunch(s)) \/ (\E m \in Mints : HandResume(m))
    BY <1>u, <2>2 DEF HandLaunch, HandResume, Locks
  <2> QED BY <1>2, <2>1, <2>2 DEF Owner
<1>3. CASE Watch
  <2>1. CASE StartTick
    <3>1. CASE book'[t] # book[t]
      <4>1. t \in Unlisted /\ coins[book[t].mint] # Nobody /\ book'[t].mint = book[t].mint
        BY <1>t, <2>1, <3>1 DEF StartTick, RecordType, Row
      <4>2. book[t].mint \in Mints
        BY <4>1 DEF Unlisted, LaunchInv, RowsHaveMints, WithMint, Counted
      <4>3. coins[book[t].mint] = t
        <5>1. coins[book[t].mint] \in Tags
          BY <1>t, <4>1, <4>2 DEF RecordType
        <5>2. Uses(coins[book[t].mint], book[t].mint) /\ Uses(t, book[t].mint)
          BY DEF Uses
        <5> QED BY <4>2, <5>1, <5>2 DEF MintIsOneTags
      <4> QED BY <1>s, <4>1, <4>2, <4>3
    <3> QED BY <1>u, <3>1
  <2>2. ASSUME NEW n \in Mints, CheckStale(n) \/ CheckWaits(n) \/ CheckLanded(n) PROVE UNCHANGED book
    BY <2>2 DEF CheckStale, CheckWaits, CheckLanded
  <2>3. ASSUME NEW n \in Mints, CheckLost(n) PROVE coins'[book'[t].mint] = t
    <3>1. unconfirmed[n] \in Tags
      BY <1>t, <2>3 DEF CheckLost, Watching, AtPlaces
    <3> QED BY <1>n, <2>3, <3>1 DEF CheckLost, CoinStates
  <2>4. CASE RecordLanded
    BY <1>r, <1>c, <2>4 DEF RecordLanded, CoinPlaces
  <2>5. CASE WatchDone
    BY <1>u, <2>5 DEF WatchDone
  <2> QED BY <1>u, <1>3, <2>1, <2>2, <2>3, <2>4, <2>5 DEF Watch
<1>4. CASE Tag
  <2>1. ASSUME NEW code \in Refused, at = "decide", Refuse(code) PROVE coins'[book'[t].mint] = t
    <3>1. StateOf(code) \notin CoinStates
      BY StateOfFacts DEF CoinStates
    <3> QED BY <1>t, <1>n, <2>1, <3>1, AtWork DEF Refuse
  <2>2. CASE Answer \/ TakeTag \/ Done \/ Poll \/ PollDone
    BY <1>u, <2>2 DEF Answer, TakeTag, Done, Poll, PollDone
  <2> QED BY <1>4, <2>1, <2>2 DEF Tag
<1>5. CASE Launch
  <2>1. CASE List \/ SendCreate \/ AddCoin \/ Forget \/ SendSplit \/ SplitConfirmed \/ Announce
    BY <1>u, <2>1 DEF List, SendCreate, AddCoin, Forget, SendSplit, SplitConfirmed, Announce
  <2>2. ASSUME NEW s \in Tags, RetrySplit(s) PROVE coins'[book'[t].mint] = t
    <3>1. Record(s, "split_mismatch", book[s].mint) \/ UNCHANGED book
      BY <2>2 DEF RetrySplit
    <3>2. book[s].mint \in Mints /\ coins[book[s].mint] = s
      BY <2>2, RetriedRow DEF CoinBeforeRow
    <3> QED BY <1>u, <1>r, <3>1, <3>2
  <2>3. CASE RecordLaunching \/ CreateUnconfirmed
    BY <1>t, <1>n, <2>3, AtWork DEF RecordLaunching, CreateUnconfirmed, CoinStates
  <2>4. CASE RecordPending \/ SplitFails \/ RecordLaunched
    BY <1>r, <1>c, <2>4 DEF RecordPending, SplitFails, RecordLaunched, CoinPlaces
  <2> QED BY <1>5, <2>1, <2>2, <2>3, <2>4 DEF Launch
<1>6. CASE Hand
  BY <1>r, <1>u, <1>c, <1>6 DEF Hand, HandCreated, HandDone, HandFails, CoinPlaces
<1>7. CASE Raise \/ Crash
  BY <1>u, <1>7 DEF Raise, Crash
<1> QED BY <1>1, <1>2, <1>3, <1>4, <1>5, <1>6, <1>7 DEF Next, Bot

\* And the bot works on a split only of a coin the ledger has.
LEMMA PlacesFollowCoins ==
  ASSUME LaunchInv, MintIsOneTags, CoinBeforeRow, Next, at' \in CoinPlaces
  PROVE  coins'[cur'.mint] = cur'.tag
<1> USE DEF bookVars, tickVars, listVars, pollVars, postVars, chainVars
<1>t. LaunchTypeOK /\ AtPlaces /\ TickType /\ RecordType /\ WorldType /\ Nobody \notin Tags
  BY LaunchAssumption DEF LaunchInv, LaunchTypeOK
<1>c. at \in CoinPlaces => coins[cur.mint] = cur.tag /\ cur.tag \in Tags /\ cur.mint \in Mints
  BY <1>t, AtWork DEF CoinBeforeRow, CoinPlaces
<1>s. ASSUME NEW t \in Tags, NEW m \in Mints, coins[m] = t PROVE coins'[m] = t
  BY <1>t, <1>s, CoinsStay
<1>n. ASSUME NEW t \in Tags, NEW m \in Mints, Uses(t, m),
             coins' = IF coins[m] = Nobody THEN [coins EXCEPT ![m] = t] ELSE coins
      PROVE  coins'[m] = t
  <2>1. CASE coins[m] = Nobody
    BY <1>t, <1>n, <2>1 DEF RecordType
  <2>2. CASE coins[m] # Nobody
    <3>1. coins[m] \in Tags
      BY <1>t, <2>2 DEF RecordType
    <3>2. Uses(coins[m], m)
      BY DEF Uses
    <3> QED BY <1>n, <2>2, <3>1, <3>2 DEF MintIsOneTags
  <2> QED BY <2>1, <2>2
<1>1. CASE Post \/ Chain \/ Time
  BY <1>c, <1>1, OutsideTick
<1>2. CASE Owner
  BY <1>2 DEF Owner, Replay, HandLaunch, HandResume, Locks, CoinPlaces
<1>3. CASE Watch
  <2>1. ASSUME NEW n \in Mints, CheckLanded(n) PROVE coins'[cur'.mint] = cur'.tag
    <3>1. unconfirmed[n] \in Tags /\ Uses(unconfirmed[n], n)
      BY <1>t, <2>1 DEF CheckLanded, Watching, AtPlaces, Uses
    <3> QED BY <1>n, <2>1, <3>1 DEF CheckLanded
  <2>2. ASSUME NEW n \in Mints, CheckStale(n) \/ CheckLost(n) \/ CheckWaits(n) PROVE FALSE
    BY <2>2 DEF CheckStale, CheckLost, CheckWaits, Watching, CoinPlaces
  <2>3. ~(StartTick \/ RecordLanded \/ WatchDone)
    BY <1>t DEF StartTick, RecordLanded, WatchDone, AtPlaces, CoinPlaces
  <2> QED BY <1>3, <2>1, <2>2, <2>3 DEF Watch
<1>4. CASE Tag
  BY <1>4 DEF Tag, TakeTag, Refuse, Answer, Done, Poll, PollDone, EndTick, CoinPlaces
<1>5. CASE Launch
  <2>1. CASE AddCoin
    BY <1>t, <1>n, <2>1, AtWork DEF AddCoin, Uses
  <2>2. ASSUME NEW t \in Tags, RetrySplit(t) PROVE coins'[cur'.mint] = cur'.tag
    <3>1. book[t].mint \in Mints /\ coins[book[t].mint] = t
      BY <2>2, RetriedRow DEF CoinBeforeRow
    <3> QED BY <2>2, <3>1 DEF RetrySplit
  <2>3. CASE RecordPending \/ Forget \/ SendSplit \/ SplitConfirmed \/ RecordLaunched
    BY <1>c, <2>3 DEF RecordPending, Forget, SendSplit, SplitConfirmed, RecordLaunched, CoinPlaces
  <2>4. ~(List \/ RecordLaunching \/ SendCreate \/ CreateUnconfirmed \/ SplitFails \/ Announce)
    BY DEF List, RecordLaunching, SendCreate, CreateUnconfirmed, SplitFails, Announce, CoinPlaces
  <2> QED BY <1>5, <2>1, <2>2, <2>3, <2>4 DEF Launch
<1>6. CASE Hand
  BY <1>c, <1>6 DEF Hand, HandCreated, HandDone, HandFails, EndTick, CoinPlaces
<1>7. CASE Raise \/ Crash
  BY <1>7 DEF Raise, Crash, EndTick, CoinPlaces
<1> QED BY <1>1, <1>2, <1>3, <1>4, <1>5, <1>6, <1>7 DEF Next, Bot

\* The ledger has a coin before its row, or the work on its split, says so.
LEMMA CoinBeforeRowKept ==
  ASSUME LaunchInv, MintIsOneTags, CoinBeforeRow, Next
  PROVE  CoinBeforeRow'
  BY RowsFollowCoins, PlacesFollowCoins DEF CoinBeforeRow, CoinStates, CoinPlaces

\* A coin the bot watches for stays watched for, until the ledger has it.
LEMMA WatchedStays ==
  ASSUME Pool = <<>>, LaunchInv, MintIsOneTags, CoinBeforeRow, Next, NEW t \in Bots, NEW m \in Mints,
         MayExist(t, m), Watched(t, m)
  PROVE  Watched(t, m)'
<1> USE DEF bookVars, tickVars, listVars, pollVars, postVars, chainVars
<1>t. /\ LaunchTypeOK /\ AtPlaces /\ TickType /\ RecordType /\ WorldType /\ WorkedRow /\ HandsOn
      /\ t \in Tags /\ Nobody \notin Tags
  BY LaunchAssumption DEF LaunchInv, LaunchTypeOK, Bots
<1>c. ASSUME coins[m] = t PROVE Watched(t, m)'
  BY <1>t, <1>c, CoinsStay DEF Watched
<1> SUFFICES ASSUME coins[m] # t PROVE Watched(t, m)'
  BY <1>c
<1>w. unconfirmed[m] = t /\ m \notin gone /\ book[t].mint = m /\ book[t].state \in {"launching", "create_failed"}
  BY DEF Watched
<1>p. at \in CoinPlaces => cur.tag # t \/ cur.mint # m
  BY DEF CoinBeforeRow, CoinPlaces
<1>0. ASSUME unconfirmed'[m] = t, m \notin gone', book'[t] = book[t] PROVE Watched(t, m)'
  BY <1>0, <1>w DEF Watched
<1>r. ASSUME NEW s \in Tags, s # t, NEW state, NEW n, Record(s, state, n) PROVE book'[t] = book[t]
  BY <1>t, <1>r DEF Record, RecordType
<1>1. CASE Post \/ Chain \/ Time
  BY <1>0, <1>w, <1>1, OutsideTick
<1>2. CASE Owner
  BY <1>t, <1>0, <1>w, <1>2 DEF Owner, Replay, HandLaunch, HandResume, Locks, Waivable, RecordType
<1>3. CASE Watch
  <2>1. CASE StartTick
    <3>1. \A s \in Unlisted : book[s].mint # m
      BY <1>t, <1>w DEF Unlisted
    <3>2. unconfirmed'[m] = t /\ book'[t] = book[t]
      BY <1>t, <1>w, <2>1, <3>1 DEF StartTick, RecordType
    <3> QED BY <1>0, <1>w, <2>1, <3>2 DEF StartTick
  <2>2. ASSUME NEW n \in Mints, CheckStale(n) PROVE Watched(t, m)'
    <3>1. n # m
      BY <1>w, <2>2 DEF CheckStale, Stale
    <3> QED BY <1>0, <1>w, <2>2, <3>1 DEF CheckStale, Settled
  <2>3. ASSUME NEW n \in Mints, CheckLanded(n) \/ CheckWaits(n) PROVE Watched(t, m)'
    BY <1>0, <1>w, <2>3 DEF CheckLanded, CheckWaits
  <2>4. ASSUME NEW n \in Mints, CheckLost(n) PROVE Watched(t, m)'
    <3>1. n # m
      <4> SUFFICES ASSUME n = m PROVE FALSE
        OBVIOUS
      <4>1. made[m] = Nobody /\ age[t] # "new"
        BY <1>w, <2>4 DEF CheckLost, Lost
      <4>2. Tx("create", m, t) \notin flight
        BY <4>1 DEF LaunchInv, RowNamesCoin
      <4> QED BY <1>t, <4>1, <4>2 DEF MayExist
    <3>2. unconfirmed[n] # t /\ unconfirmed[n] \in Tags
      BY <1>t, <1>w, <2>4, <3>1 DEF CheckLost, Stale, Watching, AtPlaces
    <3>3. book'[t] = book[t]
      BY <1>r, <2>4, <3>2 DEF CheckLost
    <3> QED BY <1>0, <1>w, <2>4, <3>1, <3>3 DEF CheckLost, Settled
  <2>5. CASE RecordLanded
    <3>1. cur.tag \in Tags /\ cur.mint \in Mints /\ coins[cur.mint] = cur.tag /\ Uses(cur.tag, cur.mint)
      BY <1>t, <2>5, AtWork DEF RecordLanded, CoinBeforeRow, Uses
    <3>2. cur.tag # t
      BY <1>t, <1>w, <1>p, <2>5 DEF RecordLanded, WorkedRow, CoinPlaces
    <3>3. cur.mint # m
      <4> SUFFICES ASSUME cur.mint = m PROVE FALSE
        OBVIOUS
      <4>1. Uses(cur.tag, m) /\ Uses(t, m)
        BY <1>w, <3>1 DEF Uses
      <4> QED BY <1>t, <3>1, <3>2, <4>1 DEF MintIsOneTags
    <3>4. book'[t] = book[t]
      BY <1>r, <2>5, <3>1, <3>2 DEF RecordLanded
    <3> QED BY <1>0, <1>w, <2>5, <3>3, <3>4 DEF RecordLanded, Settled
  <2>6. CASE WatchDone
    BY <1>0, <1>w, <2>6 DEF WatchDone
  <2> QED BY <1>3, <2>1, <2>2, <2>3, <2>4, <2>5, <2>6 DEF Watch
<1>4. CASE Tag
  <2>1. ASSUME NEW code \in Refused, at = "decide", Refuse(code) PROVE Watched(t, m)'
    <3>1. cur.tag # t
      BY <1>t, <1>w, <2>1 DEF WorkedRow
    <3>2. book'[t] = book[t]
      BY <1>t, <1>r, <2>1, <3>1, AtWork DEF Refuse
    <3> QED BY <1>0, <1>w, <2>1, <3>2 DEF Refuse
  <2>2. CASE Answer \/ TakeTag \/ Done \/ Poll \/ PollDone
    BY <1>0, <1>w, <2>2 DEF Answer, TakeTag, Done, Poll, PollDone, EndTick
  <2> QED BY <1>4, <2>1, <2>2 DEF Tag
<1>5. CASE Launch
  <2>1. CASE SendCreate \/ AddCoin \/ SendSplit \/ SplitConfirmed \/ Announce
    BY <1>0, <1>w, <2>1 DEF SendCreate, AddCoin, SendSplit, SplitConfirmed, Announce
  <2>2. CASE List
    <3>1. PICK n \in Mints : Untouched(n) /\ unconfirmed' = [unconfirmed EXCEPT ![n] = cur.tag]
      BY <2>2, OwnKeys DEF List
    <3>2. n # m
      BY <1>t, <1>w, <3>1 DEF Untouched
    <3> QED BY <1>0, <1>w, <2>2, <3>1, <3>2 DEF List
  <2>3. CASE Forget
    <3>1. cur.mint # m
      <4> SUFFICES ASSUME cur.mint = m PROVE FALSE
        OBVIOUS
      <4>1. cur.tag \in Tags /\ cur.tag # t
        BY <1>t, <1>p, <2>3, AtWork DEF Forget, CoinPlaces
      <4>2. Uses(cur.tag, m) /\ Uses(t, m)
        BY <1>w DEF Uses
      <4> QED BY <1>t, <4>1, <4>2 DEF MintIsOneTags
    <3> QED BY <1>0, <1>w, <2>3, <3>1 DEF Forget
  <2>4. ASSUME NEW s \in Tags, RetrySplit(s) PROVE Watched(t, m)'
    <3>1. Record(s, "split_mismatch", book[s].mint) \/ UNCHANGED book
      BY <2>4 DEF RetrySplit
    <3>2. s # t
      BY <1>w, <2>4, RetriedRow
    <3> QED BY <1>0, <1>w, <1>r, <2>4, <3>1, <3>2 DEF RetrySplit
  <2>5. CASE CreateUnconfirmed
    <3>1. cur.tag \in Tags
      BY <1>t, <2>5, AtWork DEF CreateUnconfirmed
    <3>2. CASE cur.tag = t
      <4>1. book'[t] = [state |-> "create_failed", mint |-> m]
        BY <1>t, <1>w, <2>5, <3>2 DEF CreateUnconfirmed, WorkedRow, Record, RecordType
      <4> QED BY <1>w, <2>5, <4>1 DEF CreateUnconfirmed, Watched
    <3>3. CASE cur.tag # t
      BY <1>0, <1>w, <1>r, <2>5, <3>1, <3>3 DEF CreateUnconfirmed
    <3> QED BY <3>2, <3>3
  <2>6. CASE RecordLaunching \/ RecordPending \/ SplitFails \/ RecordLaunched
    <3>1. cur.tag # t
      BY <1>t, <1>w, <1>p, <2>6 DEF RecordLaunching, RecordPending, SplitFails, RecordLaunched, WorkedRow, AtPlaces,
                                    CoinPlaces
    <3>2. cur.tag \in Tags
      BY <1>t, <2>6, AtWork DEF RecordLaunching, RecordPending, SplitFails, RecordLaunched
    <3>3. book'[t] = book[t]
      BY <1>r, <2>6, <3>1, <3>2 DEF RecordLaunching, RecordPending, SplitFails, RecordLaunched
    <3> QED BY <1>0, <1>w, <2>6, <3>3 DEF RecordLaunching, RecordPending, SplitFails, RecordLaunched
  <2> QED BY <1>5, <2>1, <2>2, <2>3, <2>4, <2>5, <2>6 DEF Launch
<1>6. CASE Hand
  <2>1. CASE HandCreated \/ HandDone
    <3>1. cur.tag \in Tags /\ cur.mint \in Mints
      BY <1>t, <2>1, AtWork DEF HandCreated, HandDone
    <3>2. cur.tag # t
      <4> SUFFICES ASSUME cur.tag = t PROVE FALSE
        OBVIOUS
      <4>1. made[cur.mint] = t /\ cur.mint # m
        BY <1>t, <1>p, <2>1 DEF HandCreated, HandDone, HandsOn, CoinPlaces
      <4> QED BY <1>w, <3>1, <4>1 DEF LaunchInv, RowNamesCoin, MayExist
    <3>3. book'[t] = book[t]
      BY <1>r, <2>1, <3>1, <3>2 DEF HandCreated, HandDone
    <3> QED BY <1>0, <1>w, <2>1, <3>3 DEF HandCreated, HandDone, EndTick
  <2>2. CASE HandFails
    BY <1>0, <1>w, <2>2 DEF HandFails, EndTick
  <2> QED BY <1>6, <2>1, <2>2 DEF Hand
<1>7. CASE Raise \/ Crash
  BY <1>0, <1>w, <1>7 DEF Raise, Crash, EndTick
<1> QED BY <1>1, <1>2, <1>3, <1>4, <1>5, <1>6, <1>7 DEF Next, Bot

\* The recovery entry of a create about to be sent is there, and stays.
LEMMA EntryBeforeSend ==
  ASSUME LaunchInv, CoinIsWatched, Next, phase' # "hand", at' \in {"listed", "send", "sent"}
  PROVE  unconfirmed'[cur'.mint] = cur'.tag
<1> USE DEF bookVars, tickVars, listVars, pollVars, postVars, chainVars
<1>t. LaunchTypeOK /\ AtPlaces /\ TickType /\ RecordType
  BY DEF LaunchInv, LaunchTypeOK
<1>0. ASSUME UNCHANGED <<unconfirmed, cur, phase>>, at \in {"listed", "send", "sent"}
      PROVE  unconfirmed'[cur'.mint] = cur'.tag
  BY <1>0 DEF CoinIsWatched
<1>1. CASE Post \/ Chain \/ Time
  BY <1>0, <1>1, OutsideTick
<1>2. CASE Owner
  BY <1>2 DEF Owner, Replay, HandLaunch, HandResume, Locks
<1>3. CASE Watch
  BY <1>t, <1>3 DEF Watch, StartTick, CheckStale, CheckLanded, CheckLost, CheckWaits, RecordLanded, WatchDone,
                    Watching, AtPlaces
<1>4. CASE Tag
  BY <1>4 DEF Tag, TakeTag, Refuse, Answer, Done, Poll, PollDone, EndTick
<1>5. CASE Launch
  <2>1. CASE List
    <3>1. cur.tag \in Tags /\ cur \in [tag : Tags, mint : Mints \cup {NoMint}]
      BY <1>t, <2>1, AtWork DEF List, TickType
    <3>2. PICK m \in NewMints : /\ unconfirmed' = [unconfirmed EXCEPT ![m] = cur.tag]
                                /\ cur' = [cur EXCEPT !.mint = m]
      BY <2>1 DEF List
    <3>3. m \in Mints
      BY <3>2, NewMintsAreMints
    <3> QED BY <1>t, <3>1, <3>2, <3>3 DEF RecordType
  <2>2. CASE RecordLaunching \/ SendCreate
    BY <1>0, <2>2 DEF RecordLaunching, SendCreate
  <2>3. ASSUME NEW s \in Tags, RetrySplit(s) PROVE FALSE
    BY <2>3 DEF RetrySplit
  <2> QED BY <1>5, <2>1, <2>2, <2>3 DEF Launch, CreateUnconfirmed, AddCoin, RecordPending, Forget, SendSplit,
                                        SplitFails, SplitConfirmed, RecordLaunched, Announce
<1>6. CASE Hand
  BY <1>6 DEF Hand, HandCreated, HandDone, HandFails, EndTick
<1>7. CASE Raise \/ Crash
  BY <1>7 DEF Raise, Crash, EndTick
<1> QED BY <1>1, <1>2, <1>3, <1>4, <1>5, <1>6, <1>7 DEF Next, Bot

\* Whatever coin may come to be is watched for from the step that sends its create.
LEMMA CoinIsWatchedKept ==
  ASSUME Pool = <<>>, LaunchInv, MintIsOneTags, CoinBeforeRow, CoinIsWatched, Next
  PROVE  CoinIsWatched'
<1>1. ASSUME NEW t \in Bots', NEW m \in Mints, MayExist(t, m)' PROVE Watched(t, m)'
  <2>1. t \in Bots /\ t \in Tags
    BY BotsShrink DEF LaunchInv, Bots
  <2>2. CASE MayExist(t, m)
    BY <2>1, <2>2, WatchedStays DEF CoinIsWatched
  <2>3. CASE SendCreate /\ t = cur.tag /\ m = cur.mint
    <3>1. phase # "hand" /\ at = "send" /\ book[t] = [state |-> "launching", mint |-> m]
      BY <2>1, <2>3, SentIsRecorded DEF SendCreate
    <3>2. unconfirmed[m] = t /\ gone = {}
      BY <2>3, <3>1 DEF CoinIsWatched, LaunchInv, AtPlaces
    <3> QED BY <2>3, <3>1, <3>2 DEF SendCreate, Watched, bookVars, listVars
  <2> QED BY <1>1, <2>1, <2>2, <2>3, OnlySendingAddsCoins DEF LaunchInv
<1>2. phase' # "hand" /\ at' \in {"listed", "send", "sent"} => unconfirmed'[cur'.mint] = cur'.tag
  BY EntryBeforeSend
<1> QED BY <1>1, <1>2 DEF CoinIsWatched

--------------------------------------------------------------------------------
(* Only a coin whose split is on chain is announced. *)

\* A split on chain stays.
LEMMA SplitStays ==
  ASSUME Pool = <<>>, LaunchTypeOK, Next, NEW m \in Mints, config[m] = "ours"
  PROVE  config'[m] = "ours"
<1> USE DEF bookVars, tickVars, listVars, pollVars, postVars, chainVars
<1>1. CASE Chain
  <2>1. ASSUME NEW x \in flight, LandSplit(x) PROVE config'[m] = "ours"
    BY <2>1 DEF LandSplit, LaunchTypeOK, WorldType
  <2>2. ASSUME NEW x \in flight, LandCreate(x) \/ Expire(x) PROVE config'[m] = "ours"
    BY <2>2 DEF LandCreate, Expire
  <2> QED BY <1>1, <2>1, <2>2, OwnKeys DEF Chain
<1>2. CASE Post \/ Time
  BY <1>2 DEF Post, Time, Late, Day
<1>3. CASE Owner
  BY <1>3 DEF Owner, Replay, HandLaunch, HandResume, Locks
<1>4. CASE Watch \/ Tag
  BY <1>4 DEF Watch, StartTick, CheckStale, CheckLanded, CheckLost, CheckWaits, RecordLanded, WatchDone,
              Tag, TakeTag, Refuse, Answer, Done, Poll, PollDone
<1>5. CASE Launch
  BY <1>5 DEF Launch, List, RecordLaunching, SendCreate, CreateUnconfirmed, AddCoin, RecordPending,
              Forget, RetrySplit, SendSplit, SplitFails, SplitConfirmed, RecordLaunched, Announce
<1>6. CASE Hand \/ Raise \/ Crash
  BY <1>6 DEF Hand, HandCreated, HandDone, HandFails, Raise, Crash
<1> QED BY <1>1, <1>2, <1>3, <1>4, <1>5, <1>6 DEF Next, Bot

\* The bot comes to announce a coin only where it saw its split.
LEMMA AnnouncesWithSplit ==
  ASSUME Pool = <<>>, LaunchInv, PaidInv, Next, at' \in {"announce", "post"}
  PROVE  config'[cur'.mint] = "ours"
<1> USE DEF bookVars, tickVars, listVars, pollVars, postVars, chainVars
<1>t. LaunchTypeOK /\ AtPlaces /\ TickType
  BY DEF LaunchInv, LaunchTypeOK
<1>0. ASSUME cur' = cur, at \in {"announce", "post"} PROVE config'[cur'.mint] = "ours"
  <2>1. cur.mint \in Mints
    BY <1>t, <1>0, AtWork
  <2> QED BY <1>t, <1>0, <2>1, SplitStays DEF PaidInv
<1>1. CASE Post \/ Chain \/ Time
  BY <1>0, <1>1, OutsideTick
<1>2. CASE Owner
  BY <1>2 DEF Owner, Replay, HandLaunch, HandResume, Locks
<1>3. CASE Watch
  BY <1>t, <1>3 DEF Watch, StartTick, CheckStale, CheckLanded, CheckLost, CheckWaits, RecordLanded, WatchDone,
                    Watching, AtPlaces
<1>4. CASE Tag
  BY <1>4 DEF Tag, TakeTag, Refuse, Answer, Done, Poll, PollDone, EndTick
<1>5. CASE Launch
  <2>1. ASSUME NEW t \in Tags, RetrySplit(t) PROVE config'[cur'.mint] = "ours"
    BY <2>1 DEF RetrySplit
  <2>2. CASE SplitConfirmed \/ RecordLaunched
    BY <1>0, <2>2 DEF SplitConfirmed, RecordLaunched
  <2> QED BY <1>5, <2>1, <2>2 DEF Launch, List, RecordLaunching, SendCreate, CreateUnconfirmed, AddCoin,
                                  RecordPending, Forget, SendSplit, SplitFails, Announce
<1>6. CASE Hand
  BY <1>6 DEF Hand, HandCreated, HandDone, HandFails, EndTick
<1>7. CASE Raise \/ Crash
  BY <1>7 DEF Raise, Crash, EndTick
<1> QED BY <1>1, <1>2, <1>3, <1>4, <1>5, <1>6, <1>7 DEF Next, Bot

\* A row that says launched stays so, on the mint it names, but for a coin that was
\* finished by hand with its split on chain.
LEMMA LaunchedStays ==
  ASSUME LaunchInv, Next, NEW t \in Tags, book[t].state = "launched"
  PROVE  \/ book'[t] = book[t]
         \/ HandDone /\ t = cur.tag /\ book'[t] = [state |-> "launched", mint |-> cur.mint]
<1> USE DEF bookVars, tickVars, listVars, pollVars, postVars, chainVars
<1>t. /\ LaunchTypeOK /\ AtPlaces /\ TickType /\ RecordType /\ WorldType /\ WorkedRow /\ Nobody \notin Tags
  BY LaunchAssumption DEF LaunchInv, LaunchTypeOK
<1>r. ASSUME NEW s \in Tags, s # t, NEW state, NEW n, Record(s, state, n) PROVE book'[t] = book[t]
  BY <1>t, <1>r DEF Record, RecordType
<1>1. CASE Post \/ Chain \/ Time
  BY <1>1, OutsideTick
<1>2. CASE Owner
  BY <1>t, <1>2 DEF Owner, Replay, HandLaunch, HandResume, Locks, Waivable, RecordType
<1>3. CASE Watch
  <2>1. CASE StartTick
    BY <1>t, <2>1 DEF StartTick, Unlisted, RecordType
  <2>2. ASSUME NEW n \in Mints, CheckLost(n) PROVE book'[t] = book[t]
    <3>1. unconfirmed[n] # t /\ unconfirmed[n] \in Tags
      BY <1>t, <2>2 DEF CheckLost, Stale, Watching, AtPlaces
    <3> QED BY <1>r, <2>2, <3>1 DEF CheckLost
  <2>3. CASE RecordLanded
    <3>1. cur.tag # t /\ cur.tag \in Tags
      BY <1>t, <2>3, AtWork DEF RecordLanded, WorkedRow
    <3> QED BY <1>r, <2>3, <3>1 DEF RecordLanded
  <2> QED BY <1>3, <2>1, <2>2, <2>3 DEF Watch, CheckStale, CheckLanded, CheckWaits, WatchDone
<1>4. CASE Tag
  <2>1. ASSUME NEW code \in Refused, at = "decide", Refuse(code) PROVE book'[t] = book[t]
    <3>1. cur.tag # t /\ cur.tag \in Tags
      BY <1>t, <2>1, AtWork DEF WorkedRow
    <3> QED BY <1>r, <2>1, <3>1 DEF Refuse
  <2> QED BY <1>4, <2>1 DEF Tag, Answer, TakeTag, Done, Poll, PollDone
<1>5. CASE Launch
  <2>1. ASSUME NEW s \in Tags, RetrySplit(s) PROVE book'[t] = book[t]
    <3>1. s # t
      BY <2>1, RetriedRow
    <3> QED BY <1>r, <2>1, <3>1 DEF RetrySplit
  <2>2. CASE RecordLaunching \/ CreateUnconfirmed \/ RecordPending \/ SplitFails \/ RecordLaunched
    <3>1. cur.tag # t /\ cur.tag \in Tags
      BY <1>t, <2>2, AtWork DEF RecordLaunching, CreateUnconfirmed, RecordPending, SplitFails, RecordLaunched,
                                WorkedRow
    <3> QED BY <1>r, <2>2, <3>1 DEF RecordLaunching, CreateUnconfirmed, RecordPending, SplitFails, RecordLaunched
  <2> QED BY <1>5, <2>1, <2>2 DEF Launch, List, SendCreate, AddCoin, Forget, SendSplit, SplitConfirmed, Announce
<1>6. CASE Hand
  <2>1. CASE HandCreated \/ HandDone
    <3>1. cur.tag \in Tags
      BY <1>t, <2>1, AtWork DEF HandCreated, HandDone
    <3>2. CASE cur.tag # t
      BY <1>r, <2>1, <3>1, <3>2 DEF HandCreated, HandDone
    <3>3. CASE cur.tag = t
      BY <1>t, <2>1, <3>3 DEF HandCreated, HandDone, Record, RecordType
    <3> QED BY <3>2, <3>3
  <2> QED BY <1>6, <2>1 DEF Hand, HandFails
<1>7. CASE Raise \/ Crash
  BY <1>7 DEF Raise, Crash
<1> QED BY <1>1, <1>2, <1>3, <1>4, <1>5, <1>6, <1>7 DEF Next, Bot

\* What is announced is the coin whose row says launched.
LEMMA OnlyAnnounceTells ==
  ASSUME LaunchInv, Next, NEW t \in announced', t \notin announced
  PROVE  at = "post" /\ t = cur.tag /\ book' = book
<1> USE DEF bookVars, tickVars, listVars, pollVars, postVars, chainVars
<1>1. CASE Post \/ Chain \/ Time
  BY <1>1, OutsideTick
<1>2. CASE Owner
  BY <1>2 DEF Owner, Replay, HandLaunch, HandResume, Locks
<1>3. CASE Watch \/ Tag
  BY <1>3 DEF Watch, StartTick, CheckStale, CheckLanded, CheckLost, CheckWaits, RecordLanded, WatchDone,
              Tag, TakeTag, Refuse, Answer, Done, Poll, PollDone
<1>4. CASE Launch
  BY <1>4 DEF Launch, List, RecordLaunching, SendCreate, CreateUnconfirmed, AddCoin, RecordPending,
              Forget, RetrySplit, SendSplit, SplitFails, SplitConfirmed, RecordLaunched, Announce
<1>5. CASE Hand \/ Raise \/ Crash
  BY <1>5 DEF Hand, HandCreated, HandDone, HandFails, Raise, Crash
<1> QED BY <1>1, <1>2, <1>3, <1>4, <1>5 DEF Next, Bot

\* Whatever is announced has its split on chain, and keeps it.
LEMMA PaidKept ==
  ASSUME Pool = <<>>, LaunchInv, PaidInv, Next
  PROVE  PaidInv'
<1>t. LaunchTypeOK /\ AtPlaces /\ TickType /\ WorldType /\ WorkedRow
  BY DEF LaunchInv, LaunchTypeOK
<1>1. ASSUME NEW t \in announced' PROVE book'[t].state = "launched" /\ config'[book'[t].mint] = "ours"
  <2>1. CASE t \in announced
    <3>1. book[t].state = "launched" /\ config[book[t].mint] = "ours" /\ t \in Tags
      BY <1>t, <2>1 DEF PaidInv, WorldType
    <3>2. book[t].mint \in Mints
      BY <3>1 DEF LaunchInv, RowsHaveMints, WithMint, Counted
    <3>3. CASE book'[t] = book[t]
      BY <1>t, <3>1, <3>2, <3>3, SplitStays
    <3>4. CASE HandDone /\ book'[t] = [state |-> "launched", mint |-> cur.mint]
      <4>1. cur.mint \in Mints /\ config[cur.mint] = "ours"
        BY <1>t, <3>4, AtWork DEF HandDone, PaidInv
      <4> QED BY <1>t, <3>4, <4>1, SplitStays
    <3> QED BY <3>1, <3>3, <3>4, LaunchedStays
  <2>2. CASE t \notin announced
    <3>1. at = "post" /\ t = cur.tag /\ book' = book
      BY <2>2, OnlyAnnounceTells
    <3>2. book[t].state = "launched" /\ book[t].mint = cur.mint /\ cur.mint \in Mints /\ config[cur.mint] = "ours"
      BY <1>t, <3>1, AtWork DEF WorkedRow, PaidInv
    <3> QED BY <1>t, <3>1, <3>2, SplitStays
  <2> QED BY <2>1, <2>2
<1>2. at' \in {"announce", "post"} => config'[cur'.mint] = "ours"
  BY AnnouncesWithSplit
<1> QED BY <1>1, <1>2 DEF PaidInv

--------------------------------------------------------------------------------
(* Without a pool: together. *)

\* What the theorems below rest on is kept by every step.
LEMMA MintInvKept ==
  ASSUME Pool = <<>>, LaunchInv, MintInv, [Next]_vars
  PROVE  MintInv'
<1>1. CASE Next
  BY <1>1, OneTagKept, CoinBeforeRowKept, CoinIsWatchedKept, PaidKept DEF MintInv
<1>2. CASE UNCHANGED vars
  <2> USE <1>2 DEF vars, bookVars, postVars, chainVars, tickVars, listVars, pollVars
  <2>1. MintIsOneTags'
    BY DEF MintInv, MintIsOneTags, Uses
  <2>2. CoinBeforeRow'
    BY DEF MintInv, CoinBeforeRow
  <2>3. CoinIsWatched'
    BY DEF MintInv, CoinIsWatched, MayExist, Watched, Bots
  <2>4. PaidInv'
    BY DEF MintInv, PaidInv
  <2> QED BY <2>1, <2>2, <2>3, <2>4 DEF MintInv
<1> QED BY <1>1, <1>2

\* It holds at the start, where there is nothing.
LEMMA MintInvFirst == Init => MintInv
<1> SUFFICES ASSUME Init PROVE MintInv
  OBVIOUS
<1>1. NoMint \notin Mints /\ Nobody \notin Tags
  BY LaunchAssumption
<1>2. \A t \in Tags, m \in Mints : ~Uses(t, m) /\ ~MayExist(t, m)
  BY <1>1 DEF Init, NoRow, Idle, Uses, MayExist
<1> QED BY <1>1, <1>2 DEF Init, NoRow, MintInv, MintIsOneTags, CoinBeforeRow, CoinIsWatched, PaidInv, Bots

\* With every create on a key of its own, a coin on chain is never lost sight of:
\* it is in the ledger, or its recovery entry and its row make a tick find it,
\* through every crash and retry (_check_unconfirmed).
THEOREM NoCoinIsLost == Pool = <<>> => (Spec => []NoOrphanCoin)
<1> SUFFICES ASSUME Pool = <<>> PROVE Spec => []NoOrphanCoin
  OBVIOUS
<1>1. LaunchInv /\ MintInv /\ [Next]_vars => MintInv'
  BY MintInvKept
<1>2. MintInv => NoOrphanCoin
  BY DEF MintInv, CoinIsWatched, NoOrphanCoin, MayExist, Watched
<1> QED BY <1>1, <1>2, MintInvFirst, LaunchInvHolds, PTL DEF Spec

\* And a launch is announced only with its split on chain: the fees promised to
\* the requester do reach the treasury, on their account (_announce).
THEOREM AnnouncedIsCredited == Pool = <<>> => (Spec => []AnnouncedIsPaid)
<1> SUFFICES ASSUME Pool = <<>> PROVE Spec => []AnnouncedIsPaid
  OBVIOUS
<1>1. LaunchInv /\ MintInv /\ [Next]_vars => MintInv'
  BY MintInvKept
<1>2. LaunchInv /\ MintInv => AnnouncedIsPaid
  <2> SUFFICES ASSUME LaunchInv, MintInv, NEW t \in announced
               PROVE  config[book[t].mint] = "ours" /\ coins[book[t].mint] = t
    BY DEF AnnouncedIsPaid
  <2>1. t \in Tags
    BY DEF LaunchInv, LaunchTypeOK, WorldType
  <2> QED BY <2>1 DEF MintInv, PaidInv, CoinBeforeRow
<1> QED BY <1>1, <1>2, MintInvFirst, LaunchInvHolds, PTL DEF Spec
================================================================================
