-------------------------------- MODULE Intake --------------------------------
(***************************************************************************)
(* The queue of public issues (indexer/intake.py, cli.py): a run measures  *)
(* the coins that open issues ask for, and a reply answers what was        *)
(* recorded.  With it, the walk over a coin's burns (scan.py), the         *)
(* observation (observe.py), and the pages that are written and deployed.  *)
(*                                                                         *)
(* Abstractions.  A transaction of a mint burns or does not, and a page is *)
(* there or not: what it says is Record's.  Rows that differ only in the   *)
(* time of the attempt are one, and rows of our own failures are left out: *)
(* nothing is ever done with them.                                         *)
(***************************************************************************)
EXTENDS Walk, Sequences

CONSTANTS
    Coins, NoCoin,
    Issues,         \* the issues are 1..Issues
    Limit,          \* issues, and coins enrolled on the chain, a run attempts
    MaxInputs       \* bound: transactions, new creators, issues, edits and
                    \* runs that raise, taken together

ASSUME IntakeAssumption ==
    /\ NoCoin \notin Coins
    /\ {Issues, Limit, MaxInputs} \subseteq Nat

VARIABLES
    history,    \* coin -> its mint's transactions, each a burn or not
    creator,    \* coin -> what its bonding curve names
    issue,      \* number -> whether it is open, and the coin it asks for
    said,       \* (history) number -> the answers posted
    store,      \* the evidence store, and the pages on disk
    live,       \* the coins whose page is deployed
    job,        \* the run under way
    extra       \* (bound) edits and faults so far

world == <<history, creator, issue>>
vars  == <<world, said, store, live, job, extra>>

Numbers == 1 .. Issues

Idle == [at |-> "idle", work |-> <<>>, todo |-> {}, met |-> [c \in Coins |-> "none"],
         row |-> <<>>]

Empty ==
    [burns |-> [c \in Coins |-> {}],            \* burn_event
     cursor |-> [c \in Coins |-> NoCursor],     \* scan_cursor
     begun |-> [c \in Coins |-> None],          \* (history) the oldest its first walk passed
     configs |-> {},                            \* sharing_config
     rows |-> {},                               \* submission, not answered yet
     pages |-> {}]                              \* the coins that have a page

Init ==
    /\ history = [c \in Coins |-> <<>>] /\ creator = [c \in Coins |-> "wallet"]
    /\ issue = [i \in Numbers |-> [state |-> "none", asks |-> NoCoin]]
    /\ said = [i \in Numbers |-> {}]
    /\ store = Empty /\ live = {}
    /\ job = Idle /\ extra = 0

--------------------------------------------------------------------------------
(* The chain and the people who open issues. *)

\* What has come from outside so far, edits and faults included.
Inputs ==
    LET moves(c) == CASE creator[c] = "wallet" -> 0 [] creator[c] = "config" -> 1 [] OTHER -> 2
    IN  extra + Cardinality({i \in Numbers : issue[i].state # "none"})
        + MapThenSumSet(LAMBDA c : Len(history[c]) + moves(c), Coins)

Transacts(c, burn) ==
    /\ Inputs < MaxInputs
    /\ history' = [history EXCEPT ![c] = Append(@, burn)]
    /\ UNCHANGED <<creator, issue, said, store, live, job, extra>>

\* A wallet becomes a sharing config; pump's admin may move the creator away again.
Moves(c) ==
    /\ creator[c] # "moved" /\ Inputs < MaxInputs
    /\ creator' = [creator EXCEPT ![c] = IF @ = "wallet" THEN "config" ELSE "moved"]
    /\ UNCHANGED <<history, issue, said, store, live, job, extra>>

Opens(i, c) ==
    /\ Inputs < MaxInputs
    /\ \A j \in Numbers : (issue[j].state = "none") <=> j >= i
    /\ issue' = [issue EXCEPT ![i] = [state |-> "open", asks |-> c]]
    /\ UNCHANGED <<history, creator, said, store, live, job, extra>>

\* The author names one coin at last.
Edits(i, c) ==
    /\ Inputs < MaxInputs
    /\ issue[i].state = "open" /\ issue[i].asks = NoCoin
    /\ issue' = [issue EXCEPT ![i].asks = c] /\ extra' = extra + 1
    /\ UNCHANGED <<history, creator, said, store, live, job>>

Tips(c) == {t \in 0 .. Len(history[c]) : t + Lag >= Len(history[c])}

--------------------------------------------------------------------------------
(* scan_burns: a forward walk and a backfill, each read up to a transaction that
   is not returned, or up to the deadline. *)

Ahead(c, tip) == Between(1 .. tip, tip, store.cursor[c].last, None)
Older(c, tip) == Between(1 .. tip, tip, None, store.cursor[c].oldest)
Backfill(c, tip) == IF store.cursor[c].complete THEN {} ELSE Newest(Older(c, tip), Batch)
Catchup(c, tip) == IF store.cursor[c].last = None THEN {} ELSE Ahead(c, tip)
Stops(listed) == listed \cup {None}

\* Where the next run goes on from.
ResumesPast(listed, stop, kept) == LastOf(listed, kept)
Resumes(listed, stop, kept) == LastOf(Passed(listed, stop), kept)

\* What is recorded and where the cursor is, once both walks are over.
Walked(c, tip, fore, back) ==
    LET old == store.cursor[c]
        past == Passed(Backfill(c, tip), back)
        found == {s \in Passed(Catchup(c, tip), fore) \cup past : history[c][s]}
    IN  [burns |-> store.burns[c] \cup found,
         begun |-> IF old.last = None THEN FirstOf(past) ELSE store.begun[c],
         cursor |-> [last |-> IF old.last = None THEN LastOf(past, None)
                              ELSE Resumes(Catchup(c, tip), fore, old.last),
                     oldest |-> IF past = {} THEN old.oldest ELSE Min(past),
                     complete |-> old.complete \/
                        (Cardinality(Older(c, tip)) < Batch /\ back = None)]]

\* A scan that raises keeps the rows and leaves the cursor.
Recorded(c, walked, raised) ==
    IF raised THEN [store EXCEPT !.burns[c] = walked.burns]
    ELSE [store EXCEPT !.burns[c] = walked.burns, !.cursor[c] = walked.cursor, !.begun[c] = walked.begun]

\* What the store may be after a scan.
Scans(c) ==
    UNION {{Recorded(c, Walked(c, tip, fore, back), raised) :
              raised \in BOOLEAN, fore \in Stops(Catchup(c, tip)), back \in Stops(Backfill(c, tip))} :
           tip \in Tips(c)}

--------------------------------------------------------------------------------
(* observe: what is read of the coin. *)

\* A coin once recorded with a config, and whose curve names another creator now.
Reading(c) ==
    CASE creator[c] = "config" -> "observed"
      [] creator[c] # "config" /\ c \in store.configs -> "creator_replaced"
      [] OTHER -> "no_sharing_config"

Terminal == {"no_sharing_config", "creator_replaced"}
Correctable == {"no_mint_found"}
Ours == "rpc_unavailable"

\* An exception that is no RPC failure sets an error of no kind: it passes for a
\* measurement, and its page is written.
Outcomes(c) == {Reading(c), Ours, "observed"}

Written(of, c, result) == IF result = "observed" THEN [of EXCEPT !.pages = @ \cup {c}] ELSE of

--------------------------------------------------------------------------------
(* Jobs beside the queue: the scan command, the enumeration of configs, and the
   deployment of the pages that were committed. *)

\* _scan
Scan(c) ==
    /\ job = Idle /\ creator[c] = "config"
    /\ \E tip \in Tips(c) : \E fore \in Stops(Catchup(c, tip)), back \in Stops(Backfill(c, tip)) :
         store' = Recorded(c, Walked(c, tip, fore, back), FALSE)
    /\ UNCHANGED <<world, said, live, job, extra>>

Enumerate(c) ==
    /\ job = Idle /\ creator[c] = "config"
    /\ store' = [store EXCEPT !.configs = @ \cup {c}]
    /\ UNCHANGED <<world, said, live, job, extra>>

Deploy ==
    /\ live' = store.pages
    /\ UNCHANGED <<world, said, store, job, extra>>

--------------------------------------------------------------------------------
(* run: the open issues, oldest first, up to the limit. *)

Open == {i \in Numbers : issue[i].state = "open"}
Asked(set) == [k \in 1 .. Cardinality(set) |->
                 LET i == CHOOSE i \in set : Cardinality({j \in set : j < i}) = k - 1
                 IN  <<i, issue[i].asks>>]
Oldest(set, n) == {i \in set : Cardinality({j \in set : j < i}) < n}

Unrecorded == {c \in Coins : creator[c] = "config" /\ c \notin store.pages}

\* The issues are read once; a request that fails reads none.
Start(issues) ==
    /\ job = Idle /\ issues \in {{}, Oldest(Open, Limit)}
    /\ job' = [Idle EXCEPT !.at = "queue", !.work = Asked(issues)]
    /\ UNCHANGED <<world, said, store, live, extra>>

\* --answer, by the run that measured or by one that measures nothing.
StartReply ==
    /\ job = Idle
    /\ job' = [Idle EXCEPT !.at = "reply", !.todo = store.rows]
    /\ UNCHANGED <<world, said, store, live, extra>>

Row(i, c, result) == [issue |-> i, coin |-> c, result |-> result]
Onward == [job EXCEPT !.work = Tail(@), !.at = "queue"]
Noted(row) == IF row.result = Ours THEN store ELSE [store EXCEPT !.rows = @ \cup {row}]

\* An issue that names no coin, or one already measured by this run.
TakeKnown ==
    /\ job.at = "queue" /\ job.work # <<>>
    /\ LET i == Head(job.work)[1]
           c == Head(job.work)[2]
       IN  /\ c # NoCoin => job.met[c] # "none"
           /\ store' = Noted(Row(i, c, IF c = NoCoin THEN "no_mint_found" ELSE job.met[c]))
    /\ job' = Onward
    /\ UNCHANGED <<world, said, live, extra>>

\* measure: its burns are walked first, whatever comes of that; then it is observed,
\* and its page written, before there is a row.
Measured(c, result) ==
    /\ result \in Outcomes(c)
    /\ \E scanned \in Scans(c) : store' = Written(scanned, c, result)

Take(result) ==
    /\ job.at = "queue" /\ job.work # <<>>
    /\ LET c == Head(job.work)[2]
       IN  /\ c # NoCoin /\ job.met[c] = "none"
           /\ Measured(c, result)
           /\ job' = [job EXCEPT !.at = "record", !.met[c] = result]
    /\ UNCHANGED <<world, said, live, extra>>

Record ==
    /\ job.at = "record"
    /\ LET i == Head(job.work)[1]
           c == Head(job.work)[2]
       IN  store' = Noted(Row(i, c, job.met[c]))
    /\ job' = Onward
    /\ UNCHANGED <<world, said, live, extra>>

--------------------------------------------------------------------------------
(* Coins found enrolled on the chain get a page too (index_new), and with
   --refresh every page is written afresh. *)

Enrolled ==
    /\ job.at = "queue" /\ job.work = <<>>
    /\ \E found \in {{}, Unrecorded} : job' = [job EXCEPT !.at = "new", !.todo = found]
    /\ UNCHANGED <<world, said, store, live, extra>>

IndexNew(c, result) ==
    /\ job.at = "new" /\ c \in job.todo
    /\ Measured(c, result)
    /\ job' = [job EXCEPT !.todo = @ \ {c}]
    /\ UNCHANGED <<world, said, live, extra>>

Refresh ==
    /\ job.at = "new" /\ job.todo = {}
    /\ \E pages \in {{}, store.pages} : job' = [job EXCEPT !.at = "refresh", !.todo = pages]
    /\ UNCHANGED <<world, said, store, live, extra>>

\* What cannot be observed again leaves the page as it is.
Rewrite(c, result) ==
    /\ job.at = "refresh" /\ c \in job.todo
    /\ result \in Outcomes(c)
    /\ store' = Written(store, c, result)
    /\ job' = [job EXCEPT !.todo = @ \ {c}]
    /\ UNCHANGED <<world, said, live, extra>>

EndRun ==
    /\ job.at = "refresh" /\ job.todo = {}
    /\ job' = Idle
    /\ UNCHANGED <<world, said, store, live, extra>>

--------------------------------------------------------------------------------
(* reply: each row not answered yet; a comment, a close and a mark. *)

Due(row) == row.result = "observed" => row.coin \in live
ClosesTerminal(row) == row.result \in Terminal
Closes(row) == row.result \notin Correctable

Leave(row) ==
    /\ job.at = "reply" /\ row \in job.todo
    /\ ~Due(row)
    /\ job' = [job EXCEPT !.todo = @ \ {row}]
    /\ UNCHANGED <<world, said, store, live, extra>>

Comment(row) ==
    /\ job.at = "reply" /\ row \in job.todo
    /\ Due(row)
    /\ said' = [said EXCEPT ![row.issue] = @ \cup {row}]
    /\ job' = [job EXCEPT !.at = IF Closes(row) THEN "close" ELSE "mark", !.row = <<row>>]
    /\ UNCHANGED <<world, store, live, extra>>

Close ==
    /\ job.at = "close"
    /\ issue' = [issue EXCEPT ![job.row[1].issue].state = "closed"]
    /\ job' = [job EXCEPT !.at = "mark"]
    /\ UNCHANGED <<history, creator, said, store, live, extra>>

Mark ==
    /\ job.at = "mark"
    /\ store' = [store EXCEPT !.rows = @ \ {job.row[1]}]
    /\ job' = [job EXCEPT !.at = "reply", !.todo = @ \ {job.row[1]}, !.row = <<>>]
    /\ UNCHANGED <<world, said, live, extra>>

Replied ==
    /\ job.at = "reply" /\ job.todo = {}
    /\ job' = Idle
    /\ UNCHANGED <<world, said, store, live, extra>>

--------------------------------------------------------------------------------
(* Faults. *)

\* A write to GitHub, or anything else, raises: the store and the pages stay.
Raises ==
    /\ job # Idle /\ Inputs < MaxInputs
    /\ job' = Idle /\ extra' = extra + 1
    /\ UNCHANGED <<world, said, store, live>>

--------------------------------------------------------------------------------

World == \/ \E c \in Coins : Moves(c) \/ \E burn \in BOOLEAN : Transacts(c, burn)
         \/ \E i \in Numbers : \E c \in Coins \cup {NoCoin} : Opens(i, c) \/ (c # NoCoin /\ Edits(i, c))

Results == Terminal \cup {"observed", Ours}

Run == \/ TakeKnown \/ Record \/ Enrolled \/ Refresh \/ EndRun
       \/ \E result \in Results : \/ Take(result)
                                 \/ (\E c \in Coins : IndexNew(c, result))
                                 \/ (\E c \in Coins : Rewrite(c, result))

Reply == (\E row \in store.rows : Leave(row) \/ Comment(row)) \/ Close \/ Mark \/ Replied

Beside == (\E c \in Coins : Scan(c) \/ Enumerate(c)) \/ Deploy

Starts == StartReply \/ \E issues \in SUBSET Numbers : Start(issues)

Next == World \/ Beside \/ Starts \/ Run \/ Reply \/ Raises

Spec == Init /\ [][Next]_vars

\* Both halves of the queue run on a schedule, pages are deployed,
\* and what is read again and again is read in the end.
FairSpec ==
    /\ Spec
    /\ WF_vars(Run \/ Reply) /\ WF_vars(Deploy)
    /\ SF_vars(Open # {} /\ Start(Oldest(Open, Limit))) /\ SF_vars(StartReply)
    /\ SF_vars(\E result \in Results \ {Ours} : Take(result))
--------------------------------------------------------------------------------
(* Properties. *)

\* The cursor never advances past a signature that was not read (_walk_burns): whatever
\* the deadline, a burn that cannot be decoded or a raise cut short, every burn between
\* the oldest signature of a mint's first walk and its last one is recorded.
NoBurnMissed ==
    \A c \in Coins :
        store.begun[c] # None =>
            \A s \in store.begun[c] .. store.cursor[c].last : history[c][s] => s \in store.burns[c]

\* An issue that names a coin is answered and closed in the end, if a run can
\* attempt them all.
SubmissionIsAnswered ==
    \A i \in Numbers :
        issue[i].state = "open" /\ issue[i].asks # NoCoin ~> issue[i].state = "closed"
================================================================================
