------------------------------- MODULE Inflows -------------------------------
(***************************************************************************)
(* The scan of what one destination of a split received (indexer/scan.py), *)
(* and the rows and cursors it leaves in the evidence store.               *)
(*                                                                         *)
(* The history of an address is a sequence of transactions; its signatures *)
(* are their places in it, and 0 stands for None.  Every endpoint is       *)
(* scanned with a cursor of its own.  One may have dropped its oldest      *)
(* transactions, answers may lag behind the chain, a transaction it lists  *)
(* may be one it cannot return, and any call may raise.                    *)
(***************************************************************************)
EXTENDS Walk, Sequences, Functions

CONSTANTS
    Endpoints,      \* the RPC endpoints, each walked on its own
    Steady,         \* those that answer in full again and again
    Legs,           \* what the destination may be: a vault of the coin's own,
                    \* the grandfathered shared address, the incinerator, a wallet
    Failed,         \* a transaction that failed on chain
    Amounts,        \* what a transaction may move to, or from, the destination
    MaxTx,          \* bound: transactions of the destination
    MaxDropped      \* bound: transactions an endpoint has dropped

ASSUME InflowAssumption ==
    /\ Steady \subseteq Endpoints /\ Legs \subseteq {"vault", "shared", "incinerator", "paid"}
    /\ Amounts \subseteq Int /\ Failed \notin Int
    /\ Batch > 0 /\ MaxTx \in Nat /\ MaxDropped \in Nat

VARIABLES
    leg,        \* what the destination is
    txs,        \* its history
    dropped,    \* how many of the oldest transactions each endpoint no longer has
    inflow,     \* the signatures a row was recorded for
    opening,    \* the opening balances recorded
    cursor,     \* scan_cursor, for each endpoint
    scan,       \* the walk under way
    first       \* (history) the oldest signature an endpoint's first walk passed

chain == <<leg, txs, dropped>>
evidence == <<inflow, opening, cursor, first>>
inflowVars  == <<chain, evidence, scan>>

Sigs == 1 .. Len(txs)
NoScan == [at |-> None, phase |-> "idle", newest |-> None]

InflowInit ==
    /\ leg \in Legs /\ txs = <<>>
    /\ dropped = [e \in Endpoints |-> 0]
    /\ inflow = {} /\ opening = {} /\ first = [e \in Endpoints |-> None]
    /\ cursor = [e \in Endpoints |-> NoCursor]
    /\ scan = NoScan

--------------------------------------------------------------------------------
(* The chain. *)

Delta(s) == IF txs[s] = Failed THEN 0 ELSE txs[s]
Moved == [s \in Sigs |-> Delta(s)]

\* Credits of the incinerator leave the supply at the end of the block.
BalanceAt(s) == IF leg = "incinerator" THEN 0
                ELSE SumFunctionOnSet(Moved, {t \in Sigs : t <= s})

\* Nobody can spend from a vault or from the incinerator.
Lands(amount) ==
    /\ Len(txs) < MaxTx
    /\ \/ amount = Failed
       \/ amount # Failed /\ amount >= 0
       \/ amount # Failed /\ leg \in {"shared", "paid"} /\ BalanceAt(Len(txs)) + amount >= 0
    /\ txs' = Append(txs, amount)
    /\ UNCHANGED <<leg, dropped, evidence, scan>>

Drops(e) ==
    /\ dropped[e] < MaxDropped /\ dropped[e] < Len(txs)
    /\ dropped' = [dropped EXCEPT ![e] = @ + 1]
    /\ UNCHANGED <<leg, txs, evidence, scan>>

--------------------------------------------------------------------------------
(* One walk: what is listed, and how far its transactions can be read. *)

Listed(e, until, before, tip) == Between({s \in Sigs : s > dropped[e] /\ s <= tip}, tip, until, before)

\* _walk_and_record stops at a transaction it is not returned; a failed one is
\* passed unread.
StopsAt(listed) == {s \in listed : txs[s] # Failed} \cup {None}

\* How far the cursor moves.
Whatever(listed, stop) == listed
Reached(listed, stop) == Passed(listed, stop)

Credits(set) == {s \in set : Delta(s) # 0}
Read(set) == {s \in set : txs[s] # Failed}

Heights == {t \in 0 .. Len(txs) : t + Lag >= Len(txs)}

--------------------------------------------------------------------------------
(* scan_inflows, one endpoint after another (scan_inflows_all_endpoints). *)

\* Nothing is listed behind a backfill that is complete, and nothing ahead of a
\* cursor that never passed a signature.
BeginScan(e) ==
    /\ scan = NoScan
    /\ scan' = [at |-> e, newest |-> cursor[e].last,
                phase |-> IF cursor[e].last # None THEN "forward" ELSE "backward"]
    /\ UNCHANGED <<chain, evidence>>

\* The forward walk is not bound by the pages of a run.
NewestListed(e, tip) == Newest(Listed(e, cursor[e].last, None, tip), 1)
ListedAhead(e, tip) == Listed(e, cursor[e].last, None, tip)

Forward(tip, stop) ==
    LET e == scan.at
        listed == ListedAhead(e, tip)
        passed == Passed(listed, stop)
    IN  /\ scan.phase = "forward" /\ stop \in StopsAt(listed)
        /\ inflow' = inflow \cup Credits(passed)
        /\ scan' = [scan EXCEPT !.phase = "backward", !.newest = LastOf(Reached(listed, stop), @)]
        /\ UNCHANGED <<chain, opening, cursor, first>>

\* The balance before the oldest transaction read is an opening balance, unless
\* the address is grandfathered; where it cannot be read the backfill is not complete.
Admits(set) == leg # "shared" /\ Read(set) # {}
Before(set) == BalanceAt(Min(Read(set)) - 1)

Admitted(set) ==
    IF Admits(set) /\ Before(set) # 0
    THEN {[lamports |-> Before(set), sig |-> Min(Read(set))]} ELSE {}

ListedBehind(e, tip) == Listed(e, None, cursor[e].oldest, tip)
Exhausted(e, tip, stop) == Cardinality(ListedBehind(e, tip)) < Batch /\ stop = None

Backward(tip, stop, readable) ==
    LET e == scan.at
        old == cursor[e]
        listed == Newest(ListedBehind(e, tip), Batch)
        passed == Passed(listed, stop)
        exhausted == Exhausted(e, tip, stop)
    IN  /\ scan.phase = "backward" /\ ~old.complete /\ stop \in StopsAt(listed)
        /\ inflow' = inflow \cup Credits(passed)
        /\ opening' = opening \cup (IF exhausted /\ readable THEN Admitted(passed) ELSE {})
        /\ cursor' = [cursor EXCEPT ![e] =
              [last |-> IF old.last = None THEN LastOf(passed, None) ELSE scan.newest,
               oldest |-> IF passed = {} THEN old.oldest ELSE Min(passed),
               complete |-> exhausted /\ (Admits(passed) => readable)]]
        /\ first' = [first EXCEPT ![e] = IF old.last = None THEN FirstOf(passed) ELSE @]
        /\ scan' = NoScan
        /\ UNCHANGED <<chain>>

NoBackfill ==
    LET e == scan.at
    IN  /\ scan.phase = "backward" /\ cursor[e].complete
        /\ cursor' = [cursor EXCEPT ![e].last = scan.newest]
        /\ scan' = NoScan
        /\ UNCHANGED <<chain, inflow, opening, first>>

\* A call raises, or the process dies: rows are kept, the cursor is not moved.
GivesUp(tip, stop) ==
    LET e == scan.at
        listed == IF scan.phase = "forward"
                  THEN ListedAhead(e, tip)
                  ELSE Newest(ListedBehind(e, tip), Batch)
        passed == Passed(listed, stop)
    IN  /\ scan # NoScan /\ stop \in listed \cup {None}
        /\ scan.phase = "backward" => ~cursor[e].complete
        /\ inflow' = inflow \cup Credits(passed)
        /\ opening' = opening \cup (IF scan.phase = "backward" /\ Exhausted(e, tip, stop)
                                   THEN Admitted(passed) ELSE {})
        /\ scan' = NoScan
        /\ UNCHANGED <<chain, cursor, first>>

--------------------------------------------------------------------------------

Walks == \E tip \in Heights, stop \in Sigs \cup {None} :
            Forward(tip, stop) \/ \E readable \in BOOLEAN : Backward(tip, stop, readable)

ScanSteps == (\E e \in Endpoints : BeginScan(e)) \/ Walks \/ NoBackfill

OnChain == (\E amount \in Amounts \cup {Failed} : Lands(amount)) \/ \E e \in Endpoints : Drops(e)

InflowNext ==
    \/ ScanSteps \/ OnChain
    \/ \E tip \in Heights, stop \in Sigs \cup {None} : GivesUp(tip, stop)

InflowSpec == InflowInit /\ [][InflowNext]_inflowVars

\* The scan runs on a schedule, and on a steady endpoint a walk in the end reads
\* all it lists, from a node that has caught up.
FairInflows ==
    /\ InflowSpec
    /\ WF_inflowVars(ScanSteps)
    /\ \A e \in Steady :
         /\ SF_inflowVars(BeginScan(e))
         /\ SF_inflowVars(scan.at = e /\ Forward(Len(txs), None))
         /\ SF_inflowVars(scan.at = e /\ Backward(Len(txs), None, TRUE))

--------------------------------------------------------------------------------
(* Properties. *)

\* scan_inflows: "new activity must never be missed while a backfill is still
\* in progress".  Whatever was cut short, every inflow between the oldest
\* signature of an endpoint's first walk and its last one is recorded.
NothingNewMissed ==
    \A e \in Endpoints, s \in Sigs :
        /\ first[e] # None /\ s \in first[e] .. cursor[e].last
        /\ s > dropped[e] /\ Delta(s) # 0
        => s \in inflow

\* Once no more come, every inflow since the first signature that a steady endpoint's
\* walks ever passed is recorded, unless the endpoint dropped it before it was read.  An
\* endpoint whose first walk found no history passes none: what becomes of it is
\* EveryInflowRecorded.
NewInflowsRecorded ==
    <>[]\A e \in Steady, s \in Sigs :
        first[e] # None /\ s >= first[e] /\ Delta(s) # 0 => s \in inflow \/ s <= dropped[e]

\* The same of every steady endpoint, as scan_inflows has it: new activity must never be
\* missed.  An address that had no history when it was first walked is complete with no
\* cursor, and is never walked again.
EveryInflowRecorded ==
    <>[]\A e \in Steady, s \in Sigs :
        s >= first[e] /\ Delta(s) # 0 => s \in inflow \/ s <= dropped[e]
================================================================================
