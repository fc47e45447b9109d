-------------------------------- MODULE Record --------------------------------
(***************************************************************************)
(* What is said of a coin: the record of an observation on the site and    *)
(* replayed from the log (indexer/observe.py, indexer/publish.py), the     *)
(* coin page, the index and the landing page (indexer/site.py,             *)
(* api/verify.py), the row of what no recorded burn explains               *)
(* (indexer/reconcile.py), and the list of the protocol's own burns        *)
(* (indexer/protocol_burns.py).                                            *)
(*                                                                         *)
(* Abstraction.  Of all that was said of the coin the last is kept: what a *)
(* line claims of the past stays true or false; so an index is written of  *)
(* the record written last.                                                *)
(***************************************************************************)
EXTENDS Checks

CONSTANT Page       \* SIGNATURE_PAGE

ASSUME RecordAssumption == Page \in Nat /\ None \notin [rows : SUBSET Nat, complete : BOOLEAN]

VARIABLES
    said,       \* the last line of the log as `log' replays it, page, record,
                \* index or RECONCILIATION.md, whichever was written last
    file        \* web/protocol-burns.json

recordVars == <<coin, store, said, file, faults>>

RecordInit == CoinInit /\ said = None /\ file = None

--------------------------------------------------------------------------------
(* The record. *)

\* What there is to say of each address: nothing without the store.
Sums(st, shown) ==
    IF st = None THEN <<>> ELSE [a \in {b \in Addresses : LegOf(b) \in shown} |-> st.inflow[a].sum]
Destroyed(st) == IF st = None THEN None ELSE st.seen
Left(st) == IF st = None THEN None ELSE Supply

Made(st, blocked, shown) ==
    [kind |-> "record", blocked |-> blocked,
     split |-> IF "split" \in shown THEN coin.config.split ELSE None,
     sums |-> Sums(st, {leg \in {"sol_burn", "paid"} :
                    (leg = "sol_burn" /\ "sol_burn_total" \in shown) \/ (leg = "paid" /\ "ops_total" \in shown)}),
     destroyed |-> IF "supply_destroyed" \in shown THEN Destroyed(st) ELSE None,
     supply |-> IF "supply_destroyed" \in shown THEN Left(st) ELSE None]

\* As the first schema wrote it, and durable_record: figures that may be said.
Legacy(st, blocked) == Made(st, blocked, Figures)
Durable(st, blocked) == Made(st, blocked, Figures \ blocked)

\* gate_stored_record: what a replay of a stored line shows.
Hidden(line, figure, value, nothing) == IF figure \in line.blocked THEN nothing ELSE value
SumsKept(line) == line.sums
SumsGated(line) ==
    IF line.blocked \cap {"sol_burn_total", "ops_total"} = {} THEN line.sums ELSE <<>>

Gated(line) ==
    [line EXCEPT !.split = Hidden(line, "split", @, None),
                 !.destroyed = Hidden(line, "supply_destroyed", @, None),
                 !.sums = SumsGated(line)]

--------------------------------------------------------------------------------
(* The coin page (render). *)

\* _figure_row: its value, or `withheld'.
Row(figure, blocked, value) == IF figure \in blocked THEN None ELSE value

LegTotal(st, leg) ==
    IF st = None THEN None ELSE MapThenSumSet(LAMBDA a : st.inflow[a].sum, OnLeg(leg))

\* Enrolled until its admin changes the config, or for good.
Enrolment(reading) ==
    CASE reading # "enrolled" -> "no"
      [] reading = "enrolled" /\ coin.fixed -> "fixed"
      [] reading = "enrolled" /\ ~coin.fixed -> "until"

\* Whether the payout crank runs for it (_log), and the burns it lists.
Cranked(reading) == reading = "enrolled"
Listed(st) == IF st = None THEN 0 ELSE st.seen

Report(st, blocked, reading) ==
    [kind |-> "page", blocked |-> blocked,
     enrolled |-> Enrolment(reading), cranked |-> Cranked(reading), events |-> Listed(st),
     split |-> Row("split", blocked, coin.config.split),
     sol_burn |-> Row("sol_burn_total", blocked, LegTotal(st, "sol_burn")),
     ops |-> Row("ops_total", blocked, LegTotal(st, "paid")),
     destroyed |-> Row("supply_destroyed", blocked, Destroyed(st)),
     supply |-> Row("supply_destroyed", blocked, Left(st))]

\* read_sharing_config: what the curve names as creator is a config.
Splits == coin.creator = "config"

\* A coin whose creator was replaced is known from the config recorded of it.
Replaced(st) == st # None /\ st.recorded /\ coin.creator = "other"
NoSplit(st) ==
    [kind |-> IF Replaced(st) THEN "replaced" ELSE "unsplit", blocked |-> {}]

\* read_bonding_curve, read_sharing_config, read_mint: one of them failed, or a
\* config handed in is not the one the curve names.
Unread == [kind |-> "error", blocked |-> {}]

\* What /verify shows of it: that the chain could not be read, and no figure.
Unavailable == [kind |-> "unavailable", blocked |-> {}]

\* The page, or its record.
Rendered(st) ==
    \E checks \in {Checks(st, {})} : \E blocked \in {Blocked(checks)} :
        said' \in {Report(st, blocked, Reading(checks)), Durable(st, blocked)}

--------------------------------------------------------------------------------
(* observe --store, intake --refresh, /verify, site, index, reconcile. *)

Observe ==
    /\ \E st \in {None, store}, failed \in SUBSET OnLeg("sol_burn") :
         /\ Costs(Cardinality(failed))
         /\ IF Splits
            THEN \E blocked \in {Blocked(Checks(st, failed))} :
                   said' \in {Gated(Legacy(st, blocked)), Gated(Durable(st, blocked))}
            ELSE said' = NoSplit(st)
    /\ UNCHANGED <<coin, store, file>>

\* A line in the log, a 503 of /verify; no page is overwritten.
ObserveFails ==
    /\ Costs(1)
    /\ said' \in {Unread, Unavailable}
    /\ UNCHANGED <<coin, store, file>>

\* _refresh_pages: what could not be observed keeps its page.
Refresh ==
    /\ Splits
    /\ Rendered(store)
    /\ UNCHANGED <<coin, store, file, faults>>

\* /verify of a coin that has no page: read live, and without the store.
Verify ==
    /\ IF Splits THEN Rendered(None) ELSE said' = NoSplit(None)
    /\ UNCHANGED <<coin, store, file, faults>>

\* A row for every web/*.json, and how many coins were observed
\* (coverage_statement).
Rows == {"coin"} \cup (IF file = None THEN {} ELSE {"protocol-burns"})
Observed == Cardinality(Rows)
IndexRow(line) == Gated(line).split

IndexPage(line) ==
    [kind |-> "index", blocked |-> line.blocked \cap {"split"},
     split |-> IndexRow(line), observed |-> Observed]

Index ==
    /\ said # None /\ said.kind = "record"
    /\ said' = IndexPage(said)
    /\ UNCHANGED <<coin, store, file, faults>>

\* site --landing --require-counters: not written with a counter unknown.
Counters == [events |-> store.seen, supply |-> Supply]
UnknownCounters == ~Splits \/ store.initial # "known" \/ store.seen = 0

LandingPage ==
    [kind |-> "landing", blocked |-> {}, events |-> Counters.events, supply |-> Counters.supply]

Landing ==
    /\ ~UnknownCounters
    /\ said' = LandingPage
    /\ UNCHANGED <<coin, store, file, faults>>

\* What no recorded burn explains, unless the supply at creation is not known; the
\* row says whether the walk of the burns was ever complete (record_discrepancy).
Residual == IF store.initial = "known" THEN Initial - Supply - store.seen ELSE None
Discrepancy(residual) ==
    [residual |-> residual, destroyed |-> store.seen, supply |-> Supply, complete |-> store.walked]

\* RECONCILIATION.md: of a residual that cannot be computed, nothing else either.
Rendering(row) ==
    IF row.residual = None
    THEN [kind |-> "residual", blocked |-> {}, complete |-> row.complete]
    ELSE [kind |-> "residual", blocked |-> {}, residual |-> row.residual,
          destroyed |-> row.destroyed, supply |-> row.supply, complete |-> row.complete]

Reconcile ==
    /\ said' = Rendering(Discrepancy(Residual))
    /\ UNCHANGED <<coin, store, file, faults>>

--------------------------------------------------------------------------------
(* protocol_burns: the wallet's own transactions, walked from its newest. *)

\* find_burns, find_swap_shaped, of the transaction of the k-th burn.
OnItsAuthority(k) == coin.burns[k] \in {"bought", "bare"}
BesideASwap(k) == coin.burns[k] # "bare"

ByWallet == {k \in DOMAIN coin.burns : OnItsAuthority(k)}
\* burns_in: landed, on the wallet's authority, a swap beside it.
Qualifies(k) == OnItsAuthority(k) /\ BesideASwap(k)

Known == IF file = None THEN {} ELSE file.rows
Newest(n, of) == {k \in of : Cardinality({l \in of : l > k}) < n}

SinceNewest(listed) == {k \in listed : \A l \in Known : k > l}
Unseen(listed) == listed \ Known

\* A node may list fewer than there are, and answer nothing for one it lists.
WalkWallet(listed, unread) ==
    /\ unread \subseteq Unseen(listed)
    /\ file' = [rows |-> Known \cup {k \in Unseen(listed) \ unread : Qualifies(k)},
                complete |-> unread = {} /\ Cardinality(listed) < Page]
    /\ UNCHANGED <<coin, store, said>>

Full == Newest(Page, ByWallet)
Walk ==
    Charlie /\ \E listed \in SUBSET Full : \E unread \in SUBSET listed :
        WalkWallet(listed, unread) /\ Costs(Count(listed # Full \/ unread # {}))

--------------------------------------------------------------------------------

Surfaces == Observe \/ ObserveFails \/ Refresh \/ Verify \/ Index \/ Landing \/ Reconcile
RecordNext ==
    \/ World /\ UNCHANGED <<said, file>>
    \/ Scan /\ UNCHANGED <<said, file>>
    \/ Surfaces
    \/ Walk

RecordSpec == RecordInit /\ [][RecordNext]_recordVars

--------------------------------------------------------------------------------
(* Properties. *)

\* The figures a reader can take from a line.
Reveals(line) ==
    {f \in Figures :
        \/ f = "split" /\ line.kind \in {"record", "page", "index"} /\ line.split # None
        \/ f = "supply_destroyed" /\ line.kind \in {"record", "page"} /\ line.destroyed # None
        \/ /\ line.kind = "record"
           /\ \/ f = "sol_burn_total" /\ \E a \in DOMAIN line.sums : LegOf(a) = "sol_burn"
              \/ f = "ops_total" /\ \E a \in DOMAIN line.sums : LegOf(a) = "paid"
        \/ /\ line.kind = "page"
           /\ \/ f = "sol_burn_total" /\ line.sol_burn # None
              \/ f = "ops_total" /\ line.ops # None}

\* Neither a replay nor a page lets a withheld figure out, not even of a record
\* written before there was a gate (publish: `durable_record',
\* `gate_stored_record').  The landing page and RECONCILIATION.md have no gate to
\* let anything through: they print the sum of the recorded burns as it is.
WithheldIsNotShown == said # None => Reveals(said) \cap said.blocked = {}

\* What is shown holds: a split is whole and the coin's own, what is destroyed
\* was, stays so and leaves nothing for `reconcile' to explain, and no total is
\* above what was paid (the silence rule); and a page that calls a coin enrolled
\* for good stays true, but for pump's admin, as one does that says the creator
\* was replaced (site: `no key the coin's admin or Charlie holds can alter this').
ShownHolds ==
    said # None =>
        /\ "split" \in Reveals(said) => Total(said.split) = TotalBps /\ coin.config.own
        /\ "supply_destroyed" \in Reveals(said) =>
            /\ ~coin.authority /\ said.destroyed <= Len(coin.burns)
            /\ Initial - said.destroyed = said.supply
        /\ said.kind \in {"page", "landing"} => said.events <= Len(coin.burns)
        /\ said.kind = "record" => \A a \in DOMAIN said.sums : said.sums[a] <= coin.paid[a]
        /\ said.kind = "page" /\ said.enrolled = "fixed" =>
            coin.creator = "other" \/ ProtocolShare(coin.config.split)
        /\ said.kind = "replaced" => ~Splits

\* A row once read is never lost to a short history, and a walk that the node listed the
\* whole page to, and answered for, leaves none of the page out, whatever walks before it
\* could not read (protocol_burns: `leave it for the next run').
BurnsAreRead ==
    [][/\ Known \subseteq Known'
       /\ file' # file /\ faults' = faults =>
            \A k \in Full : Qualifies(k) => k \in Known']_recordVars

\* protocol_burns, Coverage: `complete means the total is exact'.  A node that is behind
\* lists a short page, and answers for all that it lists.
ExactIsExact ==
    [][file' # file /\ file'.complete =>
        \A k \in ByWallet : Qualifies(k) => k \in Known']_recordVars
================================================================================
