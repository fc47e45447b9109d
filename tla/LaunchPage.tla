------------------------------ MODULE LaunchPage ------------------------------
(***************************************************************************)
(* The launch door: the page (indexer/launch_page.py, its script), the     *)
(* two builders it asks (api/launch.py with indexer/mint_pool.py,          *)
(* api/enroll.py with indexer/enroll.py), the relay it sends through       *)
(* (indexer/relay.py), the wallet, and the chain.                          *)
(*                                                                         *)
(* Two approvals: one transaction creates the coin, a second one spends    *)
(* its only change of the fee split.                                       *)
(*                                                                         *)
(* Abstractions.  One dev on one page; another tab and other devs act on   *)
(* the chain alone.  A blockhash lives about a minute, so whatever was     *)
(* signed for an approval is decided when the page has waited two.         *)
(***************************************************************************)
EXTENDS Legs, Sequences, Functions, TLC

CONSTANTS
    Pool,           \* the pre-ground mints, in order
    Forms,          \* the rows a dev may type
    Rates,          \* the tolls a page may have been told when it was opened
    Details,        \* the names, tickers and images a dev may give
    Dev, Others,    \* the dev, and anybody else
    None,           \* nothing of its kind
    MaxApprovals,   \* bound: approvals asked of the wallet
    MaxFaults       \* bound: failed requests, lost sends, old checks, other tabs

ASSUME LaunchPageAssumption ==
    /\ Pool \in Seq(Range(Pool)) \ {<<>>} /\ Forms # {} /\ Details # {} /\ TollBps \in Rates
    /\ Dev # Others /\ {MaxApprovals, MaxFaults} \subseteq Nat
    /\ \A rows \in Forms, rate \in Rates : ShareRows(rows, rate, Dev) # None

VARIABLES
    coin,       \* mint -> who created it and the split it was given
    tx,         \* transaction -> what has become of it
    page,       \* the page's `state'
    request,    \* what is asked of /api/launch: an upload, a build
    faults      \* (bound) faults so far

vars == <<coin, tx, page, request, faults>>

Mints == Range(Pool)
NoCoin == [creator |-> "nobody", split |-> None]
Unset(m) == coin[m].creator = Dev /\ coin[m].split = None

\* rows, details: the form; uri: the details uploaded; built, enroll: what the
\* server checked and simulated, still fresh, for shares and the uri named;
\* sent: the transaction waited for; signed: the one sent again meanwhile;
\* seen: the last answer of a status read; again: the button `Check again'.
Draft(rows, rate, details, uri) ==
    [phase |-> "draft", locked |-> FALSE, rows |-> rows, rate |-> rate, details |-> details,
     uri |-> uri, built |-> FALSE, mint |-> None, shares |-> None, named |-> None,
     enroll |-> FALSE, sent |-> None, signed |-> None, seen |-> "null", again |-> FALSE, tries |-> 0, n |-> 0]

Init ==
    /\ coin = [m \in Mints |-> NoCoin]
    /\ tx = <<>>
    /\ \E rows \in Forms, rate \in Rates, details \in Details :
         \E uri \in {None, details} : page = Draft(rows, rate, details, uri)
    /\ request = [pin |-> None, build |-> None]
    /\ faults = 0

Costs(n) == faults + n <= MaxFaults /\ faults' = faults + n
Fault == Costs(1)
Count(condition) == IF condition THEN 1 ELSE 0

--------------------------------------------------------------------------------
(* The chain. *)

Status(t) == tx[t]
Becomes(t, status) ==
    tx' = [s \in DOMAIN tx \cup {t} |-> IF s = t THEN status ELSE tx[s]]

\* pump's create needs a new mint; update_fee_shares_v2 the creator, and a split
\* never set.
Works(t) == IF t.kind = "create" THEN coin[t.mint] = NoCoin ELSE Unset(t.mint)

Lands(t) ==
    /\ Status(t) = "flying"
    /\ IF Works(t)
       THEN /\ Becomes(t, "landed")
            /\ coin' = [coin EXCEPT ![t.mint] =
                    [creator |-> Dev, split |-> IF t.kind = "create" THEN None ELSE t.split]]
       ELSE Becomes(t, "failed") /\ UNCHANGED coin
    /\ UNCHANGED <<page, request, faults>>

\* A transaction the node dropped, or one nobody sent: its blockhash is over.
Expires(t) ==
    /\ Status(t) \in {"signed", "flying"}
    /\ Costs(Count(Status(t) = "flying" \/ (t.n = page.n /\ page.sent = None)))
    /\ Becomes(t, "gone")
    /\ UNCHANGED <<coin, page, request>>

\* Two builds in the same second can be handed the same key (mint_pool.py).
TakenByOthers(m) ==
    /\ coin[m] = NoCoin /\ Fault
    /\ coin' = [coin EXCEPT ![m].creator = Others]
    /\ UNCHANGED <<tx, page, request>>

\* The same wallet sets the split at /enroll, in another tab.
EnrolledElsewhere(m, split) ==
    /\ Unset(m) /\ Accepts(split) /\ Fault
    /\ coin' = [coin EXCEPT ![m].split = split]
    /\ UNCHANGED <<tx, page, request>>

--------------------------------------------------------------------------------
(* The form: any edit invalidates what was built for it. *)

Unlocked == ~page.locked

Invalidated(p) == [p EXCEPT !.built = FALSE, !.mint = None]

Outdated == [k \in DOMAIN request |->
    IF request[k] = None THEN None ELSE [request[k] EXCEPT !.current = FALSE]]
Asks(kind, what) == request' = [Outdated EXCEPT ![kind] = what]
Ends(kind) == request' = [request EXCEPT ![kind] = None]

Edits(rows) ==
    /\ Unlocked /\ rows # page.rows
    /\ page' = [Invalidated(page) EXCEPT !.rows = rows]
    /\ request' = Outdated
    /\ UNCHANGED <<coin, tx, faults>>

Renames(details) ==
    /\ Unlocked /\ details # page.details
    /\ page' = [Invalidated(page) EXCEPT !.details = details, !.uri = None]
    /\ request' = Outdated
    /\ UNCHANGED <<coin, tx, faults>>

--------------------------------------------------------------------------------
(* pin, and POST /api/launch: the details, uploaded. *)

Pin ==
    /\ ~page.locked /\ request.pin = None
    /\ page' = Invalidated(page)
    /\ Asks("pin", [details |-> page.details, current |-> TRUE])
    /\ UNCHANGED <<coin, tx, faults>>

Pinned ==
    /\ request.pin # None
    /\ page' = IF request.pin.current THEN [page EXCEPT !.uri = request.pin.details] ELSE page
    /\ Ends("pin")
    /\ UNCHANGED <<coin, tx, faults>>

PinFails ==
    /\ request.pin # None /\ Ends("pin")
    /\ Costs(Count(request.pin.current))
    /\ UNCHANGED <<coin, tx, page>>

--------------------------------------------------------------------------------
(* build, and GET /api/launch. *)

Shown == ShareRows(page.rows, page.rate, Dev)

Build ==
    /\ ~page.locked /\ request.build = None /\ page.n < MaxApprovals
    /\ page.uri # None
    /\ Complete(page.rows) /\ \A a \in DOMAIN Shown : Shown[a] > 0
    /\ page' = Invalidated(page)
    /\ Asks("build", [shares |-> Shown, uri |-> page.uri, mint |-> None, current |-> TRUE])
    /\ UNCHANGED <<coin, tx, faults>>

\* mint_pool.pick: the first key whose mint account does not exist yet.
Unused == {k \in DOMAIN Pool : coin[Pool[k]] = NoCoin}

\* _build: launch.preflight, the mint, and a simulation that succeeds.
Asked == request.build
Answers ==
    /\ Asked # None /\ Asked.mint = None
    /\ Accepts(Asked.shares) /\ Unused # {}
    /\ request' = [request EXCEPT !.build.mint = Pool[Min(Unused)]]
    /\ UNCHANGED <<coin, tx, page, faults>>

\* An answer for a form that has changed is dropped.
AnyAnswer == TRUE
StillAsked == Asked.current

Arrives ==
    /\ Asked # None /\ Asked.mint # None
    /\ page' = IF StillAsked
               THEN [page EXCEPT !.built = TRUE, !.shares = Asked.shares, !.named = Asked.uri,
                                 !.mint = Asked.mint]
               ELSE page
    /\ Ends("build")
    /\ UNCHANGED <<coin, tx, faults>>

\* The server refuses, or the request is lost.
BuildFails ==
    /\ Asked # None /\ Ends("build")
    /\ Costs(Count(Asked.mint # None \/ (Accepts(Asked.shares) /\ Unused # {})))
    /\ UNCHANGED <<coin, tx, page>>

\* More than 45 seconds old: not signed any more (send).
TooOld ==
    /\ page.phase \in {"draft", "review2"} /\ (page.built \/ page.enroll) /\ Fault
    /\ IF page.phase = "review2"
       THEN page' = [page EXCEPT !.enroll = FALSE, !.again = TRUE] /\ UNCHANGED request
       ELSE page' = Invalidated(page) /\ request' = Outdated
    /\ UNCHANGED <<coin, tx>>

--------------------------------------------------------------------------------
(* send, signThenSend and POST /api/launch?send=1. *)

Second == page.phase \in {"approving2", "wait2"}

\* Signed by the dev as it was built, or as the wallet rewrote it.
Transaction(by) ==
    [kind |-> IF Second THEN "split" ELSE "create", mint |-> page.mint,
     split |-> page.shares, by |-> by, n |-> page.n]

Send ==
    /\ page.n < MaxApprovals
    /\ \/ page.phase = "draft" /\ page.built
       \/ page.phase = "review2" /\ page.enroll
    /\ page' = [page EXCEPT !.phase = IF page.phase = "draft" THEN "approving1" ELSE "approving2",
                            !.locked = TRUE, !.n = @ + 1, !.tries = 0, !.signed = None, !.sent = None]
    /\ UNCHANGED <<coin, tx, request, faults>>

Approving == page.phase \in {"approving1", "approving2"}
Waiting == page.phase \in {"wait1", "wait2"}
Waits(t) == [page EXCEPT !.phase = IF Second THEN "wait2" ELSE "wait1", !.sent = t, !.seen = "null"]

\* signTransaction: the bytes exist from here on.
Signs ==
    /\ Approving /\ Transaction("page") \notin DOMAIN tx /\ page.tries = 0
    /\ Becomes(Transaction("page"), "signed")
    /\ UNCHANGED <<coin, page, request, faults>>

Tries == Approving /\ Transaction("page") \in DOMAIN tx /\ page.tries < 3
Flies(t) == IF Status(t) = "signed" THEN Becomes(t, "flying") ELSE UNCHANGED tx

Relayed ==
    /\ Tries /\ Flies(Transaction("page"))
    /\ page' = [Waits(Transaction("page")) EXCEPT !.signed = Transaction("page")]
    /\ UNCHANGED <<coin, request, faults>>

\* The relay did not answer: the transaction may have been handed on all the same.
RelayLost ==
    /\ Tries /\ Fault
    /\ Flies(Transaction("page")) \/ UNCHANGED tx
    /\ page' = [page EXCEPT !.tries = @ + 1]
    /\ UNCHANGED <<coin, request>>

\* `Not sent': relay.check refused what the wallet made of it.
RelayRefuses ==
    /\ Tries /\ Fault
    /\ page' = [page EXCEPT !.tries = 3]
    /\ UNCHANGED <<coin, tx, request>>

FallsBack == Approving /\ (page.tries = 3 \/ Transaction("page") \notin DOMAIN tx)

\* signAndSendTransaction: rewritten by the wallet, and sent or not.
WalletSends ==
    /\ FallsBack
    /\ Costs(Count(page.tries # 3))
    /\ \E status \in {"flying", "signed"} : Becomes(Transaction("wallet"), status)
    /\ page' = Waits(Transaction("wallet"))
    /\ UNCHANGED <<coin, request>>

\* The coin was not made, as far as the page knows.
BackToDraft(p) == [Invalidated(p) EXCEPT !.phase = "draft", !.locked = FALSE, !.sent = None]
\* The split is still to be set; `Check again' is shown.
WithoutButton(p) == [p EXCEPT !.phase = "review2", !.enroll = FALSE]
BackToReview(p) == [p EXCEPT !.phase = "review2", !.enroll = FALSE, !.again = TRUE]

\* 4001: back to the draft, or to the review of the split.
Rejects ==
    /\ FallsBack /\ Fault
    /\ page' = IF Second THEN BackToReview(page) ELSE BackToDraft(page)
    /\ UNCHANGED <<coin, tx, request>>

\* The wallet answers with no usable signature.
NoResult ==
    /\ FallsBack /\ Fault
    /\ Becomes(Transaction("wallet"), "flying") \/ UNCHANGED tx
    /\ page' = [page EXCEPT !.phase = "unknown"]
    /\ UNCHANGED <<coin, request>>

--------------------------------------------------------------------------------
(* waitForConfirmation, and GET /api/launch?status. *)

Reading == Waiting /\ ~page.again

Landed(t) == Status(t) = "landed"

\* Nothing to conclude yet; the same bytes are sent again.
ReadsNothing ==
    /\ Reading /\ Status(page.sent) \notin {"landed", "failed"}
    /\ \E seen \in IF Status(page.sent) = "flying" THEN {"no", "yes"} ELSE {"no"} :
         page' = [page EXCEPT !.seen = seen]
    /\ IF page.signed = None THEN UNCHANGED tx ELSE Flies(page.signed)
    /\ UNCHANGED <<coin, request, faults>>

\* prepareSplit, and GET /api/enroll: enroll.preflight and a simulation.
Simulates == Unset(page.mint) /\ Accepts(page.shares)

PrepareSplit(p, ok) ==
    /\ ok => Simulates
    /\ page' = IF ok THEN [p EXCEPT !.phase = "review2", !.enroll = TRUE] ELSE BackToReview(p)
Lost(ok) == Count(Simulates /\ ~ok)

CoinConfirmed ==
    /\ Reading /\ ~Second /\ Landed(page.sent)
    /\ \E ok \in BOOLEAN : PrepareSplit([page EXCEPT !.sent = None], ok) /\ Costs(Lost(ok))
    /\ UNCHANGED <<coin, tx, request>>

\* A curve that exists is no evidence that the split landed.
CurveIsEnough == page.mint \in Mints /\ coin[page.mint] # NoCoin
SplitLanded == Landed(page.sent)

Done ==
    /\ Reading /\ Second /\ SplitLanded
    /\ page' = [page EXCEPT !.phase = "done", !.again = FALSE]
    /\ UNCHANGED <<coin, tx, request, faults>>

Fails ==
    /\ Reading /\ Status(page.sent) = "failed"
    /\ page' = IF Second THEN BackToReview([page EXCEPT !.sent = None]) ELSE BackToDraft(page)
    /\ UNCHANGED <<coin, tx, request, faults>>

\* Two minutes have passed.
Over ==
    /\ Reading
    /\ \A t \in DOMAIN tx : t.n = page.n => Status(t) \notin {"signed", "flying"}

\* The last status read knew of no such signature; no read since then answered.
Dropped ==
    /\ Over /\ page.seen = "no"
    /\ \E ok \in BOOLEAN :
         /\ IF Second THEN PrepareSplit([page EXCEPT !.sent = None], ok)
                      ELSE ok /\ page' = BackToDraft(page)
         /\ Costs(Count(Status(page.sent) # "gone") + (IF Second THEN Lost(ok) ELSE 0))
    /\ UNCHANGED <<coin, tx, request>>

StaysUnknown ==
    /\ Over /\ page.seen # "no" /\ Fault
    /\ page' = [page EXCEPT !.again = TRUE]
    /\ UNCHANGED <<coin, tx, request>>

CheckAgain ==
    /\ page.again
    /\ IF page.phase = "review2"
       THEN \E ok \in BOOLEAN : PrepareSplit([page EXCEPT !.again = FALSE], ok) /\ Costs(Lost(ok))
       ELSE page' = [page EXCEPT !.again = FALSE, !.seen = "null"] /\ UNCHANGED faults
    /\ UNCHANGED <<coin, tx, request>>

--------------------------------------------------------------------------------

Chain ==
    \/ \E t \in DOMAIN tx : Lands(t) \/ Expires(t)
    \/ \E m \in Mints :
        TakenByOthers(m) \/ \E rows \in Forms : EnrolledElsewhere(m, ShareRows(rows, TollBps, Dev))
Server == Pinned \/ PinFails \/ Answers \/ Arrives \/ BuildFails
Wallet == Signs \/ Relayed \/ RelayLost \/ RelayRefuses \/ WalletSends \/ Rejects \/ NoResult
Wait == CoinConfirmed \/ Done \/ Fails \/ Dropped \/ StaysUnknown
Clicks ==
    \/ (\E rows \in Forms : Edits(rows)) \/ (\E details \in Details : Renames(details))
    \/ Pin \/ Build \/ TooOld \/ Send \/ CheckAgain

Next == Chain \/ Server \/ Wallet \/ ReadsNothing \/ Wait \/ Clicks

Spec == Init /\ [][Next]_vars

\* The chain and the page go on, and a dev who has a coin presses what the page
\* shows: the button that signs, or `Check again'.
FairSpec ==
    /\ Spec
    /\ WF_vars(\E t \in DOMAIN tx : Lands(t))
    /\ WF_vars(\E t \in DOMAIN tx : Expires(t))
    /\ WF_vars(ReadsNothing) /\ WF_vars(Wait)
    /\ WF_vars(Send) /\ WF_vars(CheckAgain) /\ WF_vars(Wallet)

--------------------------------------------------------------------------------
(* Properties. *)

\* What is signed is what the form shows, however late an answer arrives
\* (build: the revision; locked: no edit once the first approval is asked).
BuiltAsShown ==
    page.built \/ page.locked =>
        page.shares = Shown /\ page.named = page.details /\ page.mint # None

\* No coin is made for a split that would not enrol it
\* (api/launch.py: `reject impossible splits BEFORE asking the creator to pay').
CoinTakesItsSplit == \A t \in DOMAIN tx : Valid(t.split) /\ ProtocolShare(t.split)

\* `Confirmed' is said of the coin this dev created, with the split reviewed,
\* and the protocol's own check calls it enrolled (done, protocol_share).
DoneMeansSet ==
    page.phase = "done" =>
        /\ coin[page.mint] = [creator |-> Dev, split |-> page.shares]
        /\ ProtocolShare(page.shares)

\* A dev who goes on gets the split set, unless the wallet gave no answer.
CoinGetsItsSplit ==
    \A m \in Mints :
        page.phase = "review2" /\ page.mint = m ~> ~Unset(m) \/ page.phase = "unknown"
================================================================================
