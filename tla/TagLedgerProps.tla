---------------------------- MODULE TagLedgerProps ----------------------------
(***************************************************************************)
(* What TagLedger is checked against: one type invariant, invariants that  *)
(* tie the ledger to the chain, what a step may never do, what must happen *)
(* in the end, and claims of the source's own comments.                    *)
(***************************************************************************)
EXTENDS TagLedger

Places == {"start", "list", "decide", "send", "answer", "drop", "read", "height", "again"}
States == {"none", "queued", "held", "refused", "paid"}

LedgerType ==
    /\ fresh \in [Users -> Nat] /\ aged \in [Users -> Nat] /\ final \in [Users -> Nat]
    /\ booked \subseteq Sig
    /\ debits \in [Slots -> Debit \cup {NoDebit}]
    /\ hold \in [Users -> Hold \cup {NoHold}]
    /\ wallets \in [Users -> WalletRow] /\ named \in [Users -> Naming]
    /\ burned \in BOOLEAN

SiteType == queue \in Seq(Claim) /\ status \in [Users -> States]

ChainType ==
    /\ treasury \in Nat /\ unread \in [Users -> Nat]
    /\ sent \subseteq Debit /\ landed \subseteq Sig /\ failed \subseteq Sig
    /\ tip \in Nat /\ floor \in Nat
    /\ left \in [Users -> Nat]

PlaceType ==
    /\ phase \in DOMAIN Following /\ at \in Places
    /\ cur \in Work \cup {Idle} /\ todo \subseteq Users
    /\ pops \in Nat /\ suspects \subseteq Slots

VetoType == backlog \in BOOLEAN /\ stranded \subseteq Users /\ faults \in Nat

\* Every variable keeps its type: the ledger, the queue, the chain and the tick
\* hold only values their tables, keys and locals can hold.
TypeOK == LedgerType /\ SiteType /\ ChainType /\ PlaceType /\ VetoType

--------------------------------------------------------------------------------
(* Invariants. *)

\* The ledger says exactly what the chain did: what left the treasury for a
\* requester is their final debits and the pending ones that have landed.
BooksMatchChain ==
    \A u \in Users : left[u] = final[u] + RowsOf(u, Landed(InFlight))

\* No interleaving of crash, retry, expiry and reconcile pays or burns more for
\* a requester than their coins credited (claim, debit_pending, reconcile).
NeverOverpaid == \A u \in Users : left[u] <= Credited(u)

\* A held claim's lamports are neither burned nor paid out twice before the
\* owner looks at it (hold, burnable).
HeldIsCovered == \A u \in Users : HeldLamports(u) <= Balance(u)

\* A signature is on the books once: two claims that build the same transaction
\* cannot both be debited by the one payment that lands (debit_pending).
OneDebitPerSignature ==
    \A k \in InFlight :
        /\ debits[k].sig \notin booked
        /\ \A j \in InFlight : debits[j].sig = debits[k].sig => j = k

\* Solvency: the treasury holds its own float and all it was paid less all it
\* delivered; it never pays a fee the ledger does not see (tag_bot's header).
Received == [u \in Users |-> Credited(u) + unread[u]]
EveryFeeSeen == treasury + SumFunction(left) = Float + SumFunction(Received)

--------------------------------------------------------------------------------
(* The inductive invariant: why the invariants above hold. *)

\* A payment's rows are those of its own requester; a burn's may be anybody's.
OwnRows == \A u, v \in Users : u # v => debits[u].rows[v] = 0

\* Whatever may still land is a payment on the books that has not landed yet.
SentIsPending ==
    \A d \in sent :
        /\ \E k \in InFlight : debits[k] = d
        /\ d.sig.hash >= floor
        /\ d.sig \notin landed \cup failed

\* What has landed is on the books, as pending or as final.
LandedIsBooked ==
    /\ booked \subseteq landed
    /\ landed \subseteq booked \cup {debits[k].sig : k \in Slots}

\* The payment that answers a hold is pending, and no smaller than the hold.
LinkIsPaid ==
    \A u \in Users : hold[u].linked => u \in InFlight /\ debits[u].rows[u] >= hold[u].lamports

\* What the tick remembers is still so when it is used: the claim it works on,
\* the approved holds it listed, and the payments it suspects.
Working == at \in {"decide", "answer", "drop"} \/ (at = "send" /\ phase # "burn")

TickIsCurrent ==
    /\ at = "list" => phase = "approved" /\ cur = Idle
    /\ at = "decide" => phase # "burn"
    /\ Working => cur \in Work
    /\ Working /\ at # "decide" => cur.answer # "none"
    /\ at = "drop" => cur.answer = "refused"
    /\ at = "decide" /\ phase = "approved" => cur.most = hold[cur.user].lamports
    /\ at = "send" => (IF phase = "burn" THEN Burn ELSE cur.user) \in InFlight
    /\ \A u \in todo : /\ phase = "approved" /\ cur.user # u
                       /\ hold[u].state = "approved" /\ ~hold[u].linked
    /\ at \in {"height", "again"} => suspects \subseteq InFlight
    /\ at = "again" => \A k \in suspects : Expired(k)

Books == /\ OwnRows /\ OneDebitPerSignature /\ SentIsPending /\ LandedIsBooked
         /\ BooksMatchChain /\ HeldIsCovered /\ LinkIsPaid

IInv == TypeOK /\ TickIsCurrent /\ Books

\* A payment moves exactly what its rows debit.
RowsPaid == \A k \in InFlight : debits[k].sig.lamports = SumFunction(debits[k].rows)

TreasuryInv == RowsPaid /\ EveryFeeSeen

\* A wallet change that waits is the one the requester's claims still name, and
\* it is ready only when the wait since they last named another is over.
WaitIsCurrent ==
    \A u \in Users : wallets[u].pend # NoWallet =>
        /\ named[u].wallet = wallets[u].pend
        /\ wallets[u].ready => named[u].waited

\* A tick that may still burn has left no claim behind.
MayBurn == ~backlog => stranded = {}

\* An answer that refuses is about a requester with nothing pending.
AnswerIsTrue ==
    /\ at = "send" /\ phase # "burn" => cur.answer = "queued"
    /\ at = "answer" /\ cur.answer \in {"refused", "unpaid"} => debits[cur.user].sig = NoSig

TickInv == MayBurn /\ AnswerIsTrue

--------------------------------------------------------------------------------
(* What a step may never do. *)

\* The bot tells a requester `refused' only when no payment to them can still
\* arrive (_requeue, reconcile).
RefusedMeansNothingSent ==
    [][\A u \in Users : (status'[u] = "refused" /\ status[u] # "refused" /\ tickVars' # tickVars)
            => debits'[u].sig = NoSig]_vars

BurnWritten == debits'[Burn] # debits[Burn] /\ debits'[Burn].sig # NoSig

\* A burn takes only credit a week old, and none a held claim is waiting for
\* (burnable).
BurnSparesFreshAndHeld ==
    [][BurnWritten => \A u \in Users : debits'[Burn].rows[u] > 0
            => (Credited(u) - Debited(u))' >= fresh[u] + HeldLamports(u)]_vars

\* A tick that left a claim in the queue burns nothing: a claim that was made
\* in time is not lost to the burn (tick_money, _claims).
BurnWaitsForQueue == [][BurnWritten => stranded = {}]_vars

\* The owner's approval is not undone by another claim, a crash or a payment
\* that expires: it ends paid in full, or refused when it is taken up.
ApprovalStands ==
    [][\A u \in Users : hold[u].state = "approved" =>
            \/ [hold'[u] EXCEPT !.linked = hold[u].linked] = hold[u]
            \/ hold'[u] = NoHold /\ final'[u] - final[u] >= hold[u].lamports
            \/ hold'[u] = NoHold /\ cur # Idle /\ cur.user = u /\ cur.answer = "refused"]_vars

\* A wallet takes the place of the one bound before only when the requester's
\* claims have named it, and no other, for 72 hours; a payment goes to the wallet
\* bound then (claim_decision: a claim to the bound wallet clears the pending
\* change, a new different wallet restarts the wait).
PaidWhereAgreed ==
    [][\A u \in Users :
        /\ wallets'[u].bound # wallets[u].bound /\ wallets[u].bound # NoWallet
            => named[u] = [wallet |-> wallets'[u].bound, waited |-> TRUE]
        /\ debits'[u].sig # debits[u].sig /\ debits'[u].sig # NoSig
            => debits'[u].sig.to = wallets'[u].bound]_vars

--------------------------------------------------------------------------------
(* What must happen. *)

\* Every payment written ahead is settled in the end, whatever became of it:
\* nobody's claims stay blocked (reconcile).
PendingSettles == \A k \in Slots : debits[k].sig # NoSig ~> debits[k].sig = NoSig

--------------------------------------------------------------------------------
(* The ledger implements the abstract account of every requester. *)

Unlanded(k, u) == IF debits[k].sig \in landed THEN 0 ELSE debits[k].rows[u]

Account == INSTANCE Payouts WITH
    earned   <- [u \in Users |-> Credited(u)],
    promised <- [u \in Users |-> HeldLamports(u)],
    paying   <- [u \in Users |-> Unlanded(u, u)],
    burning  <- [u \in Users |-> Unlanded(Burn, u)],
    given    <- left

\* Whatever the tick, the chain and a crash do, each step is one the account
\* allows: money is set aside out of what is free before it leaves.
KeepsAccount == Account!Spec

================================================================================
