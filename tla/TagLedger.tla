------------------------------- MODULE TagLedger -------------------------------
(***************************************************************************)
(* The X-tag bot's money: what each requester is owed, the payments made   *)
(* out of the payout treasury, and the chain those payments land on.       *)
(*                                                                         *)
(* The ledger (indexer/tag_ledger.py) is a SQLite file and survives a      *)
(* crash; the place inside a money tick (indexer/tag_bot.py) does not.     *)
(* Beside the bot run the chain, the claim site, which queues claims and   *)
(* writes a status, and the owner's `--approve-held' process.              *)
(*                                                                         *)
(* Abstractions.  The sums the ledger takes over its rows are kept as      *)
(* totals per user.  Ages are kept as the class the code compares: a       *)
(* credit is fresh until its week is over, a wallet change is not ready    *)
(* until its 72 hours are.  The two claim caps compare lamports with       *)
(* constants nothing else depends on, so either may hold back any queued   *)
(* claim.  A status is its state only.                                     *)
(***************************************************************************)
EXTENDS Integers, Sequences, Functions, FiniteSets

CONSTANTS
    Users,          \* X user IDs with a tag coin
    Wallets,        \* wallets a claim may name
    NoWallet,       \* the NULL of tag_wallets
    Toll,           \* legs.TOLL_DESTINATION, where a burn is sent
    Burn,           \* the slot of the one pending burn
    CreditSizes,    \* lamports one distribute may pay the treasury
    Float,          \* the treasury's own lamports at the start
    Fee,            \* TX_FEE_LAMPORTS
    Rent,           \* RENT_EXEMPT_MIN_LAMPORTS
    MinClaim,       \* MIN_CLAIM_LAMPORTS
    MinBurn,        \* MIN_BURN_LAMPORTS
    MaxClaims,      \* MAX_CLAIMS_PER_TICK
    StaleReads,     \* may a status read miss a payment that has landed?
    MaxCredit,      \* bound: lamports one user's coins ever pay
    MaxHash,        \* bound: the last blockhash
    MaxQueue,       \* bound: claims waiting in the queue
    MaxFaults       \* bound: crashes and raised exceptions

ASSUME ConstantsAssumption ==
    /\ IsFiniteSet(Users) /\ Burn \notin Users
    /\ NoWallet \notin Wallets \cup {Toll} /\ Toll \notin Wallets
    /\ CreditSizes \subseteq Nat \ {0}
    /\ Float \in Nat /\ Fee \in Nat /\ Rent \in Nat
    /\ MinClaim \in Nat \ {0} /\ MinBurn \in Nat \ {0}
    /\ MinClaim - Fee >= Rent    \* so a claim never leaves a new wallet below rent
    /\ MaxClaims \in Nat \ {0}
    /\ StaleReads \in BOOLEAN
    /\ MaxCredit \in Nat /\ MaxHash \in Nat /\ MaxQueue \in Nat /\ MaxFaults \in Nat

VARIABLES
    \* the ledger file
    fresh,      \* user -> credits recorded less than a week ago
    aged,       \* user -> credits at least a week old
    final,      \* user -> debits in state final
    booked,     \* the signatures of the final debits
    debits,     \* slot -> the pending debit rows under one signature
    hold,       \* user -> the open row of tag_held
    wallets,    \* user -> the row of tag_wallets
    named,      \* (history) user -> the wallet their claims name in place of the bound
                \* one, since they last named another, and whether that is 72 hours
    burned,     \* the stamp under LAST_BURN_KEY is less than a day old
    \* the site's KV
    queue,      \* claim:queue
    status,     \* user -> the state in claim:status
    \* the chain
    treasury,   \* lamports of the payout treasury
    unread,     \* user -> inflow the scan has not read
    sent,       \* transactions in flight
    landed,     \* signatures that landed
    failed,     \* signatures that landed with an error
    tip,        \* the newest finalized blockhash
    floor,      \* the oldest blockhash a transaction can still land on
    left,       \* (history) user -> lamports that left the treasury for them
    \* the bot's memory
    phase, at,  \* the step of the money tick, and the place inside it
    cur,        \* the claim being worked on
    todo,       \* approved holds this tick still has to pay
    pops,       \* claims popped this tick
    suspects,   \* slots whose signature the last status read did not know
    backlog,    \* this tick must not burn
    stranded,   \* (history) whose claims the claims step left in the queue
    faults      \* (bound) crashes and exceptions so far

totals     == <<fresh, aged, final, booked>>
naming     == <<wallets, named>>
ledgerVars == <<totals, debits, hold, naming, burned>>
kvVars     == <<queue, status>>
signed     == <<sent, landed, failed, tip, floor>>
chainVars  == <<treasury, unread, signed, left>>
tickVars   == <<phase, at, cur, todo, pops, suspects>>
vetoVars   == <<backlog, stranded>>
vars       == <<ledgerVars, kvVars, chainVars, tickVars, vetoVars, faults>>

--------------------------------------------------------------------------------
(* Rows.  A transaction is identified by everything its signature is over. *)

Slots   == Users \cup {Burn}
Reserve == Rent + Fee

Zero    == [u \in Users |-> 0]
Sig     == [to : Wallets \cup {Toll}, lamports : Nat, hash : Nat]
NoSig   == [to |-> NoWallet, lamports |-> 0, hash |-> 0]
Debit   == [sig : Sig, rows : [Users -> Nat]]
NoDebit == [sig |-> NoSig, rows |-> Zero]

Hold    == [state : {"held", "approved"}, lamports : Nat, wallet : Wallets, linked : BOOLEAN]
NoHold  == [state |-> "none", lamports |-> 0, wallet |-> NoWallet, linked |-> FALSE]

WalletRow == [bound : Wallets \cup {NoWallet}, pend : Wallets \cup {NoWallet}, ready : BOOLEAN]
Naming  == [wallet : Wallets \cup {NoWallet}, waited : BOOLEAN]
NotNamed == [wallet |-> NoWallet, waited |-> FALSE]
Claim   == [user : Users, wallet : Wallets]
Answers == {"none", "busy", "queued", "held", "refused", "unpaid"}
Work    == [user : Users, wallet : Wallets, most : Nat, answer : Answers]
Idle    == [user |-> Burn]

(* What the ledger's queries return. *)
Credited(u)   == fresh[u] + aged[u]
Pending(u)    == debits[u].rows[u] + debits[Burn].rows[u]
DebitedFinal(u) == final[u]
Debited(u)    == final[u] + Pending(u)
Balance(u)    == Credited(u) - Debited(u)
HasPending(u) == debits[u].sig # NoSig \/ debits[Burn].rows[u] > 0
SignatureFinal(s) == s \in booked
SignatureKnown(s) == s \in booked \/ \E k \in Slots : debits[k].sig = s
Open(u)       == hold[u] # NoHold /\ ~hold[u].linked
HeldLamports(u) == IF Open(u) THEN hold[u].lamports ELSE 0
Positive(n)   == IF n > 0 THEN n ELSE 0
BurnableFresh(u) == Positive(Credited(u) - Debited(u) - HeldLamports(u))
Burnable(u)   == Positive(aged[u] - Debited(u) - HeldLamports(u))

Init ==
    /\ fresh = Zero /\ aged = Zero /\ final = Zero /\ booked = {}
    /\ debits = [k \in Slots |-> NoDebit]
    /\ hold = [u \in Users |-> NoHold]
    /\ wallets = [u \in Users |-> [bound |-> NoWallet, pend |-> NoWallet, ready |-> FALSE]]
    /\ named = [u \in Users |-> NotNamed]
    /\ burned = FALSE
    /\ queue = <<>> /\ status = [u \in Users |-> "none"]
    /\ treasury = Float /\ unread = Zero
    /\ sent = {} /\ landed = {} /\ failed = {} /\ tip = 0 /\ floor = 0
    /\ left = Zero
    /\ phase = "scan" /\ at = "start" /\ cur = Idle
    /\ todo = {} /\ pops = 0 /\ suspects = {}
    /\ backlog = FALSE /\ stranded = {}
    /\ faults = 0

--------------------------------------------------------------------------------
(* The chain. *)

\* Anyone may crank a coin's distribute; its row pays the treasury.
Distribute(u, x) ==
    /\ Credited(u) + unread[u] + x <= MaxCredit
    /\ treasury' = treasury + x
    /\ unread' = [unread EXCEPT ![u] = @ + x]
    /\ UNCHANGED <<ledgerVars, kvVars, signed, left, tickVars, vetoVars, faults>>

NewBlock ==
    /\ tip < MaxHash
    /\ tip' = tip + 1
    /\ UNCHANGED <<ledgerVars, kvVars, treasury, unread, sent, landed, failed, floor, left,
                   tickVars, vetoVars, faults>>

\* The finalized height passes the last_valid of the oldest blockhash: a
\* transaction built on it can never land.
Expire ==
    /\ floor <= tip
    /\ floor' = floor + 1
    /\ sent' = {d \in sent : d.sig.hash > floor}
    /\ UNCHANGED <<ledgerVars, kvVars, treasury, unread, landed, failed, tip, left,
                   tickVars, vetoVars, faults>>

\* A transfer may leave an account empty or rent exempt, nothing between.
Fits(lamports) == treasury = lamports \/ treasury - lamports >= Rent

\* A transaction in flight is executed: once, however often it was sent.
Executed(d) == d \in sent /\ sent' = {e \in sent : e.sig # d.sig}

Land(d) ==
    /\ Executed(d)
    /\ Fits(d.sig.lamports)
    /\ treasury' = treasury - d.sig.lamports
    /\ landed' = landed \cup {d.sig}
    /\ left' = [u \in Users |-> left[u] + d.rows[u]]
    /\ UNCHANGED <<ledgerVars, kvVars, unread, failed, tip, floor, tickVars, vetoVars, faults>>

\* It fails: only its fee leaves the treasury.
LandFailed(d) ==
    /\ Executed(d)
    /\ ~Fits(d.sig.lamports)
    /\ treasury >= Fee
    /\ treasury' = treasury - Fee
    /\ failed' = failed \cup {d.sig}
    /\ UNCHANGED <<ledgerVars, kvVars, unread, landed, tip, floor, left, tickVars, vetoVars, faults>>

--------------------------------------------------------------------------------
(* Time. *)

\* A credit row completes its week.
WeekPasses(u, x) ==
    /\ x <= fresh[u]
    /\ fresh' = [fresh EXCEPT ![u] = @ - x]
    /\ aged' = [aged EXCEPT ![u] = @ + x]
    /\ UNCHANGED <<final, booked, debits, hold, naming, burned, kvVars, chainVars, tickVars, vetoVars, faults>>

\* BURN_EVERY_SECONDS pass since the last final burn.
DayPasses ==
    /\ burned /\ burned' = FALSE
    /\ UNCHANGED <<totals, debits, hold, naming, kvVars, chainVars, tickVars, vetoVars, faults>>

\* WALLET_CHANGE_DELAY_SECONDS pass since a new wallet was named.
WaitEnds(u) ==
    /\ wallets[u].pend # NoWallet /\ ~wallets[u].ready
    /\ wallets' = [wallets EXCEPT ![u].ready = TRUE]
    /\ named' = [named EXCEPT ![u].waited = @ \/ named[u].wallet = wallets[u].pend]
    /\ UNCHANGED <<totals, debits, hold, burned, kvVars, chainVars, tickVars, vetoVars, faults>>

--------------------------------------------------------------------------------
(* The claim site and the owner. *)

\* A signed-in requester claims; the site asks for a credit it was shown.
Submit(u, w) ==
    /\ Len(queue) < MaxQueue
    /\ Credited(u) > 0
    /\ status' = [status EXCEPT ![u] = "queued"]
    /\ queue' = Append(queue, [user |-> u, wallet |-> w])
    /\ UNCHANGED <<ledgerVars, chainVars, tickVars, vetoVars, faults>>

\* The status is written first; then the push raises and the site takes it
\* back, or the function dies and leaves it.  A push that raised may have been
\* applied all the same.
SubmitFails(u, w) ==
    /\ Credited(u) > 0
    /\ faults < MaxFaults
    /\ faults' = faults + 1
    /\ \E told \in {"queued", "refused"} : status' = [status EXCEPT ![u] = told]
    /\ \/ UNCHANGED queue
       \/ Len(queue) < MaxQueue /\ queue' = Append(queue, [user |-> u, wallet |-> w])
    /\ UNCHANGED <<ledgerVars, chainVars, tickVars, vetoVars>>

\* `--approve-held', a process of its own.
ApproveHeld(u) ==
    /\ hold[u].state = "held"
    /\ hold' = [hold EXCEPT ![u].state = "approved"]
    /\ UNCHANGED <<totals, debits, naming, burned, kvVars, chainVars, tickVars, vetoVars, faults>>

--------------------------------------------------------------------------------
(* The money tick: its steps in order, and how each of them ends. *)

Following == [scan |-> "reconcile", reconcile |-> "claims", claims |-> "approved",
              approved |-> "burn", burn |-> "settle", settle |-> "scan"]

GoTo(p) ==
    /\ phase' = p
    /\ at' = CASE p \in {"reconcile", "settle"} -> "read"
               [] p = "approved"                -> "list"
               [] OTHER                         -> "start"
    /\ cur' = Idle /\ todo' = {} /\ pops' = 0 /\ suspects' = {}

NextStep == GoTo(Following[phase])

\* A claim that raised is pushed back, refused after its retries, or lost with
\* the push; one whose payment is pending is left to reconcile.
PutBack ==
    \/ /\ Len(queue) < MaxQueue
       /\ queue' = Append(queue, [user |-> cur.user, wallet |-> cur.wallet])
       /\ UNCHANGED status
    \/ status' = [status EXCEPT ![cur.user] = "refused"] /\ UNCHANGED queue
    \/ UNCHANGED kvVars
RequeueBlind(pending) == IF phase = "claims" /\ cur # Idle THEN PutBack ELSE UNCHANGED kvVars
Requeue(pending) ==
    IF phase = "claims" /\ cur # Idle /\ ~pending THEN PutBack ELSE UNCHANGED kvVars

Claimants(q) == {q[i].user : i \in DOMAIN q}

\* An exception ends the step; one in the claims step also stops the burn.
Raise(pending) ==
    /\ faults < MaxFaults
    /\ faults' = faults + 1
    /\ Requeue(pending)
    /\ NextStep
    /\ IF phase = "claims"
       THEN backlog' = TRUE /\ stranded' = Claimants(queue')
       ELSE UNCHANGED vetoVars

\* An RPC, KV or SQLite call raises before it has changed anything.
StepRaises ==
    /\ at # "send"
    /\ Raise(cur # Idle /\ HasPending(cur.user))
    /\ UNCHANGED <<ledgerVars, chainVars>>

\* The bot dies and is started again: its memory is gone.
Crash ==
    /\ faults < MaxFaults
    /\ faults' = faults + 1
    /\ GoTo("scan")
    /\ backlog' = FALSE /\ stranded' = {}
    /\ UNCHANGED <<ledgerVars, kvVars, chainVars>>

\* The treasury scan credits what it could read, each inflow once; the rest
\* waits for the next scan.
CreditedTwice(R) == unread' = unread
CreditedOnce(R)  == unread' = [u \in Users |-> IF u \in R THEN 0 ELSE unread[u]]

Scan ==
    /\ phase = "scan"
    /\ \E R \in SUBSET Users :
        /\ fresh' = [u \in Users |-> IF u \in R THEN fresh[u] + unread[u] ELSE fresh[u]]
        /\ CreditedOnce(R)
    /\ NextStep
    /\ backlog' = FALSE /\ stranded' = {}
    /\ UNCHANGED <<aged, final, booked, debits, hold, naming, burned, kvVars,
                   treasury, signed, left, faults>>

--------------------------------------------------------------------------------
(* reconcile: settle every pending debit from the chain. *)

InFlight  == {k \in Slots : debits[k].sig # NoSig}
Landed(K) == {k \in K : debits[k].sig \in landed}
Known     == {k \in InFlight : debits[k].sig \in landed \cup failed}
Unseen    == IF StaleReads THEN SUBSET Known ELSE {{}}

RowsOf(u, K) == (IF u \in K THEN debits[u].rows[u] ELSE 0)
              + (IF Burn \in K THEN debits[Burn].rows[u] ELSE 0)

HoldAfter(u, F, D) ==
    IF ~hold[u].linked \/ u \notin F \cup D THEN hold[u]
    ELSE IF u \in F THEN NoHold ELSE [hold[u] EXCEPT !.linked = FALSE]

\* finalize for the slots F, drop_pending for the slots D.
Settle(F, D) ==
    /\ final' = [u \in Users |-> final[u] + RowsOf(u, F)]
    /\ booked' = booked \cup {debits[k].sig : k \in F}
    /\ debits' = [k \in Slots |-> IF k \in F \cup D THEN NoDebit ELSE debits[k]]
    /\ hold' = [u \in Users |-> HoldAfter(u, F, D)]
    /\ UNCHANGED <<fresh, aged, naming, chainVars>>

\* What _settle writes after that: a claim's status, or the stamp of a burn.
Stamp(F, D) ==
    /\ status' = [u \in Users |-> IF u \in F THEN "paid" ELSE IF u \in D THEN "refused" ELSE status[u]]
    /\ burned' = (burned \/ Burn \in F)

\* The step that called reconcile goes on.
EndReconcile ==
    IF phase \in {"claims", "approved"}
    THEN at' = "start" /\ cur' = Idle /\ suspects' = {} /\ UNCHANGED <<phase, todo, pops>>
    ELSE NextStep

\* The slots K are still in doubt; with none left reconcile is over.
Doubt(K, place) ==
    IF K = {} THEN EndReconcile
    ELSE at' = place /\ suspects' = K /\ UNCHANGED <<phase, cur, todo, pops>>

\* The first status read settles what it shows confirmed (S) and suspects what
\* it does not know; a payment only processed is neither.
ReadStatuses ==
    /\ at = "read"
    /\ \E S \in SUBSET Known, missed \in Unseen :
        /\ S \cap missed = {}
        /\ Settle(Landed(S), S \ Landed(S)) /\ Stamp(Landed(S), S \ Landed(S))
        /\ Doubt((InFlight \ Known) \cup missed, "height")
    /\ UNCHANGED <<queue, vetoVars, faults>>

\* The finalized height: only a suspect past its last_valid stays one.
AnyUnknown(k) == TRUE
NoneExpired(k) == FALSE
Expired(k) == debits[k].sig.hash < floor

ReadHeight ==
    /\ at = "height"
    /\ Doubt({k \in suspects : Expired(k)}, "again")
    /\ UNCHANGED <<ledgerVars, kvVars, chainVars, vetoVars, faults>>

\* The second status read: a suspect still unknown never landed.
ReadAgain ==
    /\ at = "again"
    /\ \E S \in SUBSET (suspects \cap Known), missed \in Unseen :
        /\ missed \subseteq suspects /\ S \cap missed = {}
        /\ LET D == (S \ Landed(S)) \cup (suspects \ Known) \cup missed
           IN  Settle(Landed(S), D) /\ Stamp(Landed(S), D)
    /\ EndReconcile
    /\ UNCHANGED <<queue, vetoVars, faults>>

\* One payment is settled in the ledger, then the write that follows raises:
\* its claim is no longer pending when the exception is handled.
SettleRaises ==
    /\ at \in {"read", "again"}
    /\ \E k \in IF at = "read" THEN Known ELSE suspects :
        /\ Settle(Landed({k}), {k} \ Landed({k}))
        /\ Raise(cur # Idle /\ \/ cur.user # k /\ debits[cur.user].sig # NoSig
                               \/ Burn # k /\ debits[Burn].rows[cur.user] > 0)
    /\ UNCHANGED burned

--------------------------------------------------------------------------------
(* _claims and _pay_approved: take up a claim. *)

Take(user, wallet, most) ==
    /\ at' = "decide"
    /\ cur' = [user |-> user, wallet |-> wallet, most |-> most, answer |-> "none"]

Popping == phase = "claims" /\ at = "start" /\ pops < MaxClaims /\ queue # <<>>

PopClaim ==
    /\ Popping
    /\ queue' = Tail(queue)
    /\ pops' = pops + 1
    /\ Take(Head(queue).user, Head(queue).wallet, 0)
    /\ UNCHANGED <<ledgerVars, status, chainVars, phase, todo, suspects, vetoVars, faults>>

\* A claim signed more than a week ago is popped and dropped.
DropStaleClaim ==
    /\ Popping
    /\ queue' = Tail(queue)
    /\ pops' = pops + 1
    /\ UNCHANGED <<ledgerVars, status, chainVars, phase, at, cur, todo, suspects, vetoVars, faults>>

\* The queue is seen empty, or the tick's limit is reached before it is.
Forgotten  == FALSE
LimitReached == pops = MaxClaims

ClaimsDone ==
    /\ phase = "claims" /\ at = "start"
    /\ pops = MaxClaims \/ queue = <<>>
    /\ backlog' = LimitReached
    /\ stranded' = Claimants(queue)
    /\ NextStep
    /\ UNCHANGED <<ledgerVars, kvVars, chainVars, faults>>

ListApproved ==
    /\ at = "list"
    /\ todo' = {u \in Users : hold[u].state = "approved" /\ ~hold[u].linked}
    /\ at' = "start"
    /\ UNCHANGED <<ledgerVars, kvVars, chainVars, phase, cur, pops, suspects, vetoVars, faults>>

PickApproved(u) ==
    /\ phase = "approved" /\ at = "start"
    /\ u \in todo
    /\ todo' = todo \ {u}
    /\ Take(u, hold[u].wallet, hold[u].lamports)
    /\ UNCHANGED <<ledgerVars, kvVars, chainVars, phase, pops, suspects, vetoVars, faults>>

ApprovedDone ==
    /\ phase = "approved" /\ at = "start"
    /\ todo = {}
    /\ NextStep
    /\ UNCHANGED <<ledgerVars, kvVars, chainVars, vetoVars, faults>>

--------------------------------------------------------------------------------
(* _claim: decide one claim, and pay it written ahead. *)

Amount == IF phase = "approved" /\ cur.most < Balance(cur.user) THEN cur.most ELSE Balance(cur.user)

\* claim_decision's wallet rule: the first binds, another waits 72 hours.
MayUse == \/ wallets[cur.user].bound \in {NoWallet, cur.wallet}
          \/ wallets[cur.user].pend = cur.wallet /\ wallets[cur.user].ready

BindOnly == wallets' = [wallets EXCEPT ![cur.user].bound = cur.wallet]
Bind == wallets' = [wallets EXCEPT ![cur.user] = [bound |-> cur.wallet, pend |-> NoWallet, ready |-> FALSE]]
Wait == wallets' = IF wallets[cur.user].pend = cur.wallet THEN wallets
                   ELSE [wallets EXCEPT ![cur.user].pend = cur.wallet, ![cur.user].ready = FALSE]
Name == named' = IF wallets'[cur.user].bound = cur.wallet THEN [named EXCEPT ![cur.user] = NotNamed]
                 ELSE IF named[cur.user].wallet = cur.wallet THEN named
                 ELSE [named EXCEPT ![cur.user] = [wallet |-> cur.wallet, waited |-> FALSE]]

Short == treasury - Amount < Reserve

Deciding == at = "decide" /\ ~HasPending(cur.user)
Payable  == Deciding /\ MayUse /\ Amount >= MinClaim

Reply(place, answer) ==
    /\ at' = place
    /\ cur' = [cur EXCEPT !.answer = answer]
    /\ UNCHANGED <<totals, burned, kvVars, chainVars, phase, todo, pops, suspects, vetoVars, faults>>

ClaimBusy ==
    /\ at = "decide" /\ HasPending(cur.user)
    /\ Reply("answer", "busy")
    /\ UNCHANGED <<debits, hold, naming>>

ClaimRefused ==
    /\ Deciding
    /\ \/ ~MayUse /\ Wait
       \/ MayUse /\ Amount < MinClaim /\ Bind
    /\ Name
    /\ Reply("answer", "refused")
    /\ UNCHANGED <<debits, hold>>

\* Held while the treasury is short, or past a cap (which an approval skips);
\* a hold approved already, or being paid, is left as it is.
KeepsIfPaying(u) == hold[u].linked
KeepsHold(u) == hold[u].state = "approved" \/ hold[u].linked

ClaimHeld ==
    /\ Payable
    /\ Short \/ phase = "claims"
    /\ Bind /\ Name
    /\ hold' = IF KeepsHold(cur.user) THEN hold
               ELSE [hold EXCEPT ![cur.user] = [state |-> "held", lamports |-> Amount,
                                                wallet |-> cur.wallet, linked |-> FALSE]]
    /\ Reply("answer", "held")
    /\ UNCHANGED debits

\* debit_pending: the intent is on the books before anything is sent.
WriteAhead(k, to, lamports, rows) ==
    \E h \in floor..tip :
        LET sig == [to |-> to, lamports |-> lamports, hash |-> h]
        IN  /\ ~SignatureKnown(sig)
            /\ debits' = [debits EXCEPT ![k] = [sig |-> sig, rows |-> rows]]

ClaimPay ==
    /\ Payable /\ ~Short
    /\ WriteAhead(cur.user, cur.wallet, Amount, [Zero EXCEPT ![cur.user] = Amount])
    /\ Bind /\ Name
    /\ hold' = IF Open(cur.user) THEN [hold EXCEPT ![cur.user].linked = TRUE] ELSE hold
    /\ Reply("send", "queued")

\* The simulation refuses it, or the signature is on the books already.
ClaimUnpaid ==
    /\ Payable /\ ~Short
    /\ Bind /\ Name
    /\ Reply("answer", "unpaid")
    /\ UNCHANGED <<debits, hold>>

\* The transaction is sent; whether it arrives is not known here.
Transmit(k) ==
    /\ sent' = IF debits[k].sig.hash >= floor /\ debits[k].sig \notin landed \cup failed
               THEN sent \cup {debits[k]} ELSE sent
    /\ UNCHANGED <<ledgerVars, kvVars, treasury, unread, landed, failed, tip, floor, left,
                   vetoVars, faults>>

SendClaim ==
    /\ phase # "burn" /\ at = "send"
    /\ Transmit(cur.user)
    /\ at' = "answer"
    /\ UNCHANGED <<phase, cur, todo, pops, suspects>>

StateOf == [busy |-> "queued", queued |-> "queued", held |-> "held", refused |-> "refused", unpaid |-> "refused"]

\* The status is written.  A claim just paid goes on to reconcile; an approved
\* one refused outright has its hold dropped next.
Answer ==
    /\ at = "answer"
    /\ status' = [status EXCEPT ![cur.user] = StateOf[cur.answer]]
    /\ LET drops == phase = "approved" /\ cur.answer = "refused"
       IN  /\ at' = (IF cur.answer = "queued" THEN "read" ELSE IF drops THEN "drop" ELSE "start")
           /\ cur' = IF cur.answer = "queued" \/ drops THEN cur ELSE Idle
    /\ UNCHANGED <<ledgerVars, queue, chainVars, phase, todo, pops, suspects, vetoVars, faults>>

DropHeld ==
    /\ at = "drop"
    /\ hold' = IF Open(cur.user) THEN [hold EXCEPT ![cur.user] = NoHold] ELSE hold
    /\ at' = "start" /\ cur' = Idle
    /\ UNCHANGED <<totals, debits, naming, burned, kvVars, chainVars,
                   phase, todo, pops, suspects, vetoVars, faults>>

--------------------------------------------------------------------------------
(* _burn: credit older than a week, all requesters in one transaction. *)

Owed  == [u \in Users |-> Burnable(u)]
Total == SumFunction(Owed)

WriteBurn ==
    /\ phase = "burn" /\ at = "start"
    /\ ~backlog
    /\ debits[Burn].sig = NoSig
    /\ ~burned
    /\ \E total \in MinBurn..treasury :
        /\ total = Total
        /\ treasury - total >= Reserve
        /\ WriteAhead(Burn, Toll, total, Owed)
    /\ at' = "send"
    /\ UNCHANGED <<totals, hold, naming, burned, kvVars, chainVars,
                   phase, cur, todo, pops, suspects, vetoVars, faults>>

\* Claims are waiting, a burn is pending or recent, too little is owed, the
\* treasury is short, or the payment is refused.
SkipBurn ==
    /\ phase = "burn" /\ at = "start"
    /\ NextStep
    /\ UNCHANGED <<ledgerVars, kvVars, chainVars, vetoVars, faults>>

SendBurn ==
    /\ phase = "burn" /\ at = "send"
    /\ Transmit(Burn)
    /\ NextStep

--------------------------------------------------------------------------------
Chain  == \/ \E u \in Users, x \in CreditSizes : Distribute(u, x)
          \/ NewBlock
          \/ Expire
          \/ \E d \in sent : Land(d) \/ LandFailed(d)

Time   == \/ \E u \in Users, x \in CreditSizes : WeekPasses(u, x)
          \/ DayPasses
          \/ \E u \in Users : WaitEnds(u)

People == \/ \E u \in Users, w \in Wallets : Submit(u, w) \/ SubmitFails(u, w)
          \/ \E u \in Users : ApproveHeld(u)

Taking == \/ PopClaim \/ DropStaleClaim \/ ClaimsDone
          \/ ListApproved \/ (\E u \in Users : PickApproved(u)) \/ ApprovedDone

Paying == ClaimBusy \/ ClaimRefused \/ ClaimHeld \/ ClaimPay \/ ClaimUnpaid \/ SendClaim \/ Answer \/ DropHeld

Reconcile == ReadStatuses \/ ReadHeight \/ ReadAgain

Bot    == Scan \/ Reconcile \/ Taking \/ Paying \/ WriteBurn \/ SkipBurn \/ SendBurn

Faults == StepRaises \/ SettleRaises \/ Crash

Next == Chain \/ Time \/ People \/ Bot \/ Faults

Spec == Init /\ [][Next]_vars

\* The loop keeps running; a landed transaction is one day shown confirmed; the
\* chain's height advances.  Nothing is assumed of people, time or faults.
ShowAll  == ReadStatuses /\ \A k \in Known : debits'[k] = NoDebit
FairSpec == Spec /\ WF_vars(Bot) /\ SF_vars(ShowAll) /\ WF_vars(Expire)
================================================================================
