---------------------------- MODULE TagLedgerProofs ----------------------------
(***************************************************************************)
(* The money tick, for any requesters, wallets, limits and faults: its     *)
(* inductive invariant, what its steps may do, and what they add up to.    *)
(*                                                                         *)
(* First the types and what the tick remembers.  The two go together: that *)
(* a claim is being worked on is needed for the types of what is written,  *)
(* and the types for what is remembered.                                   *)
(*                                                                         *)
(* Then the books.  BooksMatchChain and HeldIsCovered are not inductive by *)
(* themselves: that a landed payment is on the books once                  *)
(* (OneDebitPerSignature, LandedIsBooked), that whatever can still land is *)
(* pending (SentIsPending) and that an approved hold is answered by a      *)
(* payment no smaller (LinkIsPaid) are what keeps them, and TickIsCurrent  *)
(* is what makes dropping a payment safe.                                  *)
(*                                                                         *)
(* Then the action properties: who may write a payment, what a burn may    *)
(* take, when the bot may refuse, how an approval ends.  TickInv is what   *)
(* they need beyond IInv: whom the tick left in the queue, and what the    *)
(* claim it works on will be told.  And the refinement: under the mapping  *)
(* of TagLedgerProps every step is one of the abstract account's           *)
(* (Payouts), or changes nothing in it.                                    *)
(*                                                                         *)
(* Last the treasury, which needs the sums over all requesters: what is in *)
(* flight is covered by what was credited, so no transfer fails and no fee *)
(* is paid outside the books.                                              *)
(*                                                                         *)
(* Each lemma is one group of actions; TypeStep, TickStep and BooksStep    *)
(* put the groups together.  ~StaleReads is assumed where reconcile is: a  *)
(* status read sees what has landed.                                       *)
(***************************************************************************)
EXTENDS TagLedgerProps, ArithmeticProofs

(* Types. *)

\* The next step of the tick starts at a place of its own (tick_money).
LEMMA NextStepType == PlaceType /\ NextStep => PlaceType'
  BY DEF PlaceType, NextStep, GoTo, Following, Places, Work, Idle

\* A bot that starts again starts at the scan.
LEMMA RestartType == GoTo("scan") => PlaceType'
  BY DEF PlaceType, GoTo, Following, Places, Work, Idle

\* Reconcile goes on to another read, or back to the step that called it.
LEMMA DoubtType ==
  ASSUME PlaceType, NEW K \in SUBSET Slots, NEW place \in Places, Doubt(K, place)
  PROVE  PlaceType'
<1>1. CASE K = {} /\ phase \in {"claims", "approved"}
  BY <1>1 DEF PlaceType, Doubt, EndReconcile, Places
<1>2. CASE K = {} /\ phase \notin {"claims", "approved"}
  BY <1>2, NextStepType DEF PlaceType, Doubt, EndReconcile
<1>3. CASE K # {}
  BY <1>3 DEF PlaceType, Doubt
<1> QED BY <1>1, <1>2, <1>3

\* A claim the site queues is one the bot can pop (submit, push).
LEMMA SubmitType ==
  ASSUME SiteType, NEW u \in Users, NEW w \in Wallets, Submit(u, w) \/ SubmitFails(u, w)
  PROVE  SiteType'
<1>1. [user |-> u, wallet |-> w] \in Claim
  BY DEF Claim
<1>2. queue' \in Seq(Claim)
  BY <1>1 DEF SiteType, Submit, SubmitFails
<1>3. status' \in [Users -> States]
  BY DEF SiteType, Submit, SubmitFails, States
<1> QED BY <1>2, <1>3 DEF SiteType

\* An approved hold is still a row of tag_held (approve_held).
LEMMA ApproveType == ASSUME LedgerType, NEW u \in Users, ApproveHeld(u) PROVE LedgerType'
<1>1. hold' \in [Users -> Hold \cup {NoHold}]
  BY DEF LedgerType, ApproveHeld, Hold, NoHold
<1> QED BY <1>1 DEF LedgerType, ApproveHeld, totals, naming

\* A popped claim is a claim to work on, and the rest of the queue stays one.
LEMMA PopType == ASSUME SiteType, PlaceType, PopClaim PROVE SiteType' /\ PlaceType'
<1> USE DEF PopClaim, Popping, Take
<1>1. Head(queue) \in Claim /\ Tail(queue) \in Seq(Claim)
  BY DEF SiteType
<1>2. cur' \in Work
  BY <1>1 DEF Work, Claim, Answers
<1>3. SiteType'
  BY <1>1 DEF SiteType
<1>4. PlaceType'
  BY <1>2 DEF PlaceType, Places
<1> QED BY <1>3, <1>4

\* A tick that is not idle works on a claim.
LEMMA WorkType == PlaceType /\ cur # Idle => cur \in Work
  BY DEF PlaceType

\* A claim put back is the claim that was popped (_requeue).
LEMMA PutBackType == ASSUME SiteType, PlaceType, cur # Idle, PutBack PROVE SiteType'
<1>1. [user |-> cur.user, wallet |-> cur.wallet] \in Claim
  BY WorkType DEF Claim, Work
<1>2. queue' \in Seq(Claim)
  BY <1>1 DEF SiteType, PutBack, kvVars
<1>3. status' \in [Users -> States]
  BY WorkType DEF SiteType, PutBack, kvVars, States, Work
<1> QED BY <1>2, <1>3 DEF SiteType

\* The claims in a queue are made by requesters.
LEMMA ClaimantsType == ASSUME NEW q \in Seq(Claim) PROVE Claimants(q) \subseteq Users
<1>1. \A i \in DOMAIN q : q[i] \in Claim
  OBVIOUS
<1> QED BY <1>1 DEF Claimants, Claim

\* An exception leaves queue, status, place and flags well typed.
LEMMA RaiseType ==
  ASSUME SiteType, PlaceType, VetoType, NEW pending, Raise(pending)
  PROVE  SiteType' /\ PlaceType' /\ VetoType'
<1>1. SiteType'
  BY PutBackType DEF Raise, Requeue, kvVars, SiteType
<1>2. PlaceType'
  BY NextStepType DEF Raise
<1>3. VetoType'
  <2>1. Claimants(queue') \subseteq Users
    BY <1>1, ClaimantsType DEF SiteType
  <2>2. CASE phase = "claims"
    BY <2>1, <2>2 DEF Raise, VetoType
  <2>3. CASE phase # "claims"
    BY <2>3 DEF Raise, VetoType, vetoVars
  <2> QED BY <2>2, <2>3
<1> QED BY <1>1, <1>2, <1>3

\* A slot holds either a whole pending debit or nothing.
LEMMA RowsNat ==
  ASSUME LedgerType, NEW k \in Slots
  PROVE  /\ debits[k].rows \in [Users -> Nat]
         /\ k \in InFlight => debits[k] \in Debit /\ debits[k].sig \in Sig
         /\ k \notin InFlight => debits[k] = NoDebit
<1>1. debits[k] \in Debit \cup {NoDebit}
  BY DEF LedgerType
<1>2. CASE debits[k] \in Debit
  BY <1>2, ConstantsAssumption DEF Debit, Sig, NoSig, InFlight
<1>3. CASE debits[k] = NoDebit
  BY <1>3 DEF NoDebit, Zero, InFlight
<1> QED BY <1>1, <1>2, <1>3

\* What some slots hold for a requester is a number of lamports.
LEMMA RowsOfNat ==
  ASSUME LedgerType, NEW u \in Users, NEW K PROVE RowsOf(u, K) \in Nat
  BY RowsNat DEF RowsOf, Slots

\* finalize and drop_pending leave rows their tables can hold.
LEMMA SettleType ==
  ASSUME LedgerType, ChainType, NEW F \in SUBSET InFlight, NEW D \in SUBSET Slots,
         Settle(F, D), burned' \in BOOLEAN
  PROVE  LedgerType' /\ ChainType'
<1>1. final' \in [Users -> Nat]
  <2>1. \A u \in Users : final[u] + RowsOf(u, F) \in Nat
    BY RowsOfNat DEF LedgerType
  <2> QED BY <2>1 DEF Settle
<1>2. booked' \subseteq Sig
  BY RowsNat DEF Settle, LedgerType, InFlight
<1>3. debits' \in [Slots -> Debit \cup {NoDebit}]
  BY DEF Settle, LedgerType
<1>4. hold' \in [Users -> Hold \cup {NoHold}]
  <2>1. \A u \in Users : HoldAfter(u, F, D) \in Hold \cup {NoHold}
    <3> TAKE u \in Users
    <3>1. hold[u] \in Hold \cup {NoHold}
      BY DEF LedgerType
    <3>2. hold[u].linked => hold[u] \in Hold
      BY <3>1 DEF NoHold
    <3>3. hold[u] \in Hold => [hold[u] EXCEPT !.linked = FALSE] \in Hold
      BY DEF Hold
    <3> QED BY <3>1, <3>2, <3>3 DEF HoldAfter
  <2> QED BY <2>1 DEF Settle
<1> QED BY <1>1, <1>2, <1>3, <1>4 DEF Settle, LedgerType, naming, ChainType, chainVars, signed

\* So does what _settle writes after them.
LEMMA StampType ==
  ASSUME LedgerType, SiteType, NEW F, NEW D, Stamp(F, D), UNCHANGED queue
  PROVE  SiteType' /\ burned' \in BOOLEAN
  BY DEF Stamp, SiteType, LedgerType, States

\* An intent written ahead is a pending debit (debit_pending).
LEMMA WriteAheadType ==
  ASSUME LedgerType, ChainType, NEW k \in Slots, NEW to \in Wallets \cup {Toll},
         NEW lamports \in Nat, NEW rows \in [Users -> Nat], WriteAhead(k, to, lamports, rows)
  PROVE  debits' \in [Slots -> Debit \cup {NoDebit}]
<1>1. PICK h \in floor..tip :
        debits' = [debits EXCEPT ![k] = [sig |-> [to |-> to, lamports |-> lamports, hash |-> h],
                                         rows |-> rows]]
  BY DEF WriteAhead
<1>2. h \in Nat
  BY DEF ChainType
<1>3. [sig |-> [to |-> to, lamports |-> lamports, hash |-> h], rows |-> rows] \in Debit
  BY <1>2 DEF Debit, Sig
<1> QED BY <1>1, <1>3 DEF LedgerType

\* The sums of the ledger are numbers: balance, burnable, held_lamports.
LEMMA BalanceInt ==
  ASSUME LedgerType, NEW u \in Users
  PROVE  /\ Credited(u) \in Nat /\ Pending(u) \in Nat /\ Debited(u) \in Nat
         /\ Balance(u) \in Int /\ HeldLamports(u) \in Nat /\ Burnable(u) \in Nat
<1>1. Pending(u) \in Nat
  BY RowsNat DEF Pending, Slots
<1>2. HeldLamports(u) \in Nat
  BY DEF HeldLamports, LedgerType, Hold, Open, NoHold
<1> QED BY <1>1, <1>2 DEF LedgerType, Credited, Debited, Balance, Burnable, Positive

\* Binding a wallet, or starting its wait, writes a tag_wallets row (apply_wallet).
LEMMA BindType ==
  ASSUME LedgerType, cur \in Work, Bind \/ Wait, Name
  PROVE  wallets' \in [Users -> WalletRow] /\ named' \in [Users -> Naming]
<1>1. cur.user \in Users /\ cur.wallet \in Wallets /\ wallets \in [Users -> WalletRow]
  BY DEF Work, LedgerType
<1>2. [bound |-> cur.wallet, pend |-> NoWallet, ready |-> FALSE] \in WalletRow
  BY <1>1 DEF WalletRow
<1>3. Bind => wallets' \in [Users -> WalletRow]
  BY <1>1, <1>2 DEF Bind
<1>4. Wait => wallets' \in [Users -> WalletRow]
  BY <1>1 DEF Wait, WalletRow
<1>5. NotNamed \in Naming /\ [wallet |-> cur.wallet, waited |-> FALSE] \in Naming
  BY <1>1 DEF Naming, NotNamed
<1>6. named' \in [Users -> Naming]
  BY <1>1, <1>5 DEF Name, LedgerType
<1> QED BY <1>3, <1>4, <1>6

\* A decision moves the tick on with an answer to give.
LEMMA ReplyType ==
  ASSUME PlaceType, cur \in Work, NEW place \in Places, NEW answer \in Answers, Reply(place, answer)
  PROVE  PlaceType'
<1>1. cur' \in Work
  BY DEF Reply, Work
<1> QED BY <1>1 DEF PlaceType, Reply

\* The amount of a claim is a number; it may be negative before it is compared.
LEMMA AmountInt == ASSUME LedgerType, cur \in Work PROVE Amount \in Int
  BY BalanceInt DEF Amount, Work

--------------------------------------------------------------------------------
\* The chain, which never asks the bot, keeps every type.
LEMMA ChainStepType == ASSUME TypeOK, Chain PROVE TypeOK'
<1> USE ConstantsAssumption
    DEF vars, ledgerVars, totals, naming, kvVars, chainVars, signed, tickVars, vetoVars, TypeOK,
        LedgerType, SiteType, ChainType, PlaceType, VetoType
<1>1. ASSUME NEW u \in Users, NEW x \in CreditSizes, Distribute(u, x) PROVE TypeOK'
  BY <1>1, SMTT(30) DEF Distribute
<1>2. ASSUME NewBlock PROVE TypeOK'
  BY <1>2 DEF NewBlock
<1>3. ASSUME Expire PROVE TypeOK'
  BY <1>3 DEF Expire
<1>4. ASSUME NEW d \in sent, Land(d) PROVE TypeOK'
  <2>1. d.sig \in Sig /\ d.sig.lamports \in Nat /\ d.rows \in [Users -> Nat]
    BY DEF Debit, Sig
  <2>2. treasury' \in Nat
    BY <1>4, <2>1, SMTT(30) DEF Land, Fits
  <2>3. left' \in [Users -> Nat]
    BY <1>4, <2>1, SMTT(30) DEF Land
  <2> QED BY <1>4, <2>1, <2>2, <2>3 DEF Land, Executed
<1>5. ASSUME NEW d \in sent, LandFailed(d) PROVE TypeOK'
  BY <1>5 DEF LandFailed, Executed, Debit, Sig
<1> QED BY <1>1, <1>2, <1>3, <1>4, <1>5 DEF Chain

\* Time passing and people acting keep every type.
LEMMA OutsideStepType == ASSUME TypeOK, Time \/ People PROVE TypeOK'
<1> USE ConstantsAssumption
    DEF ledgerVars, totals, naming, kvVars, chainVars, signed, tickVars, vetoVars, TypeOK,
        LedgerType, SiteType, ChainType, PlaceType, VetoType
<1>1. ASSUME NEW u \in Users, NEW x \in CreditSizes, WeekPasses(u, x) PROVE TypeOK'
  <2>1. fresh[u] - x \in Nat /\ aged[u] + x \in Nat
    BY <1>1 DEF WeekPasses
  <2>2. fresh' \in [Users -> Nat] /\ aged' \in [Users -> Nat]
    BY <1>1, <2>1 DEF WeekPasses
  <2> QED BY <1>1, <2>2 DEF WeekPasses
<1>2. ASSUME DayPasses PROVE TypeOK'
  BY <1>2 DEF DayPasses
<1>3. ASSUME NEW u \in Users, WaitEnds(u) PROVE TypeOK'
  <2>1. wallets' \in [Users -> WalletRow]
    BY <1>3, ZenonT(60) DEF WaitEnds, WalletRow
  <2>2. named' \in [Users -> Naming]
    BY <1>3, ZenonT(60) DEF WaitEnds, Naming
  <2> QED BY <1>3, <2>1, <2>2 DEF WaitEnds
<1>4. ASSUME NEW u \in Users, NEW w \in Wallets, Submit(u, w) PROVE TypeOK'
  <2>1. SiteType'
    BY <1>4, SubmitType
  <2> QED BY <1>4, <2>1 DEF Submit
<1>5. ASSUME NEW u \in Users, ApproveHeld(u) PROVE TypeOK'
  <2>1. LedgerType'
    BY <1>5, ApproveType
  <2> QED BY <1>5, <2>1 DEF ApproveHeld
<1>6. ASSUME NEW u \in Users, NEW w \in Wallets, SubmitFails(u, w) PROVE TypeOK'
  <2>1. SiteType'
    BY <1>6, SubmitType
  <2> QED BY <1>6, <2>1 DEF SubmitFails
<1> QED BY <1>1, <1>2, <1>3, <1>4, <1>5, <1>6 DEF Time, People

\* The scan and the taking up of claims keep every type.
LEMMA TakingType == ASSUME TypeOK, TickIsCurrent, Taking \/ Scan PROVE TypeOK'
<1> USE DEF ledgerVars, totals, naming, kvVars, chainVars, signed, vetoVars, TypeOK
<1>1. ASSUME Scan PROVE TypeOK'
  <2>1. PlaceType'
    BY <1>1, NextStepType DEF Scan
  <2>2. fresh' \in [Users -> Nat] /\ unread' \in [Users -> Nat]
    BY <1>1 DEF Scan, CreditedOnce, LedgerType, ChainType
  <2>3. LedgerType' /\ SiteType' /\ ChainType'
    BY <1>1, <2>2 DEF Scan, LedgerType, SiteType, ChainType
  <2>4. VetoType'
    BY <1>1 DEF Scan, VetoType
  <2> QED BY <2>1, <2>3, <2>4
<1>2. ASSUME PopClaim PROVE TypeOK'
  <2>1. SiteType' /\ PlaceType'
    BY <1>2, PopType
  <2> QED BY <1>2, <2>1 DEF PopClaim, LedgerType, ChainType, VetoType
<1>3. ASSUME DropStaleClaim PROVE TypeOK'
  BY <1>3 DEF DropStaleClaim, Popping, LedgerType, SiteType, ChainType, PlaceType, VetoType
<1>4. ASSUME ClaimsDone PROVE TypeOK'
  <2>1. PlaceType'
    BY <1>4, NextStepType DEF ClaimsDone
  <2>2. VetoType'
    BY <1>4, ClaimantsType DEF ClaimsDone, LimitReached, SiteType, VetoType
  <2> QED BY <1>4, <2>1, <2>2 DEF ClaimsDone, LedgerType, SiteType, ChainType
<1>5. ASSUME ListApproved PROVE TypeOK'
  BY <1>5 DEF ListApproved, LedgerType, SiteType, ChainType, PlaceType, VetoType, Places
<1>6. ASSUME NEW u \in Users, PickApproved(u) PROVE TypeOK'
  <2>1. hold[u] \in Hold
    BY <1>6 DEF PickApproved, TickIsCurrent, LedgerType, NoHold
  <2>2. cur' \in Work
    BY <1>6, <2>1 DEF PickApproved, Take, Work, Hold, Answers
  <2>3. PlaceType'
    BY <1>6, <2>2 DEF PickApproved, Take, PlaceType, Places
  <2> QED BY <1>6, <2>3 DEF PickApproved, LedgerType, SiteType, ChainType, VetoType
<1>7. ASSUME ApprovedDone PROVE TypeOK'
  <2>1. PlaceType'
    BY <1>7, NextStepType DEF ApprovedDone
  <2> QED BY <1>7, <2>1 DEF ApprovedDone, LedgerType, SiteType, ChainType, VetoType
<1> QED BY <1>1, <1>2, <1>3, <1>4, <1>5, <1>6, <1>7 DEF Taking

\* Deciding, writing, sending and answering a claim keep every type (_claim).
LEMMA PayingType == ASSUME TypeOK, TickIsCurrent, Paying PROVE TypeOK'
<1> USE DEF ledgerVars, totals, naming, kvVars, chainVars, signed, vetoVars, TypeOK
<1>0. (Working => cur \in Work) /\ (Working /\ at # "decide" => cur.answer # "none")
  BY DEF TickIsCurrent
<1>1. CASE ClaimBusy
  <2>1. PlaceType'
    BY <1>0, <1>1, ReplyType DEF ClaimBusy, Working, Places, Answers
  <2> QED BY <1>1, <2>1 DEF ClaimBusy, Reply, LedgerType, SiteType, ChainType, VetoType
<1>2. CASE ClaimRefused
  <2>1. cur \in Work
    BY <1>0, <1>2 DEF ClaimRefused, Deciding, Working
  <2>2. PlaceType'
    BY <2>1, <1>2, ReplyType DEF ClaimRefused, Places, Answers
  <2>3. wallets' \in [Users -> WalletRow] /\ named' \in [Users -> Naming]
    BY <2>1, <1>2, BindType DEF ClaimRefused
  <2> QED BY <1>2, <2>2, <2>3 DEF ClaimRefused, Reply, LedgerType, SiteType, ChainType, VetoType
<1>3. CASE ClaimHeld
  <2>1. cur \in Work
    BY <1>0, <1>3 DEF ClaimHeld, Payable, Deciding, Working
  <2>2. PlaceType'
    BY <2>1, <1>3, ReplyType DEF ClaimHeld, Places, Answers
  <2>3. wallets' \in [Users -> WalletRow] /\ named' \in [Users -> Naming]
    BY <2>1, <1>3, BindType DEF ClaimHeld
  <2>4. Amount \in Nat
    BY <2>1, <1>3, AmountInt, ConstantsAssumption DEF ClaimHeld, Payable
  <2>5. [state |-> "held", lamports |-> Amount, wallet |-> cur.wallet, linked |-> FALSE] \in Hold
    BY <2>1, <2>4 DEF Hold, Work
  <2>6. hold' \in [Users -> Hold \cup {NoHold}]
    BY <2>5, <1>3 DEF ClaimHeld, LedgerType
  <2> QED BY <1>3, <2>2, <2>3, <2>6 DEF ClaimHeld, Reply, LedgerType, SiteType, ChainType, VetoType
<1>4. CASE ClaimPay
  <2>1. cur \in Work
    BY <1>0, <1>4 DEF ClaimPay, Payable, Deciding, Working
  <2>2. PlaceType'
    BY <2>1, <1>4, ReplyType DEF ClaimPay, Places, Answers
  <2>3. wallets' \in [Users -> WalletRow] /\ named' \in [Users -> Naming]
    BY <2>1, <1>4, BindType DEF ClaimPay
  <2>4. Amount \in Nat /\ cur.user \in Users /\ cur.wallet \in Wallets
    BY <2>1, <1>4, AmountInt, ConstantsAssumption DEF ClaimPay, Payable, Work
  <2>5. [Zero EXCEPT ![cur.user] = Amount] \in [Users -> Nat]
    BY <2>4 DEF Zero
  <2>6. debits' \in [Slots -> Debit \cup {NoDebit}]
    BY <2>4, <2>5, <1>4, WriteAheadType DEF ClaimPay, Slots
  <2>7. hold' \in [Users -> Hold \cup {NoHold}]
    <3>1. Open(cur.user) => [hold[cur.user] EXCEPT !.linked = TRUE] \in Hold
      BY <2>4 DEF LedgerType, Open, Hold, NoHold
    <3>2. hold' = IF Open(cur.user) THEN [hold EXCEPT ![cur.user] = [hold[cur.user] EXCEPT !.linked = TRUE]] ELSE hold
      BY <1>4 DEF ClaimPay
    <3> QED BY <3>1, <3>2 DEF LedgerType
  <2> QED BY <1>4, <2>2, <2>3, <2>6, <2>7 DEF ClaimPay, Reply, LedgerType, SiteType, ChainType, VetoType
<1>5. CASE ClaimUnpaid
  <2>1. cur \in Work
    BY <1>0, <1>5 DEF ClaimUnpaid, Payable, Deciding, Working
  <2>2. PlaceType'
    BY <2>1, <1>5, ReplyType DEF ClaimUnpaid, Places, Answers
  <2>3. wallets' \in [Users -> WalletRow] /\ named' \in [Users -> Naming]
    BY <2>1, <1>5, BindType DEF ClaimUnpaid
  <2> QED BY <1>5, <2>2, <2>3 DEF ClaimUnpaid, Reply, LedgerType, SiteType, ChainType, VetoType
<1>6. CASE SendClaim
  <2>1. cur.user \in InFlight
    BY <1>6 DEF SendClaim, TickIsCurrent
  <2>2. debits[cur.user] \in Debit
    BY <2>1, RowsNat DEF InFlight
  <2> QED BY <1>6, <2>2 DEF SendClaim, Transmit, LedgerType, SiteType, ChainType, PlaceType, VetoType, Places
<1>7. CASE Answer
  <2>1. cur \in Work /\ cur.answer # "none"
    BY <1>0, <1>7 DEF Answer, Working
  <2>2. status' \in [Users -> States]
    BY <2>1, <1>7 DEF Answer, SiteType, StateOf, States, Work, Answers
  <2>3. PlaceType'
    BY <1>7 DEF Answer, PlaceType, Places
  <2> QED BY <1>7, <2>2, <2>3 DEF Answer, LedgerType, SiteType, ChainType, VetoType
<1>8. CASE DropHeld
  <2>1. hold' \in [Users -> Hold \cup {NoHold}]
    BY <1>8 DEF DropHeld, LedgerType
  <2>2. PlaceType'
    BY <1>8 DEF DropHeld, PlaceType, Places
  <2> QED BY <1>8, <2>1, <2>2 DEF DropHeld, LedgerType, SiteType, ChainType, VetoType
<1> QED BY <1>1, <1>2, <1>3, <1>4, <1>5, <1>6, <1>7, <1>8 DEF Paying

\* Reconcile keeps every type.
LEMMA ReconcileType == ASSUME TypeOK, TickIsCurrent, ~StaleReads, Reconcile PROVE TypeOK'
<1> USE DEF ledgerVars, totals, naming, kvVars, chainVars, signed, vetoVars, TypeOK
<1>1. CASE ReadStatuses
  <2>1. PICK S \in SUBSET Known, missed \in Unseen :
          /\ Settle(Landed(S), S \ Landed(S)) /\ Stamp(Landed(S), S \ Landed(S))
          /\ Doubt((InFlight \ Known) \cup missed, "height")
    BY <1>1 DEF ReadStatuses
  <2>2. UNCHANGED <<queue, vetoVars, faults>>
    BY <1>1 DEF ReadStatuses
  <2>3. SiteType' /\ burned' \in BOOLEAN
    BY <2>1, <2>2, StampType
  <2>4. LedgerType' /\ ChainType'
    BY <2>1, <2>3, SettleType DEF Landed, Known, InFlight
  <2>5. PlaceType'
    BY <2>1, DoubtType DEF Unseen, Known, InFlight, Places
  <2> QED BY <2>2, <2>3, <2>4, <2>5 DEF VetoType
<1>2. CASE ReadHeight
  <2>1. PlaceType'
    BY <1>2, DoubtType DEF ReadHeight, PlaceType, Places
  <2> QED BY <1>2, <2>1 DEF ReadHeight, LedgerType, SiteType, ChainType, VetoType
<1>3. CASE ReadAgain
  <2>1. PICK S \in SUBSET (suspects \cap Known), D \in SUBSET Slots :
          Settle(Landed(S), D) /\ Stamp(Landed(S), D)
    BY <1>3 DEF ReadAgain, PlaceType, Known, InFlight
  <2>2. UNCHANGED <<queue, vetoVars, faults>> /\ EndReconcile
    BY <1>3 DEF ReadAgain
  <2>3. SiteType' /\ burned' \in BOOLEAN
    BY <2>1, <2>2, StampType
  <2>4. LedgerType' /\ ChainType'
    BY <2>1, <2>3, SettleType DEF Landed, Known, InFlight
  <2>5. PlaceType'
    BY <2>2, DoubtType DEF Doubt, Places
  <2> QED BY <2>2, <2>3, <2>4, <2>5 DEF VetoType
<1> QED BY <1>1, <1>2, <1>3 DEF Reconcile

\* The burn step keeps every type (_burn).
LEMMA BurnType == ASSUME TypeOK, TickIsCurrent, WriteBurn \/ SkipBurn \/ SendBurn PROVE TypeOK'
<1> USE DEF ledgerVars, totals, naming, kvVars, chainVars, signed, vetoVars, TypeOK
<1>1. CASE WriteBurn
  <2>1. PICK total \in MinBurn..treasury : WriteAhead(Burn, Toll, total, Owed)
    BY <1>1 DEF WriteBurn
  <2>2. total \in Nat
    BY ConstantsAssumption DEF ChainType
  <2>3. Owed \in [Users -> Nat]
    BY BalanceInt DEF Owed
  <2>4. debits' \in [Slots -> Debit \cup {NoDebit}]
    BY <2>1, <2>2, <2>3, WriteAheadType DEF Slots
  <2> QED BY <1>1, <2>4 DEF WriteBurn, LedgerType, SiteType, ChainType, PlaceType, VetoType, Places
<1>2. CASE SkipBurn
  <2>1. PlaceType'
    BY <1>2, NextStepType DEF SkipBurn
  <2> QED BY <1>2, <2>1 DEF SkipBurn, LedgerType, SiteType, ChainType, VetoType
<1>3. CASE SendBurn
  <2>1. debits[Burn] \in Debit
    BY <1>3, RowsNat DEF SendBurn, TickIsCurrent, InFlight
  <2>2. PlaceType'
    BY <1>3, NextStepType DEF SendBurn
  <2> QED BY <1>3, <2>1, <2>2 DEF SendBurn, Transmit, LedgerType, SiteType, ChainType, VetoType
<1> QED BY <1>1, <1>2, <1>3

\* A crash or an exception, wherever it strikes, keeps every type.
LEMMA FaultType == ASSUME TypeOK, TickIsCurrent, Faults PROVE TypeOK'
<1> USE DEF ledgerVars, totals, naming, kvVars, chainVars, signed, vetoVars, TypeOK
<1>1. CASE StepRaises
  <2>1. SiteType' /\ PlaceType' /\ VetoType'
    BY <1>1, RaiseType DEF StepRaises
  <2> QED BY <1>1, <2>1 DEF StepRaises, LedgerType, ChainType
<1>2. CASE SettleRaises
  <2>1. PICK k \in IF at = "read" THEN Known ELSE suspects, pending \in {TRUE, FALSE} :
          Settle(Landed({k}), {k} \ Landed({k})) /\ Raise(pending)
    BY <1>2 DEF SettleRaises
  <2>2. SiteType' /\ PlaceType' /\ VetoType'
    BY <2>1, RaiseType
  <2>3. k \in InFlight /\ burned' \in BOOLEAN
    BY <1>2 DEF SettleRaises, TickIsCurrent, Known, LedgerType
  <2>4. LedgerType' /\ ChainType'
    BY <2>1, <2>3, SettleType DEF Landed, InFlight
  <2> QED BY <2>2, <2>4
<1>3. CASE Crash
  <2>1. PlaceType'
    BY <1>3, RestartType DEF Crash
  <2>2. LedgerType' /\ SiteType' /\ ChainType'
    BY <1>3 DEF Crash, LedgerType, SiteType, ChainType
  <2>3. VetoType'
    <3>1. backlog' \in BOOLEAN /\ stranded' \subseteq Users
      BY <1>3, Zenon DEF Crash
    <3>2. faults' \in Nat
      BY <1>3 DEF Crash, VetoType
    <3> QED BY <3>1, <3>2 DEF VetoType
  <2> QED BY <2>1, <2>2, <2>3
<1> QED BY <1>1, <1>2, <1>3 DEF Faults

\* Every step keeps every type.
LEMMA TypeStep == ASSUME TypeOK, TickIsCurrent, ~StaleReads, [Next]_vars PROVE TypeOK'
<1>1. CASE UNCHANGED vars
  BY <1>1 DEF vars, ledgerVars, totals, naming, kvVars, chainVars, signed, tickVars, vetoVars, TypeOK,
     LedgerType, SiteType, ChainType, PlaceType, VetoType
<1>2. CASE Next
  BY <1>2, ChainStepType, OutsideStepType, TakingType, PayingType, ReconcileType, BurnType, FaultType
     DEF Next, Bot
<1> QED BY <1>1, <1>2

--------------------------------------------------------------------------------
\* A step of the tick starts with nothing remembered.
LEMMA StepStartsFresh == ASSUME NEW p \in DOMAIN Following, GoTo(p) PROVE TickIsCurrent'
<1>1. at' \in {"start", "list", "read"} /\ todo' = {} /\ cur' = Idle
  BY DEF GoTo
<1>2. at' = "list" => phase' = "approved"
  BY DEF GoTo, Following
<1> QED BY <1>1, <1>2 DEF TickIsCurrent, Working

\* So does the one after it.
LEMMA NextStepFresh == ASSUME PlaceType, NextStep PROVE TickIsCurrent'
<1>1. Following[phase] \in DOMAIN Following
  BY DEF PlaceType, Following
<1> QED BY <1>1, StepStartsFresh DEF NextStep

\* What the tick remembers survives whatever chain, time and people do meanwhile.
LEMMA OutsideStepTick == ASSUME TypeOK, TickIsCurrent, Chain \/ Time \/ People PROVE TickIsCurrent'
<1> USE DEF ledgerVars, totals, naming, kvVars, chainVars, signed, tickVars, vetoVars, TickIsCurrent, Working
<1>1. CASE UNCHANGED <<tickVars, debits, hold, floor>>
  BY <1>1 DEF InFlight, Expired
<1>2. CASE Expire
  <2>1. UNCHANGED <<tickVars, debits, hold>>
    BY <1>2 DEF Expire
  <2>2. at = "again" => (\A k \in suspects : Expired(k))'
    <3> SUFFICES ASSUME at = "again", NEW k \in suspects PROVE Expired(k)'
      BY <2>1
    <3>1. debits[k].sig.hash \in Nat
      BY RowsNat DEF TypeOK, PlaceType, Sig
    <3> QED BY <2>1, <3>1, <1>2 DEF Expire, Expired, TypeOK, ChainType
  <2> QED BY <2>1, <2>2 DEF InFlight
<1>3. ASSUME NEW u \in Users, ApproveHeld(u) PROVE TickIsCurrent'
  <2>1. UNCHANGED <<tickVars, debits, floor>>
    BY <1>3 DEF ApproveHeld
  <2>2. \A v \in Users : /\ hold'[v].lamports = hold[v].lamports /\ hold'[v].linked = hold[v].linked
                         /\ hold[v].state = "approved" => hold'[v].state = "approved"
    BY <1>3 DEF ApproveHeld, TypeOK, LedgerType, Hold, NoHold
  <2>3. at = "decide" => cur.user \in Users
    BY DEF Work
  <2>4. todo \subseteq Users
    BY DEF TypeOK, PlaceType
  <2> QED BY <2>1, <2>2, <2>3, <2>4 DEF InFlight, Expired
<1> QED BY <1>1, <1>2, <1>3
     DEF Chain, Time, People, Distribute, NewBlock, Land, LandFailed, WeekPasses, DayPasses, WaitEnds, Submit, SubmitFails

\* The claim taken up, and the approved holds listed, are as the ledger has them.
LEMMA TakingTick == ASSUME TypeOK, TickIsCurrent, Taking \/ Scan PROVE TickIsCurrent'
<1> USE DEF ledgerVars, totals, naming, chainVars, signed, TickIsCurrent
<1>1. CASE Scan \/ ClaimsDone \/ ApprovedDone
  BY <1>1, NextStepFresh DEF Scan, ClaimsDone, ApprovedDone, TypeOK
<1>2. CASE PopClaim
  <2>1. Head(queue) \in Claim
    BY <1>2 DEF PopClaim, Popping, TypeOK, SiteType
  <2>2. cur' \in Work /\ at' = "decide" /\ phase' = "claims"
    BY <1>2, <2>1 DEF PopClaim, Popping, Take, Work, Claim, Answers
  <2>3. todo' = {}
    BY <1>2 DEF PopClaim, Popping
  <2> QED BY <2>2, <2>3 DEF Working
<1>3. CASE DropStaleClaim
  BY <1>3 DEF DropStaleClaim, Popping, Working
<1>4. CASE ListApproved
  <2>1. phase = "approved" /\ cur = Idle
    BY <1>4 DEF ListApproved
  <2> QED BY <1>4, <2>1, ConstantsAssumption DEF ListApproved, Working, Idle
<1>5. ASSUME NEW u \in Users, PickApproved(u) PROVE TickIsCurrent'
  <2>1. hold[u] \in Hold
    BY <1>5 DEF PickApproved, TypeOK, LedgerType, NoHold
  <2>2. cur' \in Work /\ at' = "decide" /\ cur'.most = hold[cur'.user].lamports /\ cur'.user = u
    BY <1>5, <2>1 DEF PickApproved, Take, Work, Hold, Answers
  <2> QED BY <1>5, <2>2 DEF PickApproved, Working
<1> QED BY <1>1, <1>2, <1>3, <1>4, <1>5 DEF Taking

\* A claim keeps its answer until it is given, and a payment is pending when it is sent.
LEMMA PayingTick == ASSUME TypeOK, TickIsCurrent, Paying PROVE TickIsCurrent'
<1> USE DEF ledgerVars, totals, naming, chainVars, signed, TickIsCurrent, Working
<1>1. ASSUME cur \in Work, NEW answer \in Answers \ {"none"}, Reply("answer", answer),
             \A u \in todo : hold'[u] = hold[u]
      PROVE  TickIsCurrent'
  <2>1. cur' \in Work /\ cur'.answer = answer /\ cur'.user = cur.user
    BY <1>1 DEF Reply, Work
  <2> QED BY <1>1, <2>1 DEF Reply
<1>2. CASE ClaimBusy \/ ClaimRefused \/ ClaimUnpaid
  <2>1. cur \in Work /\ UNCHANGED hold
    BY <1>2 DEF ClaimBusy, ClaimRefused, ClaimUnpaid, Payable, Deciding
  <2> QED BY <1>1, <1>2, <2>1 DEF ClaimBusy, ClaimRefused, ClaimUnpaid, Answers
<1>3. CASE ClaimHeld
  <2>1. cur \in Work
    BY <1>3 DEF ClaimHeld, Payable, Deciding
  <2>2. \A u \in todo : hold'[u] = hold[u]
    BY <1>3 DEF ClaimHeld, TypeOK, LedgerType, PlaceType
  <2> QED BY <1>1, <1>3, <2>1, <2>2 DEF ClaimHeld, Answers
<1>4. CASE ClaimPay
  <2>1. cur \in Work /\ at' = "send" /\ cur' = [cur EXCEPT !.answer = "queued"]
    BY <1>4 DEF ClaimPay, Payable, Deciding, Reply
  <2>2. cur' \in Work /\ cur'.answer = "queued" /\ cur'.user = cur.user /\ cur.user \in Users
    BY <2>1 DEF Work, Answers
  <2>3. \A u \in todo : hold'[u] = hold[u]
    BY <1>4, <2>2 DEF ClaimPay, TypeOK, LedgerType, PlaceType
  <2>4. phase # "burn" => cur.user \in InFlight'
    <3>1. PICK h : debits' = [debits EXCEPT ![cur.user] =
                    [sig |-> [to |-> cur.wallet, lamports |-> Amount, hash |-> h],
                     rows |-> [Zero EXCEPT ![cur.user] = Amount]]]
      BY <1>4 DEF ClaimPay, WriteAhead
    <3>2. cur.wallet # NoWallet
      BY <2>1, ConstantsAssumption DEF Work
    <3> QED BY <2>2, <3>1, <3>2 DEF InFlight, TypeOK, LedgerType, Slots, NoSig
  <2>5. phase # "burn"
    BY <1>4 DEF ClaimPay, Payable, Deciding
  <2> QED BY <1>4, <2>1, <2>2, <2>3, <2>4, <2>5 DEF ClaimPay, Reply
<1>5. CASE SendClaim
  BY <1>5 DEF SendClaim, Transmit
<1>6. CASE Answer
  <2>1. /\ at' \in {"read", "start", "drop"} /\ cur' \in {cur, Idle}
        /\ at' = "drop" => cur' = cur /\ cur.answer = "refused"
    BY <1>6 DEF Answer
  <2>2. \A u \in todo : cur'.user # u
    BY <2>1, ConstantsAssumption DEF TypeOK, PlaceType, Idle
  <2> QED BY <1>6, <2>1, <2>2 DEF Answer
<1>7. CASE DropHeld
  <2>1. at' = "start" /\ cur' = Idle
    BY <1>7 DEF DropHeld
  <2>2. \A u \in todo : hold'[u] = hold[u] /\ cur'.user # u
    BY <1>7, <2>1, ConstantsAssumption DEF DropHeld, TypeOK, LedgerType, PlaceType, Idle
  <2> QED BY <1>7, <2>1, <2>2 DEF DropHeld
<1> QED BY <1>2, <1>3, <1>4, <1>5, <1>6, <1>7 DEF Paying

\* The end of reconcile forgets the claim and the suspects.
LEMMA EndReconcileTick ==
  ASSUME TypeOK, TickIsCurrent, \A u \in todo : hold'[u] = hold[u], EndReconcile
  PROVE  TickIsCurrent'
<1>1. CASE phase \in {"claims", "approved"}
  <2>1. \A u \in todo : Idle.user # u
    BY ConstantsAssumption DEF Idle, TypeOK, PlaceType
  <2> QED BY <1>1, <2>1 DEF EndReconcile, TickIsCurrent, Working
<1>2. CASE phase \notin {"claims", "approved"}
  BY <1>2, NextStepFresh DEF EndReconcile, TypeOK
<1> QED BY <1>1, <1>2

\* Suspects carried to the next read are payments in flight, expired before the last one.
LEMMA DoubtTick ==
  ASSUME TypeOK, TickIsCurrent, \A u \in todo : hold'[u] = hold[u],
         NEW K, K \subseteq InFlight', NEW place \in {"height", "again"}, Doubt(K, place),
         place = "again" => \A k \in K : Expired(k)'
  PROVE  TickIsCurrent'
<1>1. CASE K = {}
  BY <1>1, EndReconcileTick DEF Doubt
<1>2. CASE K # {}
  BY <1>2 DEF Doubt, TickIsCurrent, Working
<1> QED BY <1>1, <1>2

\* Settling touches no hold but those a payment answers.
LEMMA SettleKeepsUnlinked ==
  ASSUME TypeOK, NEW F, NEW D, Settle(F, D), NEW u \in Users, ~hold[u].linked
  PROVE  hold'[u] = hold[u]
  BY DEF Settle, HoldAfter

\* Reconcile remembers only payments still in flight.
LEMMA ReconcileTick == ASSUME TypeOK, TickIsCurrent, ~StaleReads, Reconcile PROVE TickIsCurrent'
<1>0. \A u \in todo : u \in Users /\ ~hold[u].linked
  BY DEF TypeOK, PlaceType, TickIsCurrent
<1>1. CASE ReadStatuses
  <2>1. PICK S \in SUBSET Known :
          Settle(Landed(S), S \ Landed(S)) /\ Doubt(InFlight \ Known, "height")
    BY <1>1 DEF ReadStatuses, Unseen
  <2>2. \A u \in todo : hold'[u] = hold[u]
    BY <1>0, <2>1, SettleKeepsUnlinked
  <2>3. InFlight \ Known \subseteq InFlight'
    BY <2>1 DEF Settle, InFlight, Landed
  <2> QED BY <2>1, <2>2, <2>3, DoubtTick
<1>2. CASE ReadHeight
  <2>1. at = "height" /\ UNCHANGED <<debits, hold, floor>>
    BY <1>2 DEF ReadHeight, ledgerVars, chainVars, signed
  <2>2. {k \in suspects : Expired(k)} \subseteq InFlight'
    BY <2>1 DEF TickIsCurrent, InFlight
  <2>3. \A k \in {j \in suspects : Expired(j)} : Expired(k)'
    BY <2>1 DEF Expired
  <2> QED BY <1>2, <2>1, <2>2, <2>3, DoubtTick DEF ReadHeight
<1>3. CASE ReadAgain
  <2>1. PICK S, D : Settle(Landed(S), D)
    BY <1>3 DEF ReadAgain
  <2>2. \A u \in todo : hold'[u] = hold[u]
    BY <1>0, <2>1, SettleKeepsUnlinked
  <2> QED BY <1>3, <2>2, EndReconcileTick DEF ReadAgain
<1> QED BY <1>1, <1>2, <1>3 DEF Reconcile

\* The burn that is sent is the one on the books.
LEMMA BurnTick == ASSUME TypeOK, TickIsCurrent, WriteBurn \/ SkipBurn \/ SendBurn PROVE TickIsCurrent'
<1>1. CASE WriteBurn
  <2>1. PICK total, h : debits' = [debits EXCEPT ![Burn] =
                [sig |-> [to |-> Toll, lamports |-> total, hash |-> h], rows |-> Owed]]
    BY <1>1 DEF WriteBurn, WriteAhead
  <2>2. Burn \in InFlight'
    BY <2>1, ConstantsAssumption DEF InFlight, TypeOK, LedgerType, Slots, NoSig
  <2> QED BY <1>1, <2>2 DEF WriteBurn, TickIsCurrent, Working
<1>2. CASE SkipBurn \/ SendBurn
  BY <1>2, NextStepFresh DEF SkipBurn, SendBurn, TypeOK
<1> QED BY <1>1, <1>2

\* A fault leaves nothing remembered to go stale.
LEMMA FaultTick == ASSUME TypeOK, TickIsCurrent, Faults PROVE TickIsCurrent'
  BY NextStepFresh, StepStartsFresh DEF Faults, StepRaises, SettleRaises, Raise, Crash, TypeOK, Following

\* Every step keeps what the tick remembers true.
LEMMA TickStep == ASSUME TypeOK, TickIsCurrent, ~StaleReads, [Next]_vars PROVE TickIsCurrent'
<1>1. CASE UNCHANGED vars
  BY <1>1 DEF vars, ledgerVars, totals, naming, chainVars, signed, tickVars, TickIsCurrent, Working,
     InFlight, Expired
<1>2. CASE Next
  BY <1>2, OutsideStepTick, TakingTick, PayingTick, ReconcileTick, BurnTick, FaultTick DEF Next, Bot
<1> QED BY <1>1, <1>2
--------------------------------------------------------------------------------
(* The books. *)

\* An open hold counts in full, one being paid not at all (held_lamports).
LEMMA HoldFacts ==
  ASSUME LedgerType, NEW u \in Users
  PROVE  /\ hold[u].lamports \in Nat
         /\ hold[u].linked => HeldLamports(u) = 0
         /\ ~hold[u].linked => HeldLamports(u) = hold[u].lamports
  BY DEF LedgerType, Hold, NoHold, HeldLamports, Open

\* A step that touches no payment and takes no credit away keeps the books.
LEMMA BooksFrame ==
  ASSUME TypeOK, Books, UNCHANGED <<final, booked, debits, hold, sent, landed, failed, floor, left>>,
         \A u \in Users : Credited(u)' \in Nat /\ Credited(u)' >= Credited(u)
  PROVE  Books'
<1>1. (OwnRows /\ OneDebitPerSignature /\ SentIsPending /\ LandedIsBooked /\ BooksMatchChain /\ LinkIsPaid)'
  BY DEF Books, OwnRows, OneDebitPerSignature, SentIsPending, LandedIsBooked, BooksMatchChain,
         LinkIsPaid, InFlight, Landed, RowsOf
<1>2. HeldIsCovered'
  <2> SUFFICES ASSUME NEW u \in Users PROVE HeldLamports(u)' <= Balance(u)'
    BY DEF HeldIsCovered
  <2>1. HeldLamports(u)' = HeldLamports(u) /\ Debited(u)' = Debited(u)
    BY DEF HeldLamports, Open, Debited, Pending
  <2>2. HeldLamports(u) <= Balance(u)
    BY DEF Books, HeldIsCovered
  <2> QED BY <2>1, <2>2, BalanceInt DEF Balance, TypeOK
<1> QED BY <1>1, <1>2 DEF Books

\* A payment that lands is one on the books that had not landed.
LEMMA LandBooks == ASSUME TypeOK, Books, NEW d \in sent, Land(d) PROVE Books'
<1> USE DEF Books
<1>1. UNCHANGED <<fresh, aged, final, booked, debits, hold, failed, floor>>
  BY DEF Land, ledgerVars, totals
<1>2. PICK k \in InFlight : debits[k] = d
  BY DEF SentIsPending
<1>3. d.sig \notin landed \cup failed /\ landed' = landed \cup {d.sig} /\ sent' \subseteq sent
      /\ \A e \in sent' : e.sig # d.sig
  BY DEF Land, Executed, SentIsPending
<1>4. OwnRows' /\ OneDebitPerSignature' /\ LinkIsPaid'
  BY <1>1 DEF OwnRows, OneDebitPerSignature, LinkIsPaid, InFlight
<1>5. HeldIsCovered'
  BY <1>1 DEF HeldIsCovered, HeldLamports, Open, Balance, Credited, Debited, Pending
<1>6. SentIsPending'
  BY <1>1, <1>3 DEF SentIsPending, InFlight
<1>7. LandedIsBooked'
  BY <1>1, <1>2, <1>3 DEF LandedIsBooked, InFlight
<1>8. BooksMatchChain'
  <2> SUFFICES ASSUME NEW u \in Users PROVE left'[u] = final'[u] + RowsOf(u, Landed(InFlight))'
    BY DEF BooksMatchChain
  <2>1. Landed(InFlight)' = Landed(InFlight) \cup {k} /\ k \notin Landed(InFlight)
    BY <1>1, <1>2, <1>3 DEF Landed, InFlight, OneDebitPerSignature
  <2>2. RowsOf(u, Landed(InFlight))' = RowsOf(u, Landed(InFlight)) + debits[k].rows[u]
    <3>1. u # Burn /\ debits[k].rows[u] \in Nat /\ debits[u].rows[u] \in Nat /\ debits[Burn].rows[u] \in Nat
      BY RowsNat, ConstantsAssumption DEF TypeOK, Slots, InFlight
    <3>2. k \notin {u, Burn} => debits[k].rows[u] = 0
      BY DEF OwnRows, InFlight, Slots
    <3> QED BY <1>1, <2>1, <3>1, <3>2 DEF RowsOf
  <2>3. left'[u] = left[u] + debits[k].rows[u]
    BY <1>2 DEF Land
  <2>4. left[u] = final[u] + RowsOf(u, Landed(InFlight))
    BY DEF BooksMatchChain
  <2>5. RowsOf(u, Landed(InFlight)) \in Nat /\ final[u] \in Nat /\ debits[k].rows[u] \in Nat
    BY RowsOfNat, RowsNat DEF TypeOK, LedgerType, InFlight
  <2> QED BY <1>1, <2>2, <2>3, <2>4, <2>5
<1> QED BY <1>4, <1>5, <1>6, <1>7, <1>8

\* The books stay right whatever chain, time and people do.
LEMMA OutsideBooks == ASSUME TypeOK, Books, Chain \/ Time \/ People PROVE Books'
<1> USE DEF ledgerVars, totals, naming, chainVars, signed
<1>1. ASSUME NEW u \in Users, NEW x \in CreditSizes, Distribute(u, x) \/ WeekPasses(u, x) PROVE Books'
  <2>1. \A v \in Users : Credited(v)' = Credited(v) /\ Credited(v) \in Nat
    BY <1>1, ConstantsAssumption DEF Distribute, WeekPasses, Credited, TypeOK, LedgerType
  <2> QED BY <1>1, <2>1, BooksFrame DEF Distribute, WeekPasses
<1>2. CASE UNCHANGED <<totals, debits, hold, sent, landed, failed, floor, left>>
  <2>1. \A v \in Users : Credited(v)' = Credited(v) /\ Credited(v) \in Nat
    BY <1>2, BalanceInt DEF Credited, TypeOK
  <2> QED BY <1>2, <2>1, BooksFrame
<1>3. CASE Expire
  <2>1. UNCHANGED <<ledgerVars, landed, failed, left>> /\ floor' = floor + 1
        /\ sent' = {d \in sent : d.sig.hash > floor}
    BY <1>3 DEF Expire
  <2>2. \A d \in sent : d.sig.hash \in Nat
    BY DEF TypeOK, ChainType, Debit, Sig
  <2>3. SentIsPending'
    BY <2>1, <2>2 DEF Books, SentIsPending, InFlight, TypeOK, ChainType
  <2>4. HeldIsCovered'
    BY <2>1 DEF Books, HeldIsCovered, HeldLamports, Open, Balance, Credited, Debited, Pending
  <2> QED BY <2>1, <2>3, <2>4
          DEF Books, OwnRows, OneDebitPerSignature, LandedIsBooked, BooksMatchChain, LinkIsPaid,
              InFlight, Landed, RowsOf
<1>4. ASSUME NEW d \in sent, LandFailed(d) PROVE Books'
  <2>1. UNCHANGED <<ledgerVars, landed, floor, left>> /\ failed' = failed \cup {d.sig}
        /\ sent' = {e \in sent : e.sig # d.sig}
    BY <1>4 DEF LandFailed, Executed
  <2>2. SentIsPending'
    BY <2>1 DEF Books, SentIsPending, InFlight
  <2>3. HeldIsCovered'
    BY <2>1 DEF Books, HeldIsCovered, HeldLamports, Open, Balance, Credited, Debited, Pending
  <2> QED BY <2>1, <2>2, <2>3
          DEF Books, OwnRows, OneDebitPerSignature, LandedIsBooked, BooksMatchChain, LinkIsPaid,
              InFlight, Landed, RowsOf
<1>5. ASSUME NEW u \in Users, ApproveHeld(u) PROVE Books'
  <2>1. UNCHANGED <<totals, debits, sent, landed, failed, floor, left>>
    BY <1>5 DEF ApproveHeld
  <2>2. \A v \in Users : hold'[v].lamports = hold[v].lamports /\ hold'[v].linked = hold[v].linked
    BY <1>5 DEF ApproveHeld, TypeOK, LedgerType, Hold, NoHold
  <2>3. \A v \in Users : HeldLamports(v)' \in {0, hold[v].lamports} /\ (hold[v].linked => HeldLamports(v)' = 0)
    BY <2>2 DEF HeldLamports, Open
  <2>4. HeldIsCovered'
    <3> SUFFICES ASSUME NEW v \in Users PROVE HeldLamports(v)' <= Balance(v)'
      BY DEF HeldIsCovered
    <3>1. HeldLamports(v) <= Balance(v) /\ Balance(v)' = Balance(v)
      BY <2>1 DEF Books, HeldIsCovered, Balance, Credited, Debited, Pending
    <3> QED BY <2>3, <3>1, HoldFacts, BalanceInt DEF TypeOK
  <2> QED BY <2>1, <2>2, <2>4
          DEF Books, OwnRows, OneDebitPerSignature, SentIsPending, LandedIsBooked, BooksMatchChain,
              LinkIsPaid, InFlight, Landed, RowsOf
<1>6. ASSUME NEW d \in sent, Land(d) PROVE Books'
  BY <1>6, LandBooks
<1> QED BY <1>1, <1>2, <1>3, <1>4, <1>5, <1>6
        DEF Chain, Time, People, NewBlock, DayPasses, WaitEnds, Submit, SubmitFails

\* Settling keeps the books: what landed is made final, and only what can
\* never land again is dropped (finalize, drop_pending).
LEMMA SettleBooks ==
  ASSUME TypeOK, Books, NEW F \in SUBSET Landed(InFlight), NEW D \in SUBSET InFlight,
         \A k \in D : debits[k].sig \notin landed /\ (debits[k].sig \in failed \/ Expired(k)),
         Settle(F, D)
  PROVE  Books'
<1> USE DEF Books, chainVars, signed
<1>1. \A k \in Slots : debits'[k] = IF k \in F \cup D THEN NoDebit ELSE debits[k]
  BY DEF Settle
<1>2. UNCHANGED <<fresh, aged, sent, landed, failed, floor, left>>
  BY DEF Settle
<1>3. InFlight' = InFlight \ (F \cup D) /\ F \cap D = {} /\ F \subseteq InFlight
  BY <1>1 DEF InFlight, NoDebit, Landed
<1>4. OwnRows'
  BY <1>1 DEF OwnRows, NoDebit, Zero, Slots
<1>5. OneDebitPerSignature'
  <2> SUFFICES ASSUME NEW k \in InFlight'
               PROVE  /\ debits'[k].sig \notin booked'
                      /\ \A j \in InFlight' : debits'[j].sig = debits'[k].sig => j = k
    BY DEF OneDebitPerSignature
  <2>1. k \in InFlight /\ k \notin F \cup D /\ debits'[k] = debits[k]
    BY <1>1, <1>3 DEF InFlight
  <2>2. \A j \in InFlight' : j \in InFlight /\ debits'[j] = debits[j]
    BY <1>1, <1>3 DEF InFlight
  <2>3. booked' = booked \cup {debits[j].sig : j \in F}
    BY DEF Settle
  <2> QED BY <1>3, <2>1, <2>2, <2>3 DEF OneDebitPerSignature
<1>6. SentIsPending'
  <2> SUFFICES ASSUME NEW d \in sent PROVE \E k \in InFlight' : debits'[k] = d
    BY <1>2 DEF SentIsPending
  <2>1. PICK k \in InFlight : debits[k] = d
    BY DEF SentIsPending
  <2>2. d.sig.hash \in Nat /\ floor \in Nat
    BY DEF TypeOK, ChainType, Debit, Sig
  <2>3. k \notin F \cup D
    BY <2>1, <2>2 DEF SentIsPending, Landed, Expired
  <2> QED BY <1>1, <1>3, <2>1, <2>3 DEF InFlight
<1>7. LandedIsBooked'
  <2>1. booked' = booked \cup {debits[k].sig : k \in F}
    BY DEF Settle
  <2>2. booked' \subseteq landed
    BY <2>1 DEF LandedIsBooked, Landed
  <2>3. ASSUME NEW s \in landed PROVE s \in booked' \cup {debits'[k].sig : k \in Slots}
    BY <1>1, <2>1 DEF LandedIsBooked
  <2> QED BY <1>2, <2>2, <2>3 DEF LandedIsBooked
<1>8. BooksMatchChain'
  <2> SUFFICES ASSUME NEW u \in Users PROVE left'[u] = final'[u] + RowsOf(u, Landed(InFlight))'
    BY DEF BooksMatchChain
  <2>1. Landed(InFlight)' = Landed(InFlight) \ F
    BY <1>1, <1>2, <1>3 DEF Landed, InFlight
  <2>2. debits[u].rows[u] \in Nat /\ debits[Burn].rows[u] \in Nat /\ final[u] \in Nat
    BY RowsNat DEF TypeOK, LedgerType, Slots
  <2>3. RowsOf(u, Landed(InFlight)) = RowsOf(u, F) + RowsOf(u, Landed(InFlight))'
    BY <1>1, <2>1, <2>2 DEF RowsOf, Landed, InFlight, Slots
  <2>4. RowsOf(u, F) \in Nat /\ RowsOf(u, Landed(InFlight))' \in Nat
    BY <1>1, <2>1, <2>2 DEF RowsOf, Landed, InFlight, Slots
  <2>5. final'[u] = final[u] + RowsOf(u, F)
    BY DEF Settle
  <2> QED BY <1>2, <2>2, <2>3, <2>4, <2>5 DEF BooksMatchChain
<1>9. HeldIsCovered'
  <2> SUFFICES ASSUME NEW u \in Users PROVE HeldLamports(u)' <= Balance(u)'
    BY DEF HeldIsCovered
  <2>1. debits[u].rows[u] \in Nat /\ debits[Burn].rows[u] \in Nat /\ final[u] \in Nat
    BY RowsNat DEF TypeOK, LedgerType, Slots
  <2>2. Balance(u)' = Balance(u) + RowsOf(u, D)
    <3>1. Pending(u)' = (IF u \in F \cup D THEN 0 ELSE debits[u].rows[u])
                      + (IF Burn \in F \cup D THEN 0 ELSE debits[Burn].rows[u])
      BY <1>1 DEF Pending, NoDebit, Zero, Slots
    <3>2. final'[u] = final[u] + RowsOf(u, F)
      BY DEF Settle
    <3> QED BY <1>2, <1>3, <2>1, <3>1, <3>2
            DEF Balance, Debited, Credited, Pending, RowsOf, TypeOK, LedgerType
  <2>3. RowsOf(u, D) \in Nat /\ (u \in D => RowsOf(u, D) >= debits[u].rows[u])
    BY <2>1 DEF RowsOf
  <2>4. HeldLamports(u) <= Balance(u) /\ Balance(u) \in Int /\ HeldLamports(u) \in Nat
    BY BalanceInt DEF HeldIsCovered, TypeOK
  <2>5. hold'[u] = HoldAfter(u, F, D)
    BY DEF Settle
  <2>6. CASE hold[u].linked /\ u \in D /\ u \notin F
    <3>1. hold'[u].lamports = hold[u].lamports /\ debits[u].rows[u] >= hold[u].lamports
      BY <2>5, <2>6 DEF HoldAfter, LinkIsPaid, TypeOK, LedgerType, Hold, NoHold
    <3>2. HeldLamports(u)' \in {0, hold[u].lamports}
      BY <3>1 DEF HeldLamports
    <3> QED BY <2>1, <2>2, <2>3, <2>4, <2>6, <3>1, <3>2, HoldFacts DEF TypeOK
  <2>7. CASE ~(hold[u].linked /\ u \in D /\ u \notin F)
    <3>1. hold'[u] \in {hold[u], NoHold}
      BY <2>5, <2>7 DEF HoldAfter
    <3>2. HeldLamports(u)' \in {0, HeldLamports(u)}
      BY <3>1 DEF HeldLamports, Open, NoHold
    <3> QED BY <2>2, <2>3, <2>4, <3>2
  <2> QED BY <2>6, <2>7
<1>10. LinkIsPaid'
  <2> SUFFICES ASSUME NEW u \in Users, hold'[u].linked
               PROVE  u \in InFlight' /\ debits'[u].rows[u] >= hold'[u].lamports
    BY DEF LinkIsPaid
  <2>1. hold'[u] = hold[u] /\ hold[u].linked /\ u \notin F \cup D
    BY DEF Settle, HoldAfter, NoHold, TypeOK, LedgerType, Hold
  <2> QED BY <1>1, <1>3, <2>1 DEF LinkIsPaid, Slots
<1> QED BY <1>4, <1>5, <1>6, <1>7, <1>8, <1>9, <1>10

\* Reconcile settles only on that evidence.
LEMMA ReconcileBooks == ASSUME TypeOK, TickIsCurrent, Books, ~StaleReads, Reconcile PROVE Books'
<1>1. CASE ReadStatuses
  <2>1. PICK S \in SUBSET Known : Settle(Landed(S), S \ Landed(S))
    BY <1>1 DEF ReadStatuses
  <2> QED BY <2>1, SettleBooks DEF Landed, Known
<1>2. CASE ReadHeight
  <2>1. \A v \in Users : Credited(v)' = Credited(v) /\ Credited(v) \in Nat
    BY <1>2, BalanceInt DEF ReadHeight, ledgerVars, totals, Credited, TypeOK
  <2> QED BY <1>2, <2>1, BooksFrame DEF ReadHeight, ledgerVars, totals, chainVars, signed
<1>3. CASE ReadAgain
  <2>1. PICK S \in SUBSET (suspects \cap Known) :
          Settle(Landed(S), (S \ Landed(S)) \cup (suspects \ Known))
    BY <1>3 DEF ReadAgain, Unseen
  <2>2. at = "again" /\ suspects \subseteq InFlight /\ \A k \in suspects : Expired(k)
    BY <1>3 DEF ReadAgain, TickIsCurrent
  <2> QED BY <2>1, <2>2, SettleBooks DEF Landed, Known
<1> QED BY <1>1, <1>2, <1>3 DEF Reconcile

\* So does a settlement cut short by an exception.
LEMMA FaultBooks == ASSUME TypeOK, TickIsCurrent, Books, Faults PROVE Books'
<1>1. CASE SettleRaises
  <2>1. PICK k \in IF at = "read" THEN Known ELSE suspects : Settle(Landed({k}), {k} \ Landed({k}))
    BY <1>1 DEF SettleRaises
  <2>2. k \in InFlight /\ (k \in Known \/ Expired(k))
    BY <1>1 DEF SettleRaises, TickIsCurrent, Known
  <2> QED BY <2>1, <2>2, SettleBooks DEF Landed, Known
<1>2. CASE StepRaises \/ Crash
  <2>1. UNCHANGED <<ledgerVars, chainVars>>
    BY <1>2 DEF StepRaises, Crash
  <2>2. \A v \in Users : Credited(v)' = Credited(v) /\ Credited(v) \in Nat
    BY <2>1, BalanceInt DEF ledgerVars, totals, naming, Credited, TypeOK
  <2> QED BY <2>1, <2>2, BooksFrame DEF ledgerVars, totals, naming, chainVars, signed
<1> QED BY <1>1, <1>2 DEF Faults

\* The steps that write no payment keep the books.
LEMMA QuietBooks ==
  ASSUME TypeOK, Books, Taking \/ Scan \/ ClaimBusy \/ ClaimRefused \/ ClaimUnpaid \/ Answer \/ SkipBurn
  PROVE  Books'
<1> USE DEF ledgerVars, totals, naming, chainVars, signed
<1>1. CASE Scan
  <2>1. \A v \in Users : Credited(v)' >= Credited(v) /\ Credited(v)' \in Nat
    BY <1>1 DEF Scan, Credited, TypeOK, LedgerType, ChainType
  <2> QED BY <1>1, <2>1, BooksFrame DEF Scan
<1>2. CASE UNCHANGED <<totals, debits, hold, chainVars>>
  <2>1. \A v \in Users : Credited(v)' = Credited(v) /\ Credited(v) \in Nat
    BY <1>2, BalanceInt DEF Credited, TypeOK
  <2> QED BY <1>2, <2>1, BooksFrame
<1> QED BY <1>1, <1>2
        DEF Taking, PopClaim, DropStaleClaim, ClaimsDone, ListApproved, PickApproved, ApprovedDone,
            ClaimBusy, ClaimRefused, ClaimUnpaid, Answer, SkipBurn, Reply

\* What writing an intent ahead does to the books, whoever it is for.
LEMMA WriteAheadBooks ==
  ASSUME TypeOK, Books, NEW k \in Slots, NEW to \in Wallets \cup {Toll}, NEW lamports \in Nat,
         NEW rows \in [Users -> Nat], WriteAhead(k, to, lamports, rows), k \notin InFlight,
         \A u \in Users : k \notin {u, Burn} => rows[u] = 0,
         UNCHANGED <<totals, chainVars>>
  PROVE  /\ (OwnRows /\ OneDebitPerSignature /\ SentIsPending /\ LandedIsBooked /\ BooksMatchChain)'
         /\ InFlight' = InFlight \cup {k}
         /\ \A j \in Slots : debits'[j] = debits[j] \/ (j = k /\ debits'[j].rows = rows)
         /\ debits'[k].rows = rows
<1> USE DEF Books, totals, chainVars, signed
<1>1. PICK h \in floor..tip :
        LET sig == [to |-> to, lamports |-> lamports, hash |-> h]
        IN  ~SignatureKnown(sig) /\ debits' = [debits EXCEPT ![k] = [sig |-> sig, rows |-> rows]]
  BY DEF WriteAhead
<1> DEFINE sig == [to |-> to, lamports |-> lamports, hash |-> h]
<1>2. sig \notin booked /\ \A j \in Slots : debits[j].sig # sig
  BY <1>1 DEF SignatureKnown
<1>3. \A j \in Slots : debits'[j] = IF j = k THEN [sig |-> sig, rows |-> rows] ELSE debits[j]
  BY <1>1 DEF TypeOK, LedgerType
<1>4. sig # NoSig /\ sig \notin landed /\ debits[k].sig = NoSig
  BY <1>2, ConstantsAssumption DEF NoSig, LandedIsBooked, InFlight
<1> HIDE DEF sig
<1>5. InFlight' = InFlight \cup {k}
  BY <1>3, <1>4 DEF InFlight
<1>6. OwnRows'
  BY <1>3, ConstantsAssumption DEF OwnRows, Slots
<1>7. OneDebitPerSignature'
  BY <1>2, <1>3, <1>5 DEF OneDebitPerSignature, InFlight
<1>8. SentIsPending'
  BY <1>3, <1>4, <1>5 DEF SentIsPending, InFlight
<1>9. LandedIsBooked'
  <2>1. NoSig \notin landed
    BY ConstantsAssumption DEF NoSig, TypeOK, ChainType, Sig
  <2>2. \A s \in landed : s \in booked \/ \E j \in Slots : debits'[j].sig = s
    BY <1>3, <1>4, <2>1 DEF LandedIsBooked
  <2> QED BY <2>2 DEF LandedIsBooked
<1>10. BooksMatchChain'
  <2>1. Landed(InFlight)' = Landed(InFlight) /\ k \notin Landed(InFlight)
    BY <1>3, <1>4, <1>5 DEF Landed, InFlight
  <2>2. \A u \in Users : RowsOf(u, Landed(InFlight))' = RowsOf(u, Landed(InFlight))
    BY <1>3, <2>1 DEF RowsOf, Slots
  <2> QED BY <2>2 DEF BooksMatchChain
<1> QED BY <1>3, <1>5, <1>6, <1>7, <1>8, <1>9, <1>10

\* What is sent is on the books already.
LEMMA TransmitBooks == ASSUME TypeOK, Books, NEW k \in InFlight, Transmit(k) PROVE Books'
<1> USE DEF ledgerVars, totals, naming, Books
<1>1. UNCHANGED <<ledgerVars, landed, failed, floor, left>>
  BY DEF Transmit
<1>2. SentIsPending'
  BY <1>1 DEF Transmit, SentIsPending, InFlight
<1>3. HeldIsCovered'
  BY <1>1 DEF HeldIsCovered, HeldLamports, Open, Balance, Credited, Debited, Pending
<1> QED BY <1>1, <1>2, <1>3
        DEF OwnRows, OneDebitPerSignature, LandedIsBooked, BooksMatchChain, LinkIsPaid,
            InFlight, Landed, RowsOf

\* A claim is held for no more than its balance (hold).
LEMMA ClaimHeldBooks == ASSUME TypeOK, TickIsCurrent, Books, ClaimHeld PROVE Books'
<1> USE DEF totals, Books
<1>1. UNCHANGED <<totals, debits, sent, landed, failed, floor, left>>
  BY DEF ClaimHeld, Reply, chainVars, signed
<1>2. cur.user \in Users /\ ~HasPending(cur.user) /\ Amount <= Balance(cur.user) /\ Amount \in Nat
  <2>1. cur \in Work
    BY DEF ClaimHeld, Payable, Deciding, TickIsCurrent, Working
  <2>2. Balance(cur.user) \in Int /\ cur.most \in Nat /\ cur.user \in Users
    BY <2>1, BalanceInt DEF TypeOK, Work
  <2> QED BY <2>2, ConstantsAssumption DEF ClaimHeld, Payable, Deciding, Amount
<1>3. \A u \in Users : \/ hold'[u] = hold[u]
                       \/ u = cur.user /\ hold'[u].lamports = Amount /\ ~hold'[u].linked
  BY DEF ClaimHeld, TypeOK, LedgerType
<1>4. HeldIsCovered'
  <2> SUFFICES ASSUME NEW u \in Users PROVE HeldLamports(u)' <= Balance(u)'
    BY DEF HeldIsCovered
  <2>1. Balance(u)' = Balance(u) /\ Balance(u) \in Int /\ 0 <= Balance(u) /\ HeldLamports(u) <= Balance(u)
    BY <1>1, BalanceInt DEF Balance, Credited, Debited, Pending, HeldIsCovered, TypeOK
  <2>2. HeldLamports(u)' \in {0, HeldLamports(u), hold'[u].lamports}
    BY DEF HeldLamports
  <2>3. hold'[u] = hold[u] => HeldLamports(u)' = HeldLamports(u)
    BY DEF HeldLamports, Open
  <2> QED BY <1>2, <1>3, <2>1, <2>2, <2>3
<1>5. LinkIsPaid'
  BY <1>1, <1>3 DEF LinkIsPaid, InFlight
<1> QED BY <1>1, <1>4, <1>5
        DEF OwnRows, OneDebitPerSignature, SentIsPending, LandedIsBooked, BooksMatchChain,
            InFlight, Landed, RowsOf

\* A claim is paid out of a balance nothing else is pending on, and no less
\* than its hold.
LEMMA ClaimPayBooks == ASSUME TypeOK, TickIsCurrent, Books, ClaimPay PROVE Books'
<1> USE DEF totals
<1>1. cur \in Work
  BY DEF ClaimPay, Payable, Deciding, TickIsCurrent, Working
<1>0. PICK u \in Users : u = cur.user
  BY <1>1 DEF Work
<1> DEFINE rows == [Zero EXCEPT ![u] = Amount]
<1>2. cur.wallet \in Wallets /\ cur.most \in Nat /\ Balance(u) \in Int
  BY <1>1, BalanceInt DEF Work, TypeOK
<1>3. Amount \in Nat /\ Amount <= Balance(u) /\ ~HasPending(u)
  BY <1>0, <1>2, ConstantsAssumption DEF ClaimPay, Payable, Deciding, Amount
<1>4. u \notin InFlight /\ rows \in [Users -> Nat] /\ u \in Slots /\ rows[u] = Amount
      /\ \A v \in Users : v # u => rows[v] = 0
  BY <1>2, <1>3 DEF HasPending, InFlight, Zero, Slots
<1>5. UNCHANGED <<totals, chainVars>> /\ WriteAhead(u, cur.wallet, Amount, rows)
  BY <1>0 DEF ClaimPay, Reply
<1> HIDE DEF rows
<1>6. /\ (OwnRows /\ OneDebitPerSignature /\ SentIsPending /\ LandedIsBooked /\ BooksMatchChain)'
      /\ InFlight' = InFlight \cup {u}
      /\ \A j \in Slots : debits'[j] = debits[j] \/ (j = u /\ debits'[j].rows = rows)
      /\ debits'[u].rows = rows
  BY <1>2, <1>3, <1>4, <1>5, WriteAheadBooks
<1>7. hold[u].lamports <= Amount /\ ~hold[u].linked
  <2>1. ~hold[u].linked
    BY <1>2, <1>4 DEF Books, LinkIsPaid
  <2>2. hold[u].lamports <= Balance(u) /\ hold[u].lamports \in Nat
    BY <1>2, <2>1, HoldFacts DEF Books, HeldIsCovered, TypeOK
  <2>3. phase = "approved" => cur.most = hold[u].lamports
    BY <1>0 DEF TickIsCurrent, ClaimPay, Payable, Deciding
  <2> QED BY <1>0, <1>2, <2>1, <2>2, <2>3 DEF Amount
<1>8. /\ \A v \in Users : v # u => hold'[v] = hold[v]
      /\ hold'[u].lamports = hold[u].lamports
      /\ HeldLamports(u)' = 0
  <2>1. hold[u] \in Hold \/ hold[u] = NoHold
    BY DEF TypeOK, LedgerType
  <2>2. CASE Open(u)
    <3>1. hold' = [hold EXCEPT ![u].linked = TRUE]
      BY <1>0, <2>2 DEF ClaimPay
    <3>2. hold'[u] = [hold[u] EXCEPT !.linked = TRUE] /\ \A v \in Users : v # u => hold'[v] = hold[v]
      BY <3>1 DEF TypeOK, LedgerType
    <3>3. hold'[u].linked /\ hold'[u].lamports = hold[u].lamports
      BY <2>1, <2>2, <3>2 DEF Open, Hold
    <3> QED BY <3>2, <3>3 DEF HeldLamports, Open
  <2>3. CASE ~Open(u)
    <3>1. hold' = hold
      BY <1>0, <2>3 DEF ClaimPay
    <3> QED BY <2>3, <3>1 DEF HeldLamports, Open
  <2> QED BY <2>2, <2>3
<1>9. HeldIsCovered'
  <2> SUFFICES ASSUME NEW v \in Users PROVE HeldLamports(v)' <= Balance(v)'
    BY DEF HeldIsCovered
  <2>1. Credited(v)' = Credited(v) /\ final'[v] = final[v]
    BY <1>5 DEF Credited
  <2>2. CASE v = u
    <3>1. debits[u].rows[u] = 0 /\ debits'[u].rows[u] = Amount /\ debits'[Burn] = debits[Burn]
      BY <1>2, <1>4, <1>6, RowsNat, ConstantsAssumption DEF Slots, NoDebit, Zero, TypeOK
    <3>2. Debited(u) \in Nat /\ Credited(u) \in Nat
      BY BalanceInt DEF TypeOK
    <3>3. Debited(u)' = Debited(u) + Amount
      BY <1>3, <2>1, <2>2, <3>1, <3>2, RowsNat
         DEF Debited, Pending, TypeOK, LedgerType, Slots
    <3>4. Balance(u)' = Balance(u) - Amount
      BY <1>3, <2>1, <2>2, <3>2, <3>3 DEF Balance
    <3> QED BY <1>2, <1>3, <1>8, <2>2, <3>4
  <2>3. CASE v # u
    <3>1. debits'[v].rows[v] = debits[v].rows[v] /\ debits'[Burn] = debits[Burn]
      BY <1>2, <1>6, <2>3, ConstantsAssumption DEF Slots
    <3>2. Balance(v)' = Balance(v)
      BY <2>1, <3>1 DEF Balance, Debited, Pending
    <3>3. HeldLamports(v)' = HeldLamports(v)
      BY <1>8, <2>3 DEF HeldLamports, Open
    <3> QED BY <3>2, <3>3 DEF Books, HeldIsCovered
  <2> QED BY <2>2, <2>3
<1>10. LinkIsPaid'
  <2> SUFFICES ASSUME NEW v \in Users, hold'[v].linked
               PROVE  v \in InFlight' /\ debits'[v].rows[v] >= hold'[v].lamports
    BY DEF LinkIsPaid
  <2>1. CASE v = u
    BY <1>2, <1>4, <1>6, <1>7, <1>8, <2>1
  <2>2. CASE v # u
    BY <1>2, <1>6, <1>8, <2>2 DEF Books, LinkIsPaid, Slots
  <2> QED BY <2>1, <2>2
<1> QED BY <1>6, <1>9, <1>10 DEF Books

\* Giving up a hold moves no money.
LEMMA DropBooks == ASSUME TypeOK, TickIsCurrent, Books, DropHeld PROVE Books'
<1> USE DEF totals, Books
<1>1. UNCHANGED <<totals, debits, sent, landed, failed, floor, left>>
  BY DEF DropHeld, chainVars, signed
<1>2. \A u \in Users : hold'[u] \in {hold[u], NoHold}
  BY DEF DropHeld, TypeOK, LedgerType
<1>3. HeldIsCovered'
  <2> SUFFICES ASSUME NEW u \in Users PROVE HeldLamports(u)' <= Balance(u)'
    BY DEF HeldIsCovered
  <2>1. Balance(u)' = Balance(u) /\ Balance(u) \in Int /\ HeldLamports(u) \in Nat /\ HeldLamports(u) <= Balance(u)
    BY <1>1, BalanceInt DEF Balance, Credited, Debited, Pending, HeldIsCovered, TypeOK
  <2>2. HeldLamports(u)' \in {0, HeldLamports(u)}
    BY <1>2 DEF HeldLamports, Open, NoHold
  <2> QED BY <2>1, <2>2
<1>4. LinkIsPaid'
  BY <1>1, <1>2 DEF LinkIsPaid, InFlight, NoHold
<1> QED BY <1>1, <1>3, <1>4
        DEF OwnRows, OneDebitPerSignature, SentIsPending, LandedIsBooked, BooksMatchChain,
            InFlight, Landed, RowsOf

\* Working on a claim keeps the books.
LEMMA PayingBooks == ASSUME TypeOK, TickIsCurrent, Books, Paying PROVE Books'
<1>1. CASE SendClaim
  BY <1>1, TransmitBooks DEF SendClaim, TickIsCurrent
<1> QED BY <1>1, QuietBooks, ClaimHeldBooks, ClaimPayBooks, DropBooks DEF Paying

\* A burn takes from each requester what is neither debited nor held (burnable).
LEMMA WriteBurnBooks == ASSUME TypeOK, Books, WriteBurn PROVE Books'
<1>1. PICK total \in MinBurn..treasury : WriteAhead(Burn, Toll, total, Owed)
  BY DEF WriteBurn
<1>2. Burn \notin InFlight /\ Burn \in Slots /\ total \in Nat /\ Owed \in [Users -> Nat]
      /\ UNCHANGED <<totals, chainVars, hold>>
  BY <1>1, BalanceInt, ConstantsAssumption
     DEF WriteBurn, InFlight, Slots, Owed, TypeOK, ChainType
<1>3. /\ (OwnRows /\ OneDebitPerSignature /\ SentIsPending /\ LandedIsBooked /\ BooksMatchChain)'
      /\ InFlight' = InFlight \cup {Burn}
      /\ \A j \in Slots : debits'[j] = debits[j] \/ (j = Burn /\ debits'[j].rows = Owed)
      /\ debits'[Burn].rows = Owed
  BY <1>1, <1>2, WriteAheadBooks
<1>4. \A u \in Users : debits'[u] = debits[u]
  BY <1>3, ConstantsAssumption DEF Slots
<1>5. HeldIsCovered'
  <2> SUFFICES ASSUME NEW u \in Users PROVE HeldLamports(u)' <= Balance(u)'
    BY DEF HeldIsCovered
  <2>1. HeldLamports(u)' = HeldLamports(u) /\ UNCHANGED <<fresh, aged, final>>
    BY <1>2 DEF HeldLamports, Open, totals
  <2>2. debits[Burn].rows[u] = 0 /\ debits'[Burn].rows[u] = Burnable(u)
    BY <1>2, <1>3, RowsNat DEF Owed, NoDebit, Zero, TypeOK
  <2>3. Balance(u)' = Balance(u) - Burnable(u)
    BY <1>4, <2>1, <2>2, BalanceInt, RowsNat
       DEF Balance, Debited, Pending, Credited, TypeOK, LedgerType, Slots
  <2>4. Burnable(u) = 0 \/ Burnable(u) + HeldLamports(u) <= Balance(u)
    BY BalanceInt DEF Burnable, Positive, Balance, Credited, TypeOK, LedgerType
  <2> QED BY <2>1, <2>3, <2>4, BalanceInt DEF Books, HeldIsCovered, TypeOK
<1>6. LinkIsPaid'
  BY <1>2, <1>3, <1>4 DEF Books, LinkIsPaid
<1> QED BY <1>3, <1>5, <1>6 DEF Books

\* The burn step keeps the books.
LEMMA BurnBooks == ASSUME TypeOK, TickIsCurrent, Books, WriteBurn \/ SendBurn PROVE Books'
<1>1. CASE SendBurn
  BY <1>1, TransmitBooks DEF SendBurn, TickIsCurrent
<1> QED BY <1>1, WriteBurnBooks

\* Every step keeps the books.
LEMMA BooksStep == ASSUME TypeOK, TickIsCurrent, Books, ~StaleReads, [Next]_vars PROVE Books'
<1>1. CASE UNCHANGED vars
  <2>1. \A v \in Users : Credited(v)' = Credited(v) /\ Credited(v) \in Nat
    BY <1>1, BalanceInt DEF vars, ledgerVars, totals, naming, Credited, TypeOK
  <2> QED BY <1>1, <2>1, BooksFrame DEF vars, ledgerVars, totals, naming, chainVars, signed
<1>2. CASE Next
  BY <1>2, OutsideBooks, QuietBooks, PayingBooks, ReconcileBooks, BurnBooks, FaultBooks DEF Next, Bot
<1> QED BY <1>1, <1>2

--------------------------------------------------------------------------------
\* A new ledger, and a chain that has seen no payment, are consistent.
LEMMA InitIInv == Init => IInv
<1> SUFFICES ASSUME Init PROVE IInv
  OBVIOUS
<1> USE ConstantsAssumption DEF Init, Zero
<1>1. InFlight = {}
  BY DEF InFlight, NoDebit, Slots
<1>2. TypeOK
  <2>1. LedgerType
    BY DEF LedgerType, WalletRow, Naming, NotNamed
  <2>2. SiteType
    BY DEF SiteType, States
  <2>5. ChainType
    BY DEF ChainType
  <2>3. PlaceType
    BY DEF PlaceType, Following, Places
  <2>4. VetoType
    BY DEF VetoType
  <2> QED BY <2>1, <2>2, <2>3, <2>4, <2>5 DEF TypeOK
<1>3. TickIsCurrent
  BY DEF TickIsCurrent, Working
<1>4. Books
  BY <1>1 DEF Books, OwnRows, OneDebitPerSignature, SentIsPending, LandedIsBooked, BooksMatchChain,
     HeldIsCovered, LinkIsPaid, Landed, RowsOf, HeldLamports, Open, Balance, Credited, Debited,
     Pending, NoDebit, NoHold, Slots
<1> QED BY <1>2, <1>3, <1>4 DEF IInv

\* The inductive invariant holds in every state: types, what the tick remembers,
\* and the books, whatever is lost, repeated, delayed or crashed in between.
THEOREM InvariantHolds == ~StaleReads => (Spec => []IInv)
<1> SUFFICES ASSUME ~StaleReads PROVE Spec => []IInv
  OBVIOUS
<1>1. Init => IInv
  BY InitIInv
<1>2. IInv /\ [Next]_vars => IInv'
  BY TypeStep, TickStep, BooksStep DEF IInv
<1> QED BY <1>1, <1>2, PTL DEF Spec

\* Every reachable state is well typed: no row, queue entry, place or flag is
\* ever one the code could not hold.
THEOREM TypeCorrect == ~StaleReads => (Spec => []TypeOK)
<1>1. IInv => TypeOK
  BY DEF IInv
<1> QED BY <1>1, InvariantHolds, PTL

\* The ledger says exactly what the chain did, in every reachable state.
THEOREM BooksAreRight == ~StaleReads => (Spec => []BooksMatchChain)
<1>1. IInv => BooksMatchChain
  BY DEF IInv, Books
<1> QED BY <1>1, InvariantHolds, PTL

\* No requester is ever paid, or has burned for them, more than was credited.
THEOREM NobodyOverpaid == ~StaleReads => (Spec => []NeverOverpaid)
<1>1. IInv => NeverOverpaid
  <2> SUFFICES ASSUME IInv, NEW u \in Users PROVE left[u] <= Credited(u)
    BY DEF NeverOverpaid
  <2> USE DEF IInv
  <2>1. debits[u].rows[u] \in Nat /\ debits[Burn].rows[u] \in Nat /\ final[u] \in Nat
    BY RowsNat DEF TypeOK, LedgerType, Slots
  <2>2. RowsOf(u, Landed(InFlight)) <= Pending(u)
    BY <2>1 DEF RowsOf, Pending
  <2>3. Balance(u) >= 0
    BY BalanceInt DEF Books, HeldIsCovered, TypeOK
  <2>4. left[u] = final[u] + RowsOf(u, Landed(InFlight)) /\ RowsOf(u, Landed(InFlight)) \in Nat
    BY RowsOfNat DEF Books, BooksMatchChain, TypeOK
  <2> QED BY <2>1, <2>2, <2>3, <2>4, BalanceInt DEF Balance, Debited, TypeOK
<1> QED BY <1>1, InvariantHolds, PTL

\* What a held claim is waiting for is always still there.
THEOREM HoldsAreCovered == ~StaleReads => (Spec => []HeldIsCovered)
<1>1. IInv => HeldIsCovered
  BY DEF IInv, Books
<1> QED BY <1>1, InvariantHolds, PTL

\* No two debits ever rest on the same signature.
THEOREM SignaturesAreUnique == ~StaleReads => (Spec => []OneDebitPerSignature)
<1>1. IInv => OneDebitPerSignature
  BY DEF IInv, Books
<1> QED BY <1>1, InvariantHolds, PTL

--------------------------------------------------------------------------------
(* What a step may never do. *)

\* Only a claim being paid, or a burn, writes a payment; any other step leaves
\* each slot as it is or empties it.
LEMMA WhoWrites ==
  ASSUME TypeOK, [Next]_vars, NEW k \in Slots
  PROVE  \/ debits'[k] = debits[k] \/ debits'[k] = NoDebit
         \/ ClaimPay /\ k = cur.user
         \/ WriteBurn /\ k = Burn
<1>1. CASE UNCHANGED vars
  BY <1>1 DEF vars, ledgerVars
<1>2. CASE Chain \/ Time \/ People
  BY <1>2 DEF Chain, Distribute, NewBlock, Expire, Land, LandFailed, Time, WeekPasses, DayPasses, WaitEnds,
              People, Submit, SubmitFails, ApproveHeld, ledgerVars
<1>3. ASSUME NEW F, NEW D, Settle(F, D) PROVE debits'[k] = debits[k] \/ debits'[k] = NoDebit
  BY <1>3 DEF Settle
<1>4. CASE Reconcile \/ SettleRaises
  BY <1>3, <1>4 DEF Reconcile, ReadStatuses, ReadHeight, ReadAgain, SettleRaises, ledgerVars
<1>5. CASE Scan \/ Taking \/ StepRaises \/ Crash
  BY <1>5 DEF Scan, Taking, PopClaim, DropStaleClaim, ClaimsDone, ListApproved, PickApproved, ApprovedDone,
              StepRaises, Crash, ledgerVars
<1>6. CASE ClaimPay \/ WriteBurn
  <2>1. ASSUME NEW j, NEW to, NEW n, NEW rows, WriteAhead(j, to, n, rows), k # j PROVE debits'[k] = debits[k]
    BY <2>1 DEF WriteAhead, TypeOK, LedgerType
  <2> QED BY <1>6, <2>1 DEF ClaimPay, WriteBurn
<1>7. CASE ClaimBusy \/ ClaimRefused \/ ClaimHeld \/ ClaimUnpaid \/ SendClaim \/ Answer \/ DropHeld
           \/ SkipBurn \/ SendBurn
  BY <1>7 DEF ClaimBusy, ClaimRefused, ClaimHeld, ClaimUnpaid, SendClaim, Answer, DropHeld, Transmit, SkipBurn, SendBurn,
              ledgerVars
<1> QED BY <1>1, <1>2, <1>4, <1>5, <1>6, <1>7 DEF Next, Bot, Paying, Faults

\* Only deciding a claim, or the end of its wait, touches the wallets.
LEMMA WhoNames ==
  ASSUME TypeOK, [Next]_vars
  PROVE  \/ UNCHANGED naming
         \/ \E u \in Users : WaitEnds(u)
         \/ ClaimRefused \/ ClaimHeld \/ ClaimPay \/ ClaimUnpaid
<1>1. CASE UNCHANGED vars
  BY <1>1 DEF vars, ledgerVars
<1>2. CASE Chain \/ Time \/ People
  BY <1>2 DEF Chain, Distribute, NewBlock, Expire, Land, LandFailed, Time, WeekPasses, DayPasses,
              People, Submit, SubmitFails, ApproveHeld, ledgerVars
<1>3. CASE Reconcile \/ SettleRaises
  BY <1>3 DEF Reconcile, ReadStatuses, ReadHeight, ReadAgain, SettleRaises, Settle, ledgerVars
<1>4. CASE Scan \/ Taking \/ StepRaises \/ Crash
  BY <1>4 DEF Scan, Taking, PopClaim, DropStaleClaim, ClaimsDone, ListApproved, PickApproved, ApprovedDone,
              StepRaises, Crash, ledgerVars
<1>5. CASE ClaimBusy \/ SendClaim \/ Answer \/ DropHeld \/ WriteBurn \/ SkipBurn \/ SendBurn
  BY <1>5 DEF ClaimBusy, SendClaim, Answer, DropHeld, Transmit, WriteBurn, SkipBurn, SendBurn, ledgerVars
<1> QED BY <1>1, <1>2, <1>3, <1>4, <1>5 DEF Next, Bot, Paying, Faults

\* An empty slot has no signature, and a payment has one (debit_pending).
LEMMA Unsigned ==
  ASSUME TypeOK, NEW k \in Slots
  PROVE  /\ NoDebit.sig = NoSig /\ NoSig \notin Sig
         /\ debits[k].sig = NoSig => debits[k] = NoDebit
  BY ConstantsAssumption DEF TypeOK, LedgerType, Debit, NoDebit, Sig, NoSig

\* A claim that ends a pending change, or names another wallet, says so in the
\* history too; one that waits goes on waiting (apply_wallet, WaitEnds).
LEMMA WaitStep == ASSUME TypeOK, TickIsCurrent, WaitIsCurrent, [Next]_vars PROVE WaitIsCurrent'
<1> USE DEF WaitIsCurrent
<1>1. CASE UNCHANGED naming
  BY <1>1 DEF naming
<1>0. wallets \in [Users -> WalletRow] /\ named \in [Users -> Naming]
  BY DEF TypeOK, LedgerType
<1>2. ASSUME NEW u \in Users, WaitEnds(u) PROVE WaitIsCurrent'
  <2>1. \A v \in Users \ {u} : wallets'[v] = wallets[v] /\ named'[v] = named[v]
    BY <1>0, <1>2 DEF WaitEnds
  <2>2. wallets'[u].pend = wallets[u].pend /\ named'[u].wallet = named[u].wallet
    BY <1>0, <1>2 DEF WaitEnds, WalletRow, Naming
  <2>3. named'[u].waited = (named[u].waited \/ named[u].wallet = wallets[u].pend)
    BY <1>0, <1>2 DEF WaitEnds, Naming
  <2>4. named[u].wallet = wallets[u].pend
    BY <1>2 DEF WaitEnds
  <2> QED BY <2>1, <2>2, <2>3, <2>4
<1>3. ASSUME cur \in Work, Bind, Name PROVE WaitIsCurrent'
  <2>1. \A u \in Users \ {cur.user} : wallets'[u] = wallets[u] /\ named'[u] = named[u]
    BY <1>3 DEF Bind, Name, TypeOK, LedgerType
  <2>2. wallets'[cur.user].pend = NoWallet
    BY <1>3 DEF Bind, TypeOK, LedgerType, Work
  <2> QED BY <2>1, <2>2
<1>4. ASSUME cur \in Work, ~MayUse, Wait, Name PROVE WaitIsCurrent'
  <2>1. cur.user \in Users /\ cur.wallet \in Wallets /\ cur.wallet # NoWallet
    BY <1>4, ConstantsAssumption DEF Work
  <2>2. wallets'[cur.user].bound = wallets[cur.user].bound /\ wallets[cur.user].bound # cur.wallet
    BY <1>4, <2>1 DEF Wait, MayUse, TypeOK, LedgerType, WalletRow
  <2>3. \A u \in Users \ {cur.user} : wallets'[u] = wallets[u] /\ named'[u] = named[u]
    BY <1>4, <2>1 DEF Wait, Name, TypeOK, LedgerType
  <2>4. named'[cur.user].wallet = cur.wallet
        /\ (named[cur.user].wallet = cur.wallet => named'[cur.user] = named[cur.user])
    BY <1>4, <2>1, <2>2 DEF Name, TypeOK, LedgerType
  <2>5. CASE wallets[cur.user].pend = cur.wallet
    BY <1>4, <2>1, <2>3, <2>4, <2>5 DEF Wait
  <2>6. CASE wallets[cur.user].pend # cur.wallet
    <3>1. wallets'[cur.user].pend = cur.wallet /\ ~wallets'[cur.user].ready
      BY <1>4, <2>1, <2>6 DEF Wait, TypeOK, LedgerType, WalletRow
    <3> QED BY <2>3, <2>4, <3>1
  <2> QED BY <2>5, <2>6
<1>5. CASE ClaimRefused \/ ClaimHeld \/ ClaimPay \/ ClaimUnpaid
  <2>1. cur \in Work
    BY <1>5 DEF ClaimRefused, ClaimHeld, ClaimPay, ClaimUnpaid, Payable, Deciding, TickIsCurrent, Working
  <2> QED BY <1>3, <1>4, <1>5, <2>1 DEF ClaimRefused, ClaimHeld, ClaimPay, ClaimUnpaid
<1> QED BY <1>1, <1>2, <1>5, WhoNames

\* A wallet takes another's place only when the claims have named it, and no
\* other, for 72 hours, and a payment goes to the wallet bound then.
LEMMA AgreedStep ==
  ASSUME TypeOK, TickIsCurrent, WaitIsCurrent, [Next]_vars, NEW u \in Users
  PROVE  /\ wallets'[u].bound # wallets[u].bound /\ wallets[u].bound # NoWallet
             => named[u] = [wallet |-> wallets'[u].bound, waited |-> TRUE]
         /\ debits'[u].sig # debits[u].sig /\ debits'[u].sig # NoSig
             => debits'[u].sig.to = wallets'[u].bound
<1> DEFINE Moved == wallets'[u].bound # wallets[u].bound /\ wallets[u].bound # NoWallet
           Paid  == debits'[u].sig # debits[u].sig /\ debits'[u].sig # NoSig
<1>1. ASSUME Moved PROVE named[u] = [wallet |-> wallets'[u].bound, waited |-> TRUE]
  <2>1. CASE UNCHANGED naming
    BY <1>1, <2>1 DEF naming
  <2>2. ASSUME NEW v \in Users, WaitEnds(v) PROVE FALSE
    BY <1>1, <2>2 DEF WaitEnds, TypeOK, LedgerType, WalletRow
  <2>3. CASE ClaimRefused \/ ClaimHeld \/ ClaimPay \/ ClaimUnpaid
    <3>1. cur \in Work /\ ((~MayUse /\ Wait) \/ (MayUse /\ Bind))
      BY <2>3 DEF ClaimRefused, ClaimHeld, ClaimPay, ClaimUnpaid, Payable, Deciding, TickIsCurrent, Working
    <3>2. ~Wait
      <4>1. ASSUME Wait PROVE wallets'[u].bound = wallets[u].bound
        <5>1. wallets \in [Users -> WalletRow] /\ cur.user \in Users
          BY <3>1 DEF TypeOK, LedgerType, Work
        <5>2. CASE wallets' = wallets
          BY <5>2
        <5>3. CASE wallets' = [wallets EXCEPT ![cur.user].pend = cur.wallet, ![cur.user].ready = FALSE]
          BY <5>1, <5>3 DEF WalletRow
        <5> QED BY <4>1, <5>2, <5>3 DEF Wait
      <4> QED BY <1>1, <4>1
    <3>3. MayUse /\ u = cur.user /\ wallets'[u].bound = cur.wallet /\ cur.wallet # NoWallet
      BY <1>1, <3>1, <3>2, ConstantsAssumption DEF Bind, TypeOK, LedgerType, Work
    <3>4. wallets[u].pend = cur.wallet /\ wallets[u].ready
      BY <1>1, <3>3 DEF MayUse
    <3>5. named[u].wallet = cur.wallet /\ named[u].waited /\ named[u] \in Naming
      BY <3>3, <3>4 DEF WaitIsCurrent, TypeOK, LedgerType
    <3> QED BY <3>3, <3>5 DEF Naming
  <2> QED BY <2>1, <2>2, <2>3, WhoNames
<1>2. ASSUME Paid PROVE debits'[u].sig.to = wallets'[u].bound
  <2>1. u \in Slots /\ u # Burn /\ debits'[u] # debits[u] /\ debits'[u] # NoDebit
    BY <1>2, Unsigned, ConstantsAssumption DEF Slots, NoDebit
  <2>2. ClaimPay /\ u = cur.user
    BY <2>1, WhoWrites
  <2>3. debits'[u].sig.to = cur.wallet
    BY <2>1, <2>2 DEF ClaimPay, WriteAhead, TypeOK, LedgerType
  <2>4. wallets'[u].bound = cur.wallet
    BY <2>2 DEF ClaimPay, Bind, TypeOK, LedgerType
  <2> QED BY <2>3, <2>4
<1> QED BY <1>1, <1>2

\* Whoever asks: no claim moves a requester's payments to a wallet their claims
\* had not named for 72 hours together, and each payment goes to the wallet bound
\* when it is written (claim_decision, apply_wallet).
THEOREM PaysWhereAgreed == ~StaleReads => (Spec => PaidWhereAgreed)
<1>1. Init => WaitIsCurrent
  BY DEF Init, WaitIsCurrent
<1>2. IInv /\ WaitIsCurrent /\ [Next]_vars => WaitIsCurrent'
  BY WaitStep DEF IInv
<1>3. IInv /\ WaitIsCurrent /\ [Next]_vars =>
        [\A u \in Users :
            /\ wallets'[u].bound # wallets[u].bound /\ wallets[u].bound # NoWallet
                => named[u] = [wallet |-> wallets'[u].bound, waited |-> TRUE]
            /\ debits'[u].sig # debits[u].sig /\ debits'[u].sig # NoSig
                => debits'[u].sig.to = wallets'[u].bound]_vars
  BY AgreedStep DEF IInv
<1> QED BY <1>1, <1>2, <1>3, InvariantHolds, PTL DEF Spec, PaidWhereAgreed

--------------------------------------------------------------------------------
\* A burn is written over an empty slot, and for each requester it takes what
\* is burnable at that moment.
LEMMA BurnTakes ==
  ASSUME TypeOK, TickIsCurrent, [Next]_vars, BurnWritten
  PROVE  /\ WriteBurn /\ debits[Burn] = NoDebit
         /\ debits'[Burn].rows = Owed /\ \A u \in Users : debits'[u] = debits[u]
<1>1. Burn \in Slots /\ debits'[Burn] # NoDebit /\ debits'[Burn] # debits[Burn]
  BY Unsigned DEF Slots, BurnWritten, NoDebit
<1>2. ~ClaimPay \/ cur.user # Burn
  BY ConstantsAssumption DEF ClaimPay, Payable, Deciding, TickIsCurrent, Working, Work
<1>3. WriteBurn
  BY <1>1, <1>2, WhoWrites
<1>4. debits[Burn] = NoDebit
  BY <1>1, <1>3, Unsigned DEF WriteBurn
<1>5. debits'[Burn].rows = Owed /\ \A u \in Users : debits'[u] = debits[u]
  BY <1>1, <1>3, ConstantsAssumption DEF WriteBurn, WriteAhead, TypeOK, LedgerType, Slots
<1> QED BY <1>3, <1>4, <1>5

\* What is burnable leaves the credit younger than a week, and the held claim.
LEMMA SparingStep ==
  ASSUME TypeOK, TickIsCurrent, Books, [Next]_vars, BurnWritten, NEW u \in Users, debits'[Burn].rows[u] > 0
  PROVE  (Credited(u) - Debited(u))' >= fresh[u] + HeldLamports(u)
<1>1. /\ fresh[u] \in Nat /\ aged[u] \in Nat /\ final[u] \in Nat
      /\ HeldLamports(u) \in Int /\ Debited(u) \in Int
  BY BalanceInt, HoldFacts DEF TypeOK, LedgerType
<1>2. debits[u].rows[u] \in Nat /\ debits[Burn].rows[u] \in Nat
  BY RowsNat DEF TypeOK, Slots
<1>3. WriteBurn /\ debits[Burn] = NoDebit /\ debits'[u] = debits[u] /\ debits'[Burn].rows[u] = Burnable(u)
  BY BurnTakes DEF Owed
<1>4. Burnable(u) = aged[u] - Debited(u) - HeldLamports(u)
  BY <1>1, <1>3 DEF Burnable, Positive
<1>5. debits[Burn].rows[u] = 0
  BY <1>3 DEF NoDebit, Zero
<1>6. Debited(u)' = Debited(u) + Burnable(u) /\ Credited(u)' = Credited(u)
  BY <1>1, <1>2, <1>3, <1>4, <1>5 DEF Debited, Pending, Credited, WriteBurn, totals
<1> QED BY <1>1, <1>4, <1>6 DEF Credited

\* A burn leaves a requester all credit younger than a week and whatever a held
\* claim is waiting for (burnable).
THEOREM BurnsSpareFreshAndHeld == ~StaleReads => (Spec => BurnSparesFreshAndHeld)
<1>1. IInv /\ [Next]_vars =>
        [BurnWritten => \A u \in Users : debits'[Burn].rows[u] > 0
            => (Credited(u) - Debited(u))' >= fresh[u] + HeldLamports(u)]_vars
  BY SparingStep DEF IInv
<1> QED BY <1>1, InvariantHolds, PTL DEF Spec, BurnSparesFreshAndHeld

--------------------------------------------------------------------------------
\* Only the claims step sees claims it leaves in the queue, and a tick that may
\* still burn has seen none (tick_money, _claims).
LEMMA MayBurnStep == ASSUME TypeOK, MayBurn, [Next]_vars PROVE MayBurn'
<1> USE DEF MayBurn, vetoVars
<1>1. CASE UNCHANGED vetoVars
  BY <1>1
<1>2. CASE ClaimsDone
  <2>1. queue = <<>> => Claimants(queue) = {}
    BY DEF Claimants
  <2> QED BY <1>2, <2>1 DEF ClaimsDone, LimitReached
<1>3. ASSUME NEW pending, Raise(pending) PROVE MayBurn'
  BY <1>3 DEF Raise
<1>4. CASE StepRaises \/ SettleRaises
  BY <1>3, <1>4 DEF StepRaises, SettleRaises
<1>5. CASE Scan \/ Crash
  BY <1>5 DEF Scan, Crash
<1>6. \/ UNCHANGED vetoVars
      \/ ClaimsDone \/ StepRaises \/ SettleRaises \/ Scan \/ Crash
  BY DEF vars, Next, Chain, Distribute, NewBlock, Expire, Land, LandFailed, Time, WeekPasses, DayPasses, WaitEnds,
         People, Submit, SubmitFails, ApproveHeld, Bot, Reconcile, ReadStatuses, ReadHeight, ReadAgain,
         Taking, PopClaim, DropStaleClaim, ListApproved, PickApproved, ApprovedDone, Paying, ClaimBusy,
         ClaimRefused, ClaimHeld, ClaimPay, ClaimUnpaid, Reply, SendClaim, Answer, DropHeld, Transmit,
         WriteBurn, SkipBurn, SendBurn, Faults
<1> QED BY <1>1, <1>2, <1>4, <1>5, <1>6

\* What the claim being worked on will be told is true of the books.
LEMMA AnswerStep ==
  ASSUME TypeOK, TickIsCurrent, AnswerIsTrue, [Next]_vars
  PROVE  AnswerIsTrue'
<1> USE DEF AnswerIsTrue
<1>1. CASE UNCHANGED <<at, phase, cur, debits>>
  BY <1>1
<1>2. ASSUME at' \notin {"send", "answer"} PROVE AnswerIsTrue'
  BY <1>2
<1>3. ASSUME NEW p \in DOMAIN Following, GoTo(p) PROVE at' \notin {"send", "answer"}
  BY <1>3 DEF GoTo, Following
<1>4. NextStep => at' \notin {"send", "answer"}
  BY <1>3 DEF NextStep, TypeOK, PlaceType, Following
<1>5. CASE Chain \/ Time \/ People
  BY <1>1, <1>5 DEF Chain, Distribute, NewBlock, Expire, Land, LandFailed, Time, WeekPasses, DayPasses, WaitEnds,
              People, Submit, SubmitFails, ApproveHeld, ledgerVars, tickVars
<1>6. CASE Scan \/ Reconcile \/ Taking \/ Faults
  <2>1. EndReconcile => at' \notin {"send", "answer"}
    BY <1>4 DEF EndReconcile
  <2>2. ASSUME NEW K, NEW place \in {"height", "again"}, Doubt(K, place) PROVE at' \notin {"send", "answer"}
    BY <2>1, <2>2 DEF Doubt
  <2>3. CASE Reconcile
    BY <1>2, <2>1, <2>2, <2>3 DEF Reconcile, ReadStatuses, ReadHeight, ReadAgain
  <2>4. CASE Scan \/ Faults
    BY <1>2, <1>3, <1>4, <2>4 DEF Scan, Faults, StepRaises, SettleRaises, Crash, Raise, Following
  <2>5. CASE Taking
    BY <1>2, <1>4, <2>5 DEF Taking, PopClaim, DropStaleClaim, Popping, ClaimsDone, ListApproved, PickApproved,
                            ApprovedDone, Take
  <2> QED BY <1>6, <2>3, <2>4, <2>5
<1>7. CASE ClaimBusy \/ ClaimRefused \/ ClaimHeld \/ ClaimPay \/ ClaimUnpaid
  <2>1. cur \in Work /\ (Deciding => debits[cur.user].sig = NoSig)
    BY <1>7 DEF ClaimBusy, ClaimRefused, ClaimHeld, ClaimPay, ClaimUnpaid, Payable, Deciding, HasPending,
                TickIsCurrent, Working
  <2>2. ASSUME NEW place, NEW answer, Reply(place, answer)
        PROVE  at' = place /\ cur'.answer = answer /\ cur'.user = cur.user
    BY <2>1, <2>2 DEF Reply, Work
  <2> QED BY <1>7, <2>1, <2>2 DEF ClaimBusy, ClaimRefused, ClaimHeld, ClaimPay, ClaimUnpaid, Payable
<1>8. CASE SendClaim \/ Answer \/ DropHeld
  BY <1>8 DEF SendClaim, Answer, DropHeld
<1>9. CASE WriteBurn \/ SkipBurn \/ SendBurn
  BY <1>2, <1>4, <1>9 DEF WriteBurn, SkipBurn, SendBurn
<1> QED BY <1>1, <1>5, <1>6, <1>7, <1>8, <1>9 DEF Next, Bot, Paying, vars, ledgerVars, tickVars

\* Both hold from the start, for whatever the tick does.
LEMMA TickInvHolds == ~StaleReads => (Spec => []TickInv)
<1>1. Init => TickInv
  BY DEF Init, TickInv, MayBurn, AnswerIsTrue
<1>2. IInv /\ TickInv /\ [Next]_vars => TickInv'
  BY MayBurnStep, AnswerStep DEF IInv, TickInv
<1> QED BY <1>1, <1>2, InvariantHolds, PTL DEF Spec

\* No burn is written by a tick that left a claim in the queue, be it for its
\* limit or for an exception (tick_money, _claims).
THEOREM BurnsWaitForQueue == ~StaleReads => (Spec => BurnWaitsForQueue)
<1>1. IInv /\ TickInv /\ [Next]_vars => [BurnWritten => stranded = {}]_vars
  BY BurnTakes DEF IInv, TickInv, MayBurn, WriteBurn
<1> QED BY <1>1, InvariantHolds, TickInvHolds, PTL DEF Spec, BurnWaitsForQueue

--------------------------------------------------------------------------------
\* An exception refuses only the claim being worked on, and only when nothing
\* of it is pending (_requeue).
LEMMA RaiseRefuses ==
  ASSUME TypeOK, NEW pending, Raise(pending), NEW u \in Users, status'[u] # status[u]
  PROVE  cur \in Work /\ u = cur.user /\ ~pending
<1>1. Requeue(pending)
  BY DEF Raise
<1>2. cur # Idle /\ ~pending /\ PutBack
  BY <1>1 DEF Requeue, kvVars
<1>3. cur \in Work
  BY <1>2 DEF TypeOK, PlaceType
<1>4. u = cur.user
  BY <1>2, <1>3 DEF PutBack, kvVars, TypeOK, SiteType, Work
<1> QED BY <1>2, <1>3, <1>4

\* Whoever the bot newly tells `refused' has no payment pending.
LEMMA RefusedStep ==
  ASSUME TypeOK, TickIsCurrent, AnswerIsTrue, [Next]_vars, NEW u \in Users,
         status'[u] = "refused", status[u] # "refused", tickVars' # tickVars
  PROVE  debits'[u].sig = NoSig
<1> u \in Slots
  BY DEF Slots
<1>1. ASSUME NEW F, NEW D, Settle(F, D), Stamp(F, D) PROVE debits'[u].sig = NoSig
  BY <1>1 DEF Settle, Stamp, NoDebit
<1>2. CASE Reconcile
  BY <1>1, <1>2 DEF Reconcile, ReadStatuses, ReadHeight, ReadAgain, kvVars
<1>3. CASE Answer
  <2>1. cur \in Work /\ cur.answer # "none" /\ at = "answer"
    BY <1>3 DEF Answer, TickIsCurrent, Working
  <2>2. u = cur.user /\ StateOf[cur.answer] = "refused"
    BY <1>3, <2>1 DEF Answer, TypeOK, SiteType, Work
  <2>3. cur.answer \in {"refused", "unpaid"}
    BY <2>1, <2>2 DEF StateOf, Work, Answers
  <2> QED BY <1>3, <2>1, <2>2, <2>3 DEF Answer, AnswerIsTrue, ledgerVars
<1>4. CASE StepRaises
  <2> DEFINE pending == cur # Idle /\ HasPending(cur.user)
  <2>2. Raise(pending)
    BY <1>4 DEF StepRaises
  <2> HIDE DEF pending
  <2>3. cur \in Work /\ u = cur.user /\ ~pending
    BY <2>2, RaiseRefuses
  <2>1. ~HasPending(u)
    BY <2>3, ConstantsAssumption DEF pending, Work, Idle
  <2> QED BY <1>4, <2>1 DEF StepRaises, HasPending, ledgerVars
<1>5. CASE SettleRaises
  <2>1. PICK k \in Slots :
          /\ Settle(Landed({k}), {k} \ Landed({k}))
          /\ Raise(cur # Idle /\ \/ cur.user # k /\ debits[cur.user].sig # NoSig
                                 \/ Burn # k /\ debits[Burn].rows[cur.user] > 0)
    <3>1. Known \subseteq Slots /\ suspects \subseteq Slots
      BY DEF Known, InFlight, TypeOK, PlaceType
    <3> QED BY <1>5, <3>1 DEF SettleRaises
  <2> DEFINE pending == cur # Idle /\ \/ cur.user # k /\ debits[cur.user].sig # NoSig
                                      \/ Burn # k /\ debits[Burn].rows[cur.user] > 0
  <2>4. Raise(pending)
    BY <2>1
  <2> HIDE DEF pending
  <2>5. cur \in Work /\ u = cur.user /\ ~pending
    BY <2>4, RaiseRefuses
  <2>2. u = k \/ debits[u].sig = NoSig
    BY <2>5, ConstantsAssumption DEF pending, Work, Idle
  <2>3. Landed({k}) \cup ({k} \ Landed({k})) = {k}
    BY DEF Landed
  <2> QED BY <2>1, <2>2, <2>3 DEF Settle, NoDebit
<1>6. CASE Chain \/ Time \/ People
  BY <1>6 DEF Chain, Distribute, NewBlock, Expire, Land, LandFailed, Time, WeekPasses, DayPasses, WaitEnds,
              People, Submit, SubmitFails, ApproveHeld, kvVars, TypeOK, SiteType
<1>7. CASE Scan \/ Taking \/ Crash \/ UNCHANGED vars
  BY <1>7 DEF Scan, Taking, PopClaim, DropStaleClaim, ClaimsDone, ListApproved, PickApproved, ApprovedDone,
              Crash, kvVars, vars
<1>8. CASE ClaimBusy \/ ClaimRefused \/ ClaimHeld \/ ClaimPay \/ ClaimUnpaid \/ SendClaim
           \/ DropHeld \/ WriteBurn \/ SkipBurn \/ SendBurn
  BY <1>8 DEF ClaimBusy, ClaimRefused, ClaimHeld, ClaimPay, ClaimUnpaid, Reply, SendClaim, DropHeld, Transmit,
              WriteBurn, SkipBurn, SendBurn, kvVars
<1> QED BY <1>2, <1>3, <1>4, <1>5, <1>6, <1>7, <1>8 DEF Next, Bot, Paying, Faults

\* Nobody is told `refused' by the bot while a payment to them may still arrive,
\* so a claim made again is never a second one (_requeue, reconcile).
THEOREM RefusalsAreTrue == ~StaleReads => (Spec => RefusedMeansNothingSent)
<1>1. IInv /\ TickInv /\ [Next]_vars =>
        [\A u \in Users : (status'[u] = "refused" /\ status[u] # "refused" /\ tickVars' # tickVars)
            => debits'[u].sig = NoSig]_vars
  BY RefusedStep DEF IInv, TickInv
<1> QED BY <1>1, InvariantHolds, TickInvHolds, PTL DEF Spec, RefusedMeansNothingSent

--------------------------------------------------------------------------------
\* A row of tag_held that is approved is a whole row.
LEMMA ApprovedRow ==
  ASSUME LedgerType, NEW u \in Users, hold[u].state = "approved"
  PROVE  hold[u] \in Hold
  BY DEF LedgerType, NoHold

\* Settling ends an approved hold only by paying it in full.
LEMMA SettleStands ==
  ASSUME TypeOK, Books, NEW F \in SUBSET InFlight, NEW D, Settle(F, D),
         NEW u \in Users, hold[u].state = "approved"
  PROVE  \/ [hold'[u] EXCEPT !.linked = hold[u].linked] = hold[u]
         \/ hold'[u] = NoHold /\ final'[u] - final[u] >= hold[u].lamports
<1>1. hold[u] \in Hold /\ hold'[u] = HoldAfter(u, F, D) /\ final'[u] = final[u] + RowsOf(u, F) /\ final[u] \in Nat
  BY ApprovedRow DEF Settle, TypeOK, LedgerType
<1>2. CASE hold[u].linked /\ u \in F
  <2>1. debits[u].rows[u] >= hold[u].lamports /\ debits[u].rows[u] \in Nat /\ debits[Burn].rows[u] \in Nat
    BY <1>2, RowsNat DEF Books, LinkIsPaid, TypeOK, Slots
  <2>2. hold[u].lamports \in Nat
    BY <1>1 DEF Hold
  <2>3. RowsOf(u, F) >= hold[u].lamports /\ RowsOf(u, F) \in Nat
    BY <1>2, <2>1, <2>2 DEF RowsOf
  <2> QED BY <1>1, <1>2, <2>2, <2>3 DEF HoldAfter
<1>3. CASE ~(hold[u].linked /\ u \in F)
  BY <1>1, <1>3 DEF HoldAfter, Hold
<1> QED BY <1>2, <1>3

\* Whatever happens, an approved hold stays one until it is paid or refused.
LEMMA StandsStep ==
  ASSUME TypeOK, TickIsCurrent, Books, [Next]_vars, NEW u \in Users, hold[u].state = "approved"
  PROVE  \/ [hold'[u] EXCEPT !.linked = hold[u].linked] = hold[u]
         \/ hold'[u] = NoHold /\ final'[u] - final[u] >= hold[u].lamports
         \/ hold'[u] = NoHold /\ cur # Idle /\ cur.user = u /\ cur.answer = "refused"
<1>1. hold[u] \in Hold /\ hold \in [Users -> Hold \cup {NoHold}]
  BY ApprovedRow DEF TypeOK, LedgerType
<1> DEFINE Same == [hold'[u] EXCEPT !.linked = hold[u].linked] = hold[u]
<1>2. hold'[u] = hold[u] => Same
  BY <1>1 DEF Hold
<1>3. CASE Reconcile \/ SettleRaises
  <2>1. \A K : Landed(K) \cap InFlight = Landed(K \cap InFlight) /\ Landed(K) \subseteq K
    BY DEF Landed
  <2>2. ASSUME NEW S \in SUBSET InFlight, NEW D, Settle(Landed(S), D)
        PROVE  Same \/ (hold'[u] = NoHold /\ final'[u] - final[u] >= hold[u].lamports)
    <3>1. Landed(S) \in SUBSET InFlight
      BY <2>1, <2>2
    <3> QED BY <2>2, <3>1, SettleStands
  <2>3. Known \subseteq InFlight /\ (at = "again" => suspects \subseteq InFlight)
    BY DEF Known, TickIsCurrent
  <2>4. CASE ReadStatuses
    <3>1. PICK S \in SUBSET Known : Settle(Landed(S), S \ Landed(S))
      BY <2>4 DEF ReadStatuses
    <3> QED BY <2>2, <2>3, <3>1
  <2>5. CASE ReadAgain
    <3>1. PICK S \in SUBSET Known : \E D : Settle(Landed(S), D)
      BY <2>5 DEF ReadAgain
    <3> QED BY <2>2, <2>3, <3>1
  <2>6. CASE SettleRaises
    <3>1. PICK k \in IF at = "read" THEN Known ELSE suspects : Settle(Landed({k}), {k} \ Landed({k}))
      BY <2>6 DEF SettleRaises
    <3>2. {k} \in SUBSET InFlight
      BY <2>3, <2>6, <3>1 DEF SettleRaises
    <3> QED BY <2>2, <3>1, <3>2
  <2>7. CASE ReadHeight
    BY <1>2, <2>7 DEF ReadHeight, ledgerVars
  <2> QED BY <1>3, <2>4, <2>5, <2>6, <2>7 DEF Reconcile
<1>4. CASE ClaimHeld
  BY <1>1, <1>2, <1>4 DEF ClaimHeld, KeepsHold
<1>5. CASE ClaimPay
  BY <1>1, <1>2, <1>5 DEF ClaimPay, Hold
<1>6. CASE DropHeld
  <2>1. cur \in Work /\ cur # Idle /\ cur.answer = "refused"
    BY <1>6, ConstantsAssumption DEF DropHeld, TickIsCurrent, Working, Work, Idle
  <2> QED BY <1>1, <1>2, <1>6, <2>1 DEF DropHeld
<1>7. CASE Chain \/ Time \/ People
  <2>1. ASSUME NEW v \in Users, ApproveHeld(v) PROVE hold'[u] = hold[u]
    BY <1>1, <2>1 DEF ApproveHeld
  <2> QED BY <1>2, <1>7, <2>1 DEF Chain, Distribute, NewBlock, Expire, Land, LandFailed, Time, WeekPasses,
                                 DayPasses, WaitEnds, People, Submit, SubmitFails, ledgerVars
<1>8. CASE Scan \/ Taking \/ StepRaises \/ Crash \/ UNCHANGED vars
  BY <1>2, <1>8 DEF Scan, Taking, PopClaim, DropStaleClaim, ClaimsDone, ListApproved, PickApproved,
                    ApprovedDone, StepRaises, Crash, ledgerVars, vars
<1>9. CASE ClaimBusy \/ ClaimRefused \/ ClaimUnpaid \/ SendClaim \/ Answer \/ WriteBurn \/ SkipBurn \/ SendBurn
  BY <1>2, <1>9 DEF ClaimBusy, ClaimRefused, ClaimUnpaid, SendClaim, Answer, Transmit, WriteBurn, SkipBurn,
                    SendBurn, ledgerVars
<1> QED BY <1>3, <1>4, <1>5, <1>6, <1>7, <1>8, <1>9 DEF Next, Bot, Paying, Faults

\* What the owner approved is not undone by another claim, a restart or an
\* expired payment: it ends paid in full, or refused when it is taken up.
THEOREM ApprovalsStand == ~StaleReads => (Spec => ApprovalStands)
<1>1. IInv /\ [Next]_vars =>
        [\A u \in Users : hold[u].state = "approved" =>
            \/ [hold'[u] EXCEPT !.linked = hold[u].linked] = hold[u]
            \/ hold'[u] = NoHold /\ final'[u] - final[u] >= hold[u].lamports
            \/ hold'[u] = NoHold /\ cur # Idle /\ cur.user = u /\ cur.answer = "refused"]_vars
  BY StandsStep DEF IInv
<1> QED BY <1>1, InvariantHolds, PTL DEF Spec, ApprovalStands

--------------------------------------------------------------------------------
(* The ledger implements the account. *)

\* What a slot still has to deliver: nothing once it landed.
LEMMA UnlandedNat ==
  ASSUME LedgerType, NEW u \in Users, NEW k \in Slots
  PROVE  /\ Unlanded(k, u) \in Nat
         /\ k \notin InFlight => Unlanded(k, u) = 0
         /\ k \in Landed(InFlight) => Unlanded(k, u) = 0
         /\ k \in InFlight \ Landed(InFlight) => Unlanded(k, u) = debits[k].rows[u]
  BY RowsNat DEF Unlanded, NoDebit, Zero, Landed

\* What the account calls free is the balance the ledger computes.
LEMMA FreeIsBalance ==
  ASSUME TypeOK, Books, NEW u \in Users
  PROVE  Account!Free(u) = Balance(u)
<1>1. u \in Slots /\ Burn \in Slots
  BY DEF Slots
<1>2. debits[u].rows[u] \in Nat /\ debits[Burn].rows[u] \in Nat /\ final[u] \in Nat /\ Credited(u) \in Nat
  BY <1>1, RowsNat, BalanceInt DEF TypeOK, LedgerType
<1>3. \A k \in Slots : k \notin InFlight => debits[k].rows[u] = 0
  BY RowsNat DEF NoDebit, Zero, TypeOK
<1>4. Unlanded(u, u) + Unlanded(Burn, u) + RowsOf(u, Landed(InFlight)) = Pending(u)
  BY <1>1, <1>2, <1>3, UnlandedNat DEF RowsOf, Pending, TypeOK, Landed
<1>5. left[u] = final[u] + RowsOf(u, Landed(InFlight)) /\ RowsOf(u, Landed(InFlight)) \in Nat
  BY RowsOfNat DEF Books, BooksMatchChain, TypeOK
<1>6. Unlanded(u, u) \in Nat /\ Unlanded(Burn, u) \in Nat /\ Pending(u) \in Nat
  BY <1>1, UnlandedNat, BalanceInt DEF TypeOK
<1> QED BY <1>2, <1>4, <1>5, <1>6 DEF Account!Free, Balance, Debited

\* A step that moves none of a requester's money is no step of the account.
LEMMA AccountStutters ==
  ASSUME \A u \in Users : /\ Credited(u)' = Credited(u) /\ HeldLamports(u)' = HeldLamports(u)
                          /\ Unlanded(u, u)' = Unlanded(u, u) /\ Unlanded(Burn, u)' = Unlanded(Burn, u),
         left' = left
  PROVE  UNCHANGED Account!vars
  BY DEF Account!vars

\* A payment that lands is the delivery of what was set aside.
LEMMA LandDelivers ==
  ASSUME TypeOK, Books, NEW d \in sent, Land(d)
  PROVE  Account!Next
<1>1. UNCHANGED <<fresh, aged, debits, hold>> /\ landed' = landed \cup {d.sig}
      /\ left' = [u \in Users |-> left[u] + d.rows[u]]
  BY DEF Land, ledgerVars, totals
<1>2. PICK k \in InFlight : debits[k] = d
  BY DEF Books, SentIsPending
<1>3. d.sig \notin landed /\ \A j \in InFlight : debits[j].sig = d.sig => j = k
  BY <1>2 DEF Books, SentIsPending, OneDebitPerSignature
<1>4. \A u \in Users : Credited(u)' = Credited(u) /\ HeldLamports(u)' = HeldLamports(u)
  BY <1>1 DEF Credited, HeldLamports, Open
<1>5. \A u \in Users, j \in Slots :
        /\ j # k => Unlanded(j, u)' = Unlanded(j, u)
        /\ j = k => Unlanded(j, u)' = 0 /\ Unlanded(j, u) = d.rows[u]
  <2> SUFFICES ASSUME NEW u \in Users, NEW j \in Slots
               PROVE  /\ j # k => Unlanded(j, u)' = Unlanded(j, u)
                      /\ j = k => Unlanded(j, u)' = 0 /\ Unlanded(j, u) = d.rows[u]
    OBVIOUS
  <2>1. CASE j = k
    BY <1>1, <1>2, <1>3, <2>1 DEF Unlanded
  <2>2. CASE j # k /\ j \in InFlight
    BY <1>1, <1>3, <2>2 DEF Unlanded
  <2>3. CASE j \notin InFlight
    BY <1>1, <1>2, <2>3, RowsNat DEF Unlanded, NoDebit, Zero, TypeOK
  <2> QED BY <2>1, <2>2, <2>3
<1>6. CASE k = Burn
  <2>1. \A u \in Users : u \in Slots /\ u # k /\ Unlanded(Burn, u) = d.rows[u] /\ Unlanded(Burn, u)' = 0
    BY <1>5, <1>6, ConstantsAssumption DEF Slots
  <2>2. [u \in Users |-> Unlanded(Burn, u)'] = Account!Zero
    BY <2>1 DEF Account!Zero
  <2>3. left' = [u \in Users |-> left[u] + [v \in Users |-> Unlanded(Burn, v)][u]]
    BY <1>1, <2>1
  <2>4. [u \in Users |-> Unlanded(u, u)'] = [u \in Users |-> Unlanded(u, u)]
    BY <1>5, <2>1
  <2>5. /\ [u \in Users |-> Credited(u)'] = [u \in Users |-> Credited(u)]
        /\ [u \in Users |-> HeldLamports(u)'] = [u \in Users |-> HeldLamports(u)]
    BY <1>4
  <2>6. Account!DeliverBurn
    BY <2>2, <2>3, <2>4, <2>5 DEF Account!DeliverBurn
  <2> QED BY <2>6 DEF Account!Next
<1>7. CASE k \in Users
  <2>1. \A u \in Users \ {k} : d.rows[u] = 0
    BY <1>2, <1>7 DEF Books, OwnRows
  <2>2. left' = [left EXCEPT ![k] = @ + d.rows[k]]
    <3>1. \A u \in Users : left[u] + d.rows[u] = IF u = k THEN left[k] + d.rows[k] ELSE left[u]
      BY <2>1 DEF TypeOK, ChainType
    <3>2. left' = [u \in Users |-> IF u = k THEN left[k] + d.rows[k] ELSE left[u]]
      BY <1>1, <3>1
    <3> QED BY <3>2 DEF TypeOK, ChainType
  <2>3. /\ Burn \in Slots /\ Burn # k
        /\ \A u \in Users : u \in Slots /\ Unlanded(u, u)' = IF u = k THEN 0 ELSE Unlanded(u, u)
    BY <1>5, <1>7, ConstantsAssumption DEF Slots
  <2>4. [u \in Users |-> Unlanded(u, u)'] = [[u \in Users |-> Unlanded(u, u)] EXCEPT ![k] = 0]
    BY <1>7, <2>3
  <2>5. left' = [left EXCEPT ![k] = @ + [u \in Users |-> Unlanded(u, u)][k]]
    BY <1>5, <1>7, <2>2, <2>3
  <2>6. [u \in Users |-> Unlanded(Burn, u)'] = [u \in Users |-> Unlanded(Burn, u)]
    BY <1>5, <2>3
  <2>7. /\ [u \in Users |-> Credited(u)'] = [u \in Users |-> Credited(u)]
        /\ [u \in Users |-> HeldLamports(u)'] = [u \in Users |-> HeldLamports(u)]
    BY <1>4
  <2>8. Account!DeliverPayment(k)
    BY <2>4, <2>5, <2>6, <2>7 DEF Account!DeliverPayment
  <2> QED BY <1>7, <2>8 DEF Account!Next
<1> QED BY <1>6, <1>7 DEF InFlight, Slots

\* Settling gives up what can never arrive, and opens its hold again.
LEMMA SettleReleases ==
  ASSUME TypeOK, Books, NEW F \in SUBSET Landed(InFlight), NEW D \in SUBSET InFlight,
         \A k \in D : debits[k].sig \notin landed, Settle(F, D), LedgerType'
  PROVE  Account!Next
<1>1. UNCHANGED <<fresh, aged, landed, left>> /\ F \cap D = {}
      /\ \A k \in Slots : debits'[k] = IF k \in F \cup D THEN NoDebit ELSE debits[k]
  BY DEF Settle, chainVars, signed, Landed
<1>2. \A u \in Users : Credited(u)' = Credited(u)
  BY <1>1 DEF Credited
<1>3. \A u \in Users, k \in Slots : Unlanded(k, u)' = IF k \in D THEN 0 ELSE Unlanded(k, u)
  <2> SUFFICES ASSUME NEW u \in Users, NEW k \in Slots
               PROVE  Unlanded(k, u)' = IF k \in D THEN 0 ELSE Unlanded(k, u)
    OBVIOUS
  <2>1. CASE k \in F \cup D
    BY <1>1, <2>1, UnlandedNat DEF Unlanded, NoDebit, Zero, TypeOK
  <2>2. CASE k \notin F \cup D
    BY <1>1, <2>2 DEF Unlanded
  <2> QED BY <2>1, <2>2
<1>4. \A u \in Users : /\ HeldLamports(u)' \in Nat
                       /\ HeldLamports(u)' # HeldLamports(u)
                             => u \in D /\ HeldLamports(u)' <= Account!Free(u) + Unlanded(u, u)
  <2> SUFFICES ASSUME NEW u \in Users
               PROVE  /\ HeldLamports(u)' \in Nat
                      /\ HeldLamports(u)' # HeldLamports(u)
                            => u \in D /\ HeldLamports(u)' <= Account!Free(u) + Unlanded(u, u)
    OBVIOUS
  <2>1. hold'[u] = HoldAfter(u, F, D)
    BY DEF Settle
  <2>2. hold[u].lamports \in Nat /\ (hold[u].linked => HeldLamports(u) = 0)
    BY HoldFacts DEF TypeOK
  <2>3. CASE ~hold[u].linked \/ u \notin D
    <3>1. hold'[u] = hold[u] \/ (hold[u].linked /\ hold'[u] = NoHold)
      BY <2>1, <2>3 DEF HoldAfter
    <3>2. HeldLamports(u)' = HeldLamports(u)
      BY <2>2, <3>1 DEF HeldLamports, Open, NoHold
    <3> QED BY <3>2, BalanceInt DEF TypeOK
  <2>4. CASE hold[u].linked /\ u \in D
    <3>1. debits[u].rows[u] >= hold[u].lamports
      BY <2>4 DEF Books, LinkIsPaid
    <3>2. Unlanded(u, u) = debits[u].rows[u] /\ Unlanded(u, u) \in Nat
      BY <2>4, UnlandedNat DEF TypeOK, Landed, Slots
    <3>3. Account!Free(u) = Balance(u) /\ Balance(u) \in Int /\ Balance(u) >= 0
      BY FreeIsBalance, BalanceInt DEF TypeOK, Books, HeldIsCovered
    <3>4. hold'[u].lamports = hold[u].lamports
      <4>1. hold[u] \in Hold
        BY <2>4 DEF TypeOK, LedgerType, NoHold
      <4>2. hold'[u] = [hold[u] EXCEPT !.linked = FALSE]
        BY <1>1, <2>1, <2>4 DEF HoldAfter
      <4> QED BY <4>1, <4>2 DEF Hold
    <3>5. HeldLamports(u)' \in {0, hold[u].lamports}
      BY <3>4 DEF HeldLamports
    <3> QED BY <2>2, <2>4, <3>1, <3>2, <3>3, <3>5
  <2> QED BY <2>3, <2>4
<1>5. Account!Release
  <2>1. [u \in Users |-> Unlanded(u, u)'] = [u \in Users |-> IF u \in D \cap Users THEN 0 ELSE Unlanded(u, u)]
    BY <1>3 DEF Slots
  <2>2. [u \in Users |-> Unlanded(Burn, u)'] \in {[u \in Users |-> Unlanded(Burn, u)], [u \in Users |-> 0]}
    BY <1>3 DEF Slots
  <2>3. [u \in Users |-> HeldLamports(u)'] \in [Users -> Nat]
    BY <1>4
  <2>4. [u \in Users |-> Credited(u)'] = [u \in Users |-> Credited(u)]
    BY <1>2
  <2>5. D \cap Users \in SUBSET Users
    OBVIOUS
  <2>6. [u \in Users |-> Unlanded(Burn, u)'] \in {[u \in Users |-> Unlanded(Burn, u)], Account!Zero}
    BY <2>2 DEF Account!Zero
  <2>7. /\ [u \in Users |-> HeldLamports(u)'] \in Account!Amounts
        /\ \A u \in Users : [v \in Users |-> HeldLamports(v)'][u] # [v \in Users |-> HeldLamports(v)][u] =>
             /\ u \in D \cap Users
             /\ [v \in Users |-> HeldLamports(v)'][u] <= Account!Free(u) + [v \in Users |-> Unlanded(v, v)][u]
    BY <1>4, <2>3 DEF Account!Amounts
  <2>8. [u \in Users |-> Unlanded(u, u)'] =
          [u \in Users |-> IF u \in D \cap Users THEN 0 ELSE [v \in Users |-> Unlanded(v, v)][u]]
    BY <2>1
  <2>9. UNCHANGED left
    BY <1>1
  <2> QED BY <2>4, <2>5, <2>6, <2>7, <2>8, <2>9 DEF Account!Release
<1> QED BY <1>5 DEF Account!Next

\* A step that leaves the debits, the holds and the chain alone moves no money.
LEMMA QuietAccount ==
  ASSUME \A u \in Users : Credited(u)' = Credited(u), UNCHANGED <<debits, hold, landed, left>>
  PROVE  UNCHANGED Account!vars
  BY AccountStutters DEF HeldLamports, Open, Unlanded

\* The scan is how a requester earns.
LEMMA ScanEarns == ASSUME TypeOK, Scan PROVE Account!Next
<1>1. \A u \in Users : Credited(u)' \in Nat /\ Credited(u)' >= Credited(u)
  BY DEF Scan, Credited, TypeOK, LedgerType, ChainType
<1>2. UNCHANGED <<debits, hold, landed, left>>
  BY DEF Scan, signed
<1>3. \A u \in Users : /\ HeldLamports(u)' = HeldLamports(u)
                       /\ Unlanded(u, u)' = Unlanded(u, u) /\ Unlanded(Burn, u)' = Unlanded(Burn, u)
  BY <1>2 DEF HeldLamports, Open, Unlanded
<1>4. Account!Earn
  BY <1>1, <1>2, <1>3 DEF Account!Earn, Account!Amounts
<1> QED BY <1>4 DEF Account!Next

\* Changing one open hold within the balance is a promise of the account.
LEMMA PromiseStep ==
  ASSUME TypeOK, Books, NEW u \in Users, UNCHANGED <<totals, debits, landed, left>>,
         \A v \in Users \ {u} : HeldLamports(v)' = HeldLamports(v),
         HeldLamports(u)' \in 0..Balance(u)
  PROVE  Account!Next
<1>1. \A v \in Users : /\ Credited(v)' = Credited(v) /\ Unlanded(v, v)' = Unlanded(v, v)
                       /\ Unlanded(Burn, v)' = Unlanded(Burn, v)
  BY DEF totals, Credited, Unlanded
<1>2. [v \in Users |-> HeldLamports(v)'] =
        [[v \in Users |-> HeldLamports(v)] EXCEPT ![u] = HeldLamports(u)']
  OBVIOUS
<1>3. HeldLamports(u)' \in 0..Account!Free(u)
  BY FreeIsBalance
<1>4. Account!Promise(u)
  BY <1>1, <1>2, <1>3 DEF Account!Promise
<1> QED BY <1>4 DEF Account!Next

\* Holding a claim promises it.
LEMMA HeldPromises == ASSUME TypeOK, TickIsCurrent, Books, ClaimHeld PROVE Account!Next
<1>1. PICK u \in Users : u = cur.user
  BY DEF ClaimHeld, Payable, Deciding, TickIsCurrent, Working, Work
<1>2. UNCHANGED <<totals, debits, landed, left>>
  BY DEF ClaimHeld, Reply, chainVars, signed
<1>3. HeldLamports(u) \in 0..Balance(u)
  BY BalanceInt DEF Books, HeldIsCovered, TypeOK
<1>4. \A v \in Users : \/ hold'[v] = hold[v]
                       \/ v = u /\ hold'[v].lamports = Amount
  BY <1>1 DEF ClaimHeld, TypeOK, LedgerType
<1>5. Amount \in 0..Balance(u)
  <2>1. Balance(u) \in Int /\ cur.most \in Nat
    BY BalanceInt DEF TypeOK, ClaimHeld, Payable, Deciding, TickIsCurrent, Working, Work
  <2> QED BY <1>1, <2>1, ConstantsAssumption DEF ClaimHeld, Payable, Amount
<1>6. \A v \in Users : hold'[v] = hold[v] => HeldLamports(v)' = HeldLamports(v)
  BY DEF HeldLamports, Open
<1>7. HeldLamports(u)' \in {0, hold'[u].lamports}
  BY DEF HeldLamports
<1>8. HeldLamports(u)' \in 0..Balance(u)
  <2>1. Balance(u) \in Int /\ 0 \in 0..Balance(u)
    BY <1>3, BalanceInt DEF TypeOK
  <2>2. hold'[u] = hold[u] \/ hold'[u].lamports = Amount
    BY <1>4
  <2>3. CASE hold'[u] = hold[u]
    <3>1. HeldLamports(u)' = HeldLamports(u)
      BY <1>6, <2>3
    <3> QED BY <1>3, <3>1
  <2>4. CASE hold'[u].lamports = Amount
    <3>1. HeldLamports(u)' \in {0, Amount}
      BY <1>7, <2>4
    <3> QED BY <1>5, <2>1, <3>1
  <2> QED BY <2>2, <2>3, <2>4
<1> QED BY <1>2, <1>4, <1>6, <1>8, PromiseStep

\* Giving up a hold ends its promise.
LEMMA DropPromises == ASSUME TypeOK, TickIsCurrent, Books, DropHeld PROVE Account!Next
<1>1. PICK u \in Users : u = cur.user
  BY DEF DropHeld, TickIsCurrent, Working, Work
<1>2. UNCHANGED <<totals, debits, landed, left>>
  BY DEF DropHeld, chainVars, signed
<1>3. HeldLamports(u) \in 0..Balance(u)
  BY BalanceInt DEF Books, HeldIsCovered, TypeOK
<1>4. \A v \in Users : hold'[v] = hold[v] \/ (v = u /\ hold'[v] = NoHold)
  BY <1>1 DEF DropHeld, TypeOK, LedgerType
<1>5. \A v \in Users : hold'[v] = hold[v] => HeldLamports(v)' = HeldLamports(v)
  BY DEF HeldLamports, Open
<1>6. hold'[u] = NoHold => HeldLamports(u)' = 0
  BY DEF HeldLamports, Open
<1>7. HeldLamports(u)' \in 0..Balance(u)
  <2>1. Balance(u) \in Int /\ 0 \in 0..Balance(u)
    BY <1>3, BalanceInt DEF TypeOK
  <2>2. CASE hold'[u] = hold[u]
    <3>1. HeldLamports(u)' = HeldLamports(u)
      BY <1>5, <2>2
    <3> QED BY <1>3, <3>1
  <2>3. CASE hold'[u] = NoHold
    <3>1. HeldLamports(u)' = 0
      BY <1>6, <2>3
    <3> QED BY <2>1, <3>1
  <2> QED BY <1>4, <2>2, <2>3
<1> QED BY <1>2, <1>4, <1>5, <1>7, PromiseStep

\* Writing a payment ahead sets it aside.
LEMMA PayStarts == ASSUME TypeOK, TickIsCurrent, Books, ClaimPay PROVE Account!Next
<1>1. PICK u \in Users : u = cur.user /\ cur.wallet \in Wallets /\ cur.most \in Nat
  BY DEF ClaimPay, Payable, Deciding, TickIsCurrent, Working, Work
<1>2. Amount \in Nat \ {0} /\ Amount <= Balance(u) /\ ~HasPending(u)
  BY <1>1, BalanceInt, ConstantsAssumption DEF ClaimPay, Payable, Deciding, Amount, TypeOK
<1>3. u \notin InFlight /\ debits[Burn].rows[u] = 0 /\ u \in Slots /\ Burn \in Slots /\ u # Burn
  BY <1>2, RowsNat, ConstantsAssumption DEF HasPending, InFlight, Slots, TypeOK
<1>4. Unlanded(u, u) = 0 /\ Unlanded(Burn, u) = 0
  BY <1>3, UnlandedNat DEF TypeOK, Unlanded
<1>5. PICK h \in floor..tip :
        LET sig == [to |-> cur.wallet, lamports |-> Amount, hash |-> h]
        IN  /\ ~SignatureKnown(sig)
            /\ debits' = [debits EXCEPT ![u] = [sig |-> sig, rows |-> [Zero EXCEPT ![u] = Amount]]]
  BY <1>1 DEF ClaimPay, WriteAhead
<1> DEFINE sig == [to |-> cur.wallet, lamports |-> Amount, hash |-> h]
<1>6. sig \notin booked /\ (\A j \in Slots : debits[j].sig # sig)
  BY <1>5 DEF SignatureKnown
<1>7. sig \notin landed
  BY <1>6 DEF Books, LandedIsBooked
<1>8. debits'[u].sig = sig /\ debits'[u].rows[u] = Amount /\ \A j \in Slots : j # u => debits'[j] = debits[j]
  BY <1>3, <1>5 DEF TypeOK, LedgerType, Zero
<1> HIDE DEF sig
<1>9. UNCHANGED <<fresh, aged, landed, left>>
  BY DEF ClaimPay, Reply, totals, chainVars, signed
<1>10. Unlanded(u, u)' = Amount
  BY <1>7, <1>8, <1>9 DEF Unlanded
<1>11. \A v \in Users : /\ v # u => Unlanded(v, v)' = Unlanded(v, v)
                        /\ Unlanded(Burn, v)' = Unlanded(Burn, v)
                        /\ Credited(v)' = Credited(v)
  BY <1>3, <1>8, <1>9 DEF Unlanded, Slots, Credited
<1>12. [v \in Users |-> Unlanded(v, v)'] = [[v \in Users |-> Unlanded(v, v)] EXCEPT ![u] = Amount]
  BY <1>10, <1>11
<1>13. \A v \in Users : HeldLamports(v)' = IF v = u THEN 0 ELSE HeldLamports(v)
  <2>1. CASE Open(u)
    <3>1. hold'[u].linked /\ \A v \in Users : v # u => hold'[v] = hold[v]
      BY <1>1, <2>1 DEF ClaimPay, TypeOK, LedgerType, Open, Hold
    <3> QED BY <3>1 DEF HeldLamports, Open
  <2>2. CASE ~Open(u)
    <3>1. hold' = hold
      BY <1>1, <2>2 DEF ClaimPay
    <3> QED BY <2>2, <3>1 DEF HeldLamports, Open
  <2> QED BY <2>1, <2>2
<1>14. [v \in Users |-> HeldLamports(v)'] = [[v \in Users |-> HeldLamports(v)] EXCEPT ![u] = 0]
  BY <1>13
<1>15. Amount \in 1..Account!Free(u)
  BY <1>2, FreeIsBalance, BalanceInt DEF TypeOK
<1>16. Account!StartPayment(u)
  BY <1>4, <1>9, <1>11, <1>12, <1>14, <1>15 DEF Account!StartPayment
<1> QED BY <1>16 DEF Account!Next

\* Writing a burn ahead sets it aside, out of what nobody was promised.
LEMMA BurnStarts == ASSUME TypeOK, Books, WriteBurn PROVE Account!Next
<1>1. PICK total \in MinBurn..treasury : WriteAhead(Burn, Toll, total, Owed)
  BY DEF WriteBurn
<1>2. Burn \notin InFlight /\ Burn \in Slots /\ UNCHANGED <<fresh, aged, hold, landed, left>>
  BY DEF WriteBurn, InFlight, Slots, totals, chainVars, signed
<1>3. PICK h \in floor..tip :
        LET sig == [to |-> Toll, lamports |-> total, hash |-> h]
        IN  /\ ~SignatureKnown(sig)
            /\ debits' = [debits EXCEPT ![Burn] = [sig |-> sig, rows |-> Owed]]
  BY <1>1 DEF WriteAhead
<1> DEFINE sig == [to |-> Toll, lamports |-> total, hash |-> h]
<1>4. sig \notin booked /\ (\A j \in Slots : debits[j].sig # sig)
  BY <1>3 DEF SignatureKnown
<1>5. sig \notin landed
  BY <1>4 DEF Books, LandedIsBooked
<1>6. debits'[Burn].sig = sig /\ debits'[Burn].rows = Owed /\ \A j \in Slots : j # Burn => debits'[j] = debits[j]
  BY <1>2, <1>3 DEF TypeOK, LedgerType
<1> HIDE DEF sig
<1>7. \A u \in Users : u # Burn /\ u \in Slots
  BY ConstantsAssumption DEF Slots
<1>8. \A u \in Users : /\ Credited(u)' = Credited(u) /\ HeldLamports(u)' = HeldLamports(u)
                       /\ Unlanded(u, u)' = Unlanded(u, u)
                       /\ Unlanded(Burn, u) = 0 /\ Unlanded(Burn, u)' = Burnable(u)
  <2> SUFFICES ASSUME NEW u \in Users
               PROVE  /\ Credited(u)' = Credited(u) /\ HeldLamports(u)' = HeldLamports(u)
                      /\ Unlanded(u, u)' = Unlanded(u, u)
                      /\ Unlanded(Burn, u) = 0 /\ Unlanded(Burn, u)' = Burnable(u)
    OBVIOUS
  <2>1. Credited(u)' = Credited(u) /\ HeldLamports(u)' = HeldLamports(u)
    BY <1>2 DEF Credited, HeldLamports, Open
  <2>2. Unlanded(u, u)' = Unlanded(u, u)
    BY <1>2, <1>6, <1>7 DEF Unlanded
  <2>3. Unlanded(Burn, u) = 0
    BY <1>2, UnlandedNat DEF TypeOK
  <2>4. Unlanded(Burn, u)' = Burnable(u)
    BY <1>2, <1>5, <1>6 DEF Unlanded, Owed
  <2> QED BY <2>1, <2>2, <2>3, <2>4
<1>9. \A u \in Users : /\ Burnable(u) \in Nat /\ Burnable(u) <= Account!Free(u)
                       /\ Burnable(u) > 0 => HeldLamports(u) + Burnable(u) <= Account!Free(u)
  <2> SUFFICES ASSUME NEW u \in Users
               PROVE  /\ Burnable(u) \in Nat /\ Burnable(u) <= Balance(u)
                      /\ Burnable(u) > 0 => HeldLamports(u) + Burnable(u) <= Balance(u)
    BY FreeIsBalance
  <2>1. HeldLamports(u) <= Balance(u)
    BY DEF Books, HeldIsCovered
  <2> QED BY <2>1, BalanceInt DEF Burnable, Positive, Balance, Credited, TypeOK, LedgerType
<1>10. Account!StartBurn
  BY <1>2, <1>8, <1>9 DEF Account!StartBurn, Account!Amounts, Account!Zero
<1> QED BY <1>10 DEF Account!Next

\* Every step of the ledger, the bot and the chain is a step of the account or none.
LEMMA AccountStep ==
  ASSUME IInv, IInv', ~StaleReads, [Next]_vars
  PROVE  [Account!Next]_Account!vars
<1> USE DEF IInv
<1>1. CASE UNCHANGED <<totals, debits, hold, landed, left>>
  BY <1>1, QuietAccount DEF totals, Credited
<1>2. ASSUME NEW u \in Users, NEW x \in CreditSizes, WeekPasses(u, x) PROVE UNCHANGED Account!vars
  <2>1. \A v \in Users : Credited(v)' = Credited(v)
    BY <1>2, ConstantsAssumption DEF WeekPasses, Credited, TypeOK, LedgerType
  <2> QED BY <1>2, <2>1, QuietAccount DEF WeekPasses, chainVars, signed
<1>3. ASSUME NEW u \in Users, ApproveHeld(u) PROVE UNCHANGED Account!vars
  <2>1. \A v \in Users : HeldLamports(v)' = HeldLamports(v)
    BY <1>3 DEF ApproveHeld, HeldLamports, Open, TypeOK, LedgerType, Hold, NoHold
  <2>2. UNCHANGED <<totals, debits, landed, left>>
    BY <1>3 DEF ApproveHeld, chainVars, signed
  <2> QED BY <2>1, <2>2, AccountStutters DEF totals, Credited, Unlanded
<1>4. ASSUME NEW F \in SUBSET Landed(InFlight), NEW D \in SUBSET InFlight,
             \A k \in D : debits[k].sig \notin landed, Settle(F, D)
      PROVE  Account!Next
  BY <1>4, SettleReleases DEF TypeOK
<1>5. CASE ReadStatuses
  <2>1. PICK S \in SUBSET Known : Settle(Landed(S), S \ Landed(S))
    BY <1>5 DEF ReadStatuses
  <2> QED BY <1>4, <2>1 DEF Landed, Known
<1>6. CASE ReadAgain
  <2>1. PICK S \in SUBSET (suspects \cap Known) :
          Settle(Landed(S), (S \ Landed(S)) \cup (suspects \ Known))
    BY <1>6 DEF ReadAgain, Unseen
  <2>2. suspects \subseteq InFlight
    BY <1>6 DEF ReadAgain, TickIsCurrent
  <2> QED BY <1>4, <2>1, <2>2 DEF Landed, Known
<1>7. CASE SettleRaises
  <2>1. PICK k \in IF at = "read" THEN Known ELSE suspects : Settle(Landed({k}), {k} \ Landed({k}))
    BY <1>7 DEF SettleRaises
  <2>2. k \in InFlight
    BY <1>7 DEF SettleRaises, TickIsCurrent, Known
  <2> QED BY <1>4, <2>1, <2>2 DEF Landed
<1>8. CASE Next
  <2> USE DEF ledgerVars, totals, naming, chainVars, signed
  <2>1. CASE Chain
    <3>1. ASSUME NEW d \in sent, Land(d) PROVE Account!Next
      BY <3>1, LandDelivers
    <3> QED BY <1>1, <2>1, <3>1 DEF Chain, Distribute, NewBlock, Expire, LandFailed
  <2>2. CASE Time \/ People
    BY <1>1, <1>2, <1>3, <2>2 DEF Time, People, DayPasses, WaitEnds, Submit, SubmitFails
  <2>3. CASE Scan \/ Reconcile
    BY <1>1, <1>5, <1>6, <2>3, ScanEarns DEF Reconcile, ReadHeight
  <2>4. CASE Taking
    BY <1>1, <2>4 DEF Taking, PopClaim, DropStaleClaim, ClaimsDone, ListApproved, PickApproved, ApprovedDone
  <2>5. CASE Paying
    BY <1>1, <2>5, HeldPromises, PayStarts, DropPromises
       DEF Paying, ClaimBusy, ClaimRefused, ClaimUnpaid, Reply, SendClaim, Answer, Transmit
  <2>6. CASE WriteBurn \/ SkipBurn \/ SendBurn
    BY <1>1, <2>6, BurnStarts DEF SkipBurn, SendBurn, Transmit
  <2>7. CASE Faults
    BY <1>1, <1>7, <2>7 DEF Faults, StepRaises, Crash
  <2> QED BY <1>8, <2>1, <2>2, <2>3, <2>4, <2>5, <2>6, <2>7 DEF Next, Bot
<1>9. CASE UNCHANGED vars
  BY <1>1, <1>9 DEF vars, ledgerVars, chainVars, signed
<1> QED BY <1>8, <1>9

\* Every behaviour of ledger, bot and chain is one the abstract account allows.
THEOREM LedgerImplementsAccount == ~StaleReads => (Spec => KeepsAccount)
<1> SUFFICES ASSUME ~StaleReads PROVE Spec => KeepsAccount
  OBVIOUS
<1>1. Init => Account!Init
  BY ConstantsAssumption
     DEF Init, Account!Init, Account!Zero, Credited, HeldLamports, Open, Unlanded, NoDebit, Zero, Slots
<1>2. IInv /\ IInv' /\ [Next]_vars => [Account!Next]_Account!vars
  BY AccountStep
<1>3. Spec => []IInv
  BY InvariantHolds
<1> QED BY <1>1, <1>2, <1>3, PTL DEF Spec, KeepsAccount, Account!Spec

--------------------------------------------------------------------------------
(* The abstract account by itself, whoever implements it. *)

VARIABLES earned, promised, paying, burning, given

Abstract == INSTANCE Payouts

AmountsOK ==
    /\ earned \in Abstract!Amounts /\ promised \in Abstract!Amounts
    /\ paying \in Abstract!Amounts /\ burning \in Abstract!Amounts /\ given \in Abstract!Amounts

AccountInv == AmountsOK /\ Abstract!Kept

\* The account starts empty, with nothing promised.
LEMMA StartIsKept == Abstract!Init => AccountInv
BY DEF Abstract!Init, Abstract!Zero, AccountInv, AmountsOK, Abstract!Amounts, Abstract!Kept, Abstract!Free

\* Earning leaves what is promised alone and makes more of it free.
LEMMA EarnIsKept == ASSUME AccountInv, Abstract!Earn PROVE AccountInv'
BY DEF Abstract!Earn, AccountInv, AmountsOK, Abstract!Amounts, Abstract!Kept, Abstract!Free

\* A promise is made only of what is free.
LEMMA PromiseIsKept == ASSUME AccountInv, NEW u \in Users, Abstract!Promise(u) PROVE AccountInv'
<1>1. PICK n \in 0..Abstract!Free(u) : promised' = [promised EXCEPT ![u] = n]
  BY DEF Abstract!Promise
<1>2. UNCHANGED <<earned, paying, burning, given>>
  BY DEF Abstract!Promise
<1>3. \A v \in Users : Abstract!Free(v)' = Abstract!Free(v) /\ Abstract!Free(v) \in Int
  BY <1>2 DEF Abstract!Free, AccountInv, AmountsOK, Abstract!Amounts
<1> QED BY <1>1, <1>2, <1>3 DEF AccountInv, AmountsOK, Abstract!Amounts, Abstract!Kept

\* A payment takes no more than is free, and answers its requester's promise.
LEMMA PaymentIsKept == ASSUME AccountInv, NEW u \in Users, Abstract!StartPayment(u) PROVE AccountInv'
<1>1. PICK n \in 1..Abstract!Free(u) : paying' = [paying EXCEPT ![u] = n]
  BY DEF Abstract!StartPayment
<1>2. /\ promised' = [promised EXCEPT ![u] = 0] /\ paying[u] = 0
      /\ UNCHANGED <<earned, burning, given>>
  BY DEF Abstract!StartPayment
<1>3. Abstract!Free(u)' = Abstract!Free(u) - n /\ n \in Nat /\ Abstract!Free(u) \in Int
  BY <1>1, <1>2 DEF Abstract!Free, AccountInv, AmountsOK, Abstract!Amounts
<1>4. \A v \in Users \ {u} : Abstract!Free(v)' = Abstract!Free(v) /\ promised'[v] = promised[v]
  BY <1>1, <1>2 DEF Abstract!Free, AccountInv, AmountsOK, Abstract!Amounts
<1>5. AmountsOK'
  BY <1>1, <1>2, <1>3 DEF AccountInv, AmountsOK, Abstract!Amounts
<1>6. 0 <= promised'[u] /\ promised'[u] <= Abstract!Free(u)'
  BY <1>1, <1>2, <1>3 DEF AccountInv, AmountsOK, Abstract!Amounts
<1>7. Abstract!Kept'
  BY <1>4, <1>6 DEF AccountInv, Abstract!Kept
<1> QED BY <1>5, <1>7 DEF AccountInv

\* A burn takes nothing that is promised.
LEMMA BurnIsKept == ASSUME AccountInv, Abstract!StartBurn PROVE AccountInv'
BY DEF Abstract!StartBurn, AccountInv, AmountsOK, Abstract!Amounts, Abstract!Zero, Abstract!Kept, Abstract!Free

\* What is delivered was set aside before: nothing less is free.
LEMMA DeliveryIsKept == ASSUME AccountInv, NEW u \in Users, Abstract!DeliverPayment(u) PROVE AccountInv'
<1>1. /\ paying' = [paying EXCEPT ![u] = 0] /\ given' = [given EXCEPT ![u] = @ + paying[u]]
      /\ UNCHANGED <<earned, promised, burning>>
  BY DEF Abstract!DeliverPayment
<1>2. AmountsOK'
  BY <1>1 DEF AccountInv, AmountsOK, Abstract!Amounts
<1>3. \A v \in Users : Abstract!Free(v)' = Abstract!Free(v)
  BY <1>1 DEF AccountInv, AmountsOK, Abstract!Amounts, Abstract!Free
<1> QED BY <1>1, <1>2, <1>3 DEF AccountInv, Abstract!Kept

\* The same of a burn.
LEMMA BurnDeliveryIsKept == ASSUME AccountInv, Abstract!DeliverBurn PROVE AccountInv'
<1>1. AmountsOK'
  BY DEF Abstract!DeliverBurn, AccountInv, AmountsOK, Abstract!Amounts, Abstract!Zero
<1>2. \A v \in Users : Abstract!Free(v)' = Abstract!Free(v) /\ promised'[v] = promised[v]
  BY DEF Abstract!DeliverBurn, AccountInv, AmountsOK, Abstract!Amounts, Abstract!Zero, Abstract!Free
<1> QED BY <1>1, <1>2 DEF AccountInv, Abstract!Kept

\* What is given up is free again, and covers the promises that open again.
LEMMA ReleaseIsKept == ASSUME AccountInv, Abstract!Release PROVE AccountInv'
<1>1. PICK D \in SUBSET Users :
        /\ paying' = [u \in Users |-> IF u \in D THEN 0 ELSE paying[u]]
        /\ burning' \in {burning, Abstract!Zero}
        /\ promised' \in Abstract!Amounts
        /\ \A u \in Users : promised'[u] # promised[u]
               => u \in D /\ promised'[u] <= Abstract!Free(u) + paying[u]
        /\ UNCHANGED <<earned, given>>
  BY DEF Abstract!Release
<1>2. AmountsOK'
  BY <1>1 DEF AccountInv, AmountsOK, Abstract!Amounts, Abstract!Zero
<1>3. \A u \in Users : /\ Abstract!Free(u)' >= Abstract!Free(u) /\ Abstract!Free(u) \in Int /\ Abstract!Free(u)' \in Int
                       /\ u \in D => Abstract!Free(u)' >= Abstract!Free(u) + paying[u]
  BY <1>1, <1>2 DEF AccountInv, AmountsOK, Abstract!Amounts, Abstract!Free, Abstract!Zero
<1>4. Abstract!Kept'
  BY <1>1, <1>2, <1>3 DEF AccountInv, AmountsOK, Abstract!Amounts, Abstract!Kept
<1> QED BY <1>2, <1>4 DEF AccountInv

\* The account never gives, sets aside or promises more than was earned: what a
\* requester was told is held for them can be paid, whatever is in flight.
THEOREM AccountIsKept == Abstract!Spec => []Abstract!Kept
<1>1. AccountInv /\ [Abstract!Next]_Abstract!vars => AccountInv'
  <2> SUFFICES ASSUME AccountInv, [Abstract!Next]_Abstract!vars PROVE AccountInv'
    OBVIOUS
  <2>1. CASE UNCHANGED Abstract!vars
    BY <2>1 DEF Abstract!vars, AccountInv, AmountsOK, Abstract!Kept, Abstract!Free
  <2>2. CASE Abstract!Next
    <3>1. CASE \E u \in Users : Abstract!Promise(u) \/ Abstract!StartPayment(u) \/ Abstract!DeliverPayment(u)
      BY <3>1, PromiseIsKept, PaymentIsKept, DeliveryIsKept
    <3> QED BY <2>2, <3>1, EarnIsKept, BurnIsKept, BurnDeliveryIsKept, ReleaseIsKept DEF Abstract!Next
  <2> QED BY <2>1, <2>2
<1>2. AccountInv => Abstract!Kept
  BY DEF AccountInv
<1> QED BY <1>1, <1>2, StartIsKept, PTL DEF Abstract!Spec

--------------------------------------------------------------------------------
(* The treasury. *)

\* The sum over the requesters is what SumFunction says it is.
LEMMA OverUsers == ASSUME NEW f, DOMAIN f = Users PROVE SumFunction(f) = Sum(f, Users)
  BY DEF SumFunction, Sum

\* What is added for one requester is added to the sum.
LEMMA OneUser ==
  ASSUME NEW f, NEW g, NEW u \in Users, NEW n \in Int,
         \A v \in Users : f[v] \in Int /\ g[v] = f[v] + (IF v = u THEN n ELSE 0)
  PROVE  Sum(g, Users) = Sum(f, Users) + n /\ Sum(f, Users) \in Int
<1>1. IsFiniteSet(Users)
  BY ConstantsAssumption
<1> QED BY <1>1, SumAdd, ZenonT(60)

\* What has left for a requester, and one more payment that has not landed, is
\* no more than what was credited.
LEMMA UnlandedIsCovered ==
  ASSUME TypeOK, Books, NEW k \in InFlight, debits[k].sig \notin landed, NEW u \in Users
  PROVE  left[u] + debits[k].rows[u] <= Credited(u)
<1>1. k \in Slots /\ u # Burn /\ debits[k].rows[u] \in Nat /\ debits[u].rows[u] \in Nat /\ debits[Burn].rows[u] \in Nat
  BY RowsNat, ConstantsAssumption DEF TypeOK, Slots, InFlight
<1>2. k \notin {u, Burn} => debits[k].rows[u] = 0
  BY DEF Books, OwnRows, InFlight, Slots
<1>3. k \notin Landed(InFlight)
  BY DEF Landed
<1>4. RowsOf(u, Landed(InFlight)) + debits[k].rows[u] <= Pending(u) /\ RowsOf(u, Landed(InFlight)) \in Nat
  BY <1>1, <1>2, <1>3, SMTT(30) DEF RowsOf, Pending
<1>5. left[u] = final[u] + RowsOf(u, Landed(InFlight)) /\ final[u] \in Nat
  BY DEF Books, BooksMatchChain, TypeOK, LedgerType
<1>6. Balance(u) >= 0 /\ Credited(u) \in Nat /\ Pending(u) \in Nat
  BY BalanceInt DEF Books, HeldIsCovered, TypeOK
<1> QED BY <1>1, <1>4, <1>5, <1>6 DEF Balance, Debited

\* So the treasury can always execute what is in flight: no transfer fails for
\* want of lamports, and no fee is paid for nothing.
LEMMA AlwaysFits ==
  ASSUME TypeOK, Books, TreasuryInv, Float >= Rent, NEW d \in sent
  PROVE  Fits(d.sig.lamports)
<1>1. PICK k \in InFlight : debits[k] = d
  BY DEF Books, SentIsPending
<1>2. d.sig \notin landed
  BY DEF Books, SentIsPending
<1> DEFINE both == [u \in Users |-> left[u] + d.rows[u]]
<1>3. \A u \in Users : /\ left[u] \in Int /\ d.rows[u] \in Int /\ both[u] = left[u] + d.rows[u]
                       /\ both[u] \in Int /\ Received[u] \in Int /\ both[u] <= Received[u]
  <2> SUFFICES ASSUME NEW u \in Users
               PROVE  left[u] \in Nat /\ d.rows[u] \in Nat /\ Received[u] \in Nat /\ both[u] <= Received[u]
    BY DEF Received
  <2>1. left[u] \in Nat /\ unread[u] \in Nat /\ d.rows[u] \in Nat
    BY <1>1, RowsNat DEF TypeOK, ChainType, InFlight
  <2>2. left[u] + d.rows[u] <= Credited(u)
    BY <1>1, <1>2, UnlandedIsCovered
  <2> QED BY <2>1, <2>2, BalanceInt DEF Received, TypeOK
<1> HIDE DEF both
<1>4. Sum(both, Users) = Sum(left, Users) + Sum(d.rows, Users) /\ Sum(both, Users) <= Sum(Received, Users)
  BY <1>3, SumPointwise, SumGrows, ConstantsAssumption
<1>5. Sum(left, Users) \in Int /\ Sum(d.rows, Users) \in Int /\ Sum(Received, Users) \in Int
  BY <1>3, SumType, ConstantsAssumption
<1>6. d.sig.lamports = Sum(d.rows, Users)
  BY <1>1, RowsNat, OverUsers DEF TreasuryInv, RowsPaid, TypeOK, InFlight
<1>7. treasury + Sum(left, Users) = Float + Sum(Received, Users) /\ treasury \in Nat
  BY OverUsers DEF TreasuryInv, EveryFeeSeen, TypeOK, ChainType, Received
<1> QED BY <1>4, <1>5, <1>6, <1>7, ConstantsAssumption DEF Fits

\* A step that moves nothing between the treasury and the books keeps the sums.
LEMMA TreasuryFrame ==
  ASSUME TypeOK, EveryFeeSeen, UNCHANGED <<treasury, left>>, \A u \in Users : Received'[u] = Received[u]
  PROVE  EveryFeeSeen'
<1>1. Received' = Received
  BY DEF Received
<1> QED BY <1>1 DEF EveryFeeSeen

\* A step that writes no payment keeps the rows of those there are.
LEMMA RowsFrame ==
  ASSUME RowsPaid, \A k \in Slots : debits'[k] \in {debits[k], NoDebit}
  PROVE  RowsPaid'
  BY DEF RowsPaid, InFlight, NoDebit

\* An inflow is in the treasury, and not yet read.
LEMMA DistributeTreasury ==
  ASSUME TypeOK, EveryFeeSeen, NEW u \in Users, NEW x \in CreditSizes, Distribute(u, x)
  PROVE  EveryFeeSeen'
<1>1. x \in Nat /\ treasury' = treasury + x /\ UNCHANGED <<fresh, aged, left>>
      /\ unread' = [unread EXCEPT ![u] = @ + x]
  BY ConstantsAssumption DEF Distribute, ledgerVars, totals
<1>2. \A v \in Users : Received[v] \in Int /\ Received'[v] = Received[v] + (IF v = u THEN x ELSE 0)
  BY <1>1 DEF Received, Credited, TypeOK, LedgerType, ChainType
<1>3. Sum(Received', Users) = Sum(Received, Users) + x /\ Sum(Received, Users) \in Int
  BY <1>1, <1>2, OneUser
<1>4. \A v \in Users : left[v] \in Int
  BY DEF TypeOK, ChainType
<1>5. Sum(left, Users) \in Int /\ treasury \in Nat
  BY <1>4, SumType, ConstantsAssumption DEF TypeOK, ChainType
<1>6. DOMAIN left = Users /\ DOMAIN Received = Users /\ DOMAIN Received' = Users
  BY DEF TypeOK, ChainType, Received
<1> QED BY <1>1, <1>3, <1>5, <1>6, OverUsers, ConstantsAssumption DEF EveryFeeSeen

\* What lands leaves the treasury as its rows say.
LEMMA LandTreasury ==
  ASSUME TypeOK, Books, TreasuryInv, NEW d \in sent, Land(d) PROVE EveryFeeSeen'
<1>1. PICK k \in InFlight : debits[k] = d
  BY DEF Books, SentIsPending
<1>2. /\ UNCHANGED <<fresh, aged, unread>> /\ treasury' = treasury - d.sig.lamports
      /\ left' = [u \in Users |-> left[u] + d.rows[u]]
  BY DEF Land, ledgerVars, totals
<1>3. \A u \in Users : left[u] \in Int /\ d.rows[u] \in Int /\ Received[u] \in Int
  BY <1>1, RowsNat, BalanceInt DEF TypeOK, ChainType, InFlight, Received
<1>4. \A u \in Users : left'[u] = left[u] + d.rows[u]
  BY <1>2
<1>5. Sum(left', Users) = Sum(left, Users) + Sum(d.rows, Users)
  BY <1>3, <1>4, SumPointwise, ConstantsAssumption
<1>6. Sum(left, Users) \in Int /\ Sum(d.rows, Users) \in Int /\ Sum(Received, Users) \in Int
  BY <1>3, SumType, ConstantsAssumption
<1>7. d.sig.lamports = Sum(d.rows, Users)
  BY <1>1, RowsNat, OverUsers DEF TreasuryInv, RowsPaid, TypeOK, InFlight
<1>8. Received' = Received /\ DOMAIN Received = Users
  BY <1>2 DEF Received, Credited
<1>9. DOMAIN left = Users /\ DOMAIN left' = Users /\ treasury \in Nat
  BY <1>2 DEF TypeOK, ChainType
<1> QED BY <1>2, <1>5, <1>6, <1>7, <1>8, <1>9, OverUsers, ConstantsAssumption DEF TreasuryInv, EveryFeeSeen

\* A payment written ahead carries what its rows debit.
LEMMA WriteAheadRows ==
  ASSUME TypeOK, RowsPaid, NEW k \in Slots, NEW to, NEW lamports, NEW rows \in [Users -> Nat],
         WriteAhead(k, to, lamports, rows), lamports = SumFunction(rows)
  PROVE  RowsPaid'
<1>1. PICK h \in floor..tip :
        debits' = [debits EXCEPT ![k] = [sig |-> [to |-> to, lamports |-> lamports, hash |-> h],
                                         rows |-> rows]]
  BY DEF WriteAhead
<1>2. \A j \in Slots : debits'[j] = IF j = k THEN [sig |-> [to |-> to, lamports |-> lamports, hash |-> h],
                                                  rows |-> rows] ELSE debits[j]
  BY <1>1 DEF TypeOK, LedgerType
<1>3. debits'[k].sig.lamports = SumFunction(debits'[k].rows)
  BY <1>2
<1>4. \A j \in Slots : j # k => debits'[j] = debits[j]
  BY <1>2
<1> QED BY <1>3, <1>4 DEF RowsPaid, InFlight

\* A claim debits one row, of what it pays (debit_pending).
LEMMA ClaimRows == ASSUME TypeOK, TickIsCurrent, RowsPaid, ClaimPay PROVE RowsPaid'
<1>1. cur \in Work /\ cur.user \in Users /\ cur.user \in Slots
  BY DEF ClaimPay, Payable, Deciding, TickIsCurrent, Working, Work, Slots
<1>2. Amount \in Nat
  <2>1. Amount \in Int
    BY <1>1, AmountInt DEF TypeOK
  <2> QED BY <2>1, ConstantsAssumption DEF ClaimPay, Payable
<1> DEFINE rows == [Zero EXCEPT ![cur.user] = Amount]
<1>3. rows \in [Users -> Nat] /\ rows[cur.user] = Amount /\ \A v \in Users \ {cur.user} : rows[v] = 0
  BY <1>1, <1>2 DEF Zero
<1>4. WriteAhead(cur.user, cur.wallet, Amount, rows)
  BY DEF ClaimPay
<1> HIDE DEF rows
<1>5. SumFunction(rows) = Amount
  BY <1>1, <1>2, <1>3, OverUsers, SumOne, ConstantsAssumption
<1> QED BY <1>1, <1>3, <1>4, <1>5, WriteAheadRows

\* A burn pays the sum of its rows (_burn).
LEMMA BurnRows == ASSUME TypeOK, RowsPaid, WriteBurn PROVE RowsPaid'
<1>1. PICK total : total = Total /\ WriteAhead(Burn, Toll, total, Owed)
  BY DEF WriteBurn
<1>2. Owed \in [Users -> Nat] /\ Burn \in Slots
  BY BalanceInt DEF Owed, TypeOK, Slots
<1> QED BY <1>1, <1>2, WriteAheadRows DEF Total

\* The scan only notes what the treasury has received already.
LEMMA ScanTreasury == ASSUME TypeOK, EveryFeeSeen, Scan PROVE EveryFeeSeen'
<1>1. UNCHANGED <<treasury, left, aged>>
  BY DEF Scan
<1>2. ASSUME NEW u \in Users PROVE Received'[u] = Received[u]
  <2>1. PICK R \in SUBSET Users :
          /\ fresh' = [v \in Users |-> IF v \in R THEN fresh[v] + unread[v] ELSE fresh[v]]
          /\ unread' = [v \in Users |-> IF v \in R THEN 0 ELSE unread[v]]
    BY DEF Scan, CreditedOnce
  <2> QED BY <1>1, <2>1 DEF Received, Credited, TypeOK, LedgerType, ChainType
<1> QED BY <1>1, <1>2, TreasuryFrame

\* Nothing else touches the treasury or what was received.
LEMMA QuietTreasury ==
  ASSUME TypeOK, EveryFeeSeen, UNCHANGED <<treasury, unread, left>>,
         \A u \in Users : Credited(u)' = Credited(u)
  PROVE  EveryFeeSeen'
  BY TreasuryFrame DEF Received

\* Settling only takes rows off.
LEMMA SettleRows == ASSUME RowsPaid, NEW F, NEW D, Settle(F, D) PROVE RowsPaid'
  BY RowsFrame DEF Settle

\* Every step keeps the treasury and the books together.
LEMMA TreasuryStep ==
  ASSUME IInv, TreasuryInv, ~StaleReads, Float >= Rent, [Next]_vars PROVE TreasuryInv'
<1> USE DEF ledgerVars, totals, naming, chainVars, signed, IInv
<1>1. ASSUME UNCHANGED debits PROVE RowsPaid'
  BY <1>1 DEF TreasuryInv, RowsPaid, InFlight
<1>2. ASSUME UNCHANGED <<fresh, aged, treasury, unread, left>> PROVE EveryFeeSeen'
  BY <1>2, QuietTreasury DEF TreasuryInv, Credited
<1>3. CASE Chain
  <2>1. ASSUME NEW u \in Users, NEW x \in CreditSizes, Distribute(u, x) PROVE TreasuryInv'
    BY <1>1, <2>1, DistributeTreasury DEF Distribute, TreasuryInv
  <2>2. ASSUME NEW d \in sent, Land(d) PROVE TreasuryInv'
    BY <1>1, <2>2, LandTreasury DEF Land, TreasuryInv
  <2>3. ASSUME NEW d \in sent, LandFailed(d) PROVE TreasuryInv'
    BY <2>3, AlwaysFits DEF LandFailed
  <2>4. CASE NewBlock \/ Expire
    BY <1>1, <1>2, <2>4 DEF NewBlock, Expire, TreasuryInv
  <2> QED BY <1>3, <2>1, <2>2, <2>3, <2>4 DEF Chain
<1>4. CASE Time \/ People
  <2>1. RowsPaid'
    BY <1>1, <1>4 DEF Time, People, WeekPasses, DayPasses, WaitEnds, Submit, SubmitFails, ApproveHeld
  <2>2. ASSUME NEW u \in Users, NEW x \in CreditSizes, WeekPasses(u, x) PROVE EveryFeeSeen'
    <3>1. \A v \in Users : Credited(v)' = Credited(v)
      BY <2>2, ConstantsAssumption DEF WeekPasses, Credited, TypeOK, LedgerType
    <3> QED BY <2>2, <3>1, QuietTreasury DEF WeekPasses, TreasuryInv
  <2>3. EveryFeeSeen'
    BY <1>2, <1>4, <2>2 DEF Time, People, DayPasses, WaitEnds, Submit, SubmitFails, ApproveHeld
  <2> QED BY <2>1, <2>3 DEF TreasuryInv
<1>5. CASE Scan
  BY <1>1, <1>5, ScanTreasury DEF Scan, TreasuryInv
<1>6. CASE Reconcile \/ SettleRaises
  <2>1. CASE ReadHeight
    BY <1>1, <1>2, <2>1 DEF ReadHeight, TreasuryInv
  <2>2. CASE ~ReadHeight
    <3>1. PICK F, D : Settle(F, D)
      BY <1>6, <2>2 DEF Reconcile, ReadStatuses, ReadAgain, SettleRaises
    <3>2. UNCHANGED <<fresh, aged, treasury, unread, left>>
      BY <3>1 DEF Settle
    <3> QED BY <1>2, <3>1, <3>2, SettleRows DEF TreasuryInv
  <2> QED BY <2>1, <2>2
<1>7. CASE Taking \/ ClaimBusy \/ ClaimRefused \/ ClaimHeld \/ ClaimUnpaid \/ SendClaim \/ Answer \/ DropHeld
           \/ SkipBurn \/ SendBurn \/ StepRaises \/ Crash \/ UNCHANGED vars
  <2>1. UNCHANGED <<debits, fresh, aged, treasury, unread, left>>
    BY <1>7 DEF Taking, PopClaim, DropStaleClaim, ClaimsDone, ListApproved, PickApproved, ApprovedDone,
                ClaimBusy, ClaimRefused, ClaimHeld, ClaimUnpaid, SendClaim, Answer, DropHeld, SkipBurn, SendBurn,
                StepRaises, Crash, Reply, Transmit, vars
  <2> QED BY <1>1, <1>2, <2>1 DEF TreasuryInv
<1>8. CASE ClaimPay
  <2>1. UNCHANGED <<fresh, aged, treasury, unread, left>>
    BY <1>8 DEF ClaimPay, Reply
  <2> QED BY <1>2, <1>8, <2>1, ClaimRows DEF TreasuryInv
<1>9. CASE WriteBurn
  <2>1. UNCHANGED <<fresh, aged, treasury, unread, left>>
    BY <1>9 DEF WriteBurn
  <2> QED BY <1>2, <1>9, <2>1, BurnRows DEF TreasuryInv
<1> QED BY <1>3, <1>4, <1>5, <1>6, <1>7, <1>8, <1>9 DEF Next, Bot, Paying, Faults

\* A treasury that starts with a rent exempt float always holds that float and
\* what it owes: every transfer it signs goes through, so that no lamport leaves
\* it but on the books (debit_pending, reconcile).
THEOREM TreasuryIsSolvent == ~StaleReads /\ Float >= Rent => (Spec => []EveryFeeSeen)
<1> SUFFICES ASSUME ~StaleReads, Float >= Rent PROVE Spec => []EveryFeeSeen
  OBVIOUS
<1>1. Init => TreasuryInv
  <2> SUFFICES ASSUME Init PROVE TreasuryInv
    OBVIOUS
  <2>1. \A u \in Users : left[u] = 0 /\ Received[u] = 0
    BY DEF Init, Zero, Received, Credited
  <2>2. Sum(left, Users) = 0 /\ Sum(Received, Users) = 0
    BY <2>1, SumZero, ConstantsAssumption
  <2>3. DOMAIN left = Users /\ DOMAIN Received = Users
    BY DEF Init, Zero, Received
  <2>4. RowsPaid
    BY DEF Init, RowsPaid, InFlight, NoDebit
  <2> QED BY <2>2, <2>3, <2>4, OverUsers DEF TreasuryInv, EveryFeeSeen, Init
<1>2. IInv /\ TreasuryInv /\ [Next]_vars => TreasuryInv'
  BY TreasuryStep
<1>3. TreasuryInv => EveryFeeSeen
  BY DEF TreasuryInv
<1> QED BY <1>1, <1>2, <1>3, InvariantHolds, PTL DEF Spec
================================================================================
