---------------------------- MODULE ServicesProofs ----------------------------
(***************************************************************************)
(* What the indexer keeps of services that fail, lag, forget and drop what *)
(* they have, for any number of them and any bounds.                       *)
(*   - The sign-in of the moderator outlives every refresh as long as one  *)
(*     program uses the file: what the run DryRun refutes for two.         *)
(*   - The client of the chain reaches an endpoint that stays up.          *)
(*   - The walks of a history miss nothing new: no inflow of an endpoint   *)
(*     (Inflows), and no burn of a coin (Intake).                          *)
(***************************************************************************)
EXTENDS TagServices, Inflows, Intake, ArithmeticProofs, FiniteSetTheorems, WellFoundedInduction, TLAPS

OneProgram == Programs = {Bot}

Turns == Nat \ {0}
Grants == [family : Families, turn : Turns, good : BOOLEAN]
Holding == {"refresh", "fresh", "signed"}
Places == {"away", "refresh", "fresh", "signed", "safe", "unsafe", "failed"}

SignTypeOK ==
    /\ file \in Grants
    /\ issued \in [Families -> Nat]
    /\ memory \in [Programs -> [at : Places, token : Grants \cup {NoGrant}]]
    /\ memory[Bot].at \in Holding => memory[Bot].token \in Grants
    /\ lost \in Nat

\* What the bot is about to send, or was just given, is the last token of its family.
InHand == memory[Bot].at \in {"refresh", "fresh"} => Live(memory[Bot].token)
OnFile == memory[Bot].at # "fresh" => Live(file)

\* Nothing is ever revoked, so a token that was the last stays live until it is sent.
Unbroken == revoked = {} /\ ~replayed /\ InHand /\ OnFile

GrantInv == SignTypeOK /\ (lost = 0 => Unbroken)

\* What a step of the whole system is to the sign-in.
SignStep ==
    \/ \E f \in Families : Login(f)
    \/ Lapse
    \/ Moderates(Bot)
    \/ Leaves(Bot)
    \/ UNCHANGED signVars

--------------------------------------------------------------------------------
(* The sign-in. *)

\* Nobody else than the bot moderates, so every step is one of these.
LEMMA StepsOfSignIn ==
    ASSUME OneProgram, [ServicesNext]_servicesVars
    PROVE  SignStep
<1>1. CASE Work
  BY <1>1 DEF Work, Poll, Stale, ReadChain, ChainRead, Moderate, Verdict, Held, SignStep
<1>2. CASE PostAnother
  BY <1>2 DEF PostAnother, SignStep
<1>3. CASE Services
  <2>1. Programs \ {Bot} = {}
    BY DEF OneProgram
  <2> QED
    BY <1>3, <2>1 DEF Services, SignStep
<1>4. CASE UNCHANGED servicesVars
  BY <1>4 DEF servicesVars, SignStep
<1> QED
  BY <1>1, <1>2, <1>3, <1>4 DEF ServicesNext

\* A live bot starts with a sign-in nobody has used.
LEMMA GrantInvInit ==
    ASSUME OneProgram, ServicesInit
    PROVE  GrantInv
<1>1. 1 \in Families /\ Bot \in Programs
  BY SignInAssumption DEF Families, OneProgram
<1>2. SignTypeOK
  BY <1>1 DEF ServicesInit, SignInit, SignTypeOK, Grants, Turns, Grant, Away, Holding, Places
<1>3. Unbroken
  BY <1>1 DEF ServicesInit, SignInit, Unbroken, InHand, OnFile, Live, Grant, Away
<1> QED
  BY <1>2, <1>3 DEF GrantInv

\* The owner's new family has nothing to do with the one the bot may hold a token of.
LEMMA LoginKeepsGrant ==
    ASSUME OneProgram, GrantInv, NEW f \in Families, Login(f)
    PROVE  GrantInv'
<1> USE DEF OneProgram, GrantInv
<1>1. SignTypeOK'
  BY DEF Login, SignTypeOK, Grants, Turns, Grant, Holding, Places
<1>2. ASSUME lost' = 0 PROVE Unbroken'
  <2>1. Unbroken
    BY <1>2 DEF Login
  <2>2. ASSUME memory[Bot].at \in {"refresh", "fresh"} PROVE memory[Bot].token.family # f
    BY <2>1, <2>2 DEF Login, Unbroken, InHand, Live, SignTypeOK, Grants, Turns, Holding, Places
  <2>3. InHand'
    BY <2>1, <2>2 DEF Login, Unbroken, InHand, Live, SignTypeOK, Grants, Holding, Places
  <2>4. OnFile'
    BY <2>1 DEF Login, Unbroken, OnFile, Live, SignTypeOK, Grant
  <2> QED
    BY <2>1, <2>3, <2>4 DEF Login, Unbroken
<1> QED
  BY <1>1, <1>2

\* An access token that lapses leaves the refresh token as it was.
LEMMA LapseKeepsGrant ==
    ASSUME OneProgram, GrantInv, Lapse
    PROVE  GrantInv'
BY DEF OneProgram, GrantInv, Lapse, SignTypeOK, Grants, Turns, Holding, Places, Unbroken, InHand, OnFile, Live

\* The bot sends the last token of a family that was never revoked: it is answered, and
\* what is on file is not live again until the answer is saved.
LEMMA ModeratingKeepsGrant ==
    ASSUME OneProgram, GrantInv, Moderates(Bot)
    PROVE  GrantInv'
<1> USE DEF OneProgram, GrantInv
<1> DEFINE t == memory[Bot].token
<1>1. CASE Access(Bot)
  <2>1. SignTypeOK'
    BY <1>1 DEF Access, At, SignTypeOK, Holding, Places
  <2> QED
    BY <1>1, <2>1 DEF Access, At, SignTypeOK, Unbroken, InHand, OnFile, Live
<1>2. CASE Rotates(Bot)
  <2>1. t \in Grants
    BY <1>2 DEF Rotates, Sends, SignTypeOK, Holding, Places
  <2>2. SignTypeOK'
    <3>1. Following(t) \in Grants /\ [t EXCEPT !.good = TRUE] \in Grants
      <4>1. t.turn \in Turns /\ t.turn + 1 \in Turns /\ t.family \in Families
        BY <2>1 DEF Grants, Turns
      <4>2. Following(t) \in Grants
        BY <4>1 DEF Following, Grant, Grants
      <4>3. [t EXCEPT !.good = TRUE] \in Grants
        BY <2>1 DEF Grants
      <4> QED
        BY <4>2, <4>3
    <3>2. \E given \in Grants : memory' = [memory EXCEPT ![Bot] = [at |-> "fresh", token |-> given]]
      BY <1>2, <3>1 DEF Rotates, At
    <3>3. memory' \in [Programs -> [at : Places, token : Grants \cup {NoGrant}]] /\ memory'[Bot].token \in Grants
      BY <3>2 DEF SignTypeOK, Places
    <3>4. issued' \in [Families -> Nat]
      BY <1>2 DEF Rotates, SignTypeOK
    <3> QED
      BY <1>2, <3>3, <3>4 DEF Rotates, SignTypeOK
  <2>3. Live(memory[Bot].token)' /\ memory'[Bot].at = "fresh"
    BY <1>2, <2>1 DEF Rotates, Sends, Live, Following, Grant, At, SignTypeOK, Grants, Turns
  <2> QED
    BY <1>2, <2>2, <2>3 DEF Rotates, Unbroken, InHand, OnFile
<1>3. CASE Unheard(Bot)
  <2>1. t \in Grants
    BY <1>3 DEF Unheard, Sends, SignTypeOK, Holding, Places
  <2>2. SignTypeOK'
    BY <1>3, <2>1 DEF Unheard, At, SignTypeOK, Grants, Holding, Places
  <2>3. lost' # 0
    BY <1>3 DEF Unheard, SignTypeOK
  <2> QED
    BY <2>2, <2>3
<1>4. CASE Denied(Bot)
  <2>1. SignTypeOK'
    BY <1>4 DEF Denied, At, SignTypeOK, Holding, Places
  <2>2. lost # 0
    BY <1>4 DEF Denied, Sends, Unbroken, InHand
  <2> QED
    BY <1>4, <2>1, <2>2 DEF Denied
<1>5. CASE Busy(Bot)
  <2>1. SignTypeOK'
    BY <1>5 DEF Busy, At, SignTypeOK, Holding, Places
  <2> QED
    BY <1>5, <2>1 DEF Busy, Sends, At, SignTypeOK, Unbroken, InHand, OnFile, Live
<1>6. CASE Keep(Bot)
  <2>1. SignTypeOK'
    BY <1>6 DEF Keep, Save, At, SignTypeOK, Holding, Places
  <2> QED
    BY <1>6, <2>1 DEF Keep, Save, At, SignTypeOK, Unbroken, InHand, OnFile, Live
<1>7. CASE Killed(Bot)
  <2>1. SignTypeOK'
    BY <1>7 DEF Killed, At, SignTypeOK, Holding, Places
  <2>2. lost' # 0
    BY <1>7 DEF Killed, SignTypeOK
  <2> QED
    BY <2>1, <2>2
<1>8. ASSUME NEW verdict \in {"safe", "unsafe", "failed"}, Judged(Bot, verdict)
      PROVE  GrantInv'
  <2>1. SignTypeOK'
    BY <1>8 DEF Judged, At, SignTypeOK, Holding, Places
  <2> QED
    BY <1>8, <2>1 DEF Judged, At, SignTypeOK, Unbroken, InHand, OnFile, Live
<1> QED
  BY <1>1, <1>2, <1>3, <1>4, <1>5, <1>6, <1>7, <1>8 DEF Moderates

\* The bot leaves with its verdict, its answer saved.
LEMMA LeavingKeepsGrant ==
    ASSUME OneProgram, GrantInv, Leaves(Bot)
    PROVE  GrantInv'
<1> USE DEF OneProgram, GrantInv
<1>1. SignTypeOK'
  BY DEF Leaves, Away, SignTypeOK, Holding, Places
<1> QED
  BY <1>1 DEF Leaves, Over, Away, SignTypeOK, Unbroken, InHand, OnFile, Live

\* Nothing else touches the sign-in.
LEMMA RestKeepsGrant ==
    ASSUME GrantInv, UNCHANGED signVars
    PROVE  GrantInv'
BY DEF GrantInv, signVars, SignTypeOK, Unbroken, InHand, OnFile, Live

\* The bot alone with its file: in every state its tokens are well formed, and as long
\* as no answer was lost nothing was revoked and what it holds or keeps can be refreshed.
THEOREM GrantInvHolds ==
    ASSUME OneProgram
    PROVE  ServicesSpec => []GrantInv
<1>1. ServicesInit => GrantInv
  BY GrantInvInit
<1>2. GrantInv /\ [ServicesNext]_servicesVars => GrantInv'
  <2> SUFFICES ASSUME GrantInv, [ServicesNext]_servicesVars PROVE GrantInv'
    OBVIOUS
  <2>1. SignStep
    BY StepsOfSignIn
  <2> QED
    BY <2>1, LoginKeepsGrant, LapseKeepsGrant, ModeratingKeepsGrant, LeavingKeepsGrant,
       RestKeepsGrant DEF SignStep
<1> QED
  BY <1>1, <1>2, PTL DEF ServicesSpec

\* TokenStore.refresh: one program's sign-in ends with a lost answer, or not at all.
THEOREM GrantSurvives ==
    ASSUME OneProgram
    PROVE  ServicesSpec => []GrantOutlivesRefresh
<1>1. GrantInv => GrantOutlivesRefresh
  BY DEF OneProgram, GrantInv, Unbroken, InHand, OnFile, GrantOutlivesRefresh
<1> QED
  BY <1>1, GrantInvHolds, PTL

\* codex_auth's own grant: alone with its file the bot sends a spent token only after
\* an answer was lost, which is what `in its own file, never ~/.codex/auth.json' is for.
THEOREM AloneNothingIsReplayed ==
    ASSUME OneProgram
    PROVE  ServicesSpec => [](lost = 0 => NoTokenIsReplayed)
<1>1. GrantInv => (lost = 0 => NoTokenIsReplayed)
  BY DEF GrantInv, Unbroken, NoTokenIsReplayed
<1> QED
  BY <1>1, GrantInvHolds, PTL

--------------------------------------------------------------------------------
(* The client. *)

States == {"none", "open", "answered", "unavailable"}

RpcTypeOK ==
    /\ failures \in [Url -> Nat]
    /\ cool = [e \in Url |-> cool[e]]
    /\ health \in [Url -> Ills \cup {"up", "upstream"}]
    /\ call \in [state : States, left : Nat, upstream : Nat, firm : SUBSET Url]

\* Only an endpoint with a failure to its name is set aside.
NoneAsideUnblamed == \A e \in Url : failures[e] = 0 => cool[e] = 0

Unblamed == {e \in Url : failures[e] = 0}

\* As long as an endpoint has stayed up, the client asks none but the unblamed, and each
\* attempt that fails blames one of them: there is an attempt left for all that remain.
FirmIsReached ==
    call.state = "open" /\ call.firm # {} /\ call.upstream = 0 =>
        /\ \A e \in call.firm : failures[e] = 0 /\ health[e] = "up"
        /\ call.left >= Cardinality(Unblamed)

RpcInv == RpcTypeOK /\ NoneAsideUnblamed /\ FirmIsReached /\ AnsweredIfOneIsUp

\* What a step of the whole system is to the client.
RpcStep ==
    \/ Begin \/ Attempt
    \/ call' = NoCall /\ UNCHANGED <<failures, cool, health, turns>>
    \/ Rest(Gap)
    \/ \E e \in Url, kind \in Ills \cup {"up", "upstream"} : Turn(e, kind)
    \/ UNCHANGED rpcVars

\* Every step of the whole system is one of these to the client.
LEMMA StepsOfClient ==
    ASSUME [ServicesNext]_servicesVars
    PROVE  RpcStep
<1>1. CASE Work
  BY <1>1 DEF Work, Poll, Stale, ReadChain, ChainRead, Moderate, Verdict, Held, RpcStep, rpcVars
<1>2. CASE PostAnother
  BY <1>2 DEF PostAnother, RpcStep
<1>3. CASE Services
  BY <1>3 DEF Services, RpcStep
<1>4. CASE UNCHANGED servicesVars
  BY <1>4 DEF servicesVars, RpcStep
<1> QED
  BY <1>1, <1>2, <1>3, <1>4 DEF ServicesNext

\* The larger of two numbers.
LEMMA MaxOfTwo ==
    ASSUME NEW m \in Int, NEW n \in Int
    PROVE  Max({m, n}) = IF m >= n THEN m ELSE n
BY DEF Max

\* The smaller of two numbers.
LEMMA MinOfTwo ==
    ASSUME NEW m \in Int, NEW n \in Int
    PROVE  Min({m, n}) = IF m <= n THEN m ELSE n
BY DEF Min

\* A set of natural numbers has a least one.
LEMMA LeastExists ==
    ASSUME NEW S \in SUBSET Nat, S # {}
    PROVE  \E x \in S : \A y \in S : x <= y
<1>1. PICK x \in S : \A y \in S : ~(<<y, x>> \in OpToRel(<, Nat))
  BY NatLessThanWellFounded, WFMin
<1>2. ASSUME NEW y \in S, y < x PROVE FALSE
  <2>1. <<y, x>> \in {pair \in Nat \X Nat : pair[1] < pair[2]}
    BY <1>2
  <2>2. <<y, x>> \in OpToRel(<, Nat)
    BY <2>1 DEF OpToRel
  <2> QED
    BY <1>1, <2>2
<1> QED
  BY <1>2

\* A set of endpoints has a first one.
LEMMA FirstExists ==
    ASSUME NEW S \in SUBSET Url, S # {}
    PROVE  Min(S) \in S
<1>1. S \in SUBSET Nat
  BY EndpointsAssumption DEF Url
<1> QED
  BY <1>1, LeastExists DEF Min

\* After some seconds no endpoint is set aside that was not.
LEMMA AfterFacts ==
    ASSUME NEW s \in Nat
    PROVE  /\ After(s, cool) = [e \in Url |-> After(s, cool)[e]]
           /\ \A e \in Url : cool[e] = 0 => After(s, cool)[e] = 0
BY MaxOfTwo DEF After

\* There are finitely many endpoints without a failure, at most all.
LEMMA UnblamedIsFinite == IsFiniteSet(Unblamed) /\ Cardinality(Unblamed) <= Urls /\ Cardinality(Unblamed) \in Nat
<1>1. IsFiniteSet(Url) /\ Cardinality(Url) = Urls
  BY EndpointsAssumption, FS_Interval DEF Url
<1>2. Unblamed \in SUBSET Url
  BY DEF Unblamed
<1> QED
  BY <1>1, <1>2, FS_Subset, FS_CardinalityType

\* An endpoint that stayed up is unblamed, so that the client asks one that is.
LEMMA AsksTheUnblamed ==
    ASSUME RpcInv, Trying, call.firm # {}, call.upstream = 0
    PROVE  /\ Healthy # {}
           /\ Picked \in Unblamed
<1>1. PICK e \in call.firm : e \in Url /\ failures[e] = 0 /\ cool[e] = 0
  BY DEF RpcInv, RpcTypeOK, FirmIsReached, NoneAsideUnblamed, Trying
<1>2. e \in Healthy
  BY <1>1 DEF Healthy
<1>3. \A d \in Healthy : d \in Url /\ failures[d] \in Nat
  BY DEF Healthy, RpcInv, RpcTypeOK
<1>4. e \in Fewest
  BY <1>1, <1>2, <1>3 DEF Fewest
<1>5. Fewest \in SUBSET Url
  BY DEF Fewest, Healthy
<1>6. Picked \in Fewest
  BY <1>4, <1>5, FirstExists DEF Picked
<1>7. failures[Picked] <= failures[e] /\ Picked \in Url
  BY <1>2, <1>5, <1>6 DEF Fewest
<1> QED
  BY <1>1, <1>2, <1>7 DEF Unblamed, RpcInv, RpcTypeOK

\* A new client has blamed nobody.
LEMMA RpcInvInit ==
    ASSUME ServicesInit
    PROVE  RpcInv
BY DEF ServicesInit, RpcInit, NoCall, Call, States, RpcInv, RpcTypeOK, NoneAsideUnblamed, FirmIsReached, AnsweredIfOneIsUp

\* A call has as many attempts as there are endpoints, at least.
LEMMA BeginKeepsRpc ==
    ASSUME RpcInv, Begin
    PROVE  RpcInv'
<1>1. Retries * Urls \in Nat /\ Retries * Urls >= Urls
  <2>1. Retries \in Nat /\ Retries >= 1 /\ Urls \in Nat
    BY EndpointsAssumption
  <2>2. (Retries - 1) * Urls >= 0
    BY <2>1
  <2> QED
    BY <2>1, <2>2
<1>2. Unblamed' = Unblamed
  BY DEF Begin, Unblamed
<1>3. RpcTypeOK'
  BY <1>1 DEF Begin, Call, States, RpcInv, RpcTypeOK
<1>4. FirmIsReached'
  <2>1. call'.left = Retries * Urls /\ call'.firm = {e \in Url : failures[e] = 0 /\ health[e] = "up"}
    BY DEF Begin, Call
  <2>2. call'.left >= Cardinality(Unblamed')
    BY <1>1, <1>2, <2>1, UnblamedIsFinite, EndpointsAssumption
  <2> QED
    BY <2>1, <2>2 DEF Begin, FirmIsReached
<1> QED
  BY <1>3, <1>4 DEF Begin, Call, RpcInv, NoneAsideUnblamed, AnsweredIfOneIsUp

\* All are set aside: none has stayed up.
LEMMA WaitKeepsRpc ==
    ASSUME RpcInv, Wait
    PROVE  RpcInv'
<1>1. call.firm = {} \/ call.upstream # 0
  BY AsksTheUnblamed DEF Wait
<1>2. \A e \in Url : failures[e] # 0
  BY DEF Wait, Healthy, RpcInv, NoneAsideUnblamed
<1>3. RpcTypeOK'
  BY DEF Wait, Trying, After, RpcInv, RpcTypeOK
<1> QED
  BY <1>1, <1>2, <1>3 DEF Wait, Trying, RpcInv, RpcTypeOK, NoneAsideUnblamed, FirmIsReached, AnsweredIfOneIsUp

\* Each failure blames an unblamed endpoint, at the price of one attempt.
LEMMA IllKeepsRpc ==
    ASSUME RpcInv, Ill
    PROVE  RpcInv'
<1> DEFINE p == Picked
           kind == health[p]
           seconds == IF kind = "hung" THEN Timeout ELSE 0
<1>1. seconds \in Nat /\ MaxFailures \in Nat \ {0}
  BY EndpointsAssumption
<1>2. failures' = [failures EXCEPT ![p] = Min({@ + 1, MaxFailures})]
  BY DEF Ill, Penalised
<1>3. ASSUME p \in Url PROVE Min({failures[p] + 1, MaxFailures}) \in Nat \ {0}
  <2>1. failures[p] + 1 \in Nat \ {0}
    BY <1>3 DEF RpcInv, RpcTypeOK
  <2> QED
    BY <1>1, <2>1, MinOfTwo
<1>4. failures' \in [Url -> Nat]
  BY <1>2, <1>3 DEF RpcInv, RpcTypeOK
<1>5. \A e \in Url : failures'[e] = 0 <=> failures[e] = 0 /\ e # p
  BY <1>2, <1>3 DEF RpcInv, RpcTypeOK
<1>6. Unblamed' = Unblamed \ {p}
  BY <1>5 DEF Unblamed
<1>7. cool' = [e \in Url |-> cool'[e]] /\ \A e \in Url \ {p} : cool'[e] = After(seconds, cool)[e]
  BY DEF Ill, Penalised, After
<1>8. RpcTypeOK'
  BY <1>4, <1>7 DEF Ill, Trying, RpcInv, RpcTypeOK
<1>9. NoneAsideUnblamed'
  BY <1>1, <1>5, <1>7, AfterFacts DEF RpcInv, NoneAsideUnblamed
<1>10. FirmIsReached'
  <2> SUFFICES ASSUME call'.firm # {}, call'.upstream = 0
               PROVE  /\ \A e \in call'.firm : failures'[e] = 0 /\ health'[e] = "up"
                      /\ call'.left >= Cardinality(Unblamed')
    BY DEF FirmIsReached
  <2>1. call.firm # {} /\ call.upstream = 0 /\ call'.firm = call.firm /\ call'.left = call.left - 1
    BY DEF Ill, RpcInv, RpcTypeOK
  <2>2. Trying /\ p \in Unblamed
    BY <2>1, AsksTheUnblamed DEF Ill
  <2>3. Cardinality(Unblamed') = Cardinality(Unblamed) - 1
    BY <1>6, <2>2, UnblamedIsFinite, FS_RemoveElement
  <2>4. call.left >= Cardinality(Unblamed) /\ \A e \in call.firm : failures[e] = 0 /\ health[e] = "up"
    BY <2>1, <2>2 DEF Trying, RpcInv, FirmIsReached
  <2>5. p \notin call.firm
    BY <2>4, EndpointsAssumption DEF Ill
  <2>6. \A e \in call.firm : failures'[e] = 0 /\ health'[e] = "up"
    BY <1>5, <2>4, <2>5 DEF Ill, RpcInv, RpcTypeOK
  <2> QED
    BY <2>1, <2>3, <2>4, <2>6, UnblamedIsFinite DEF RpcInv, RpcTypeOK
<1> QED
  BY <1>8, <1>9, <1>10 DEF Ill, Trying, RpcInv, RpcTypeOK, AnsweredIfOneIsUp

\* An endpoint that is asked is not set aside, so an answer may clear it.
LEMMA RewardKeepsUnblamed ==
    ASSUME RpcInv, Healthy # {}, Rewarded(Picked)
    PROVE  /\ failures' \in [Url -> Nat]
           /\ \A e \in Url : failures'[e] = 0 => cool[e] = 0
<1>1. failures' \in [Url -> Nat] /\ \A e \in Url \ {Picked} : failures'[e] = failures[e]
  BY DEF Rewarded, RpcInv, RpcTypeOK
<1>2. Fewest # {}
  <2> DEFINE F == {failures[e] : e \in Healthy}
  <2>1. F \subseteq Nat /\ F # {}
    BY DEF Healthy, RpcInv, RpcTypeOK
  <2>2. PICK x \in F : \A y \in F : x <= y
    BY <2>1, LeastExists
  <2>3. PICK e \in Healthy : failures[e] = x
    BY <2>2
  <2>4. \A d \in Healthy : failures[e] <= failures[d]
    BY <2>2, <2>3
  <2> QED
    BY <2>3, <2>4 DEF Fewest
<1>3. Picked \in Healthy
  BY <1>2, FirstExists DEF Picked, Fewest, Healthy
<1> QED
  BY <1>1, <1>3 DEF Healthy, RpcInv, NoneAsideUnblamed

\* A failure of the gateway's upstream costs an attempt and blames nobody.
LEMMA UpstreamKeepsRpc ==
    ASSUME RpcInv, Upstream
    PROVE  RpcInv'
<1> DEFINE seconds == IF call.upstream = 0 THEN 0 ELSE IF call.upstream = 1 THEN 2 ELSE Patience
<1>1. seconds \in Nat
  BY EndpointsAssumption
<1>2. failures' \in [Url -> Nat] /\ \A e \in Url : failures'[e] = 0 => cool[e] = 0
  BY RewardKeepsUnblamed DEF Upstream
<1>3. cool' = After(seconds, cool)
  BY DEF Upstream
<1>4. call.upstream \in Nat /\ call.left - 1 \in Nat
  BY DEF Upstream, Trying, RpcInv, RpcTypeOK
<1>5. Min({call.upstream + 1, 2}) \in Nat \ {0}
  BY <1>4, MinOfTwo
<1>6. /\ call'.state = "open" /\ call'.upstream \in Nat \ {0}
      /\ call' \in [state : States, left : Nat, upstream : Nat, firm : SUBSET Url]
  BY <1>4, <1>5 DEF Upstream, Trying, RpcInv, RpcTypeOK
<1>7. RpcTypeOK'
  BY <1>1, <1>2, <1>3, <1>6, AfterFacts DEF Upstream, RpcInv, RpcTypeOK
<1>8. NoneAsideUnblamed'
  BY <1>1, <1>2, <1>3, AfterFacts DEF NoneAsideUnblamed
<1> QED
  BY <1>6, <1>7, <1>8 DEF RpcInv, FirmIsReached, AnsweredIfOneIsUp

\* An answer ends the call and clears an endpoint that was not set aside.
LEMMA AnsweredKeepsRpc ==
    ASSUME RpcInv, Answered
    PROVE  RpcInv'
<1>1. failures' \in [Url -> Nat] /\ \A e \in Url : failures'[e] = 0 => cool[e] = 0
  BY RewardKeepsUnblamed DEF Answered
<1>2. call'.state = "answered" /\ RpcTypeOK'
  BY <1>1 DEF Answered, States, RpcInv, RpcTypeOK
<1> QED
  BY <1>1, <1>2 DEF Answered, RpcInv, NoneAsideUnblamed, FirmIsReached, AnsweredIfOneIsUp

\* No attempt is left, so none stayed up.
LEMMA GiveUpKeepsRpc ==
    ASSUME RpcInv, GiveUp
    PROVE  RpcInv'
<1>1. call.firm = {} \/ call.upstream > 0
  <2> SUFFICES ASSUME call.firm # {}, call.upstream = 0 PROVE FALSE
    BY DEF RpcInv, RpcTypeOK
  <2>1. Cardinality(Unblamed) = 0
    BY UnblamedIsFinite DEF GiveUp, RpcInv, FirmIsReached
  <2>2. Unblamed = {}
    BY <2>1, UnblamedIsFinite, FS_EmptySet
  <2>3. PICK e \in call.firm : e \in Url /\ failures[e] = 0
    BY DEF GiveUp, RpcInv, RpcTypeOK, FirmIsReached
  <2> QED
    BY <2>2, <2>3 DEF Unblamed
<1>2. RpcTypeOK' /\ call'.firm = call.firm /\ call'.upstream = call.upstream /\ call'.state = "unavailable"
  BY DEF GiveUp, States, RpcInv, RpcTypeOK
<1> QED
  BY <1>1, <1>2 DEF GiveUp, RpcInv, NoneAsideUnblamed, FirmIsReached, AnsweredIfOneIsUp

\* Between two calls an endpoint's time apart only gets shorter.
LEMMA RestKeepsRpc ==
    ASSUME RpcInv, Rest(Gap)
    PROVE  RpcInv'
<1>1. Gap \in Nat
  BY TagServicesAssumption
<1>2. RpcTypeOK'
  BY <1>1, AfterFacts DEF Rest, NoCall, Call, States, RpcInv, RpcTypeOK
<1>3. NoneAsideUnblamed'
  BY <1>1, AfterFacts DEF Rest, RpcInv, NoneAsideUnblamed
<1> QED
  BY <1>2, <1>3 DEF Rest, NoCall, Call, RpcInv, FirmIsReached, AnsweredIfOneIsUp

\* An endpoint whose health turns has not stayed up.
LEMMA TurnKeepsRpc ==
    ASSUME RpcInv, NEW e \in Url, NEW kind \in Ills \cup {"up", "upstream"}, Turn(e, kind)
    PROVE  RpcInv'
<1>1. Unblamed' = Unblamed
  BY DEF Turn, Unblamed
<1>2. RpcTypeOK'
  BY DEF Turn, RpcInv, RpcTypeOK
<1>3. /\ call'.state = call.state /\ call'.left = call.left /\ call'.upstream = call.upstream
      /\ call'.firm = call.firm \ {e} /\ \A d \in Url \ {e} : health'[d] = health[d]
  BY DEF Turn, RpcInv, RpcTypeOK
<1>4. FirmIsReached'
  <2> SUFFICES ASSUME call'.state = "open", call'.firm # {}, call'.upstream = 0
               PROVE  /\ \A d \in call'.firm : failures'[d] = 0 /\ health'[d] = "up"
                      /\ call'.left >= Cardinality(Unblamed')
    BY DEF FirmIsReached
  <2>1. /\ \A d \in call.firm : d \in Url /\ failures[d] = 0 /\ health[d] = "up"
        /\ call.left >= Cardinality(Unblamed)
    BY <1>3 DEF RpcInv, RpcTypeOK, FirmIsReached
  <2> QED
    BY <1>1, <1>3, <2>1 DEF Turn
<1> QED
  BY <1>2, <1>3, <1>4 DEF Turn, RpcInv, NoneAsideUnblamed, AnsweredIfOneIsUp

\* A call whose answer was used is over.
LEMMA OverKeepsRpc ==
    ASSUME RpcInv, call' = NoCall, UNCHANGED <<failures, cool, health, turns>>
    PROVE  RpcInv'
BY DEF NoCall, Call, States, RpcInv, RpcTypeOK, NoneAsideUnblamed, FirmIsReached, AnsweredIfOneIsUp

\* For any endpoints, delays and number of retries, and however their health turns.
THEOREM RpcInvHolds == ServicesSpec => []RpcInv
<1>1. ServicesInit => RpcInv
  BY RpcInvInit
<1>2. RpcInv /\ [ServicesNext]_servicesVars => RpcInv'
  <2> SUFFICES ASSUME RpcInv, [ServicesNext]_servicesVars PROVE RpcInv'
    OBVIOUS
  <2>1. CASE UNCHANGED rpcVars
    BY <2>1 DEF rpcVars, RpcInv, RpcTypeOK, NoneAsideUnblamed, FirmIsReached, Unblamed, AnsweredIfOneIsUp
  <2> QED
    BY <2>1, StepsOfClient, BeginKeepsRpc, WaitKeepsRpc, IllKeepsRpc, UpstreamKeepsRpc,
       AnsweredKeepsRpc, GiveUpKeepsRpc, RestKeepsRpc, TurnKeepsRpc, OverKeepsRpc
       DEF RpcStep, Attempt
<1> QED
  BY <1>1, <1>2, PTL DEF ServicesSpec

\* RpcClient.call: it does not give up as long as an endpoint it has no failure of stays
\* up, unless the gateway of another spends its attempts.
THEOREM ClientIsAnswered == ServicesSpec => []AnsweredIfOneIsUp
<1>1. RpcInv => AnsweredIfOneIsUp
  BY DEF RpcInv
<1> QED
  BY <1>1, RpcInvHolds, PTL

--------------------------------------------------------------------------------
(* What a walk lists and passes. *)

\* The newest of a set are closed upwards.
LEMMA NewestIsUpward ==
  ASSUME NEW n \in Nat, NEW S \in SUBSET (0 .. n), NEW b \in Nat,
         NEW k \in Newest(S, b), NEW l \in S, k <= l
  PROVE  l \in Newest(S, b)
<1> DEFINE above == {t \in S : t > k}
           higher == {t \in S : t > l}
<1>1. \A t \in S : t \in Int
  OBVIOUS
<1>2. k \in S /\ Cardinality(above) < b
  BY DEF Newest
<1>3. \A t \in S : t > l => t > k
  BY <1>1, <1>2
<1>4. higher \subseteq above
  BY <1>3
<1>5. IsFiniteSet(above)
  <2>1. IsFiniteSet(0 .. n)
    BY FS_Interval
  <2> QED BY <2>1, FS_Subset
<1>6. /\ Cardinality(higher) <= Cardinality(above)
      /\ Cardinality(higher) \in Nat /\ Cardinality(above) \in Nat
  BY <1>4, <1>5, FS_Subset, FS_CardinalityType
<1>7. Cardinality(higher) < b
  BY <1>2, <1>6
<1> QED BY <1>7 DEF Newest

\* A walk passes all that lies between two signatures it passed.
LEMMA PassedIsWhole ==
  ASSUME NEW n \in Nat, NEW S \in SUBSET (0 .. n), NEW stop \in Int,
         NEW top \in Passed(S, stop), NEW s \in S, s <= top
  PROVE  s \in Passed(S, stop)
<1>1. s \in Int /\ top \in Int
  BY DEF Passed
<1>2. stop = None \/ top < stop
  BY DEF Passed
<1>3. stop = None \/ s < stop
  BY <1>1, <1>2
<1> QED BY <1>3 DEF Passed

--------------------------------------------------------------------------------
(* The scan of a destination. *)

Cursors == [last : Nat, oldest : Nat, complete : BOOLEAN]
Walking == {"forward", "backward"}

InflowTypeOK ==
    /\ leg \in Legs /\ txs \in Seq(Amounts \cup {Failed})
    /\ dropped \in [Endpoints -> Nat]
    /\ inflow \subseteq Sigs
    /\ cursor \in [Endpoints -> Cursors]
    /\ first \in [Endpoints -> Nat]
    /\ scan.phase \in Walking => scan.at \in Endpoints /\ scan.newest \in Nat
    /\ scan = [at |-> scan.at, phase |-> scan.phase, newest |-> scan.newest]

\* What an endpoint has listed lies in the history.
Behind ==
    /\ \A e \in Endpoints : cursor[e].last <= Len(txs)
    /\ scan.phase \in Walking => scan.newest <= Len(txs)

\* Every inflow up to top that the endpoint's first walk did not leave behind, and
\* that it still has, is recorded.
Covered(e, top) ==
    \A s \in Sigs :
        first[e] # None /\ first[e] <= s /\ s <= top /\ s > dropped[e] /\ Delta(s) # 0 => s \in inflow

\* So it is up to each cursor, and up to where the walk under way will put its own.
AllCovered ==
    /\ \A e \in Endpoints : Covered(e, cursor[e].last)
    /\ scan.phase \in Walking => Covered(scan.at, scan.newest)

InflowInv == InflowTypeOK /\ Behind /\ AllCovered

LEMMA InflowFacts ==
  ASSUME InflowTypeOK
  PROVE  /\ Len(txs) \in Nat /\ Sigs \in SUBSET (0 .. Len(txs))
         /\ \A s \in Sigs : s \in Int /\ s > 0 /\ s <= Len(txs)
         /\ \A s \in Sigs : Delta(s) \in Int
         /\ \A e \in Endpoints :
              /\ cursor[e].last \in Nat /\ cursor[e].oldest \in Nat
              /\ dropped[e] \in Nat /\ first[e] \in Nat
<1>1. Len(txs) \in Nat
  BY DEF InflowTypeOK
<1>2. \A s \in Sigs : s \in Int /\ s > 0 /\ s <= Len(txs)
  BY <1>1 DEF Sigs
<1>3. Sigs \in SUBSET (0 .. Len(txs))
  BY <1>1, <1>2
<1>4. ASSUME NEW s \in Sigs PROVE Delta(s) \in Int
  <2>1. txs[s] \in Amounts \cup {Failed}
    BY <1>1, <1>4 DEF Sigs, InflowTypeOK
  <2>2. CASE txs[s] = Failed
    BY <2>2 DEF Delta
  <2>3. CASE txs[s] # Failed
    <3>1. txs[s] \in Int
      BY <2>1, <2>3, InflowAssumption, Zenon
    <3> QED BY <2>3, <3>1, Zenon DEF Delta
  <2> QED BY <2>2, <2>3
<1>5. \A e \in Endpoints :
        /\ cursor[e].last \in Nat /\ cursor[e].oldest \in Nat
        /\ dropped[e] \in Nat /\ first[e] \in Nat
  BY DEF InflowTypeOK, Cursors
<1> QED BY <1>1, <1>2, <1>3, <1>4, <1>5

\* What is listed between two signatures.
LEMMA ListedFacts ==
  ASSUME InflowTypeOK, NEW e \in Endpoints, NEW tip \in Heights, NEW until, NEW before
  PROVE  /\ Listed(e, until, before, tip) \in SUBSET (0 .. Len(txs))
         /\ Listed(e, until, before, tip) \subseteq Sigs
         /\ \A s \in Sigs :
              s \in Listed(e, until, before, tip) <=>
                /\ s > dropped[e] /\ s <= tip
                /\ until <= tip => s > until
                /\ before # None => s < before
<1>1. \A s \in Sigs : s \in 0 .. Len(txs)
  BY InflowFacts
<1> QED BY <1>1 DEF Listed, Between

LEMMA InflowStart == InflowInit => InflowInv
<1> SUFFICES ASSUME InflowInit PROVE InflowInv
  OBVIOUS
<1>1. Len(txs) = 0 /\ Sigs = {}
  BY DEF InflowInit, Sigs
<1>2. InflowTypeOK
  <2>1. << >> \in Seq(Amounts \cup {Failed})
    OBVIOUS
  <2>2. [e \in Endpoints |-> NoCursor] \in [Endpoints -> Cursors]
    BY DEF NoCursor, Cursors, None
  <2> QED BY <2>1, <2>2 DEF InflowInit, InflowTypeOK, NoScan, Walking, None
<1>3. Behind
  BY <1>1 DEF InflowInit, Behind, NoScan, Walking, NoCursor, None
<1>4. AllCovered
  BY <1>1 DEF InflowInit, AllCovered, Covered, NoScan, Walking
<1> QED BY <1>2, <1>3, <1>4 DEF InflowInv

\* More rows and more dropped leave nothing uncovered.
LEMMA StaysCovered ==
  ASSUME InflowTypeOK, NEW e \in Endpoints, NEW top \in Nat, Covered(e, top),
         txs' = txs, inflow \subseteq inflow', first'[e] = first[e],
         dropped'[e] \in Nat, dropped[e] <= dropped'[e]
  PROVE  Covered(e, top)'
<1>1. \A s \in Sigs : s > dropped'[e] => s > dropped[e]
  BY InflowFacts
<1> QED BY <1>1 DEF Covered, Sigs, Delta

\* What a walk adds.
LEMMA CreditsFacts ==
  ASSUME InflowTypeOK, NEW listed \in SUBSET Sigs, NEW stop
  PROVE  /\ Credits(Passed(listed, stop)) \subseteq Sigs
         /\ \A s \in Passed(listed, stop) : Delta(s) # 0 => s \in Credits(Passed(listed, stop))
BY DEF Credits, Passed

\* The last signature of a walk forward, and what it passed.
LEMMA ForwardReaches ==
  ASSUME InflowInv, NEW e \in Endpoints, NEW tip \in Heights, NEW stop \in Int,
         NEW passed, passed = Passed(ListedAhead(e, tip), stop), passed # {},
         NEW s \in Sigs, first[e] # None, first[e] <= s, s <= Max(passed), s > dropped[e], Delta(s) # 0
  PROVE  /\ Max(passed) \in Nat /\ Max(passed) <= Len(txs)
         /\ s \in inflow \cup Credits(passed)
<1> DEFINE listed == ListedAhead(e, tip)
           top == Max(passed)
<1>0. InflowTypeOK /\ AllCovered
  BY DEF InflowInv
<1>1. /\ listed \in SUBSET (0 .. Len(txs)) /\ listed \subseteq Sigs
      /\ \A t \in Sigs : t \in listed <=>
           /\ t > dropped[e] /\ t <= tip
           /\ cursor[e].last <= tip => t > cursor[e].last
  BY <1>0, ListedFacts DEF ListedAhead
<1> HIDE DEF listed
<1>2. passed = Passed(listed, stop) /\ passed \subseteq listed
  BY DEF listed, Passed
<1>3. top \in passed
  <2>1. passed \in SUBSET (0 .. Len(txs)) /\ Len(txs) \in Nat
    BY <1>0, <1>1, <1>2, InflowFacts
  <2> QED BY <2>1, MaxIsGreatest
<1> HIDE DEF top
<1>4. top \in Sigs /\ top \in listed
  BY <1>1, <1>2, <1>3
<1>5. top \in Nat /\ top <= Len(txs) /\ s \in Int /\ cursor[e].last \in Nat /\ tip \in Int /\ Len(txs) \in Nat
  BY <1>0, <1>4, InflowFacts DEF Heights
<1>6. s <= top /\ top <= tip
  BY <1>1, <1>4 DEF top
<1>7. ASSUME s <= cursor[e].last PROVE s \in inflow \cup Credits(passed)
  BY <1>0, <1>7 DEF AllCovered, Covered
<1>8. ASSUME ~(s <= cursor[e].last) PROVE s \in inflow \cup Credits(passed)
  <2>1. s \in listed
    BY <1>1, <1>5, <1>6, <1>8
  <2>2. s \in Passed(listed, stop)
    <3>1. top \in Passed(listed, stop)
      BY <1>2, <1>3
    <3> QED BY <1>1, <1>5, <1>6, <2>1, <3>1, PassedIsWhole
  <2>3. s \in passed
    BY <1>2, <2>2
  <2> QED BY <2>3 DEF Credits
<1> QED BY <1>5, <1>7, <1>8 DEF top

\* The first walk of an endpoint leaves nothing out between the oldest signature it
\* passed and the newest.
LEMMA FirstWalkIsWhole ==
  ASSUME InflowInv, NEW e \in Endpoints, NEW tip \in Heights, NEW stop \in Int,
         NEW passed, passed = Passed(Newest(ListedBehind(e, tip), Batch), stop), passed # {},
         NEW s \in Sigs, Min(passed) <= s, s <= Max(passed), s > dropped[e]
  PROVE  s \in passed
<1> DEFINE behind == ListedBehind(e, tip)
           listed == Newest(behind, Batch)
           top == Max(passed)
           low == Min(passed)
<1>0. InflowTypeOK /\ Len(txs) \in Nat
  BY InflowFacts DEF InflowInv
<1>1. /\ behind \in SUBSET (0 .. Len(txs)) /\ behind \subseteq Sigs
      /\ \A t \in Sigs : t \in behind <=>
           /\ t > dropped[e] /\ t <= tip
           /\ None <= tip => t > None
           /\ cursor[e].oldest # None => t < cursor[e].oldest
  BY <1>0, ListedFacts DEF ListedBehind
<1> HIDE DEF behind
<1>2. listed \in SUBSET (0 .. Len(txs)) /\ listed \subseteq behind
  BY <1>1 DEF Newest
<1>3. passed = Passed(listed, stop)
  BY DEF listed, behind
<1> HIDE DEF listed
<1>4. passed \subseteq listed /\ passed \in SUBSET (0 .. Len(txs))
  BY <1>2, <1>3 DEF Passed
<1>5. top \in passed /\ low \in passed
  BY <1>0, <1>4, MaxIsGreatest, MinIsLeast
<1> HIDE DEF top, low
<1>6. /\ s \in Int /\ s > 0 /\ top \in Sigs /\ top \in Int /\ low \in Int /\ tip \in Int
      /\ cursor[e].oldest \in Nat
  <2>1. top \in Sigs /\ low \in Sigs
    BY <1>1, <1>2, <1>4, <1>5
  <2> QED BY <1>0, <2>1, InflowFacts DEF Heights
<1>7. s <= top /\ low <= s
  BY DEF top, low
<1>8. /\ top <= tip
      /\ cursor[e].oldest # None => top < cursor[e].oldest
  BY <1>1, <1>2, <1>4, <1>5, <1>6
<1>9. s \in behind
  BY <1>1, <1>6, <1>7, <1>8 DEF None
<1>10. s \in listed
  <2>1. low \in Newest(behind, Batch) /\ Batch \in Nat
    BY <1>4, <1>5, WalkAssumption DEF listed
  <2>2. s \in Newest(behind, Batch)
    BY <1>0, <1>1, <1>7, <1>9, <2>1, NewestIsUpward
  <2> QED BY <2>2 DEF listed
<1> QED BY <1>0, <1>2, <1>3, <1>5, <1>7, <1>10, PassedIsWhole

--------------------------------------------------------------------------------
(* The steps of the scan. *)

LEMMA LandsKeeps ==
  ASSUME InflowInv, NEW amount \in Amounts \cup {Failed}, Lands(amount)
  PROVE  InflowInv'
<1>0. InflowTypeOK /\ Behind /\ AllCovered
  BY DEF InflowInv
<1>1. /\ txs' = Append(txs, amount) /\ txs \in Seq(Amounts \cup {Failed})
      /\ Len(txs) \in Nat /\ Len(txs') = Len(txs) + 1
      /\ \A s \in Sigs : txs'[s] = txs[s]
      /\ txs'[Len(txs) + 1] = amount
  BY <1>0 DEF Lands, InflowTypeOK, Sigs
<1>2. UNCHANGED <<leg, dropped, inflow, opening, cursor, first, scan>>
  BY DEF Lands, evidence
<1>3. /\ Sigs' = Sigs \cup {Len(txs) + 1}
      /\ \A s \in Sigs : s \in Int /\ s <= Len(txs) /\ Delta(s)' = Delta(s)
  <2>1. \A s \in Sigs : Delta(s)' = Delta(s)
    BY <1>1, Zenon DEF Delta
  <2>2. Sigs' = Sigs \cup {Len(txs) + 1}
    BY <1>1 DEF Sigs
  <2> QED BY <1>1, <2>1, <2>2 DEF Sigs
<1>4. InflowTypeOK'
  <2>1. txs' \in Seq(Amounts \cup {Failed})
    BY <1>1
  <2>2. inflow \subseteq Sigs'
    BY <1>0, <1>3 DEF InflowTypeOK
  <2> QED BY <1>0, <1>2, <2>1, <2>2 DEF InflowTypeOK, Walking
<1>5. Behind'
  BY <1>0, <1>1, <1>2, InflowFacts DEF Behind, InflowTypeOK, Walking
<1>6. ASSUME NEW e \in Endpoints, NEW top \in Nat, top <= Len(txs), Covered(e, top)
      PROVE  Covered(e, top)'
  <2>1. \A s \in Sigs' : s <= top => s \in Sigs
    BY <1>1, <1>3, <1>6
  <2> QED BY <1>2, <1>3, <1>6, <2>1 DEF Covered
<1>7. AllCovered'
  <2>1. ASSUME NEW e \in Endpoints, NEW top, top = cursor[e].last
        PROVE  Covered(e, top)'
    BY <1>0, <1>6, <2>1, InflowFacts DEF AllCovered, Behind
  <2>2. ASSUME NEW e, NEW top, scan.phase \in Walking, e = scan.at, top = scan.newest
        PROVE  Covered(e, top)'
    BY <1>0, <1>6, <2>2 DEF AllCovered, Behind, InflowTypeOK
  <2> QED BY <1>2, <2>1, <2>2 DEF AllCovered
<1> QED BY <1>4, <1>5, <1>7 DEF InflowInv

\* Steps that leave the chain as it is, but for what an endpoint forgets.
LEMMA ScanKeeps ==
  ASSUME InflowInv, leg' = leg, txs' = txs, InflowTypeOK', Behind',
         \A e \in Endpoints, top \in Nat : top = cursor'[e].last => Covered(e, top)',
         \A e \in Endpoints, top \in Nat :
           scan'.phase \in Walking /\ e = scan'.at /\ top = scan'.newest => Covered(e, top)'
  PROVE  InflowInv'
<1>2. ASSUME NEW e \in Endpoints, NEW top, top = cursor'[e].last PROVE Covered(e, top)'
  <2>1. top \in Nat
    BY <1>2 DEF InflowTypeOK, Cursors
  <2> QED BY <1>2, <2>1
<1>3. ASSUME NEW e, NEW top, scan'.phase \in Walking, e = scan'.at, top = scan'.newest
      PROVE  Covered(e, top)'
  <2>1. e \in Endpoints /\ top \in Nat
    BY <1>3 DEF InflowTypeOK
  <2> QED BY <1>3, <2>1
<1>4. AllCovered'
  BY <1>2, <1>3 DEF AllCovered
<1> QED BY <1>4 DEF InflowInv

LEMMA CoveredNow ==
  ASSUME InflowInv
  PROVE  /\ \A e \in Endpoints, top \in Nat : top = cursor[e].last => Covered(e, top)
         /\ \A e \in Endpoints, top \in Nat :
              scan.phase \in Walking /\ e = scan.at /\ top = scan.newest => Covered(e, top)
BY DEF InflowInv, AllCovered

LEMMA DropsKeeps ==
  ASSUME InflowInv, NEW k \in Endpoints, Drops(k)
  PROVE  InflowInv'
<1>0. InflowTypeOK /\ Behind
  BY DEF InflowInv
<1>1. UNCHANGED <<leg, txs, inflow, opening, cursor, first, scan>> /\ dropped' = [dropped EXCEPT ![k] = @ + 1]
  BY DEF Drops, evidence
<1>2. InflowTypeOK'
  BY <1>0, <1>1 DEF InflowTypeOK, Walking, Sigs
<1>3. Behind'
  BY <1>0, <1>1 DEF Behind, Walking
<1>4. ASSUME NEW e \in Endpoints, NEW top \in Nat, Covered(e, top) PROVE Covered(e, top)'
  <2>1. dropped'[e] \in Nat /\ dropped[e] <= dropped'[e]
    BY <1>0, <1>1 DEF InflowTypeOK
  <2>2. inflow \subseteq inflow' /\ first'[e] = first[e]
    BY <1>1
  <2> QED BY <1>0, <1>1, <1>4, <2>1, <2>2, StaysCovered
<1> QED BY <1>1, <1>2, <1>3, <1>4, CoveredNow, ScanKeeps

LEMMA BeginKeeps ==
  ASSUME InflowInv, NEW k \in Endpoints, BeginScan(k)
  PROVE  InflowInv'
<1>0. InflowTypeOK /\ Behind
  BY DEF InflowInv
<1>1. /\ UNCHANGED <<leg, txs, dropped, inflow, opening, cursor, first>>
      /\ scan' = [at |-> k, newest |-> cursor[k].last,
                  phase |-> IF cursor[k].last # None THEN "forward" ELSE "backward"]
  BY DEF BeginScan, chain, evidence
<1>2. scan'.at = k /\ scan'.newest = cursor[k].last /\ scan'.phase \in Walking
  BY <1>1 DEF Walking
<1>3. InflowTypeOK'
  <2>1. scan' = [at |-> scan'.at, phase |-> scan'.phase, newest |-> scan'.newest]
    BY <1>1
  <2> QED BY <1>0, <1>1, <1>2, <2>1, InflowFacts DEF InflowTypeOK, Sigs
<1>4. Behind'
  BY <1>0, <1>1, <1>2 DEF Behind
<1>5. ASSUME NEW e \in Endpoints, NEW top \in Nat, Covered(e, top) PROVE Covered(e, top)'
  BY <1>1, <1>5 DEF Covered, Sigs, Delta
<1> QED BY <1>1, <1>2, <1>3, <1>4, <1>5, CoveredNow, ScanKeeps

\* A scan that gives up leaves rows and no cursor.
LEMMA GivesUpKeeps ==
  ASSUME InflowInv, NEW tip \in Heights, NEW stop \in Sigs \cup {None}, GivesUp(tip, stop)
  PROVE  InflowInv'
<1>0. InflowTypeOK /\ Behind
  BY DEF InflowInv
<1>1. PICK listed : /\ inflow' = inflow \cup Credits(Passed(listed, stop))
                    /\ \/ scan.phase = "forward" /\ listed = ListedAhead(scan.at, tip)
                       \/ listed = Newest(ListedBehind(scan.at, tip), Batch)
  BY DEF GivesUp
<1>2. UNCHANGED <<leg, txs, dropped, cursor, first>> /\ scan' = NoScan
  BY DEF GivesUp, chain
<1>3. listed \subseteq Sigs
  BY <1>1 DEF ListedAhead, ListedBehind, Listed, Between, Newest
<1>4. inflow \subseteq inflow' /\ inflow' \subseteq Sigs
  BY <1>0, <1>1, <1>3 DEF Credits, Passed, InflowTypeOK
<1>5. scan'.phase \notin Walking
  BY <1>2 DEF NoScan, Walking
<1>6. InflowTypeOK'
  <2>1. scan' = [at |-> scan'.at, phase |-> scan'.phase, newest |-> scan'.newest]
    BY <1>2 DEF NoScan
  <2> QED BY <1>0, <1>2, <1>4, <1>5, <2>1 DEF InflowTypeOK, Sigs
<1>7. Behind'
  BY <1>0, <1>2, <1>5 DEF Behind
<1>8. ASSUME NEW e \in Endpoints, NEW top \in Nat, Covered(e, top) PROVE Covered(e, top)'
  <2>1. dropped'[e] \in Nat /\ dropped[e] <= dropped'[e] /\ first'[e] = first[e]
    BY <1>0, <1>2 DEF InflowTypeOK
  <2> QED BY <1>0, <1>2, <1>4, <1>8, <2>1, StaysCovered
<1> QED BY <1>2, <1>5, <1>6, <1>7, <1>8, CoveredNow, ScanKeeps

LEMMA NoBackfillKeeps ==
  ASSUME InflowInv, NoBackfill
  PROVE  InflowInv'
<1>0. InflowTypeOK /\ Behind /\ scan.phase \in Walking
  BY DEF InflowInv, NoBackfill, Walking
<1>1. PICK k \in Endpoints : k = scan.at
  BY <1>0 DEF InflowTypeOK
<1>2. /\ UNCHANGED <<leg, txs, dropped, inflow, first>> /\ scan' = NoScan
      /\ cursor' = [cursor EXCEPT ![k] = [cursor[k] EXCEPT !.last = scan.newest]]
  BY <1>1 DEF NoBackfill, chain
<1>3. scan'.phase \notin Walking
  BY <1>2 DEF NoScan, Walking
<1>4. /\ scan.newest \in Nat /\ scan.newest <= Len(txs)
      /\ cursor[k] \in Cursors
  BY <1>0 DEF InflowTypeOK, Behind
<1>5. /\ cursor' \in [Endpoints -> Cursors]
      /\ \A e \in Endpoints : cursor'[e].last = IF e = k THEN scan.newest ELSE cursor[e].last
  <2>1. cursor \in [Endpoints -> Cursors]
    BY <1>0 DEF InflowTypeOK
  <2>2. [cursor[k] EXCEPT !.last = scan.newest] \in Cursors
    BY <1>4 DEF Cursors
  <2>3. [cursor[k] EXCEPT !.last = scan.newest].last = scan.newest
    BY <1>4 DEF Cursors
  <2> QED BY <1>2, <2>1, <2>2, <2>3
<1>6. InflowTypeOK'
  <2>1. scan' = [at |-> scan'.at, phase |-> scan'.phase, newest |-> scan'.newest]
    BY <1>2 DEF NoScan
  <2> QED BY <1>0, <1>2, <1>3, <1>5, <2>1 DEF InflowTypeOK, Sigs
<1>7. Behind'
  BY <1>0, <1>2, <1>3, <1>4, <1>5 DEF Behind
<1>8. ASSUME NEW e \in Endpoints, NEW top \in Nat, Covered(e, top) PROVE Covered(e, top)'
  BY <1>2, <1>8 DEF Covered, Sigs, Delta
<1>9. ASSUME NEW e \in Endpoints, NEW top \in Nat, top = cursor'[e].last PROVE Covered(e, top)'
  <2>1. e = k => top = scan.newest
    BY <1>5, <1>9
  <2>2. e # k => top = cursor[e].last
    BY <1>5, <1>9
  <2>3. Covered(e, top)
    BY <1>0, <1>1, <2>1, <2>2, CoveredNow
  <2> QED BY <1>8, <2>3
<1> QED BY <1>2, <1>3, <1>6, <1>7, <1>9, ScanKeeps

\* A walk forward covers what it lists before it moves the cursor.
LEMMA ForwardKeeps ==
  ASSUME InflowInv, NEW tip \in Heights, NEW stop \in Sigs \cup {None}, Forward(tip, stop)
  PROVE  InflowInv'
<1>0. InflowTypeOK /\ Behind /\ scan.phase \in Walking
  BY DEF InflowInv, Forward, Walking
<1>1. PICK k \in Endpoints : k = scan.at
  BY <1>0 DEF InflowTypeOK
<1>2. PICK passed : passed = Passed(ListedAhead(k, tip), stop)
  OBVIOUS
<1>3. stop \in Int
  <2>1. \A t \in Sigs : t \in Int
    BY <1>0, InflowFacts
  <2> QED BY <2>1 DEF None
<1>4. PICK top : top = IF passed = {} THEN scan.newest ELSE Max(passed)
  OBVIOUS
<1>5. /\ UNCHANGED <<leg, txs, dropped, cursor, first>>
      /\ inflow' = inflow \cup Credits(passed)
      /\ scan' = [scan EXCEPT !.phase = "backward", !.newest = top]
  BY <1>1, <1>2, <1>4 DEF Forward, chain, Reached, LastOf
<1>6. passed \subseteq Sigs
  <2>1. ListedAhead(k, tip) \subseteq Sigs
    BY <1>0, ListedFacts DEF ListedAhead
  <2> QED BY <1>2, <2>1 DEF Passed
<1>7. inflow \subseteq inflow' /\ inflow' \subseteq Sigs
  BY <1>0, <1>5, <1>6 DEF InflowTypeOK, Credits
<1>8. scan'.at = k /\ scan'.newest = top /\ scan'.phase \in Walking
      /\ scan' = [at |-> k, phase |-> "backward", newest |-> top]
  <2>1. scan = [at |-> scan.at, phase |-> scan.phase, newest |-> scan.newest]
    BY <1>0 DEF InflowTypeOK
  <2>2. scan' = [at |-> k, phase |-> "backward", newest |-> top]
    BY <1>1, <1>5, <2>1
  <2> QED BY <2>2 DEF Walking
<1>9. top \in Nat /\ top <= Len(txs)
  <2>1. ASSUME passed = {} PROVE top \in Nat /\ top <= Len(txs)
    BY <1>0, <1>4, <2>1 DEF InflowTypeOK, Behind
  <2>2. ASSUME passed # {} PROVE top \in Nat /\ top <= Len(txs)
    <3>1. passed \in SUBSET (0 .. Len(txs)) /\ Len(txs) \in Nat
      BY <1>0, <1>6, InflowFacts
    <3>2. Max(passed) \in passed
      BY <2>2, <3>1, MaxIsGreatest
    <3>3. \A t \in passed : t \in Nat /\ t <= Len(txs)
      BY <3>1
    <3> QED BY <1>4, <2>2, <3>2, <3>3, Zenon
  <2> QED BY <2>1, <2>2
<1>10. InflowTypeOK'
  BY <1>0, <1>5, <1>7, <1>8, <1>9 DEF InflowTypeOK, Sigs
<1>11. Behind'
  BY <1>0, <1>5, <1>8, <1>9 DEF Behind
<1>12. ASSUME NEW e \in Endpoints, NEW t \in Nat, Covered(e, t) PROVE Covered(e, t)'
  <2>1. dropped'[e] \in Nat /\ dropped[e] <= dropped'[e] /\ first'[e] = first[e]
    BY <1>0, <1>5 DEF InflowTypeOK
  <2> QED BY <1>0, <1>5, <1>7, <1>12, <2>1, StaysCovered
<1>13. Covered(k, top)'
  <2>1. ASSUME passed = {} PROVE Covered(k, top)'
    <3>1. top = scan.newest
      BY <1>4, <2>1
    <3>2. Covered(k, top)
      BY <1>0, <1>1, <1>9, <3>1, CoveredNow
    <3> QED BY <1>9, <1>12, <3>2
  <2>2. ASSUME passed # {} PROVE Covered(k, top)'
    <3>1. top = Max(passed)
      BY <1>4, <2>2
    <3>2. ASSUME NEW s \in Sigs, first[k] # None, first[k] <= s, s <= top, s > dropped[k], Delta(s) # 0
          PROVE  s \in inflow'
      <4>1. s <= Max(passed)
        BY <3>1, <3>2
      <4> QED BY <1>2, <1>3, <1>5, <2>2, <3>2, <4>1, ForwardReaches
    <3> QED BY <1>5, <3>2 DEF Covered, Sigs, Delta
  <2> QED BY <2>1, <2>2
<1>14. \A e \in Endpoints, t \in Nat : t = cursor'[e].last => Covered(e, t)'
  BY <1>5, <1>12, CoveredNow
<1> QED BY <1>5, <1>8, <1>10, <1>11, <1>13, <1>14, ScanKeeps

\* A backfill leaves its endpoint's cursor where the walk forward put it, or, the first
\* time, at the newest it passed.
LEMMA BackwardKeeps ==
  ASSUME InflowInv, NEW tip \in Heights, NEW stop \in Sigs \cup {None},
         NEW readable \in BOOLEAN, Backward(tip, stop, readable)
  PROVE  InflowInv'
<1>0. InflowTypeOK /\ Behind /\ scan.phase \in Walking
  BY DEF InflowInv, Backward, Walking
<1>1. PICK k \in Endpoints : k = scan.at
  BY <1>0 DEF InflowTypeOK
<1>2. PICK passed : passed = Passed(Newest(ListedBehind(k, tip), Batch), stop)
  OBVIOUS
<1>3. stop \in Int
  <2>1. \A t \in Sigs : t \in Int
    BY <1>0, InflowFacts
  <2> QED BY <2>1 DEF None
<1>4. PICK top : top = IF cursor[k].last = None THEN LastOf(passed, None) ELSE scan.newest
  OBVIOUS
<1>5. PICK old : old = IF passed = {} THEN cursor[k].oldest ELSE Min(passed)
  OBVIOUS
<1>6. PICK low : low = IF cursor[k].last = None THEN FirstOf(passed) ELSE first[k]
  OBVIOUS
<1>7. PICK done \in BOOLEAN : done = (Exhausted(k, tip, stop) /\ (Admits(passed) => readable))
  BY DEF Exhausted, Admits
<1>8. /\ UNCHANGED <<leg, txs, dropped>> /\ scan' = NoScan
      /\ inflow' = inflow \cup Credits(passed)
      /\ cursor' = [cursor EXCEPT ![k] = [last |-> top, oldest |-> old, complete |-> done]]
      /\ first' = [first EXCEPT ![k] = low]
  BY <1>1, <1>2, <1>4, <1>5, <1>6, <1>7 DEF Backward, chain
<1>9. passed \subseteq Sigs /\ passed \in SUBSET (0 .. Len(txs)) /\ Len(txs) \in Nat
  <2>1. ListedBehind(k, tip) \subseteq Sigs
    BY <1>0, ListedFacts DEF ListedBehind
  <2> QED BY <1>0, <1>2, <2>1, InflowFacts DEF Passed, Newest
<1>10. inflow \subseteq inflow' /\ inflow' \subseteq Sigs
  BY <1>0, <1>8, <1>9 DEF InflowTypeOK, Credits
<1>11. scan'.phase \notin Walking
       /\ scan' = [at |-> scan'.at, phase |-> scan'.phase, newest |-> scan'.newest]
  BY <1>8 DEF NoScan, Walking
<1>12. passed # {} => /\ Max(passed) \in Nat /\ Max(passed) <= Len(txs)
                      /\ Min(passed) \in Nat
  <2>1. ASSUME passed # {} PROVE Max(passed) \in passed /\ Min(passed) \in passed
    BY <1>9, <2>1, MaxIsGreatest, MinIsLeast
  <2>2. \A t \in passed : t \in Nat /\ t <= Len(txs)
    BY <1>9
  <2> QED BY <2>1, <2>2, Zenon
<1>13. top \in Nat /\ top <= Len(txs) /\ old \in Nat /\ low \in Nat
  <2>1. /\ cursor[k].oldest \in Nat /\ first[k] \in Nat
        /\ scan.newest \in Nat /\ scan.newest <= Len(txs)
    BY <1>0, InflowFacts DEF InflowTypeOK, Behind
  <2>2. FirstOf(passed) \in Nat /\ LastOf(passed, None) \in Nat /\ LastOf(passed, None) <= Len(txs)
    BY <1>9, <1>12 DEF FirstOf, LastOf, None
  <2> QED BY <1>4, <1>5, <1>6, <1>12, <2>1, <2>2
<1>14. /\ cursor' \in [Endpoints -> Cursors]
       /\ \A e \in Endpoints : cursor'[e].last = IF e = k THEN top ELSE cursor[e].last
       /\ first' \in [Endpoints -> Nat]
       /\ \A e \in Endpoints : first'[e] = IF e = k THEN low ELSE first[e]
  <2>1. cursor \in [Endpoints -> Cursors] /\ first \in [Endpoints -> Nat]
    BY <1>0 DEF InflowTypeOK
  <2>2. [last |-> top, oldest |-> old, complete |-> done] \in Cursors
    BY <1>7, <1>13 DEF Cursors
  <2> QED BY <1>8, <1>13, <2>1, <2>2
<1>15. InflowTypeOK'
  BY <1>0, <1>8, <1>10, <1>11, <1>14 DEF InflowTypeOK, Sigs
<1>16. Behind'
  BY <1>0, <1>8, <1>11, <1>13, <1>14 DEF Behind
<1>17. ASSUME NEW e \in Endpoints, NEW t \in Nat, Covered(e, t), first'[e] = first[e]
       PROVE  Covered(e, t)'
  <2>1. dropped'[e] \in Nat /\ dropped[e] <= dropped'[e]
    BY <1>0, <1>8 DEF InflowTypeOK
  <2> QED BY <1>0, <1>8, <1>10, <1>17, <2>1, StaysCovered
<1>18. Covered(k, top)'
  <2>1. ASSUME cursor[k].last # None PROVE Covered(k, top)'
    <3>1. top = scan.newest /\ first'[k] = first[k]
      BY <1>4, <1>6, <1>14, <2>1
    <3>2. Covered(k, top)
      BY <1>0, <1>1, <1>13, <3>1, CoveredNow
    <3> QED BY <1>13, <1>17, <3>1, <3>2
  <2>2. ASSUME cursor[k].last = None, passed = {} PROVE Covered(k, top)'
    <3>1. first'[k] = None
      BY <1>6, <1>14, <2>2 DEF FirstOf
    <3> QED BY <3>1 DEF Covered
  <2>3. ASSUME cursor[k].last = None, passed # {} PROVE Covered(k, top)'
    <3>1. top = Max(passed) /\ first'[k] = Min(passed)
      BY <1>4, <1>6, <1>14, <2>3 DEF FirstOf, LastOf
    <3>2. ASSUME NEW s \in Sigs, first'[k] <= s, s <= top, s > dropped[k], Delta(s) # 0
          PROVE  s \in inflow'
      <4>1. Min(passed) <= s /\ s <= Max(passed)
        BY <3>1, <3>2
      <4>2. s \in passed
        BY <1>2, <1>3, <2>3, <3>2, <4>1, FirstWalkIsWhole
      <4> QED BY <1>8, <3>2, <4>2 DEF Credits
    <3> QED BY <1>8, <3>2 DEF Covered, Sigs, Delta
  <2> QED BY <2>1, <2>2, <2>3
<1>19. ASSUME NEW e \in Endpoints, NEW t \in Nat, t = cursor'[e].last PROVE Covered(e, t)'
  <2>1. ASSUME e = k PROVE Covered(e, t)'
    <3>1. t = top
      BY <1>14, <1>19, <2>1
    <3> QED BY <1>18, <2>1, <3>1
  <2>2. ASSUME e # k PROVE Covered(e, t)'
    <3>1. t = cursor[e].last /\ first'[e] = first[e]
      BY <1>14, <1>19, <2>2
    <3>2. Covered(e, t)
      BY <3>1, CoveredNow
    <3> QED BY <1>17, <3>1, <3>2
  <2> QED BY <2>1, <2>2
<1> QED BY <1>8, <1>11, <1>15, <1>16, <1>19, ScanKeeps

LEMMA InflowStep == InflowInv /\ [InflowNext]_inflowVars => InflowInv'
<1> SUFFICES ASSUME InflowInv, [InflowNext]_inflowVars PROVE InflowInv'
  OBVIOUS
<1>1. ASSUME NEW k \in Endpoints, BeginScan(k) PROVE InflowInv'
  BY <1>1, BeginKeeps
<1>2. ASSUME NEW tip \in Heights, NEW stop \in Sigs \cup {None}, Forward(tip, stop)
      PROVE  InflowInv'
  BY <1>2, ForwardKeeps
<1>3. ASSUME NEW tip \in Heights, NEW stop \in Sigs \cup {None},
             NEW readable \in BOOLEAN, Backward(tip, stop, readable)
      PROVE  InflowInv'
  BY <1>3, BackwardKeeps
<1>4. ASSUME NoBackfill PROVE InflowInv'
  BY <1>4, NoBackfillKeeps
<1>5. ASSUME NEW amount \in Amounts \cup {Failed}, Lands(amount) PROVE InflowInv'
  BY <1>5, LandsKeeps
<1>6. ASSUME NEW k \in Endpoints, Drops(k) PROVE InflowInv'
  BY <1>6, DropsKeeps
<1>7. ASSUME NEW tip \in Heights, NEW stop \in Sigs \cup {None}, GivesUp(tip, stop)
      PROVE  InflowInv'
  BY <1>7, GivesUpKeeps
<1>8. ASSUME UNCHANGED inflowVars PROVE InflowInv'
  BY <1>8 DEF InflowInv, inflowVars, chain, evidence, InflowTypeOK, Behind, AllCovered, Covered,
     Sigs, Delta
<1> QED BY <1>1, <1>2, <1>3, <1>4, <1>5, <1>6, <1>7, <1>8 DEF InflowNext, ScanSteps, Walks, OnChain

LEMMA InflowInvHolds == InflowSpec => []InflowInv
BY InflowStart, InflowStep, PTL DEF InflowSpec

\* `New activity must never be missed while a backfill is still in progress'
\* (scan_inflows): every inflow between the oldest signature of an endpoint's first walk
\* and its last one is recorded, for any history, any endpoints, any pages of a run and
\* wherever a walk is cut short.
THEOREM NoInflowIsMissed == InflowSpec => []NothingNewMissed
<1>1. InflowInv => NothingNewMissed
  <2> SUFFICES ASSUME InflowInv, NEW e \in Endpoints, NEW s \in Sigs,
                      first[e] # None, s \in first[e] .. cursor[e].last,
                      s > dropped[e], Delta(s) # 0
               PROVE  s \in inflow
    BY DEF NothingNewMissed
  <2>1. first[e] <= s /\ s <= cursor[e].last
    BY InflowFacts DEF InflowInv
  <2> QED BY <2>1 DEF InflowInv, AllCovered, Covered
<1> QED BY <1>1, InflowInvHolds, PTL

--------------------------------------------------------------------------------
(* The scan of a coin's burns. *)

StoreShape(s) ==
    s = [burns |-> s.burns, cursor |-> s.cursor, begun |-> s.begun, configs |-> s.configs,
         rows |-> s.rows, pages |-> s.pages]

\* Every burn between where the walks of a mint began and where the cursor is, is recorded.
BurnsCovered(past, burns, last, begun) ==
    /\ last <= Len(past)
    /\ begun # None => \A s \in begun .. last : past[s] => s \in burns

StoreHolds(st) ==
    /\ StoreShape(st)
    /\ st.burns \in [Coins -> SUBSET Nat]
    /\ st.cursor \in [Coins -> Cursors]
    /\ st.begun \in [Coins -> Nat]
    /\ \A c \in Coins : BurnsCovered(history[c], st.burns[c], st.cursor[c].last, st.begun[c])

QueueInv == history \in [Coins -> Seq(BOOLEAN)] /\ StoreHolds(store)

LEMMA QueueStart == Init => QueueInv
<1> SUFFICES ASSUME Init PROVE QueueInv
  OBVIOUS
<1>1. /\ StoreShape(store) /\ history = [c \in Coins |-> << >>]
      /\ store.burns = [c \in Coins |-> {}] /\ store.cursor = [c \in Coins |-> NoCursor]
      /\ store.begun = [c \in Coins |-> None]
  BY DEF Init, Empty, StoreShape
<1>2. NoCursor \in Cursors /\ NoCursor.last = 0 /\ None \in Nat
  BY DEF NoCursor, Cursors, None
<1>3. [c \in Coins |-> << >>] \in [Coins -> Seq(BOOLEAN)]
  <2>1. << >> \in Seq(BOOLEAN)
    OBVIOUS
  <2> QED BY <2>1
<1>4. ASSUME NEW c \in Coins
      PROVE  BurnsCovered(history[c], store.burns[c], store.cursor[c].last, store.begun[c])
  BY <1>1, <1>2 DEF BurnsCovered
<1> QED BY <1>1, <1>2, <1>3, <1>4 DEF QueueInv, StoreHolds

\* What a walk of a mint finds, and where it leaves off, is covered.
LEMMA WalkCovers ==
  ASSUME QueueInv, NEW c \in Coins, NEW tip \in Tips(c),
         NEW fore \in Stops(Catchup(c, tip)), NEW back \in Stops(Backfill(c, tip)),
         NEW walked, walked = Walked(c, tip, fore, back)
  PROVE  /\ store.burns[c] \subseteq walked.burns /\ walked.burns \subseteq Nat
         /\ walked.cursor \in Cursors /\ walked.begun \in Nat
         /\ BurnsCovered(history[c], walked.burns, walked.cursor.last, walked.begun)
<1> DEFINE n == Len(history[c])
           old == store.cursor[c]
           ahead == Catchup(c, tip)
           behind == Backfill(c, tip)
           new == Passed(ahead, fore)
           past == Passed(behind, back)
<1>0. /\ history[c] \in Seq(BOOLEAN) /\ n \in Nat /\ old \in Cursors
      /\ old.last \in Nat /\ old.oldest \in Nat /\ store.begun[c] \in Nat
      /\ store.burns[c] \subseteq Nat
      /\ BurnsCovered(history[c], store.burns[c], old.last, store.begun[c])
  BY DEF QueueInv, StoreHolds, Cursors
<1>1. tip \in Nat /\ tip <= n
  BY <1>0 DEF Tips
<1>2. /\ ahead \in SUBSET (0 .. n) /\ behind \in SUBSET (0 .. n)
      /\ Older(c, tip) \in SUBSET (0 .. n)
      /\ \A s \in 1 .. tip : s \in Older(c, tip) <=> (old.oldest # None => s < old.oldest)
      /\ \A s \in Older(c, tip) : s \in 1 .. tip
      /\ behind \subseteq Older(c, tip)
      /\ \A s \in ahead : s \in 1 .. tip
      /\ old.last # None => \A s \in 1 .. tip : s > old.last => s \in ahead
  <2>1. \A s \in 1 .. tip : s \in 0 .. n
    BY <1>0, <1>1
  <2>2. Older(c, tip) \in SUBSET (1 .. tip) /\ behind \subseteq Older(c, tip) /\ ahead \in SUBSET (1 .. tip)
    BY DEF Older, Ahead, Backfill, Catchup, Between, Newest
  <2>3. \A s \in 1 .. tip : s \in Older(c, tip) <=> (old.oldest # None => s < old.oldest)
    BY <1>1 DEF Older, Between, None
  <2>4. old.last # None => \A s \in 1 .. tip : s > old.last => s \in ahead
    BY <1>0, <1>1 DEF Catchup, Ahead, Between
  <2> QED BY <2>1, <2>2, <2>3, <2>4
<1> HIDE DEF ahead, behind
<1>3. new \subseteq ahead /\ past \subseteq behind /\ fore \in Int /\ back \in Int
  <2>1. fore \in ahead \cup {None} /\ back \in behind \cup {None}
    BY DEF Stops, ahead, behind
  <2> QED BY <1>0, <1>2, <2>1 DEF Passed, None
<1>4. /\ new # {} => Max(new) \in new
      /\ past # {} => Max(past) \in past /\ Min(past) \in past
  <2>1. new \in SUBSET (0 .. n) /\ past \in SUBSET (0 .. n)
    BY <1>2, <1>3
  <2> QED BY <1>0, <2>1, MaxIsGreatest, MinIsLeast
<1>5. /\ walked.burns = store.burns[c] \cup {s \in new \cup past : history[c][s]}
      /\ walked.begun = IF old.last = None THEN FirstOf(past) ELSE store.begun[c]
      /\ walked.cursor = [last |-> IF old.last = None THEN LastOf(past, None) ELSE LastOf(new, old.last),
                          oldest |-> IF past = {} THEN old.oldest ELSE Min(past),
                          complete |-> old.complete \/
                             (Cardinality(Older(c, tip)) < Batch /\ back = None)]
  BY DEF Walked, Resumes, ahead, behind
<1> HIDE DEF new, past
<1>6. \A s \in new \cup past : s \in Nat /\ s <= n
  BY <1>0, <1>2, <1>3
<1>7. /\ FirstOf(past) \in Nat /\ LastOf(past, None) \in Nat /\ LastOf(new, old.last) \in Nat
      /\ LastOf(past, None) <= n /\ LastOf(new, old.last) <= n
      /\ past # {} => Min(past) \in Nat
  <2>1. old.last <= n
    BY <1>0 DEF BurnsCovered
  <2> QED BY <1>0, <1>4, <1>6, <2>1 DEF FirstOf, LastOf, None
<1>8. /\ store.burns[c] \subseteq walked.burns /\ walked.burns \subseteq Nat
      /\ walked.cursor \in Cursors /\ walked.begun \in Nat
      /\ walked.cursor.last <= n
  <2>1. PICK done \in BOOLEAN :
          done = (old.complete \/ (Cardinality(Older(c, tip)) < Batch /\ back = None))
    OBVIOUS
  <2> QED BY <1>0, <1>5, <1>6, <1>7, <2>1 DEF Cursors
<1>9. ASSUME old.last = None, past # {}, NEW s \in Int, Min(past) <= s, s <= Max(past)
      PROVE  s \in past
  <2>1. /\ Max(past) \in behind /\ Min(past) \in behind
        /\ Max(past) \in Older(c, tip) /\ Min(past) \in Older(c, tip)
    BY <1>2, <1>3, <1>4, <1>9
  <2>2. behind = Newest(Older(c, tip), Batch)
    BY <2>1 DEF behind, Backfill
  <2>3. s \in Older(c, tip)
    <3>1. Max(past) \in 1 .. tip /\ Min(past) \in 1 .. tip
      BY <1>2, <2>1
    <3>2. s \in 1 .. tip
      BY <1>1, <1>9, <3>1
    <3>3. old.oldest # None => s < old.oldest
      BY <1>0, <1>2, <1>9, <2>1, <3>1
    <3> QED BY <1>2, <3>2, <3>3
  <2>4. s \in behind
    BY <1>0, <1>2, <1>9, <2>1, <2>2, <2>3, NewestIsUpward, WalkAssumption
  <2>5. Max(past) \in Passed(behind, back)
    BY <1>4, <1>9 DEF past
  <2>6. s \in Passed(behind, back)
    BY <1>0, <1>2, <1>3, <1>9, <2>4, <2>5, PassedIsWhole
  <2> QED BY <2>6 DEF past
<1>10. ASSUME old.last # None, new # {}, NEW s \in Int, s > old.last, s <= Max(new)
       PROVE  s \in new
  <2>1. Max(new) \in ahead /\ Max(new) \in 1 .. tip
    BY <1>2, <1>3, <1>4, <1>10
  <2>2. s \in ahead
    <3>1. s \in 1 .. tip
      BY <1>0, <1>1, <1>10, <2>1
    <3> QED BY <1>2, <1>10, <3>1
  <2>3. Max(new) \in Passed(ahead, fore)
    BY <1>4, <1>10 DEF new
  <2>4. s \in Passed(ahead, fore)
    BY <1>0, <1>2, <1>3, <1>10, <2>2, <2>3, PassedIsWhole
  <2> QED BY <2>4 DEF new
<1>11. ASSUME walked.begun # None, NEW s \in walked.begun .. walked.cursor.last, history[c][s]
       PROVE  s \in walked.burns
  <2>1. walked.begun <= s /\ s <= walked.cursor.last /\ s \in Int
    BY <1>8, <1>11
  <2>2. ASSUME old.last = None PROVE s \in walked.burns
    <3>1. past # {} /\ walked.begun = Min(past) /\ walked.cursor.last = Max(past)
      BY <1>5, <1>11, <2>2 DEF FirstOf, LastOf
    <3>2. s \in past
      BY <1>9, <2>1, <2>2, <3>1
    <3> QED BY <1>5, <1>11, <3>2
  <2>3. ASSUME old.last # None, s <= old.last PROVE s \in walked.burns
    <3>1. walked.begun = store.begun[c]
      BY <1>5, <2>3
    <3>2. s \in store.begun[c] .. old.last
      BY <1>0, <2>1, <2>3, <3>1
    <3>3. s \in store.burns[c]
      BY <1>0, <1>11, <3>1, <3>2 DEF BurnsCovered
    <3> QED BY <1>5, <3>3
  <2>4. ASSUME old.last # None, s > old.last PROVE s \in walked.burns
    <3>1. new # {} /\ walked.cursor.last = Max(new)
      <4>1. walked.cursor.last = LastOf(new, old.last)
        BY <1>5, <2>4
      <4>2. walked.cursor.last # old.last
        BY <1>0, <2>1, <2>4
      <4> QED BY <4>1, <4>2 DEF LastOf
    <3>2. s \in new
      BY <1>10, <2>1, <2>4, <3>1
    <3> QED BY <1>5, <1>11, <3>2
  <2> QED BY <1>0, <2>1, <2>2, <2>3, <2>4
<1> QED BY <1>8, <1>11 DEF BurnsCovered

\* What is recorded of one mint leaves the others as they were; of a scan that raised
\* the rows alone.
LEMMA RecordedHolds ==
  ASSUME QueueInv, NEW c, NEW tip \in Tips(c), NEW fore \in Stops(Catchup(c, tip)),
         NEW back \in Stops(Backfill(c, tip)), NEW raised \in BOOLEAN
  PROVE  StoreHolds(Recorded(c, Walked(c, tip, fore, back), raised))
<1>0. StoreHolds(store) /\ StoreShape(store)
      /\ store.burns \in [Coins -> SUBSET Nat] /\ store.cursor \in [Coins -> Cursors]
      /\ store.begun \in [Coins -> Nat]
  BY DEF QueueInv, StoreHolds
<1>1. PICK walked : walked = Walked(c, tip, fore, back)
  OBVIOUS
<1>2. PICK st : st = Recorded(c, walked, raised)
  OBVIOUS
<1>3. PICK place, first0 :
        /\ st = [burns |-> [store.burns EXCEPT ![c] = walked.burns], cursor |-> place, begun |-> first0,
                 configs |-> store.configs, rows |-> store.rows, pages |-> store.pages]
        /\ \/ place = store.cursor /\ first0 = store.begun
           \/ /\ place = [store.cursor EXCEPT ![c] = walked.cursor]
              /\ first0 = [store.begun EXCEPT ![c] = walked.begun]
  <2>1. PICK one : one = [store EXCEPT !.burns[c] = walked.burns]
    OBVIOUS
  <2>2. one = [burns |-> [store.burns EXCEPT ![c] = walked.burns], cursor |-> store.cursor,
               begun |-> store.begun, configs |-> store.configs, rows |-> store.rows, pages |-> store.pages]
    BY <1>0, <2>1 DEF StoreShape
  <2>3. ASSUME raised PROVE st = one
    BY <1>2, <2>1, <2>3 DEF Recorded
  <2>4. ASSUME ~raised
        PROVE  st = [burns |-> [store.burns EXCEPT ![c] = walked.burns],
                     cursor |-> [store.cursor EXCEPT ![c] = walked.cursor],
                     begun |-> [store.begun EXCEPT ![c] = walked.begun],
                     configs |-> store.configs, rows |-> store.rows, pages |-> store.pages]
    <3>1. PICK two : two = [one EXCEPT !.cursor[c] = walked.cursor]
      OBVIOUS
    <3>2. PICK three : three = [two EXCEPT !.begun[c] = walked.begun]
      OBVIOUS
    <3>3. st = three
      BY <1>2, <2>1, <2>4, <3>1, <3>2 DEF Recorded
    <3>4. two = [burns |-> one.burns, cursor |-> [one.cursor EXCEPT ![c] = walked.cursor],
                 begun |-> one.begun, configs |-> one.configs, rows |-> one.rows, pages |-> one.pages]
      BY <2>2, <3>1
    <3>5. three = [burns |-> two.burns, cursor |-> two.cursor, begun |-> [two.begun EXCEPT ![c] = walked.begun],
                   configs |-> two.configs, rows |-> two.rows, pages |-> two.pages]
      BY <3>2, <3>4
    <3> QED BY <2>2, <3>3, <3>4, <3>5
  <2> QED BY <2>2, <2>3, <2>4
<1>4. StoreShape(st)
  BY <1>3 DEF StoreShape
<1>5. ASSUME c \notin Coins PROVE StoreHolds(st)
  <2>1. st.burns = store.burns /\ st.cursor = store.cursor /\ st.begun = store.begun
    BY <1>0, <1>3, <1>5
  <2> QED BY <1>0, <1>4, <2>1 DEF StoreHolds
<1>6. ASSUME c \in Coins PROVE StoreHolds(st)
  <2>1. /\ store.burns[c] \subseteq walked.burns /\ walked.burns \subseteq Nat
        /\ walked.cursor \in Cursors /\ walked.begun \in Nat
        /\ BurnsCovered(history[c], walked.burns, walked.cursor.last, walked.begun)
    BY <1>1, <1>6, WalkCovers
  <2>2. BurnsCovered(history[c], store.burns[c], store.cursor[c].last, store.begun[c])
    BY <1>0, <1>6 DEF StoreHolds
  <2>3. /\ st.burns \in [Coins -> SUBSET Nat] /\ st.cursor \in [Coins -> Cursors]
        /\ st.begun \in [Coins -> Nat]
    BY <1>0, <1>3, <2>1
  <2>4. ASSUME NEW d \in Coins
        PROVE  BurnsCovered(history[d], st.burns[d], st.cursor[d].last, st.begun[d])
    <3>1. ASSUME d # c PROVE BurnsCovered(history[d], st.burns[d], st.cursor[d].last, st.begun[d])
      <4>1. st.burns[d] = store.burns[d] /\ st.cursor[d] = store.cursor[d] /\ st.begun[d] = store.begun[d]
        BY <1>0, <1>3, <3>1
      <4> QED BY <1>0, <4>1 DEF StoreHolds
    <3>2. ASSUME d = c PROVE BurnsCovered(history[d], st.burns[d], st.cursor[d].last, st.begun[d])
      <4>1. st.burns[c] = walked.burns
        BY <1>0, <1>3, <1>6
      <4>2. \/ st.cursor[c] = store.cursor[c] /\ st.begun[c] = store.begun[c]
            \/ st.cursor[c] = walked.cursor /\ st.begun[c] = walked.begun
        BY <1>0, <1>3, <1>6
      <4> QED BY <2>1, <2>2, <3>2, <4>1, <4>2 DEF BurnsCovered
    <3> QED BY <3>1, <3>2
  <2> QED BY <1>4, <2>3, <2>4 DEF StoreHolds
<1> QED BY <1>1, <1>2, <1>5, <1>6

\* A store with what a scan found of one mint, or of none that is known.
LEMMA ScanHolds ==
  ASSUME QueueInv, NEW c, NEW scanned \in Scans(c)
  PROVE  StoreHolds(scanned)
<1>1. PICK tip \in Tips(c) :
        \E fore \in Stops(Catchup(c, tip)), back \in Stops(Backfill(c, tip)), raised \in BOOLEAN :
          scanned = Recorded(c, Walked(c, tip, fore, back), raised)
  BY DEF Scans
<1>2. PICK fore \in Stops(Catchup(c, tip)), back \in Stops(Backfill(c, tip)), raised \in BOOLEAN :
        scanned = Recorded(c, Walked(c, tip, fore, back), raised)
  BY <1>1
<1> QED BY <1>2, RecordedHolds

\* Every other step leaves what was scanned alone.
LEMMA ScannedKept ==
  ASSUME StoreHolds(store), NEW st, StoreShape(st), st.burns = store.burns,
         st.cursor = store.cursor, st.begun = store.begun
  PROVE  StoreHolds(st)
BY DEF StoreHolds

LEMMA NothingScanned ==
  ASSUME QueueInv, StoreHolds(store)', history' = history
  PROVE  QueueInv'
BY DEF QueueInv

LEMMA StoreKept ==
  ASSUME QueueInv, store' = store, history' = history
  PROVE  QueueInv'
BY DEF QueueInv, StoreHolds, StoreShape

LEMMA TransactsKeeps ==
  ASSUME QueueInv, NEW c \in Coins, NEW burn \in BOOLEAN, Transacts(c, burn)
  PROVE  QueueInv'
<1>1. /\ history \in [Coins -> Seq(BOOLEAN)] /\ StoreHolds(store) /\ store' = store
      /\ history' = [history EXCEPT ![c] = Append(history[c], burn)]
  BY DEF QueueInv, Transacts
<1>2. history' \in [Coins -> Seq(BOOLEAN)]
  <2>1. Append(history[c], burn) \in Seq(BOOLEAN)
    BY <1>1
  <2> QED BY <1>1, <2>1
<1>3. ASSUME NEW d \in Coins
      PROVE  BurnsCovered(history'[d], store.burns[d], store.cursor[d].last, store.begun[d])
  <2>0. BurnsCovered(history[d], store.burns[d], store.cursor[d].last, store.begun[d])
    BY <1>1 DEF StoreHolds
  <2>1. ASSUME d # c PROVE history'[d] = history[d]
    BY <1>1, <2>1
  <2>2. ASSUME d = c
        PROVE  BurnsCovered(history'[d], store.burns[d], store.cursor[d].last, store.begun[d])
    <3>1. PICK past \in Seq(BOOLEAN) : past = history[d] /\ history'[d] = Append(past, burn)
      BY <1>1, <2>2
    <3>2. store.cursor[d].last \in Nat /\ store.begun[d] \in Nat
      BY <1>1 DEF StoreHolds, Cursors
    <3>3. store.cursor[d].last <= Len(past)
      BY <2>0, <3>1 DEF BurnsCovered
    <3>4. store.cursor[d].last <= Len(Append(past, burn))
      BY <3>2, <3>3
    <3>5. store.begun[d] # None =>
            \A s \in store.begun[d] .. store.cursor[d].last : Append(past, burn)[s] = past[s]
      BY <3>2, <3>3 DEF None
    <3> QED BY <2>0, <3>1, <3>4, <3>5 DEF BurnsCovered
  <2> QED BY <2>0, <2>1, <2>2
<1> QED BY <1>1, <1>2, <1>3 DEF QueueInv, StoreHolds, StoreShape

LEMMA WrittenHolds ==
  ASSUME NEW of, StoreHolds(of), NEW c, NEW result
  PROVE  StoreHolds(Written(of, c, result))
BY DEF Written, StoreHolds, StoreShape

LEMMA MeasuredKeeps ==
  ASSUME QueueInv, NEW c, NEW result, Measured(c, result), history' = history
  PROVE  QueueInv'
<1>1. PICK scanned \in Scans(c) : store' = Written(scanned, c, result)
  BY DEF Measured
<1>2. PICK st : st = Written(scanned, c, result) /\ StoreHolds(st)
  BY ScanHolds, WrittenHolds
<1> QED BY <1>1, <1>2, NothingScanned DEF StoreHolds, StoreShape

LEMMA RunKeeps ==
  ASSUME QueueInv, Run
  PROVE  QueueInv'
<1>0. StoreHolds(store) /\ StoreShape(store)
  BY DEF QueueInv, StoreHolds
<1>1. ASSUME TakeKnown \/ Record PROVE QueueInv'
  <2>1. PICK row : store' = Noted(row)
    BY <1>1 DEF TakeKnown, Record
  <2>2. history' = history
    BY <1>1 DEF TakeKnown, Record, world
  <2>3. /\ StoreShape(store') /\ store'.burns = store.burns /\ store'.cursor = store.cursor
        /\ store'.begun = store.begun
    BY <1>0, <2>1 DEF Noted, StoreShape
  <2> QED BY <1>0, <2>2, <2>3, ScannedKept, NothingScanned DEF StoreHolds, StoreShape
<1>2. ASSUME Enrolled \/ Refresh \/ EndRun PROVE QueueInv'
  BY <1>2, StoreKept DEF Enrolled, Refresh, EndRun, world
<1>3. ASSUME NEW result, Take(result) PROVE QueueInv'
  BY <1>3, MeasuredKeeps DEF Take, world
<1>4. ASSUME NEW result, NEW c \in Coins, IndexNew(c, result) PROVE QueueInv'
  BY <1>4, MeasuredKeeps DEF IndexNew, world
<1>5. ASSUME NEW result, NEW c \in Coins, Rewrite(c, result) PROVE QueueInv'
  <2>1. store' = Written(store, c, result) /\ history' = history
    BY <1>5 DEF Rewrite, world
  <2>2. PICK st : st = Written(store, c, result) /\ StoreHolds(st)
    BY <1>0, WrittenHolds
  <2> QED BY <2>1, <2>2, NothingScanned DEF StoreHolds, StoreShape
<1> QED BY <1>1, <1>2, <1>3, <1>4, <1>5 DEF Run

LEMMA BesideKeeps ==
  ASSUME QueueInv, Beside
  PROVE  QueueInv'
<1>0. StoreHolds(store) /\ StoreShape(store)
  BY DEF QueueInv, StoreHolds
<1>1. ASSUME NEW c \in Coins, Scan(c) PROVE QueueInv'
  <2>0. PICK tip \in Tips(c) :
          \E fore \in Stops(Catchup(c, tip)), back \in Stops(Backfill(c, tip)) :
            store' = Recorded(c, Walked(c, tip, fore, back), FALSE)
    BY <1>1 DEF Scan
  <2>1. PICK fore \in Stops(Catchup(c, tip)), back \in Stops(Backfill(c, tip)) :
          store' = Recorded(c, Walked(c, tip, fore, back), FALSE)
    BY <2>0
  <2>2. PICK st : st = Recorded(c, Walked(c, tip, fore, back), FALSE) /\ StoreHolds(st)
    BY RecordedHolds
  <2>3. history' = history
    BY <1>1 DEF Scan, world
  <2> QED BY <2>1, <2>2, <2>3, NothingScanned DEF StoreHolds, StoreShape
<1>2. ASSUME NEW c \in Coins, Enumerate(c) PROVE QueueInv'
  <2>1. /\ StoreShape(store') /\ store'.burns = store.burns /\ store'.cursor = store.cursor
        /\ store'.begun = store.begun /\ history' = history
    BY <1>0, <1>2 DEF Enumerate, StoreShape, world
  <2> QED BY <1>0, <2>1, ScannedKept, NothingScanned DEF StoreHolds, StoreShape
<1>3. ASSUME Deploy PROVE QueueInv'
  BY <1>3, StoreKept DEF Deploy, world
<1> QED BY <1>1, <1>2, <1>3 DEF Beside

LEMMA ReplyKeeps ==
  ASSUME QueueInv, Reply
  PROVE  QueueInv'
<1>0. StoreHolds(store) /\ StoreShape(store)
  BY DEF QueueInv, StoreHolds
<1>1. ASSUME Mark PROVE QueueInv'
  <2>1. /\ StoreShape(store') /\ store'.burns = store.burns /\ store'.cursor = store.cursor
        /\ store'.begun = store.begun /\ history' = history
    BY <1>0, <1>1 DEF Mark, StoreShape, world
  <2> QED BY <1>0, <2>1, ScannedKept, NothingScanned DEF StoreHolds, StoreShape
<1>2. ASSUME ~Mark PROVE QueueInv'
  <2>1. store' = store /\ history' = history
    BY <1>2 DEF Reply, Leave, Comment, Close, Replied, world
  <2> QED BY <2>1, StoreKept
<1> QED BY <1>1, <1>2

LEMMA QueueStep == QueueInv /\ [Next]_vars => QueueInv'
<1> SUFFICES ASSUME QueueInv, [Next]_vars PROVE QueueInv'
  OBVIOUS
<1>1. ASSUME World PROVE QueueInv'
  <2>1. ASSUME NEW c \in Coins, NEW burn \in BOOLEAN, Transacts(c, burn) PROVE QueueInv'
    BY <2>1, TransactsKeeps
  <2>2. ASSUME NEW c, Moves(c) PROVE QueueInv'
    BY <2>2, StoreKept DEF Moves
  <2>3. ASSUME NEW i, NEW c, Opens(i, c) \/ Edits(i, c) PROVE QueueInv'
    BY <2>3, StoreKept DEF Opens, Edits
  <2> QED BY <1>1, <2>1, <2>2, <2>3 DEF World
<1>2. ASSUME Starts PROVE QueueInv'
  BY <1>2, StoreKept DEF Starts, StartReply, Start, world
<1>3. ASSUME Raises \/ UNCHANGED vars PROVE QueueInv'
  BY <1>3, StoreKept DEF Raises, vars, world
<1> QED BY <1>1, <1>2, <1>3, RunKeeps, BesideKeeps, ReplyKeeps DEF Next

\* The cursor never advances past a signature that was not read (scan_burns): every burn
\* between the oldest signature of a mint's first walk and its last one is recorded, for
\* any coins, any history, any pages of a run and wherever a walk is cut short or raises.
THEOREM EveryNewBurnIsRecorded == Spec => []NoBurnMissed
<1>1. QueueInv => NoBurnMissed
  BY DEF QueueInv, StoreHolds, BurnsCovered, NoBurnMissed
<1>2. Spec => []QueueInv
  BY QueueStart, QueueStep, PTL DEF Spec
<1> QED BY <1>1, <1>2, PTL
================================================================================
