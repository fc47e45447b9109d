--------------------------- MODULE LaunchPageProofs ---------------------------
(***************************************************************************)
(* The launch door says and signs what is true: for any forms, tolls,      *)
(* details and number of keys, and any number of approvals and faults.     *)
(*                                                                         *)
(* The three properties rest on one invariant, PageInv.  The form cannot   *)
(* change under what was built for it, because an edit outdates what is    *)
(* asked and the first approval locks the form; only what the server       *)
(* accepts is ever signed; and a split that landed can neither be          *)
(* overwritten nor be read off another transaction than the one waited for.*)
(***************************************************************************)
EXTENDS LaunchPage, FiniteSetTheorems, WellFoundedInduction, TLAPS

Phases == {"draft", "approving1", "wait1", "review2", "approving2", "wait2", "done", "unknown"}
Statuses == {"signed", "flying", "landed", "failed", "gone"}

\* The splits a page can ask for.
Splits == {ShareRows(rows, rate, Dev) : rows \in Forms, rate \in Rates}

Coins == [creator : {"nobody", Dev, Others}, split : Splits \cup {None}]
Sends == [kind : {"create", "split"}, mint : Mints, split : Splits,
          by : {"page", "wallet"}, n : Nat]
Pages == [phase : Phases, locked : BOOLEAN, rows : Forms, rate : Rates, details : Details,
          uri : Details \cup {None}, built : BOOLEAN, mint : Mints \cup {None},
          shares : Splits \cup {None}, named : Details \cup {None}, enroll : BOOLEAN,
          sent : Sends \cup {None}, signed : Sends \cup {None}, seen : {"null", "no", "yes"},
          again : BOOLEAN, tries : 0 .. 3, n : Nat]
Pins == [details : Details, current : BOOLEAN]
Builds == [shares : Splits, uri : Details, mint : Mints \cup {None}, current : BOOLEAN]

TypeOK ==
    /\ coin \in [Mints -> Coins]
    /\ DOMAIN tx \subseteq Sends /\ tx \in [DOMAIN tx -> Statuses]
    /\ page \in Pages
    /\ request \in [pin : Pins \cup {None}, build : Builds \cup {None}]

\* The form and what was built for it, and what is uploaded.
AsShown ==
    /\ page.shares = Shown /\ page.named = page.details
    /\ page.mint \in Mints /\ page.mint # None /\ Accepts(page.shares)
FormKept ==
    /\ page.locked <=> page.phase # "draft"
    /\ page.built \/ page.locked => AsShown
    /\ page.uri # None => page.uri = page.details

\* What is asked and still current is asked for the form as it is.
PinCurrent == request.pin # None /\ request.pin.current => request.pin.details = page.details
BuildCurrent ==
    request.build # None =>
        /\ request.build.current =>
             /\ ~page.locked /\ ~page.built
             /\ request.build.shares = Shown /\ request.build.uri = page.details
        /\ request.build.mint # None => Accepts(request.build.shares)

\* Only what the server accepted is signed, one transaction of each maker an
\* approval, and the split of a coin is the one that landed.
SignedWell ==
    \A t \in DOMAIN tx :
        /\ Accepts(t.split) /\ t.n <= page.n
        /\ t.n = page.n /\ Approving => t.by = "page"
        /\ tx[t] = "landed" /\ t.kind = "split" =>
             coin[t.mint] = [creator |-> Dev, split |-> t.split]

\* What the page waits for is the split it showed.
WaitsForSplit ==
    /\ page.signed # None => page.signed \in DOMAIN tx
    /\ page.phase \in {"wait2", "done"} =>
         /\ page.sent \in DOMAIN tx /\ page.sent.kind = "split"
         /\ page.sent.mint = page.mint /\ page.sent.split = page.shares
    /\ page.phase = "done" => tx[page.sent] = "landed"

PageInv ==
    TypeOK /\ FormKept /\ PinCurrent /\ BuildCurrent /\ SignedWell /\ WaitsForSplit

--------------------------------------------------------------------------------
(* What is accepted, and the mint that is handed out. *)

\* What a door accepts, the check of enrolment passes.
LEMMA AcceptedEnrols ==
    ASSUME NEW split, Accepts(split)
    PROVE  Valid(split) /\ ProtocolShare(split)
<1>1. MissingLegs(split, TollBps, TRUE) \subseteq MissingLegs(split, TollBps, FALSE)
  BY DEF MissingLegs
<1>2. MissingLegs(split, TollBps, TRUE) = {}
  BY <1>1 DEF Accepts
<1>3. Pays(split, Toll) >= TollBps
  <2>1. Pays(split, Toll) = TollBps
    BY DEF Accepts, CarriesToll
  <2>2. TollBps \in 1 .. TotalBps
    BY LegsAssumption, Zenon
  <2>3. \A n \in 1 .. TotalBps : n >= n
    BY DEF TotalBps
  <2> QED
    BY <2>1, <2>2, <2>3, Zenon
<1> QED
  BY <1>2, <1>3 DEF Accepts, ProtocolShare

\* A split is never taken for none.
LEMMA SplitIsSome == ASSUME NEW split \in Splits PROVE split # None
BY LaunchPageAssumption DEF Splits

\* The key handed out is one of the pool.
LEMMA HandedOutIsInPool ==
    ASSUME Unused # {}
    PROVE  Pool[Min(Unused)] \in Mints
<1>1. Unused \subseteq DOMAIN Pool /\ DOMAIN Pool \subseteq Nat
  BY LaunchPageAssumption DEF Unused
<1>2. PICK x \in Unused : \A y \in Unused : ~(<<y, x>> \in OpToRel(<, Nat))
  BY <1>1, NatLessThanWellFounded, WFMin
<1>3. \A y \in Unused : x <= y
  <2>1. SUFFICES ASSUME NEW y \in Unused, y < x PROVE FALSE
    BY <1>1
  <2>2. <<y, x>> \in {pair \in Nat \X Nat : pair[1] < pair[2]}
    BY <1>1, <2>1
  <2> QED
    BY <1>2, <2>2 DEF OpToRel
<1>4. Min(Unused) \in Unused
  BY <1>3 DEF Min
<1> QED
  BY <1>1, <1>4 DEF Mints, Range

\* A page opens unlocked, with nothing built and nothing asked.
LEMMA InitPage == Init => PageInv
<1> SUFFICES ASSUME Init PROVE PageInv
  OBVIOUS
<1>1. PICK rows \in Forms, rate \in Rates, details \in Details, uri \in Details \cup {None} :
        page = Draft(rows, rate, details, uri) /\ uri \in {None, details}
  BY DEF Init
<1>2. TypeOK
  BY <1>1 DEF Init, TypeOK, Coins, NoCoin, Pages, Phases, Draft
<1>3. FormKept /\ WaitsForSplit
  BY <1>1 DEF FormKept, WaitsForSplit, Draft
<1>4. PinCurrent /\ BuildCurrent /\ SignedWell
  BY DEF Init, PinCurrent, BuildCurrent, SignedWell
<1> QED
  BY <1>2, <1>3, <1>4 DEF PageInv

--------------------------------------------------------------------------------
(* The chain. *)

\* What one transaction becomes leaves the others as they were.
LEMMA OneBecomes ==
    ASSUME TypeOK, NEW t \in Sends, NEW status \in Statuses, Becomes(t, status)
    PROVE  /\ DOMAIN tx' = DOMAIN tx \cup {t} /\ DOMAIN tx' \subseteq Sends
           /\ tx' \in [DOMAIN tx' -> Statuses]
           /\ tx'[t] = status /\ \A s \in DOMAIN tx \ {t} : tx'[s] = tx[s]
BY DEF Becomes, TypeOK

\* The page and what it asks see nothing of a step of the chain.
LEMMA PageApart ==
    ASSUME PageInv, UNCHANGED <<page, request>>
    PROVE  FormKept' /\ PinCurrent' /\ BuildCurrent'
BY DEF PageInv, FormKept, AsShown, Shown, PinCurrent, BuildCurrent

\* A landing gives a coin its split at most once: one that has a split refuses another.
LEMMA LandsKept == ASSUME PageInv, NEW t \in DOMAIN tx, Lands(t) PROVE PageInv'
<1>1. UNCHANGED <<page, request>> /\ tx[t] = "flying" /\ t \in Sends
  BY DEF Lands, Status, PageInv, TypeOK
<1>2. FormKept' /\ PinCurrent' /\ BuildCurrent'
  BY <1>1, PageApart
<1>3. PICK status \in {"landed", "failed"} : Becomes(t, status)
  BY DEF Lands
<1>4. /\ DOMAIN tx' = DOMAIN tx /\ tx' \in [DOMAIN tx' -> Statuses]
      /\ tx'[t] = status /\ \A s \in DOMAIN tx \ {t} : tx'[s] = tx[s]
  BY <1>1, <1>3, OneBecomes DEF PageInv, Statuses
<1>5. coin \in [Mints -> Coins] /\ t.mint \in Mints /\ t.split \in Splits
  BY <1>1 DEF PageInv, TypeOK, Sends
<1>6. coin' \in [Mints -> Coins]
  BY <1>5 DEF Lands, Coins
<1>7. TypeOK'
  BY <1>1, <1>4, <1>6 DEF PageInv, TypeOK
<1>8. WaitsForSplit'
  BY <1>1, <1>4 DEF PageInv, WaitsForSplit
<1>9. SignedWell'
  <2> SUFFICES ASSUME NEW s \in DOMAIN tx, tx'[s] = "landed", s.kind = "split"
               PROVE  coin'[s.mint] = [creator |-> Dev, split |-> s.split]
    BY <1>1, <1>4 DEF PageInv, SignedWell, Approving
  <2>1. CASE s = t
    <3>1. Works(t) /\ coin' = [coin EXCEPT ![t.mint] = [creator |-> Dev, split |-> t.split]]
      BY <1>4, <2>1 DEF Lands, Becomes
    <3> QED
      BY <1>5, <2>1, <3>1
  <2>2. CASE s # t
    <3>1. tx[s] = "landed" /\ s \in Sends
      BY <1>4, <2>2 DEF PageInv, TypeOK
    <3>2. /\ coin[s.mint] = [creator |-> Dev, split |-> s.split]
          /\ s.split # None /\ s.mint \in Mints
      BY <3>1, SplitIsSome DEF PageInv, SignedWell, Sends
    <3>3. coin[s.mint].split # None
      BY <3>2
    <3>4. s.mint # t.mint \/ ~Works(t)
      BY <3>3 DEF Works, NoCoin, Unset
    <3>5. CASE Works(t)
      BY <1>5, <3>2, <3>4, <3>5 DEF Lands
    <3>6. CASE ~Works(t)
      BY <3>2, <3>6 DEF Lands
    <3> QED
      BY <3>5, <3>6
  <2> QED
    BY <2>1, <2>2
<1> QED
  BY <1>2, <1>7, <1>8, <1>9 DEF PageInv

\* What expired had not landed.
LEMMA ExpiresKept == ASSUME PageInv, NEW t \in DOMAIN tx, Expires(t) PROVE PageInv'
<1>1. UNCHANGED <<coin, page, request>> /\ tx[t] \in {"signed", "flying"} /\ t \in Sends
  BY DEF Expires, Status, PageInv, TypeOK
<1>2. FormKept' /\ PinCurrent' /\ BuildCurrent'
  BY <1>1, PageApart
<1>3. /\ DOMAIN tx' = DOMAIN tx /\ tx' \in [DOMAIN tx' -> Statuses]
      /\ tx'[t] = "gone" /\ \A s \in DOMAIN tx \ {t} : tx'[s] = tx[s]
  BY <1>1, OneBecomes DEF Expires, PageInv, Statuses
<1>4. TypeOK' /\ SignedWell' /\ WaitsForSplit'
  BY <1>1, <1>3 DEF PageInv, TypeOK, SignedWell, Approving, WaitsForSplit
<1> QED
  BY <1>2, <1>4 DEF PageInv

\* What others do takes no coin that was given a split.
LEMMA OthersKept ==
    ASSUME PageInv, NEW m \in Mints, UNCHANGED <<tx, page, request>>, coin' \in [Mints -> Coins],
           coin[m].split = None, \A n \in Mints \ {m} : coin'[n] = coin[n]
    PROVE  PageInv'
<1>1. FormKept' /\ PinCurrent' /\ BuildCurrent'
  BY PageApart
<1>2. \A t \in DOMAIN tx : tx[t] = "landed" /\ t.kind = "split" => t.mint \in Mints \ {m}
  <2> SUFFICES ASSUME NEW t \in DOMAIN tx, tx[t] = "landed", t.kind = "split"
               PROVE  t.mint \in Mints \ {m}
    OBVIOUS
  <2>1. t \in Sends
    BY DEF PageInv, TypeOK
  <2>2. coin[t.mint] = [creator |-> Dev, split |-> t.split]
    BY DEF PageInv, SignedWell
  <2>3. t.mint \in Mints /\ t.split # None
    BY <2>1, SplitIsSome DEF Sends
  <2> QED
    BY <2>2, <2>3
<1>3. TypeOK' /\ SignedWell' /\ WaitsForSplit'
  BY <1>2 DEF PageInv, TypeOK, SignedWell, Approving, WaitsForSplit
<1> QED
  BY <1>1, <1>3 DEF PageInv

\* What the chain and others do.
LEMMA ChainKept == ASSUME PageInv, Chain PROVE PageInv'
<1>1. ASSUME NEW m \in Mints, TakenByOthers(m) PROVE PageInv'
  <2>1. coin[m].split = None /\ UNCHANGED <<tx, page, request>>
    BY <1>1 DEF TakenByOthers, NoCoin
  <2>2. coin' \in [Mints -> Coins] /\ \A n \in Mints \ {m} : coin'[n] = coin[n]
    BY <1>1 DEF TakenByOthers, PageInv, TypeOK, Coins
  <2> QED
    BY <2>1, <2>2, OthersKept
<1>2. ASSUME NEW m \in Mints, NEW rows \in Forms,
             EnrolledElsewhere(m, ShareRows(rows, TollBps, Dev))
      PROVE  PageInv'
  <2>1. coin[m].split = None /\ UNCHANGED <<tx, page, request>>
    BY <1>2 DEF EnrolledElsewhere, Unset
  <2>2. ShareRows(rows, TollBps, Dev) \in Splits
    BY LaunchPageAssumption DEF Splits
  <2>3. coin' \in [Mints -> Coins] /\ \A n \in Mints \ {m} : coin'[n] = coin[n]
    BY <1>2, <2>2 DEF EnrolledElsewhere, PageInv, TypeOK, Coins
  <2> QED
    BY <2>1, <2>3, OthersKept
<1> QED
  BY <1>1, <1>2, LandsKept, ExpiresKept DEF Chain

--------------------------------------------------------------------------------
(* The form, and what the server answers. *)

\* What is outdated is no longer current, and is otherwise what it was.
LEMMA OutdatedFacts ==
    ASSUME TypeOK
    PROVE  /\ Outdated \in [pin : Pins \cup {None}, build : Builds \cup {None}]
           /\ Outdated.pin # None => ~Outdated.pin.current
           /\ Outdated.build # None =>
                /\ ~Outdated.build.current /\ request.build # None
                /\ Outdated.build.mint = request.build.mint
                /\ Outdated.build.shares = request.build.shares
<1>1. Outdated = [k \in {"pin", "build"} |-> Outdated[k]]
  BY DEF TypeOK, Outdated
<1>2. Outdated.pin = IF request.pin = None THEN None ELSE [request.pin EXCEPT !.current = FALSE]
  BY DEF TypeOK, Outdated
<1>3. Outdated.build =
        IF request.build = None THEN None ELSE [request.build EXCEPT !.current = FALSE]
  BY DEF TypeOK, Outdated
<1>4. /\ Outdated.pin \in Pins \cup {None}
      /\ Outdated.pin # None => ~Outdated.pin.current
  BY <1>2 DEF TypeOK, Pins
<1>5. /\ Outdated.build \in Builds \cup {None}
      /\ Outdated.build # None =>
           /\ ~Outdated.build.current /\ request.build # None
           /\ Outdated.build.mint = request.build.mint
           /\ Outdated.build.shares = request.build.shares
  BY <1>3 DEF TypeOK, Builds
<1> QED
  BY <1>1, <1>4, <1>5

\* A step of an unlocked page that leaves nothing built and nothing current.
LEMMA FormChanges ==
    ASSUME PageInv, UNCHANGED <<coin, tx>>, request' = Outdated, ~page.locked, page' \in Pages,
           ~page'.built, page'.uri # None => page'.uri = page'.details,
           page'.locked = page.locked, page'.phase = page.phase, page'.n = page.n,
           page'.signed = page.signed
    PROVE  PageInv'
<1>1. TypeOK'
  BY OutdatedFacts DEF PageInv, TypeOK
<1>2. FormKept'
  BY DEF PageInv, FormKept
<1>3. PinCurrent' /\ BuildCurrent'
  BY OutdatedFacts DEF PageInv, PinCurrent, BuildCurrent
<1>4. SignedWell'
  BY DEF PageInv, SignedWell, Approving
<1>5. WaitsForSplit'
  BY DEF PageInv, FormKept, WaitsForSplit
<1> QED
  BY <1>1, <1>2, <1>3, <1>4, <1>5 DEF PageInv

\* An edit of the rows.
LEMMA EditsKept == ASSUME PageInv, NEW rows \in Forms, Edits(rows) PROVE PageInv'
<1>1. page' \in Pages /\ page'.uri = page.uri /\ page'.details = page.details
  BY DEF Edits, Invalidated, PageInv, TypeOK, Pages
<1> QED
  BY <1>1, FormChanges DEF Edits, Unlocked, Invalidated, PageInv, TypeOK, Pages, FormKept

\* An edit of the details takes the uploaded ones with it.
LEMMA RenamesKept == ASSUME PageInv, NEW details \in Details, Renames(details) PROVE PageInv'
<1>1. page' \in Pages /\ page'.uri = None
  BY DEF Renames, Invalidated, PageInv, TypeOK, Pages
<1> QED
  BY <1>1, FormChanges DEF Renames, Unlocked, Invalidated, PageInv, TypeOK, Pages

\* What is too old to be signed is forgotten, or the split is checked again.
LEMMA TooOldKept == ASSUME PageInv, TooOld PROVE PageInv'
<1>1. CASE page.phase = "review2"
  <2>1. UNCHANGED <<coin, tx, request>>
    BY <1>1 DEF TooOld
  <2>2. page' = [page EXCEPT !.enroll = FALSE, !.again = TRUE]
    BY <1>1 DEF TooOld
  <2>3. /\ page' \in Pages /\ page'.phase = page.phase /\ page'.locked = page.locked
        /\ page'.built = page.built /\ page'.shares = page.shares
        /\ page'.named = page.named /\ page'.mint = page.mint
        /\ page'.rows = page.rows /\ page'.rate = page.rate /\ page'.details = page.details
        /\ page'.uri = page.uri /\ page'.signed = page.signed /\ page'.n = page.n
    BY <2>2 DEF PageInv, TypeOK, Pages
  <2>4. FormKept' /\ PinCurrent' /\ BuildCurrent'
    BY <2>1, <2>3 DEF PageInv, FormKept, AsShown, Shown, PinCurrent, BuildCurrent
  <2>5. SignedWell' /\ WaitsForSplit'
    BY <1>1, <2>1, <2>3 DEF PageInv, SignedWell, Approving, WaitsForSplit
  <2> QED
    BY <2>1, <2>3, <2>4, <2>5 DEF PageInv, TypeOK
<1>2. CASE page.phase = "draft"
  <2>1. page' = Invalidated(page) /\ request' = Outdated /\ UNCHANGED <<coin, tx>>
    BY <1>2 DEF TooOld
  <2>2. page' \in Pages /\ page'.uri = page.uri /\ page'.details = page.details
    BY <2>1 DEF Invalidated, PageInv, TypeOK, Pages
  <2> QED
    BY <1>2, <2>1, <2>2, FormChanges DEF Invalidated, PageInv, TypeOK, Pages, FormKept
<1> QED
  BY <1>1, <1>2 DEF TooOld

\* An unlocked page with nothing built asks something about the form as it is.
LEMMA AskedKept ==
    ASSUME PageInv, UNCHANGED <<coin, tx>>, ~page.locked, page' = Invalidated(page),
           request' \in [pin : Pins \cup {None}, build : Builds \cup {None}],
           PinCurrent', BuildCurrent'
    PROVE  PageInv'
<1>1. page' \in Pages
  BY DEF Invalidated, PageInv, TypeOK, Pages
<1>2. /\ page'.phase = page.phase /\ page'.locked = page.locked /\ ~page'.built
      /\ page'.uri = page.uri /\ page'.details = page.details /\ page'.signed = page.signed
      /\ page'.n = page.n
  BY DEF Invalidated, PageInv, TypeOK, Pages
<1>3. TypeOK' /\ FormKept'
  BY <1>1, <1>2 DEF PageInv, TypeOK, FormKept
<1>4. SignedWell'
  BY <1>2 DEF PageInv, SignedWell, Approving
<1>5. WaitsForSplit'
  BY <1>2 DEF PageInv, FormKept, WaitsForSplit
<1> QED
  BY <1>3, <1>4, <1>5 DEF PageInv

\* An upload is asked of the details as they are.
LEMMA PinKept == ASSUME PageInv, Pin PROVE PageInv'
<1> DEFINE asked == [details |-> page.details, current |-> TRUE]
<1>1. /\ UNCHANGED <<coin, tx>> /\ ~page.locked /\ page' = Invalidated(page)
      /\ request' = [Outdated EXCEPT !["pin"] = asked]
  BY DEF Pin, Asks
<1>2. asked \in Pins
  BY DEF PageInv, TypeOK, Pages, Pins
<1>3. /\ request' \in [pin : Pins \cup {None}, build : Builds \cup {None}]
      /\ request'.pin = asked /\ request'.build = Outdated.build
  BY <1>1, <1>2, OutdatedFacts DEF PageInv
<1>4. page'.details = page.details
  BY <1>1 DEF Invalidated, PageInv, TypeOK, Pages
<1>5. PinCurrent'
  BY <1>3, <1>4 DEF PinCurrent
<1>6. BuildCurrent'
  BY <1>3, OutdatedFacts DEF PageInv, BuildCurrent
<1> QED
  BY <1>1, <1>3, <1>5, <1>6, AskedKept

\* A build is asked of the rows and the details as they are.
LEMMA BuildKept == ASSUME PageInv, Build PROVE PageInv'
<1> DEFINE asked == [shares |-> Shown, uri |-> page.uri, mint |-> None, current |-> TRUE]
<1>1. /\ UNCHANGED <<coin, tx>> /\ ~page.locked /\ page' = Invalidated(page)
      /\ request' = [Outdated EXCEPT !["build"] = asked] /\ page.uri # None
  BY DEF Build, Asks
<1>2. page.uri = page.details
  BY <1>1 DEF PageInv, FormKept
<1>3. Shown \in Splits
  BY DEF Shown, Splits, PageInv, TypeOK, Pages
<1>4. asked \in Builds
  BY <1>2, <1>3 DEF PageInv, TypeOK, Pages, Builds
<1>5. /\ request' \in [pin : Pins \cup {None}, build : Builds \cup {None}]
      /\ request'.build = asked /\ request'.pin = Outdated.pin
  BY <1>1, <1>4, OutdatedFacts DEF PageInv
<1>6. /\ page'.details = page.details /\ page'.locked = page.locked /\ ~page'.built
      /\ page'.rows = page.rows /\ page'.rate = page.rate
  BY <1>1 DEF Invalidated, PageInv, TypeOK, Pages
<1>7. BuildCurrent'
  BY <1>1, <1>2, <1>5, <1>6 DEF BuildCurrent, Shown
<1>8. PinCurrent'
  BY <1>5, OutdatedFacts DEF PageInv, PinCurrent
<1> QED
  BY <1>1, <1>5, <1>7, <1>8, AskedKept

\* One request answered or moved on leaves the other as it was.
LEMMA RequestFacts ==
    ASSUME TypeOK
    PROVE  /\ \A what \in Pins \cup {None} :
                LET new == [request EXCEPT !.pin = what] IN
                /\ new \in [pin : Pins \cup {None}, build : Builds \cup {None}]
                /\ new.pin = what /\ new.build = request.build
           /\ \A what \in Builds \cup {None} :
                LET new == [request EXCEPT !.build = what] IN
                /\ new \in [pin : Pins \cup {None}, build : Builds \cup {None}]
                /\ new.build = what /\ new.pin = request.pin
BY DEF TypeOK

\* An upload that ends counts only for the details it was asked for.
LEMMA PinnedKept == ASSUME PageInv, Pinned PROVE PageInv'
<1>1. /\ UNCHANGED <<coin, tx>> /\ request.pin # None /\ request' = [request EXCEPT !.pin = None]
  BY DEF Pinned, Ends
<1>2. /\ request' \in [pin : Pins \cup {None}, build : Builds \cup {None}]
      /\ request'.pin = None /\ request'.build = request.build
  BY <1>1, RequestFacts DEF PageInv
<1>3. /\ page' \in Pages /\ page'.phase = page.phase /\ page'.locked = page.locked
      /\ page'.built = page.built /\ page'.shares = page.shares
      /\ page'.named = page.named /\ page'.mint = page.mint
      /\ page'.rows = page.rows /\ page'.rate = page.rate /\ page'.details = page.details
      /\ page'.signed = page.signed /\ page'.sent = page.sent /\ page'.n = page.n
      /\ page'.uri # None => page'.uri = page.details
  <2>1. CASE request.pin.current
    <3>1. page' = [page EXCEPT !.uri = request.pin.details] /\ request.pin.details = page.details
      BY <1>1, <2>1 DEF Pinned, PageInv, PinCurrent
    <3> QED
      BY <3>1 DEF PageInv, TypeOK, Pages
  <2>2. CASE ~request.pin.current
    <3>1. page' = page
      BY <2>2 DEF Pinned
    <3> QED
      BY <3>1 DEF PageInv, TypeOK, FormKept
  <2> QED
    BY <2>1, <2>2
<1>4. FormKept' /\ PinCurrent' /\ BuildCurrent'
  BY <1>2, <1>3 DEF PageInv, FormKept, AsShown, Shown, PinCurrent, BuildCurrent
<1>5. SignedWell' /\ WaitsForSplit'
  BY <1>1, <1>3 DEF PageInv, SignedWell, Approving, WaitsForSplit
<1> QED
  BY <1>1, <1>2, <1>3, <1>4, <1>5 DEF PageInv, TypeOK

\* The end of a request alone.
LEMMA EndsKept ==
    ASSUME PageInv, NEW kind \in {"pin", "build"}, Ends(kind), UNCHANGED <<coin, tx, page>>
    PROVE  PageInv'
<1>1. request' \in [pin : Pins \cup {None}, build : Builds \cup {None}]
  BY DEF Ends, PageInv, TypeOK
<1>2. /\ request'.pin \in {request.pin, None}
      /\ request'.build \in {request.build, None}
  BY DEF Ends, PageInv, TypeOK
<1>3. PinCurrent' /\ BuildCurrent'
  BY <1>2 DEF PageInv, PinCurrent, BuildCurrent, Shown
<1>4. FormKept' /\ SignedWell' /\ WaitsForSplit'
  BY DEF PageInv, FormKept, AsShown, Shown, SignedWell, Approving, WaitsForSplit
<1> QED
  BY <1>1, <1>3, <1>4 DEF PageInv, TypeOK

\* The server answers only for a split it accepts.
LEMMA AnswersKept == ASSUME PageInv, Answers PROVE PageInv'
<1> DEFINE mint == Pool[Min(Unused)]
           answered == [request.build EXCEPT !.mint = mint]
<1>1. /\ UNCHANGED <<coin, tx, page>> /\ request.build # None /\ Accepts(request.build.shares)
      /\ request' = [request EXCEPT !.build.mint = mint] /\ mint \in Mints
  BY HandedOutIsInPool DEF Answers, Asked
<1>2. request.build \in Builds
  BY <1>1 DEF PageInv, TypeOK
<1>3. answered \in Builds
  BY <1>1, <1>2 DEF Builds
<1>4. /\ request' \in [pin : Pins \cup {None}, build : Builds \cup {None}]
      /\ request'.build = answered /\ request'.pin = request.pin
  BY <1>1, <1>3, RequestFacts DEF PageInv, TypeOK
<1>5. /\ answered.shares = request.build.shares /\ answered.uri = request.build.uri
      /\ answered.current = request.build.current
  BY <1>2 DEF Builds
<1>6. PinCurrent' /\ BuildCurrent'
  BY <1>1, <1>4, <1>5 DEF PageInv, PinCurrent, BuildCurrent, Shown
<1>7. FormKept' /\ SignedWell' /\ WaitsForSplit'
  BY <1>1 DEF PageInv, FormKept, AsShown, Shown, SignedWell, Approving, WaitsForSplit
<1> QED
  BY <1>1, <1>4, <1>6, <1>7 DEF PageInv, TypeOK

\* An answer counts only for the form it was asked for.
LEMMA ArrivesKept == ASSUME PageInv, Arrives PROVE PageInv'
<1>1. /\ UNCHANGED <<coin, tx>> /\ request.build # None /\ request.build.mint # None
      /\ request' = [request EXCEPT !.build = None]
  BY DEF Arrives, Asked, Ends
<1>2. /\ request' \in [pin : Pins \cup {None}, build : Builds \cup {None}]
      /\ request'.build = None /\ request'.pin = request.pin
  BY <1>1, RequestFacts DEF PageInv
<1>3. CASE ~StillAsked
  <2>1. UNCHANGED <<coin, tx, page>>
    BY <1>1, <1>3 DEF Arrives
  <2> QED
    BY <1>1, <2>1, EndsKept DEF Ends
<1>4. CASE StillAsked
  <2>1. page' = [page EXCEPT !.built = TRUE, !.shares = request.build.shares,
                             !.named = request.build.uri, !.mint = request.build.mint]
    BY <1>4 DEF Arrives, Asked
  <2>2. /\ request.build \in Builds /\ ~page.locked /\ request.build.shares = Shown
        /\ request.build.uri = page.details /\ Accepts(request.build.shares)
    BY <1>1, <1>4 DEF StillAsked, Asked, PageInv, TypeOK, BuildCurrent
  <2>3. /\ page' \in Pages /\ page'.phase = page.phase /\ page'.locked = page.locked
        /\ page'.shares = request.build.shares /\ page'.named = page.details
        /\ page'.mint = request.build.mint /\ page'.uri = page.uri
        /\ page'.rows = page.rows /\ page'.rate = page.rate /\ page'.details = page.details
        /\ page'.signed = page.signed /\ page'.n = page.n
    BY <2>1, <2>2 DEF PageInv, TypeOK, Pages, Builds
  <2>4. page'.mint \in Mints /\ page'.mint # None
    BY <1>1, <2>2, <2>3 DEF Builds
  <2>5. FormKept'
    BY <2>2, <2>3, <2>4 DEF PageInv, FormKept, AsShown, Shown
  <2>6. PinCurrent' /\ BuildCurrent'
    BY <1>2, <2>3 DEF PageInv, PinCurrent, BuildCurrent
  <2>7. SignedWell'
    BY <1>1, <2>3 DEF PageInv, SignedWell, Approving
  <2>8. WaitsForSplit'
    BY <1>1, <2>2, <2>3 DEF PageInv, FormKept, WaitsForSplit
  <2> QED
    BY <1>1, <1>2, <2>3, <2>5, <2>6, <2>7, <2>8 DEF PageInv, TypeOK
<1> QED
  BY <1>3, <1>4

\* What the server does.
LEMMA ServerKept == ASSUME PageInv, Server PROVE PageInv'
<1>1. CASE PinFails
  BY <1>1, EndsKept DEF PinFails
<1>2. CASE BuildFails
  BY <1>2, EndsKept DEF BuildFails
<1> QED
  BY <1>1, <1>2, PinnedKept, AnswersKept, ArrivesKept DEF Server

--------------------------------------------------------------------------------
(* From the first approval on. *)

KeepsForm ==
    /\ page'.rows = page.rows /\ page'.rate = page.rate /\ page'.details = page.details
    /\ page'.uri = page.uri /\ page'.shares = page.shares /\ page'.named = page.named
Asking == UNCHANGED request
PageOK == FormKept /\ PinCurrent /\ BuildCurrent

\* A locked page that goes on is about the same coin and the same split.
LEMMA LockedKept ==
    ASSUME PageInv, page.locked, KeepsForm, Asking, page'.locked, page'.phase # "draft",
           page'.mint = page.mint
    PROVE  PageOK'
BY DEF PageInv, PageOK, KeepsForm, Asking, FormKept, AsShown, Shown, PinCurrent, BuildCurrent

\* A page back in the draft has nothing built and nothing asked.
LEMMA DraftKept ==
    ASSUME PageInv, page.locked, KeepsForm, Asking, ~page'.locked, page'.phase = "draft",
           ~page'.built
    PROVE  PageOK'
BY DEF PageInv, PageOK, KeepsForm, Asking, FormKept, PinCurrent, BuildCurrent

\* What is signed is the coin and the split of the page.
LEMMA TransactionFacts ==
    ASSUME PageInv, page.locked, NEW by \in {"page", "wallet"}
    PROVE  LET t == Transaction(by) IN
           /\ t \in Sends /\ Accepts(t.split) /\ t.n = page.n /\ t.by = by
           /\ t.mint = page.mint /\ t.split = page.shares /\ (Second => t.kind = "split")
<1>1. page.mint \in Mints /\ Accepts(page.shares) /\ page.n \in Nat
  BY DEF PageInv, FormKept, AsShown, TypeOK, Pages
<1>2. page.shares \in Splits
  BY DEF PageInv, FormKept, AsShown, Shown, Splits, TypeOK, Pages
<1> QED
  BY <1>1, <1>2 DEF Transaction, Sends

\* A transaction is handed on, or nothing is.
Handed(t) == UNCHANGED tx \/ \E status \in {"signed", "flying"} : Becomes(t, status)
SentOK == SignedWell /\ DOMAIN tx \subseteq Sends /\ tx \in [DOMAIN tx -> Statuses]

\* What is handed on was accepted, and is the page's own while it still approves.
LEMMA HandedKept ==
    ASSUME PageInv, NEW t \in Sends, Handed(t), UNCHANGED coin, Accepts(t.split), t.n <= page.n,
           t.by = "page" \/ ~Approving', Approving' => Approving, page'.n = page.n
    PROVE  SentOK' /\ DOMAIN tx \subseteq DOMAIN tx'
<1>1. CASE UNCHANGED tx
  BY <1>1 DEF PageInv, TypeOK, SentOK, SignedWell
<1>2. ASSUME NEW status \in {"signed", "flying"}, Becomes(t, status)
      PROVE  SentOK' /\ DOMAIN tx \subseteq DOMAIN tx'
  <2>1. /\ DOMAIN tx' = DOMAIN tx \cup {t} /\ DOMAIN tx' \subseteq Sends
        /\ tx' \in [DOMAIN tx' -> Statuses]
        /\ tx'[t] = status /\ \A s \in DOMAIN tx \ {t} : tx'[s] = tx[s]
    BY <1>2, OneBecomes DEF PageInv, Statuses
  <2>2. SignedWell'
    BY <2>1 DEF PageInv, SignedWell
  <2> QED
    BY <2>1, <2>2 DEF SentOK
<1> QED
  BY <1>1, <1>2 DEF Handed

\* A relay hands on, or does nothing.
LEMMA FliesIsHanded == ASSUME NEW t, Flies(t) PROVE Handed(t)
BY DEF Flies, Handed

\* With no transaction handed on.
LEMMA UnsentKept ==
    ASSUME PageInv, UNCHANGED <<coin, tx>>, Approving' => Approving, page'.n = page.n
    PROVE  SentOK'
BY DEF PageInv, TypeOK, SentOK, SignedWell

\* The parts of the invariant, for a step that leaves the coins alone.
LEMMA Together ==
    ASSUME PageInv, UNCHANGED coin, Asking, page' \in Pages, PageOK', SentOK', WaitsForSplit'
    PROVE  PageInv'
BY DEF PageInv, TypeOK, Asking, PageOK, SentOK

\* The first approval locks the form, the second finds it locked; both count.
LEMMA SendKept == ASSUME PageInv, Send PROVE PageInv'
<1>1. /\ UNCHANGED <<coin, tx, request>> /\ page.phase \in {"draft", "review2"}
      /\ page.built \/ page.locked
  BY DEF Send, PageInv, FormKept
<1>2. /\ page' \in Pages /\ page'.phase \in {"approving1", "approving2"} /\ page'.locked
      /\ page'.mint = page.mint /\ KeepsForm /\ page'.signed = None
      /\ page'.n = page.n + 1
  <2> DEFINE next == IF page.phase = "draft" THEN "approving1" ELSE "approving2"
             p == [page EXCEPT !.phase = next, !.locked = TRUE, !.n = page.n + 1]
  <2>1. page \in Pages /\ page.n + 1 \in Nat /\ next \in {"approving1", "approving2"}
    BY DEF PageInv, TypeOK, Pages
  <2>2. page' = [p EXCEPT !.tries = 0, !.signed = None, !.sent = None]
    BY <2>1 DEF Send, Pages
  <2> HIDE DEF next
  <2>3. /\ p \in Pages /\ p.phase = next /\ p.locked /\ p.n = page.n + 1 /\ p.mint = page.mint
        /\ p.rows = page.rows /\ p.rate = page.rate /\ p.details = page.details
        /\ p.uri = page.uri /\ p.shares = page.shares /\ p.named = page.named
    <3> DEFINE r == [page EXCEPT !.phase = next, !.locked = TRUE]
    <3>1. r \in Pages
      BY <2>1, ZenonT(60) DEF Pages, Phases
    <3>2. p = [r EXCEPT !.n = page.n + 1]
      BY <2>1 DEF Pages
    <3>3. /\ r.phase = next /\ r.locked /\ r.mint = page.mint
          /\ r.rows = page.rows /\ r.rate = page.rate /\ r.details = page.details
          /\ r.uri = page.uri /\ r.shares = page.shares /\ r.named = page.named
      BY <2>1 DEF Pages
    <3> HIDE DEF r, p
    <3> QED
      BY <2>1, <3>1, <3>2, <3>3 DEF Pages
  <2> HIDE DEF p
  <2>4. page' \in Pages
    <3> DEFINE q == [p EXCEPT !.signed = None, !.sent = None]
    <3>1. q \in Pages
      BY <2>3 DEF Pages
    <3>2. page' = [q EXCEPT !.tries = 0]
      BY <2>2, <2>3 DEF Pages
    <3> HIDE DEF q
    <3> QED
      BY <3>1, <3>2 DEF Pages
  <2>5. /\ page'.phase = next /\ page'.locked /\ page'.signed = None /\ page'.n = page.n + 1
        /\ page'.mint = page.mint /\ KeepsForm
    BY <2>2, <2>3 DEF Pages, KeepsForm
  <2> QED
    BY <2>1, <2>4, <2>5
<1>3. PageOK'
  BY <1>1, <1>2 DEF PageInv, PageOK, KeepsForm, FormKept, AsShown, Shown, PinCurrent, BuildCurrent
<1>4. SentOK'
  <2>1. \A t \in DOMAIN tx : t.n \in Nat /\ t.n <= page.n /\ page.n \in Nat
    BY DEF PageInv, SignedWell, TypeOK, Sends, Pages
  <2> QED
    BY <1>1, <1>2, <2>1 DEF PageInv, TypeOK, SentOK, SignedWell
<1>5. WaitsForSplit'
  BY <1>2 DEF WaitsForSplit
<1> QED
  BY <1>1, <1>2, <1>3, <1>4, <1>5, Together DEF Asking

\* A page that approves or waits is locked.
LEMMA ApprovingIsLocked == ASSUME PageInv, Approving \/ Waiting PROVE page.locked
BY DEF PageInv, FormKept, Approving, Waiting

\* The wallet signs what the page built.
LEMMA SignsKept == ASSUME PageInv, Signs PROVE PageInv'
<1> DEFINE t == Transaction("page")
<1>1. /\ UNCHANGED <<coin, page, request>> /\ Handed(t) /\ Approving
  BY DEF Signs, Handed
<1>2. page.locked
  BY <1>1, ApprovingIsLocked
<1>3. SentOK'
  <2>1. t \in Sends /\ Accepts(t.split) /\ t.n <= page.n /\ t.by = "page"
    BY <1>2, TransactionFacts DEF PageInv, TypeOK, Pages
  <2> QED
    BY <1>1, <2>1, HandedKept DEF Approving
<1>4. WaitsForSplit'
  <2>1. DOMAIN tx' = DOMAIN tx \cup {t}
    BY DEF Signs, Becomes
  <2> QED
    BY <1>1, <2>1 DEF PageInv, WaitsForSplit, Approving
<1>5. PageOK' /\ page' \in Pages
  BY <1>1 DEF PageInv, PageOK, TypeOK, FormKept, AsShown, Shown, PinCurrent, BuildCurrent
<1> QED
  BY <1>1, <1>3, <1>4, <1>5, Together DEF Asking

\* A page that waits, waits for what it showed.
LEMMA WaitsKept ==
    ASSUME PageInv, Approving, NEW by \in {"page", "wallet"}, NEW signed \in Sends \cup {None},
           page' = [Waits(Transaction(by)) EXCEPT !.signed = signed], Asking, UNCHANGED coin,
           Handed(Transaction(by)), Transaction(by) \in DOMAIN tx',
           signed \in {None, page.signed, Transaction(by)}
    PROVE  PageInv'
<1> DEFINE t == Transaction(by)
<1>1. page.locked
  BY ApprovingIsLocked
<1>2. /\ t \in Sends /\ Accepts(t.split) /\ t.n = page.n /\ page.n \in Nat
      /\ t.mint = page.mint /\ t.split = page.shares /\ (Second => t.kind = "split")
  BY <1>1, TransactionFacts DEF PageInv, TypeOK, Pages
<1>3. /\ page' \in Pages /\ page'.phase \in {"wait1", "wait2"}
      /\ page'.phase = "wait2" => Second
      /\ page'.locked = page.locked /\ page'.mint = page.mint /\ KeepsForm
      /\ page'.sent = t /\ page'.signed = signed /\ page'.n = page.n
      /\ page'.shares = page.shares
  <2> DEFINE next == IF Second THEN "wait2" ELSE "wait1"
  <2>1. page \in Pages /\ next \in {"wait1", "wait2"} /\ (next = "wait2" => Second)
    BY DEF PageInv, TypeOK
  <2>2. page' = [page EXCEPT !.phase = next, !.sent = t, !.seen = "null", !.signed = signed]
    BY <2>1 DEF Waits, Pages
  <2> HIDE DEF next, t
  <2>3. page' \in Pages
    <3> DEFINE r == [page EXCEPT !.phase = next, !.seen = "null"]
    <3>1. r \in Pages
      BY <2>1, ZenonT(60) DEF Pages, Phases
    <3>2. page' = [r EXCEPT !.sent = t, !.signed = signed]
      BY <2>1, <2>2 DEF Pages
    <3> HIDE DEF r
    <3> QED
      BY <1>2, <3>1, <3>2, ZenonT(60) DEF Pages
  <2>4. /\ page'.phase = next /\ page'.locked = page.locked /\ page'.sent = t
        /\ page'.signed = signed /\ page'.n = page.n
    BY <2>1, <2>2 DEF Pages
  <2>5. page'.mint = page.mint /\ page'.shares = page.shares /\ KeepsForm
    BY <2>1, <2>2 DEF Pages, KeepsForm
  <2> QED
    BY <2>1, <2>3, <2>4, <2>5
<1>4. PageOK'
  BY <1>1, <1>3, LockedKept
<1>5. SentOK' /\ DOMAIN tx \subseteq DOMAIN tx'
  <2>1. ~Approving'
    BY <1>3 DEF Approving
  <2> QED
    BY <1>2, <1>3, <2>1, HandedKept
<1>6. WaitsForSplit'
  <2> HIDE DEF t
  <2>1. signed \in {None, page.signed, t} /\ t \in DOMAIN tx'
    BY DEF t
  <2>2. page'.signed # None => page'.signed \in DOMAIN tx'
    BY <1>3, <1>5, <2>1 DEF PageInv, WaitsForSplit
  <2>3. page'.phase = "wait2" => t.kind = "split" /\ t.mint = page'.mint /\ t.split = page'.shares
    BY <1>2, <1>3
  <2>4. page'.phase # "done"
    BY <1>3
  <2> QED
    BY <1>3, <2>1, <2>2, <2>3, <2>4 DEF WaitsForSplit
<1> QED
  BY <1>3, <1>4, <1>5, <1>6, Together

\* A page that stops waiting for the wallet, its transactions as they were or handed on.
LEMMA GoesBackKept ==
    ASSUME PageInv, page.locked, UNCHANGED coin, Asking, SentOK', DOMAIN tx \subseteq DOMAIN tx',
           page' \in {BackToReview(page), BackToReview([page EXCEPT !.sent = None])}
           \/ (page' = BackToDraft(page))
    PROVE  PageInv'
<1>1. CASE page' = BackToDraft(page)
  <2>1. page' \in Pages /\ page'.phase = "draft" /\ ~page'.locked /\ ~page'.built /\ KeepsForm
        /\ page'.signed = page.signed
    BY <1>1, ZenonT(60) DEF BackToDraft, Invalidated, PageInv, TypeOK, Pages, Phases, KeepsForm
  <2>2. PageOK'
    BY <2>1, DraftKept
  <2>3. WaitsForSplit'
    BY <2>1 DEF PageInv, WaitsForSplit
  <2> QED
    BY <2>1, <2>2, <2>3, Together
<1>2. CASE page' \in {BackToReview(page), BackToReview([page EXCEPT !.sent = None])}
  <2>1. /\ page' \in Pages /\ page'.phase = "review2" /\ page'.locked = page.locked /\ KeepsForm
        /\ page'.signed = page.signed /\ page'.mint = page.mint
    <3>1. PICK p \in {page, [page EXCEPT !.sent = None]} : page' = BackToReview(p)
      BY <1>2
    <3>2. /\ p \in Pages /\ p.locked = page.locked /\ p.signed = page.signed /\ p.mint = page.mint
          /\ p.rows = page.rows /\ p.rate = page.rate /\ p.details = page.details
          /\ p.uri = page.uri /\ p.shares = page.shares /\ p.named = page.named
      <4>1. page \in Pages
        BY DEF PageInv, TypeOK
      <4>2. CASE p = page
        BY <4>1, <4>2
      <4>3. CASE p = [page EXCEPT !.sent = None]
        BY <4>1, <4>3 DEF Pages
      <4> QED
        BY <4>2, <4>3
    <3>3. page' \in Pages
      BY <3>1, <3>2, ZenonT(60) DEF BackToReview, Pages, Phases
    <3> QED
      BY <3>1, <3>2, <3>3 DEF BackToReview, Pages, KeepsForm
  <2>2. PageOK'
    BY <2>1, LockedKept
  <2>3. WaitsForSplit'
    BY <2>1 DEF PageInv, WaitsForSplit
  <2> QED
    BY <2>1, <2>2, <2>3, Together
<1> QED
  BY <1>1, <1>2

\* A step of a locked page that neither approves nor waits nor is done.
LEMMA StandsKept ==
    ASSUME PageInv, page.locked, UNCHANGED coin, Asking, SentOK', DOMAIN tx \subseteq DOMAIN tx',
           page' \in Pages, page'.locked, page'.phase \notin {"draft", "wait2", "done"},
           page'.mint = page.mint, KeepsForm, page'.signed = page.signed
    PROVE  PageInv'
<1>1. PageOK'
  BY LockedKept
<1>2. WaitsForSplit'
  BY DEF PageInv, WaitsForSplit
<1> QED
  BY <1>1, <1>2, Together

\* A relay that did not answer, or refused.
LEMMA TriesAgainKept ==
    ASSUME PageInv, Approving, NEW tries \in 0 .. 3, page' = [page EXCEPT !.tries = tries],
           Asking, UNCHANGED coin, Handed(Transaction("page"))
    PROVE  PageInv'
<1>1. page.locked
  BY ApprovingIsLocked
<1>2. /\ page' \in Pages /\ page'.locked = page.locked /\ page'.phase = page.phase
      /\ page'.mint = page.mint /\ KeepsForm /\ page'.signed = page.signed
      /\ page'.n = page.n
  BY DEF PageInv, TypeOK, Pages, KeepsForm
<1>3. SentOK' /\ DOMAIN tx \subseteq DOMAIN tx'
  <2> DEFINE t == Transaction("page")
  <2>1. t \in Sends /\ Accepts(t.split) /\ t.n <= page.n /\ t.by = "page"
    BY <1>1, TransactionFacts DEF PageInv, TypeOK, Pages
  <2> QED
    BY <1>2, <2>1, HandedKept DEF Approving
<1> QED
  BY <1>1, <1>2, <1>3, StandsKept DEF Approving

\* A relay that took the transaction.
LEMMA RelayedKept == ASSUME PageInv, Relayed PROVE PageInv'
<1> DEFINE t == Transaction("page")
<1>1. /\ Approving /\ t \in DOMAIN tx /\ Handed(t) /\ UNCHANGED coin /\ Asking
      /\ page' = [Waits(t) EXCEPT !.signed = t]
  BY FliesIsHanded DEF Relayed, Tries, Asking
<1>2. t \in Sends /\ t \in DOMAIN tx'
  BY <1>1 DEF PageInv, TypeOK, Handed, Becomes
<1> QED
  BY <1>1, <1>2, WaitsKept

\* The wallet sends a transaction of its own making.
LEMMA WalletSendsKept == ASSUME PageInv, WalletSends PROVE PageInv'
<1> DEFINE t == Transaction("wallet")
<1>1. Approving /\ Handed(t) /\ UNCHANGED coin /\ Asking /\ t \in DOMAIN tx' /\ page' = Waits(t)
  BY DEF WalletSends, FallsBack, Handed, Becomes, Asking
<1>2. page' = [Waits(t) EXCEPT !.signed = page.signed] /\ page.signed \in Sends \cup {None}
  BY <1>1 DEF Waits, PageInv, TypeOK, Pages
<1> QED
  BY <1>1, <1>2, WaitsKept

\* The dev said no.
LEMMA RejectsKept == ASSUME PageInv, Rejects PROVE PageInv'
<1>1. /\ UNCHANGED <<coin, tx>> /\ Asking /\ Approving
      /\ page' = BackToReview(page) \/ page' = BackToDraft(page)
  BY DEF Rejects, FallsBack, Asking
<1>2. page.locked
  BY <1>1, ApprovingIsLocked
<1>3. SentOK'
  <2>1. page'.n = page.n
    BY <1>1 DEF BackToReview, BackToDraft, Invalidated, PageInv, TypeOK, Pages
  <2> QED
    BY <1>1, <2>1, UnsentKept
<1> QED
  BY <1>1, <1>2, <1>3, GoesBackKept

\* The wallet said nothing.
LEMMA NoResultKept == ASSUME PageInv, NoResult PROVE PageInv'
<1> DEFINE t == Transaction("wallet")
<1>1. /\ UNCHANGED coin /\ Asking /\ Approving /\ page' = [page EXCEPT !.phase = "unknown"]
      /\ Handed(t)
  BY DEF NoResult, FallsBack, Handed, Asking
<1>2. page.locked
  BY <1>1, ApprovingIsLocked
<1>3. /\ page' \in Pages /\ page'.locked = page.locked /\ page'.phase = "unknown"
      /\ page'.mint = page.mint /\ KeepsForm /\ page'.signed = page.signed
      /\ page'.n = page.n
  BY <1>1 DEF PageInv, TypeOK, Pages, Phases, KeepsForm
<1>4. SentOK' /\ DOMAIN tx \subseteq DOMAIN tx'
  <2>1. t \in Sends /\ Accepts(t.split) /\ t.n <= page.n
    BY <1>2, TransactionFacts DEF PageInv, TypeOK, Pages
  <2>2. ~Approving'
    BY <1>3 DEF Approving
  <2> QED
    BY <1>1, <1>3, <2>1, <2>2, HandedKept
<1> QED
  BY <1>1, <1>2, <1>3, <1>4, StandsKept

\* What the wallet and the relay do.
LEMMA WalletKept == ASSUME PageInv, Wallet PROVE PageInv'
<1>1. CASE RelayLost
  <2>1. /\ Approving /\ page.tries < 3 /\ Asking /\ UNCHANGED coin
        /\ page' = [page EXCEPT !.tries = @ + 1] /\ Handed(Transaction("page"))
    BY <1>1, FliesIsHanded DEF RelayLost, Tries, Handed, Asking
  <2>2. page.tries + 1 \in 0 .. 3 /\ page' = [page EXCEPT !.tries = page.tries + 1]
    BY <2>1 DEF PageInv, TypeOK, Pages
  <2> QED
    BY <2>1, <2>2, TriesAgainKept
<1>2. CASE RelayRefuses
  BY <1>2, TriesAgainKept DEF RelayRefuses, Tries, Handed, Asking
<1> QED
  BY <1>1, <1>2, SignsKept, RelayedKept, WalletSendsKept, RejectsKept, NoResultKept DEF Wallet

--------------------------------------------------------------------------------
(* The wait, and the split after it. *)

\* What a page has looked at changes nothing it stands for.
LEMMA LooksKept ==
    ASSUME PageInv, UNCHANGED coin, Asking, SentOK', DOMAIN tx \subseteq DOMAIN tx',
           page.phase = "done" => UNCHANGED tx,
           NEW seen \in {"null", "no", "yes"}, NEW again \in BOOLEAN,
           page' = [page EXCEPT !.seen = seen, !.again = again]
    PROVE  PageInv'
<1>1. page \in Pages
  BY DEF PageInv, TypeOK
<1>2. /\ page' \in Pages /\ page'.phase = page.phase /\ page'.locked = page.locked
      /\ page'.built = page.built /\ page'.mint = page.mint /\ KeepsForm
      /\ page'.signed = page.signed /\ page'.sent = page.sent
  BY <1>1 DEF Pages, KeepsForm
<1>3. PageOK'
  BY <1>2 DEF PageInv, PageOK, KeepsForm, Asking, FormKept, AsShown, Shown, PinCurrent, BuildCurrent
<1>4. WaitsForSplit'
  BY <1>2 DEF PageInv, WaitsForSplit, KeepsForm
<1> QED
  BY <1>2, <1>3, <1>4, Together

\* A split that is simulated, or is not, is the split of the same coin.
LEMMA PrepareKept ==
    ASSUME PageInv, page.locked, UNCHANGED <<coin, tx>>, Asking, NEW ok \in BOOLEAN,
           NEW p \in {[page EXCEPT !.sent = None], [page EXCEPT !.again = FALSE]},
           PrepareSplit(p, ok)
    PROVE  PageInv'
<1>1. page \in Pages
  BY DEF PageInv, TypeOK
<1>2. /\ p \in Pages /\ p.locked = page.locked /\ p.signed = page.signed /\ p.mint = page.mint
      /\ p.rows = page.rows /\ p.rate = page.rate /\ p.details = page.details
      /\ p.uri = page.uri /\ p.shares = page.shares /\ p.named = page.named /\ p.n = page.n
  <2>1. CASE p = [page EXCEPT !.sent = None]
    BY <1>1, <2>1 DEF Pages
  <2>2. CASE p = [page EXCEPT !.again = FALSE]
    BY <1>1, <2>2 DEF Pages
  <2> QED
    BY <2>1, <2>2
<1>3. /\ page' \in Pages /\ page'.phase = "review2" /\ page'.locked = page.locked /\ KeepsForm
      /\ page'.signed = page.signed /\ page'.mint = page.mint /\ page'.n = page.n
  <2>1. CASE ok
    <3>1. page' = [p EXCEPT !.phase = "review2", !.enroll = TRUE]
      BY <2>1 DEF PrepareSplit
    <3>2. page' \in Pages
      BY <1>2, <3>1, ZenonT(60) DEF Pages, Phases
    <3> QED
      BY <1>2, <3>1, <3>2 DEF Pages, KeepsForm
  <2>2. CASE ~ok
    <3>1. page' = BackToReview(p)
      BY <2>2 DEF PrepareSplit
    <3>2. page' \in Pages
      BY <1>2, <3>1, ZenonT(60) DEF BackToReview, Pages, Phases
    <3> QED
      BY <1>2, <3>1, <3>2 DEF BackToReview, Pages, KeepsForm
  <2> QED
    BY <2>1, <2>2
<1>4. SentOK'
  <2>1. ~Approving'
    BY <1>3 DEF Approving
  <2> QED
    BY <1>3, <2>1, UnsentKept
<1> QED
  BY <1>3, <1>4, StandsKept

\* A status that says nothing yet; the same bytes are handed on again.
LEMMA ReadsNothingKept == ASSUME PageInv, ReadsNothing PROVE PageInv'
<1>1. Waiting /\ UNCHANGED coin /\ Asking
  BY DEF ReadsNothing, Reading, Asking
<1>2. PICK seen \in {"no", "yes"} : page' = [page EXCEPT !.seen = seen]
  BY DEF ReadsNothing
<1>3. page \in Pages
  BY DEF PageInv, TypeOK
<1>4. /\ page' = [page EXCEPT !.seen = seen, !.again = page.again]
      /\ page'.phase = page.phase /\ page'.n = page.n
  BY <1>2, <1>3 DEF Pages
<1>5. ~Approving' /\ page.phase # "done"
  BY <1>1, <1>4 DEF Waiting, Approving
<1>6. SentOK' /\ DOMAIN tx \subseteq DOMAIN tx'
  <2>1. CASE page.signed = None
    BY <1>1, <1>4, <1>5, <2>1, UnsentKept DEF ReadsNothing
  <2>2. CASE page.signed # None
    <3>1. /\ page.signed \in Sends /\ Handed(page.signed)
          /\ Accepts(page.signed.split) /\ page.signed.n <= page.n
      BY <2>2, FliesIsHanded DEF ReadsNothing, PageInv, WaitsForSplit, SignedWell, TypeOK
    <3> QED
      BY <1>1, <1>4, <1>5, <3>1, HandedKept
  <2> QED
    BY <2>1, <2>2
<1> QED
  BY <1>1, <1>3, <1>4, <1>5, <1>6, LooksKept DEF Pages

\* `Confirmed' is read off the transaction the page waits for.
LEMMA DoneKept == ASSUME PageInv, Done PROVE PageInv'
<1>1. /\ UNCHANGED <<coin, tx>> /\ Asking /\ page.phase = "wait2" /\ tx[page.sent] = "landed"
      /\ page' = [page EXCEPT !.phase = "done", !.again = FALSE]
  BY DEF Done, Reading, Waiting, Second, SplitLanded, Landed, Status, Asking
<1>2. page.locked /\ page \in Pages
  BY <1>1, ApprovingIsLocked DEF Waiting, PageInv, TypeOK
<1>3. /\ page' \in Pages /\ page'.phase = "done" /\ page'.locked = page.locked /\ KeepsForm
      /\ page'.mint = page.mint /\ page'.signed = page.signed /\ page'.sent = page.sent
      /\ page'.n = page.n
  BY <1>1, <1>2, ZenonT(60) DEF Pages, Phases, KeepsForm
<1>4. PageOK'
  BY <1>1, <1>2, <1>3, LockedKept
<1>5. SentOK'
  BY <1>1, <1>3, UnsentKept DEF Approving
<1>6. WaitsForSplit'
  BY <1>1, <1>3 DEF PageInv, WaitsForSplit, KeepsForm
<1> QED
  BY <1>1, <1>3, <1>4, <1>5, <1>6, Together

\* The wait is over without a confirmation.
LEMMA BackKept ==
    ASSUME PageInv, Waiting, UNCHANGED <<coin, tx>>, Asking,
           page' = BackToDraft(page) \/ page' = BackToReview([page EXCEPT !.sent = None])
    PROVE  PageInv'
<1>1. page.locked /\ page \in Pages
  BY ApprovingIsLocked DEF PageInv, TypeOK
<1>2. page'.n = page.n /\ page'.phase \in {"draft", "review2"}
  <2>1. CASE page' = BackToDraft(page)
    BY <1>1, <2>1 DEF BackToDraft, Invalidated, Pages
  <2>2. CASE page' = BackToReview([page EXCEPT !.sent = None])
    BY <1>1, <2>2 DEF BackToReview, Pages
  <2> QED
    BY <2>1, <2>2
<1>3. SentOK'
  BY <1>2, UnsentKept DEF Approving
<1> QED
  BY <1>1, <1>3, GoesBackKept

\* What ends a wait.
LEMMA WaitKept == ASSUME PageInv, Wait PROVE PageInv'
<1>1. CASE CoinConfirmed
  <2>1. Waiting /\ UNCHANGED <<coin, tx>> /\ Asking
    BY <1>1 DEF CoinConfirmed, Reading, Asking
  <2>2. PICK ok \in BOOLEAN : PrepareSplit([page EXCEPT !.sent = None], ok)
    BY <1>1 DEF CoinConfirmed
  <2> QED
    BY <2>1, <2>2, ApprovingIsLocked, PrepareKept
<1>2. CASE Fails
  BY <1>2, BackKept DEF Fails, Reading, Asking
<1>3. CASE Dropped
  <2>1. Waiting /\ UNCHANGED <<coin, tx>> /\ Asking
    BY <1>3 DEF Dropped, Over, Reading, Asking
  <2>2. CASE Second
    <3>1. PICK ok \in BOOLEAN : PrepareSplit([page EXCEPT !.sent = None], ok)
      BY <1>3, <2>2 DEF Dropped
    <3> QED
      BY <2>1, <3>1, ApprovingIsLocked, PrepareKept
  <2>3. CASE ~Second
    <3>1. page' = BackToDraft(page)
      BY <1>3, <2>3 DEF Dropped
    <3> QED
      BY <2>1, <3>1, BackKept
  <2> QED
    BY <2>2, <2>3
<1>4. CASE StaysUnknown
  <2>1. /\ UNCHANGED <<coin, tx>> /\ Asking /\ page' = [page EXCEPT !.again = TRUE]
        /\ page \in Pages
    BY <1>4 DEF StaysUnknown, Asking, PageInv, TypeOK
  <2>2. /\ page' = [page EXCEPT !.seen = page.seen, !.again = TRUE]
        /\ page.seen \in {"null", "no", "yes"} /\ page'.n = page.n /\ page'.phase = page.phase
    BY <2>1 DEF Pages
  <2>3. SentOK'
    BY <2>1, <2>2, UnsentKept DEF Approving
  <2> QED
    BY <2>1, <2>2, <2>3, LooksKept
<1> QED
  BY <1>1, <1>2, <1>3, <1>4, DoneKept DEF Wait

\* `Check again': the split is simulated anew, or the wait goes on.
LEMMA CheckAgainKept == ASSUME PageInv, CheckAgain PROVE PageInv'
<1>1. UNCHANGED <<coin, tx>> /\ Asking
  BY DEF CheckAgain, Asking
<1>2. CASE page.phase = "review2"
  <2>1. PICK ok \in BOOLEAN : PrepareSplit([page EXCEPT !.again = FALSE], ok)
    BY <1>2 DEF CheckAgain
  <2>2. page.locked
    BY <1>2 DEF PageInv, FormKept
  <2> QED
    BY <1>1, <2>1, <2>2, PrepareKept
<1>3. CASE page.phase # "review2"
  <2>1. page' = [page EXCEPT !.seen = "null", !.again = FALSE]
    BY <1>3 DEF CheckAgain, PageInv, TypeOK, Pages
  <2>2. page'.n = page.n /\ page'.phase = page.phase
    BY <2>1 DEF PageInv, TypeOK, Pages
  <2>3. SentOK'
    BY <1>1, <2>2, UnsentKept DEF Approving
  <2> QED
    BY <1>1, <2>1, <2>3, LooksKept
<1> QED
  BY <1>2, <1>3

--------------------------------------------------------------------------------

\* Every step keeps the invariant.
LEMMA NextPage == ASSUME PageInv, [Next]_vars PROVE PageInv'
<1>1. CASE Clicks
  BY <1>1, EditsKept, RenamesKept, PinKept, BuildKept, TooOldKept, SendKept, CheckAgainKept
  DEF Clicks
<1>2. CASE UNCHANGED vars
  BY <1>2 DEF vars, PageInv, TypeOK, FormKept, AsShown, Shown, PinCurrent, BuildCurrent,
              SignedWell, Approving, WaitsForSplit
<1> QED
  BY <1>1, <1>2, ChainKept, ServerKept, WalletKept, ReadsNothingKept, WaitKept DEF Next

\* The inductive invariant of the launch door, in every state.
THEOREM PageInvHolds == Spec => []PageInv
<1> QED
  BY InitPage, NextPage, PTL DEF Spec

\* BuiltAsShown: what the page says is built, and what it has the wallet sign, is what
\* its form shows, and names the details uploaded for it (launch_page.py, build and send).
THEOREM SignsWhatIsShown == Spec => []BuiltAsShown
<1>1. PageInv => BuiltAsShown
  BY DEF PageInv, FormKept, AsShown, BuiltAsShown
<1> QED
  BY <1>1, PageInvHolds, PTL

\* CoinTakesItsSplit: nothing is signed for a split that would not enrol the coin
\* (api/launch.py, _build; enroll.py, preflight; invariants.py, protocol_share).
THEOREM OnlyEnrolling == Spec => []CoinTakesItsSplit
<1>1. PageInv => CoinTakesItsSplit
  BY AcceptedEnrols DEF PageInv, SignedWell, CoinTakesItsSplit
<1> QED
  BY <1>1, PageInvHolds, PTL

\* DoneMeansSet: a page that says `Confirmed' is about a coin of this dev that has the
\* split reviewed, and that the protocol counts as enrolled (launch_page.py, done).
THEOREM ConfirmedIsSet == Spec => []DoneMeansSet
<1>1. ASSUME PageInv, page.phase = "done"
      PROVE  /\ coin[page.mint] = [creator |-> Dev, split |-> page.shares]
             /\ ProtocolShare(page.shares)
  <2>1. /\ page.sent \in DOMAIN tx /\ page.sent.kind = "split" /\ tx[page.sent] = "landed"
        /\ page.sent.mint = page.mint /\ page.sent.split = page.shares
    BY <1>1 DEF PageInv, WaitsForSplit
  <2>2. /\ coin[page.sent.mint] = [creator |-> Dev, split |-> page.sent.split]
        /\ Accepts(page.sent.split)
    BY <1>1, <2>1 DEF PageInv, SignedWell
  <2> QED
    BY <2>1, <2>2, AcceptedEnrols
<1>2. PageInv => DoneMeansSet
  BY <1>1 DEF DoneMeansSet
<1> QED
  BY <1>2, PageInvHolds, PTL
===============================================================================
