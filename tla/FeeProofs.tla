------------------------------- MODULE FeeProofs -------------------------------
(***************************************************************************)
(* What both fee programs keep, for any number of coins, wallets and ops   *)
(* addresses, any shares and any rent.                                     *)
(*                                                                         *)
(* FInv is inductive: a distribution or a split is Accepted because every  *)
(* balance is either zero or rent exempt (Solid), and that stays so since  *)
(* what the runtime does not accept does not happen.  The rest is          *)
(* arithmetic: shares that add up to the whole never take more than there  *)
(* is (SharesFit), and what is taken is what lies above the reserve.       *)
(***************************************************************************)
EXTENDS FeePrograms, ArithmeticProofs

\* The derived addresses differ from one another.
LEMMA Distinct ==
  ASSUME NEW m \in Coins, NEW n \in Coins
  PROVE  /\ Collector(m) # BurnPool(n) /\ Collector(m) # CharliePool /\ BurnPool(m) # CharliePool
         /\ Vault(m) # BurnVault(n) /\ Vault(m) # CharliePool
         /\ Collector(m) # Vault(n) /\ Collector(m) # BurnVault(n)
         /\ {Collector(m), BurnPool(m), Vault(m), BurnVault(m), CharliePool} \subseteq Derived
<1>1. "collect" # "burn" /\ "collect" # "charlie" /\ "burn" # "charlie"
      /\ "vault" # "burn vault" /\ "vault" # "charlie" /\ "collect" # "vault" /\ "collect" # "burn vault"
  OBVIOUS
<1>2. \A x, y, u, v : <<x, u>> = <<y, v>> => x = y
  OBVIOUS
<1>3. {Collector(m), BurnPool(m), Vault(m), BurnVault(m), CharliePool} \subseteq Derived
  <2>1. \A seed \in {"collect", "burn", "vault", "burn vault"} : <<seed, m>> \in Derived
    BY DEF Derived
  <2>2. CharliePool \in Derived
    BY DEF Derived
  <2> QED BY <2>1, <2>2 DEF Collector, BurnPool, Vault, BurnVault
<1> QED BY <1>1, <1>2, <1>3 DEF Collector, BurnPool, CharliePool, Vault, BurnVault

--------------------------------------------------------------------------------

\* The legs of a route never take more than the collector can give (split_legs).
LEMMA RouteSharesFit ==
  ASSUME FeeTypeOK, NEW m \in Coins, route[m].open, NEW l \in Nat
  PROVE  /\ route[m] \in Shares
         /\ TollOf(l, route[m]) \in Nat
         /\ \A bps \in {route[m].sol, route[m].own, route[m].ops} : Share(l, bps) \in Nat
         /\ TollOf(l, route[m]) + Share(l, route[m].sol) + Share(l, route[m].own) + Share(l, route[m].ops) <= l
<1>1. route[m] \in Shares
  BY DEF FeeTypeOK, NoRoute
<1>2. /\ route[m].sol \in Nat /\ route[m].own \in Nat /\ route[m].ops \in Nat /\ Toll \in Nat
      /\ route[m].sol + route[m].own + route[m].ops + Toll = Whole
  BY <1>1, RouteAssumption DEF FeeTypeOK, Shares
<1>3. Share(l, route[m].sol) + Share(l, route[m].own) + Share(l, route[m].ops) + Share(l, Toll) <= l
  BY <1>2, SharesFit, WholeAssumption DEF Share
<1>4. /\ Share(l, route[m].sol) \in Nat /\ Share(l, route[m].own) \in Nat
      /\ Share(l, route[m].ops) \in Nat /\ Share(l, Toll) \in Nat
  BY <1>2, ShareFacts, WholeAssumption DEF Share
<1>5. TollOf(l, route[m]) = Share(l, Toll)
  BY DEF TollOf
<1> HIDE DEF TollOf
<1> QED BY <1>1, <1>3, <1>4, <1>5

\* What may be moved lies above the reserve (saturating_sub).
LEMMA AboveNat ==
  ASSUME FeeTypeOK, NEW a \in Accounts
  PROVE  /\ Above(a) \in Nat /\ Above(a) <= lamports[a]
         /\ Above(a) > 0 => lamports[a] - Above(a) = Rent
BY LamportsAssumption DEF FeeTypeOK, Above

\* What a distribution leaves: every account but the collector has at least what
\* it had, the collector its reserve, and the pool of the toll its toll.
LEMMA DistributedBalances ==
  ASSUME FInv, NEW m \in Coins, Ready(m)
  PROVE  /\ Distributed(m) \in [Accounts -> Nat]
         /\ \A a \in Accounts : a # Collector(m) => Distributed(m)[a] >= lamports[a]
         /\ Above(Collector(m)) > 0 => Distributed(m)[Collector(m)] >= Rent
         /\ Above(Collector(m)) = 0 => Distributed(m) = lamports
         /\ \A a \in Accounts : Distributed(m)[a] = lamports[a]
               \/ a \in {Collector(m), BurnPool(m), CharliePool}
               \/ Distributed(m)[a] >= Rent
         /\ Distributed(m)[CharliePool] >= lamports[CharliePool] + TollOf(Above(Collector(m)), route[m])
         /\ Distributed(m)[Collector(m)] >= lamports[Collector(m)] - Above(Collector(m))
<1> DEFINE r == route[m]  l == Above(Collector(m))
           toll == TollOf(l, r)  sol == Share(l, r.sol)  own == Share(l, r.own)
           ops == OpsAmount(Share(l, r.ops), r.address)
<1>1. /\ Collector(m) \in Accounts /\ BurnPool(m) \in Accounts /\ CharliePool \in Accounts
      /\ Collector(m) # BurnPool(m) /\ Collector(m) # CharliePool
  BY Distinct DEF Accounts
<1>2. l \in Nat /\ (l > 0 => lamports[Collector(m)] - l = Rent) /\ l <= lamports[Collector(m)]
  BY <1>1, AboveNat DEF FInv
<1>3. /\ toll \in Nat /\ sol \in Nat /\ own \in Nat /\ Share(l, r.ops) \in Nat
      /\ toll + sol + own + Share(l, r.ops) <= l /\ r \in Shares
  BY <1>2, RouteSharesFit DEF FInv, Ready
<1>4. r.address \in Accounts
  BY <1>3, RouteAssumption DEF Shares
<1>5. ops \in Nat /\ ops <= Share(l, r.ops) /\ (ops > 0 => lamports[r.address] + ops >= Rent)
  BY <1>3, <1>4 DEF OpsAmount, FInv, FeeTypeOK
<1>6. Distributed(m) = [a \in Accounts |->
            lamports[a] + To(a, CharliePool, toll) + To(a, BurnPool(m), own)
                        + To(a, r.address, ops) - To(a, Collector(m), toll + sol + own + ops)]
  BY DEF Distributed, Debit
<1> HIDE DEF r, l, toll, sol, own, ops
<1>7. toll + sol + own + ops <= l /\ lamports \in [Accounts -> Nat] /\ Rent \in Nat
  <2>1. toll + sol + own + ops <= l
    BY <1>2, <1>3, <1>5
  <2> QED BY <2>1, LamportsAssumption DEF FInv, FeeTypeOK
<1>8. \A a \in Accounts : a # Collector(m) =>
         Distributed(m)[a] \in Nat /\ Distributed(m)[a] >= lamports[a]
  BY <1>3, <1>5, <1>6, <1>7 DEF To
<1>9. /\ Distributed(m)[Collector(m)] \in Nat
      /\ l > 0 => Distributed(m)[Collector(m)] >= Rent
  BY <1>1, <1>2, <1>3, <1>5, <1>6, <1>7 DEF To
<1>10. Distributed(m) \in [Accounts -> Nat]
  BY <1>6, <1>8, <1>9
<1>11. l = 0 => Distributed(m) = lamports
  <2> SUFFICES ASSUME l = 0 PROVE Distributed(m) = lamports
    OBVIOUS
  <2>1. toll = 0 /\ sol = 0 /\ own = 0 /\ ops = 0
    BY <1>3, <1>5
  <2>2. \A a \in Accounts : Distributed(m)[a] = lamports[a]
    BY <1>6, <1>7, <2>1 DEF To
  <2> QED BY <1>7, <1>10, <2>2
<1>12. \A a \in Accounts : Distributed(m)[a] = lamports[a]
               \/ a \in {Collector(m), BurnPool(m), CharliePool} \/ Distributed(m)[a] >= Rent
  BY <1>3, <1>5, <1>6, <1>7 DEF To
<1>13. Distributed(m)[CharliePool] >= lamports[CharliePool] + toll
  BY <1>1, <1>3, <1>5, <1>6, <1>7 DEF To
<1>14. Distributed(m)[Collector(m)] >= lamports[Collector(m)] - l
  BY <1>1, <1>2, <1>3, <1>5, <1>6, <1>7 DEF To
<1> QED BY <1>8, <1>9, <1>10, <1>11, <1>12, <1>13, <1>14 DEF l, toll, r

\* The runtime never refuses a distribution.
LEMMA NeverRefused == FInv => DistributeGoesThrough
<1> SUFFICES ASSUME FInv, NEW m \in Coins, Ready(m) PROVE Accepted(Distributed(m))
  BY DEF DistributeGoesThrough
<1>1. lamports[BurnPool(m)] >= Rent /\ lamports[CharliePool] >= Rent /\ lamports[Collector(m)] >= Rent
  BY DEF FInv, Solid, PoolsStayOpen, Ready
<1>2. {Collector(m), BurnPool(m), CharliePool} \subseteq Accounts
      /\ Collector(m) # BurnPool(m) /\ Collector(m) # CharliePool
  BY Distinct DEF Accounts
<1>3. \A a \in {BurnPool(m), CharliePool} : Distributed(m)[a] >= Rent
  BY <1>1, <1>2, DistributedBalances, LamportsAssumption DEF FInv, FeeTypeOK
<1>4. Distributed(m)[Collector(m)] >= Rent
  BY <1>1, <1>2, DistributedBalances, AboveNat DEF FInv
<1> QED BY <1>3, <1>4, DistributedBalances DEF Accepted

--------------------------------------------------------------------------------

\* What a split leaves.
LEMMA SplitBalances ==
  ASSUME FInv, NEW m \in Coins, CanSplit(m)
  PROVE  /\ SplitUp(m) \in [Accounts -> Nat]
         /\ \A a \in Accounts : a # Vault(m) => SplitUp(m)[a] >= lamports[a]
         /\ SplitUp(m)[Vault(m)] >= Rent
         /\ \A a \in Accounts : SplitUp(m)[a] = lamports[a]
               \/ a \in {Vault(m), BurnVault(m)}
               \/ SplitUp(m)[a] >= Rent
<1> DEFINE l == Above(Vault(m))
           burn == BurnOf(l)  buy == Share(l, Buyback)
           ops == OpsAmount(Share(l, Ops), config[m])
<1>1. Vault(m) \in Accounts /\ BurnVault(m) \in Accounts /\ Vault(m) # BurnVault(m)
  BY Distinct DEF Accounts
<1>2. /\ l \in Nat /\ (l > 0 => lamports[Vault(m)] - l = Rent) /\ l <= lamports[Vault(m)]
      /\ lamports[Vault(m)] >= Rent
  BY <1>1, AboveNat DEF FInv, PoolsStayOpen, CanSplit, Vaults
<1>3. /\ burn \in Nat /\ buy \in Nat /\ Share(l, Ops) \in Nat
      /\ burn + buy + Share(l, Ops) <= l
  <2> DEFINE third == Share(l, Ops)  rest == Share(l, 0)
  <2>1. /\ burn \in Nat /\ buy \in Nat /\ third \in Nat /\ rest \in Nat
    BY <1>2, ShareFacts, SplitterAssumption, WholeAssumption DEF Share, BurnOf
  <2>2. SolBurn + Buyback + Ops + 0 = Whole
    BY SplitterAssumption
  <2>3. burn + buy + third + rest <= l
    BY <1>2, <2>2, SharesFit, SplitterAssumption, WholeAssumption DEF Share, BurnOf
  <2> HIDE DEF burn, buy, third, rest, l
  <2>4. burn + buy + third <= l
    BY <1>2, <2>1, <2>3
  <2> QED BY <2>1, <2>4 DEF third
<1>4. config[m] \in Accounts
  BY SplitterAssumption DEF CanSplit, FInv, FeeTypeOK
<1>5. ops \in Nat /\ ops <= Share(l, Ops) /\ (ops > 0 => lamports[config[m]] + ops >= Rent)
  BY <1>3, <1>4 DEF OpsAmount, FInv, FeeTypeOK
<1>6. SplitUp(m) = [a \in Accounts |->
            lamports[a] + To(a, BurnVault(m), buy) + To(a, config[m], ops)
                        - To(a, Vault(m), burn + buy + ops)]
  BY DEF SplitUp
<1> HIDE DEF l, burn, buy, ops
<1>7. burn + buy + ops <= l /\ lamports \in [Accounts -> Nat] /\ Rent \in Nat
  <2>1. burn + buy + ops <= l
    BY <1>2, <1>3, <1>5
  <2> QED BY <2>1, LamportsAssumption DEF FInv, FeeTypeOK
<1>8. \A a \in Accounts : a # Vault(m) => SplitUp(m)[a] \in Nat /\ SplitUp(m)[a] >= lamports[a]
  BY <1>3, <1>5, <1>6, <1>7 DEF To
<1>9. SplitUp(m)[Vault(m)] \in Nat /\ SplitUp(m)[Vault(m)] >= Rent
  BY <1>1, <1>2, <1>3, <1>5, <1>6, <1>7 DEF To
<1>10. SplitUp(m) \in [Accounts -> Nat]
  BY <1>6, <1>8, <1>9
<1>11. \A a \in Accounts : SplitUp(m)[a] = lamports[a]
               \/ a \in {Vault(m), BurnVault(m)} \/ SplitUp(m)[a] >= Rent
  BY <1>3, <1>5, <1>6, <1>7 DEF To
<1> QED BY <1>8, <1>9, <1>10, <1>11

\* The runtime never refuses a split.
LEMMA SplitNeverRefused == FInv => SplitGoesThrough
<1> SUFFICES ASSUME FInv, NEW m \in Coins, CanSplit(m) PROVE Accepted(SplitUp(m))
  BY DEF SplitGoesThrough
<1>1. lamports[BurnVault(m)] >= Rent
  BY DEF FInv, PoolsStayOpen, CanSplit, Vaults
<1>2. {Vault(m), BurnVault(m)} \subseteq Accounts /\ Vault(m) # BurnVault(m)
  BY Distinct DEF Accounts
<1>3. SplitUp(m)[BurnVault(m)] >= Rent
  BY <1>1, <1>2, SplitBalances, LamportsAssumption DEF FInv, FeeTypeOK
<1> QED BY <1>3, SplitBalances DEF Accepted

--------------------------------------------------------------------------------

\* FInv survives any step that leaves each derived address no poorer, or with its
\* rent.
LEMMA Grows ==
  ASSUME FInv, NEW new \in [Accounts -> Nat], NEW n \in Int, Become(new, n),
         \A a \in Derived : new[a] >= lamports[a] \/ new[a] >= Rent,
         UNCHANGED <<created, route, config>>
  PROVE  FInv'
<1>1. FeeTypeOK'
  BY DEF FInv, FeeTypeOK, Become
<1>2. \A a \in Derived : lamports[a] \in Nat /\ new[a] \in Nat /\ Rent \in Nat
  BY LamportsAssumption DEF FInv, FeeTypeOK, Accounts
<1>3. PoolsStayOpen'
  BY <1>2 DEF FInv, FeeTypeOK, PoolsStayOpen, Become
<1>4. \A m \in Coins : BurnPool(m) \in Derived
  BY Distinct
<1>5. Solid'
  BY <1>2, <1>4 DEF FInv, Solid, Become, Accepted
<1> QED BY <1>1, <1>3, <1>5 DEF FInv

\* Opening accounts gives them their rent and takes nothing (create_pda).
LEMMA Opens ==
  ASSUME FInv, NEW S \in SUBSET Derived
  PROVE  /\ WithRent(S) \in [Accounts -> Nat]
         /\ \A a \in Accounts : WithRent(S)[a] >= lamports[a]
         /\ \A a \in S : WithRent(S)[a] >= Rent
         /\ \A a \in S : Deposit(a) \in Int
         /\ Opened(S) \subseteq Derived
BY LamportsAssumption DEF FInv, FeeTypeOK, Solid, WithRent, Opened, Deposit, To, Accounts

\* What every instruction that opens accounts keeps.
LEMMA OpensKept ==
  ASSUME FInv, NEW S \in SUBSET Derived, NEW n \in Int, Become(WithRent(S), n),
         created' \subseteq created \cup S
  PROVE  /\ lamports' \in [Accounts -> Nat] /\ created' \subseteq Derived /\ outside' \in Int
         /\ PoolsStayOpen'
         /\ \A a \in Accounts : lamports'[a] >= lamports[a] /\ (lamports'[a] = 0 \/ lamports'[a] >= Rent)
         /\ \A a \in S : lamports'[a] >= Rent
<1>1. lamports' = WithRent(S) /\ outside' = outside + n
  BY DEF Become
<1>2. /\ lamports' \in [Accounts -> Nat] /\ created' \subseteq Derived /\ outside' \in Int
      /\ \A a \in Accounts : lamports'[a] >= lamports[a]
      /\ \A a \in S : lamports'[a] >= Rent
  BY <1>1, Opens DEF FInv, FeeTypeOK
<1>3. \A a \in Accounts : lamports'[a] = 0 \/ lamports'[a] >= Rent
  BY <1>1 DEF FInv, Solid, Become, Accepted
<1>4. PoolsStayOpen'
  BY <1>2, LamportsAssumption DEF FInv, FeeTypeOK, PoolsStayOpen, Accounts
<1> QED BY <1>2, <1>3, <1>4

--------------------------------------------------------------------------------

\* Nothing exists before the programs are deployed.
LEMMA InitFInv == Init => FInv
<1> SUFFICES ASSUME Init PROVE FInv
  OBVIOUS
<1>1. /\ lamports = [a \in Accounts |-> 0] /\ created = {} /\ outside = 0
      /\ route = [m \in Coins |-> NoRoute] /\ config = [m \in Coins |-> NoConfig]
  BY DEF Init, LamportsInit, RouteInit, SplitterInit
<1>2. ~NoRoute.open
  BY DEF NoRoute
<1>3. FeeTypeOK
  BY <1>1, <1>2 DEF FeeTypeOK
<1>4. PoolsStayOpen
  BY <1>1 DEF PoolsStayOpen
<1>5. Solid
  BY <1>1, <1>2 DEF Solid
<1> QED BY <1>3, <1>4, <1>5 DEF FInv

\* Writing one of the routes the program accepts keeps every route typed.
LEMMA RouteWritten ==
  ASSUME FeeTypeOK, NEW m \in Coins, NEW r \in Routes, route' = [route EXCEPT ![m] = r]
  PROVE  /\ route' \in [Coins -> Shares \cup {NoRoute}]
         /\ \A n \in Coins : route'[n].open =>
                route'[n].sol + route'[n].own + route'[n].ops + Toll = Whole
<1>1. r \in Shares /\ r.sol + r.own + r.ops = Whole - Toll
  BY DEF Routes, Valid
<1>2. r.sol \in Int /\ r.own \in Int /\ r.ops \in Int /\ Toll \in Int /\ Whole \in Int
  BY <1>1, RouteAssumption, WholeAssumption DEF Shares
<1>3. r.sol + r.own + r.ops + Toll = Whole
  BY <1>1, <1>2
<1>4. route' \in [Coins -> Shares \cup {NoRoute}]
  BY <1>1 DEF FeeTypeOK
<1>5. \A n \in Coins : route'[n] = IF n = m THEN r ELSE route[n]
  BY DEF FeeTypeOK
<1> QED BY <1>3, <1>4, <1>5 DEF FeeTypeOK

\* Every instruction of the protocol program keeps FInv.
LEMMA ProtocolKept == ASSUME FInv, Protocol PROVE FInv'
<1>1. CASE InitCharliePool
  <2>1. {CharliePool} \in SUBSET Derived /\ Deposit(CharliePool) \in Int
    BY Opens DEF Derived
  <2>2. /\ Become(WithRent({CharliePool}), Deposit(CharliePool))
        /\ created' \subseteq created \cup {CharliePool} /\ UNCHANGED <<route, config>>
    BY <1>1 DEF InitCharliePool, Protocol
  <2>3. /\ lamports' \in [Accounts -> Nat] /\ created' \subseteq Derived /\ outside' \in Int
        /\ PoolsStayOpen'
        /\ \A a \in Accounts : lamports'[a] >= lamports[a] /\ (lamports'[a] = 0 \/ lamports'[a] >= Rent)
    BY <2>1, <2>2, OpensKept
  <2>4. FeeTypeOK'
    BY <2>2, <2>3 DEF FInv, FeeTypeOK
  <2>5. Solid'
    BY <2>2, <2>3, Distinct, LamportsAssumption DEF FInv, FeeTypeOK, Solid, Accounts
  <2> QED BY <2>3, <2>4, <2>5 DEF FInv
<1>2. ASSUME NEW m \in Enrolled, NEW r \in Offered, InitRoute(m, r) PROVE FInv'
  <2>1. m \in Coins /\ r \in Routes
    BY <1>2, ProgramsAssumption DEF InitRoute
  <2>2. Pools(m) \in SUBSET Derived /\ BurnPool(m) \in Pools(m) /\ Collector(m) \in Pools(m)
    BY <2>1, Distinct DEF Pools
  <2>3. Deposit(Collector(m)) + Deposit(BurnPool(m)) \in Int
    BY <2>2, Opens
  <2>4. /\ Become(WithRent(Pools(m)), Deposit(Collector(m)) + Deposit(BurnPool(m)))
        /\ created' \subseteq created \cup Pools(m)
        /\ route' = [route EXCEPT ![m] = r] /\ UNCHANGED config
    BY <1>2 DEF InitRoute, Protocol, Opened
  <2>5. /\ lamports' \in [Accounts -> Nat] /\ created' \subseteq Derived /\ outside' \in Int
        /\ PoolsStayOpen'
        /\ \A a \in Accounts : lamports'[a] >= lamports[a] /\ (lamports'[a] = 0 \/ lamports'[a] >= Rent)
        /\ lamports'[BurnPool(m)] >= Rent
    BY <2>2, <2>3, <2>4, OpensKept
  <2>6. FeeTypeOK'
    BY <2>1, <2>4, <2>5, RouteWritten DEF FInv, FeeTypeOK
  <2>7. Solid'
    BY <2>1, <2>4, <2>5, Distinct, LamportsAssumption DEF FInv, FeeTypeOK, Solid, Accounts
  <2> QED BY <2>5, <2>6, <2>7 DEF FInv
<1>3. ASSUME NEW m \in Enrolled, NEW r \in Offered, SetRoute(m, r) PROVE FInv'
  <2>1. /\ m \in Coins /\ r \in Routes /\ route[m].open
        /\ route' = [route EXCEPT ![m] = r] /\ UNCHANGED <<Holdings, config>>
    BY <1>3, ProgramsAssumption DEF SetRoute, Protocol
  <2>2. FeeTypeOK'
    BY <2>1, RouteWritten DEF FInv, FeeTypeOK, Holdings
  <2>3. PoolsStayOpen' /\ Solid'
    BY <2>1 DEF FInv, FeeTypeOK, PoolsStayOpen, Solid, Holdings
  <2> QED BY <2>2, <2>3 DEF FInv
<1>4. ASSUME NEW m \in Enrolled, Distribute(m) PROVE FInv'
  <2>1. /\ m \in Coins /\ Ready(m) /\ Above(Collector(m)) > 0
        /\ Become(Distributed(m), -Share(Above(Collector(m)), route[m].sol))
        /\ UNCHANGED <<created, route, config>>
    BY <1>4, ProgramsAssumption DEF Distribute, Protocol
  <2>2. Above(Collector(m)) \in Nat
    BY <2>1, AboveNat, Distinct DEF FInv, Accounts
  <2>3. -Share(Above(Collector(m)), route[m].sol) \in Int
    BY <2>1, <2>2, RouteSharesFit DEF FInv, Ready
  <2>4. Distributed(m) \in [Accounts -> Nat]
        /\ \A a \in Derived : Distributed(m)[a] >= lamports[a] \/ Distributed(m)[a] >= Rent
    BY <2>1, DistributedBalances DEF Accounts
  <2> QED BY <2>1, <2>3, <2>4, Grows
<1> QED BY <1>1, <1>2, <1>3, <1>4 DEF Protocol

\* Every instruction of the splitter keeps FInv.
LEMMA SplitKept == ASSUME FInv, Split3 PROVE FInv'
<1>1. ASSUME NEW m \in Served, Split(m) PROVE FInv'
  <2>1. /\ m \in Coins /\ CanSplit(m)
        /\ Become(SplitUp(m), -BurnOf(Above(Vault(m)))) /\ UNCHANGED <<created, route, config>>
    BY <1>1, ProgramsAssumption DEF Split, Split3
  <2>2. -BurnOf(Above(Vault(m))) \in Int
    <3>1. Above(Vault(m)) \in Nat
      BY <2>1, AboveNat, Distinct DEF FInv, Accounts
    <3>2. SolBurn \in Nat
      BY SplitterAssumption
    <3>3. Share(Above(Vault(m)), SolBurn) \in Nat
      BY <3>1, <3>2, ShareFacts, WholeAssumption DEF Share
    <3>4. BurnOf(Above(Vault(m))) \in Nat
      BY <3>3 DEF BurnOf
    <3> HIDE DEF BurnOf, Above, Vault
    <3> QED BY <3>4
  <2>3. SplitUp(m) \in [Accounts -> Nat]
        /\ \A a \in Derived : SplitUp(m)[a] >= lamports[a] \/ SplitUp(m)[a] >= Rent
    BY <2>1, SplitBalances DEF Accounts
  <2> QED BY <2>1, <2>2, <2>3, Grows
<1>2. ASSUME NEW m \in Served, NEW ops \in OpsWallets, Initialise(m, ops) PROVE FInv'
  <2>1. m \in Coins
    BY ProgramsAssumption
  <2>2. Vaults(m) \in SUBSET Derived /\ Vault(m) \in Vaults(m) /\ BurnVault(m) \in Vaults(m)
    BY <2>1, Distinct DEF Vaults
  <2>3. Deposit(Vault(m)) + Deposit(BurnVault(m)) \in Int
    BY <2>2, Opens
  <2>4. /\ Become(WithRent(Vaults(m)), Deposit(Vault(m)) + Deposit(BurnVault(m)))
        /\ created' \subseteq created \cup Vaults(m)
        /\ config' = [config EXCEPT ![m] = ops] /\ UNCHANGED route
    BY <1>2 DEF Initialise, Split3, Opened
  <2>5. /\ lamports' \in [Accounts -> Nat] /\ created' \subseteq Derived /\ outside' \in Int
        /\ PoolsStayOpen'
        /\ \A a \in Accounts : lamports'[a] >= lamports[a] /\ (lamports'[a] = 0 \/ lamports'[a] >= Rent)
    BY <2>2, <2>3, <2>4, OpensKept
  <2>6. FeeTypeOK'
    BY <2>1, <2>4, <2>5 DEF FInv, FeeTypeOK
  <2>7. Solid'
    BY <2>4, <2>5, Distinct, LamportsAssumption DEF FInv, FeeTypeOK, Solid, Accounts
  <2> QED BY <2>5, <2>6, <2>7 DEF FInv
<1> QED BY <1>1, <1>2 DEF Split3

\* So do the payments into the programs and the withdrawals from wallets.
LEMMA WorldKept == ASSUME FInv, World PROVE FInv'
<1>1. ASSUME NEW a \in Derived, NEW n \in Fees, Pay(a, n) PROVE FInv'
  <2>1. /\ a \in Accounts /\ n \in Nat
        /\ Become([lamports EXCEPT ![a] = @ + n], n) /\ UNCHANGED <<created, route, config>>
    BY <1>1, ProgramsAssumption DEF Pay, World, Accounts
  <2> DEFINE new == [lamports EXCEPT ![a] = @ + n]
  <2>2. new \in [Accounts -> Nat] /\ \A b \in Accounts : new[b] >= lamports[b]
    BY <2>1 DEF FInv, FeeTypeOK
  <2>3. \A b \in Derived : new[b] >= lamports[b]
    BY <2>2 DEF Accounts
  <2>4. Become(new, n) /\ UNCHANGED <<created, route, config>> /\ n \in Int
    BY <2>1
  <2> HIDE DEF new
  <2> QED BY <2>2, <2>3, <2>4, Grows
<1>2. ASSUME NEW w \in Wallets, Withdraw(w) PROVE FInv'
  <2>1. /\ w \in Accounts /\ w \notin Derived
        /\ Become([lamports EXCEPT ![w] = 0], -lamports[w]) /\ UNCHANGED <<created, route, config>>
    BY <1>2, LamportsAssumption DEF Withdraw, World, Accounts
  <2>2. /\ [lamports EXCEPT ![w] = 0] \in [Accounts -> Nat] /\ -lamports[w] \in Int
        /\ \A b \in Derived : [lamports EXCEPT ![w] = 0][b] >= lamports[b]
    BY <2>1 DEF FInv, FeeTypeOK, Accounts
  <2> QED BY <2>1, <2>2, Grows
<1>3. \A m \in Coins : Collector(m) \in Derived /\ Vault(m) \in Derived
  BY Distinct
<1> QED BY <1>1, <1>2, <1>3, ProgramsAssumption DEF World

\* FInv is inductive.
LEMMA FInvStep == ASSUME FInv, [Next]_vars PROVE FInv'
<1>1. CASE UNCHANGED vars
  BY <1>1 DEF vars, Holdings, FInv, FeeTypeOK, PoolsStayOpen, Solid
<1> QED BY <1>1, ProtocolKept, SplitKept, WorldKept DEF Next

\* No leg takes a balance below zero and no route takes from the toll, for every
\* route a dev may write (validate, split_legs).
THEOREM FeesTyped == Spec => []FeeTypeOK
<1>1. FInv => FeeTypeOK
  BY DEF FInv
<1> QED BY <1>1, InitFInv, FInvStep, PTL DEF Spec

\* A pool that a program created keeps its rent for good (distribute, split).
THEOREM PoolsOpen == Spec => []PoolsStayOpen
<1>1. FInv => PoolsStayOpen
  BY DEF FInv
<1> QED BY <1>1, InitFInv, FInvStep, PTL DEF Spec

\* No route, wallet or balance makes the runtime refuse a distribution or a split
\* that the programs would pay.
THEOREM NothingRefused == Spec => []NothingIsRefused
<1>1. FInv => NothingIsRefused
  BY NeverRefused, SplitNeverRefused DEF NothingIsRefused
<1> QED BY <1>1, InitFInv, FInvStep, PTL DEF Spec

--------------------------------------------------------------------------------
(* The toll comes first. *)

\* What one coin's collector loses, and what the toll's pool gains, in a step.
TollKept(m) == lamports'[Collector(m)] < lamports[Collector(m)] =>
                 lamports'[CharliePool] - lamports[CharliePool]
                     >= Share(lamports[Collector(m)] - lamports'[Collector(m)], Toll)

\* Opening accounts takes nothing from a collector.
LEMMA OpeningTakesNothing ==
  ASSUME FInv, NEW m \in Coins, NEW S \in SUBSET Derived, lamports' = WithRent(S)
  PROVE  TollKept(m)
<1>1. Collector(m) \in Accounts
  BY Distinct DEF Accounts
<1>2. lamports'[Collector(m)] >= lamports[Collector(m)]
      /\ lamports'[Collector(m)] \in Nat /\ lamports[Collector(m)] \in Nat
  BY <1>1, Opens DEF FInv, FeeTypeOK
<1> QED BY <1>2 DEF TollKept

\* A distribution pays the toll of all that it takes from its collector, and
\* takes nothing from another coin's.
LEMMA DistributionPaysToll ==
  ASSUME FInv, NEW m \in Coins, NEW n \in Coins, Ready(n), lamports' = Distributed(n)
  PROVE  TollKept(m)
<1> DEFINE c == Collector(m)
<1>1. c \in Accounts /\ CharliePool \in Accounts /\ c # CharliePool
  BY Distinct DEF Accounts
<1>2. lamports'[c] \in Nat /\ lamports[c] \in Nat
      /\ lamports'[CharliePool] \in Nat /\ lamports[CharliePool] \in Nat
  BY <1>1, DistributedBalances DEF FInv, FeeTypeOK
<1>3. CASE m = n
  <2>1. /\ lamports'[CharliePool] >= lamports[CharliePool] + TollOf(Above(c), route[m])
        /\ lamports'[c] >= lamports[c] - Above(c)
    BY <1>3, DistributedBalances
  <2>2. Above(c) \in Nat /\ Toll \in Nat
    BY <1>1, AboveNat, RouteAssumption, LamportsAssumption DEF FInv
  <2>3. TollOf(Above(c), route[m]) = Share(Above(c), Toll)
    BY DEF TollOf
  <2> HIDE DEF c, TollOf, Above
  <2>4. ASSUME lamports'[c] < lamports[c]
        PROVE  lamports'[CharliePool] - lamports[CharliePool] >= Share(lamports[c] - lamports'[c], Toll)
    <3>1. lamports[c] - lamports'[c] \in Nat /\ lamports[c] - lamports'[c] <= Above(c)
      BY <1>2, <2>1, <2>2, <2>4
    <3>2. Share(lamports[c] - lamports'[c], Toll) <= Share(Above(c), Toll)
      BY <2>2, <3>1, ShareGrows, WholeAssumption DEF Share
    <3>3. Share(lamports[c] - lamports'[c], Toll) \in Nat /\ Share(Above(c), Toll) \in Nat
      BY <2>2, <3>1, ShareFacts, WholeAssumption DEF Share
    <3> QED BY <1>2, <2>1, <2>3, <3>2, <3>3
  <2> QED BY <2>4 DEF TollKept, c
<1>4. CASE m # n
  <2>1. c # Collector(n)
    BY <1>4 DEF Collector
  <2>2. lamports'[c] >= lamports[c]
    BY <1>1, <2>1, DistributedBalances
  <2> QED BY <1>2, <2>2 DEF TollKept
<1> QED BY <1>3, <1>4

\* No other step takes anything from a collector.
LEMMA TollStep == ASSUME FInv, Next, NEW m \in Enrolled PROVE TollKept(m)
<1>1. m \in Coins /\ Collector(m) \in Derived /\ Collector(m) \in Accounts
  BY ProgramsAssumption, Distinct DEF Accounts
<1>2. lamports[Collector(m)] \in Nat
  BY <1>1 DEF FInv, FeeTypeOK
<1>3. ASSUME UNCHANGED lamports PROVE TollKept(m)
  BY <1>2, <1>3 DEF TollKept
<1>4. CASE InitCharliePool
  BY <1>1, <1>4, OpeningTakesNothing DEF InitCharliePool, Become, Derived
<1>5. ASSUME NEW n \in Enrolled, NEW r \in Offered, InitRoute(n, r) PROVE TollKept(m)
  <2>1. Pools(n) \in SUBSET Derived /\ lamports' = WithRent(Pools(n))
    BY <1>5, Distinct, ProgramsAssumption DEF Pools, InitRoute, Become
  <2> QED BY <1>1, <2>1, OpeningTakesNothing
<1>6. ASSUME NEW n \in Enrolled, NEW r \in Offered, SetRoute(n, r) PROVE TollKept(m)
  BY <1>3, <1>6 DEF SetRoute, Holdings
<1>7. ASSUME NEW n \in Enrolled, Distribute(n) PROVE TollKept(m)
  <2>1. n \in Coins /\ Ready(n) /\ lamports' = Distributed(n)
    BY <1>7, ProgramsAssumption DEF Distribute, Become
  <2> QED BY <1>1, <2>1, DistributionPaysToll
<1>8. ASSUME NEW n \in Served, NEW ops \in OpsWallets, Initialise(n, ops) PROVE TollKept(m)
  <2>1. Vaults(n) \in SUBSET Derived /\ lamports' = WithRent(Vaults(n))
    BY <1>8, Distinct, ProgramsAssumption DEF Vaults, Initialise, Become
  <2> QED BY <1>1, <2>1, OpeningTakesNothing
<1>9. ASSUME NEW n \in Served, Split(n) PROVE TollKept(m)
  <2>1. n \in Coins /\ CanSplit(n) /\ lamports' = SplitUp(n) /\ Collector(m) # Vault(n)
    BY <1>1, <1>9, ProgramsAssumption, Distinct DEF Split, Become
  <2>2. lamports'[Collector(m)] \in Nat /\ lamports'[Collector(m)] >= lamports[Collector(m)]
    BY <1>1, <2>1, SplitBalances
  <2> QED BY <1>2, <2>2 DEF TollKept
<1>10. ASSUME NEW a \in Accounts, NEW n \in Fees, Pay(a, n) PROVE TollKept(m)
  <2>1. n \in Nat /\ lamports' = [lamports EXCEPT ![a] = @ + n]
    BY <1>10, ProgramsAssumption DEF Pay, Become
  <2>2. lamports'[Collector(m)] \in Nat /\ lamports'[Collector(m)] >= lamports[Collector(m)]
    BY <1>1, <1>2, <2>1 DEF FInv, FeeTypeOK
  <2> QED BY <1>2, <2>2 DEF TollKept
<1>11. ASSUME NEW w \in Wallets, Withdraw(w) PROVE TollKept(m)
  <2>1. w # Collector(m) /\ lamports' = [lamports EXCEPT ![w] = 0]
    BY <1>1, <1>11, LamportsAssumption DEF Withdraw, Become
  <2>2. lamports'[Collector(m)] = lamports[Collector(m)]
    BY <1>1, <2>1 DEF FInv, FeeTypeOK
  <2> QED BY <1>2, <2>2 DEF TollKept
<1>12. \A n \in Coins : Collector(n) \in Accounts /\ Vault(n) \in Accounts
  BY Distinct DEF Accounts
<1> QED BY <1>4, <1>5, <1>6, <1>7, <1>8, <1>9, <1>10, <1>11, <1>12, ProgramsAssumption
        DEF Next, Protocol, Split3, World

\* No lamport leaves a collector without its toll, whatever the routes
\* written and rewritten, the balances and the ops addresses (distribute).
THEOREM TollIsFirst == Spec => TollFirst
<1> DEFINE Step == \A m \in Enrolled : TollKept(m)
<1>1. FInv /\ [Next]_vars => [Step]_vars
  BY TollStep
<1>2. [Step]_vars => [\A m \in Enrolled : lamports'[Collector(m)] < lamports[Collector(m)] =>
            lamports'[CharliePool] - lamports[CharliePool]
                >= Share(lamports[Collector(m)] - lamports'[Collector(m)], Toll)]_vars
  BY DEF TollKept
<1> QED BY <1>1, <1>2, InitFInv, FInvStep, PTL DEF Spec, TollFirst

--------------------------------------------------------------------------------
(* Nothing is made and nothing is lost. *)

\* There are finitely many accounts, so that their balances have a sum.
LEMMA AccountsFinite == IsFiniteSet(Accounts)
<1> DEFINE seeds == {"collect", "burn", "vault", "burn vault"}
<1>1. IsFiniteSet(seeds)
  <2>1. ASSUME NEW a, NEW b, NEW c, NEW d PROVE IsFiniteSet({a, b, c, d})
    <3>1. IsFiniteSet({a}) /\ IsFiniteSet({a} \cup {b})
      BY FS_Singleton, FS_AddElement
    <3>2. IsFiniteSet(({a} \cup {b}) \cup {c})
      BY <3>1, FS_AddElement
    <3>3. IsFiniteSet((({a} \cup {b}) \cup {c}) \cup {d})
      BY <3>2, FS_AddElement
    <3>4. (({a} \cup {b}) \cup {c}) \cup {d} = {a, b, c, d}
      OBVIOUS
    <3> QED BY <3>3, <3>4
  <2> QED BY <2>1
<1> DEFINE pairs == seeds \X Coins
<1>2. IsFiniteSet(pairs)
  <2> HIDE DEF seeds
  <2> QED BY <1>1, FS_Product, ProgramsAssumption
<1>3. IsFiniteSet(Derived)
  <2>1. Derived = pairs \cup {CharliePool}
    BY DEF Derived
  <2> HIDE DEF pairs
  <2> QED BY <1>2, <2>1, FS_AddElement
<1> QED BY <1>3, FS_Union, ProgramsAssumption DEF Accounts

\* What the balances add up to.
Balances(f) == Sum(f, Accounts)

LEMMA BalancesSum == ASSUME FeeTypeOK PROVE SumFunction(lamports) = Balances(lamports)
BY DEF FeeTypeOK, SumFunction, Sum, Balances

\* What goes into or out of one account.
LEMMA OneAccount ==
  ASSUME NEW f, NEW g, NEW b \in Accounts, NEW n \in Int,
         \A a \in Accounts : f[a] \in Int /\ g[a] = f[a] + (IF a = b THEN n ELSE 0)
  PROVE  Balances(g) = Balances(f) + n /\ Balances(f) \in Int
  BY AccountsFinite, SumAdd DEF Balances

\* One leg of a payment.
LEMMA LegAdds ==
  ASSUME NEW f \in [Accounts -> Int], NEW b \in Accounts, NEW n \in Int
  PROVE  LET g == [a \in Accounts |-> f[a] + To(a, b, n)]
         IN  g \in [Accounts -> Int] /\ Balances(g) = Balances(f) + n /\ Balances(f) \in Int
<1> DEFINE g == [a \in Accounts |-> f[a] + To(a, b, n)]
<1>1. \A a \in Accounts : f[a] \in Int /\ g[a] = f[a] + (IF a = b THEN n ELSE 0)
  BY DEF To
<1>2. g \in [Accounts -> Int]
  BY DEF To
<1> HIDE DEF g
<1>3. Balances(g) = Balances(f) + n /\ Balances(f) \in Int
  BY <1>1, OneAccount, ZenonT(60)
<1> QED BY <1>2, <1>3 DEF g

\* A distribution takes out of the accounts exactly what is burned.
LEMMA DistributionConserves ==
  ASSUME FInv, NEW m \in Coins, Ready(m)
  PROVE  Balances(Distributed(m)) = Balances(lamports) - Share(Above(Collector(m)), route[m].sol)
<1> DEFINE r == route[m]  l == Above(Collector(m))
           toll == TollOf(l, r)  sol == Share(l, r.sol)  own == Share(l, r.own)
           ops == OpsAmount(Share(l, r.ops), r.address)
           f1 == [a \in Accounts |-> lamports[a] + To(a, CharliePool, toll)]
           f2 == [a \in Accounts |-> f1[a] + To(a, BurnPool(m), own)]
           f3 == [a \in Accounts |-> f2[a] + To(a, r.address, ops)]
           f4 == [a \in Accounts |-> f3[a] + To(a, Collector(m), 0 - (toll + sol + own + ops))]
<1>1. Collector(m) \in Accounts /\ BurnPool(m) \in Accounts /\ CharliePool \in Accounts
  BY Distinct DEF Accounts
<1>2. l \in Nat
  BY <1>1, AboveNat DEF FInv
<1>3. /\ toll \in Nat /\ sol \in Nat /\ own \in Nat /\ Share(l, r.ops) \in Nat /\ r \in Shares
  BY <1>2, RouteSharesFit DEF FInv, Ready
<1>4. r.address \in Accounts /\ ops \in Nat
  BY <1>3, RouteAssumption DEF Shares, OpsAmount
<1>5. lamports \in [Accounts -> Int]
  BY DEF FInv, FeeTypeOK
<1>6. Distributed(m) = [a \in Accounts |->
            lamports[a] + To(a, CharliePool, toll) + To(a, BurnPool(m), own)
                        + To(a, r.address, ops) - To(a, Collector(m), toll + sol + own + ops)]
  BY DEF Distributed, Debit
<1> HIDE DEF r, l, toll, sol, own, ops
<1>7. f1 \in [Accounts -> Int] /\ Balances(f1) = Balances(lamports) + toll /\ Balances(lamports) \in Int
  BY <1>1, <1>3, <1>5, LegAdds
<1>8. f2 \in [Accounts -> Int] /\ Balances(f2) = Balances(f1) + own
  <2> HIDE DEF f1
  <2> QED BY <1>1, <1>3, <1>7, LegAdds
<1>9. f3 \in [Accounts -> Int] /\ Balances(f3) = Balances(f2) + ops
  <2> HIDE DEF f2
  <2> QED BY <1>4, <1>8, LegAdds
<1>10. Balances(f4) = Balances(f3) + (0 - (toll + sol + own + ops))
  <2> HIDE DEF f3
  <2>1. 0 - (toll + sol + own + ops) \in Int
    BY <1>3, <1>4
  <2> QED BY <1>1, <1>9, <2>1, LegAdds
<1>11. f4 = Distributed(m)
  BY <1>3, <1>4, <1>5, <1>6 DEF To
<1> HIDE DEF f1, f2, f3, f4
<1> QED BY <1>3, <1>4, <1>7, <1>8, <1>9, <1>10, <1>11 DEF r, l, sol

\* A split takes out of the accounts exactly what it burns.
LEMMA SplitConserves ==
  ASSUME FInv, NEW m \in Coins, CanSplit(m)
  PROVE  Balances(SplitUp(m)) = Balances(lamports) - BurnOf(Above(Vault(m)))
<1> DEFINE l == Above(Vault(m))  burn == BurnOf(l)  back == Share(l, Buyback)
           ops == OpsAmount(Share(l, Ops), config[m])
           f1 == [a \in Accounts |-> lamports[a] + To(a, BurnVault(m), back)]
           f2 == [a \in Accounts |-> f1[a] + To(a, config[m], ops)]
           f3 == [a \in Accounts |-> f2[a] + To(a, Vault(m), 0 - (burn + back + ops))]
<1>1. Vault(m) \in Accounts /\ BurnVault(m) \in Accounts
  BY Distinct DEF Accounts
<1>2. l \in Nat
  BY <1>1, AboveNat DEF FInv
<1>3. burn \in Nat /\ back \in Nat /\ Share(l, Ops) \in Nat
  BY <1>2, ShareFacts, SplitterAssumption, WholeAssumption DEF Share, BurnOf
<1>4. config[m] \in Accounts /\ ops \in Nat
  <2>1. config[m] \in Accounts
    BY SplitterAssumption DEF CanSplit, FInv, FeeTypeOK
  <2> QED BY <1>3, <2>1 DEF OpsAmount
<1>5. lamports \in [Accounts -> Int]
  BY DEF FInv, FeeTypeOK
<1>6. SplitUp(m) = [a \in Accounts |->
            lamports[a] + To(a, BurnVault(m), back) + To(a, config[m], ops)
                        - To(a, Vault(m), burn + back + ops)]
  BY DEF SplitUp
<1> HIDE DEF l, burn, back, ops
<1>7. f1 \in [Accounts -> Int] /\ Balances(f1) = Balances(lamports) + back /\ Balances(lamports) \in Int
  BY <1>1, <1>3, <1>5, LegAdds
<1>8. f2 \in [Accounts -> Int] /\ Balances(f2) = Balances(f1) + ops
  <2> HIDE DEF f1
  <2> QED BY <1>4, <1>7, LegAdds
<1>9. Balances(f3) = Balances(f2) + (0 - (burn + back + ops))
  <2> HIDE DEF f2
  <2>1. 0 - (burn + back + ops) \in Int
    BY <1>3, <1>4
  <2> QED BY <1>1, <1>8, <2>1, LegAdds
<1>10. f3 = SplitUp(m)
  BY <1>3, <1>4, <1>5, <1>6 DEF To
<1> HIDE DEF f1, f2, f3
<1> QED BY <1>3, <1>4, <1>7, <1>8, <1>9, <1>10 DEF l, burn

\* Opening accounts brings in what is deposited into them.
LEMMA OpeningConserves ==
  ASSUME FeeTypeOK, NEW b \in Accounts, NEW c \in Accounts, b # c
  PROVE  /\ Balances(WithRent({b, c})) = Balances(lamports) + (Deposit(b) + Deposit(c))
         /\ Balances(WithRent({b})) = Balances(lamports) + Deposit(b)
<1> DEFINE f1 == [a \in Accounts |-> lamports[a] + To(a, b, Deposit(b))]
           f2 == [a \in Accounts |-> f1[a] + To(a, c, Deposit(c))]
<1>1. lamports \in [Accounts -> Int] /\ Deposit(b) \in Int /\ Deposit(c) \in Int
  BY LamportsAssumption DEF FeeTypeOK, Deposit, To
<1>2. f1 = WithRent({b})
  BY <1>1 DEF WithRent, Opened, Deposit, To
<1>3. f2 = WithRent({b, c})
  BY <1>1 DEF WithRent, Opened, Deposit, To
<1> HIDE DEF Deposit
<1>4. f1 \in [Accounts -> Int] /\ Balances(f1) = Balances(lamports) + Deposit(b) /\ Balances(lamports) \in Int
  BY <1>1, LegAdds
<1>5. Balances(f2) = Balances(f1) + Deposit(c)
  <2> HIDE DEF f1
  <2> QED BY <1>1, <1>4, LegAdds
<1> HIDE DEF f1, f2
<1> QED BY <1>1, <1>2, <1>3, <1>4, <1>5

\* What goes into or out of one account from outside.
LEMMA TransferConserves ==
  ASSUME FeeTypeOK, NEW a \in Accounts, NEW n \in Int,
         \A x \in Accounts : lamports'[x] = IF x = a THEN lamports[a] + n ELSE lamports[x]
  PROVE  Balances(lamports') = Balances(lamports) + n
<1>1. \A x \in Accounts : lamports[x] \in Int /\ lamports'[x] = lamports[x] + (IF x = a THEN n ELSE 0)
  BY DEF FeeTypeOK
<1> QED BY <1>1, OneAccount

\* Every step brings in, or takes out, what it says it does.
LEMMA ConservedStep == ASSUME FInv, Balances(lamports) = outside, [Next]_vars PROVE Balances(lamports') = outside'
<1> DEFINE Goal == Balances(lamports') = outside'
<1>1. Balances(lamports) \in Int /\ outside \in Int
  BY DEF FInv, FeeTypeOK
<1>2. CASE UNCHANGED Holdings
  BY <1>2 DEF Holdings
<1>3. CASE InitCharliePool
  <2>1. CharliePool \in Accounts
    BY DEF Accounts, Derived
  <2>2. lamports' = WithRent({CharliePool}) /\ outside' = outside + Deposit(CharliePool)
    BY <1>3 DEF InitCharliePool, Become
  <2>3. Balances(WithRent({CharliePool})) = Balances(lamports) + Deposit(CharliePool)
    <3> DEFINE f1 == [a \in Accounts |-> lamports[a] + To(a, CharliePool, Deposit(CharliePool))]
    <3>1. lamports \in [Accounts -> Int] /\ Deposit(CharliePool) \in Int
      BY LamportsAssumption DEF FInv, FeeTypeOK, Deposit, To
    <3>2. f1 = WithRent({CharliePool})
      BY <3>1 DEF WithRent, Opened, Deposit, To
    <3>3. Balances(f1) = Balances(lamports) + Deposit(CharliePool)
      BY <2>1, <3>1, LegAdds
    <3> QED BY <3>2, <3>3
  <2> QED BY <2>2, <2>3
<1>4. ASSUME NEW m \in Enrolled, NEW r \in Offered, InitRoute(m, r) PROVE Goal
  <2>1. Collector(m) \in Accounts /\ BurnPool(m) \in Accounts /\ Collector(m) # BurnPool(m)
    BY Distinct, ProgramsAssumption DEF Accounts
  <2>2. /\ lamports' = WithRent({Collector(m), BurnPool(m)})
        /\ outside' = outside + (Deposit(Collector(m)) + Deposit(BurnPool(m)))
    BY <1>4 DEF InitRoute, Become, Pools
  <2> QED BY <2>1, <2>2, OpeningConserves DEF FInv
<1>5. ASSUME NEW m \in Enrolled, Distribute(m) PROVE Goal
  <2>1. m \in Coins /\ Ready(m)
    BY <1>5, ProgramsAssumption DEF Distribute
  <2>2. lamports' = Distributed(m) /\ outside' = outside + (-Share(Above(Collector(m)), route[m].sol))
    BY <1>5 DEF Distribute, Become
  <2>3. Share(Above(Collector(m)), route[m].sol) \in Nat
    <3>1. Collector(m) \in Accounts
      BY <2>1, Distinct DEF Accounts
    <3> QED BY <2>1, <3>1, AboveNat, RouteSharesFit DEF FInv, Ready
  <2> QED BY <1>1, <2>1, <2>2, <2>3, DistributionConserves
<1>6. ASSUME NEW m \in Served, NEW ops \in OpsWallets, Initialise(m, ops) PROVE Goal
  <2>1. Vault(m) \in Accounts /\ BurnVault(m) \in Accounts /\ Vault(m) # BurnVault(m)
    BY Distinct, ProgramsAssumption DEF Accounts
  <2>2. /\ lamports' = WithRent({Vault(m), BurnVault(m)})
        /\ outside' = outside + (Deposit(Vault(m)) + Deposit(BurnVault(m)))
    BY <1>6 DEF Initialise, Become, Vaults
  <2> QED BY <2>1, <2>2, OpeningConserves DEF FInv
<1>7. ASSUME NEW m \in Served, Split(m) PROVE Goal
  <2>1. m \in Coins /\ CanSplit(m)
    BY <1>7, ProgramsAssumption DEF Split
  <2>2. lamports' = SplitUp(m) /\ outside' = outside + (-BurnOf(Above(Vault(m))))
    BY <1>7 DEF Split, Become
  <2>3. BurnOf(Above(Vault(m))) \in Nat
    <3>1. Vault(m) \in Accounts
      BY <2>1, Distinct DEF Accounts
    <3> QED BY <3>1, AboveNat, ShareFacts, SplitterAssumption, WholeAssumption DEF Share, FInv, BurnOf
  <2> QED BY <1>1, <2>1, <2>2, <2>3, SplitConserves
<1>8. ASSUME NEW a \in Accounts, NEW n \in Fees, Pay(a, n) PROVE Goal
  <2>1. n \in Int /\ lamports' = [lamports EXCEPT ![a] = lamports[a] + n] /\ outside' = outside + n
    BY <1>8, ProgramsAssumption DEF Pay, Become
  <2>2. \A x \in Accounts : lamports'[x] = IF x = a THEN lamports[a] + n ELSE lamports[x]
    BY <2>1 DEF FInv, FeeTypeOK
  <2> QED BY <2>1, <2>2, TransferConserves DEF FInv
<1>9. ASSUME NEW w \in Wallets, Withdraw(w) PROVE Goal
  <2>1. w \in Accounts /\ lamports \in [Accounts -> Nat] /\ lamports[w] \in Nat
    BY DEF Accounts, FInv, FeeTypeOK
  <2>2. lamports' = [lamports EXCEPT ![w] = 0] /\ outside' = outside + (-lamports[w])
    BY <1>9 DEF Withdraw, Become
  <2>3. -lamports[w] \in Int /\ lamports[w] + (-lamports[w]) = 0
    BY <2>1
  <2>4. \A x \in Accounts : lamports'[x] = IF x = w THEN lamports[w] + (-lamports[w]) ELSE lamports[x]
    BY <2>1, <2>2, <2>3
  <2> QED BY <2>1, <2>2, <2>3, <2>4, TransferConserves DEF FInv
<1>10. \A n \in Coins : Collector(n) \in Accounts /\ Vault(n) \in Accounts
  BY Distinct DEF Accounts
<1>11. CASE Protocol
  BY <1>2, <1>3, <1>4, <1>5, <1>11 DEF Protocol, SetRoute
<1>12. CASE Split3
  BY <1>6, <1>7, <1>12 DEF Split3
<1>13. CASE World
  BY <1>8, <1>9, <1>10, <1>13, ProgramsAssumption DEF World
<1>14. CASE UNCHANGED vars
  BY <1>2, <1>14 DEF vars
<1> QED BY <1>11, <1>12, <1>13, <1>14 DEF Next

\* Neither program makes or loses a lamport: what the accounts hold is what was
\* brought in less what was burned or withdrawn, whatever ops address a route
\* names, one of the accounts of the distribution itself included (distribute,
\* split).
THEOREM NothingIsLost == Spec => []Conserved
<1> DEFINE CInv == Balances(lamports) = outside
<1>1. Init => CInv
  <2> SUFFICES ASSUME Init PROVE CInv
    OBVIOUS
  <2>1. \A a \in Accounts : lamports[a] = 0
    BY DEF Init, LamportsInit
  <2> QED BY <2>1, AccountsFinite, SumZero DEF Balances, Init, LamportsInit
<1>2. FInv /\ CInv /\ [Next]_vars => CInv'
  <2>1. Balances(lamports)' = Balances(lamports')
    BY DEF Balances
  <2> QED BY <2>1, ConservedStep
<1>3. FInv /\ CInv => Conserved
  BY BalancesSum DEF FInv, Conserved
<1> HIDE DEF CInv
<1> QED BY <1>1, <1>2, <1>3, InitFInv, FInvStep, PTL DEF Spec
================================================================================
