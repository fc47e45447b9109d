------------------------------- MODULE FeePrograms -------------------------------
(***************************************************************************)
(* Both fee programs on one chain.  They share no account of their own,    *)
(* but pay the same ops wallets, and the burns of both leave the supply.   *)
(***************************************************************************)
EXTENDS FeeRoute, Splitter, Functions, FiniteSets

CONSTANTS
    Enrolled, Served,   \* coins whose fee goes to a collector, or to a vault
    Offered,            \* bound: the routes devs write
    Fees                \* bound: lamports pump pays at once

ASSUME ProgramsAssumption ==
    /\ Enrolled \subseteq Coins /\ Served \subseteq Coins
    /\ Fees \subseteq Nat \ {0}
    /\ IsFiniteSet(Coins) /\ IsFiniteSet(Wallets)

vars == <<Holdings, route, config>>

Init == LamportsInit /\ RouteInit /\ SplitterInit

Protocol ==
    /\ \/ InitCharliePool
       \/ \E m \in Enrolled, r \in Offered : InitRoute(m, r) \/ SetRoute(m, r)
       \/ \E m \in Enrolled : Distribute(m)
    /\ UNCHANGED config

Split3 ==
    /\ \E m \in Served : Split(m) \/ \E ops \in OpsWallets : Initialise(m, ops)
    /\ UNCHANGED route

World ==
    /\ \/ \E n \in Fees : \/ \E m \in Enrolled : Pay(Collector(m), n)
                          \/ \E m \in Served : Pay(Vault(m), n)
       \/ \E w \in Wallets : Withdraw(w)
    /\ UNCHANGED <<route, config>>

Next == Protocol \/ Split3 \/ World

Spec == Init /\ [][Next]_vars

\* Both cranks are permissionless: somebody runs them while there is something
\* to pay.
FairSpec == Spec /\ \A m \in Coins : WF_vars(Distribute(m) /\ UNCHANGED config)
                                     /\ WF_vars(Split(m) /\ UNCHANGED route)

--------------------------------------------------------------------------------
(* Invariants. *)

\* Every balance, route and configuration is one the accounts can hold: a
\* leg never takes a balance below zero, a route never takes from the toll.
FeeTypeOK ==
    /\ lamports \in [Accounts -> Nat] /\ created \subseteq Derived /\ outside \in Int
    /\ route \in [Coins -> Shares \cup {NoRoute}]
    /\ \A m \in Coins : route[m].open => route[m].sol + route[m].own + route[m].ops + Toll = Whole
    /\ config \in [Coins -> OpsWallets \cup {NoConfig}]

\* What a program created it never closes: each pool keeps its rent, so that
\* pump and the legs can go on paying it (distribute, split).
PoolsStayOpen == \A a \in created : lamports[a] >= Rent

\* Every balance that is not zero is rent exempt, and the burn pool of a coin
\* with a route can be paid: why a distribution is never refused.
Solid ==
    /\ \A a \in Accounts : lamports[a] = 0 \/ lamports[a] >= Rent
    /\ \A m \in Coins : route[m].open => lamports[BurnPool(m)] >= Rent

FInv == FeeTypeOK /\ PoolsStayOpen /\ Solid

\* No ops wallet, route or balance makes the runtime refuse a distribution that
\* the program would pay: one leg never takes the others down with it.
DistributeGoesThrough == \A m \in Coins : Ready(m) => Accepted(Distributed(m))

\* The same of a split.
SplitGoesThrough == \A m \in Coins : CanSplit(m) => Accepted(SplitUp(m))

\* The runtime refuses nothing that either program would pay (the rent checks of
\* distribute and of split).
NothingIsRefused == DistributeGoesThrough /\ SplitGoesThrough

\* No lamport is made or lost by either program, though an ops address may be
\* another of the accounts a distribution touches.
Conserved == SumFunction(lamports) = outside

--------------------------------------------------------------------------------
(* What a step may never do, and what must happen. *)

\* No lamport leaves a collector without its toll, whatever routes were written
\* before: the pool gains its share of all that the collector loses.
TollFirst ==
    [][\A m \in Enrolled : lamports'[Collector(m)] < lamports[Collector(m)] =>
            lamports'[CharliePool] - lamports[CharliePool]
                >= Share(lamports[Collector(m)] - lamports'[Collector(m)], Toll)]_vars

Owed(C)  == {m \in C : Above(Collector(m)) * Toll >= Whole}
TollDue  == Owed({m \in Enrolled : Ready(m)})

\* When no more fees come, every toll due on a collector of the program is paid
\* in the end, whatever the dev's wallet holds meanwhile (distribute).
TollArrives == <>[](TollDue = {})

================================================================================
