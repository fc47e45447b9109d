-------------------------------- MODULE FeeRoute --------------------------------
(***************************************************************************)
(* The protocol program (program/src/lib.rs): an enrolled coin's creator   *)
(* fee arrives in collector(mint), and distribute divides it between the   *)
(* toll, the two burns and the dev's ops wallet.                           *)
(*                                                                         *)
(* Account checks that compare a passed address with the derived one are   *)
(* not modelled: an action is given the accounts that pass them.  Init and *)
(* set_route ask for a signature and do not look whose it is.              *)
(***************************************************************************)
EXTENDS Lamports

CONSTANTS
    Toll,           \* TOLL_BPS
    Payees          \* ops addresses a dev may name

ASSUME RouteAssumption == Toll \in 0..Whole /\ Payees \subseteq Accounts

VARIABLE route      \* coin -> route(mint)

NoRoute == [sol |-> 0, own |-> 0, ops |-> 0, address |-> CharliePool, open |-> FALSE]
Shares  == [sol : 0..Whole, own : 0..Whole, ops : 0..Whole, address : Payees, open : {TRUE}]

\* DEV_BPS_TOTAL, enforced on every write.
Valid(r) == r.sol + r.own + r.ops = Whole - Toll
Routes   == {r \in Shares : Valid(r)}

RouteInit == route = [m \in Coins |-> NoRoute]

InitCharliePool ==
    /\ CharliePool \notin created
    /\ lamports[CharliePool] = 0        \* or create_account fails
    /\ created' = created \cup {CharliePool}
    /\ Become(WithRent({CharliePool}), Deposit(CharliePool))
    /\ UNCHANGED route

\* Creates the route, and the collector and the burn pool unless they already
\* hold lamports.
Pools(m) == {Collector(m), BurnPool(m)}

InitRoute(m, r) ==
    /\ ~route[m].open
    /\ r \in Routes
    /\ route' = [route EXCEPT ![m] = r]
    /\ created' = created \cup Opened(Pools(m))
    /\ Become(WithRent(Pools(m)), Deposit(Collector(m)) + Deposit(BurnPool(m)))

SetRoute(m, r) ==
    /\ route[m].open
    /\ r \in Routes
    /\ route' = [route EXCEPT ![m] = r]
    /\ UNCHANGED Holdings

--------------------------------------------------------------------------------
(* distribute. *)

TollOf(l, r)     == Share(l, Toll)

\* What the collector is debited is what the legs were paid.
DebitOfSplit(l, r) == TollOf(l, r) + Share(l, r.sol) + Share(l, r.own) + Share(l, r.ops)
Debit(l, r)  == TollOf(l, r) + Share(l, r.sol) + Share(l, r.own)
                      + OpsAmount(Share(l, r.ops), r.address)

Distributed(m) ==
    LET r == route[m]
        l == Above(Collector(m))
    IN  [a \in Accounts |->
            lamports[a] + To(a, CharliePool, TollOf(l, r))
                        + To(a, BurnPool(m), Share(l, r.own))
                        + To(a, r.address, OpsAmount(Share(l, r.ops), r.address))
                        - To(a, Collector(m), Debit(l, r))]

\* The checks a distribution passes before it moves anything.
ReadyWithOps(m) ==
    /\ route[m].open /\ CharliePool \in created /\ Collector(m) \in created
    /\ lamports[route[m].address] >= Rent
Ready(m) == route[m].open /\ CharliePool \in created /\ Collector(m) \in created

Distribute(m) ==
    /\ Ready(m)
    /\ Above(Collector(m)) > 0
    /\ Become(Distributed(m), -Share(Above(Collector(m)), route[m].sol))
    /\ UNCHANGED <<created, route>>
================================================================================
