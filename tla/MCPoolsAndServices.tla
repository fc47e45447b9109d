-------------------------- MODULE MCPoolsAndServices --------------------------
(***************************************************************************)
(* Instances of FeePrograms and TagServices for TLC: the pools of the two  *)
(* fee programs, and the services a tag depends on.  They share no state,  *)
(* and one of them moves in each behaviour, beside the other at rest.      *)
(***************************************************************************)
EXTENDS FeePrograms, MCTagServices

CONSTANTS coin, charlie, w

\* Every leg paid; all to the dev; the dev names their own collector; one that
\* takes more than the toll leaves, and is refused.
Route(sol, own, ops, address) ==
    [sol |-> sol, own |-> own, ops |-> ops, address |-> address, open |-> TRUE]
SomeRoutes  == {Route(1, 1, 1, w), Route(0, 0, 3, w), Route(0, 1, 2, Collector(coin)),
                Route(2, 1, 1, w)}

TwoPayees   == {w, Collector(coin)}

VARIABLE part   \* which of the two moves

allVars == <<part, vars, servicesVars>>

\* A tag at rest has been recorded.
AllInit ==
    /\ part \in {"pools", "tag"}
    /\ Init
    /\ RpcInit /\ SignInit /\ polls = 0
    /\ tag = IF part = "tag" THEN "waiting" ELSE "safe"
    /\ part = "pools" => \A e \in Url : health[e] = "up"

OnlyPools(A) == part = "pools" /\ A /\ UNCHANGED <<part, servicesVars>>
OnlyTag(A)   == part = "tag" /\ A /\ UNCHANGED <<part, vars>>

AllNext == OnlyPools(Next) \/ OnlyTag(ServicesNext)

\* FairSpec and FairServices, each of its own part: where one part moves, the actions
\* of the other are never enabled, and their conditions can be joined.
AllFair ==
    /\ AllInit /\ [][AllNext]_allVars
    /\ \A m \in Coins :
         /\ WF_allVars(OnlyPools(Distribute(m) /\ UNCHANGED config) \/ OnlyTag(Work))
         /\ WF_allVars(OnlyPools(Split(m) /\ UNCHANGED route))
================================================================================
