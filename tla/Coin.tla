--------------------------------- MODULE Coin ---------------------------------
(***************************************************************************)
(* A coin on the chain, and what the evidence store holds of it            *)
(* (indexer/evidence.py) once the commands that fill it have run           *)
(* (indexer/cli.py: scan, derive and the rest; indexer/coverage.py).       *)
(*                                                                         *)
(* Abstractions.  The walks of the store are a module of their own         *)
(* (Inflows): here a walk leaves what some prefix of the history holds.  A *)
(* burn is of one token.  Opening balances are left out: none is recorded  *)
(* of a burn address, and no check reads those of the others.              *)
(***************************************************************************)
EXTENDS Legs, Sequences, Functions, SequencesExt

CONSTANTS
    Configs,        \* the sharing configs a coin may have; one is $CHARLIE's own
    BurnAddress,    \* the grandfathered address: burn111
    Kinds,          \* who burns $CHARLIE, and how: the collection wallet beside a
                    \* buy (`bought') or without one (`bare'), or a `stranger'
    Initial,        \* the supply at the coin's creation
    None,           \* nothing of its kind
    MaxPaid,        \* bound: lamports paid in all
    MaxBurns,       \* bound: burns of $CHARLIE
    MaxStrange,     \* bound: burns of another coin
    MaxFaults       \* bound: failed reads, pruned and short histories, reissues

ASSUME CoinAssumption ==
    /\ \A c \in Configs :
         /\ DOMAIN c.split # {} /\ IsFiniteSet(DOMAIN c.split)
         /\ {c.own, c.charlie} \subseteq BOOLEAN
    /\ Kinds \subseteq {"bought", "bare", "stranger"}
    /\ {Initial, MaxPaid, MaxBurns, MaxStrange, MaxFaults} \subseteq Nat
    /\ {MaxBurns, MaxStrange} \subseteq 0 .. Initial

VARIABLES
    coin,       \* the coin on the chain
    store,      \* what the evidence store holds of it
    faults      \* (bound) faults so far

Recipients == UNION {DOMAIN c.split : c \in Configs}

Total(split) == MapThenSumSet(LAMBDA a : split[a], DOMAIN split)
Paid == MapThenSumSet(LAMBDA a : coin.paid[a], Recipients)

\* decode_sharing_config
Addresses == DOMAIN coin.config.split
Supply == Initial + coin.reissued - Len(coin.burns)

\* classify: no program is registered, so nothing is on the burn leg.
LegOf(a) == IF a \in {Incinerator, BurnAddress} THEN "sol_burn" ELSE "paid"
OnLeg(leg) == {a \in Addresses : LegOf(a) = leg}

Unwalked == [done |-> FALSE, sum |-> 0]

Charlie == coin.config.charlie

\* $CHARLIE's split is spent and its mint authority revoked.
CoinInit ==
    /\ \E c \in Configs, who \in {"wallet", "config"}, live \in BOOLEAN :
         /\ c.charlie => who = "config" /\ ~live
         /\ coin = [config |-> c, creator |-> who, fixed |-> c.charlie, authority |-> live,
                    reissued |-> 0, burns |-> <<>>, paid |-> [a \in Recipients |-> 0]]
    /\ store = [inflow |-> [a \in Recipients |-> Unwalked],
                walked |-> FALSE, seen |-> 0, initial |-> "underived", recorded |-> FALSE]
    /\ faults = 0

Costs(n) == faults + n <= MaxFaults /\ faults' = faults + n
Count(condition) == IF condition THEN 1 ELSE 0

--------------------------------------------------------------------------------
(* The chain. *)

Burn(kind) ==
    /\ kind = "stranger" \/ Charlie
    /\ Len(coin.burns) < IF Charlie THEN MaxBurns ELSE MaxStrange
    /\ coin' = [coin EXCEPT !.burns = Append(@, kind)]
    /\ UNCHANGED <<store, faults>>

Pay(a) ==
    /\ coin.creator = "config" /\ a \in Addresses /\ Paid < MaxPaid
    /\ coin' = [coin EXCEPT !.paid[a] = @ + 1]
    /\ UNCHANGED <<store, faults>>

Reissue ==
    /\ coin.authority /\ Costs(1)
    /\ coin' = [coin EXCEPT !.reissued = @ + 1]
    /\ UNCHANGED store

Revoke ==
    /\ coin.authority
    /\ coin' = [coin EXCEPT !.authority = FALSE]
    /\ UNCHANGED <<store, faults>>

\* Its creator splits the fees; the split changes once; and pump's admin can
\* name another creator.
SplitFees ==
    /\ coin.creator = "wallet"
    /\ coin' = [coin EXCEPT !.creator = "config"]
    /\ UNCHANGED <<store, faults>>

UpdateShares ==
    /\ coin.creator = "config" /\ ~coin.fixed
    /\ \E c \in Configs :
         /\ c.own = coin.config.own /\ ~c.charlie
         /\ coin' = [coin EXCEPT !.config = c, !.fixed = TRUE]
    /\ UNCHANGED <<store, faults>>

AdminCto ==
    /\ coin.creator = "config" /\ Costs(1)
    /\ coin' = [coin EXCEPT !.creator = "other"]
    /\ UNCHANGED store

World ==
    \/ \E kind \in Kinds : Burn(kind)
    \/ \E a \in Recipients : Pay(a)
    \/ Reissue \/ Revoke \/ SplitFees \/ UpdateShares \/ AdminCto

--------------------------------------------------------------------------------
(* The walks of the store. *)

\* scan: done once a walk has reached the start of what the node can read.
WalkInflow(a) ==
    /\ coin.creator = "config" /\ a \in Addresses
    /\ \E sum \in store.inflow[a].sum .. coin.paid[a], reached, pruned \in BOOLEAN :
         /\ (reached /\ ~store.inflow[a].done) => (pruned \/ sum = coin.paid[a])
         /\ pruned => reached /\ ~store.inflow[a].done /\ sum < coin.paid[a]
         /\ store' = [store EXCEPT !.inflow[a] = [done |-> @.done \/ reached, sum |-> sum]]
         /\ Costs(Count(pruned))
    /\ UNCHANGED coin

WalkBurns ==
    /\ \E seen \in store.seen .. Len(coin.burns) :
         store' = [store EXCEPT !.seen = seen, !.walked = @ \/ seen = Len(coin.burns)]
    /\ UNCHANGED <<coin, faults>>

\* Found, or not in all the node still has: either answer is kept for good.
RecordInitial(answer) == store' = [store EXCEPT !.initial = answer]

DeriveInitial ==
    /\ store.initial = "underived"
    /\ \E answer \in {"known", "unreachable"} :
         RecordInitial(answer) /\ Costs(Count(answer = "unreachable"))
    /\ UNCHANGED coin

\* coverage.sweep reads as much of each config as one shareholder takes: a
\* config of more is counted, and not recorded.
Truncated == Cardinality(Addresses) > 1
RecordConfig == store' = [store EXCEPT !.recorded = TRUE]

Sweep ==
    /\ coin.creator # "wallet" /\ ~Truncated
    /\ RecordConfig
    /\ UNCHANGED <<coin, faults>>

Scan == (\E a \in Recipients : WalkInflow(a)) \/ WalkBurns \/ DeriveInitial \/ Sweep
================================================================================
