------------------------------ MODULE Endpoints ------------------------------
(***************************************************************************)
(* The client every chain read goes through (indexer/rpc.py, RpcClient):   *)
(* one call asks its endpoints one after the other, sets those that fail   *)
(* aside for a while, and gives up after so many attempts.                 *)
(*                                                                         *)
(* Time is in seconds.  Abstractions.  The jitter of a delay (a quarter    *)
(* either way) is left out, and so is what is asked and answered: a result *)
(* and the node's own refusal are both its answer.                         *)
(***************************************************************************)
EXTENDS Integers, FiniteSets, FiniteSetsExt

CONSTANTS
    Urls,           \* how many endpoints, in the order given
    Retries,        \* max_retries
    Timeout,        \* timeout
    Backoff,        \* kind of failure -> seconds; `hung' is a request that times out
    Longest,        \* the longest an endpoint is set aside
    Patience,       \* the longest sleep between two attempts
    MaxFailures,    \* bound: failures counted in a row
    MaxTurns        \* bound: changes of an endpoint's health

Url == 1..Urls
Ills == DOMAIN Backoff

ASSUME EndpointsAssumption ==
    /\ {Urls, Retries, Timeout, Longest, Patience, MaxFailures} \subseteq Nat \ {0}
    /\ MaxTurns \in Nat
    /\ Backoff \in [Ills -> Nat \ {0}] /\ {"up", "upstream"} \cap Ills = {}

VARIABLES
    failures,   \* endpoint -> failures in a row
    cool,       \* endpoint -> seconds until it may be asked again
    health,     \* endpoint -> how it answers
    turns,      \* (bound) changes of health so far
    call        \* the call at work

rpcVars == <<failures, cool, health, turns, call>>

\* left, and upstream: attempts left, and upstream failures so far; firm (history):
\* the endpoints that answered when last asked, and have stayed up since it began.
Call(state, left, upstream, firm) ==
    [state |-> state, left |-> left, upstream |-> upstream, firm |-> firm]
NoCall == Call("none", 0, 0, {})

RpcInit ==
    /\ failures = [e \in Url |-> 0] /\ cool = [e \in Url |-> 0]
    /\ health \in [Url -> Ills \cup {"up", "upstream"}] /\ turns = 0
    /\ call = NoCall

Turn(e, kind) ==
    /\ turns < MaxTurns /\ turns' = turns + 1
    /\ health' = [health EXCEPT ![e] = kind]
    /\ call' = [call EXCEPT !.firm = @ \ {e}]
    /\ UNCHANGED <<failures, cool>>

After(seconds, until) == [e \in Url |-> Max({until[e] - seconds, 0})]

\* _pick: of those not set aside, the one that failed least; the first of equals.
Healthy == {e \in Url : cool[e] = 0}
Fewest == {e \in Healthy : \A d \in Healthy : failures[e] <= failures[d]}
Picked == Min(Fewest)

\* penalise
Delay(kind, n) == Min({Backoff[kind] * 2 ^ Min({n - 1, 4}), Longest})
Unpenalised(e, kind) == UNCHANGED <<failures, cool>>
Penalised(e, kind) ==
    /\ failures' = [failures EXCEPT ![e] = Min({@ + 1, MaxFailures})]
    /\ cool' = [After(IF kind = "hung" THEN Timeout ELSE 0, cool)
                    EXCEPT ![e] = Delay(kind, Min({failures[e] + 1, MaxFailures}))]

Begin ==
    /\ call.state # "open"
    /\ call' = Call("open", Retries * Urls, 0,
                    {e \in Url : failures[e] = 0 /\ health[e] = "up"})
    /\ UNCHANGED <<failures, cool, health, turns>>

Trying == call.state = "open" /\ call.left > 0

Wait ==
    /\ Trying /\ Healthy = {}
    /\ cool' = After(Min({Patience, Min({cool[e] : e \in Url})}), cool)
    /\ call' = [call EXCEPT !.left = @ - 1]
    /\ UNCHANGED <<failures, health, turns>>

Ill ==
    /\ Trying /\ Healthy # {}
    /\ health[Picked] \in Ills
    /\ Penalised(Picked, health[Picked])
    /\ call' = [call EXCEPT !.left = @ - 1]
    /\ UNCHANGED <<health, turns>>

Rewarded(e) == failures' = [failures EXCEPT ![e] = 0]

\* The gateway answers, that the node it chose did not: it is asked again, later.
Upstream ==
    /\ Trying /\ Healthy # {}
    /\ health[Picked] = "upstream"
    /\ Rewarded(Picked)
    /\ cool' = After(IF call.upstream = 0 THEN 0 ELSE IF call.upstream = 1 THEN 2 ELSE Patience, cool)
    /\ call' = [call EXCEPT !.left = @ - 1, !.upstream = Min({@ + 1, 2})]
    /\ UNCHANGED <<health, turns>>

Answered ==
    /\ Trying /\ Healthy # {}
    /\ health[Picked] = "up"
    /\ Rewarded(Picked)
    /\ call' = [call EXCEPT !.state = "answered"]
    /\ UNCHANGED <<cool, health, turns>>

\* RpcUnavailable
GiveUp ==
    /\ call.state = "open" /\ call.left = 0
    /\ call' = [call EXCEPT !.state = "unavailable"]
    /\ UNCHANGED <<failures, cool, health, turns>>

Attempt == Wait \/ Ill \/ Upstream \/ Answered \/ GiveUp

\* Between two calls time passes, and the call is over.
Rest(seconds) ==
    /\ cool' = After(seconds, cool)
    /\ call' = NoCall
    /\ UNCHANGED <<failures, health, turns>>

--------------------------------------------------------------------------------

\* A call gives up on no endpoint that answered when last asked and has stayed up
\* since, however long the others hang or are set aside, unless a gateway spent the
\* attempts on failures of its own upstream (call: `network errors, timeouts and
\* HTTP 5xx rotate to the next endpoint').
AnsweredIfOneIsUp == call.state = "unavailable" => call.firm = {} \/ call.upstream > 0
================================================================================
