----------------------------- MODULE TagServices -----------------------------
(***************************************************************************)
(* A tag that met the rules of its post, its author and its words, and the *)
(* two services it still depends on before it is launched                  *)
(* (indexer/tag_bot.py, _one): the chain, read for the wallet's balance    *)
(* (Endpoints), and the moderator (SignIn).  When either cannot be had     *)
(* nothing is recorded: the cursor stays, and the next poll tries again.   *)
(***************************************************************************)
EXTENDS Endpoints, SignIn

CONSTANTS
    Bot,        \* the live bot, one of Programs
    Gap,        \* seconds between two polls
    MaxAge      \* MAX_TWEET_AGE_SECONDS, in polls

ASSUME TagServicesAssumption == Bot \in Programs /\ {Gap, MaxAge} \subseteq Nat

VARIABLES
    tag,        \* waiting for a poll, read, judged, or recorded as what it became
    polls       \* polls since it was posted

servicesVars == <<rpcVars, signVars, tag, polls>>

ServicesInit == RpcInit /\ SignInit /\ tag = "waiting" /\ polls = 0

\* tick_mentions: a poll comes upon the tag.
NeverTooOld == FALSE
TooOld == polls >= MaxAge

Poll ==
    /\ tag = "waiting" /\ ~TooOld
    /\ Begin /\ tag' = "read"
    /\ UNCHANGED <<signVars, polls>>

\* tweet_refusal comes first: neither service is asked about an old tag.
Stale ==
    /\ tag = "waiting" /\ TooOld
    /\ tag' = "stale"
    /\ UNCHANGED <<rpcVars, signVars, polls>>

ReadChain ==
    /\ tag = "read" /\ Attempt
    /\ UNCHANGED <<signVars, tag, polls>>

ChainRead ==
    /\ tag = "read" /\ call.state = "answered"
    /\ tag' = "judged" /\ call' = NoCall
    /\ UNCHANGED <<failures, cool, health, turns, signVars, polls>>

Moderate ==
    /\ tag = "judged" /\ Moderates(Bot)
    /\ UNCHANGED <<rpcVars, tag, polls>>

Verdict ==
    /\ tag = "judged" /\ memory[Bot].at \in {"safe", "unsafe"}
    /\ tag' = memory[Bot].at
    /\ Leaves(Bot)
    /\ UNCHANGED <<rpcVars, polls>>

\* _one raised: the next poll, a while later, comes upon the tag again.
Held ==
    /\ \/ tag = "read" /\ call.state = "unavailable" /\ UNCHANGED signVars
       \/ tag = "judged" /\ memory[Bot].at = "failed" /\ Leaves(Bot)
    /\ tag' = "waiting" /\ polls' = IF polls < MaxAge THEN polls + 1 ELSE polls
    /\ Rest(Gap)

\* Another tag, once this one is recorded.
Settled == {"stale", "safe", "unsafe"}
PostAnother ==
    /\ tag \in Settled
    /\ tag' = "waiting" /\ polls' = 0
    /\ Rest(Gap)
    /\ UNCHANGED signVars

Services ==
    /\ \/ (\E e \in Url, kind \in Ills \cup {"up", "upstream"} : Turn(e, kind)) /\ UNCHANGED signVars
       \/ /\ \/ \E f \in Families : Login(f)
             \/ Lapse
             \/ \E p \in Programs \ {Bot} : Moderates(p) \/ Leaves(p)
          /\ UNCHANGED rpcVars
    /\ UNCHANGED <<tag, polls>>

Work == Poll \/ Stale \/ ReadChain \/ ChainRead \/ Moderate \/ Verdict \/ Held
ServicesNext == Work \/ PostAnother \/ Services

ServicesSpec == ServicesInit /\ [][ServicesNext]_servicesVars
\* The bot's loop runs.
FairServices == ServicesSpec /\ WF_servicesVars(Work)

--------------------------------------------------------------------------------

\* A tag neither service answers for holds the cursor only until it is too old: it is
\* recorded, whatever becomes of the chain and of the sign-in (tick_mentions: `one that
\* keeps raising ages out as stale').
TagIsSettled == tag = "waiting" ~> tag \in Settled
================================================================================
