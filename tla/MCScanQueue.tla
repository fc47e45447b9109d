------------------------------ MODULE MCScanQueue ------------------------------
(***************************************************************************)
(* Instances of Inflows and Intake for TLC: the scan of a destination, and *)
(* the queue of issues with the scan of a coin's burns.  They share no     *)
(* state, and one of them moves in each behaviour, beside the other as it  *)
(* begins.                                                                 *)
(***************************************************************************)
EXTENDS MCInflows, Intake

VARIABLE part   \* which of the two moves

allVars == <<part, inflowVars, vars>>

AllInit ==
    /\ part \in {"scan", "queue"}
    /\ InflowInit /\ Init
    /\ part = "queue" => leg = "paid"

OnlyScan(A)  == part = "scan" /\ A /\ UNCHANGED <<part, vars>>
OnlyQueue(A) == part = "queue" /\ A /\ UNCHANGED <<part, inflowVars>>

AllNext == OnlyScan(InflowNext) \/ OnlyQueue(Next)

\* FairInflows and FairSpec, each of its own part: where one part moves, the actions of
\* the other are never enabled, and their conditions can be joined.
AllFair ==
    /\ AllInit /\ [][AllNext]_allVars
    /\ WF_allVars(OnlyScan(ScanSteps) \/ OnlyQueue(Run \/ Reply))
    /\ WF_allVars(OnlyQueue(Deploy))
    /\ \A e \in Steady :
         /\ SF_allVars(\/ OnlyScan(BeginScan(e))
                       \/ OnlyQueue(Open # {} /\ Start(Oldest(Open, Limit))))
         /\ SF_allVars(\/ OnlyScan(scan.at = e /\ Forward(Len(txs), None))
                       \/ OnlyQueue(StartReply))
         /\ SF_allVars(\/ OnlyScan(scan.at = e /\ Backward(Len(txs), None, TRUE))
                       \/ OnlyQueue(\E result \in Results \ {Ours} : Take(result)))
================================================================================
