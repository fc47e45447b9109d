------------------------------ MODULE MCIndexer ------------------------------
(***************************************************************************)
(* Instances of Keepers and Record for TLC: what is moved, and what is     *)
(* said of it.  They share no state, and one of them moves in each         *)
(* behaviour, beside the other as it begins.                               *)
(***************************************************************************)
EXTENDS MCKeepers, MCRecord

VARIABLE part   \* which of the two it is

allVars == <<part, vars, recordVars>>

AllInit ==
    /\ part \in {"keepers", "record"}
    /\ Init /\ RecordInit
    /\ part = "keepers" => coin.config.charlie

OnlyKeepers(A) == part = "keepers" /\ A /\ UNCHANGED <<part, recordVars>>
OnlyRecord(A)  == part = "record" /\ A /\ UNCHANGED <<part, vars>>

AllNext == OnlyKeepers(Next) \/ OnlyRecord(RecordNext)

\* As FairSpec has it of the keepers.
AllFair ==
    /\ AllInit /\ [][AllNext]_allVars
    /\ WF_allVars(OnlyKeepers(Distribute \/ Platform \/ CharlieRun \/ Launch \/ EndBuyer \/ Lands \/ Ends))
================================================================================
