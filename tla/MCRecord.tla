------------------------------- MODULE MCRecord -------------------------------
EXTENDS Record

\* $CHARLIE's split; a coin's, enrolled and not; and an account that is not the
\* one it was read as.  The rates are such that two rows carry every leg.
SomeConfigs ==
    {[split |-> (BurnAddress :> 10000), own |-> TRUE, charlie |-> TRUE],
     [split |-> (Incinerator :> 75) @@ (Toll :> 9925), own |-> TRUE, charlie |-> FALSE],
     [split |-> (BurnAddress :> 10000), own |-> TRUE, charlie |-> FALSE],
     [split |-> (BurnAddress :> 9000), own |-> FALSE, charlie |-> FALSE]}
================================================================================
