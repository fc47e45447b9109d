----------------------------- MODULE MCLaunchPage -----------------------------
EXTENDS LaunchPage

CONSTANTS m1, m2, dev, friend

TwoMints == <<m1, m2>>

\* The form as it opens, one at the floor of the incinerator whose rows round
\* up three times, and one that does not add up.
Form(fire, treasury, gift) ==
    (Incinerator :> fire) @@ (Treasury :> treasury) @@ (dev :> 10000 - fire - treasury - gift)
        @@ (IF gift = 0 THEN <<>> ELSE friend :> gift)
SomeForms == {Form(3000, 2000, 0), Form(102, 3334, 3334), [Form(3000, 2000, 0) EXCEPT ![dev] = 4999]}

\* Today's toll and an earlier one.
SomeRates == {2500, 1000}
================================================================================
