----------------------------- MODULE MCRunLoop -----------------------------
(***************************************************************************)
(* Instances of RunLoop for TLC.                                           *)
(***************************************************************************)
EXTENDS RunLoop, TLC

\* A lawn that can hold 40% and is run below 30%, and a bed that can hold
\* 20% and is run below 15%.
Lawn == [Number |-> 0, MinVWC |-> 30000, MaxVWC |-> 40000, ZoneETRate |-> 40,
         DepthIn |-> 8, RunTimeMultiplier |-> 10]
Bed  == [Number |-> 1, MinVWC |-> 15000, MaxVWC |-> 20000, ZoneETRate |-> 20,
         DepthIn |-> 6, RunTimeMultiplier |-> 15]

LawnAndBed == {0 :> Lawn @@ 1 :> Bed}
MayDropBed == LawnAndBed \cup {0 :> Lawn}

\* A hot day takes 12% from the lawn and 6% from the bed, so that both are
\* run, a mild one 4% and 2%, so that neither needs to be.
HotMildFrost == <<[X1 |-> 40, X2 |-> 80, Y |-> 10],
                  [X1 |-> 80, X2 |-> 120, Y |-> 30]>>

Dry   == [tempY |-> 90, precipY |-> 0, precipF |-> 0]
Mild  == [tempY |-> 60, precipY |-> 0, precipF |-> 0]

TwoWeathers == {Dry, Mild}
OneWeather == {Dry}
=============================================================================
