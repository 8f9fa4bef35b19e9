------------------------------ MODULE MCServer ------------------------------
(***************************************************************************)
(* Instances of Server for TLC: two valves, of one zone or two.            *)
(***************************************************************************)
EXTENDS Server, TLC

Lawn == [Number |-> 0, MinVWC |-> 30000, MaxVWC |-> 40000, ZoneETRate |-> 40,
         DepthIn |-> 8, RunTimeMultiplier |-> 10]
Bed  == [Number |-> 1, MinVWC |-> 15000, MaxVWC |-> 20000, ZoneETRate |-> 20,
         DepthIn |-> 6, RunTimeMultiplier |-> 15]

JustLawn   == {0 :> Lawn}
LawnAndBed == {0 :> Lawn @@ 1 :> Bed}
MayDropBed == LawnAndBed \cup JustLawn

HotMildFrost == <<[X1 |-> 40, X2 |-> 80, Y |-> 10],
                  [X1 |-> 80, X2 |-> 120, Y |-> 30]>>
OneWeather == {[tempY |-> 90, precipY |-> 0, precipF |-> 0]}

\* Requests are alike: nothing tells one from another.
RequestSymmetry == Permutations(Requests)
=============================================================================
