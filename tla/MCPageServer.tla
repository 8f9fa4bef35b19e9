---------------------------- MODULE MCPageServer ----------------------------
(***************************************************************************)
(* An instance of PageServer for TLC: two zones, a queue of two.           *)
(***************************************************************************)
EXTENDS PageServer, TLC

\* The loop does not run: its parameters do not matter.
NoConfig == {[k \in {} |-> 0]}
OneWeather == {[tempY |-> 90, precipY |-> 0, precipF |-> 0]}
NoRanges == << >>
=============================================================================
