----------------------------- MODULE MCRunTable -----------------------------
(***************************************************************************)
(* Instances of RunTable for TLC: three zones, three slots of which an     *)
(* algorithm of two ranges reaches the last.                               *)
(***************************************************************************)
EXTENDS RunTable
=============================================================================
