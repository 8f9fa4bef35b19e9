----------------------------- MODULE MCSchedule -----------------------------
(***************************************************************************)
(* Instances of Schedule for TLC: a week of three days.                    *)
(***************************************************************************)
EXTENDS Schedule
=============================================================================
