---------------------------- MODULE OncePerDate ----------------------------
(***************************************************************************)
(* What the control loop promises its garden, whatever fails and however   *)
(* often the process is killed: one zone has water at a time, a zone is    *)
(* watered once for a date at most, only for a date that is not on record  *)
(* as run, and a date goes on record when the water has stopped.           *)
(***************************************************************************)
EXTENDS Naturals

CONSTANTS Zones,   \* zones of the garden
          Dates    \* dates a run can have

VARIABLES recorded,  \* the last date on record as run, 0 before the first
          watered,   \* the last date each zone was watered for
          flowing    \* zones whose valve was opened and reported so

gardenVars == <<recorded, watered, flowing>>

GardenInit ==
  /\ recorded = 0
  /\ watered = [z \in Zones |-> 0]
  /\ flowing = {}

\* A command that works and reports failure waters without being known to.
WaterZone(z, d) ==
  /\ flowing = {}
  /\ recorded < d
  /\ watered[z] < d
  /\ watered' = [watered EXCEPT ![z] = d]
  /\ flowing' \in {{}, {z}}
  /\ UNCHANGED recorded

\* One zone's valve is shut, or all of them.
StopWater ==
  /\ \/ \E z \in flowing : flowing' = flowing \ {z}
     \/ flowing' = {}
  /\ UNCHANGED <<recorded, watered>>

RecordDate(d) ==
  /\ flowing = {}
  /\ recorded < d
  /\ recorded' = d
  /\ UNCHANGED <<watered, flowing>>

GardenNext ==
  \/ \E z \in Zones, d \in Dates : WaterZone(z, d)
  \/ StopWater
  \/ \E d \in Dates : RecordDate(d)

GardenSpec == GardenInit /\ [][GardenNext]_gardenVars
=============================================================================
