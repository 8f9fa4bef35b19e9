-------------------------- MODULE RunLoop_proofs --------------------------
(***************************************************************************)
(* Proofs about RunLoop, for every number of valves, every configuration,  *)
(* calendar and weather, and any number of failures of any kind.           *)
(***************************************************************************)
EXTENDS RunLoop, TLAPS

\* alg.go:125: the percentage taken for a temperature is one of the map's, or 0.
LEMMA GetYType ==
  ASSUME NEW x \in Int
  PROVE  GetY(EtPctMap, x) \in Nat
<1> DEFINE hits  == {i \in DOMAIN EtPctMap :
                       EtPctMap[i].X1 <= x /\ x < EtPctMap[i].X2}
           first == {i \in hits : \A j \in hits : i <= j}
<1>1. CASE first = {}
  BY <1>1 DEF GetY
<1>2. CASE first # {}
  <2>1. PICK i \in first : (CHOOSE k \in first : TRUE) = i
    BY <1>2
  <2>2. EtPctMap[i].Y \in Nat
    BY <2>1, WeatherAssumption DEF WeatherAssumption
  <2> QED BY <1>2, <2>1, <2>2 DEF GetY
<1> QED BY <1>1, <1>2

\* alg.go:44: min and max return one of their arguments, and bound both.
LEMMA MinMaxFacts ==
  \A a, b \in Int :
    /\ min(a, b) \in {a, b} /\ min(a, b) <= a /\ min(a, b) <= b
    /\ max(a, b) \in {a, b} /\ max(a, b) >= a /\ max(a, b) >= b
BY DEF min, max

\* Percentages are integers from nothing to full (the bound stays folded: the
\* provers need not know it).
LEMMA PctType == FullPct \in Nat /\ Pct = 0..FullPct
BY DEF Pct, FullPct

\* alg.go:84: whatever the weather, the VWC stays between nothing and what
\* the zone can hold.
LEMMA CalculateVWCBounds ==
  ASSUME NEW cur \in Pct, NEW w \in Weather, NEW zconf \in ZoneConfig
  PROVE  CalculateVWC(EtPctMap, cur, w.tempY, w.precipY, Month, zconf)
           \in 0..zconf.MaxVWC
<1>1. w.tempY \in Int /\ w.precipY \in Nat
  BY WeatherAssumption DEF WeatherAssumption
<1>2. zconf.MaxVWC \in Pct /\ zconf.ZoneETRate \in Int
  BY DEF ZoneConfig
<1>3. growthFactor[Month] \in Nat
  BY ClockAssumption DEF ClockAssumption, growthFactor, Months
<1> DEFINE remove == GetY(EtPctMap, w.tempY) * zconf.ZoneETRate
                       * growthFactor[Month]
           add    == w.precipY * 1000
<1>4. remove \in Int
  BY <1>1, <1>2, <1>3, GetYType
<1>5. add \in Int
  BY <1>1
<1>6. CalculateVWC(EtPctMap, cur, w.tempY, w.precipY, Month, zconf)
        = min(max(0, cur + add - remove), zconf.MaxVWC)
  BY DEF CalculateVWC
<1> HIDE DEF remove, add
<1>7. cur \in Int /\ zconf.MaxVWC \in Int /\ zconf.MaxVWC >= 0
  BY <1>2, PctType
<1>8. cur + add - remove \in Int
  BY <1>4, <1>5, <1>7
<1>9. max(0, cur + add - remove) \in Nat
  BY <1>8, MinMaxFacts
<1> QED
  BY <1>6, <1>7, <1>9, MinMaxFacts

\* alg.go:92: a run time is never negative.
LEMMA CalculateRuntimeType ==
  ASSUME NEW cur \in Pct, NEW w \in Weather, NEW zconf \in ZoneConfig
  PROVE  CalculateRuntime(cur, zconf.MaxVWC, w.precipF, zconf)
           * zconf.RunTimeMultiplier \in Nat
<1>1. w.precipF \in Nat
  BY WeatherAssumption DEF WeatherAssumption
<1>2. /\ zconf.MaxVWC \in Pct /\ zconf.DepthIn \in Nat
      /\ zconf.RunTimeMultiplier \in Nat
  BY DEF ZoneConfig
<1> DEFINE lack == max(0, zconf.MaxVWC - cur - w.precipF * 1000)
<1>3. lack \in Nat
  <2>1. zconf.MaxVWC \in Int /\ cur \in Int
    BY <1>2, PctType
  <2>2. zconf.MaxVWC - cur - w.precipF * 1000 \in Int
    BY <1>1, <2>1
  <2> QED BY <2>2, MinMaxFacts
<1> HIDE DEF lack
<1>4. lack * zconf.DepthIn \in Nat
  BY <1>2, <1>3
<1>5. (lack * zconf.DepthIn) \div 16000 \in Nat
  BY <1>4
<1>6. ((lack * zconf.DepthIn) \div 16000) * zconf.RunTimeMultiplier \in Nat
  BY <1>2, <1>5
<1> QED BY <1>6 DEF CalculateRuntime, lack

\* alg.go:92-95: a run brings a soil to its target at most, with the rain that
\* is forecast, and falls short of it by less than a minute's water; truncation
\* never waters more than is lacking, whatever the depth.  A minute brings
\* 16000 thousandths of a percent to an inch of soil, at a multiplier of one.
THEOREM RunTimeIsTruncated ==
  ASSUME NEW cur \in Pct, NEW target \in Pct, NEW rain \in Nat, NEW zconf \in ZoneConfig
  PROVE  LET minutes == CalculateRuntime(cur, target, rain, zconf)
             before  == (cur + rain * 1000) * zconf.DepthIn
             full    == target * zconf.DepthIn
         IN  /\ minutes \in Nat
             /\ minutes > 0 => before + minutes * 16000 <= full
             /\ full < before + (minutes + 1) * 16000
<1> DEFINE lack == target - cur - rain * 1000
           depth == zconf.DepthIn
           minutes == CalculateRuntime(cur, target, rain, zconf)
           before == (cur + rain * 1000) * depth
           full == target * depth
<1>1. cur \in Int /\ target \in Int /\ rain * 1000 \in Int /\ depth \in Nat \ {0}
  BY PctType DEF ZoneConfig
<1>2. lack \in Int /\ max(0, lack) = IF lack > 0 THEN lack ELSE 0
  BY <1>1 DEF max
<1>3. lack * depth = full - before
  BY <1>1
<1>4. minutes = (max(0, lack) * depth) \div 16000
  BY DEF CalculateRuntime
<1> HIDE DEF lack, depth, minutes
<1>5. lack * depth \in Int /\ before \in Int /\ full \in Int
  BY <1>1, <1>2
<1>6. CASE lack > 0
  <2>1. minutes = (lack * depth) \div 16000 /\ lack * depth > 0
    BY <1>1, <1>2, <1>4, <1>6
  <2>2. /\ minutes \in Nat /\ minutes * 16000 <= lack * depth
        /\ lack * depth < (minutes + 1) * 16000
    BY <1>5, <2>1
  <2> QED BY <1>3, <1>5, <2>2 DEF minutes, depth
<1>7. CASE ~(lack > 0)
  <2>1. minutes = 0
    BY <1>1, <1>2, <1>4, <1>7
  <2>2. lack * depth <= 0
    BY <1>1, <1>2, <1>7
  <2> QED BY <1>3, <1>5, <2>1, <2>2 DEF minutes, depth
<1> QED BY <1>6, <1>7
-----------------------------------------------------------------------------
\* config.go:25: NumZones of a configuration Parse accepts, or of none, is
\* within the controller's valves.
LEMMA ConfigFacts ==
  \A c \in Configs \cup {NoZones} :
    /\ NumZones(c) \in 0..NumValves
    /\ DOMAIN c \subseteq Zones
    /\ \A k \in DOMAIN c : c[k] \in ZoneConfig
<1>1. DOMAIN NoZones = {}
  BY DEF NoZones
<1>2. NumZones(NoZones) = 0
  BY <1>1 DEF NumZones
<1> QED
  BY <1>1, <1>2, ConfigAssumption, NumValvesAssumption
  DEF ConfigAssumption, NumValvesAssumption

\* A pass that has computed nothing plans no zone.
LEMMA NoPlanFacts ==
  /\ DOMAIN NoPlan.runtimes = {} /\ DOMAIN NoPlan.vwc = {}
BY DEF NoPlan, NoZones

\* data_logger.go:159: a write changes the file of its date alone, and leaves
\* there what it was to write, what was there, or nothing.
LEMMA FilesWritten ==
  ASSUME runtimesFile \in RuntimesFiles, NEW d, NEW times \in {"predicted", "actual"},
         WriteFile(d, times)
  PROVE  /\ runtimesFile' \in RuntimesFiles
         /\ \A e \in 1..MaxDay + 1 :
              runtimesFile'[e] \in {"none", runtimesFile[e]} \/ (e = d /\ runtimesFile'[e] = times)
BY DEF WriteFile, MayBeTorn, RuntimesFiles

\* ... and a process killed at it leaves what was there, or nothing.
LEMMA FilesAfterCrash ==
  ASSUME runtimesFile \in RuntimesFiles, Crash
  PROVE  /\ runtimesFile' \in RuntimesFiles
         /\ \A e \in 1..MaxDay + 1 : runtimesFile'[e] \in {"none", runtimesFile[e]}
BY DEF Crash, MayBeTorn, RuntimesFiles

\* A first start has the right types.
LEMMA TypeInit == Init => TypeOK /\ PlanScope
<1> SUFFICES ASSUME Init PROVE TypeOK /\ PlanScope
  OBVIOUS
<1> USE DEF Init
<1>1. day \in Days /\ slot \in Slots /\ now \in Times /\ faults \in 0..MaxFaults
  BY ClockAssumption, FaultAssumption
  DEF ClockAssumption, FaultAssumption, Days, Slots, Times, Midnight
<1>2. zoneState \in [Zones -> ZoneStates] /\ prevState \in ZoneStates
  BY DEF ZoneStates
<1>3. /\ vwc \in [Zones -> Pct]
      /\ lastOpened \in [Zones -> Days \cup {0}]
      /\ vwcDate \in [Zones -> Days \cup {0}]
  BY PctType
<1>4. runtimesFile \in RuntimesFiles /\ znum \in 0..NumValves
  BY NumValvesAssumption DEF NumValvesAssumption, RuntimesFiles
<1> QED
  BY <1>1, <1>2, <1>3, <1>4, NoPlanFacts
  DEF TypeOK, PlanScope, NoDate, PCs, RunZonesPCs

\* Every step keeps the types, and discards the plan of a pass that ended.
LEMMA TypeStep ==
  ASSUME TypeOK, PlanScope, [Next]_vars
  PROVE  TypeOK' /\ PlanScope'
<1> USE FaultAssumption, ConfigFacts, NoPlanFacts
    DEF TypeOK, PlanScope, Goto, GoToSleep, NextZone, PCs, RunZonesPCs,
        Succeeds, Fails, clock, store, local, history, ConfiguredZones,
        FaultAssumption, ZoneStates, SetState, SetStateFails
<1>a. /\ znum < NumZones(systemConfig) => znum + 1 \in 0..NumValves
      /\ pc \in RunZonesPCs \ {"zone"} => znum < NumZones(systemConfig)
  <2> USE NumValvesAssumption DEF NumValvesAssumption
  <2>1. NumZones(systemConfig) \in 0..NumValves
    OBVIOUS
  <2> QED BY <2>1
<1>1. CASE RunOnce
  BY <1>1 DEF RunOnce, Times
<1>2. CASE TurnAllOff
  BY <1>2 DEF TurnAllOff
<1>3. CASE ReadConfig
  BY <1>3 DEF ReadConfig
<1>4. CASE CheckIfRanToday
  BY <1>4, NumValvesAssumption DEF CheckIfRanToday, NumValvesAssumption
<1>5. CASE ResetZone
  BY <1>5, <1>a DEF ResetZone
<1>6. CASE WritePrediction
  <2>1. runtimesFile' \in RuntimesFiles
    BY <1>6, FilesWritten DEF WritePrediction
  <2> QED BY <1>6, <2>1 DEF WritePrediction, WriteFile
<1>7. CASE CalculateRuntimes
  <2>1. PICK w \in Weather, unread \in SUBSET ConfiguredZones :
          /\ IF unread = {} THEN Succeeds ELSE Fails("get")
          /\ LET planned == ConfiguredZones \ unread
                 spared  == {z \in planned :
                               NewVWC(w, z) >= systemConfig[z].MinVWC}
             IN  /\ plan' = [runtimes |-> [z \in planned |-> RunTime(w, z)],
                             vwc      |-> [z \in spared |-> NewVWC(w, z)]]
                 /\ todo' = spared
    BY <1>7, Zenon DEF CalculateRuntimes
  <2> USE DEF CalculateRuntimes
  <2> DEFINE planned == ConfiguredZones \ unread
             spared  == {z \in planned : NewVWC(w, z) >= systemConfig[z].MinVWC}
  <2>2. \A z \in planned : NewVWC(w, z) \in Pct /\ RunTime(w, z) \in Nat
    <3> SUFFICES ASSUME NEW z \in planned
                 PROVE  NewVWC(w, z) \in Pct /\ RunTime(w, z) \in Nat
      OBVIOUS
    <3>1. systemConfig[z] \in ZoneConfig /\ vwc[z] \in Pct
      OBVIOUS
    <3>2. NewVWC(w, z) \in 0..systemConfig[z].MaxVWC
      BY <3>1, CalculateVWCBounds DEF NewVWC
    <3>3. NewVWC(w, z) \in Pct
      BY <3>1, <3>2, PctType DEF ZoneConfig
    <3>4. CalculateRuntime(NewVWC(w, z), systemConfig[z].MaxVWC, w.precipF,
                           systemConfig[z]) * systemConfig[z].RunTimeMultiplier
            \in Nat
      BY <3>1, <3>3, CalculateRuntimeType
    <3> QED BY <3>3, <3>4 DEF RunTime
  <2>3. /\ plan'.runtimes = [z \in planned |-> RunTime(w, z)]
        /\ plan'.vwc = [z \in spared |-> NewVWC(w, z)]
        /\ todo' = spared
        /\ faults' \in 0..MaxFaults
    BY <2>1
  <2> HIDE DEF planned
  <2>4. /\ DOMAIN plan'.runtimes = planned
        /\ DOMAIN plan'.vwc = spared
        /\ spared \subseteq planned
        /\ \A z \in planned : plan'.runtimes[z] \in Nat
        /\ \A z \in spared : plan'.vwc[z] \in Pct
    BY <2>2, <2>3
  <2>5. planned \subseteq ConfiguredZones'
    BY <1>7 DEF planned
  <2> HIDE DEF spared
  <2> QED BY <1>7, <2>3, <2>4, <2>5
<1>8. CASE UpdateVWCInNonRunZones
  BY <1>8 DEF UpdateVWCInNonRunZones, SetVWC, SetVWCFails, Times
<1>9. CASE StartRunZones
  BY <1>9, NumValvesAssumption DEF StartRunZones, NumValvesAssumption
<1>10. CASE SelectZone
  BY <1>10, <1>a DEF SelectZone
<1>11. CASE TurnOnSetState
  <2> USE <1>11 DEF TurnOnSetState
  <2>1. zoneState' \in [Zones -> ZoneStates] /\ faults' \in 0..MaxFaults
    OBVIOUS
  <2>2. znum' \in 0..NumValves
    BY <1>a
  <2>3. znum' = znum \/ pc' = "zone"
    OBVIOUS
  <2> QED BY <2>1, <2>2, <2>3
<1>12. CASE OpenValve
  BY <1>12 DEF OpenValve, Times
<1>13. CASE SetStateUnknown
  BY <1>13, <1>a DEF SetStateUnknown
<1>14. CASE FinishFlow
  BY <1>14 DEF FinishFlow
<1>15. CASE CloseValve
  BY <1>15 DEF CloseValve
<1>16. CASE TurnOffSetState
  BY <1>16, <1>a DEF TurnOffSetState, AfterStop
<1>17. CASE UpdateState
  BY <1>17, <1>a DEF UpdateState
<1>18. CASE UpdateVWC
  BY <1>18, <1>a DEF UpdateVWC, SetVWC, SetVWCFails, ZoneConfig, Times
<1>19. CASE RestoreState
  BY <1>19, <1>a DEF RestoreState
<1>20. CASE EndRunZones
  BY <1>20 DEF EndRunZones
<1>21. CASE WriteRuntimes
  <2>1. runtimesFile' \in RuntimesFiles
    BY <1>21, FilesWritten DEF WriteRuntimes
  <2> QED BY <1>21, <2>1 DEF WriteRuntimes, WriteFile
<1>22. CASE SetLastRunDate
  BY <1>22 DEF SetLastRunDate, RunDate, Times
<1>23. CASE WakeUp
  <2> USE <1>23 DEF WakeUp
  <2>1. DOMAIN plan'.runtimes = {} /\ DOMAIN plan'.vwc = {}
    OBVIOUS
  <2>2. znum' \in 0..NumValves
    BY NumValvesAssumption DEF NumValvesAssumption
  <2>3. PlanScope'
    OBVIOUS
  <2> QED BY <2>1, <2>2, <2>3
<1>24. CASE Tick
  BY <1>24, ClockAssumption DEF Tick, ClockAssumption, Days, Slots
<1>25. CASE Crash
  <2> USE <1>25 DEF Crash
  <2>1. DOMAIN plan'.runtimes = {} /\ DOMAIN plan'.vwc = {}
    OBVIOUS
  <2>2. znum' \in 0..NumValves
    BY NumValvesAssumption DEF NumValvesAssumption
  <2>3. PlanScope'
    OBVIOUS
  <2>4. now' \in Times
    BY ClockAssumption DEF ClockAssumption, Times, Midnight, Days, Slots
  <2>5. systemConfig' \in Configs \cup {NoZones} /\ faults' \in 0..MaxFaults
    OBVIOUS
  <2>6. runtimesFile' \in RuntimesFiles
    BY FilesAfterCrash
  <2> QED BY <2>1, <2>2, <2>3, <2>4, <2>5, <2>6
<1>26. CASE Restart
  BY <1>26 DEF Restart
<1>27. CASE SetConfig
  BY <1>27 DEF SetConfig
<1>28. CASE UNCHANGED vars
  BY <1>28 DEF vars
<1> QED
  BY <1>1, <1>2, <1>3, <1>4, <1>5, <1>6, <1>7, <1>8, <1>9, <1>10, <1>11, <1>12,
     <1>13, <1>14, <1>15, <1>16, <1>17, <1>18, <1>19, <1>20, <1>21, <1>22,
     <1>23, <1>24, <1>25, <1>26, <1>27, <1>28 DEF Next, LoopStep
-----------------------------------------------------------------------------
\* The zone at hand in the body of runZones is on a valve of the controller.
LEMMA PlannedAreZones ==
  ASSUME TypeOK
  PROVE  /\ DOMAIN plan.runtimes \subseteq Zones
         /\ pc \in RunZonesPCs \ {"zone"} => znum \in Zones
BY ConfigFacts DEF TypeOK, ConfiguredZones

\* Every step keeps the dates on record behind the clock, and those of a run
\* behind the pass at work (control.go:120-204).
LEMMA DatesStep ==
  ASSUME RecordInv, [Next]_vars
  PROVE  Dates'
<1> USE DEF RecordInv, TypeOK, Dates, ZoneAtHand, Goto, GoToSleep, NextZone, PCs,
            RunZonesPCs, PassPCs, RunPCs, Days, Times, NoDate, Idle, Running,
            Unknown, Complete, clock, store, local, history, SetState,
            SetStateFails
<1>a. DOMAIN runtimesFile = 1..MaxDay + 1 /\ DOMAIN runtimesFile' = 1..MaxDay + 1
      /\ MaxDay \in Nat
  BY TypeStep, ClockAssumption DEF RuntimesFiles, ClockAssumption
<1>1. CASE RunOnce
  BY <1>1 DEF RunOnce
<1>2. CASE TurnAllOff
  BY <1>2 DEF TurnAllOff
<1>3. CASE ReadConfig
  BY <1>3 DEF ReadConfig
<1>4. CASE CheckIfRanToday
  BY <1>4 DEF CheckIfRanToday, tooEarly
<1>5. CASE ResetZone
  BY <1>5 DEF ResetZone
<1>6. CASE WritePrediction
  <2>1. \A e \in 1..MaxDay + 1 :
          runtimesFile'[e] = "actual" => runtimesFile[e] = "actual"
    BY <1>6, FilesWritten DEF WritePrediction
  <2> QED BY <1>6, <1>a, <2>1 DEF WritePrediction
<1>7. CASE CalculateRuntimes
  BY <1>7 DEF CalculateRuntimes
<1>8. CASE UpdateVWCInNonRunZones
  BY <1>8 DEF UpdateVWCInNonRunZones, SetVWC, SetVWCFails
<1>9. CASE StartRunZones
  BY <1>9 DEF StartRunZones
<1>10. CASE SelectZone
  BY <1>10 DEF SelectZone
<1>11. CASE TurnOnSetState
  BY <1>11 DEF TurnOnSetState
<1>12. CASE OpenValve
  BY <1>12 DEF OpenValve
<1>13. CASE SetStateUnknown
  BY <1>13 DEF SetStateUnknown
<1>14. CASE FinishFlow
  BY <1>14 DEF FinishFlow
<1>15. CASE CloseValve
  BY <1>15 DEF CloseValve
<1>16. CASE TurnOffSetState
  BY <1>16 DEF TurnOffSetState, AfterStop
<1>17. CASE UpdateState
  BY <1>17 DEF UpdateState
<1>18. CASE UpdateVWC
  BY <1>18 DEF UpdateVWC, SetVWC, SetVWCFails
<1>19. CASE RestoreState
  BY <1>19 DEF RestoreState
<1>20. CASE EndRunZones
  BY <1>20 DEF EndRunZones
<1>21. CASE WriteRuntimes
  <2>1. \A e \in 1..MaxDay + 1 :
          runtimesFile'[e] = "actual" => runtimesFile[e] = "actual" \/ e = now.day
    BY <1>21, FilesWritten DEF WriteRuntimes
  <2> QED BY <1>21, <1>a, <2>1 DEF WriteRuntimes
<1>22. CASE SetLastRunDate
  BY <1>22 DEF SetLastRunDate, RunDate
<1>23. CASE WakeUp
  BY <1>23 DEF WakeUp
<1>24. CASE Tick
  BY <1>24, <1>a DEF Tick, Days, Slots
<1>25. CASE Crash
  <2>1. \A e \in 1..MaxDay + 1 :
          runtimesFile'[e] = "actual" => runtimesFile[e] = "actual"
    BY <1>25, FilesAfterCrash
  <2> QED BY <1>25, <1>a, <2>1 DEF Crash
<1>26. CASE Restart
  BY <1>26 DEF Restart
<1>27. CASE SetConfig
  BY <1>27 DEF SetConfig
<1>28. CASE UNCHANGED vars
  BY <1>28 DEF vars
<1> QED
  BY <1>1, <1>2, <1>3, <1>4, <1>5, <1>6, <1>7, <1>8, <1>9, <1>10, <1>11, <1>12,
     <1>13, <1>14, <1>15, <1>16, <1>17, <1>18, <1>19, <1>20, <1>21, <1>22,
     <1>23, <1>24, <1>25, <1>26, <1>27, <1>28 DEF Next, LoopStep

\* Every step keeps what runZones knows of the zone at hand; the single
\* opening per date follows (control.go:299-354).
LEMMA ZoneAtHandStep ==
  ASSUME RecordInv, [Next]_vars
  PROVE  ZoneAtHand' /\ AtMostOncePerDate'
<1> USE DEF RecordInv, TypeOK, Dates, ZoneAtHand, AtMostOncePerDate,
            Goto, GoToSleep, NextZone, PCs, RunZonesPCs, PassPCs, RunPCs, Days,
            Times, NoDate, Idle, Running, Unknown, Complete, clock, store,
            local, history, SetState, SetStateFails
<1>a. /\ DOMAIN plan.runtimes \subseteq Zones
      /\ pc \in RunZonesPCs \ {"zone"} => znum \in Zones
  BY PlannedAreZones
<1>1. CASE RunOnce
  BY <1>1 DEF RunOnce
<1>2. CASE TurnAllOff
  BY <1>2 DEF TurnAllOff
<1>3. CASE ReadConfig
  BY <1>3 DEF ReadConfig
<1>4. CASE CheckIfRanToday
  BY <1>4 DEF CheckIfRanToday
<1>5. CASE ResetZone
  BY <1>5 DEF ResetZone
<1>6. CASE WritePrediction
  BY <1>6 DEF WritePrediction, WriteFile
<1>7. CASE CalculateRuntimes
  BY <1>7 DEF CalculateRuntimes
<1>8. CASE UpdateVWCInNonRunZones
  BY <1>8 DEF UpdateVWCInNonRunZones, SetVWC, SetVWCFails
<1>9. CASE StartRunZones
  BY <1>9 DEF StartRunZones
<1>10. CASE SelectZone
  BY <1>10, <1>a DEF SelectZone, AlreadyRan, LeftOn, ZoneStates
<1>11. CASE TurnOnSetState
  BY <1>11, <1>a DEF TurnOnSetState
<1>12. CASE OpenValve
  BY <1>12, <1>a DEF OpenValve
<1>13. CASE SetStateUnknown
  BY <1>13 DEF SetStateUnknown
<1>14. CASE FinishFlow
  BY <1>14 DEF FinishFlow
<1>15. CASE CloseValve
  BY <1>15 DEF CloseValve
<1>16. CASE TurnOffSetState
  BY <1>16, <1>a DEF TurnOffSetState, AfterStop
<1>17. CASE UpdateState
  BY <1>17 DEF UpdateState
<1>18. CASE UpdateVWC
  BY <1>18 DEF UpdateVWC, SetVWC, SetVWCFails
<1>19. CASE RestoreState
  BY <1>19 DEF RestoreState
<1>20. CASE EndRunZones
  BY <1>20 DEF EndRunZones
<1>21. CASE WriteRuntimes
  BY <1>21 DEF WriteRuntimes, WriteFile
<1>22. CASE SetLastRunDate
  BY <1>22 DEF SetLastRunDate
<1>23. CASE WakeUp
  BY <1>23 DEF WakeUp
<1>24. CASE Tick
  BY <1>24 DEF Tick
<1>25. CASE Crash
  BY <1>25 DEF Crash
<1>26. CASE Restart
  BY <1>26 DEF Restart
<1>27. CASE SetConfig
  BY <1>27 DEF SetConfig
<1>28. CASE UNCHANGED vars
  BY <1>28 DEF vars
<1> QED
  BY <1>1, <1>2, <1>3, <1>4, <1>5, <1>6, <1>7, <1>8, <1>9, <1>10, <1>11, <1>12,
     <1>13, <1>14, <1>15, <1>16, <1>17, <1>18, <1>19, <1>20, <1>21, <1>22,
     <1>23, <1>24, <1>25, <1>26, <1>27, <1>28 DEF Next, LoopStep

\* Every step keeps what is on record.
LEMMA RecordStep ==
  ASSUME RecordInv, [Next]_vars
  PROVE  RecordInv'
BY TypeStep, DatesStep, ZoneAtHandStep DEF RecordInv

\* Every step keeps an open valve on record, and what runZones has shut shut
\* (zone.go:84-120).
LEMMA FlowStep ==
  ASSUME Inv, [Next]_vars
  PROVE  OpenIsRecorded' /\ ZoneShut'
<1> USE DEF Inv, RecordInv, TypeOK, Dates, ZoneAtHand, OpenIsRecorded, ZoneShut,
            Goto, GoToSleep, NextZone, PCs, RunZonesPCs, PassPCs, RunPCs, Days,
            Times, NoDate, Idle, Running, Unknown, Complete, clock, store,
            local, history, SetState, SetStateFails
<1>a. /\ DOMAIN plan.runtimes \subseteq Zones
      /\ pc \in RunZonesPCs \ {"zone"} => znum \in Zones
  BY PlannedAreZones
<1>1. CASE RunOnce
  BY <1>1 DEF RunOnce
<1>2. CASE TurnAllOff
  BY <1>2 DEF TurnAllOff
<1>3. CASE ReadConfig
  BY <1>3 DEF ReadConfig
<1>4. CASE CheckIfRanToday
  BY <1>4 DEF CheckIfRanToday
<1>5. CASE ResetZone
  BY <1>5 DEF ResetZone
<1>6. CASE WritePrediction
  BY <1>6 DEF WritePrediction, WriteFile
<1>7. CASE CalculateRuntimes
  BY <1>7 DEF CalculateRuntimes
<1>8. CASE UpdateVWCInNonRunZones
  BY <1>8 DEF UpdateVWCInNonRunZones, SetVWC, SetVWCFails
<1>9. CASE StartRunZones
  BY <1>9 DEF StartRunZones
<1>10. CASE SelectZone
  BY <1>10, <1>a DEF SelectZone, AlreadyRan, LeftOn, ZoneStates
<1>11. CASE TurnOnSetState
  BY <1>11, <1>a DEF TurnOnSetState
<1>12. CASE OpenValve
  BY <1>12, <1>a DEF OpenValve
<1>13. CASE SetStateUnknown
  BY <1>13 DEF SetStateUnknown
<1>14. CASE FinishFlow
  BY <1>14 DEF FinishFlow
<1>15. CASE CloseValve
  BY <1>15 DEF CloseValve
<1>16. CASE TurnOffSetState
  BY <1>16, <1>a DEF TurnOffSetState, AfterStop
<1>17. CASE UpdateState
  BY <1>17 DEF UpdateState
<1>18. CASE UpdateVWC
  BY <1>18 DEF UpdateVWC, SetVWC, SetVWCFails
<1>19. CASE RestoreState
  BY <1>19 DEF RestoreState
<1>20. CASE EndRunZones
  BY <1>20 DEF EndRunZones
<1>21. CASE WriteRuntimes
  BY <1>21 DEF WriteRuntimes, WriteFile
<1>22. CASE SetLastRunDate
  BY <1>22 DEF SetLastRunDate
<1>23. CASE WakeUp
  BY <1>23 DEF WakeUp
<1>24. CASE Tick
  BY <1>24 DEF Tick
<1>25. CASE Crash
  BY <1>25 DEF Crash
<1>26. CASE Restart
  BY <1>26 DEF Restart
<1>27. CASE SetConfig
  BY <1>27 DEF SetConfig
<1>28. CASE UNCHANGED vars
  BY <1>28 DEF vars
<1> QED
  BY <1>1, <1>2, <1>3, <1>4, <1>5, <1>6, <1>7, <1>8, <1>9, <1>10, <1>11, <1>12,
     <1>13, <1>14, <1>15, <1>16, <1>17, <1>18, <1>19, <1>20, <1>21, <1>22,
     <1>23, <1>24, <1>25, <1>26, <1>27, <1>28 DEF Next, LoopStep

\* Every step keeps the water to the zone at hand (zone.go:84-127).
LEMMA WaterStep ==
  ASSUME Inv, [Next]_vars
  PROVE  Water'
<1> USE DEF Inv, RecordInv, TypeOK, Water, OneValveAtATime, Goto, GoToSleep, NextZone,
            PCs, RunZonesPCs, clock, store, local, history, SetState,
            SetStateFails
<1>1. CASE RunOnce
  BY <1>1 DEF RunOnce
<1>2. CASE TurnAllOff
  BY <1>2 DEF TurnAllOff
<1>3. CASE ReadConfig
  BY <1>3 DEF ReadConfig
<1>4. CASE CheckIfRanToday
  BY <1>4 DEF CheckIfRanToday
<1>5. CASE ResetZone
  BY <1>5 DEF ResetZone
<1>6. CASE WritePrediction
  BY <1>6 DEF WritePrediction, WriteFile
<1>7. CASE CalculateRuntimes
  BY <1>7 DEF CalculateRuntimes
<1>8. CASE UpdateVWCInNonRunZones
  BY <1>8 DEF UpdateVWCInNonRunZones, SetVWC, SetVWCFails
<1>9. CASE StartRunZones
  BY <1>9 DEF StartRunZones
<1>10. CASE SelectZone
  BY <1>10 DEF SelectZone, AlreadyRan, LeftOn
<1>11. CASE TurnOnSetState
  BY <1>11 DEF TurnOnSetState
<1>12. CASE OpenValve
  BY <1>12 DEF OpenValve, Fails
<1>13. CASE SetStateUnknown
  BY <1>13 DEF SetStateUnknown
<1>14. CASE FinishFlow
  BY <1>14 DEF FinishFlow
<1>15. CASE CloseValve
  BY <1>15 DEF CloseValve
<1>16. CASE TurnOffSetState
  BY <1>16 DEF TurnOffSetState, AfterStop
<1>17. CASE UpdateState
  BY <1>17 DEF UpdateState
<1>18. CASE UpdateVWC
  BY <1>18 DEF UpdateVWC, SetVWC, SetVWCFails
<1>19. CASE RestoreState
  BY <1>19 DEF RestoreState
<1>20. CASE EndRunZones
  BY <1>20 DEF EndRunZones
<1>21. CASE WriteRuntimes
  BY <1>21 DEF WriteRuntimes, WriteFile
<1>22. CASE SetLastRunDate
  BY <1>22 DEF SetLastRunDate
<1>23. CASE WakeUp
  BY <1>23 DEF WakeUp
<1>24. CASE Tick
  BY <1>24 DEF Tick
<1>25. CASE Crash
  BY <1>25 DEF Crash
<1>26. CASE Restart
  BY <1>26 DEF Restart
<1>27. CASE SetConfig
  BY <1>27 DEF SetConfig
<1>28. CASE UNCHANGED vars
  BY <1>28 DEF vars
<1> QED
  BY <1>1, <1>2, <1>3, <1>4, <1>5, <1>6, <1>7, <1>8, <1>9, <1>10, <1>11, <1>12,
     <1>13, <1>14, <1>15, <1>16, <1>17, <1>18, <1>19, <1>20, <1>21, <1>22,
     <1>23, <1>24, <1>25, <1>26, <1>27, <1>28 DEF Next, LoopStep

\* The inductive invariant holds at a first start ...
LEMMA InvInit == Init => Inv
<1> SUFFICES ASSUME Init PROVE Inv
  OBVIOUS
<1>1. TypeOK /\ PlanScope
  BY TypeInit
<1>2. Dates
  BY ClockAssumption
  DEF ClockAssumption, Init, Dates, PassPCs, PCs, RunPCs, RunZonesPCs, NoDate
<1> QED
  BY <1>1, <1>2 DEF Init, Inv, RecordInv, OpenIsRecorded, ZoneAtHand, ZoneShut, AtMostOncePerDate,
                    Water, OneValveAtATime, RunZonesPCs

\* ... and every step keeps it.
LEMMA InvStep == Inv /\ [Next]_vars => Inv'
BY RecordStep, FlowStep, WaterStep DEF Inv

\* The invariant holds in every behaviour of the loop.
THEOREM Invariance == Spec => []Inv
<1>1. Init => Inv
  BY InvInit
<1>2. Inv /\ [Next]_vars => Inv'
  BY InvStep
<1> QED
  BY <1>1, <1>2, PTL DEF Spec

\* Type correctness, whatever the configurations, weather and failures.
THEOREM TypeCorrect == Spec => []TypeOK
<1>1. Inv => TypeOK
  BY DEF Inv, RecordInv
<1> QED
  BY <1>1, Invariance, PTL

\* No run opens a valve twice for one date, however often it is killed and
\* repeated, and whichever calls fail.
THEOREM OncePerDate == Spec => []AtMostOncePerDate
<1>1. Inv => AtMostOncePerDate
  BY DEF Inv, RecordInv
<1> QED
  BY <1>1, Invariance, PTL

\* Water never flows in a zone the store has as Idle or Complete.
THEOREM FlowIsRecorded == Spec => []OpenIsRecorded
<1>1. Inv => OpenIsRecorded
  BY DEF Inv, RecordInv
<1> QED
  BY <1>1, Invariance, PTL

\* Leaving aside valves the driver opened and reported failure for, at most
\* one valve is open at any time.
THEOREM OneValve == Spec => []OneValveAtATime
<1>1. Inv => OneValveAtATime
  BY DEF Inv, Water, OneValveAtATime
<1> QED
  BY <1>1, Invariance, PTL

\* ... and none while the loop sleeps.
THEOREM NoneAsleep == Spec => []AsleepMeansShut
<1>1. Inv => AsleepMeansShut
  BY DEF Inv, Water, AsleepMeansShut
<1> QED
  BY <1>1, Invariance, PTL

\* A zone is credited with a full soil by runZones only after its valve was
\* opened for the run's date and shut, and the zone recorded as Complete.
THEOREM CreditIsEarned == Spec => CreditOnlyAfterFlow
<1> DEFINE Earned ==
      \A z \in Zones :
        pc \in RunZonesPCs /\ vwc'[z] # vwc[z] =>
          /\ lastOpened[z] = now.day
          /\ z \notin open
          /\ zoneState[z] = Complete
<1>1. Inv /\ [Next]_vars => [Earned]_vars
  <2> SUFFICES ASSUME Inv, [Next]_vars, NEW z \in Zones,
                      pc \in RunZonesPCs, vwc'[z] # vwc[z]
               PROVE  /\ lastOpened[z] = now.day
                      /\ z \notin open
                      /\ zoneState[z] = Complete
    OBVIOUS
  <2>1. UpdateVWC /\ z = znum
    <3>1. vwc' # vwc
      OBVIOUS
    <3>2. UpdateVWC
      BY <3>1 DEF vars, store, Next, LoopStep, RunOnce, TurnAllOff, ReadConfig,
         CheckIfRanToday, ResetZone, WritePrediction, CalculateRuntimes,
         UpdateVWCInNonRunZones, StartRunZones, SelectZone, TurnOnSetState,
         OpenValve, SetStateUnknown, FinishFlow, CloseValve, TurnOffSetState,
         UpdateState, RestoreState, EndRunZones, WriteRuntimes,
         SetLastRunDate, WakeUp, Tick, Crash, Restart, SetConfig, RunZonesPCs
    <3> QED BY <3>2 DEF UpdateVWC, SetVWC, SetVWCFails, Inv, RecordInv, TypeOK
  <2> QED
    BY <2>1 DEF UpdateVWC, Inv, RecordInv, ZoneAtHand, ZoneShut
<1> QED
  BY <1>1, Invariance, PTL DEF Spec, CreditOnlyAfterFlow

\* No prediction is ever logged for a date that has had its run, or part of
\* one, even where a failed or killed rewrite has lost the times of that run.
THEOREM PredictionIsForTomorrow == Spec => PredictionNeverReplacesRun
<1> DEFINE Kept ==
      \A d \in Days :
        runtimesFile'[d] = "predicted" /\ runtimesFile[d] # "predicted" =>
          /\ runtimesFile[d] # "actual"
          /\ d > lastRunDate
          /\ \A z \in Zones : lastOpened[z] < d
<1>1. Inv /\ [Next]_vars => [Kept]_vars
  <2> SUFFICES ASSUME Inv, [Next]_vars, NEW d \in Days,
                      runtimesFile'[d] = "predicted", runtimesFile[d] # "predicted"
               PROVE  /\ runtimesFile[d] # "actual"
                      /\ d > lastRunDate
                      /\ \A z \in Zones : lastOpened[z] < d
    OBVIOUS
  <2>1. /\ runtimesFile \in RuntimesFiles /\ d \in 1..MaxDay + 1
        /\ DOMAIN runtimesFile = 1..MaxDay + 1
        /\ now.day \in Nat /\ d \in Nat
    BY ClockAssumption
    DEF ClockAssumption, Inv, RecordInv, TypeOK, RuntimesFiles, Days, Times
  <2>2. WritePrediction
    <3>1. CASE WriteRuntimes
      BY <2>1, <3>1, FilesWritten DEF WriteRuntimes
    <3>2. CASE Crash
      BY <2>1, <3>2, FilesAfterCrash
    <3>3. CASE UNCHANGED runtimesFile
      BY <3>3
    <3> QED
      BY <3>1, <3>2, <3>3
      DEF vars, store, Next, LoopStep, RunOnce, TurnAllOff, ReadConfig,
         CheckIfRanToday, ResetZone, CalculateRuntimes,
         UpdateVWCInNonRunZones, StartRunZones, SelectZone, TurnOnSetState,
         OpenValve, SetStateUnknown, FinishFlow, CloseValve, TurnOffSetState,
         UpdateState, UpdateVWC, RestoreState, EndRunZones,
         SetLastRunDate, WakeUp, Tick, Restart, SetConfig
  <2>3. d = now.day + 1
    BY <2>1, <2>2, FilesWritten DEF WritePrediction, tomorrow
  <2>4. /\ lastRunDate <= now.day
        /\ \A z \in Zones : lastOpened[z] <= now.day
        /\ runtimesFile[d] = "actual" => d <= now.day
    BY <2>1, <2>2 DEF WritePrediction, Inv, RecordInv, Dates, PassPCs, PCs
  <2>5. lastRunDate \in Nat /\ \A z \in Zones : lastOpened[z] \in Nat
    BY DEF Inv, RecordInv, TypeOK, Days, NoDate
  <2> QED BY <2>1, <2>3, <2>4, <2>5
<1> QED
  BY <1>1, Invariance, PTL DEF Spec, PredictionNeverReplacesRun

\* What a step does to the garden: only four calls water it, stop the water or
\* put a date on record.
LEMMA GardenStep ==
  ASSUME Inv, [Next]_vars
  PROVE  [Garden!GardenNext]_<<lastRunDate, lastOpened, open \ lied>>
<1> USE DEF Garden!GardenNext
<1>1. CASE TurnAllOff
  <2>1. (open \ lied)' = {} /\ UNCHANGED <<lastRunDate, lastOpened>>
    BY <1>1 DEF TurnAllOff, store
  <2> QED BY <2>1 DEF Garden!StopWater
<1>2. CASE CloseValve
  <2>1. /\ open' = open \ {znum} /\ lied' = lied \ {znum}
        /\ UNCHANGED <<lastRunDate, lastOpened>>
    BY <1>2 DEF CloseValve, store
  <2>2. (open \ lied)' = (open \ lied) \ {znum}
    BY <2>1
  <2>3. CASE znum \in open \ lied
    BY <2>1, <2>2, <2>3 DEF Garden!StopWater
  <2>4. CASE znum \notin open \ lied
    <3>1. (open \ lied)' = open \ lied
      BY <2>2, <2>4
    <3> QED BY <2>1, <3>1
  <2> QED BY <2>3, <2>4
<1>3. CASE OpenValve
  <2>1. /\ open = lied /\ znum \in Zones /\ now.day \in Days
        /\ lastRunDate < now.day /\ lastOpened[znum] < now.day
    <3>1. pc = "open"
      BY <1>3 DEF OpenValve
    <3>2. open = lied /\ lastOpened[znum] < now.day
      BY <3>1 DEF Inv, RecordInv, Water, AtMostOncePerDate
    <3>3. znum \in Zones
      BY <3>1, PlannedAreZones DEF Inv, RecordInv, TypeOK, RunZonesPCs
    <3>4. now.day \in Days /\ lastRunDate \in Days \cup {0}
      BY DEF Inv, RecordInv, TypeOK, Times, NoDate
    <3>5. lastRunDate <= now.day /\ lastRunDate # now.day
      BY <3>1 DEF Inv, RecordInv, Dates, PassPCs, PCs, RunPCs, RunZonesPCs
    <3> QED BY <3>2, <3>3, <3>4, <3>5 DEF Days
  <2>2. UNCHANGED lastRunDate
    BY <1>3 DEF OpenValve, store
  <2>3. CASE open' = open /\ lied' = lied /\ lastOpened' = lastOpened
    BY <2>2, <2>3
  <2>4. CASE /\ open' = open \cup {znum}
             /\ lied' = lied \/ lied' = lied \cup {znum}
             /\ lastOpened' = [lastOpened EXCEPT ![znum] = now.day]
    <3>1. (open \ lied)' \in {{}, {znum}}
      BY <2>1, <2>4
    <3>2. Garden!WaterZone(znum, now.day)
      BY <2>1, <2>2, <2>4, <3>1 DEF Garden!WaterZone
    <3> QED BY <2>1, <3>2
  <2> QED BY <1>3, <2>3, <2>4 DEF OpenValve
<1>4. CASE SetLastRunDate
  <2>1. open = lied /\ lastRunDate < now.day /\ now.day \in Days
    <3>1. pc = "setDate"
      BY <1>4 DEF SetLastRunDate
    <3>2. open = lied
      BY <3>1 DEF Inv, Water
    <3>3. now.day \in Days /\ lastRunDate \in Days \cup {0}
      BY DEF Inv, RecordInv, TypeOK, Times, NoDate
    <3>4. lastRunDate <= now.day /\ lastRunDate # now.day
      BY <3>1 DEF Inv, RecordInv, Dates, PassPCs, PCs, RunPCs, RunZonesPCs
    <3> QED BY <3>2, <3>3, <3>4 DEF Days
  <2>2. UNCHANGED <<lastOpened, open, lied>>
    BY <1>4 DEF SetLastRunDate, history
  <2>3. lastRunDate' \in {lastRunDate, now.day}
    BY <1>4 DEF SetLastRunDate, RunDate
  <2>4. CASE lastRunDate' = now.day
    BY <2>1, <2>2, <2>4 DEF Garden!RecordDate
  <2> QED BY <2>2, <2>3, <2>4
<1>5. CASE ~TurnAllOff /\ ~CloseValve /\ ~OpenValve /\ ~SetLastRunDate
  <2>1. UNCHANGED <<lastRunDate, lastOpened, open, lied>>
    BY <1>5 DEF vars, store, history, Next, LoopStep, RunOnce, ReadConfig,
       CheckIfRanToday, ResetZone, WritePrediction, CalculateRuntimes,
       UpdateVWCInNonRunZones, StartRunZones, SelectZone, TurnOnSetState,
       SetStateUnknown, FinishFlow, TurnOffSetState, UpdateState, UpdateVWC,
       RestoreState, EndRunZones, WriteRuntimes, WakeUp, Tick, Crash,
       Restart, SetConfig
  <2> QED BY <2>1
<1> QED
  BY <1>1, <1>2, <1>3, <1>4, <1>5

\* The loop implements OncePerDate for any number of zones, days, crashes and
\* failing calls: it waters a zone once for a date at most, never for a date
\* on record, one zone at a time, and records a date when the water is off.
THEOREM LoopImplementsOncePerDate == Spec => ImplementsOncePerDate
<1>1. Init => Garden!GardenInit
  BY DEF Init, Garden!GardenInit, NoDate
<1>2. Inv /\ [Next]_vars
        => [Garden!GardenNext]_<<lastRunDate, lastOpened, open \ lied>>
  BY GardenStep
<1> QED
  BY <1>1, <1>2, Invariance, PTL
  DEF Spec, ImplementsOncePerDate, Garden!GardenSpec, Garden!gardenVars
-----------------------------------------------------------------------------
(***************************************************************************)
(* Until something fails                                                   *)
(***************************************************************************)
\* A zone is Running only while it is the one at hand; the zones a run has
\* been through are Complete; a VWC written today is that of the run of
\* today.  The loop may be as late as it likes, and the configuration change.
WithoutFailure ==
  /\ pc \notin {"down", "stop", "stopped", "unknown", "restore"}
  /\ \A z \in Zones :
       \/ zoneState[z] \in {Idle, Complete}
       \/ zoneState[z] = Running /\ z = znum
            /\ pc \in {"open", "flow", "close", "complete"}
  /\ pc \in RunPCs \ {"plan"} => DOMAIN plan.runtimes = ConfiguredZones
  /\ pc \in RunZonesPCs =>
       \A z \in ConfiguredZones : z < znum => zoneState[z] = Complete
  /\ pc \in {"writeRuntimes", "setDate"} =>
       \A z \in ConfiguredZones : zoneState[z] = Complete
  /\ \A z \in Zones :
       vwcDate[z] <= IF pc \in RunPCs \ {"plan"} THEN now.day ELSE lastRunDate

\* The zones of the configuration that runZones goes through.
Scheduled == {z \in DOMAIN config : z < NumZones(config)}
AllIdle == \A z \in Zones : zoneState[z] = Idle
YetToRun == lastRunDate # day /\ AllIdle
RanToday == lastRunDate = day /\ \A z \in Scheduled : lastOpened[z] = day

\* The pass of this slot has not yet looked at the date on record ...
Ahead ==
  /\ slot <= RunTimeAM => YetToRun
  /\ slot > RunTimeAM => RanToday
  /\ slot > RunTimeAM + 1 => AllIdle
\* ... or has nothing left to do.
PassDone ==
  /\ slot < RunTimeAM => YetToRun
  /\ slot >= RunTimeAM => RanToday
  /\ slot > RunTimeAM => AllIdle

\* What a prompt loop knows at each of its points: which slot of the day it
\* is in, and so whether this day's run is to come, under way or over.
OnTime ==
  /\ pc # "sleep" => ~rested
  /\ pc \in PassPCs => now = [day |-> day, slot |-> slot]
  /\ pc \in PassPCs \ {"closeAll", "config"} =>
       ConfiguredZones = Scheduled /\ NumZones(systemConfig) = NumZones(config)
  /\ \A z \in Zones \ Scheduled : zoneState[z] = Idle
  /\ \A z \in Scheduled : lastOpened[z] >= day - 1
  /\ pc \in {"start", "closeAll", "config", "ranToday"} => Ahead
  /\ pc = "sleep" => IF rested THEN Ahead ELSE PassDone
  /\ pc \in {"reset", "predict"} => slot > RunTimeAM /\ RanToday
  /\ pc = "reset" => \A z \in Zones : z < znum => zoneState[z] = Idle
  /\ pc = "predict" => AllIdle
  /\ pc \in RunPCs => slot = RunTimeAM
  /\ pc \in {"plan", "updateVWC", "runZones"} => AllIdle
  /\ pc \in RunZonesPCs =>
       /\ \A z \in Scheduled : z < znum => lastOpened[z] = day
       /\ \A z \in Zones : z > znum => zoneState[z] = Idle
       /\ pc \in {"zone", "turnOn"} /\ znum \in Zones => zoneState[znum] = Idle
  /\ pc \in {"writeRuntimes", "setDate"} =>
       \A z \in Scheduled : lastOpened[z] = day

\* As long as nothing fails, every step keeps what is known without a failure.
LEMMA WithoutFailureStep ==
  ASSUME RecordInv, WithoutFailure, faults = 0, [Next]_vars, faults' = 0
  PROVE  WithoutFailure'
<1> USE DEF RecordInv, TypeOK, Dates, ZoneAtHand, WithoutFailure, Goto, GoToSleep,
            NextZone, PCs, RunZonesPCs, PassPCs, RunPCs, Days, Times, NoDate, Idle,
            Running, Unknown, Complete, clock, store, local, history, SetState,
            SetStateFails, Succeeds, Fails, ConfiguredZones
<1>a. /\ DOMAIN plan.runtimes \subseteq Zones
      /\ pc \in RunZonesPCs \ {"zone"} => znum \in Zones
  BY PlannedAreZones
<1>b. /\ DOMAIN systemConfig \subseteq Zones
      /\ \A z \in Zones : z \in Nat
      /\ NumZones(systemConfig) \in Nat
  BY ConfigFacts, NumValvesAssumption DEF Zones, NumValvesAssumption
<1>1. CASE RunOnce
  BY <1>1 DEF RunOnce
<1>2. CASE TurnAllOff
  BY <1>2 DEF TurnAllOff
<1>3. CASE ReadConfig
  BY <1>3 DEF ReadConfig
<1>4. CASE CheckIfRanToday
  BY <1>4 DEF CheckIfRanToday, tooEarly
<1>5. CASE ResetZone
  BY <1>5 DEF ResetZone
<1>6. CASE WritePrediction
  BY <1>6 DEF WritePrediction, WriteFile
<1>7. CASE CalculateRuntimes
  BY <1>7 DEF CalculateRuntimes
<1>8. CASE UpdateVWCInNonRunZones
  BY <1>8, <1>a, <1>b DEF UpdateVWCInNonRunZones, SetVWC, SetVWCFails
<1>9. CASE StartRunZones
  BY <1>9, <1>a, <1>b DEF StartRunZones
<1>10. CASE SelectZone
  BY <1>10, <1>a, <1>b DEF SelectZone, AlreadyRan, LeftOn, ZoneStates
<1>11. CASE TurnOnSetState
  BY <1>11, <1>a, <1>b DEF TurnOnSetState
<1>12. CASE OpenValve
  BY <1>12, <1>a, <1>b DEF OpenValve
<1>13. CASE SetStateUnknown
  BY <1>13 DEF SetStateUnknown
<1>14. CASE FinishFlow
  BY <1>14 DEF FinishFlow
<1>15. CASE CloseValve
  BY <1>15 DEF CloseValve
<1>16. CASE TurnOffSetState
  BY <1>16, <1>a, <1>b DEF TurnOffSetState, AfterStop
<1>17. CASE UpdateState
  BY <1>17, <1>a, <1>b DEF UpdateState
<1>18. CASE UpdateVWC
  BY <1>18, <1>a, <1>b DEF UpdateVWC, SetVWC, SetVWCFails
<1>19. CASE RestoreState
  BY <1>19 DEF RestoreState
<1>20. CASE EndRunZones
  BY <1>20, <1>a, <1>b DEF EndRunZones
<1>21. CASE WriteRuntimes
  BY <1>21 DEF WriteRuntimes, WriteFile
<1>22. CASE SetLastRunDate
  BY <1>22 DEF SetLastRunDate, RunDate
<1>23. CASE WakeUp
  BY <1>23 DEF WakeUp
<1>24. CASE Tick
  BY <1>24 DEF Tick
<1>25. CASE Crash
  BY <1>25 DEF Crash
<1>26. CASE Restart
  BY <1>26 DEF Restart
<1>27. CASE SetConfig
  BY <1>27 DEF SetConfig
<1>28. CASE UNCHANGED vars
  BY <1>28 DEF vars
<1> QED
  BY <1>1, <1>2, <1>3, <1>4, <1>5, <1>6, <1>7, <1>8, <1>9, <1>10, <1>11, <1>12,
     <1>13, <1>14, <1>15, <1>16, <1>17, <1>18, <1>19, <1>20, <1>21, <1>22,
     <1>23, <1>24, <1>25, <1>26, <1>27, <1>28 DEF Next, LoopStep

\* The hours that leave room for a reset after the run of the day, and the
\* configurations that differ in the values of their zones only.
RoomForReset == RunTimeAM + 1 < SlotsPerDay
SameZones ==
  \A c, d \in Configs : DOMAIN c = DOMAIN d /\ NumZones(c) = NumZones(d)

\* As long as nothing fails, a prompt loop stays on time.
LEMMA OnTimeStep ==
  ASSUME Timely, RoomForReset, SameZones,
         Inv, WithoutFailure, OnTime, faults = 0, [Next]_vars, faults' = 0
  PROVE  OnTime'
<1>a. /\ \A z \in Zones : z \in Nat
      /\ \A z \in Scheduled : z \in Zones /\ z < NumZones(config)
      /\ NumZones(config) \in Nat
  BY ConfigFacts, NumValvesAssumption
  DEF Zones, NumValvesAssumption, Scheduled, Inv, RecordInv, TypeOK
<1>b. Scheduled' = Scheduled /\ NumZones(config)' = NumZones(config)
  <2>1. config \in Configs /\ config' \in Configs
    BY TypeStep DEF Inv, RecordInv, TypeOK
  <2> QED BY <2>1 DEF SameZones, Scheduled
<1>c. /\ systemConfig' = systemConfig => ConfiguredZones' = ConfiguredZones
      /\ systemConfig' = config => ConfiguredZones' = Scheduled
  BY DEF ConfiguredZones, Scheduled
<1>d. /\ slot \in Nat /\ RunTimeAM \in Nat /\ day \in Nat /\ RunTimeAM + 1 < SlotsPerDay
      /\ day # 0 /\ SlotsPerDay \in Nat /\ slot < SlotsPerDay
  BY ClockAssumption
  DEF RoomForReset, ClockAssumption, Inv, RecordInv, TypeOK, Days, Slots
<1> USE DEF Inv, RecordInv, TypeOK, Dates, ZoneAtHand, WithoutFailure, OnTime, Ahead,
            PassDone, YetToRun, RanToday, AllIdle, Goto, GoToSleep,
            NextZone, PCs, RunZonesPCs, PassPCs, RunPCs, Idle,
            Running, Unknown, Complete, clock, store, local, history, SetState,
            SetStateFails, Succeeds, Fails
<1>1. CASE RunOnce
  BY <1>1, <1>b DEF RunOnce, Water
<1>2. CASE TurnAllOff
  BY <1>2, <1>b DEF TurnAllOff
<1>3. CASE ReadConfig
  BY <1>3, <1>b, <1>c DEF ReadConfig
<1>4. CASE CheckIfRanToday
  BY <1>4, <1>a, <1>b, <1>c, <1>d DEF CheckIfRanToday, tooEarly
<1>5. CASE ResetZone
  BY <1>5, <1>a, <1>b, <1>c DEF ResetZone
<1>6. CASE WritePrediction
  BY <1>6, <1>b, <1>d DEF WritePrediction
<1>7. CASE CalculateRuntimes
  BY <1>7, <1>b, <1>c DEF CalculateRuntimes
<1>8. CASE UpdateVWCInNonRunZones
  BY <1>8, <1>b, <1>c DEF UpdateVWCInNonRunZones, SetVWC, SetVWCFails
<1>9. CASE StartRunZones
  BY <1>9, <1>a, <1>b, <1>c DEF StartRunZones
<1>10. CASE SelectZone
  BY <1>10, <1>a, <1>b, <1>c DEF SelectZone, AlreadyRan, LeftOn, ZoneStates
<1>11. CASE TurnOnSetState
  BY <1>11, <1>b, <1>c DEF TurnOnSetState
<1>12. CASE OpenValve
  BY <1>12, <1>a, <1>b, <1>c, <1>d DEF OpenValve
<1>13. CASE SetStateUnknown
  BY <1>13 DEF SetStateUnknown
<1>14. CASE FinishFlow
  BY <1>14, <1>b, <1>c DEF FinishFlow
<1>15. CASE CloseValve
  BY <1>15, <1>b, <1>c DEF CloseValve
<1>16. CASE TurnOffSetState
  BY <1>16, <1>b, <1>c DEF TurnOffSetState, AfterStop
<1>17. CASE UpdateState
  BY <1>17, <1>b, <1>c DEF UpdateState
<1>18. CASE UpdateVWC
  BY <1>18, <1>a, <1>b, <1>c DEF UpdateVWC, SetVWC, SetVWCFails
<1>19. CASE RestoreState
  BY <1>19 DEF RestoreState
<1>20. CASE EndRunZones
  BY <1>20, <1>a, <1>b, <1>c DEF EndRunZones
<1>21. CASE WriteRuntimes
  BY <1>21, <1>b, <1>c DEF WriteRuntimes
<1>22. CASE SetLastRunDate
  BY <1>22, <1>b, <1>d DEF SetLastRunDate, RunDate
<1>23. CASE WakeUp
  BY <1>23, <1>b DEF WakeUp
<1>24. CASE Tick
  <2>1. /\ pc = "sleep" /\ ~rested /\ pc' = "sleep" /\ rested'
        /\ UNCHANGED <<zoneState, lastRunDate, lastOpened>>
        /\ PassDone
    BY <1>24 DEF Tick
  <2>2. CASE slot + 1 < SlotsPerDay /\ slot' = slot + 1 /\ UNCHANGED day
    <3>1. Ahead'
      BY <1>b, <1>d, <2>1, <2>2
    <3> QED BY <1>b, <2>1, <2>2, <3>1
  <2>3. CASE slot + 1 = SlotsPerDay /\ slot' = 0 /\ day' = day + 1
    <3>1. RanToday /\ AllIdle
      BY <1>d, <2>1, <2>3
    <3>2. Ahead' /\ \A z \in Scheduled : lastOpened'[z] >= day' - 1
      BY <1>b, <1>d, <2>1, <2>3, <3>1
    <3> QED BY <1>b, <2>1, <2>3, <3>2
  <2>4. CASE slot + 1 = SlotsPerDay /\ UNCHANGED clock
    <3>1. Ahead'
      BY <1>b, <1>d, <2>1, <2>4
    <3> QED BY <1>b, <2>1, <2>4, <3>1
  <2> QED BY <1>24, <2>2, <2>3, <2>4 DEF Tick
<1>25. CASE Crash
  BY <1>25 DEF Crash
<1>26. CASE Restart
  BY <1>26 DEF Restart
<1>27. CASE SetConfig
  BY <1>27, <1>b, <1>c DEF SetConfig
<1>28. CASE UNCHANGED vars
  BY <1>28, <1>b, <1>c DEF vars
<1> QED
  BY <1>1, <1>2, <1>3, <1>4, <1>5, <1>6, <1>7, <1>8, <1>9, <1>10, <1>11, <1>12,
     <1>13, <1>14, <1>15, <1>16, <1>17, <1>18, <1>19, <1>20, <1>21, <1>22,
     <1>23, <1>24, <1>25, <1>26, <1>27, <1>28 DEF Next, LoopStep

\* What is known until something fails: of any loop, and of a prompt one.
UntilAFailure == faults = 0 => WithoutFailure
PromptInv == Timely /\ RoomForReset /\ SameZones /\ faults = 0 => OnTime

\* A failure is never taken back.
LEMMA FailuresStay ==
  ASSUME TypeOK, [Next]_vars, faults' = 0
  PROVE  faults = 0
<1>1. faults' = faults \/ faults' = faults + 1
  BY DEF vars, Next, LoopStep, RunOnce, TurnAllOff, ReadConfig, CheckIfRanToday,
     ResetZone, WritePrediction, CalculateRuntimes, UpdateVWCInNonRunZones, StartRunZones,
     SelectZone, TurnOnSetState, OpenValve, SetStateUnknown, FinishFlow, CloseValve,
     TurnOffSetState, UpdateState, UpdateVWC, RestoreState, EndRunZones, WriteRuntimes,
     SetLastRunDate, WakeUp, Tick, Crash, Restart, SetConfig, SetState, SetStateFails,
     SetVWC, SetVWCFails, WriteFile, Succeeds, Fails
<1> QED BY <1>1 DEF TypeOK

LEMMA UntilAFailureInit == Init => UntilAFailure /\ PromptInv
<1> SUFFICES ASSUME Init PROVE WithoutFailure /\ OnTime
  BY DEF UntilAFailure, PromptInv
<1>1. /\ pc = "start" /\ day = 1 /\ slot = 0 /\ ~rested /\ lastRunDate = 0
      /\ \A z \in Zones : zoneState[z] = Idle /\ lastOpened[z] = 0 /\ vwcDate[z] = 0
  BY DEF Init, NoDate
<1>2. RunTimeAM \in Nat /\ Scheduled \subseteq Zones
  BY ClockAssumption, ConfigFacts DEF ClockAssumption, Slots, Init, Scheduled
<1> QED
  BY <1>1, <1>2
  DEF WithoutFailure, OnTime, Ahead, YetToRun, AllIdle, PassPCs, RunPCs, RunZonesPCs, PCs

LEMMA UntilAFailureStep ==
  Inv /\ UntilAFailure /\ PromptInv /\ [Next]_vars => UntilAFailure' /\ PromptInv'
<1> SUFFICES ASSUME Inv, UntilAFailure, PromptInv, [Next]_vars, faults' = 0
             PROVE  /\ WithoutFailure'
                    /\ Timely /\ RoomForReset /\ SameZones => OnTime'
  BY DEF UntilAFailure, PromptInv
<1>1. faults = 0
  BY FailuresStay DEF Inv, RecordInv
<1> QED
  BY <1>1, WithoutFailureStep, OnTimeStep DEF Inv, UntilAFailure, PromptInv

\* As long as nothing has failed.
THEOREM UntilAFailureHolds == Spec => [](UntilAFailure /\ PromptInv)
BY UntilAFailureInit, UntilAFailureStep, Invariance, PTL DEF Spec

\* control.go:112-117: a prompt loop that meets no failure gives every zone
\* its turn on every date, if the run of the day is not in its last hour and
\* the configuration keeps its zones; their settings may change.
THEOREM EveryDateHasItsRun ==
  ASSUME RoomForReset, SameZones
  PROVE  Spec => []NoDateMissed
<1>1. PromptInv => NoDateMissed
  BY DEF PromptInv, OnTime, Scheduled, NoDateMissed
<1> QED BY <1>1, UntilAFailureHolds, PTL

\* What runZones comes to has been reset.
NoneIsPassedOver ==
  faults = 0 /\ pc = "zone" /\ znum \in DOMAIN plan.runtimes => zoneState[znum] = Idle

\* control.go:113, "Complete means the zone has run today": in a prompt loop
\* that meets no failure no zone is still Complete of a run before when its
\* turn comes, so that none is passed over.
THEOREM AllHaveBeenReset ==
  ASSUME Timely, RoomForReset, SameZones
  PROVE  Spec => []NoneIsPassedOver
<1>1. Inv /\ PromptInv => NoneIsPassedOver
  <2> SUFFICES ASSUME Inv, OnTime, pc = "zone", znum \in DOMAIN plan.runtimes
               PROVE  zoneState[znum] = Idle
    BY DEF PromptInv, NoneIsPassedOver
  <2>1. znum \in Zones
    BY PlannedAreZones DEF Inv, RecordInv
  <2> QED BY <2>1 DEF OnTime, RunZonesPCs
<1> QED BY <1>1, Invariance, UntilAFailureHolds, PTL

\* alg.go:62, "the previous day's VWC": of a loop as late as it likes, with
\* whatever configurations.
THEOREM DebitIsOfPreviousDay == Spec => []DebitFromPreviousDay
<1>1. Inv /\ UntilAFailure => DebitFromPreviousDay
  <2> SUFFICES ASSUME Inv, WithoutFailure, pc = "plan", NEW z \in ConfiguredZones
               PROVE  vwcDate[z] < now.day
    BY DEF UntilAFailure, DebitFromPreviousDay
  <2>1. z \in Zones
    BY ConfigFacts DEF ConfiguredZones, Inv, RecordInv, TypeOK
  <2>2. vwcDate[z] <= lastRunDate
    BY <2>1 DEF WithoutFailure
  <2>3. lastRunDate <= now.day /\ lastRunDate # now.day
    BY DEF Inv, RecordInv, Dates, PassPCs, PCs, RunPCs
  <2>4. vwcDate[z] \in Int /\ lastRunDate \in Int /\ now.day \in Int
    BY <2>1 DEF Inv, RecordInv, TypeOK, Times, Days, NoDate
  <2> QED BY <2>2, <2>3, <2>4
<1> QED BY <1>1, Invariance, UntilAFailureHolds, PTL

\* control.go:142 and :185, "alreadyRan will be true only if ALL zones were
\* successfully completed": until something fails, and not longer.
THEOREM DateWhenAllRan == Spec => DateOnlyWhenAllRan
<1> DEFINE AllRan ==
      faults = 0 /\ lastRunDate' # lastRunDate =>
        \A z \in ConfiguredZones : zoneState[z] = Complete
<1>1. UntilAFailure /\ [Next]_vars => [AllRan]_vars
  <2> SUFFICES ASSUME WithoutFailure, Next, lastRunDate' # lastRunDate
               PROVE  \A z \in ConfiguredZones : zoneState[z] = Complete
    BY DEF UntilAFailure
  <2>1. SetLastRunDate
    BY DEF store, Next, LoopStep, RunOnce, TurnAllOff, ReadConfig, CheckIfRanToday,
       ResetZone, WritePrediction, CalculateRuntimes, UpdateVWCInNonRunZones,
       StartRunZones, SelectZone, TurnOnSetState, OpenValve, SetStateUnknown, FinishFlow,
       CloseValve, TurnOffSetState, UpdateState, UpdateVWC, RestoreState, EndRunZones,
       WriteRuntimes, WakeUp, Tick, Crash, Restart, SetConfig
  <2> QED BY <2>1 DEF SetLastRunDate, WithoutFailure
<1> QED BY <1>1, UntilAFailureHolds, PTL DEF Spec, DateOnlyWhenAllRan
=============================================================================
