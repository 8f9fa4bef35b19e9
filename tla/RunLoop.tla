------------------------------ MODULE RunLoop ------------------------------
(***************************************************************************)
(* The irrigation control loop: Run / RunOnce of control/control.go with   *)
(* the ZoneController of control/zone.go, the state both keep in the KV    *)
(* store, and the valves they command.                                     *)
(*                                                                         *)
(* One action stands for the code between two points at which something    *)
(* else can happen to the process: a KV operation, a driver command, a     *)
(* sleep.  The process can be killed between any two of them; what it has  *)
(* written to the store, and the position of the valves, survive.          *)
(*                                                                         *)
(* The day is cut in SlotsPerDay slots, each one runInterval long.  The    *)
(* clock ticks while the loop works (a valve runs for minutes, a driver    *)
(* command is retried for as long as it takes) unless Timely says that     *)
(* every pass of the loop ends within its slot.  The calendar stops on the *)
(* last slot of MaxDay: the loop then keeps running on that date.          *)
(***************************************************************************)
EXTENDS ETAlgorithm, FiniteSets

CONSTANTS
  NumValves,      \* valves the controller drives; zone n is on valve n
  Configs,        \* configurations the config file may hold
  EtPctMap,       \* temperature ranges of ETAlgorithmSimpleConfig
  Weather,        \* what getConditions may return to a run
  Month,          \* the month all modelled days fall in
  SlotsPerDay,    \* passes of the loop in a day
  RunTimeAM,      \* first slot in which the day's run may start
  MaxDay,         \* last day of the calendar
  Timely,         \* TRUE: a pass of the loop ends before the clock ticks
  FaultKinds,     \* calls that may fail in this instance
  MaxFaults       \* how many failures there may be altogether

Zones == 0..NumValves - 1
Days  == 1..MaxDay
Slots == 0..SlotsPerDay - 1

(***************************************************************************)
(* "get", "set" : a KV read or write has exhausted its ten attempts        *)
(* "open"       : OpenValve has exhausted its five, the valve is shut      *)
(* "flaky"      : the same, but the valve did open (drivers/rain8net says  *)
(*                an error is sometimes returned by a command that worked) *)
(* "file"       : the config cannot be read, a data file cannot be written *)
(* "crash"      : the process dies                                         *)
(***************************************************************************)
AllFaults == {"get", "set", "open", "flaky", "file", "crash"}

\* ZoneState of zone.go.
Unknown  == "Unknown"
Idle     == "Idle"
Running  == "Running"
Complete == "Complete"
ZoneStates == {Unknown, Idle, Running, Complete}

\* LastRunDateKey is not in the store until a first run has ended.
NoDate == 0

\* config.go:NumZones: one more than the largest Number, while every lookup
\* goes by the key of ZoneConfigs.
NumZones(c) ==
  IF DOMAIN c = {} THEN 0
  ELSE 1 + (CHOOSE m \in {c[k].Number : k \in DOMAIN c} :
              \A k \in DOMAIN c : c[k].Number <= m)

NumValvesAssumption == NumValves \in Nat
ClockAssumption ==
  /\ SlotsPerDay \in Nat \ {0}
  /\ RunTimeAM \in Slots
  /\ MaxDay \in Nat \ {0}
  /\ Month \in Months
  /\ Timely \in BOOLEAN
FaultAssumption ==
  /\ FaultKinds \subseteq AllFaults
  /\ MaxFaults \in Nat
\* Configurations that Parse accepts and that fit the controller.
ConfigAssumption ==
  \A c \in Configs :
    /\ DOMAIN c \subseteq Zones
    /\ \A k \in DOMAIN c : c[k] \in ZoneConfig
    /\ NumZones(c) \in 0..NumValves
WeatherAssumption ==
  /\ \A w \in Weather :
       w \in [tempY : Int, precipY : Nat, precipF : Nat]
  /\ \A i \in DOMAIN EtPctMap :
       EtPctMap[i] \in [X1 : Int, X2 : Int, Y : Nat]

ASSUME NumValvesAssumption
ASSUME ClockAssumption
ASSUME FaultAssumption
ASSUME ConfigAssumption
ASSUME WeatherAssumption

VARIABLES
  day, slot,       \* the wall clock
  zoneState,       \* KV: ZoneState<n>; a missing key reads as Idle
  vwc,             \* KV: CurrentVWC<n>; a missing key reads as 0
  lastRunDate,     \* KV: LastRunDate, or NoDate
  open,            \* valves that let water through
  CommandRunning,  \* the flag shared with the HTTP handlers
  config,          \* ZoneConfigs in the config file
  runtimesFile,    \* what the run-time file of each date holds
  pc,              \* where the loop is
  rested,          \* the sleep between two passes is over
  now,             \* the time RunOnce was called with
  systemConfig,    \* ZoneConfigs this pass has read
  znum,            \* zone at hand in ResetZones and runZones
  plan,            \* runtimes and VWCs computed by calculateRuntimes
  todo,            \* zones whose VWC updateVWCInNonRunZones has not set yet
  prevState,       \* of updateStateAndVWC
  faults,          \* failures so far
  lastOpened,      \* history: date of the run that last opened each valve
  vwcDate,         \* history: date of the run that last wrote each VWC
  lied             \* history: valves a command opened and reported failure for

clock   == <<day, slot>>
store   == <<zoneState, vwc, lastRunDate>>
local   == <<now, systemConfig, plan, todo, prevState>>
history == <<lastOpened, vwcDate, lied>>
vars == <<clock, store, open, CommandRunning, config, runtimesFile, pc,
          rested, local, znum, faults, history>>

NoZones == [z \in {} |-> 0]
NoPlan  == [runtimes |-> NoZones, vwc |-> NoZones]
Midnight == [day |-> 1, slot |-> 0]

\* Points of the loop.  The middle group is the body of runZones for znum.
RunZonesPCs ==
  {"zone", "stop", "stopped", "turnOn", "open", "unknown", "flow", "close",
   "complete", "update", "credit", "restore"}
PCs ==
  {"down", "start", "closeAll", "config", "ranToday", "reset", "predict",
   "plan", "updateVWC", "runZones", "writeRuntimes", "setDate", "sleep"}
    \cup RunZonesPCs

\* The file of a date holds nothing that can be read, the prediction made the
\* day before, or the times computed for the run of that date.
RuntimesFiles == [1..MaxDay + 1 -> {"none", "predicted", "actual"}]

\* A first start with an empty store.
Init ==
  /\ day = 1 /\ slot = 0
  /\ zoneState = [z \in Zones |-> Idle]
  /\ vwc = [z \in Zones |-> 0]
  /\ lastRunDate = NoDate
  /\ open = {}
  /\ CommandRunning = FALSE
  /\ config \in Configs
  /\ runtimesFile = [d \in 1..MaxDay + 1 |-> "none"]
  /\ pc = "start"
  /\ rested = FALSE
  /\ now = Midnight
  /\ systemConfig = NoZones
  /\ znum = 0
  /\ plan = NoPlan
  /\ todo = {}
  /\ prevState = Idle
  /\ faults = 0
  /\ lastOpened = [z \in Zones |-> 0]
  /\ vwcDate = [z \in Zones |-> 0]
  /\ lied = {}
-----------------------------------------------------------------------------
(***************************************************************************)
(* The outcome of a call.                                                  *)
(***************************************************************************)
Fails(kind) ==
  /\ kind \in FaultKinds
  /\ faults < MaxFaults
  /\ faults' = faults + 1
Succeeds == UNCHANGED faults

\* ZoneController.SetState(n, zs).
SetState(n, zs) ==
  /\ zoneState' = [zoneState EXCEPT ![n] = zs]
  /\ Succeeds
SetStateFails ==
  /\ UNCHANGED zoneState
  /\ Fails("set")

Goto(label) == pc' = label /\ UNCHANGED znum
\* Mutant: the loop variable is not advanced.
NextZoneNoStep(label) == pc' = label /\ UNCHANGED znum
\* continue: the next zone of the for loop that is at label.
NextZone(label) == pc' = label /\ znum' = znum + 1
GoToSleep == Goto("sleep")
-----------------------------------------------------------------------------
(***************************************************************************)
(* RunOnce                                                                 *)
(***************************************************************************)
\* Run reads the clock; RunOnce gives up, before it touches a valve, if a
\* command is running.
RunOnce ==
  /\ pc = "start"
  /\ now' = [day |-> day, slot |-> slot]
  /\ IF CommandRunning THEN GoToSleep ELSE Goto("closeAll")
  /\ Succeeds
  /\ UNCHANGED <<clock, store, open, CommandRunning, config, runtimesFile,
                 rested, systemConfig, plan, todo, prevState, history>>

\* Mutant: the command is sent to no valve.
TurnAllOffNone ==
  /\ pc = "closeAll"
  /\ Goto("config")
  /\ Succeeds
  /\ UNCHANGED <<clock, store, open, CommandRunning, config, runtimesFile,
                 rested, local, history>>
\* zone_all_off is repeated until the driver reports success.
TurnAllOff ==
  /\ pc = "closeAll"
  /\ open' = {} /\ lied' = {}
  /\ Goto("config")
  /\ Succeeds
  /\ UNCHANGED <<clock, store, CommandRunning, config, runtimesFile, rested,
                 local, lastOpened, vwcDate>>

ReadConfig ==
  /\ pc = "config"
  /\ \/ /\ systemConfig' = config
        /\ Goto("ranToday")
        /\ Succeeds
     \/ /\ UNCHANGED systemConfig
        /\ GoToSleep
        /\ Fails("file")
  /\ UNCHANGED <<clock, store, open, CommandRunning, config, runtimesFile,
                 rested, now, plan, todo, prevState, history>>

\* Mutant: not before, instead of before.
tooEarlyByOne(t) == t.slot <= RunTimeAM
tooEarly(t) == t.slot < RunTimeAM

\* Mutant: a date that cannot be read is taken for none.
CheckIfRanTodayForgets ==
  /\ pc = "ranToday"
  /\ \/ /\ lastRunDate = now.day
        /\ pc' = "reset" /\ znum' = 0
        /\ Succeeds
     \/ /\ lastRunDate # now.day
        /\ IF tooEarly(now) THEN GoToSleep ELSE Goto("plan")
        /\ Succeeds
     \/ /\ Goto("plan")
        /\ Fails("get")
  /\ UNCHANGED <<clock, store, open, CommandRunning, config, runtimesFile,
                 rested, local, history>>
\* checkIfRanToday, then the choice between the two halves of RunOnce.
CheckIfRanToday ==
  /\ pc = "ranToday"
  /\ \/ /\ lastRunDate = now.day
        /\ pc' = "reset" /\ znum' = 0
        /\ Succeeds
     \/ /\ lastRunDate # now.day
        /\ IF tooEarly(now) THEN GoToSleep ELSE Goto("plan")
        /\ Succeeds
     \/ /\ GoToSleep
        /\ Fails("get")
  /\ UNCHANGED <<clock, store, open, CommandRunning, config, runtimesFile,
                 rested, local, history>>

\* ResetZones, one zone a step: only Complete becomes Idle, and the first
\* KV error ends the pass.
ResetZone ==
  /\ pc = "reset"
  /\ \/ /\ znum >= NumZones(systemConfig)
        /\ Goto("predict")
        /\ Succeeds
        /\ UNCHANGED zoneState
     \/ /\ znum < NumZones(systemConfig)
        /\ \/ /\ zoneState[znum] = Complete
              /\ \/ SetState(znum, Idle) /\ NextZone("reset")
                 \/ SetStateFails /\ GoToSleep
           \/ /\ zoneState[znum] # Complete
              /\ NextZone("reset")
              /\ Succeeds
              /\ UNCHANGED zoneState
           \/ /\ GoToSleep
              /\ Fails("get")
              /\ UNCHANGED zoneState
  /\ UNCHANGED <<clock, vwc, lastRunDate, open, CommandRunning, config,
                 runtimesFile, rested, local, history>>

\* Mutant: the prediction is logged under today's date.
tomorrowToday(t) == t.day
tomorrow(t) == t.day + 1

\* ioutil.WriteFile truncates the file before it writes: one that fails, or a
\* process killed inside it, may leave nothing of what was there.
MayBeTorn(d) == {runtimesFile, [runtimesFile EXCEPT ![d] = "none"]}
WriteFile(d, times) ==
  \/ /\ runtimesFile' = [runtimesFile EXCEPT ![d] = times]
     /\ Succeeds
  \/ /\ runtimesFile' \in MayBeTorn(d)
     /\ Fails("file")

\* The run times predicted for tomorrow go to tomorrow's file.
WritePrediction ==
  /\ pc = "predict"
  /\ GoToSleep
  /\ WriteFile(tomorrow(now), "predicted")
  /\ UNCHANGED <<clock, store, open, CommandRunning, config, rested, local,
                 history>>

\* newVWC of calculateRuntimes for the conditions w.
NewVWC(w, z) ==
  CalculateVWC(EtPctMap, vwc[z], w.tempY, w.precipY, Month, systemConfig[z])

\* zrunTime: none for a zone whose VWC is not below its minimum.
RunTime(w, z) ==
  LET zconf == systemConfig[z]
  IN  IF NewVWC(w, z) >= zconf.MinVWC THEN 0
      ELSE CalculateRuntime(NewVWC(w, z), zconf.MaxVWC, w.precipF, zconf)
             * zconf.RunTimeMultiplier

\* The zones calculateRuntimes looks at: numbers below NumZones that are
\* keys of ZoneConfigs.
ConfiguredZones == {z \in DOMAIN systemConfig : z < NumZones(systemConfig)}

\* getConditions and calculateRuntimes.  The zones whose VWC a failing store
\* does not give are in neither map; one that need not run has a run time of
\* zero.
CalculateRuntimes ==
  /\ pc = "plan"
  /\ \E w \in Weather, unread \in SUBSET ConfiguredZones :
       /\ IF unread = {} THEN Succeeds ELSE Fails("get")
       /\ LET planned == ConfiguredZones \ unread
              spared  == {z \in planned :
                            NewVWC(w, z) >= systemConfig[z].MinVWC}
          IN  /\ plan' = [runtimes |-> [z \in planned |-> RunTime(w, z)],
                          vwc      |-> [z \in spared |-> NewVWC(w, z)]]
              /\ todo' = spared
  /\ Goto("updateVWC")
  /\ UNCHANGED <<clock, store, open, CommandRunning, config, runtimesFile,
                 rested, now, systemConfig, prevState, history>>

\* SetVWC(z, v), by the run of now.
SetVWC(z, v) ==
  /\ vwc' = [vwc EXCEPT ![z] = v]
  /\ vwcDate' = [vwcDate EXCEPT ![z] = now.day]
  /\ Succeeds
SetVWCFails ==
  /\ UNCHANGED <<vwc, vwcDate>>
  /\ Fails("set")

\* updateVWCInNonRunZones: Go visits a map in any order.
UpdateVWCInNonRunZones ==
  /\ pc = "updateVWC"
  /\ \/ /\ todo = {}
        /\ Goto("runZones")
        /\ Succeeds
        /\ UNCHANGED <<vwc, vwcDate, todo>>
     \/ \E z \in todo :
          /\ todo' = todo \ {z}
          /\ SetVWC(z, plan.vwc[z]) \/ SetVWCFails
          /\ Goto("updateVWC")
  /\ UNCHANGED <<clock, zoneState, lastRunDate, open, CommandRunning, config,
                 runtimesFile, rested, now, systemConfig, plan, prevState,
                 lastOpened, lied>>
-----------------------------------------------------------------------------
(***************************************************************************)
(* runZones                                                                *)
(***************************************************************************)
StartRunZones ==
  /\ pc = "runZones"
  /\ CommandRunning' = TRUE
  /\ pc' = "zone" /\ znum' = 0
  /\ Succeeds
  /\ UNCHANGED <<clock, store, open, config, runtimesFile, rested, local,
                 history>>

\* Mutants: Complete zones are not passed over; all but Idle ones are.
AlreadyRanNone == {}
AlreadyRanAll == {Complete, Running, Unknown}
\* The states in which runZones passes a zone over ("This zone already ran
\* and VWC was updated"), and those in which it shuts it off for the day.
AlreadyRan == {Complete}
LeftOn == {Running, Unknown}

\* The head of the loop: which way zone znum goes.
SelectZone ==
  /\ pc = "zone"
  /\ znum < NumZones(systemConfig)
  /\ \/ /\ znum \notin DOMAIN plan.runtimes
        /\ NextZone("zone")
        /\ Succeeds
     \/ /\ znum \in DOMAIN plan.runtimes
        /\ \/ /\ zoneState[znum] \in AlreadyRan
              /\ NextZone("zone")
              /\ Succeeds
           \/ /\ zoneState[znum] \in LeftOn \ AlreadyRan
              /\ Goto("stop")
              /\ Succeeds
           \/ /\ zoneState[znum] \notin AlreadyRan \cup LeftOn
              /\ Goto("turnOn")
              /\ Succeeds
           \/ /\ NextZone("zone")
              /\ Fails("get")
  /\ UNCHANGED <<clock, store, open, CommandRunning, config, runtimesFile,
                 rested, local, history>>

\* TurnOn: the state is written before the valve is commanded.
TurnOnSetState ==
  /\ pc = "turnOn"
  /\ \/ SetState(znum, Running) /\ Goto("open")
     \/ SetStateFails /\ NextZone("zone")
  /\ UNCHANGED <<clock, vwc, lastRunDate, open, CommandRunning, config,
                 runtimesFile, rested, local, history>>

OpenValve ==
  /\ pc = "open"
  /\ \/ /\ open' = open \cup {znum}
        /\ lastOpened' = [lastOpened EXCEPT ![znum] = now.day]
        /\ Goto("flow")
        /\ Succeeds
        /\ UNCHANGED lied
     \/ /\ open' = open \cup {znum}
        /\ lied' = lied \cup {znum}
        /\ lastOpened' = [lastOpened EXCEPT ![znum] = now.day]
        /\ Goto("unknown")
        /\ Fails("flaky")
     \/ /\ UNCHANGED <<open, lied, lastOpened>>
        /\ Goto("unknown")
        /\ Fails("open")
  /\ UNCHANGED <<clock, store, CommandRunning, config, runtimesFile, rested,
                 local, vwcDate>>

\* TurnOn after a failed OpenValve; its result is ignored.
SetStateUnknown ==
  /\ pc = "unknown"
  /\ SetState(znum, Unknown) \/ SetStateFails
  /\ NextZone("zone")
  /\ UNCHANGED <<clock, vwc, lastRunDate, open, CommandRunning, config,
                 runtimesFile, rested, local, history>>

\* The sleep of Run is over.
FinishFlow ==
  /\ pc = "flow"
  /\ Goto("close")
  /\ Succeeds
  /\ UNCHANGED <<clock, store, open, CommandRunning, config, runtimesFile,
                 rested, local, history>>

\* Mutant: a failing zone_off is not repeated.
CloseValveGivesUp ==
  /\ \/ pc = "close" /\ Goto("complete")
     \/ pc = "stop" /\ Goto("stopped")
  /\ \/ UNCHANGED <<open, lied>>
     \/ open' = open \ {znum} /\ lied' = lied \ {znum}
  /\ Succeeds
  /\ UNCHANGED <<clock, store, CommandRunning, config, runtimesFile, rested,
                 local, lastOpened, vwcDate>>
\* TurnOff, first half: zone_off is repeated until it succeeds.  "stop" is
\* the call of runZones for a zone a crash left on, "close" that of Run.
CloseValve ==
  /\ \/ pc = "close" /\ Goto("complete")
     \/ pc = "stop" /\ Goto("stopped")
  /\ open' = open \ {znum} /\ lied' = lied \ {znum}
  /\ Succeeds
  /\ UNCHANGED <<clock, store, CommandRunning, config, runtimesFile, rested,
                 local, lastOpened, vwcDate>>

\* Mutant: falls through to updateStateAndVWC.
AfterStopCredits == Goto("update")
\* runZones ignores the result for a zone it has shut off: continue.
AfterStop == NextZone("zone")

\* TurnOff, second half.
TurnOffSetState ==
  /\ \/ /\ pc = "complete"
        /\ \/ SetState(znum, Complete) /\ Goto("update")
           \/ SetStateFails /\ NextZone("zone")
     \/ /\ pc = "stopped"
        /\ SetState(znum, Complete) \/ SetStateFails
        /\ AfterStop
  /\ UNCHANGED <<clock, vwc, lastRunDate, open, CommandRunning, config,
                 runtimesFile, rested, local, history>>

\* updateStateAndVWC, the state: read it, then set it to Complete.
UpdateState ==
  /\ pc = "update"
  /\ \/ /\ prevState' = zoneState[znum]
        /\ \/ SetState(znum, Complete) /\ Goto("credit")
           \/ SetStateFails /\ NextZone("zone")
     \/ /\ UNCHANGED <<zoneState, prevState>>
        /\ NextZone("zone")
        /\ Fails("get")
  /\ UNCHANGED <<clock, vwc, lastRunDate, open, CommandRunning, config,
                 runtimesFile, rested, now, systemConfig, plan, todo,
                 history>>

\* updateStateAndVWC, the VWC: the zone is credited with all it can hold.
UpdateVWC ==
  /\ pc = "credit"
  /\ \/ SetVWC(znum, systemConfig[znum].MaxVWC) /\ NextZone("zone")
     \/ SetVWCFails /\ Goto("restore")
  /\ UNCHANGED <<clock, zoneState, lastRunDate, open, CommandRunning, config,
                 runtimesFile, rested, local, lastOpened, lied>>

RestoreState ==
  /\ pc = "restore"
  /\ SetState(znum, prevState) \/ SetStateFails
  /\ NextZone("zone")
  /\ UNCHANGED <<clock, vwc, lastRunDate, open, CommandRunning, config,
                 runtimesFile, rested, local, history>>

\* Mutant: the last zone is left out.
EndRunZonesEarly ==
  /\ pc = "zone"
  /\ znum + 1 >= NumZones(systemConfig)
  /\ CommandRunning' = FALSE
  /\ Goto("writeRuntimes")
  /\ Succeeds
  /\ UNCHANGED <<clock, store, open, config, runtimesFile, rested, local,
                 history>>
\* runZones returns nil whatever happened to its zones.
EndRunZones ==
  /\ pc = "zone"
  /\ znum >= NumZones(systemConfig)
  /\ CommandRunning' = FALSE
  /\ Goto("writeRuntimes")
  /\ Succeeds
  /\ UNCHANGED <<clock, store, open, config, runtimesFile, rested, local,
                 history>>
-----------------------------------------------------------------------------
\* The error is reported and the pass goes on.
WriteRuntimes ==
  /\ pc = "writeRuntimes"
  /\ Goto("setDate")
  /\ WriteFile(now.day, "actual")
  /\ UNCHANGED <<clock, store, open, CommandRunning, config, rested, local,
                 history>>

\* Mutant: the date of the day before, as where local time is ahead of UTC.
RunDateBehind == now.day - 1
RunDate == now.day

SetLastRunDate ==
  /\ pc = "setDate"
  /\ GoToSleep
  /\ \/ lastRunDate' = RunDate /\ Succeeds
     \/ UNCHANGED lastRunDate /\ Fails("set")
  /\ UNCHANGED <<clock, zoneState, vwc, open, CommandRunning, config,
                 runtimesFile, rested, local, history>>

\* Mutant: the runtimes outlive the call.
WakeUpKeepsPlan ==
  /\ pc = "sleep"
  /\ rested
  /\ rested' = FALSE
  /\ pc' = "start" /\ znum' = 0
  /\ Succeeds
  /\ UNCHANGED <<clock, store, open, CommandRunning, config, runtimesFile,
                 local, history>>
\* Run: runInterval is over, the next pass begins.
WakeUp ==
  /\ pc = "sleep"
  /\ rested
  /\ rested' = FALSE
  /\ pc' = "start" /\ znum' = 0
  /\ plan' = NoPlan
  /\ todo' = {}
  /\ Succeeds
  /\ UNCHANGED <<clock, store, open, CommandRunning, config, runtimesFile,
                 now, systemConfig, prevState, history>>

LoopStep ==
  \/ RunOnce \/ TurnAllOff \/ ReadConfig \/ CheckIfRanToday
  \/ ResetZone \/ WritePrediction
  \/ CalculateRuntimes \/ UpdateVWCInNonRunZones
  \/ StartRunZones \/ SelectZone \/ TurnOnSetState \/ OpenValve
  \/ SetStateUnknown \/ FinishFlow \/ CloseValve \/ TurnOffSetState
  \/ UpdateState \/ UpdateVWC \/ RestoreState \/ EndRunZones
  \/ WriteRuntimes \/ SetLastRunDate \/ WakeUp
-----------------------------------------------------------------------------
(***************************************************************************)
(* The environment                                                         *)
(***************************************************************************)
\* Time passes; at the end of the calendar only the sleep is affected.
Tick ==
  /\ Timely => pc = "sleep" /\ ~rested
  /\ \/ /\ slot + 1 < SlotsPerDay
        /\ slot' = slot + 1 /\ UNCHANGED day
     \/ /\ slot + 1 = SlotsPerDay /\ day < MaxDay
        /\ slot' = 0 /\ day' = day + 1
     \/ /\ slot + 1 = SlotsPerDay /\ day = MaxDay
        /\ UNCHANGED clock
  /\ rested' = (pc = "sleep")
  /\ UNCHANGED <<store, open, CommandRunning, config, runtimesFile, pc, local,
                 znum, faults, history>>

\* The date whose run-time file the loop is writing, if it is at it.
DateWritten == CASE pc = "predict"       -> tomorrow(now)
                 [] pc = "writeRuntimes" -> now.day
                 [] OTHER                -> NoDate

\* The process dies: what it had in memory is lost.
Crash ==
  /\ pc # "down"
  /\ pc' = "down"
  /\ Fails("crash")
  /\ CommandRunning' = FALSE
  /\ rested' = FALSE
  /\ now' = Midnight
  /\ systemConfig' = NoZones
  /\ znum' = 0
  /\ plan' = NoPlan
  /\ todo' = {}
  /\ prevState' = Idle
  /\ runtimesFile' \in {runtimesFile} \cup
                        (IF DateWritten = NoDate THEN {} ELSE MayBeTorn(DateWritten))
  /\ UNCHANGED <<clock, store, open, config, history>>

\* systemd starts it again, ten seconds later.
Restart ==
  /\ pc = "down"
  /\ Goto("start")
  /\ UNCHANGED <<clock, store, open, CommandRunning, config, runtimesFile,
                 rested, local, faults, history>>

\* setConfigHandler has accepted another configuration.
SetConfig ==
  /\ config' \in Configs \ {config}
  /\ UNCHANGED <<clock, store, open, CommandRunning, runtimesFile, pc, rested,
                 local, znum, faults, history>>

Next == LoopStep \/ Tick \/ Crash \/ Restart \/ SetConfig

\* The goroutine of the loop is scheduled, its calls return, time passes,
\* and the service manager restarts the process.
Fairness == WF_vars(LoopStep) /\ WF_vars(Tick) /\ WF_vars(Restart)

Spec == Init /\ [][Next]_vars /\ Fairness
-----------------------------------------------------------------------------
(***************************************************************************)
(* Properties                                                              *)
(***************************************************************************)
Times == [day : Days, slot : Slots]

\* Every variable has the type its use in the code gives it; a zone that is
\* being run is one that the configuration in use defines.
TypeOK ==
  /\ day \in Days /\ slot \in Slots
  /\ zoneState \in [Zones -> ZoneStates]
  /\ vwc \in [Zones -> Pct]
  /\ lastRunDate \in Days \cup {NoDate}
  /\ open \subseteq Zones
  /\ CommandRunning \in BOOLEAN
  /\ config \in Configs
  /\ runtimesFile \in RuntimesFiles
  /\ pc \in PCs
  /\ rested \in BOOLEAN
  /\ now \in Times
  /\ systemConfig \in Configs \cup {NoZones}
  /\ znum \in 0..NumValves
  /\ DOMAIN plan.runtimes \subseteq ConfiguredZones
  /\ DOMAIN plan.vwc \subseteq DOMAIN plan.runtimes
  /\ \A z \in DOMAIN plan.runtimes : plan.runtimes[z] \in Nat
  /\ \A z \in DOMAIN plan.vwc : plan.vwc[z] \in Pct
  /\ todo \subseteq DOMAIN plan.vwc
  /\ prevState \in ZoneStates
  /\ faults \in 0..MaxFaults
  /\ lastOpened \in [Zones -> Days \cup {0}]
  /\ vwcDate \in [Zones -> Days \cup {0}]
  /\ lied \subseteq open
  /\ pc \in RunZonesPCs \ {"zone"} => znum \in DOMAIN plan.runtimes

\* A valve is opened at most once for each date, whatever fails and however
\* often the process is killed and the pass repeated: when the loop is about
\* to open a valve (zone.go:101), no run of that date has opened it before.
AtMostOncePerDate == pc = "open" => lastOpened[znum] < now.day

\* The store never claims less than the valves do: while water flows the
\* zone is on record as Running, or as Unknown after a failed command, so a
\* process started after a crash knows it (zone.go:96-120).
OpenIsRecorded == \A z \in open : zoneState[z] \in {Running, Unknown}

\* Two zones never run at a time, not even after a crash left one open: only
\* the driver that opened a valve and reported failure can add another.
OneValveAtATime == \A y, z \in open \ lied : y = z

\* No water flows while the loop sleeps the hour between two passes, but
\* through a valve a command opened and reported failure for.
AsleepMeansShut == pc = "sleep" => open = lied

\* runZones credits a zone with a full soil only after its valve has been
\* opened for the date of this run, has been shut, and the zone has been
\* recorded as Complete: never for a zone it merely found running
\* (control.go:330-350).
CreditOnlyAfterFlow ==
  [][\A z \in Zones :
       pc \in RunZonesPCs /\ vwc'[z] # vwc[z] =>
         /\ lastOpened[z] = now.day
         /\ z \notin open
         /\ zoneState[z] = Complete]_vars

\* The times predicted for tomorrow (control.go:162) are never logged for a
\* date that has had its run, or part of one: not over the times of that run,
\* nor in their place when a failed or killed rewrite has lost them.
PredictionNeverReplacesRun ==
  [][\A d \in Days :
       runtimesFile'[d] = "predicted" /\ runtimesFile[d] # "predicted" =>
         /\ runtimesFile[d] # "actual"
         /\ d > lastRunDate
         /\ \A z \in Zones : lastOpened[z] < d]_vars

\* The loop keeps what OncePerDate promises: the store's date is the one on
\* record, a zone is watered when its valve opens, whatever the driver says.
Garden == INSTANCE OncePerDate WITH
  Dates    <- Days,
  recorded <- lastRunDate,
  watered  <- lastOpened,
  flowing  <- open \ lied
ImplementsOncePerDate == Garden!GardenSpec

\* As long as a prompt loop has suffered no failure, every zone has had its
\* turn on every date (control.go:112-117), the zones being reset in time.
NoDateMissed ==
  Timely /\ faults = 0 =>
    \A z \in DOMAIN config :
      z < NumZones(config) => lastOpened[z] >= day - 1

\* A failure costs a zone two dates at most: the one it fails on, and the one
\* after it, on which runZones only shuts off what it finds Unknown or passes
\* over what it finds Complete (control.go:325-337), be it that a valve could
\* not be opened, a pass was late for its reset or a state was not written.
AFailureCostsTwoDates ==
  Timely =>
    \A z \in DOMAIN config :
      z < NumZones(config) => lastOpened[z] >= day - 1 - 2 * faults

\* Every valve is shut in the end, after a crash and after a command that
\* opened it and reported failure.
EveryValveShuts == \A z \in Zones : z \in open ~> z \notin open

\* No failure leaves a zone out of Idle for good: Running and Unknown become
\* Complete, Complete becomes Idle (control.go:112-119, zone.go:60), within a
\* day and one more for each failure.  Only for days from which the calendar
\* has that many to spare, and a loop that keeps its hour.
NoZoneStuck ==
  \A z \in Zones : \A d \in {e \in Days : e + 1 + MaxFaults < MaxDay} :
    day = d /\ zoneState[z] # Idle
      ~> zoneState[z] = Idle /\ day <= d + 1 + MaxFaults

\* Every pass ends: the loop always comes back to sleep.
EveryPassEnds == pc # "sleep" ~> pc = "sleep"
-----------------------------------------------------------------------------
(***************************************************************************)
(* The inductive invariant: what has to be known at each point of the loop *)
(* for the properties above to hold at the next one.                       *)
(***************************************************************************)
\* A pass has begun and has not ended.
PassPCs == PCs \ {"down", "start", "sleep"}
\* It found that nothing was run on its date.
RunPCs == RunZonesPCs \cup {"plan", "updateVWC", "runZones", "writeRuntimes",
                            "setDate"}

\* What a pass computes does not outlive it.
PlanScope ==
  pc \in {"down", "start", "closeAll", "config"} =>
    plan = NoPlan /\ todo = {}

\* No date on record is in the future of the pass; a pass that runs zones
\* has a date of its own; a zone is Idle again only when the date of its
\* last run has been recorded.
Dates ==
  /\ lastRunDate <= day
  /\ \A z \in Zones : lastOpened[z] <= day
  /\ \A d \in DOMAIN runtimesFile : runtimesFile[d] = "actual" => d <= day
  /\ pc \in PassPCs =>
       /\ now.day <= day
       /\ lastRunDate <= now.day
       /\ \A z \in Zones : lastOpened[z] <= now.day
       /\ \A d \in DOMAIN runtimesFile :
            runtimesFile[d] = "actual" => d <= now.day
  /\ pc \in RunPCs => lastRunDate # now.day
  /\ pc = "reset" => lastRunDate = now.day
  /\ \A z \in Zones : zoneState[z] = Idle => lastOpened[z] <= lastRunDate

\* What runZones has done so far with the zone at hand.
ZoneAtHand ==
  /\ pc = "turnOn" => zoneState[znum] = Idle
  /\ pc = "open" => zoneState[znum] = Running
  /\ pc \in {"flow", "close", "complete", "update", "credit"} =>
       lastOpened[znum] = now.day
  /\ pc \in {"update", "credit", "restore"} => zoneState[znum] = Complete
  /\ pc \in {"credit", "restore"} => prevState = Complete

\* What is on record: it holds whoever else opens and shuts valves.
RecordInv == TypeOK /\ PlanScope /\ Dates /\ ZoneAtHand /\ AtMostOncePerDate

\* The zone at hand is shut as soon as runZones has shut it.
ZoneShut ==
  pc \in {"complete", "stopped", "update", "credit", "restore"} => znum \notin open

\* Besides the valves the driver lied about, the one valve that may be open
\* is that of the zone at hand, or of the zone that was at hand when the
\* process died.
Water ==
  /\ CommandRunning => pc \in RunZonesPCs
  /\ OneValveAtATime
  /\ pc \in {"flow", "close"} => open \ lied \subseteq {znum}
  /\ pc \notin {"flow", "close", "down", "start", "closeAll"} => open = lied

Inv == RecordInv /\ OpenIsRecorded /\ ZoneShut /\ Water
-----------------------------------------------------------------------------
(***************************************************************************)
(* What the comments of the code say: the first two as long as nothing has *)
(* failed, the third not always.                                           *)
(***************************************************************************)
\* alg.go:62, CalculateVWC is given "the previous day's VWC": the value the
\* day's evapotranspiration is taken from was not itself written today, but
\* by a pass that failed or died before it recorded its date.
DebitFromPreviousDay ==
  faults = 0 /\ pc = "plan" => \A z \in ConfiguredZones : vwcDate[z] < now.day

\* control.go:142 and :185, "alreadyRan will be true only if ALL zones were
\* successfully completed": a pass that has met no failure records its date
\* when every zone of its configuration is Complete.  (A zone whose valve
\* cannot be opened is passed over, and its date is recorded all the same.)
DateOnlyWhenAllRan ==
  [][faults = 0 /\ lastRunDate' # lastRunDate =>
       \A z \in ConfiguredZones : zoneState[z] = Complete]_vars

\* control.go:269, "If so, run the zone, otherwise just update it to new
\* value": a zone above its minimum ends the run with its computed VWC.
SkippedZoneKeepsVWC ==
  pc = "setDate" => \A z \in DOMAIN plan.vwc : vwc[z] = plan.vwc[z]

=============================================================================
