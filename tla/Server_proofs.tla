--------------------------- MODULE Server_proofs ---------------------------
(***************************************************************************)
(* For any number of requests, valves, configurations and failures: the    *)
(* handlers of manual runs leave the loop's record intact, and no valve    *)
(* without a closer.                                                       *)
(***************************************************************************)
EXTENDS Server, RunLoop_proofs

\* The types of the handlers, and the closer of each valve.
HandlersOK ==
  /\ hpc \in [Requests -> HandlerPCs]
  /\ hzone \in [Requests -> Zones]

ServerInv == RecordInv /\ HandlersOK

\* A goroutine of the handlers, or a new one.
Handling(r) == NewRequest(r) \/ HandlerStep(r)

\* What no handler touches is what the loop's record is about; the valves a
\* driver lied about are open.
LEMMA HandlingRecord ==
  ASSUME RecordInv, HandlersOK, NEW r \in Requests, Handling(r)
  PROVE  RecordInv'
<1>1. UNCHANGED loopOnly
  BY DEF Handling, NewRequest, HandlerStep, AcceptRunZone, StopZone, ClaimCommand,
     ManualOpenValve, ManualOpenFailed, EndManualRun, ManualCloseValve,
     StopClearsCommand
<1>2. /\ UNCHANGED <<day, slot, zoneState, vwc, lastRunDate, config, runtimesFile>>
      /\ UNCHANGED <<pc, rested, now, systemConfig, plan, todo, prevState, znum>>
      /\ UNCHANGED <<lastOpened, vwcDate>>
  BY <1>1 DEF loopOnly, clock, store, local
<1>3. open' \subseteq Zones /\ lied' \subseteq open'
  <2>1. open \subseteq Zones /\ lied \subseteq open /\ hzone[r] \in Zones
    BY DEF RecordInv, TypeOK, HandlersOK
  <2>2. CASE UNCHANGED valves
    BY <2>1, <2>2 DEF valves
  <2>3. CASE \E z \in Zones : open' = open \ {z} /\ lied' = lied \ {z}
    BY <2>1, <2>3
  <2>4. CASE open' = open \cup {hzone[r]} /\ lied' \in {lied, lied \cup {hzone[r]}}
    BY <2>1, <2>4
  <2> QED
    BY <2>1, <2>2, <2>3, <2>4
    DEF Handling, NewRequest, RequestedZones, HandlerStep, AcceptRunZone, StopZone,
        ClaimCommand, ManualOpenValve, ManualOpenFailed, EndManualRun,
        ManualCloseValve, StopClearsCommand, valves
<1>4. CommandRunning' \in BOOLEAN /\ faults' \in 0..MaxFaults
  <2>1. CommandRunning \in BOOLEAN /\ faults \in 0..MaxFaults
    BY DEF RecordInv, TypeOK
  <2>2. CommandRunning' \in {CommandRunning, TRUE, FALSE}
    BY DEF Handling, NewRequest, HandlerStep, AcceptRunZone, StopZone, ClaimCommand,
       ManualOpenValve, ManualOpenFailed, EndManualRun, ManualCloseValve,
       StopClearsCommand
  <2>3. Succeeds \/ Fails("flaky") \/ Fails("open")
    BY DEF Handling, NewRequest, HandlerStep, AcceptRunZone, StopZone, ClaimCommand,
       ManualOpenValve, ManualOpenFailed, EndManualRun, ManualCloseValve,
       StopClearsCommand
  <2>4. faults' \in 0..MaxFaults
    BY <2>1, <2>3, FaultAssumption DEF Succeeds, Fails, FaultAssumption
  <2> QED BY <2>1, <2>2, <2>4
<1>5. TypeOK'
  BY <1>2, <1>3, <1>4
  DEF RecordInv, TypeOK, ConfiguredZones, RunZonesPCs
<1>6. PlanScope' /\ Dates' /\ ZoneAtHand' /\ AtMostOncePerDate'
  BY <1>2 DEF RecordInv, PlanScope, Dates, ZoneAtHand, AtMostOncePerDate,
     PassPCs, RunPCs
<1> QED BY <1>5, <1>6 DEF RecordInv

\* Each handler goes from one of its points to another.
LEMMA HandlingType ==
  ASSUME RecordInv, HandlersOK, NEW r \in Requests, Handling(r)
  PROVE  HandlersOK'
<1>1. \E from, to \in HandlerPCs : HandlerAt(r, from, to)
  BY DEF Handling, NewRequest, HandlerStep, AcceptRunZone, StopZone, ClaimCommand,
     ManualOpenValve, ManualOpenFailed, EndManualRun, ManualCloseValve,
     StopClearsCommand, HandlerPCs
<1>2. hpc' \in [Requests -> HandlerPCs]
  BY <1>1 DEF HandlerAt, HandlersOK
<1>3. hzone' = hzone \/ \E z \in Zones : hzone' = [hzone EXCEPT ![r] = z]
  BY DEF Handling, NewRequest, RequestedZones, HandlerStep, AcceptRunZone, StopZone,
     ClaimCommand, ManualOpenValve, ManualOpenFailed, EndManualRun,
     ManualCloseValve, StopClearsCommand
<1> QED BY <1>2, <1>3 DEF HandlersOK

LEMMA ServerInvInit == ServerInit => ServerInv
<1> SUFFICES ASSUME ServerInit PROVE ServerInv
  OBVIOUS
<1>1. RecordInv
  BY InvInit DEF ServerInit, Inv
<1>2. 0 \in Zones
  BY NumValvesAssumption, ValvesAssumption DEF NumValvesAssumption, Zones
<1> QED BY <1>1, <1>2 DEF ServerInv, ServerInit, HandlersOK, HandlerPCs

\* A step of the server is one of the loop and its surroundings, one of a
\* handler, or the death of all.
LEMMA ServerSteps ==
  ASSUME ServerNext
  PROVE  \/ Next /\ UNCHANGED handlers
         \/ ServerCrash
         \/ \E r \in Requests : Handling(r)
BY DEF ServerNext, ServerLoopStep, Next, Handling

\* Every step keeps what is on record.
LEMMA ServerInvStep == ServerInv /\ [ServerNext]_serverVars => ServerInv'
<1> SUFFICES ASSUME ServerInv, [ServerNext]_serverVars PROVE ServerInv'
  OBVIOUS
<1> USE DEF ServerInv
<1>1. CASE [Next]_vars /\ UNCHANGED handlers
  BY <1>1, RecordStep DEF handlers, HandlersOK
<1>2. CASE ServerCrash
  <2>1. RecordInv'
    BY <1>2, RecordStep DEF ServerCrash, Next
  <2>2. 0 \in Zones
    BY NumValvesAssumption, ValvesAssumption DEF NumValvesAssumption, Zones
  <2>3. HandlersOK'
    BY <1>2, <2>2 DEF ServerCrash, HandlersOK, HandlerPCs
  <2> QED BY <2>1, <2>3
<1>3. ASSUME NEW r \in Requests, Handling(r) PROVE ServerInv'
  BY <1>3, HandlingRecord, HandlingType
<1>4. CASE UNCHANGED serverVars
  BY <1>1, <1>4 DEF serverVars
<1> QED BY <1>1, <1>2, <1>3, <1>4, ServerSteps

\* What is on record stays sound beside any manual runs.
THEOREM ServerInvariance == ServerSpec => []ServerInv
BY ServerInvInit, ServerInvStep, PTL DEF ServerSpec

\* Type correctness of the server.
THEOREM ServerTypeCorrect == ServerSpec => []ServerTypeOK
<1>1. ServerInv => ServerTypeOK
  BY DEF ServerInv, RecordInv, HandlersOK, ServerTypeOK
<1> QED BY <1>1, ServerInvariance, PTL

\* Manual runs, accepted, stopped or ended at any time, do not make the loop
\* open a valve twice for one date (server.go:202-295, zone.go:95).
THEOREM OncePerDateBesideManualRuns == ServerSpec => []AtMostOncePerDate
<1>1. ServerInv => AtMostOncePerDate
  BY DEF ServerInv, RecordInv
<1> QED BY <1>1, ServerInvariance, PTL
-----------------------------------------------------------------------------
(***************************************************************************)
(* No valve without a closer                                               *)
(***************************************************************************)
Closer(z) ==
  \/ \E r \in Requests : hzone[r] = z /\ hpc[r] \in {"timer", "close"}
  \/ znum = z /\ pc \in {"flow", "close"}

\* Only its own opening makes the loop the closer of a valve, and only its
\* own closing ends that; it takes no manual run's closer away.
LEMMA LoopKeepsClosers ==
  ASSUME ServerInv, NoOrphanValve, "crash" \notin FaultKinds,
         Next, UNCHANGED handlers,
         NEW z \in (open \ lied)'
  PROVE  Closer(z)'
<1>1. ASSUME NEW r \in Requests, hzone[r] = z, hpc[r] \in {"timer", "close"}
      PROVE  Closer(z)'
  BY <1>1 DEF Closer, handlers
<1>2. CASE OpenValve
  <2>1. CASE z \in open \ lied
    <3>1. pc \notin {"flow", "close"}
      BY <1>2 DEF OpenValve
    <3> QED BY <1>1, <2>1, <3>1 DEF NoOrphanValve
  <2>2. CASE z \notin open \ lied
    <3>1. z = znum /\ pc' = "flow" /\ znum' = znum
      BY <1>2, <2>2 DEF OpenValve, Goto
    <3> QED BY <3>1 DEF Closer
  <2> QED BY <2>1, <2>2
<1>3. CASE TurnAllOff
  BY <1>3 DEF TurnAllOff
<1>4. CASE CloseValve
  <2>1. z \in open \ lied /\ z # znum
    BY <1>4 DEF CloseValve
  <2> QED BY <1>1, <2>1 DEF NoOrphanValve
<1>5. CASE ~OpenValve /\ ~TurnAllOff /\ ~CloseValve
  <2>1. UNCHANGED <<open, lied>>
    BY <1>5 DEF store, history, Next, LoopStep, RunOnce, ReadConfig,
       CheckIfRanToday, ResetZone, WritePrediction, CalculateRuntimes,
       UpdateVWCInNonRunZones, StartRunZones, SelectZone, TurnOnSetState,
       SetStateUnknown, FinishFlow, TurnOffSetState, UpdateState, UpdateVWC,
       RestoreState, EndRunZones, WriteRuntimes, SetLastRunDate, WakeUp, Tick,
       Crash, Restart, SetConfig
  <2>2. ~Crash
    BY DEF Crash, Fails
  <2>3. pc \in {"flow", "close"} => pc' \in {"flow", "close"} /\ znum' = znum
    BY <1>5, <2>2 DEF Next, LoopStep, RunOnce, ReadConfig,
       CheckIfRanToday, ResetZone, WritePrediction, CalculateRuntimes,
       UpdateVWCInNonRunZones, StartRunZones, SelectZone, TurnOnSetState,
       SetStateUnknown, FinishFlow, TurnOffSetState, UpdateState, UpdateVWC,
       RestoreState, EndRunZones, WriteRuntimes, SetLastRunDate, WakeUp, Tick,
       Restart, SetConfig, Goto, local
  <2>4. Closer(z)
    BY <2>1 DEF NoOrphanValve, Closer
  <2> QED BY <1>1, <2>3, <2>4 DEF Closer
<1> QED BY <1>2, <1>3, <1>4, <1>5

\* A handler closes what it has opened: its timer runs from the opening to
\* the closing, and it leaves the closers of other valves alone.
LEMMA HandlerKeepsClosers ==
  ASSUME ServerInv, NoOrphanValve, "crash" \notin FaultKinds,
         NEW r \in Requests, Handling(r),
         NEW z \in (open \ lied)'
  PROVE  Closer(z)'
<1>1. UNCHANGED <<pc, znum>>
  BY DEF Handling, NewRequest, HandlerStep, AcceptRunZone, StopZone, ClaimCommand,
     ManualOpenValve, ManualOpenFailed, EndManualRun, ManualCloseValve,
     StopClearsCommand, loopOnly
<1>2. /\ hpc \in [Requests -> HandlerPCs] /\ hzone \in [Requests -> Zones]
  BY DEF ServerInv, HandlersOK
<1>3. \A q \in Requests \ {r} : hpc'[q] = hpc[q] /\ hzone'[q] = hzone[q]
  BY <1>2 DEF Handling, NewRequest, HandlerStep, AcceptRunZone, StopZone, ClaimCommand,
     ManualOpenValve, ManualOpenFailed, EndManualRun, ManualCloseValve,
     StopClearsCommand, HandlerAt
<1>4. ASSUME z \in open \ lied,
             hzone[r] = z /\ hpc[r] \in {"timer", "close"} =>
               hzone'[r] = z /\ hpc'[r] \in {"timer", "close"}
      PROVE  Closer(z)'
  <2>1. Closer(z)
    BY <1>4 DEF NoOrphanValve, Closer
  <2> QED BY <1>1, <1>3, <1>4, <2>1 DEF Closer
<1>5. CASE ManualOpenValve(r)
  <2>1. CASE z \in open \ lied
    <3>1. hpc[r] = "open"
      BY <1>5 DEF ManualOpenValve, HandlerAt
    <3> QED BY <1>4, <2>1, <3>1
  <2>2. CASE z \notin open \ lied
    <3>1. z = hzone[r] /\ hzone' = hzone /\ hpc'[r] = "timer"
      BY <1>2, <1>5, <2>2 DEF ManualOpenValve, HandlerAt, valves
    <3> QED BY <3>1 DEF Closer
  <2> QED BY <2>1, <2>2
<1>6. CASE ManualCloseValve(r)
  <2>1. z \in open \ lied /\ z # hzone[r]
    BY <1>6 DEF ManualCloseValve
  <2> QED BY <1>4, <2>1
<1>7. CASE NewRequest(r)
  <2>1. z \in open \ lied /\ hpc[r] = "idle"
    BY <1>7 DEF NewRequest, AcceptRunZone, StopZone, HandlerAt, valves
  <2> QED BY <1>4, <2>1
<1>8. CASE EndManualRun(r)
  <2>1. z \in open \ lied /\ hzone' = hzone /\ hpc'[r] = "close"
    BY <1>2, <1>8 DEF EndManualRun, HandlerAt, valves
  <2> QED BY <1>4, <2>1
<1>9. CASE ClaimCommand(r) \/ ManualOpenFailed(r) \/ StopClearsCommand(r)
  <2>1. z \in open \ lied /\ hpc[r] \notin {"timer", "close"}
    BY <1>9 DEF ClaimCommand, ManualOpenFailed, StopClearsCommand, HandlerAt, valves
  <2> QED BY <1>4, <2>1
<1> QED BY <1>5, <1>6, <1>7, <1>8, <1>9 DEF Handling, HandlerStep

\* No step of the server takes the closer of an open valve away.
LEMMA NoOrphanStep ==
  ServerInv /\ NoOrphanValve /\ [ServerNext]_serverVars => NoOrphanValve'
<1> SUFFICES ASSUME ServerInv, NoOrphanValve, [ServerNext]_serverVars,
                    "crash" \notin FaultKinds, NEW z \in (open \ lied)'
             PROVE  Closer(z)'
  BY DEF NoOrphanValve, Closer
<1>1. CASE UNCHANGED serverVars
  BY <1>1 DEF serverVars, vars, handlers, history, NoOrphanValve, Closer
<1>2. CASE Next /\ UNCHANGED handlers
  BY <1>2, LoopKeepsClosers
<1>3. CASE ServerCrash
  BY <1>3 DEF ServerCrash, Crash, Fails
<1>4. ASSUME NEW r \in Requests, Handling(r) PROVE Closer(z)'
  BY <1>4, HandlerKeepsClosers
<1> QED BY <1>1, <1>2, <1>3, <1>4, ServerSteps

\* Every valve that is open, unless its driver reported a failure, has its
\* closer: in all interleavings of any number of manual runs and the loop
\* (server.go:244-295).
THEOREM EveryValveHasACloser == ServerSpec => []NoOrphanValve
<1>1. ServerInit => NoOrphanValve
  BY DEF ServerInit, Init, NoOrphanValve
<1> QED BY <1>1, NoOrphanStep, ServerInvariance, PTL DEF ServerSpec
=============================================================================
