------------------------------- MODULE Server -------------------------------
(***************************************************************************)
(* The process of server.go: the control loop of RunLoop, and the HTTP     *)
(* handlers /runzone and /runzonestop that command the same valves.  They  *)
(* share the variable CommandRunning, read and written without a lock, and *)
(* nothing else: a manual run leaves no trace in the KV store.             *)
(*                                                                         *)
(* A request is served by a goroutine of Requests.  The goroutine of       *)
(* runzone goes on, after the reply, as the timer that ends the run; the   *)
(* number of minutes is left open, so it may end at any time.              *)
(***************************************************************************)
EXTENDS RunLoop

CONSTANT Requests   \* requests, and timers they started, there may be at once

ASSUME ValvesAssumption == NumValves # 0

VARIABLES
  hpc,     \* where the goroutine of each request is
  hzone    \* the zone the request names

handlers == <<hpc, hzone>>
serverVars == <<vars, handlers>>

HandlerPCs ==
  {"idle", "accepted", "open", "failed", "timer", "close", "stopped"}

ServerInit ==
  /\ Init
  /\ hpc = [r \in Requests |-> "idle"]
  /\ hzone = [r \in Requests |-> 0]

\* What no handler touches.
loopOnly == <<clock, store, config, runtimesFile, pc, rested, local, znum,
              lastOpened, vwcDate>>

valves == <<open, lied>>

HandlerAt(r, from, to) ==
  /\ hpc[r] = from
  /\ hpc' = [hpc EXCEPT ![r] = to]
-----------------------------------------------------------------------------
(***************************************************************************)
(* /runzone                                                                *)
(***************************************************************************)
\* The flag is looked at (server.go:236) ...
AcceptRunZone(r, z) ==
  /\ ~CommandRunning
  /\ HandlerAt(r, "idle", "accepted")
  /\ hzone' = [hzone EXCEPT ![r] = z]
  /\ Succeeds
  /\ UNCHANGED <<loopOnly, valves, CommandRunning>>

\* ... and later set (server.go:244).
ClaimCommand(r) ==
  /\ HandlerAt(r, "accepted", "open")
  /\ CommandRunning' = TRUE
  /\ Succeeds
  /\ UNCHANGED <<loopOnly, valves, hzone>>

ManualOpenValve(r) ==
  /\ \/ /\ open' = open \cup {hzone[r]}
        /\ HandlerAt(r, "open", "timer")
        /\ Succeeds
        /\ UNCHANGED lied
     \/ /\ open' = open \cup {hzone[r]}
        /\ lied' = lied \cup {hzone[r]}
        /\ HandlerAt(r, "open", "failed")
        /\ Fails("flaky")
     \/ /\ UNCHANGED valves
        /\ HandlerAt(r, "open", "failed")
        /\ Fails("open")
  /\ UNCHANGED <<loopOnly, CommandRunning, hzone>>

\* Mutant: the error path forgets the flag.
ManualOpenFailedKeepsFlag(r) ==
  /\ HandlerAt(r, "failed", "idle")
  /\ Succeeds
  /\ UNCHANGED <<loopOnly, valves, CommandRunning, hzone>>
\* The error path, server.go:248.
ManualOpenFailed(r) ==
  /\ HandlerAt(r, "failed", "idle")
  /\ CommandRunning' = FALSE
  /\ Succeeds
  /\ UNCHANGED <<loopOnly, valves, hzone>>

\* Mutant: a timer that finds the flag cleared takes the run for stopped.
EndManualRunIfClaimed(r) ==
  /\ HandlerAt(r, "timer", IF CommandRunning THEN "close" ELSE "idle")
  /\ CommandRunning' = FALSE
  /\ Succeeds
  /\ UNCHANGED <<loopOnly, valves, hzone>>
\* The timer of the run ends: the flag first, then the valve.
EndManualRun(r) ==
  /\ HandlerAt(r, "timer", "close")
  /\ CommandRunning' = FALSE
  /\ Succeeds
  /\ UNCHANGED <<loopOnly, valves, hzone>>

ManualCloseValve(r) ==
  /\ HandlerAt(r, "close", "idle")
  /\ open' = open \ {hzone[r]} /\ lied' = lied \ {hzone[r]}
  /\ Succeeds
  /\ UNCHANGED <<loopOnly, CommandRunning, hzone>>
-----------------------------------------------------------------------------
(***************************************************************************)
(* /runzonestop: the valve first, then the flag; no timer is cancelled.    *)
(***************************************************************************)
StopZone(r, z) ==
  /\ HandlerAt(r, "idle", "stopped")
  /\ hzone' = [hzone EXCEPT ![r] = z]
  /\ open' = open \ {z} /\ lied' = lied \ {z}
  /\ Succeeds
  /\ UNCHANGED <<loopOnly, CommandRunning>>

StopClearsCommand(r) ==
  /\ HandlerAt(r, "stopped", "idle")
  /\ CommandRunning' = FALSE
  /\ Succeeds
  /\ UNCHANGED <<loopOnly, valves, hzone>>
-----------------------------------------------------------------------------
\* Mutant: the number of valves is taken for a valve number.
RequestedZonesOneMore == 0..NumValves
\* num is in [0, NumValves), or the request is refused.
RequestedZones == Zones
NewRequest(r) ==
  \E z \in RequestedZones : AcceptRunZone(r, z) \/ StopZone(r, z)

HandlerStep(r) ==
  \/ ClaimCommand(r) \/ ManualOpenValve(r) \/ ManualOpenFailed(r)
  \/ EndManualRun(r) \/ ManualCloseValve(r)
  \/ StopClearsCommand(r)

ServerLoopStep == LoopStep /\ UNCHANGED handlers

ServerCrash ==
  /\ Crash
  /\ hpc' = [r \in Requests |-> "idle"]
  /\ hzone' = [r \in Requests |-> 0]

ServerNext ==
  \/ ServerLoopStep
  \/ (Tick \/ Restart \/ SetConfig) /\ UNCHANGED handlers
  \/ ServerCrash
  \/ pc # "down" /\ \E r \in Requests : NewRequest(r) \/ HandlerStep(r)

\* Every goroutine is scheduled and a manual run ends after mins minutes;
\* nobody has to send a request.
ServerFairness ==
  /\ WF_serverVars(ServerLoopStep)
  /\ WF_serverVars(Tick /\ UNCHANGED handlers)
  /\ WF_serverVars(Restart /\ UNCHANGED handlers)
  /\ \A r \in Requests : WF_serverVars(HandlerStep(r))

ServerSpec == ServerInit /\ [][ServerNext]_serverVars /\ ServerFairness
-----------------------------------------------------------------------------
(***************************************************************************)
(* Properties                                                              *)
(***************************************************************************)
ServerTypeOK ==
  /\ TypeOK
  /\ hpc \in [Requests -> HandlerPCs]
  /\ hzone \in [Requests -> Zones]

\* Water flows only where somebody is about to shut the valve: the timer of
\* a manual run or the loop itself.  Handlers and loop close each other's
\* valves, but never leave one without its closer; a crash, and a command
\* that opened a valve and reported failure, leave it to the next pass.
NoOrphanValve ==
  "crash" \notin FaultKinds =>
    \A z \in open \ lied :
      \/ \E r \in Requests : hzone[r] = z /\ hpc[r] \in {"timer", "close"}
      \/ znum = z /\ pc \in {"flow", "close"}

\* A valve that a crash or a lying driver has left open does not stay open,
\* unless manual runs of other zones, each of them ending in time, happen to
\* have the flag whenever the loop comes by: a pass that finds it taken goes
\* back to sleep before it shuts anything (control.go:123).
ShutUnlessKeptOut ==
  \A z \in Zones :
    z \in open ~> \/ z \notin open
                 \/ /\ pc = "start" /\ CommandRunning
                    /\ \E r \in Requests : /\ hpc[r] \in {"open", "failed", "timer"}
                                          /\ hzone[r] # z

\* The flag always comes free again, or the loop would never run again: each
\* path that sets it clears it, whatever the other goroutines do to it.
CommandEnds == CommandRunning ~> ~CommandRunning
=============================================================================
