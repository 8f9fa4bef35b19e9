----------------------------- MODULE PageServer -----------------------------
(***************************************************************************)
(* The run table of the web page (RunTable) and the handlers it talks to   *)
(* (Server), in a server started without -runloop, as it is by default:    *)
(* the control loop stays where it starts, and nobody but the page shuts a *)
(* valve.                                                                  *)
(*                                                                         *)
(* The page waits for each answer (async: false), takes no notice of a     *)
(* refusal, and counts the minutes of a run itself, from before it sends   *)
(* the request; the server counts them from when the valve has opened,     *)
(* which may be minutes later (valve.go:118-127), and refuses minutes it   *)
(* has no use for (server.go:229), as the page does not.                   *)
(*                                                                         *)
(* Time is in whole minutes: what falls due in a minute, and every request *)
(* made in it, is done before the next, in any order, but for the opening  *)
(* and the closing of a valve, which may take minutes.  The minutes a      *)
(* queued run was given are left open until it starts.                     *)
(*                                                                         *)
(* Neither the page nor the server restarts here, and a command that fails *)
(* has not opened its valve: without the loop, nobody would shut it.       *)
(***************************************************************************)
EXTENDS Server, Sequences

CONSTANTS
  MaxRuntimeSlots, AlgorithmSlots, NoZone, SaveWhileQueued,  \* of RunTable
  MaxRunMins, \* longest run the server accepts
  MaxMins,    \* longest run a user asks for
  MaxDelay,   \* minutes an opening may take
  NoRequest   \* the page awaits no answer

ASSUME MinutesAssumption ==
  MaxRunMins \in Nat \ {0} /\ MaxMins \in Nat \ {0} /\ MaxDelay \in Nat
ASSUME NoRequestAssumption == NoRequest \notin Requests

VARIABLES
  selectedZone, runTable, scheduledRuntimeSlots, running, runningZoneNum,
  runningName, i, sent,  \* of RunTable
  countdown,             \* minutes the page's countdown has left
  asked,                 \* how many of the requests sent have left the page
  awaiting,              \* the goroutine that serves the last of them
  timer,                 \* minutes the sleep of each goroutine has left
  took                   \* history: minutes the opening has taken

Page == INSTANCE RunTable WITH PageZones <- Zones

pageVars == <<selectedZone, runTable, scheduledRuntimeSlots, running,
              runningZoneNum, runningName, i, sent>>
pageServerVars ==
  <<serverVars, pageVars, countdown, asked, awaiting, timer, took>>

\* The form is refused for a zero or no number (tables.js:240), not for a
\* negative number, of which -1 stands for all, or one that is too large.
Minutes == (-1..MaxMins) \ {0}
AcceptedMinutes == 0..MaxRunMins

PageServerInit ==
  /\ ServerInit
  /\ Page!Init
  /\ countdown = 0
  /\ asked = 0
  /\ awaiting = NoRequest
  /\ timer = [r \in Requests |-> 0]
  /\ took = [r \in Requests |-> 0]

Answered == asked = Len(sent) /\ awaiting = NoRequest

Due(r) == hpc[r] = "timer" /\ timer[r] = 0
\* A countdown to a time in the past is never started, and never expires.
CountdownDue == running /\ countdown = 0

\* The requests and timers the goroutines of the bound leave room for.
IdleRequests == {r \in Requests : hpc[r] = "idle"}
-----------------------------------------------------------------------------
(***************************************************************************)
(* The page                                                                *)
(***************************************************************************)
\* Handlers of the page run one at a time, and wait for the server.
PageEvent(Event) ==
  /\ Answered
  /\ Event
  /\ asked' = 0
  /\ UNCHANGED <<serverVars, countdown, awaiting, timer, took>>

\* A click; two goroutines at least must be left for its requests (bound).
UserEvent ==
  /\ Cardinality(IdleRequests) >= 2
  /\ PageEvent(\/ \E z \in Zones : Page!SelectZone(z)
               \/ Page!RunButtonClick
               \/ Page!CancelRunning
               \/ \E s \in 0..MaxRuntimeSlots - 1 : Page!CancelQueued(s)
               \/ Page!SaveButtonClick)

CountdownEvent == CountdownDue /\ PageEvent(Page!CountdownExpires)
-----------------------------------------------------------------------------
(***************************************************************************)
(* Requests and answers                                                    *)
(***************************************************************************)
\* Mutant: the stop request names the zone selected by now.
RequestAtHandSelected == [sent[asked + 1] EXCEPT !.num = selectedZone]
RequestAtHand == sent[asked + 1]

\* runZone starts a countdown of the minutes it asks the server for.
AskServer(r) ==
  /\ asked < Len(sent) /\ awaiting = NoRequest
  /\ asked' = asked + 1
  /\ awaiting' = r
  /\ \/ /\ RequestAtHand.cmd = "runzone"
        /\ AcceptRunZone(r, RequestAtHand.num)
        /\ countdown' \in Minutes \cap AcceptedMinutes
        /\ timer' = [timer EXCEPT ![r] = countdown']
     \/ /\ RequestAtHand.cmd = "runzonestop"
        /\ StopZone(r, RequestAtHand.num)
        /\ UNCHANGED <<countdown, timer>>
  /\ UNCHANGED <<pageVars, took>>

\* The request is answered with an error; the page counts down all the same.
RequestRefused ==
  /\ asked < Len(sent) /\ awaiting = NoRequest
  /\ RequestAtHand.cmd = "runzone"
  /\ countdown' \in Minutes
  /\ countdown' \notin AcceptedMinutes \/ CommandRunning
  /\ asked' = asked + 1
  /\ UNCHANGED <<serverVars, pageVars, awaiting, timer, took>>

\* The handler at work; its answer lets the page go on.
ServeRequest(r) ==
  /\ awaiting = r
  /\ ClaimCommand(r) \/ ManualOpenValve(r) \/ ManualOpenFailed(r)
       \/ StopClearsCommand(r)
  /\ IF hpc'[r] \in {"open", "timer"}
     THEN UNCHANGED <<timer, took>>
     ELSE /\ timer' = [timer EXCEPT ![r] = 0]
          /\ took' = [took EXCEPT ![r] = 0]
  /\ awaiting' = IF hpc'[r] \in {"timer", "idle"} THEN NoRequest ELSE r
  /\ UNCHANGED <<pageVars, countdown, asked>>

\* The sleep of the goroutine of a run is over.
TimerStep(r) ==
  /\ \/ Due(r) /\ EndManualRun(r)
     \/ ManualCloseValve(r)
  /\ took' = [took EXCEPT ![r] = 0]
  /\ UNCHANGED <<pageVars, countdown, asked, awaiting, timer>>
-----------------------------------------------------------------------------
\* What the page waits for may take minutes: a valve to be opened, or shut.
Opening(r) == awaiting = r /\ hpc[r] = "open"
Closing ==
  /\ awaiting = NoRequest
  /\ asked < Len(sent)
  /\ RequestAtHand.cmd = "runzonestop"

Passed(m) == IF m > 0 THEN m - 1 ELSE m

\* A minute passes in which nothing else is left to be done.
NextMinute ==
  /\ \/ Answered /\ ~CountdownDue
     \/ Closing
     \/ \E r \in Requests : Opening(r) /\ took[r] < MaxDelay
  /\ \A r \in Requests : ~Due(r)
  /\ countdown' = IF running THEN Passed(countdown) ELSE 0
  /\ timer' = [r \in Requests |-> IF hpc[r] = "timer" THEN timer[r] - 1 ELSE timer[r]]
  /\ took' = [r \in Requests |-> IF Opening(r) THEN took[r] + 1 ELSE took[r]]
  /\ UNCHANGED <<serverVars, pageVars, asked, awaiting>>

PageServerNext ==
  \/ UserEvent \/ CountdownEvent \/ NextMinute \/ RequestRefused
  \/ \E r \in Requests : AskServer(r) \/ ServeRequest(r) \/ TimerStep(r)

\* Time passes, however often the user clicks, countdowns and timers go off,
\* requests are answered; nobody has to click.
PageServerFairness ==
  /\ SF_pageServerVars(NextMinute)
  /\ WF_pageServerVars(CountdownEvent)
  /\ WF_pageServerVars(RequestRefused)
  /\ WF_pageServerVars(\E r \in Requests : AskServer(r))
  /\ \A r \in Requests : /\ WF_pageServerVars(ServeRequest(r))
                         /\ WF_pageServerVars(TimerStep(r))

PageServerSpec ==
  PageServerInit /\ [][PageServerNext]_pageServerVars /\ PageServerFairness
-----------------------------------------------------------------------------
(***************************************************************************)
(* Properties                                                              *)
(***************************************************************************)
\* Nothing is being asked or served, and nothing is due this minute.
Quiet ==
  /\ Answered
  /\ ~CountdownDue
  /\ \A r \in Requests : hpc[r] \in {"idle", "timer"} /\ ~Due(r)

\* The page counts the minutes of a run from before its valve opens: when it
\* counts the last of them the run has as many to go as the opening took.
Overdue(r) == hpc[r] = "timer" /\ timer[r] <= took[r]

\* The page knows of the water that flows: at most the valve of the zone it
\* took for running is open, and none if it shows no run, but for a run the
\* page has counted to its end while its valve was still being opened.  The
\* page cancels the zone it remembers (tables.js:216, :255), the server ends
\* the run by its own clock (server.go:253-258), and either may come first.
OnlyTheShownRunFlows ==
  Quiet =>
    \A z \in open : \/ running /\ z = runningZoneNum
                    \/ \E r \in Requests : Overdue(r) /\ hzone[r] = z

\* The page's run is refused for two reasons only: its minutes are out of the
\* server's range (server.go:229), or the run before it has not ended by the
\* server's clock, which was started after the page's (tables.js:206-214,
\* server.go:236-254).  A run that has failed to open its valve, or that was
\* stopped, never stands in the way of the next.
RefusedForCause ==
  [][asked' = asked + 1 /\ awaiting' = NoRequest =>
       \/ countdown' \notin AcceptedMinutes
       \/ \E r \in Requests : Overdue(r)]_pageServerVars
=============================================================================
