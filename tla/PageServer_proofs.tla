------------------------- MODULE PageServer_proofs -------------------------
(***************************************************************************)
(* Proofs about the page and the server together, for any zones, slots,    *)
(* minutes, requests and failures: the composition does nothing that its   *)
(* parts may not do, and the two clocks agree on what runs.                *)
(***************************************************************************)
EXTENDS PageServer, Server_proofs, SequenceTheorems

\* What the page remembers, and what it has sent: a run is asked for last,
\* by the zone shown; a stop first.
PageInOrder ==
  /\ selectedZone \in Zones \cup {NoZone}
  /\ running \in BOOLEAN
  /\ running => selectedZone \in Zones /\ runningZoneNum \in Zones
  /\ Len(sent) \in Nat /\ asked \in 0..Len(sent)
  /\ \A k \in 1..Len(sent) :
       /\ sent[k].num \in Zones
       /\ \/ /\ sent[k].cmd = "runzone"
             /\ k = Len(sent) /\ running /\ sent[k].num = runningZoneNum
          \/ /\ sent[k].cmd = "runzonestop"
             /\ k = 1

\* While its valve is being opened, a run has as much before it as the page
\* counts, and the minutes the opening has taken.
ClocksInOrder ==
  /\ countdown \in Minutes \cup {0}
  /\ timer \in [Requests -> Nat]
  /\ took \in [Requests -> Nat]
  /\ \A r \in Requests :
       hpc[r] \in {"accepted", "open"} => timer[r] <= countdown + took[r]

\* The page waits for the one goroutine that is at work on its request.
Waits ==
  /\ awaiting \in Requests \cup {NoRequest}
  /\ awaiting # NoRequest =>
       hpc[awaiting] \in {"accepted", "open", "failed", "stopped"}
  /\ \A r \in Requests :
       /\ hpc[r] = "stopped" => awaiting = r
       /\ hpc[r] \in {"accepted", "open", "failed"} =>
            /\ awaiting = r
            /\ asked = Len(sent) /\ running /\ hzone[r] = runningZoneNum

\* The next request to leave the page is a stop.
StopAtHand == asked = 0 /\ Len(sent) # 0 /\ sent[1].cmd = "runzonestop"

\* The goroutine r will end the run shown no later than the page believes,
\* and the minutes its valve took to open.
EndsInTime(r) ==
  /\ hpc[r] = "timer" /\ timer[r] <= countdown + took[r]
  /\ running /\ asked = Len(sent)

\* Water flows in the zone shown and for no longer than that, or in one that
\* the page has counted to its end, or until the stop arrives.
Supplied(z) ==
  \/ StopAtHand /\ sent[1].num = z
  \/ \E r \in Requests :
       /\ hzone[r] = z
       /\ \/ hpc[r] = "close"
          \/ Overdue(r)
          \/ EndsInTime(r) /\ runningZoneNum = z
WaterIsShown == \A z \in open \ lied : Supplied(z)

\* Only a command that fails and opens its valve leaves it to nobody.
NothingLied == "flaky" \notin FaultKinds => lied = {}

\* The flag is that of a request at work or of a run that ends in time.
Claimed ==
  \/ StopAtHand
  \/ \E r \in Requests :
       \/ hpc[r] \in {"open", "failed", "stopped"}
       \/ Overdue(r)
       \/ EndsInTime(r)
FlagIsOwned == CommandRunning => Claimed

PageServerInv ==
  /\ ServerInv /\ pc = "start"
  /\ PageInOrder /\ ClocksInOrder /\ Waits
  /\ WaterIsShown /\ NothingLied /\ FlagIsOwned
-----------------------------------------------------------------------------
(***************************************************************************)
(* What the parts may do                                                   *)
(***************************************************************************)
\* What an event of the page sends: nothing, and what is shown stays or
\* ends; a run of the zone it shows from now on; or a stop of the zone it
\* has shown, followed by the next run if one waits.
SendsNothing ==
  /\ sent' = << >>
  /\ UNCHANGED runningZoneNum
  /\ UNCHANGED running \/ (running /\ countdown = 0 /\ ~running')
StartsRun(q) == q.cmd = "runzone" /\ q.num = runningZoneNum' /\ running'
StopsRun(q) == q.cmd = "runzonestop" /\ q.num = runningZoneNum /\ running
Sends ==
  \/ SendsNothing
  \/ \E q : sent' = <<q>> /\ StartsRun(q) /\ (running => countdown = 0)
  \/ \E q : sent' = <<q>> /\ StopsRun(q) /\ ~running'
  \/ \E p, q : sent' = <<p, q>> /\ StopsRun(p) /\ StartsRun(q)

\* A handler of the page, between two answers of the server.
PageStep == UserEvent \/ CountdownEvent

\* The events of the page, one by one.
LEMMA PageEvents ==
  ASSUME PageStep
  PROVE  /\ Answered /\ asked' = 0
         /\ UNCHANGED <<serverVars, countdown, awaiting, timer, took>>
         /\ \/ \E z \in Zones : Page!SelectZone(z)
            \/ Page!RunButtonClick
            \/ Page!CancelRunning
            \/ \E s \in 0..MaxRuntimeSlots - 1 : Page!CancelQueued(s)
            \/ Page!SaveButtonClick
            \/ countdown = 0 /\ Page!CountdownExpires
BY DEF PageStep, UserEvent, CountdownEvent, CountdownDue, PageEvent

\* A run that is asked for after a stop.
LEMMA TwoRequests ==
  ASSUME NEW a, NEW b
  PROVE  Append(<<a>>, b) = <<a, b>>
<1>1. <<a>> \in Seq({a, b}) /\ <<a, b>> \in Seq({a, b})
  OBVIOUS
<1>2. /\ Append(<<a>>, b) \in Seq({a, b})
      /\ Len(Append(<<a>>, b)) = 2
      /\ Append(<<a>>, b)[1] = a /\ Append(<<a>>, b)[2] = b
  BY <1>1, AppendProperties
<1>3. \A k \in 1..2 : Append(<<a>>, b)[k] = <<a, b>>[k]
  BY <1>2
<1> QED BY <1>1, <1>2, <1>3, SeqEqual

\* tables.js:191-232: the requests of each event, in their order.
LEMMA EventSends ==
  ASSUME PageInOrder, PageStep
  PROVE  /\ Sends
         /\ selectedZone' \in Zones \cup {NoZone}
         /\ running' \in BOOLEAN
         /\ running' => selectedZone' \in Zones /\ runningZoneNum' \in Zones
<1> USE DEF PageInOrder
<1>1. ASSUME NEW first, Page!RunCountdownComplete(first), running,
             (first = << >> /\ countdown = 0) \/ first = <<Page!StopRequest>>
      PROVE  /\ Sends
             /\ running' \in BOOLEAN
             /\ UNCHANGED selectedZone
             /\ running' => runningZoneNum' \in Zones
  <2>1. CASE scheduledRuntimeSlots = 0
    <3>1. /\ running' = FALSE /\ sent' = first
          /\ UNCHANGED <<runningZoneNum, selectedZone>>
      BY <1>1, <2>1 DEF Page!RunCountdownComplete
    <3>2. CASE first = << >> /\ countdown = 0
      BY <1>1, <3>1, <3>2 DEF Sends, SendsNothing
    <3>3. CASE first = <<Page!StopRequest>>
      <4>1. StopsRun(Page!StopRequest)
        BY <1>1 DEF StopsRun, Page!StopRequest
      <4> QED BY <3>1, <3>3, <4>1 DEF Sends
    <3> QED BY <1>1, <3>1, <3>2, <3>3
  <2>2. CASE scheduledRuntimeSlots # 0
    <3> DEFINE next == Page!RunRequest(runTable[0])
    <3>1. /\ running' = TRUE /\ runningZoneNum' = selectedZone
          /\ sent' = Append(first, next)
          /\ UNCHANGED selectedZone
      BY <1>1, <2>2 DEF Page!RunCountdownComplete, Page!RunZone
    <3>2. StartsRun(next)
      BY <3>1 DEF StartsRun, Page!RunRequest
    <3> HIDE DEF next
    <3>3. CASE first = << >> /\ countdown = 0
      <4>1. sent' = <<next>>
        BY <3>1, <3>3
      <4> QED BY <1>1, <3>1, <3>2, <3>3, <4>1 DEF Sends
    <3>4. CASE first = <<Page!StopRequest>>
      <4>1. StopsRun(Page!StopRequest)
        BY <1>1 DEF StopsRun, Page!StopRequest
      <4>2. sent' = <<Page!StopRequest, next>>
        BY <3>1, <3>4, TwoRequests
      <4> QED BY <1>1, <3>1, <3>2, <4>1, <4>2 DEF Sends
    <3> QED BY <1>1, <3>3, <3>4
  <2> QED BY <1>1, <2>1, <2>2
<1>2. CASE \E z \in Zones : Page!SelectZone(z)
  BY <1>2 DEF Page!SelectZone, Sends, SendsNothing
<1>3. CASE Page!RunButtonClick
  <2>1. CASE running
    BY <1>3, <2>1 DEF Page!RunButtonClick, Sends, SendsNothing
  <2>2. CASE ~running
    <3>1. /\ selectedZone # NoZone /\ UNCHANGED selectedZone
          /\ running' = TRUE /\ runningZoneNum' = selectedZone
          /\ sent' = <<Page!RunRequest(selectedZone)>>
      BY <1>3, <2>2 DEF Page!RunButtonClick, Page!RunZone
    <3>2. StartsRun(Page!RunRequest(selectedZone))
      BY <3>1 DEF StartsRun, Page!RunRequest
    <3> QED BY <2>2, <3>1, <3>2 DEF Sends
  <2> QED BY <2>1, <2>2
<1>4. CASE \E s \in 0..MaxRuntimeSlots - 1 : Page!CancelQueued(s)
  BY <1>4 DEF Page!CancelQueued, Sends, SendsNothing
<1>5. CASE Page!SaveButtonClick
  BY <1>5 DEF Page!SaveButtonClick, Sends, SendsNothing
<1>6. CASE Page!CancelRunning
  BY <1>1, <1>6 DEF Page!CancelRunning
<1>7. CASE countdown = 0 /\ Page!CountdownExpires
  BY <1>1, <1>7 DEF Page!CountdownExpires
<1> QED BY <1>2, <1>3, <1>4, <1>5, <1>6, <1>7, PageEvents

LEMMA PageServerSteps ==
  ASSUME PageServerNext
  PROVE  \/ PageStep \/ NextMinute \/ RequestRefused
         \/ \E r \in Requests : AskServer(r) \/ ServeRequest(r) \/ TimerStep(r)
BY DEF PageServerNext, PageStep

\* The request that is asked or refused next.
LEMMA AtHand ==
  ASSUME PageInOrder, asked < Len(sent)
  PROVE  /\ asked + 1 \in 1..Len(sent)
         /\ RequestAtHand.num \in Zones
         /\ RequestAtHand.cmd = "runzone" =>
              /\ asked + 1 = Len(sent) /\ running
              /\ RequestAtHand.num = runningZoneNum
         /\ RequestAtHand.cmd = "runzonestop" => asked = 0
<1>1. asked \in Nat /\ Len(sent) \in Nat /\ asked + 1 \in 1..Len(sent)
  BY DEF PageInOrder
<1> QED BY <1>1 DEF PageInOrder, RequestAtHand

\* The server does what its handlers do, and nothing else.
LEMMA ServerMoves ==
  ASSUME PageInOrder, PageServerNext
  PROVE  UNCHANGED serverVars \/ \E r \in Requests : Handling(r)
<1>1. CASE PageStep
  BY <1>1, PageEvents
<1>2. CASE NextMinute \/ RequestRefused
  BY <1>2 DEF NextMinute, RequestRefused
<1>3. ASSUME NEW r \in Requests, AskServer(r) PROVE Handling(r)
  <2>1. RequestAtHand.num \in Zones
    BY <1>3, AtHand DEF AskServer
  <2> QED BY <1>3, <2>1 DEF AskServer, Handling, NewRequest, RequestedZones
<1>4. ASSUME NEW r \in Requests, ServeRequest(r) \/ TimerStep(r) PROVE Handling(r)
  BY <1>4 DEF ServeRequest, TimerStep, Handling, HandlerStep
<1> QED BY <1>1, <1>2, <1>3, <1>4, PageServerSteps

\* No handler moves the loop.
LEMMA HandlingLoop ==
  ASSUME NEW r \in Requests, Handling(r)
  PROVE  UNCHANGED pc
BY DEF Handling, NewRequest, HandlerStep, AcceptRunZone, StopZone, ClaimCommand,
   ManualOpenValve, ManualOpenFailed, EndManualRun, ManualCloseValve,
   StopClearsCommand, loopOnly

\* The server's record is kept, beside the page as beside anybody else.
LEMMA ServerKept ==
  ASSUME PageServerInv, [PageServerNext]_pageServerVars
  PROVE  ServerInv' /\ pc' = "start"
<1>1. CASE UNCHANGED serverVars
  <2>1. ServerInv'
    BY <1>1, ServerInvStep DEF PageServerInv
  <2> QED BY <1>1, <2>1 DEF serverVars, vars, PageServerInv
<1>2. ASSUME NEW r \in Requests, Handling(r) PROVE ServerInv' /\ pc' = "start"
  BY <1>2, HandlingRecord, HandlingType, HandlingLoop DEF PageServerInv, ServerInv
<1> QED BY <1>1, <1>2, ServerMoves DEF PageServerInv, pageServerVars
-----------------------------------------------------------------------------
(***************************************************************************)
(* The page and its clocks                                                 *)
(***************************************************************************)
LEMMA PageInOrderStep ==
  ASSUME PageInOrder, PageServerNext
  PROVE  PageInOrder'
<1>1. CASE PageStep
  <2>1. /\ asked' = 0
        /\ selectedZone' \in Zones \cup {NoZone}
        /\ running' \in BOOLEAN
        /\ running' => selectedZone' \in Zones /\ runningZoneNum' \in Zones
        /\ Sends
    BY <1>1, EventSends, PageEvents
  <2>2. CASE SendsNothing
    <3>1. Len(sent') = 0
      BY <2>2, EmptySeq DEF SendsNothing
    <3> QED BY <2>1, <3>1 DEF PageInOrder
  <2>3. ASSUME NEW q, sent' = <<q>>, StartsRun(q) PROVE PageInOrder'
    <3>1. Len(sent') = 1 /\ sent'[1] = q
      BY <2>3
    <3> QED BY <2>1, <2>3, <3>1 DEF PageInOrder, StartsRun
  <2>4. ASSUME NEW q, sent' = <<q>>, StopsRun(q) PROVE PageInOrder'
    <3>1. Len(sent') = 1 /\ sent'[1] = q
      BY <2>4
    <3> QED BY <2>1, <2>4, <3>1 DEF PageInOrder, StopsRun
  <2>5. ASSUME NEW p, NEW q, sent' = <<p, q>>, StopsRun(p), StartsRun(q)
        PROVE  PageInOrder'
    <3>1. Len(sent') = 2 /\ sent'[1] = p /\ sent'[2] = q
      BY <2>5
    <3> QED BY <2>1, <2>5, <3>1 DEF PageInOrder, StartsRun, StopsRun
  <2> QED BY <2>1, <2>2, <2>3, <2>4, <2>5 DEF Sends
<1>2. CASE /\ UNCHANGED pageVars
           /\ asked' = asked \/ (asked < Len(sent) /\ asked' = asked + 1)
  BY <1>2 DEF PageInOrder, pageVars
<1> QED
  BY <1>1, <1>2, PageServerSteps
  DEF NextMinute, RequestRefused, AskServer, ServeRequest, TimerStep

\* The goroutines a step leaves alone.
LEMMA OthersStay ==
  ASSUME HandlersOK, NEW r \in Requests, Handling(r)
  PROVE  \A q \in Requests \ {r} : hpc'[q] = hpc[q] /\ hzone'[q] = hzone[q]
BY DEF HandlersOK, Handling, NewRequest, HandlerStep, AcceptRunZone, StopZone,
   ClaimCommand, ManualOpenValve, ManualOpenFailed, EndManualRun, ManualCloseValve,
   StopClearsCommand, HandlerAt

\* Where a request that is being served goes, and what it leaves open.
LEMMA Serving ==
  ASSUME HandlersOK, Waits, NEW r \in Requests, ServeRequest(r)
  PROVE  /\ Handling(r) /\ awaiting = r /\ UNCHANGED <<hzone, pageVars, countdown, asked>>
         /\ \/ hpc'[r] \in {"open", "timer"} /\ UNCHANGED <<timer, took>>
            \/ /\ hpc'[r] \notin {"open", "timer"}
               /\ timer' = [timer EXCEPT ![r] = 0] /\ took' = [took EXCEPT ![r] = 0]
         /\ awaiting' = IF hpc'[r] \in {"timer", "idle"} THEN NoRequest ELSE r
         /\ \/ /\ hpc[r] = "accepted" /\ hpc'[r] = "open"
               /\ UNCHANGED <<open, lied>>
            \/ /\ hpc[r] = "open" /\ hpc'[r] \in {"timer", "failed"}
               /\ UNCHANGED CommandRunning
               /\ \/ UNCHANGED lied
                  \/ open' \ lied' \subseteq open \ lied /\ Fails("flaky")
               /\ open' = open \/ open' = open \cup {hzone[r]}
               /\ hpc'[r] = "failed" => open' \ lied' \subseteq open \ lied
            \/ /\ hpc[r] \in {"failed", "stopped"} /\ hpc'[r] = "idle"
               /\ UNCHANGED <<open, lied>> /\ ~CommandRunning'
BY DEF ServeRequest, Handling, HandlerStep, ClaimCommand, ManualOpenValve,
   ManualOpenFailed, StopClearsCommand, HandlerAt, HandlersOK, valves, Waits

\* The end of a run, by the server's clock.
LEMMA Ending ==
  ASSUME HandlersOK, NEW r \in Requests, TimerStep(r)
  PROVE  /\ Handling(r) /\ UNCHANGED <<hzone, pageVars, countdown, asked, awaiting, timer>>
         /\ took' = [took EXCEPT ![r] = 0]
         /\ \/ /\ hpc[r] = "timer" /\ hpc'[r] = "close" /\ Due(r)
               /\ UNCHANGED <<open, lied>> /\ ~CommandRunning'
            \/ /\ hpc[r] = "close" /\ hpc'[r] = "idle"
               /\ UNCHANGED CommandRunning
               /\ open' = open \ {hzone[r]} /\ lied' = lied \ {hzone[r]}
BY DEF TimerStep, Due, Handling, HandlerStep, EndManualRun, ManualCloseValve, HandlerAt,
   HandlersOK, valves

\* A request that leaves the page.
LEMMA Asking ==
  ASSUME HandlersOK, PageInOrder, NEW r \in Requests, AskServer(r)
  PROVE  /\ Handling(r) /\ UNCHANGED <<pageVars, took>>
         /\ asked < Len(sent) /\ asked' = asked + 1
         /\ awaiting = NoRequest /\ awaiting' = r /\ hpc[r] = "idle"
         /\ UNCHANGED CommandRunning
         /\ \/ /\ asked + 1 = Len(sent) /\ running
               /\ ~CommandRunning /\ hpc'[r] = "accepted"
               /\ hzone'[r] = runningZoneNum
               /\ UNCHANGED <<open, lied>>
               /\ sent[asked + 1].cmd = "runzone"
               /\ timer' = [timer EXCEPT ![r] = countdown']
            \/ /\ asked = 0
               /\ hpc'[r] = "stopped"
               /\ UNCHANGED <<countdown, timer>>
               /\ open' = open \ {sent[1].num} /\ lied' = lied \ {sent[1].num}
<1>1. asked < Len(sent)
  BY DEF AskServer
<1>2. CASE RequestAtHand.cmd = "runzone" /\ AcceptRunZone(r, RequestAtHand.num)
  BY <1>1, <1>2, AtHand
  DEF AskServer, AcceptRunZone, HandlerAt, HandlersOK, valves, Handling, NewRequest,
      RequestedZones, RequestAtHand
<1>3. CASE RequestAtHand.cmd = "runzonestop" /\ StopZone(r, RequestAtHand.num)
  <2>1. asked = 0 /\ RequestAtHand = sent[1] /\ sent[1].num \in Zones
    BY <1>1, <1>3, AtHand DEF RequestAtHand
  <2>2. Handling(r)
    BY <1>3, <2>1 DEF Handling, NewRequest, RequestedZones
  <2> QED
    BY <1>1, <1>3, <2>1, <2>2 DEF AskServer, StopZone, HandlerAt, HandlersOK
<1> QED BY <1>2, <1>3 DEF AskServer

\* The minutes of page and server, while a valve is being opened.
LEMMA ClocksInOrderStep ==
  ASSUME HandlersOK, PageInOrder, ClocksInOrder, Waits, PageServerNext
  PROVE  ClocksInOrder'
<1> USE MinutesAssumption, NoRequestAssumption
    DEF MinutesAssumption, NoRequestAssumption, ClocksInOrder, Minutes
<1>1. CASE PageStep
  BY <1>1, PageEvents DEF serverVars, handlers
<1>2. CASE NextMinute
  <2>1. /\ UNCHANGED hpc
        /\ countdown' = IF running THEN Passed(countdown) ELSE 0
        /\ timer' = [r \in Requests |-> IF hpc[r] = "timer" THEN timer[r] - 1 ELSE timer[r]]
        /\ took' = [r \in Requests |-> IF Opening(r) THEN took[r] + 1 ELSE took[r]]
        /\ \A r \in Requests : ~Due(r)
    BY <1>2 DEF NextMinute, serverVars, handlers
  <2>2. /\ countdown' \in Minutes \cup {0}
        /\ running => countdown' >= countdown - 1
    BY <2>1 DEF Passed
  <2>3. took' \in [Requests -> Nat]
    BY <2>1
  <2>4. timer' \in [Requests -> Nat]
    BY <2>1 DEF Due
  <2>5. ASSUME NEW r \in Requests, hpc[r] \in {"accepted", "open"}
        PROVE  timer'[r] <= countdown' + took'[r]
    <3>1. awaiting = r /\ running
      BY <2>5 DEF Waits
    <3>2. Opening(r)
      BY <1>2, <3>1 DEF NextMinute, Answered, Closing, Opening
    <3>3. timer'[r] = timer[r] /\ took'[r] = took[r] + 1
      BY <2>1, <2>5, <3>2
    <3> QED BY <2>2, <2>5, <3>1, <3>3
  <2> QED BY <2>1, <2>2, <2>3, <2>4, <2>5
<1>3. CASE RequestRefused
  <2>1. /\ UNCHANGED <<hpc, timer, took>> /\ awaiting = NoRequest
        /\ countdown' \in Minutes
    BY <1>3 DEF RequestRefused, serverVars, handlers
  <2> QED BY <2>1 DEF Waits
<1>4. ASSUME NEW r \in Requests, AskServer(r) PROVE ClocksInOrder'
  <2>1. /\ UNCHANGED took /\ awaiting = NoRequest
        /\ \A q \in Requests \ {r} : hpc'[q] = hpc[q]
    BY <1>4, Asking, OthersStay
  <2>2. \A q \in Requests \ {r} : hpc'[q] \notin {"accepted", "open"}
    BY <2>1 DEF Waits
  <2>3. CASE RequestAtHand.cmd = "runzonestop"
    <3>1. UNCHANGED <<countdown, timer>> /\ hpc'[r] = "stopped"
      BY <1>4, <2>3 DEF AskServer, StopZone, HandlerAt, HandlersOK
    <3> QED BY <2>1, <2>2, <3>1
  <2>4. CASE RequestAtHand.cmd = "runzone"
    <3>1. /\ countdown' \in Minutes \cap AcceptedMinutes
          /\ timer' = [timer EXCEPT ![r] = countdown']
      BY <1>4, <2>4 DEF AskServer
    <3>2. countdown' \in Nat /\ timer'[r] = countdown'
      BY <3>1 DEF AcceptedMinutes
    <3> QED BY <2>1, <2>2, <3>1, <3>2
  <2> QED BY <1>4, <2>3, <2>4 DEF AskServer
<1>5. ASSUME NEW r \in Requests, ServeRequest(r) PROVE ClocksInOrder'
  <2>1. \A q \in Requests \ {r} : hpc'[q] = hpc[q]
    BY <1>5, Serving, OthersStay
  <2>2. CASE hpc'[r] \in {"open", "timer"} /\ UNCHANGED <<timer, took>>
    BY <1>5, <2>1, <2>2, Serving
  <2>3. CASE /\ hpc'[r] \notin {"open", "timer"}
             /\ timer' = [timer EXCEPT ![r] = 0] /\ took' = [took EXCEPT ![r] = 0]
    BY <1>5, <2>1, <2>3, Serving
  <2> QED BY <1>5, <2>2, <2>3, Serving
<1>6. ASSUME NEW r \in Requests, TimerStep(r) PROVE ClocksInOrder'
  BY <1>6, Ending, OthersStay
<1> QED BY <1>1, <1>2, <1>3, <1>4, <1>5, <1>6, PageServerSteps

\* The page waits for one goroutine at a time (async: false).
LEMMA WaitsStep ==
  ASSUME HandlersOK, PageInOrder, Waits, PageServerNext
  PROVE  Waits'
<1> USE NoRequestAssumption DEF NoRequestAssumption
<1>1. CASE awaiting = NoRequest /\ UNCHANGED <<awaiting, hpc, hzone>>
  BY <1>1 DEF Waits
<1>2. CASE PageStep \/ RequestRefused
  BY <1>1, <1>2, PageEvents DEF Answered, RequestRefused, serverVars, handlers
<1>a. CASE NextMinute
  <2>1. UNCHANGED <<awaiting, hpc, hzone, asked, sent, running, runningZoneNum>>
    BY <1>a DEF NextMinute, serverVars, handlers, pageVars
  <2> QED BY <2>1 DEF Waits
<1>3. ASSUME NEW r \in Requests, AskServer(r) PROVE Waits'
  BY <1>3, Asking, OthersStay DEF Waits, pageVars
<1>4. ASSUME NEW r \in Requests, ServeRequest(r) PROVE Waits'
  BY <1>4, Serving, OthersStay DEF Waits, pageVars
<1>5. ASSUME NEW r \in Requests, TimerStep(r) PROVE Waits'
  BY <1>5, Ending, OthersStay DEF Waits, pageVars
<1> QED BY <1>2, <1>a, <1>3, <1>4, <1>5, PageServerSteps
-----------------------------------------------------------------------------
(***************************************************************************)
(* The two clocks                                                          *)
(***************************************************************************)
\* A run that ends in time is overdue once the page's countdown is over.
LEMMA InTimeIsOverdue ==
  ASSUME ClocksInOrder, countdown = 0, NEW r \in Requests, EndsInTime(r)
  PROVE  Overdue(r)
BY DEF ClocksInOrder, EndsInTime, Overdue

\* A minute makes no run later than it was.
LEMMA MinuteTimes ==
  ASSUME ClocksInOrder, NextMinute, NEW r \in Requests
  PROVE  /\ UNCHANGED <<serverVars, pageVars, asked, awaiting>>
         /\ Overdue(r) => Overdue(r)'
         /\ EndsInTime(r) => EndsInTime(r)' /\ UNCHANGED runningZoneNum
<1>1. /\ UNCHANGED <<serverVars, pageVars, asked, awaiting>>
      /\ countdown' = IF running THEN Passed(countdown) ELSE 0
      /\ hpc[r] = "timer" => timer'[r] = timer[r] - 1 /\ took'[r] = took[r]
      /\ ~Due(r)
  BY DEF NextMinute, Opening
<1>2. UNCHANGED <<hpc, running, runningZoneNum, sent, asked>>
  BY <1>1 DEF serverVars, handlers, pageVars
<1>3. countdown \in Int /\ timer[r] \in Nat /\ took[r] \in Nat
  BY MinutesAssumption DEF MinutesAssumption, ClocksInOrder, Minutes
<1>4. CASE hpc[r] = "timer"
  <2>1. timer'[r] = timer[r] - 1 /\ took'[r] = took[r] /\ hpc'[r] = "timer"
    BY <1>1, <1>2, <1>4
  <2>2. running => countdown' >= countdown - 1
    BY <1>1, <1>3 DEF Passed
  <2>3. countdown' \in Int
    BY <1>1, <1>3 DEF Passed
  <2> QED BY <1>1, <1>2, <1>3, <2>1, <2>2, <2>3 DEF Overdue, EndsInTime
<1> QED BY <1>1, <1>4 DEF Overdue, EndsInTime

\* An event of the page lets a run go on as shown, finds it at its end, or
\* sends the stop first.
LEMMA EventTimes ==
  ASSUME PageInOrder, ClocksInOrder, PageStep, NEW r \in Requests, EndsInTime(r)
  PROVE  \/ EndsInTime(r)' /\ UNCHANGED runningZoneNum
         \/ Overdue(r)'
         \/ StopAtHand' /\ sent'[1].num = runningZoneNum
<1>1. /\ asked' = 0 /\ UNCHANGED <<hpc, countdown, timer, took>>
      /\ Sends
  BY PageEvents, EventSends DEF serverVars, handlers
<1>2. CASE countdown = 0
  BY <1>1, <1>2, InTimeIsOverdue DEF Overdue
<1>3. CASE SendsNothing /\ UNCHANGED running
  <2>1. Len(sent') = 0
    BY <1>3 DEF SendsNothing
  <2> QED BY <1>1, <1>3, <2>1 DEF SendsNothing, EndsInTime
<1>4. ASSUME NEW q, sent' = <<q>>, StopsRun(q) PROVE StopAtHand' /\ sent'[1].num = runningZoneNum
  <2>1. Len(sent') = 1 /\ sent'[1] = q
    BY <1>4
  <2> QED BY <1>1, <1>4, <2>1 DEF StopAtHand, StopsRun
<1>5. ASSUME NEW p, NEW q, sent' = <<p, q>>, StopsRun(p)
      PROVE  StopAtHand' /\ sent'[1].num = runningZoneNum
  <2>1. Len(sent') = 2 /\ sent'[1] = p
    BY <1>5
  <2> QED BY <1>1, <1>5, <2>1 DEF StopAtHand, StopsRun
<1>6. running
  BY DEF EndsInTime
<1> QED BY <1>1, <1>2, <1>3, <1>4, <1>5, <1>6 DEF Sends, SendsNothing

\* tables.js:206-255, server.go:253-295: no step lets water flow in a zone
\* the page does not show beyond the minutes its valve took to open.
LEMMA WaterIsShownStep ==
  ASSUME PageServerInv, PageServerNext
  PROVE  WaterIsShown'
<1> SUFFICES ASSUME NEW z \in (open \ lied)' PROVE Supplied(z)'
  BY DEF WaterIsShown
<1>1. /\ HandlersOK /\ PageInOrder /\ ClocksInOrder /\ Waits
      /\ z \in open \ lied => Supplied(z)
  BY DEF PageServerInv, ServerInv, WaterIsShown
<1> DEFINE Supplies(r) == /\ hzone[r] = z
                          /\ \/ hpc[r] = "close"
                             \/ Overdue(r)
                             \/ EndsInTime(r) /\ runningZoneNum = z
<1>2. CASE PageStep
  <2>1. /\ UNCHANGED <<open, lied, hpc, hzone, timer, took>> /\ Answered
    BY <1>2, PageEvents DEF serverVars, vars, handlers, history
  <2>2. PICK r \in Requests : Supplies(r)
    BY <1>1, <2>1 DEF Supplied, Answered, StopAtHand
  <2>3. CASE hpc[r] = "close" \/ Overdue(r)
    BY <2>1, <2>2, <2>3 DEF Supplied, Overdue
  <2>4. CASE EndsInTime(r) /\ runningZoneNum = z
    BY <1>1, <1>2, <2>1, <2>2, <2>4, EventTimes DEF Supplied
  <2> QED BY <2>2, <2>3, <2>4
<1>3. CASE NextMinute
  <2>1. UNCHANGED <<open, lied, hpc, hzone, runningZoneNum, sent, asked>>
    BY <1>3 DEF NextMinute, serverVars, vars, handlers, history, pageVars
  <2>2. CASE StopAtHand /\ sent[1].num = z
    BY <2>1, <2>2 DEF Supplied, StopAtHand
  <2>3. ASSUME NEW r \in Requests, Supplies(r) PROVE Supplied(z)'
    BY <1>1, <1>3, <2>1, <2>3, MinuteTimes DEF Supplied
  <2> QED BY <1>1, <2>1, <2>2, <2>3 DEF Supplied
<1>4. CASE RequestRefused
  <2>1. /\ UNCHANGED <<open, lied, hpc, hzone, timer, took>>
        /\ sent[asked + 1].cmd = "runzone" /\ asked < Len(sent)
    BY <1>4 DEF RequestRefused, serverVars, vars, handlers, history, RequestAtHand
  <2>2. PICK r \in Requests : Supplies(r)
    BY <1>1, <2>1 DEF Supplied, StopAtHand
  <2>3. hpc[r] = "close" \/ Overdue(r)
    BY <2>1, <2>2 DEF EndsInTime
  <2> QED BY <2>1, <2>2, <2>3 DEF Supplied, Overdue
<1>5. ASSUME NEW r \in Requests, AskServer(r) PROVE Supplied(z)'
  <2>1. /\ hpc[r] = "idle" /\ z \in open \ lied /\ asked < Len(sent)
        /\ \A q \in Requests \ {r} : timer'[q] = timer[q]
        /\ UNCHANGED took
        /\ ~(StopAtHand /\ sent[1].num = z)
    BY <1>1, <1>5, Asking DEF StopAtHand, ClocksInOrder
  <2>2. PICK q \in Requests : Supplies(q)
    BY <1>1, <2>1 DEF Supplied
  <2>3. hpc[q] = "close" \/ Overdue(q)
    BY <2>1, <2>2 DEF EndsInTime
  <2>4. q # r
    BY <2>1, <2>3 DEF Overdue
  <2>5. hpc'[q] = hpc[q] /\ hzone'[q] = hzone[q] /\ timer'[q] = timer[q]
    BY <1>1, <1>5, <2>1, <2>4, Asking, OthersStay
  <2> QED BY <2>1, <2>2, <2>3, <2>5 DEF Supplied, Overdue
<1>6. ASSUME NEW r \in Requests, ServeRequest(r) PROVE Supplied(z)'
  <2>1. /\ UNCHANGED <<hzone, countdown, asked, sent, running, runningZoneNum>>
        /\ \A q \in Requests \ {r} : timer'[q] = timer[q] /\ took'[q] = took[q]
        /\ hpc[r] \notin {"timer", "close"}
    BY <1>1, <1>6, Serving DEF pageVars, ClocksInOrder
  <2>2. CASE z \in open \ lied
    <3>1. CASE StopAtHand /\ sent[1].num = z
      BY <2>1, <3>1 DEF Supplied, StopAtHand
    <3>2. ASSUME NEW q \in Requests, Supplies(q) PROVE Supplied(z)'
      <4>1. q # r
        BY <2>1, <3>2 DEF Overdue, EndsInTime
      <4>2. hpc'[q] = hpc[q] /\ timer'[q] = timer[q] /\ took'[q] = took[q]
        BY <1>1, <1>6, <2>1, <4>1, Serving, OthersStay
      <4> QED BY <2>1, <3>2, <4>2 DEF Supplied, Overdue, EndsInTime
    <3> QED BY <1>1, <2>2, <3>1, <3>2 DEF Supplied
  <2>3. CASE z \notin open \ lied
    <3>1. z = hzone[r] /\ hpc[r] = "open" /\ hpc'[r] = "timer"
      BY <1>1, <1>6, <2>3, Serving
    <3>2. running /\ hzone[r] = runningZoneNum /\ asked = Len(sent)
      BY <1>1, <3>1 DEF Waits
    <3>3. UNCHANGED <<timer, took>> /\ timer[r] <= countdown + took[r]
      BY <1>1, <1>6, <3>1, Serving DEF ClocksInOrder
    <3>4. EndsInTime(r)'
      BY <2>1, <3>1, <3>2, <3>3 DEF EndsInTime
    <3> QED BY <2>1, <3>1, <3>2, <3>4 DEF Supplied
  <2> QED BY <2>2, <2>3
<1>7. ASSUME NEW r \in Requests, TimerStep(r) PROVE Supplied(z)'
  <2>1. /\ UNCHANGED <<hzone, sent, running, runningZoneNum, countdown, asked, timer>>
        /\ \A q \in Requests \ {r} : took'[q] = took[q]
        /\ z \in open \ lied
        /\ hpc'[r] = "close" \/ z # hzone[r]
    BY <1>1, <1>7, Ending DEF pageVars, ClocksInOrder
  <2>2. CASE StopAtHand /\ sent[1].num = z
    BY <2>1, <2>2 DEF Supplied, StopAtHand
  <2>3. ASSUME NEW q \in Requests, Supplies(q) PROVE Supplied(z)'
    <3>1. CASE q = r
      BY <2>1, <2>3, <3>1 DEF Supplied
    <3>2. CASE q # r
      <4>1. hpc'[q] = hpc[q] /\ took'[q] = took[q]
        BY <1>1, <1>7, <2>1, <3>2, Ending, OthersStay
      <4> QED BY <2>1, <2>3, <4>1 DEF Supplied, Overdue, EndsInTime
    <3> QED BY <3>1, <3>2
  <2> QED BY <1>1, <2>1, <2>2, <2>3 DEF Supplied
<1> QED BY <1>2, <1>3, <1>4, <1>5, <1>6, <1>7, PageServerSteps

LEMMA NothingLiedStep ==
  ASSUME PageServerInv, PageServerNext
  PROVE  NothingLied'
<1> SUFFICES ASSUME "flaky" \notin FaultKinds PROVE lied' = {}
  BY DEF NothingLied
<1>1. HandlersOK /\ PageInOrder /\ Waits /\ lied = {}
  BY DEF PageServerInv, ServerInv, NothingLied
<1>2. CASE PageStep \/ NextMinute \/ RequestRefused
  BY <1>1, <1>2, PageEvents
  DEF NextMinute, RequestRefused, serverVars, vars, history
<1>3. ASSUME NEW r \in Requests, AskServer(r) PROVE lied' = {}
  BY <1>1, <1>3, Asking
<1>4. ASSUME NEW r \in Requests, ServeRequest(r) PROVE lied' = {}
  BY <1>1, <1>4, Serving DEF Fails
<1>5. ASSUME NEW r \in Requests, TimerStep(r) PROVE lied' = {}
  BY <1>1, <1>5, Ending
<1> QED BY <1>2, <1>3, <1>4, <1>5, PageServerSteps

\* server.go:236-254: whoever set the flag, if it is set, is at work or ends
\* the run in time, or the page's stop is on its way.
LEMMA FlagIsOwnedStep ==
  ASSUME PageServerInv, PageServerNext
  PROVE  FlagIsOwned'
<1> SUFFICES ASSUME CommandRunning' PROVE Claimed'
  BY DEF FlagIsOwned
<1>1. /\ HandlersOK /\ PageInOrder /\ ClocksInOrder /\ Waits
      /\ CommandRunning => Claimed
  BY DEF PageServerInv, ServerInv, FlagIsOwned
<1> USE NoRequestAssumption DEF NoRequestAssumption
<1> DEFINE Claims(r) == \/ hpc[r] \in {"open", "failed", "stopped"}
                        \/ Overdue(r)
                        \/ EndsInTime(r)
<1>2. CASE PageStep
  <2>1. /\ UNCHANGED <<CommandRunning, hpc, timer, took>> /\ Answered
    BY <1>2, PageEvents DEF serverVars, vars, handlers
  <2>2. PICK r \in Requests : Claims(r)
    BY <1>1, <2>1 DEF Claimed, Answered, StopAtHand
  <2>3. CASE hpc[r] \in {"open", "failed", "stopped"} \/ Overdue(r)
    BY <2>1, <2>3 DEF Claimed, Overdue
  <2>4. CASE EndsInTime(r)
    BY <1>1, <1>2, <2>4, EventTimes DEF Claimed
  <2> QED BY <2>2, <2>3, <2>4
<1>3. CASE NextMinute
  <2>1. UNCHANGED <<CommandRunning, hpc, sent, asked>>
    BY <1>3 DEF NextMinute, serverVars, vars, handlers, pageVars
  <2>2. CASE StopAtHand
    BY <2>1, <2>2 DEF Claimed, StopAtHand
  <2>3. ASSUME NEW r \in Requests, Claims(r) PROVE Claimed'
    BY <1>1, <1>3, <2>1, <2>3, MinuteTimes DEF Claimed
  <2> QED BY <1>1, <2>1, <2>2, <2>3 DEF Claimed
<1>4. CASE RequestRefused
  <2>1. /\ UNCHANGED <<CommandRunning, hpc, timer, took>> /\ awaiting = NoRequest
        /\ sent[asked + 1].cmd = "runzone" /\ asked < Len(sent)
    BY <1>4 DEF RequestRefused, serverVars, vars, handlers, RequestAtHand
  <2>2. PICK r \in Requests : Claims(r)
    BY <1>1, <2>1 DEF Claimed, StopAtHand
  <2>3. Overdue(r)
    BY <1>1, <2>1, <2>2 DEF Waits, EndsInTime
  <2> QED BY <2>1, <2>3 DEF Claimed, Overdue
<1>5. ASSUME NEW r \in Requests, AskServer(r) PROVE Claimed'
  BY <1>1, <1>5, Asking DEF Claimed
<1>6. ASSUME NEW r \in Requests, ServeRequest(r) PROVE Claimed'
  <2>1. /\ UNCHANGED <<countdown, asked, sent, running>>
        /\ hpc'[r] \in {"open", "failed", "timer"}
        /\ hpc[r] \in {"accepted", "open"}
    BY <1>1, <1>6, Serving DEF pageVars
  <2>2. CASE hpc'[r] = "timer"
    <3>1. running /\ asked = Len(sent)
      BY <1>1, <2>1 DEF Waits
    <3>2. UNCHANGED <<timer, took>> /\ timer[r] <= countdown + took[r]
      BY <1>1, <1>6, <2>1, <2>2, Serving DEF ClocksInOrder
    <3>3. EndsInTime(r)'
      BY <2>1, <2>2, <3>1, <3>2 DEF EndsInTime
    <3> QED BY <3>3 DEF Claimed
  <2> QED BY <2>1, <2>2 DEF Claimed
<1>7. ASSUME NEW r \in Requests, TimerStep(r) PROVE Claimed'
  <2>1. /\ UNCHANGED <<sent, running, countdown, asked, timer>>
        /\ \A q \in Requests \ {r} : took'[q] = took[q]
        /\ CommandRunning
        /\ hpc[r] = "close"
    BY <1>1, <1>7, Ending DEF pageVars, ClocksInOrder
  <2>2. CASE StopAtHand
    BY <2>1, <2>2 DEF Claimed, StopAtHand
  <2>3. ASSUME NEW q \in Requests, Claims(q) PROVE Claimed'
    <3>1. q # r
      BY <2>1, <2>3 DEF Overdue, EndsInTime
    <3>2. hpc'[q] = hpc[q] /\ took'[q] = took[q]
      BY <1>1, <1>7, <2>1, <3>1, Ending, OthersStay
    <3> QED BY <2>1, <2>3, <3>2 DEF Claimed, Overdue, EndsInTime
  <2> QED BY <1>1, <2>1, <2>2, <2>3 DEF Claimed
<1> QED BY <1>2, <1>3, <1>4, <1>5, <1>6, <1>7, PageServerSteps
-----------------------------------------------------------------------------
(***************************************************************************)
(* Theorems                                                                *)
(***************************************************************************)
LEMMA PageServerInvInit == PageServerInit => PageServerInv
<1> SUFFICES ASSUME PageServerInit PROVE PageServerInv
  OBVIOUS
<1>1. ServerInv
  BY ServerInvInit DEF PageServerInit
<1>2. pc = "start" /\ open = {} /\ lied = {} /\ CommandRunning = FALSE
      /\ hpc = [r \in Requests |-> "idle"]
  BY DEF PageServerInit, ServerInit, Init
<1>3. /\ selectedZone = NoZone /\ running = FALSE /\ sent = << >>
      /\ countdown = 0 /\ asked = 0 /\ awaiting = NoRequest
      /\ timer = [r \in Requests |-> 0] /\ took = [r \in Requests |-> 0]
  BY DEF PageServerInit, Page!Init
<1>4. PageInOrder
  <2>1. Len(sent) = 0
    BY <1>3
  <2>2. 1..Len(sent) = {} /\ asked \in 0..Len(sent)
    BY <1>3, <2>1
  <2> QED BY <1>3, <2>1, <2>2 DEF PageInOrder
<1>5. ClocksInOrder
  BY <1>2, <1>3 DEF ClocksInOrder
<1>6. Waits
  BY <1>2, <1>3 DEF Waits
<1> QED
  BY <1>1, <1>2, <1>4, <1>5, <1>6 DEF PageServerInv, WaterIsShown, NothingLied, FlagIsOwned

LEMMA PageServerInvStep ==
  PageServerInv /\ [PageServerNext]_pageServerVars => PageServerInv'
<1> SUFFICES ASSUME PageServerInv, [PageServerNext]_pageServerVars
             PROVE  PageServerInv'
  OBVIOUS
<1>1. ServerInv' /\ pc' = "start"
  BY ServerKept
<1>2. CASE PageServerNext
  <2>1. HandlersOK /\ PageInOrder /\ ClocksInOrder /\ Waits
    BY DEF PageServerInv, ServerInv
  <2> QED
    BY <1>1, <1>2, <2>1, PageInOrderStep, ClocksInOrderStep, WaitsStep,
       WaterIsShownStep, NothingLiedStep, FlagIsOwnedStep
    DEF PageServerInv
<1>3. CASE UNCHANGED pageServerVars
  <2>1. /\ UNCHANGED <<open, lied, CommandRunning, hpc, hzone>>
        /\ UNCHANGED <<selectedZone, running, runningZoneNum, sent>>
        /\ UNCHANGED <<countdown, asked, awaiting, timer, took>>
    BY <1>3 DEF pageServerVars, serverVars, vars, history, handlers, pageVars
  <2>2. PageInOrder' /\ ClocksInOrder' /\ Waits'
    BY <2>1 DEF PageServerInv, PageInOrder, ClocksInOrder, Waits
  <2>3. \A r \in Requests : Overdue(r)' = Overdue(r) /\ EndsInTime(r)' = EndsInTime(r)
    BY <2>1 DEF Overdue, EndsInTime
  <2>4. StopAtHand' = StopAtHand
    BY <2>1 DEF StopAtHand
  <2>5. WaterIsShown' /\ NothingLied' /\ FlagIsOwned'
    BY <2>1, <2>3, <2>4
    DEF PageServerInv, WaterIsShown, NothingLied, FlagIsOwned, Supplied, Claimed
  <2> QED BY <1>1, <2>2, <2>5 DEF PageServerInv
<1> QED BY <1>2, <1>3

\* The invariant holds in every state of page and server.
THEOREM PageServerInvariance == PageServerSpec => []PageServerInv
BY PageServerInvInit, PageServerInvStep, PTL DEF PageServerSpec

\* tables.js:206-255, server.go:253-295: if no command opens a valve and
\* reports failure, then once nothing is asked and nothing is due, water
\* flows in no zone but the one the page shows, and in those it has counted
\* to their end while their valves were still being opened.
THEOREM WaterFlowsAsShown ==
  ASSUME "flaky" \notin FaultKinds
  PROVE  PageServerSpec => []OnlyTheShownRunFlows
<1>1. PageServerInv => OnlyTheShownRunFlows
  <2> SUFFICES ASSUME PageServerInv, Quiet, NEW z \in open
               PROVE  \/ running /\ z = runningZoneNum
                      \/ \E r \in Requests : Overdue(r) /\ hzone[r] = z
    BY DEF OnlyTheShownRunFlows
  <2>1. Supplied(z)
    BY DEF PageServerInv, NothingLied, WaterIsShown
  <2> QED BY <2>1 DEF Supplied, Quiet, Answered, StopAtHand, EndsInTime
<1> QED BY <1>1, PageServerInvariance, PTL

\* tables.js:206-240, server.go:229-254: a run of the page is refused only for
\* minutes out of range, or while a run the page has counted to its end is not
\* yet at its end on the server, whatever fails and however long an opening
\* or a closing takes.
THEOREM RefusedOnlyForCause == PageServerSpec => RefusedForCause
<1> DEFINE ForCause == asked' = asked + 1 /\ awaiting' = NoRequest =>
                         \/ countdown' \notin AcceptedMinutes
                         \/ \E r \in Requests : Overdue(r)
<1>1. PageServerInv /\ [PageServerNext]_pageServerVars => [ForCause]_pageServerVars
  <2> SUFFICES ASSUME PageServerInv, PageServerNext,
                      asked' = asked + 1, awaiting' = NoRequest,
                      countdown' \in AcceptedMinutes
               PROVE  \E r \in Requests : Overdue(r)
    OBVIOUS
  <2>1. HandlersOK /\ PageInOrder /\ Waits /\ asked \in Nat
    BY DEF PageServerInv, ServerInv, PageInOrder
  <2>2. RequestRefused
    <3>1. ~PageStep
      BY <2>1, PageEvents
    <3>2. ASSUME NEW r \in Requests PROVE ~AskServer(r)
      BY <2>1, NoRequestAssumption DEF AskServer, NoRequestAssumption
    <3>3. ASSUME NEW r \in Requests PROVE ~ServeRequest(r) /\ ~TimerStep(r)
      BY <2>1 DEF ServeRequest, TimerStep
    <3>4. ~NextMinute
      BY <2>1 DEF NextMinute
    <3> QED BY <3>1, <3>2, <3>3, <3>4, PageServerSteps
  <2>3. /\ asked < Len(sent) /\ awaiting = NoRequest
        /\ sent[asked + 1].cmd = "runzone" /\ CommandRunning
    BY <2>2 DEF RequestRefused, RequestAtHand
  <2>4. Claimed /\ ~StopAtHand
    BY <2>3 DEF PageServerInv, FlagIsOwned, StopAtHand
  <2> QED
    BY <2>1, <2>3, <2>4, NoRequestAssumption
    DEF NoRequestAssumption, Waits, Claimed, EndsInTime
<1> QED BY <1>1, PageServerInvariance, PTL DEF PageServerSpec, RefusedForCause

\* The server beside the page is the server of module Server, with nobody to
\* send it a request but the page: what is proved of that one holds here.
THEOREM PageDrivesTheServer ==
  PageServerSpec => ServerInit /\ [][ServerNext]_serverVars
<1>1. PageServerInit => ServerInit
  BY DEF PageServerInit
<1>2. PageServerInv /\ [PageServerNext]_pageServerVars => [ServerNext]_serverVars
  BY ServerMoves DEF PageServerInv, pageServerVars, ServerNext, Handling
<1> QED BY <1>1, <1>2, PageServerInvariance, PTL DEF PageServerSpec

\* The page beside the server is the page of module RunTable: its waiting
\* for answers and for minutes takes away no promise of the run table.
THEOREM ServerAnswersThePage ==
  PageServerSpec => Page!Init /\ [][Page!Next]_pageVars
<1>1. PageServerInit => Page!Init
  BY DEF PageServerInit
<1>2. [PageServerNext]_pageServerVars => [Page!Next]_pageVars
  <2> SUFFICES ASSUME [PageServerNext]_pageServerVars
               PROVE  Page!Next \/ UNCHANGED pageVars
    OBVIOUS
  <2>1. CASE PageStep
    BY <2>1, PageEvents DEF Page!Next
  <2> QED
    BY <2>1, PageServerSteps
    DEF pageServerVars, NextMinute, RequestRefused, AskServer, ServeRequest, TimerStep
<1> QED BY <1>1, <1>2, PTL DEF PageServerSpec

\* Every valve the page has had opened has its closer (server.go:244-295).
THEOREM EveryShownValveHasACloser == PageServerSpec => []NoOrphanValve
<1>1. ServerInit => NoOrphanValve
  BY DEF ServerInit, Init, NoOrphanValve
<1>2. PageServerInv => ServerInv
  BY DEF PageServerInv
<1> QED
  BY <1>1, <1>2, NoOrphanStep, PageServerInvariance, PageDrivesTheServer, PTL
=============================================================================
