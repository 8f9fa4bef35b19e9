------------------------------ MODULE RunTable ------------------------------
(***************************************************************************)
(* The run table of the web page (www/js/tables.js): the zone selected in  *)
(* the schedule, the manual run in progress as the page believes it, and   *)
(* the runs that wait for their turn.  Event handlers of the page run one  *)
(* at a time and wait for the server's answer (async: false), so each is   *)
(* one action; what the server makes of the requests is module Server.     *)
(*                                                                         *)
(* tables.js declares no loop variable: i is one global, shared with the   *)
(* other loops of the page.                                                *)
(***************************************************************************)
EXTENDS Naturals, Sequences

CONSTANTS
  PageZones,        \* zones the page lists
  MaxRuntimeSlots,  \* MAX_RUNTIME_SLOTS of common.js
  AlgorithmSlots,   \* MAX_ALGORITHM_SLOTS of common.js
  NoZone,           \* no zone selected, or named
  SaveWhileQueued   \* TRUE: the user may save the configuration while runs
                    \* wait

ASSUME SlotsAssumption ==
  /\ MaxRuntimeSlots \in Nat \ {0}
  /\ AlgorithmSlots \in Nat
ASSUME NoZoneAssumption == NoZone \notin PageZones
ASSUME SaveAssumption == SaveWhileQueued \in BOOLEAN

VARIABLES
  selectedZone,           \* g.selectedZone
  runTable,               \* g.runTable: the zone of each slot
  scheduledRuntimeSlots,  \* g.scheduledRuntimeSlots: the slots in use
  running,                \* g.running
  runningZoneNum,         \* g.runningZoneNum
  runningName,            \* what the page shows as running
  i,                      \* the global loop variable
  sent                    \* the requests of the last event, in order

vars == <<selectedZone, runTable, scheduledRuntimeSlots, running,
          runningZoneNum, runningName, i, sent>>

\* A slot that was assigned {} has neither zone nor minutes.
Slot == PageZones \cup {NoZone}

\* JavaScript lets an array grow; these are the indices the code may use.
Indices == 0..MaxRuntimeSlots + AlgorithmSlots

\* A request names zone num; meant is the zone of the run it was sent for.
PageRequests == [cmd : {"runzone", "runzonestop"}, num : Slot, meant : Slot]

Init ==
  /\ selectedZone = NoZone
  /\ runTable = [s \in Indices |-> NoZone]
  /\ scheduledRuntimeSlots = 0
  /\ running = FALSE
  /\ runningZoneNum = NoZone
  /\ runningName = NoZone
  /\ i = 0
  /\ sent = << >>
-----------------------------------------------------------------------------
\* The last thing displayRunTable does to the page's state: its loop ends.
DisplayRunTable == i' = scheduledRuntimeSlots'

\* Mutant: one slot too many.
AppendBeyond(z) ==
  /\ scheduledRuntimeSlots <= MaxRuntimeSlots
  /\ runTable' = [runTable EXCEPT ![scheduledRuntimeSlots] = z]
  /\ scheduledRuntimeSlots' = scheduledRuntimeSlots + 1
  /\ DisplayRunTable
\* appendRunTableEntry; with every slot in use it only alerts.
AppendRunTableEntry(z) ==
  IF scheduledRuntimeSlots = MaxRuntimeSlots
  THEN UNCHANGED <<runTable, scheduledRuntimeSlots, i>>
  ELSE /\ runTable' = [runTable EXCEPT ![scheduledRuntimeSlots] = z]
       /\ scheduledRuntimeSlots' = scheduledRuntimeSlots + 1
       /\ DisplayRunTable

\* Mutant: the last entry is not moved up.
RemoveButLast(slotNum) ==
  LET last == scheduledRuntimeSlots - 1
  IN  /\ runTable' = [s \in Indices |->
           IF s = last THEN NoZone
           ELSE IF slotNum <= s /\ s + 1 < last THEN runTable[s + 1]
           ELSE runTable[s]]
      /\ scheduledRuntimeSlots' = last
      /\ DisplayRunTable
\* Mutant: the slot that falls free is not cleared.
RemoveKeepsLast(slotNum) ==
  LET last == scheduledRuntimeSlots - 1
  IN  /\ runTable' = [s \in Indices |->
           IF slotNum <= s /\ s < last THEN runTable[s + 1] ELSE runTable[s]]
      /\ scheduledRuntimeSlots' = last
      /\ DisplayRunTable
\* removeRunTableEntry: clears slot i, whatever i is by now, then moves the
\* entries after slotNum up by one.
RemoveRunTableEntry(slotNum) ==
  LET last    == scheduledRuntimeSlots - 1
      cleared == [runTable EXCEPT ![i] = NoZone]
  IN  /\ runTable' = [s \in Indices |->
           IF s = last THEN NoZone
           ELSE IF slotNum <= s /\ s < last THEN cleared[s + 1]
           ELSE cleared[s]]
      /\ scheduledRuntimeSlots' = last
      /\ DisplayRunTable

RunRequest(name) ==
  [cmd |-> "runzone", num |-> selectedZone, meant |-> name]
StopRequest ==
  [cmd |-> "runzonestop", num |-> runningZoneNum, meant |-> runningZoneNum]

\* runZone: shows the name it is given, and asks for the selected zone.
RunZone(name) ==
  /\ runningName' = name
  /\ running' = TRUE
  /\ runningZoneNum' = selectedZone
-----------------------------------------------------------------------------
(***************************************************************************)
(* Event handlers                                                          *)
(***************************************************************************)
SelectZone(z) ==
  /\ selectedZone' = z
  /\ sent' = << >>
  /\ UNCHANGED <<runTable, scheduledRuntimeSlots, running, runningZoneNum,
                 runningName, i>>

\* onRunButtonClick, with a number of minutes in the form.
RunButtonClick ==
  /\ selectedZone # NoZone
  /\ \/ /\ ~running
        /\ RunZone(selectedZone)
        /\ sent' = <<RunRequest(selectedZone)>>
        /\ UNCHANGED <<runTable, scheduledRuntimeSlots, i>>
     \/ /\ running
        /\ AppendRunTableEntry(selectedZone)
        /\ sent' = << >>
        /\ UNCHANGED <<running, runningZoneNum, runningName>>
  /\ UNCHANGED selectedZone

\* onRunCountdownComplete: the requests it sends follow those in first.
RunCountdownComplete(first) ==
  /\ \/ /\ scheduledRuntimeSlots = 0
        /\ running' = FALSE
        /\ runningName' = NoZone
        /\ sent' = first
        /\ UNCHANGED <<runTable, scheduledRuntimeSlots, runningZoneNum, i>>
     \/ /\ scheduledRuntimeSlots # 0
        /\ RemoveRunTableEntry(0)
        /\ RunZone(runTable[0])
        /\ sent' = Append(first, RunRequest(runTable[0]))
  /\ UNCHANGED selectedZone

\* Mutant: the run is over, whether or not another one starts.
CountdownEndsRun ==
  /\ running
  /\ running' = FALSE
  /\ runningName' = NoZone
  /\ sent' = << >>
  /\ UNCHANGED <<selectedZone, runTable, scheduledRuntimeSlots,
                 runningZoneNum, i>>
\* The countdown of the run expires.
CountdownExpires == running /\ RunCountdownComplete(<< >>)

\* onRunCancelButtonRunningClick; the button shows while a zone runs.
CancelRunning == running /\ RunCountdownComplete(<<StopRequest>>)

\* onRunCancelButtonClick, of a slot in use.
CancelQueued(slotNum) ==
  /\ slotNum < scheduledRuntimeSlots
  /\ RemoveRunTableEntry(slotNum)
  /\ sent' = << >>
  /\ UNCHANGED <<selectedZone, running, runningZoneNum, runningName>>

\* onSaveButtonClick: populateAlgorithmValues leaves its loop at the end, or
\* at the first temperature range that does not exist.
SaveButtonClick ==
  /\ SaveWhileQueued \/ scheduledRuntimeSlots = 0
  /\ i' \in 0..AlgorithmSlots
  /\ sent' = << >>
  /\ UNCHANGED <<selectedZone, runTable, scheduledRuntimeSlots, running,
                 runningZoneNum, runningName>>

Next ==
  \/ \E z \in PageZones : SelectZone(z)
  \/ RunButtonClick
  \/ CountdownExpires
  \/ CancelRunning
  \/ \E s \in 0..MaxRuntimeSlots - 1 : CancelQueued(s)
  \/ SaveButtonClick

\* A countdown expires, as one of positive minutes does (tables.js:240 lets
\* others through); nobody has to click.
Spec == Init /\ [][Next]_vars /\ WF_vars(CountdownExpires)
-----------------------------------------------------------------------------
(***************************************************************************)
(* Properties                                                              *)
(***************************************************************************)
\* Every variable has its type; no more slots are in use than there are.
TypeOK ==
  /\ selectedZone \in Slot
  /\ runTable \in [Indices -> Slot]
  /\ scheduledRuntimeSlots \in 0..MaxRuntimeSlots
  /\ running \in BOOLEAN
  /\ runningZoneNum \in Slot
  /\ runningName \in Slot
  /\ i \in Indices
  /\ sent \in Seq(PageRequests)

\* The slots in use are those that hold a zone: no run is lost, and no slot
\* without zone and minutes comes to be run (tables.js:155-188).
SlotsInUse ==
  ~SaveWhileQueued =>
    \A s \in Indices : (s < scheduledRuntimeSlots) <=> (runTable[s] # NoZone)

\* Nothing waits unless something runs, or it would wait for ever: only the
\* end of a run starts the next one (tables.js:191-232).
IdleMeansEmpty == ~running => scheduledRuntimeSlots = 0

\* What has to be known between two events: the shared loop variable points
\* behind the queue, and something has a name on the page exactly if it runs.
LoopVariable ==
  ~SaveWhileQueued /\ scheduledRuntimeSlots # 0 => i = scheduledRuntimeSlots
RunningIsNamed == ~SaveWhileQueued => (running <=> runningName # NoZone)

Inv == TypeOK /\ SlotsInUse /\ IdleMeansEmpty /\ LoopVariable /\ RunningIsNamed

\* The page shows the zones it runs one at a time, in the order they were
\* asked for, but for those cancelled; each one gets its turn.
Waiting == [k \in 1..scheduledRuntimeSlots |-> runTable[k - 1]]
RunQueue == INSTANCE RunQueue WITH
  NoRun   <- NoZone,
  current <- runningName,
  queue   <- Waiting
ImplementsRunQueue == RunQueue!QueueSpec

\* tables.js:201, "Run the given zone name for given number of minutes": the
\* zone the server is asked to run is the one of the run that is started.
GivenZoneIsRun ==
  \A k \in DOMAIN sent : sent[k].num = sent[k].meant
=============================================================================
