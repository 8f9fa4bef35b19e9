-------------------------- MODULE RunTable_proofs --------------------------
(***************************************************************************)
(* Proofs about RunTable, for any zones and any number of slots.           *)
(***************************************************************************)
EXTENDS RunTable, SequenceTheorems, TLAPS

\* Requests go out one after the other, the run after the stop.
LEMMA SentType ==
  ASSUME NEW a \in PageRequests, NEW b \in PageRequests
  PROVE  /\ << >> \in Seq(PageRequests)
         /\ <<a>> \in Seq(PageRequests)
         /\ Append(<<a>>, b) \in Seq(PageRequests)
         /\ Append(<< >>, b) \in Seq(PageRequests)
<1>1. << >> \in Seq(PageRequests)
  BY EmptySeq
<1>2. <<a>> \in Seq(PageRequests)
  OBVIOUS
<1> QED BY <1>1, <1>2, AppendProperties

\* The slots the code may use, and those that can be in use.
LEMMA SlotFacts ==
  /\ MaxRuntimeSlots \in Nat /\ AlgorithmSlots \in Nat
  /\ 0 \in Indices /\ 0..MaxRuntimeSlots \subseteq Indices
  /\ 0..AlgorithmSlots \subseteq Indices
BY SlotsAssumption DEF SlotsAssumption, Indices

\* The invariant holds when the page is loaded.
LEMMA InvInit == Init => Inv
<1> SUFFICES ASSUME Init PROVE Inv
  OBVIOUS
<1> USE SlotFacts DEF Init
<1>1. sent \in Seq(PageRequests)
  BY EmptySeq
<1>2. TypeOK
  BY <1>1 DEF TypeOK, Slot
<1> QED
  BY <1>2 DEF Inv, SlotsInUse, IdleMeansEmpty, LoopVariable, RunningIsNamed,
              Indices

\* tables.js:173: removing a slot in use keeps slots and count consistent.
LEMMA RemovalKeepsSlots ==
  ASSUME Inv, NEW slotNum \in Nat, slotNum < scheduledRuntimeSlots,
         RemoveRunTableEntry(slotNum)
  PROVE  /\ runTable' \in [Indices -> Slot]
         /\ scheduledRuntimeSlots' = scheduledRuntimeSlots - 1
         /\ scheduledRuntimeSlots' \in 0..MaxRuntimeSlots
         /\ i' \in Indices
         /\ SlotsInUse' /\ LoopVariable'
         /\ ~SaveWhileQueued =>
              \A s \in Indices : s < scheduledRuntimeSlots' =>
                runTable'[s] = IF s < slotNum THEN runTable[s]
                               ELSE runTable[s + 1]
<1> DEFINE last    == scheduledRuntimeSlots - 1
           cleared == [runTable EXCEPT ![i] = NoZone]
<1>1. /\ scheduledRuntimeSlots \in Nat /\ scheduledRuntimeSlots <= MaxRuntimeSlots
      /\ scheduledRuntimeSlots # 0
      /\ last \in Nat /\ last < MaxRuntimeSlots
  BY SlotFacts DEF Inv, TypeOK
<1>2. \A s \in Indices : s < last => s + 1 \in Indices /\ s \in Nat
  BY <1>1, SlotFacts DEF Indices
<1>3. cleared \in [Indices -> Slot]
  BY DEF Inv, TypeOK, Slot
<1>4. /\ runTable' = [s \in Indices |->
           IF s = last THEN NoZone
           ELSE IF slotNum <= s /\ s < last THEN cleared[s + 1]
           ELSE cleared[s]]
      /\ scheduledRuntimeSlots' = last
      /\ i' = last
  BY DEF RemoveRunTableEntry, DisplayRunTable
<1>5. runTable' \in [Indices -> Slot]
  BY <1>2, <1>3, <1>4 DEF Slot
<1>6. ASSUME ~SaveWhileQueued, NEW s \in Indices
      PROVE  cleared[s] = runTable[s]
  <2>1. i = scheduledRuntimeSlots
    BY <1>1, <1>6 DEF Inv, LoopVariable
  <2>2. i \in Indices /\ runTable[i] = NoZone
    BY <2>1, <1>1, <1>6, SlotFacts DEF Inv, SlotsInUse, TypeOK
  <2> QED BY <2>2 DEF Inv, TypeOK
<1> HIDE DEF cleared
<1>7. ASSUME ~SaveWhileQueued, NEW s \in Indices
      PROVE  /\ s < last => runTable'[s] = IF s < slotNum THEN runTable[s]
                                           ELSE runTable[s + 1]
             /\ s = last => runTable'[s] = NoZone
             /\ s > last => runTable'[s] = runTable[s]
  BY <1>1, <1>2, <1>4, <1>6, <1>7 DEF Indices
<1>8. SlotsInUse'
  <2> SUFFICES ASSUME ~SaveWhileQueued, NEW s \in Indices
               PROVE  (s < last) <=> (runTable'[s] # NoZone)
    BY <1>4 DEF SlotsInUse
  <2>1. \A t \in Indices : (t < scheduledRuntimeSlots) <=> (runTable[t] # NoZone)
    BY DEF Inv, SlotsInUse
  <2>2. s \in Nat
    BY SlotFacts DEF Indices
  <2> QED BY <1>1, <1>2, <1>7, <2>1, <2>2
<1>9. LoopVariable'
  BY <1>4 DEF LoopVariable
<1> QED
  BY <1>1, <1>4, <1>5, <1>7, <1>8, <1>9, SlotFacts

\* tables.js:155: appending takes the first free slot.
LEMMA AppendKeepsSlots ==
  ASSUME Inv, NEW z \in PageZones, AppendRunTableEntry(z)
  PROVE  /\ runTable' \in [Indices -> Slot]
         /\ scheduledRuntimeSlots' \in 0..MaxRuntimeSlots
         /\ i' \in Indices
         /\ SlotsInUse' /\ LoopVariable'
<1>1. CASE scheduledRuntimeSlots = MaxRuntimeSlots
  BY <1>1 DEF AppendRunTableEntry, Inv, TypeOK, SlotsInUse, LoopVariable
<1>2. CASE scheduledRuntimeSlots # MaxRuntimeSlots
  <2>1. /\ runTable' = [runTable EXCEPT ![scheduledRuntimeSlots] = z]
        /\ scheduledRuntimeSlots' = scheduledRuntimeSlots + 1
        /\ i' = scheduledRuntimeSlots + 1
    BY <1>2 DEF AppendRunTableEntry, DisplayRunTable
  <2>2. scheduledRuntimeSlots \in Indices /\ scheduledRuntimeSlots + 1 \in 0..MaxRuntimeSlots
    BY <1>2, SlotFacts DEF Inv, TypeOK
  <2>3. z # NoZone
    BY NoZoneAssumption DEF NoZoneAssumption
  <2>4. SlotsInUse'
    BY <2>1, <2>2, <2>3, SlotFacts DEF Inv, TypeOK, SlotsInUse, Indices
  <2> QED
    BY <2>1, <2>2, <2>4, SlotFacts DEF Inv, TypeOK, LoopVariable, Slot
<1> QED BY <1>1, <1>2

\* The end of a run, whoever ends it, keeps the invariant.
LEMMA CompletionKeepsInv ==
  ASSUME Inv, running, NEW first \in {<< >>, <<StopRequest>>},
         RunCountdownComplete(first)
  PROVE  Inv'
<1>1. StopRequest \in PageRequests /\ \A z \in Slot : RunRequest(z) \in PageRequests
  BY DEF Inv, TypeOK, StopRequest, RunRequest, PageRequests
<1>2. runTable[0] \in Slot
  BY SlotFacts DEF Inv, TypeOK
<1>3. sent' \in Seq(PageRequests)
  <2>1. first \in Seq(PageRequests) /\ Append(first, RunRequest(runTable[0])) \in Seq(PageRequests)
    BY <1>1, <1>2, SentType
  <2> QED BY <2>1 DEF RunCountdownComplete
<1>4. CASE scheduledRuntimeSlots = 0
  BY <1>3, <1>4
  DEF RunCountdownComplete, Inv, TypeOK, Slot, SlotsInUse, IdleMeansEmpty,
      LoopVariable, RunningIsNamed
<1>5. CASE scheduledRuntimeSlots # 0
  <2>1. /\ RemoveRunTableEntry(0) /\ RunZone(runTable[0])
        /\ UNCHANGED selectedZone
    BY <1>5 DEF RunCountdownComplete
  <2>2. 0 < scheduledRuntimeSlots
    BY <1>5 DEF Inv, TypeOK
  <2>3. ~SaveWhileQueued => runTable[0] # NoZone
    BY <2>2, SlotFacts DEF Inv, SlotsInUse
  <2>4. /\ runTable' \in [Indices -> Slot]
        /\ scheduledRuntimeSlots' \in 0..MaxRuntimeSlots
        /\ i' \in Indices
        /\ SlotsInUse' /\ LoopVariable'
    BY <2>1, <2>2, RemovalKeepsSlots
  <2>5. TypeOK'
    BY <1>2, <1>3, <2>1, <2>4 DEF RunZone, Inv, TypeOK
  <2> QED
    BY <2>1, <2>3, <2>4, <2>5
    DEF RunZone, Inv, IdleMeansEmpty, RunningIsNamed
<1> QED BY <1>4, <1>5

\* Every event keeps the invariant.
LEMMA InvStep == Inv /\ [Next]_vars => Inv'
<1> SUFFICES ASSUME Inv, [Next]_vars PROVE Inv'
  OBVIOUS
<1>0. << >> \in Seq(PageRequests)
  BY EmptySeq
<1>1. ASSUME NEW z \in PageZones, SelectZone(z) PROVE Inv'
  BY <1>0, <1>1 DEF SelectZone, Inv, TypeOK, Slot, SlotsInUse, IdleMeansEmpty,
                    LoopVariable, RunningIsNamed
<1>2. CASE RunButtonClick
  <2>1. selectedZone \in PageZones /\ selectedZone # NoZone
    BY <1>2 DEF RunButtonClick, Inv, TypeOK, Slot
  <2>2. CASE ~running
    <3>1. RunRequest(selectedZone) \in PageRequests
      BY <2>1 DEF RunRequest, PageRequests, Slot
    <3>2. <<RunRequest(selectedZone)>> \in Seq(PageRequests)
      BY <3>1, SentType
    <3> QED
      BY <1>2, <2>1, <2>2, <3>2
      DEF RunButtonClick, RunZone, Inv, TypeOK, Slot, SlotsInUse,
          IdleMeansEmpty, LoopVariable, RunningIsNamed
  <2>3. CASE running
    <3>1. /\ AppendRunTableEntry(selectedZone)
          /\ sent' = << >>
          /\ UNCHANGED <<selectedZone, running, runningZoneNum, runningName>>
      BY <1>2, <2>3 DEF RunButtonClick
    <3>2. /\ runTable' \in [Indices -> Slot]
          /\ scheduledRuntimeSlots' \in 0..MaxRuntimeSlots
          /\ i' \in Indices
          /\ SlotsInUse' /\ LoopVariable'
      BY <2>1, <3>1, AppendKeepsSlots
    <3> QED
      BY <1>0, <2>3, <3>1, <3>2
      DEF Inv, TypeOK, IdleMeansEmpty, RunningIsNamed
  <2> QED BY <2>2, <2>3
<1>3. CASE CountdownExpires
  BY <1>3, CompletionKeepsInv DEF CountdownExpires
<1>4. CASE CancelRunning
  BY <1>4, CompletionKeepsInv DEF CancelRunning
<1>5. ASSUME NEW s \in 0..MaxRuntimeSlots - 1, CancelQueued(s) PROVE Inv'
  <2>1. /\ s \in Nat /\ s < scheduledRuntimeSlots /\ RemoveRunTableEntry(s)
        /\ sent' = << >>
        /\ UNCHANGED <<selectedZone, running, runningZoneNum, runningName>>
    BY <1>5 DEF CancelQueued
  <2>2. /\ runTable' \in [Indices -> Slot]
        /\ scheduledRuntimeSlots' = scheduledRuntimeSlots - 1
        /\ scheduledRuntimeSlots' \in 0..MaxRuntimeSlots
        /\ i' \in Indices
        /\ SlotsInUse' /\ LoopVariable'
    BY <2>1, RemovalKeepsSlots
  <2>3. running
    BY <2>1 DEF Inv, IdleMeansEmpty
  <2> QED
    BY <1>0, <2>1, <2>2, <2>3 DEF Inv, TypeOK, IdleMeansEmpty, RunningIsNamed
<1>6. CASE SaveButtonClick
  <2>1. i' \in Indices
    BY <1>6, SlotFacts DEF SaveButtonClick
  <2> QED
    BY <1>0, <1>6, <2>1 DEF SaveButtonClick, Inv, TypeOK, SlotsInUse,
       IdleMeansEmpty, LoopVariable, RunningIsNamed
<1>7. CASE UNCHANGED vars
  BY <1>7 DEF vars, Inv, TypeOK, SlotsInUse, IdleMeansEmpty, LoopVariable,
              RunningIsNamed
<1> QED
  BY <1>1, <1>2, <1>3, <1>4, <1>5, <1>6, <1>7 DEF Next

\* The invariant holds in every behaviour of the page.
THEOREM Invariance == Spec => []Inv
<1> QED
  BY InvInit, InvStep, PTL DEF Spec

\* Type correctness; in particular the count of the runs that wait stays
\* within the slots there are.
THEOREM TableTypeCorrect == Spec => []TypeOK
<1>1. Inv => TypeOK
  BY DEF Inv
<1> QED
  BY <1>1, Invariance, PTL

\* Each of the slots in use is that of a zone.
THEOREM SlotsAreInUse == Spec => []SlotsInUse
<1>1. Inv => SlotsInUse
  BY DEF Inv
<1> QED
  BY <1>1, Invariance, PTL

\* A run that waits has a run in progress before it.
THEOREM NoneWaitsIdle == Spec => []IdleMeansEmpty
<1>1. Inv => IdleMeansEmpty
  BY DEF Inv
<1> QED
  BY <1>1, Invariance, PTL
-----------------------------------------------------------------------------
\* The first n slots, read as a sequence.
LEMMA WaitingFacts ==
  ASSUME NEW t \in [Indices -> Slot], NEW n \in 0..MaxRuntimeSlots
  PROVE  /\ [k \in 1..n |-> t[k - 1]] \in Seq(Slot)
         /\ Len([k \in 1..n |-> t[k - 1]]) = n
         /\ \A k \in 1..n : k - 1 \in Indices
<1> DEFINE w == [k \in 1..n |-> t[k - 1]]
<1>1. n \in Nat /\ n <= MaxRuntimeSlots
  BY SlotFacts
<1>2. \A k \in 1..n : k - 1 \in 0..MaxRuntimeSlots
  BY <1>1, SlotFacts
<1>3. \A k \in 1..n : k - 1 \in Indices
  BY <1>2, SlotFacts
<1>4. w \in [1..n -> Slot]
  BY <1>3
<1>5. w \in Seq(Slot)
  BY <1>1, <1>4, SeqDef
<1>6. Len(w) = n
  BY <1>1, <1>4, <1>5, LenProperties
<1> QED BY <1>3, <1>5, <1>6

\* The runs that wait, before and after an event.
LEMMA QueueFacts ==
  ASSUME Inv, Inv'
  PROVE  /\ Waiting \in Seq(Slot) /\ Waiting' \in Seq(Slot)
         /\ Len(Waiting) = scheduledRuntimeSlots
         /\ Len(Waiting)' = scheduledRuntimeSlots'
         /\ \A k \in 1..scheduledRuntimeSlots :
              Waiting[k] = runTable[k - 1] /\ k - 1 \in Indices
         /\ \A k \in 1..scheduledRuntimeSlots' :
              Waiting'[k] = runTable'[k - 1] /\ k - 1 \in Indices
         /\ scheduledRuntimeSlots \in Nat /\ scheduledRuntimeSlots' \in Nat
<1>1. /\ runTable \in [Indices -> Slot] /\ runTable' \in [Indices -> Slot]
      /\ scheduledRuntimeSlots \in 0..MaxRuntimeSlots
      /\ scheduledRuntimeSlots' \in 0..MaxRuntimeSlots
  BY DEF Inv, TypeOK
<1>2. /\ Waiting \in Seq(Slot) /\ Len(Waiting) = scheduledRuntimeSlots
      /\ \A k \in 1..scheduledRuntimeSlots : k - 1 \in Indices
  BY <1>1, WaitingFacts DEF Waiting
<1>3. /\ Waiting' \in Seq(Slot) /\ Len(Waiting)' = scheduledRuntimeSlots'
      /\ \A k \in 1..scheduledRuntimeSlots' : k - 1 \in Indices
  BY <1>1, WaitingFacts DEF Waiting
<1> QED BY <1>1, <1>2, <1>3, SlotFacts DEF Waiting

\* A run asked for while another is in progress goes to the end of the queue.
LEMMA AppendIsRunLater ==
  ASSUME Inv, Inv', ~SaveWhileQueued, RunButtonClick, running,
         scheduledRuntimeSlots # MaxRuntimeSlots
  PROVE  RunQueue!RunLater(selectedZone)
<1>1. /\ runTable' = [runTable EXCEPT ![scheduledRuntimeSlots] = selectedZone]
      /\ scheduledRuntimeSlots' = scheduledRuntimeSlots + 1
      /\ runningName' = runningName /\ runningName # NoZone
      /\ selectedZone \in Slot
  BY DEF RunButtonClick, AppendRunTableEntry, Inv, TypeOK, RunningIsNamed
<1>2. scheduledRuntimeSlots \in Indices /\ scheduledRuntimeSlots < MaxRuntimeSlots
  BY SlotFacts DEF Inv, TypeOK
<1>3. /\ Append(Waiting, selectedZone) \in Seq(Slot)
      /\ Len(Append(Waiting, selectedZone)) = scheduledRuntimeSlots + 1
      /\ \A k \in 1..scheduledRuntimeSlots :
           Append(Waiting, selectedZone)[k] = Waiting[k]
      /\ Append(Waiting, selectedZone)[scheduledRuntimeSlots + 1] = selectedZone
  BY <1>1, QueueFacts, AppendProperties
<1>4. \A k \in 1..scheduledRuntimeSlots + 1 :
        Waiting'[k] = Append(Waiting, selectedZone)[k]
  <2> SUFFICES ASSUME NEW k \in 1..scheduledRuntimeSlots + 1
               PROVE  Waiting'[k] = Append(Waiting, selectedZone)[k]
    OBVIOUS
  <2>1. runTable \in [Indices -> Slot]
    BY DEF Inv, TypeOK
  <2>2. Waiting'[k] = runTable'[k - 1] /\ k - 1 \in Indices
    BY <1>1, QueueFacts
  <2>3. CASE k = scheduledRuntimeSlots + 1
    BY <1>1, <1>2, <1>3, <2>1, <2>2, <2>3, QueueFacts
  <2>4. CASE k # scheduledRuntimeSlots + 1
    <3>a. scheduledRuntimeSlots \in Nat
      BY QueueFacts
    <3>1. k \in 1..scheduledRuntimeSlots /\ k - 1 # scheduledRuntimeSlots
      BY <2>4, <3>a
    <3> QED BY <1>1, <1>3, <2>1, <2>2, <3>1, QueueFacts
  <2> QED BY <2>3, <2>4
<1>5. Waiting' = Append(Waiting, selectedZone)
  <2>1. Len(Waiting') = Len(Append(Waiting, selectedZone))
    BY <1>1, <1>3, QueueFacts
  <2> QED BY <1>1, <1>3, <1>4, <2>1, QueueFacts, SeqEqual
<1> QED BY <1>1, <1>2, <1>5, QueueFacts DEF RunQueue!RunLater

\* The end of a run starts the one that has waited longest.
LEMMA CompletionIsNextRun ==
  ASSUME Inv, Inv', ~SaveWhileQueued, running, NEW first,
         RunCountdownComplete(first)
  PROVE  RunQueue!NextRun
<1>1. runningName # NoZone
  BY DEF Inv, RunningIsNamed
<1>2. CASE scheduledRuntimeSlots = 0
  <2>1. runningName' = NoZone /\ UNCHANGED <<runTable, scheduledRuntimeSlots>>
    BY <1>2 DEF RunCountdownComplete
  <2>2. Waiting = << >>
    BY <1>2, QueueFacts, EmptySeq
  <2>3. UNCHANGED Waiting
    BY <2>1 DEF Waiting
  <2> QED BY <1>1, <2>1, <2>2, <2>3 DEF RunQueue!NextRun
<1>3. CASE scheduledRuntimeSlots # 0
  <2>1. RemoveRunTableEntry(0) /\ runningName' = runTable[0]
    BY <1>3 DEF RunCountdownComplete, RunZone
  <2>2. 0 < scheduledRuntimeSlots
    BY <1>3, QueueFacts
  <2>3. /\ scheduledRuntimeSlots' = scheduledRuntimeSlots - 1
        /\ \A s \in Indices : s < scheduledRuntimeSlots' =>
             runTable'[s] = IF s < 0 THEN runTable[s] ELSE runTable[s + 1]
    BY <2>1, <2>2, RemovalKeepsSlots
  <2>4. Waiting # << >>
    BY <2>2, QueueFacts, EmptySeq
  <2>5. /\ Tail(Waiting) \in Seq(Slot)
        /\ Len(Tail(Waiting)) = scheduledRuntimeSlots - 1
        /\ \A k \in 1..scheduledRuntimeSlots - 1 : Tail(Waiting)[k] = Waiting[k + 1]
    BY <2>4, QueueFacts, HeadTailProperties
  <2>6. \A k \in 1..scheduledRuntimeSlots - 1 : Waiting'[k] = Tail(Waiting)[k]
    <3> SUFFICES ASSUME NEW k \in 1..scheduledRuntimeSlots - 1
                 PROVE  Waiting'[k] = Tail(Waiting)[k]
      OBVIOUS
    <3>1. /\ Waiting'[k] = runTable'[k - 1] /\ k - 1 \in Indices
          /\ k - 1 < scheduledRuntimeSlots' /\ ~(k - 1 < 0)
      BY <2>3, QueueFacts
    <3>2. runTable'[k - 1] = runTable[k]
      BY <2>3, <3>1
    <3>3. k + 1 \in 1..scheduledRuntimeSlots
      BY QueueFacts
    <3>4. Waiting[k + 1] = runTable[k]
      BY <3>3, QueueFacts
    <3> QED BY <2>5, <3>1, <3>2, <3>4
  <2>7. Waiting' = Tail(Waiting)
    <3>1. Len(Waiting') = Len(Tail(Waiting)) /\ Len(Waiting') = scheduledRuntimeSlots - 1
      BY <2>3, <2>5, QueueFacts
    <3> QED BY <2>5, <2>6, <3>1, QueueFacts, SeqEqual
  <2>8. Head(Waiting) = runTable[0]
    <3>1. Head(Waiting) = Waiting[1]
      BY <2>4, QueueFacts
    <3> QED BY <2>2, <3>1, QueueFacts
  <2> QED BY <1>1, <2>1, <2>4, <2>7, <2>8 DEF RunQueue!NextRun
<1> QED BY <1>2, <1>3

\* Cancelling a slot withdraws the run in its place, and no other.
LEMMA CancelIsWithdraw ==
  ASSUME Inv, Inv', ~SaveWhileQueued, NEW s \in Nat, CancelQueued(s)
  PROVE  s + 1 \in DOMAIN Waiting /\ RunQueue!Withdraw(s + 1)
<1> DEFINE n     == scheduledRuntimeSlots
           front == SubSeq(Waiting, 1, s)
           back  == SubSeq(Waiting, s + 2, n)
<1>1. /\ s < n /\ n \in Nat
      /\ runningName' = runningName
      /\ scheduledRuntimeSlots' = n - 1
      /\ \A t \in Indices : t < n - 1 =>
           runTable'[t] = IF t < s THEN runTable[t] ELSE runTable[t + 1]
  BY RemovalKeepsSlots, QueueFacts DEF CancelQueued
<1>2. /\ front \in Seq(Slot) /\ Len(front) = s
      /\ \A k \in 1..s : front[k] = Waiting[k]
  <2>1. \A k \in 1..s : Waiting[k] \in Slot
    BY <1>1, QueueFacts, ElementOfSeq
  <2> QED BY <1>1, <2>1, SubSeqProperties
<1>3. /\ back \in Seq(Slot) /\ Len(back) = n - 1 - s
      /\ \A k \in 1..n - 1 - s : back[k] = Waiting[s + 1 + k]
  <2>1. \A k \in s + 2..n : Waiting[k] \in Slot
    BY <1>1, QueueFacts, ElementOfSeq
  <2>2. s + 2 \in Int /\ n \in Int
    BY <1>1
  <2>3. /\ back \in Seq(Slot)
        /\ Len(back) = IF s + 2 <= n THEN n - (s + 2) + 1 ELSE 0
        /\ \A k \in 1..n - (s + 2) + 1 : back[k] = Waiting[s + 2 + k - 1]
    BY <2>1, <2>2, SubSeqProperties
  <2> HIDE DEF back
  <2> QED BY <1>1, <2>3
<1> HIDE DEF front, back
<1>4. /\ front \o back \in Seq(Slot)
      /\ Len(front \o back) = n - 1
      /\ \A k \in 1..n - 1 : (front \o back)[k] =
           IF k <= s THEN front[k] ELSE back[k - s]
  <2>1. Len(front) + Len(back) = n - 1
    BY <1>1, <1>2, <1>3
  <2>2. /\ front \o back \in Seq(Slot)
        /\ Len(front \o back) = Len(front) + Len(back)
        /\ \A k \in 1..Len(front) + Len(back) : (front \o back)[k] =
             IF k <= Len(front) THEN front[k] ELSE back[k - Len(front)]
    BY <1>2, <1>3, ConcatProperties
  <2> QED BY <1>2, <2>1, <2>2
<1>5. \A k \in 1..n - 1 : Waiting'[k] = (front \o back)[k]
  <2> SUFFICES ASSUME NEW k \in 1..n - 1
               PROVE  Waiting'[k] = (front \o back)[k]
    OBVIOUS
  <2>1. /\ Waiting'[k] = runTable'[k - 1] /\ k - 1 \in Indices
        /\ k - 1 < n - 1
    <3>1. k \in 1..scheduledRuntimeSlots'
      BY <1>1
    <3>2. Waiting'[k] = runTable'[k - 1] /\ k - 1 \in Indices
      BY <3>1, QueueFacts
    <3> QED BY <1>1, <3>2
  <2>2. k \in 1..n /\ k + 1 \in 1..n
    BY <1>1
  <2>3. Waiting[k] = runTable[k - 1] /\ Waiting[k + 1] = runTable[k]
    BY <2>2, QueueFacts
  <2>4. CASE k <= s
    <3>1. k - 1 < s /\ k \in 1..s
      BY <1>1, <2>4
    <3> QED BY <1>1, <1>2, <1>4, <2>1, <2>3, <2>4, <3>1
  <2>5. CASE ~(k <= s)
    <3>1. ~(k - 1 < s) /\ k - s \in 1..n - 1 - s /\ s + 1 + (k - s) = k + 1
      BY <1>1, <2>5
    <3>2. runTable'[k - 1] = runTable[k]
      BY <1>1, <2>1, <3>1
    <3>3. back[k - s] = Waiting[k + 1]
      BY <1>3, <3>1
    <3> QED BY <1>4, <2>1, <2>3, <2>5, <3>2, <3>3
  <2> QED BY <2>4, <2>5
<1>6. Waiting' = front \o back
  <2>1. Len(Waiting') = n - 1
    BY <1>1, QueueFacts
  <2> QED BY <1>4, <1>5, <2>1, QueueFacts, SeqEqual
<1>7. s + 1 \in DOMAIN Waiting
  BY <1>1 DEF Waiting
<1>8. RunQueue!RemoveAt(Waiting, s + 1) = front \o back
  <2>1. s + 1 - 1 = s /\ s + 1 + 1 = s + 2
    BY <1>1
  <2>2. Len(Waiting) = n
    BY QueueFacts
  <2> QED BY <2>1, <2>2 DEF RunQueue!RemoveAt, front, back
<1> QED BY <1>1, <1>6, <1>7, <1>8 DEF RunQueue!Withdraw

\* As long as the configuration is not saved while runs wait, the page's run
\* table is the first-come, first-served queue it is meant to be: every event
\* is a step of RunQueue, or changes nothing of it.
THEOREM PageImplementsQueue ==
  ~SaveWhileQueued /\ Spec =>
    RunQueue!QueueInit /\ [][RunQueue!QueueNext]_RunQueue!queueVars
<1> SUFFICES ASSUME ~SaveWhileQueued
             PROVE  Spec => RunQueue!QueueInit
                              /\ [][RunQueue!QueueNext]_RunQueue!queueVars
  OBVIOUS
<1>1. Init => RunQueue!QueueInit
  <2> SUFFICES ASSUME Init PROVE RunQueue!QueueInit
    OBVIOUS
  <2>1. Waiting = << >>
    BY DEF Init, Waiting
  <2> QED BY <2>1 DEF Init, RunQueue!QueueInit
<1>2. Inv /\ Inv' /\ [Next]_vars =>
        [RunQueue!QueueNext]_RunQueue!queueVars
  <2> SUFFICES ASSUME Inv, Inv', [Next]_vars
               PROVE  \/ RunQueue!QueueNext
                      \/ UNCHANGED <<runningName, Waiting>>
    BY DEF RunQueue!queueVars
  <2>1. ASSUME UNCHANGED <<runningName, runTable, scheduledRuntimeSlots>>
        PROVE  UNCHANGED <<runningName, Waiting>>
    BY <2>1 DEF Waiting
  <2>2. CASE RunButtonClick
    <3>1. selectedZone \in PageZones
      BY <2>2 DEF RunButtonClick, Inv, TypeOK, Slot
    <3>2. CASE ~running
      <4>1. /\ runningName = NoZone /\ runningName' = selectedZone
            /\ UNCHANGED <<runTable, scheduledRuntimeSlots>>
        BY <2>2, <3>2 DEF RunButtonClick, RunZone, Inv, RunningIsNamed
      <4>2. Waiting = << >>
        BY <3>2, QueueFacts, EmptySeq DEF Inv, IdleMeansEmpty
      <4>3. UNCHANGED Waiting
        BY <4>1 DEF Waiting
      <4>4. RunQueue!RunNow(selectedZone)
        BY <4>1, <4>2, <4>3 DEF RunQueue!RunNow
      <4> QED BY <3>1, <4>4 DEF RunQueue!QueueNext
    <3>3. CASE running /\ scheduledRuntimeSlots = MaxRuntimeSlots
      BY <2>1, <2>2, <3>3 DEF RunButtonClick, AppendRunTableEntry
    <3>4. CASE running /\ scheduledRuntimeSlots # MaxRuntimeSlots
      BY <2>2, <3>1, <3>4, AppendIsRunLater DEF RunQueue!QueueNext
    <3> QED BY <3>2, <3>3, <3>4
  <2>3. CASE CountdownExpires
    BY <2>3, CompletionIsNextRun DEF CountdownExpires, RunQueue!QueueNext
  <2>4. CASE CancelRunning
    BY <2>4, CompletionIsNextRun DEF CancelRunning, RunQueue!QueueNext
  <2>5. ASSUME NEW s \in 0..MaxRuntimeSlots - 1, CancelQueued(s)
        PROVE  RunQueue!QueueNext
    BY <2>5, CancelIsWithdraw DEF RunQueue!QueueNext
  <2>6. CASE (\E z \in PageZones : SelectZone(z)) \/ SaveButtonClick
    BY <2>1, <2>6 DEF SelectZone, SaveButtonClick
  <2>7. CASE UNCHANGED vars
    BY <2>1, <2>7 DEF vars
  <2> QED BY <2>2, <2>3, <2>4, <2>5, <2>6, <2>7 DEF Next
<1> QED
  BY <1>1, <1>2, Invariance, PTL DEF Spec
=============================================================================
