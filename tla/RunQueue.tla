------------------------------ MODULE RunQueue ------------------------------
(***************************************************************************)
(* What the run table of the web page promises: manual runs take place one *)
(* at a time, in the order they were asked for, but for those the user has *)
(* cancelled.                                                              *)
(***************************************************************************)
EXTENDS Naturals, SequencesExt

CONSTANTS PageZones,         \* zones the page lists
          MaxRuntimeSlots,   \* runs that can wait
          NoRun              \* nothing is running

VARIABLES current,   \* the zone that runs, or NoRun
          queue      \* zones that wait

queueVars == <<current, queue>>

QueueInit == current = NoRun /\ queue = << >>

\* A run starts at once only if nothing runs, and nothing waits.
RunNow(z) ==
  /\ current = NoRun /\ queue = << >>
  /\ current' = z
  /\ UNCHANGED queue

RunLater(z) ==
  /\ current # NoRun
  /\ Len(queue) < MaxRuntimeSlots
  /\ queue' = Append(queue, z)
  /\ UNCHANGED current

Withdraw(k) ==
  /\ queue' = RemoveAt(queue, k)
  /\ UNCHANGED current

\* A run ends, by itself or by the user; the next one follows.
NextRun ==
  /\ current # NoRun
  /\ IF queue = << >>
     THEN current' = NoRun /\ UNCHANGED queue
     ELSE current' = Head(queue) /\ queue' = Tail(queue)

QueueNext ==
  \/ \E z \in PageZones : RunNow(z) \/ RunLater(z)
  \/ \E k \in DOMAIN queue : Withdraw(k)
  \/ NextRun

\* Every run ends, so every run that waits takes place or is withdrawn.
QueueSpec == QueueInit /\ [][QueueNext]_queueVars /\ WF_queueVars(NextRun)
=============================================================================
