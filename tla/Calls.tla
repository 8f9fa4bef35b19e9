------------------------------- MODULE Calls --------------------------------
(***************************************************************************)
(* The attempts behind a call of the valve controller (valve.go) and of    *)
(* the key-value store (kvstore.go), by the control loop and the handlers  *)
(* of manual runs at the same time.                                        *)
(*                                                                         *)
(* An attempt at a valve is a process of its own: it switches the valve,   *)
(* and later its exit status is read; a driver that is ill may switch and  *)
(* report an error, or do nothing.  An attempt at the store is one         *)
(* transaction.  The pauses between attempts are left out.                 *)
(***************************************************************************)
EXTENDS Naturals

CONSTANTS
  Callers,              \* goroutines
  Valves,
  Keys,
  onCommandMaxRetries,  \* attempts at an opening
  kvNumAttempts,        \* attempts at a transaction
  NoCall,
  NoAnswer

ASSUME AttemptsAssumption ==
  /\ onCommandMaxRetries \in Nat \ {0, 1}
  /\ kvNumAttempts \in Nat \ {0, 1}

VARIABLES
  open,     \* valves through which water flows
  stored,   \* keys that have a value
  ill,      \* devices that do not work as they should
  call,     \* the call of each caller, and whether an attempt of it had its
            \* effect (done) or failed (trouble): history
  attempt,  \* the number of the attempt: from 0 in Get, else from 1
  acted,    \* the process of this attempt has switched the valve
  answer    \* the answer to the last call of each caller

Outcomes == INSTANCE CallOutcomes

tries == <<attempt, acted>>
vars == <<open, stored, ill, call, tries, answer>>

Call == [op : {"open", "close", "closeAll", "get", "set"},
         arg : Valves \cup {Valves} \cup Keys, done : BOOLEAN, trouble : BOOLEAN]
ASSUME NoCallAssumption == NoCall \notin Call

Under(c, ops) == call[c] # NoCall /\ call[c].op \in ops
ValveCall(c) == Under(c, Outcomes!ValveOps)

Init ==
  /\ Outcomes!Init
  /\ attempt = [c \in Callers |-> 0]
  /\ acted = [c \in Callers |-> FALSE]
-----------------------------------------------------------------------------
Begin(c) ==
  /\ Outcomes!Begin(c)
  /\ attempt' = [attempt EXCEPT ![c] = IF call'[c].op = "get" THEN 0 ELSE 1]
  /\ UNCHANGED acted

Return(c, a) ==
  /\ call' = [call EXCEPT ![c] = NoCall]
  /\ answer' = [answer EXCEPT ![c] = a]
  /\ attempt' = [attempt EXCEPT ![c] = 0]
  /\ acted' = [acted EXCEPT ![c] = FALSE]
  /\ UNCHANGED <<open, ill>>

\* Mutant: the attempts are not counted.
TryAgainUncounted(c, attemptsLeft) ==
  IF attemptsLeft
  THEN /\ acted' = [acted EXCEPT ![c] = FALSE]
       /\ call' = [call EXCEPT ![c].trouble = TRUE]
       /\ UNCHANGED <<open, stored, ill, attempt, answer>>
  ELSE Return(c, "failed") /\ UNCHANGED stored
\* Another attempt is made, if one is left.
TryAgain(c, attemptsLeft) ==
  IF attemptsLeft
  THEN /\ attempt' = [attempt EXCEPT ![c] = IF Under(c, {"close", "closeAll"}) THEN @ ELSE @ + 1]
       /\ acted' = [acted EXCEPT ![c] = FALSE]
       /\ call' = [call EXCEPT ![c].trouble = TRUE]
       /\ UNCHANGED <<open, stored, ill, answer>>
  ELSE Return(c, "failed") /\ UNCHANGED stored
-----------------------------------------------------------------------------
(***************************************************************************)
(* valveCommand                                                            *)
(***************************************************************************)
\* The process of the attempt switches the valve.
Switch(c) ==
  /\ ValveCall(c) /\ ~acted[c]
  /\ acted' = [acted EXCEPT ![c] = TRUE]
  /\ open' = Outcomes!Effect(call[c], open)
  /\ call' = [call EXCEPT ![c].done = TRUE]
  /\ UNCHANGED <<stored, ill, attempt, answer>>

\* Mutant: the error of an earlier attempt is taken for this one's.
CommandSucceedsUntroubled(c) ==
  /\ ValveCall(c) /\ acted[c] /\ ~call[c].trouble
  /\ Return(c, "ok")
  /\ UNCHANGED stored
\* The exit status of the process is that of a success.
CommandSucceeds(c) ==
  /\ ValveCall(c) /\ acted[c]
  /\ Return(c, "ok")
  /\ UNCHANGED stored

\* Mutant: opening is repeated for ever, like closing.
repeatForever(c) == TRUE
\* i < repeat || repeat == 0: closing is repeated for ever.
repeat(c) == Under(c, {"close", "closeAll"}) \/ attempt[c] < onCommandMaxRetries

CommandFails(c) ==
  /\ ValveCall(c) /\ "driver" \in ill
  /\ TryAgain(c, repeat(c))
-----------------------------------------------------------------------------
(***************************************************************************)
(* Get, Set and RetryThenFail                                              *)
(***************************************************************************)
Set(c) ==
  /\ Under(c, {"set"})
  /\ stored' = stored \cup {call[c].arg}
  /\ Return(c, "ok")

GetFound(c) ==
  /\ Under(c, {"get"}) /\ call[c].arg \in stored
  /\ Return(c, "found")
  /\ UNCHANGED stored

\* Mutant: a missing key is a failure like any other.
KeyNotFoundNever(c) == FALSE
\* A missing key is recognised by the first attempt only.
KeyNotFound(c) == attempt[c] = 0

GetMissing(c) ==
  /\ Under(c, {"get"}) /\ call[c].arg \notin stored
  /\ KeyNotFound(c)
  /\ Return(c, "missing")
  /\ UNCHANGED stored

\* ... after it, it is one more failure.
GetMissingLater(c) ==
  /\ Under(c, {"get"}) /\ call[c].arg \notin stored
  /\ ~KeyNotFound(c)
  /\ IF attempt[c] < kvNumAttempts
     THEN attempt' = [attempt EXCEPT ![c] = @ + 1] /\ UNCHANGED <<open, stored, ill, call, acted, answer>>
     ELSE Return(c, "failed") /\ UNCHANGED stored

TransactionFails(c) ==
  /\ Under(c, {"get", "set"}) /\ "disk" \in ill
  /\ TryAgain(c, attempt[c] < kvNumAttempts)
-----------------------------------------------------------------------------
Step(c) ==
  \/ Switch(c) \/ CommandSucceeds(c) \/ CommandFails(c)
  \/ Set(c) \/ GetFound(c) \/ GetMissing(c) \/ GetMissingLater(c) \/ TransactionFails(c)

Crash ==
  /\ Outcomes!Crash
  /\ attempt' = [c \in Callers |-> 0]
  /\ acted' = [c \in Callers |-> FALSE]

Health(d) == Outcomes!Health(d) /\ UNCHANGED tries

Next ==
  \/ \E c \in Callers : Begin(c) \/ Step(c)
  \/ Crash
  \/ \E d \in {"driver", "disk"} : Health(d)

\* Every goroutine is scheduled, and every process of an attempt exits.
Spec == Init /\ [][Next]_vars /\ \A c \in Callers : WF_vars(Step(c))
-----------------------------------------------------------------------------
(***************************************************************************)
(* Properties                                                              *)
(***************************************************************************)
CallsTypeOK ==
  /\ open \subseteq Valves /\ stored \subseteq Keys
  /\ ill \subseteq {"driver", "disk"}
  /\ call \in [Callers -> Call \cup {NoCall}]
  /\ \A c \in Callers :
       attempt[c] \in 0..(IF ValveCall(c) THEN onCommandMaxRetries ELSE kvNumAttempts)
  /\ acted \in [Callers -> BOOLEAN]
  /\ answer \in [Callers -> {"ok", "found", "missing", "failed", NoAnswer}]

\* Whatever attempts it takes, a call answers as the loop and the handlers
\* expect: a close never fails and never returns unshut, an absent key is no
\* failure, a failure means trouble (valve.go:114, kvstore.go:91-170).
ImplementsCallOutcomes == Outcomes!Spec

\* Opening a valve, reading or writing a key comes to an end even with a
\* device that never works again (valve.go:99, kvstore.go:157).
AttemptsEnd ==
  \A c \in Callers : Under(c, {"open", "get", "set"}) ~> ~Under(c, {"open", "get", "set"})

\* A valve that is being closed is let go of once the driver works for good
\* (valve.go:118); no number of failures before that changes it.
CloseEnds ==
  <>[]("driver" \notin ill) =>
    \A c \in Callers : Under(c, {"close", "closeAll"}) ~> ~Under(c, {"close", "closeAll"})
=============================================================================
