---------------------------- MODULE CallOutcomes ----------------------------
(***************************************************************************)
(* What the loop and the handlers may expect of a call of the valve        *)
(* controller or of the key-value store, however often it tries: RunLoop   *)
(* and Server go by it.                                                    *)
(*                                                                         *)
(* While a valve call is under way its effect may occur, once or several   *)
(* times; it succeeds only after that, and only an opening may fail, in    *)
(* trouble with the driver, whether it had its effect or not.  A value is  *)
(* stored exactly if Set says so.  Get tells a missing key from a failure, *)
(* and fails only in trouble with the store.                               *)
(***************************************************************************)
CONSTANTS Callers, Valves, Keys, NoCall, NoAnswer

VARIABLES
  open,    \* valves through which water flows
  stored,  \* keys that have a value
  ill,     \* devices that do not work as they should
  call,    \* the call each caller is waiting for
  answer   \* the answer to its last

vars == <<open, stored, ill, call, answer>>

Calls ==
  [op : {"open", "close"}, arg : Valves] \cup [op : {"closeAll"}, arg : {Valves}]
  \cup [op : {"get", "set"}, arg : Keys]

ValveOps == {"open", "close", "closeAll"}
Device(k) == IF k.op \in ValveOps THEN "driver" ELSE "disk"

\* A call that has just begun: no effect yet, and no trouble.
Begun(k) == [op |-> k.op, arg |-> k.arg, done |-> FALSE, trouble |-> FALSE]

\* What a valve call leaves open of the valves vs.
Effect(k, vs) ==
  CASE k.op = "open"     -> vs \cup {k.arg}
    [] k.op = "close"    -> vs \ {k.arg}
    [] k.op = "closeAll" -> {}

Init ==
  /\ open = {} /\ stored = {} /\ ill = {}
  /\ call = [c \in Callers |-> NoCall]
  /\ answer = [c \in Callers |-> NoAnswer]

Begin(c) ==
  /\ call[c] = NoCall
  /\ \E k \in Calls : call' = [call EXCEPT ![c] = Begun(k)]
  /\ answer' = [answer EXCEPT ![c] = NoAnswer]
  /\ UNCHANGED <<open, stored, ill>>

Under(c, ops) == call[c] # NoCall /\ call[c].op \in ops

Takes(c) ==
  /\ Under(c, ValveOps)
  /\ open' = Effect(call[c], open)
  /\ call' = [call EXCEPT ![c].done = TRUE]
  /\ UNCHANGED <<stored, ill, answer>>

Trouble(c) ==
  /\ call[c] # NoCall
  /\ Device(call[c]) \in ill
  /\ call' = [call EXCEPT ![c].trouble = TRUE]
  /\ UNCHANGED <<open, stored, ill, answer>>

Returns(c, a) ==
  /\ call' = [call EXCEPT ![c] = NoCall]
  /\ answer' = [answer EXCEPT ![c] = a]
  /\ UNCHANGED <<open, ill>>

Succeeds(c) ==
  \/ Under(c, ValveOps) /\ call[c].done /\ Returns(c, "ok") /\ UNCHANGED stored
  \/ Under(c, {"set"}) /\ Returns(c, "ok") /\ stored' = stored \cup {call[c].arg}

Gets(c) ==
  /\ Under(c, {"get"})
  /\ Returns(c, IF call[c].arg \in stored THEN "found" ELSE "missing")
  /\ UNCHANGED stored

Fails(c) ==
  /\ Under(c, {"open", "get", "set"})
  /\ call[c].trouble
  /\ Returns(c, "failed")
  /\ UNCHANGED stored

\* The process dies.
Crash ==
  /\ call' = [c \in Callers |-> NoCall]
  /\ answer' = [c \in Callers |-> NoAnswer]
  /\ UNCHANGED <<open, stored, ill>>

Health(d) ==
  /\ ill' \in {ill \cup {d}, ill \ {d}}
  /\ UNCHANGED <<open, stored, call, answer>>

Next ==
  \/ \E c \in Callers :
       Begin(c) \/ Takes(c) \/ Trouble(c) \/ Succeeds(c) \/ Gets(c) \/ Fails(c)
  \/ Crash
  \/ \E d \in {"driver", "disk"} : Health(d)

Spec == Init /\ [][Next]_vars
=============================================================================
