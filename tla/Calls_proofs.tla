---------------------------- MODULE Calls_proofs ----------------------------
(***************************************************************************)
(* For any callers, valves, keys and numbers of attempts, a call answers   *)
(* as CallOutcomes promises.                                               *)
(***************************************************************************)
EXTENDS Calls, TLAPS

\* An attempt that has switched is known to have had its effect, and a call
\* comes to another attempt only in trouble.
Attempts(c) ==
  call[c] # NoCall =>
    /\ acted[c] => call[c].done
    /\ call[c].op \in {"open", "set"} => attempt[c] = 1 \/ call[c].trouble
    /\ call[c].op = "get" => attempt[c] = 0 \/ call[c].trouble

CallShape ==
  /\ call \in [Callers -> Call \cup {NoCall}]
  /\ attempt \in [Callers -> Nat]
  /\ acted \in [Callers -> BOOLEAN]
  /\ answer \in [Callers -> {"ok", "found", "missing", "failed", NoAnswer}]
  /\ \A c \in Callers : call[c] = NoCall => ~acted[c]

CallInv == CallShape /\ \A c \in Callers : Attempts(c)

LEMMA CallInvInit == Init => CallInv
BY DEF Init, Outcomes!Init, CallInv, CallShape, Attempts

\* Returning leaves the caller without a call.
LEMMA ReturnInv ==
  ASSUME CallInv, NEW c \in Callers,
         NEW a \in {"ok", "found", "missing", "failed"}, Return(c, a)
  PROVE  CallInv'
BY DEF CallInv, CallShape, Attempts, Return

\* Another attempt, of a call in trouble.
LEMMA TryAgainInv ==
  ASSUME CallInv, NEW c \in Callers, call[c] # NoCall,
         NEW left \in BOOLEAN, TryAgain(c, left)
  PROVE  CallInv'
<1>1. CASE ~left
  BY <1>1, ReturnInv DEF TryAgain
<1>2. CASE left
  <2>1. call[c] \in Call /\ attempt[c] \in Nat
    BY DEF CallInv, CallShape
  <2>2. call' = [call EXCEPT ![c] = [call[c] EXCEPT !.trouble = TRUE]]
    BY <1>2 DEF TryAgain
  <2>3. [call[c] EXCEPT !.trouble = TRUE] \in Call
    BY <2>1 DEF Call
  <2>4. /\ attempt' \in [Callers -> Nat]
        /\ \A d \in Callers \ {c} : attempt'[d] = attempt[d]
    BY <1>2, <2>1 DEF TryAgain, CallInv, CallShape
  <2>5. acted' = [acted EXCEPT ![c] = FALSE] /\ answer' = answer
    BY <1>2 DEF TryAgain
  <2>6. CallShape'
    BY <2>2, <2>3, <2>4, <2>5 DEF CallInv, CallShape
  <2>7. ASSUME NEW d \in Callers PROVE Attempts(d)'
    <3>1. CASE d = c
      <4>1. call'[c].trouble
        BY <2>1, <2>2 DEF CallInv, CallShape, Call
      <4>2. ~acted'[c]
        BY <2>5 DEF CallInv, CallShape
      <4> QED BY <3>1, <4>1, <4>2 DEF Attempts
    <3>2. CASE d # c
      <4>1. call'[d] = call[d] /\ acted'[d] = acted[d] /\ attempt'[d] = attempt[d]
        BY <2>2, <2>4, <2>5, <3>2 DEF CallInv, CallShape
      <4> QED BY <4>1 DEF CallInv, Attempts
    <3> QED BY <3>1, <3>2
  <2> QED BY <2>6, <2>7 DEF CallInv
<1> QED BY <1>1, <1>2

LEMMA BeginInv ==
  ASSUME CallInv, NEW c \in Callers, Begin(c)
  PROVE  CallInv'
<1>1. PICK k \in Outcomes!Calls : call' = [call EXCEPT ![c] = Outcomes!Begun(k)]
  BY DEF Begin, Outcomes!Begin
<1>2. Outcomes!Begun(k) \in Call /\ Outcomes!Begun(k) # NoCall
  <2>1. /\ k.op \in {"open", "close", "closeAll", "get", "set"}
        /\ k.arg \in Valves \cup {Valves} \cup Keys
    BY DEF Outcomes!Calls
  <2>2. Outcomes!Begun(k) \in Call
    BY <2>1 DEF Outcomes!Begun, Call
  <2> QED BY <2>2, NoCallAssumption
<1>3. call'[c] = Outcomes!Begun(k) /\ ~acted[c] /\ acted' = acted
  BY <1>1 DEF Begin, Outcomes!Begin, CallInv, CallShape
<1>4. attempt' = [attempt EXCEPT ![c] = IF call'[c].op = "get" THEN 0 ELSE 1]
  BY DEF Begin
<1>5. CallShape'
  BY <1>1, <1>2, <1>3, <1>4 DEF Begin, Outcomes!Begin, CallInv, CallShape
<1>6. ASSUME NEW d \in Callers PROVE Attempts(d)'
  <2>1. CASE d = c
    BY <1>3, <1>4, <2>1 DEF Attempts, CallInv, CallShape
  <2>2. CASE d # c
    BY <1>1, <1>3, <1>4, <2>2 DEF Attempts, CallInv, CallShape
  <2> QED BY <2>1, <2>2
<1> QED BY <1>5, <1>6 DEF CallInv

LEMMA SwitchInv ==
  ASSUME CallInv, NEW c \in Callers, Switch(c)
  PROVE  CallInv'
<1>1. call[c] \in Call
  BY DEF CallInv, CallShape, Switch, ValveCall, Under
<1>2. call' = [call EXCEPT ![c] = [call[c] EXCEPT !.done = TRUE]]
  BY DEF Switch
<1>3. [call[c] EXCEPT !.done = TRUE] \in Call
  BY <1>1 DEF Call
<1>4. /\ call'[c].done
      /\ call'[c].op = call[c].op /\ call'[c].trouble = call[c].trouble
  BY <1>1, <1>2 DEF CallInv, CallShape, Call
<1>5. call[c] # NoCall /\ call'[c] # NoCall
  BY <1>2, <1>3, NoCallAssumption DEF Switch, ValveCall, Under, CallInv, CallShape
<1>6. acted' = [acted EXCEPT ![c] = TRUE] /\ UNCHANGED <<attempt, answer>>
  BY DEF Switch
<1>7. CallShape'
  BY <1>2, <1>3, <1>5, <1>6 DEF CallInv, CallShape
<1>8. ASSUME NEW d \in Callers PROVE Attempts(d)'
  <2>1. CASE d = c
    BY <1>4, <1>5, <1>6, <2>1 DEF Attempts, CallInv, CallShape
  <2>2. CASE d # c
    BY <1>2, <1>6, <2>2 DEF Attempts, CallInv, CallShape
  <2> QED BY <2>1, <2>2
<1> QED BY <1>7, <1>8 DEF CallInv

LEMMA MissingLaterInv ==
  ASSUME CallInv, NEW c \in Callers, GetMissingLater(c)
  PROVE  CallInv'
<1>1. CASE Return(c, "failed")
  BY <1>1, ReturnInv
<1>2. CASE /\ attempt' = [attempt EXCEPT ![c] = @ + 1]
           /\ UNCHANGED <<open, stored, ill, call, acted, answer>>
  <2>1. call[c] # NoCall /\ call[c].op = "get" /\ call[c].trouble
    BY DEF GetMissingLater, Under, KeyNotFound, CallInv, Attempts
  <2>2. CallShape'
    BY <1>2 DEF CallInv, CallShape
  <2>3. \A d \in Callers : Attempts(d)'
    BY <1>2, <2>1 DEF CallInv, CallShape, Attempts
  <2> QED BY <2>2, <2>3 DEF CallInv
<1> QED BY <1>1, <1>2 DEF GetMissingLater

LEMMA CallInvStep == CallInv /\ [Next]_vars => CallInv'
<1> SUFFICES ASSUME CallInv, [Next]_vars PROVE CallInv'
  OBVIOUS
<1>1. CASE UNCHANGED vars
  BY <1>1 DEF vars, tries, CallInv, CallShape, Attempts
<1>2. ASSUME NEW c \in Callers, Begin(c) PROVE CallInv'
  BY <1>2, BeginInv
<1>3. ASSUME NEW c \in Callers, Step(c) PROVE CallInv'
  <2>1. CASE Switch(c)
    BY <2>1, SwitchInv
  <2>2. CASE CommandSucceeds(c)
    BY <2>2, ReturnInv DEF CommandSucceeds
  <2>3. CASE CommandFails(c)
    <3>1. call[c] # NoCall /\ TryAgain(c, repeat(c)) /\ repeat(c) \in BOOLEAN
      BY <2>3 DEF CommandFails, ValveCall, Under, repeat
    <3> QED BY <3>1, TryAgainInv
  <2>4. CASE Set(c)
    BY <2>4, ReturnInv DEF Set
  <2>5. CASE GetFound(c)
    BY <2>5, ReturnInv DEF GetFound
  <2>6. CASE GetMissing(c)
    BY <2>6, ReturnInv DEF GetMissing
  <2>7. CASE GetMissingLater(c)
    BY <2>7, MissingLaterInv
  <2>8. CASE TransactionFails(c)
    <3>1. /\ call[c] # NoCall /\ TryAgain(c, attempt[c] < kvNumAttempts)
          /\ (attempt[c] < kvNumAttempts) \in BOOLEAN
      BY <2>8 DEF TransactionFails, Under
    <3> QED BY <3>1, TryAgainInv
  <2> QED BY <1>3, <2>1, <2>2, <2>3, <2>4, <2>5, <2>6, <2>7, <2>8 DEF Step
<1>4. CASE Crash
  BY <1>4 DEF Crash, Outcomes!Crash, CallInv, CallShape, Attempts
<1>5. ASSUME NEW d \in {"driver", "disk"}, Health(d) PROVE CallInv'
  BY <1>5 DEF Health, Outcomes!Health, tries, CallInv, CallShape, Attempts
<1> QED BY <1>1, <1>2, <1>3, <1>4, <1>5 DEF Next
-----------------------------------------------------------------------------
(***************************************************************************)
(* Refinement                                                              *)
(***************************************************************************)
\* An attempt that failed is trouble; the last one fails the call.
LEMMA TryAgainIsTrouble ==
  ASSUME CallInv, NEW c \in Callers, call[c] # NoCall,
         Outcomes!Device(call[c]) \in ill, NEW left \in BOOLEAN, TryAgain(c, left),
         ~left => call[c].op \in {"open", "get", "set"} /\ call[c].trouble
  PROVE  Outcomes!Trouble(c) \/ Outcomes!Fails(c)
<1>1. CASE left
  BY <1>1 DEF TryAgain, Outcomes!Trouble
<1>2. CASE ~left
  BY <1>2 DEF TryAgain, Return, Outcomes!Fails, Outcomes!Returns, Outcomes!Under
<1> QED BY <1>1, <1>2

LEMMA OutcomeStep ==
  CallInv /\ [Next]_vars => [Outcomes!Next]_<<open, stored, ill, call, answer>>
<1> SUFFICES ASSUME CallInv, Next
             PROVE  Outcomes!Next \/ UNCHANGED <<open, stored, ill, call, answer>>
  BY DEF vars
<1>1. ASSUME NEW c \in Callers, Begin(c) PROVE Outcomes!Next
  BY <1>1 DEF Begin, Outcomes!Next
<1>2. ASSUME NEW c \in Callers, Step(c)
      PROVE  Outcomes!Next \/ UNCHANGED <<open, stored, ill, call, answer>>
  <2>1. CASE Switch(c)
    BY <2>1 DEF Switch, ValveCall, Under, Outcomes!Takes, Outcomes!Under, Outcomes!Next
  <2>2. CASE CommandSucceeds(c)
    <3>1. call[c].done
      BY <2>2 DEF CommandSucceeds, ValveCall, Under, CallInv, Attempts
    <3>2. Outcomes!Succeeds(c)
      BY <2>2, <3>1 DEF CommandSucceeds, ValveCall, Under, Return,
         Outcomes!Succeeds, Outcomes!Under, Outcomes!Returns
    <3> QED BY <3>2 DEF Outcomes!Next
  <2>3. CASE CommandFails(c)
    <3>1. /\ call[c] # NoCall /\ call[c].op \in Outcomes!ValveOps
          /\ "driver" \in ill /\ TryAgain(c, repeat(c))
      BY <2>3 DEF CommandFails, ValveCall, Under
    <3>2. repeat(c) \in BOOLEAN /\ Outcomes!Device(call[c]) \in ill
      BY <3>1 DEF repeat, Under, Outcomes!Device
    <3>3. ~repeat(c) => call[c].op = "open" /\ call[c].trouble
      <4>1. SUFFICES ASSUME ~repeat(c) PROVE call[c].op = "open" /\ call[c].trouble
        OBVIOUS
      <4>2. call[c].op = "open"
        BY <3>1, <4>1 DEF repeat, Under, Outcomes!ValveOps
      <4>3. attempt[c] # 1
        BY <4>1, AttemptsAssumption DEF repeat, CallInv, CallShape
      <4> QED BY <3>1, <4>2, <4>3 DEF CallInv, Attempts
    <3>4. Outcomes!Trouble(c) \/ Outcomes!Fails(c)
      BY <3>1, <3>2, <3>3, TryAgainIsTrouble
    <3> QED BY <3>4 DEF Outcomes!Next
  <2>4. CASE Set(c)
    BY <2>4 DEF Set, Under, Return, Outcomes!Succeeds, Outcomes!Under,
       Outcomes!Returns, Outcomes!Next
  <2>5. CASE GetFound(c)
    BY <2>5 DEF GetFound, Under, Return, Outcomes!Gets, Outcomes!Under,
       Outcomes!Returns, Outcomes!Next
  <2>6. CASE GetMissing(c)
    BY <2>6 DEF GetMissing, Under, Return, Outcomes!Gets, Outcomes!Under,
       Outcomes!Returns, Outcomes!Next
  <2>7. CASE GetMissingLater(c)
    <3>1. call[c] # NoCall /\ call[c].op = "get" /\ call[c].trouble
      BY <2>7 DEF GetMissingLater, Under, KeyNotFound, CallInv, Attempts
    <3>2. CASE UNCHANGED <<open, stored, ill, call, answer>>
      BY <3>2
    <3>3. CASE Return(c, "failed") /\ UNCHANGED stored
      BY <3>1, <3>3 DEF Return, Outcomes!Fails, Outcomes!Under, Outcomes!Returns,
         Outcomes!Next
    <3> QED BY <2>7, <3>2, <3>3 DEF GetMissingLater
  <2>8. CASE TransactionFails(c)
    <3>1. /\ call[c] # NoCall /\ call[c].op \in {"get", "set"}
          /\ "disk" \in ill /\ TryAgain(c, attempt[c] < kvNumAttempts)
      BY <2>8 DEF TransactionFails, Under
    <3>2. /\ (attempt[c] < kvNumAttempts) \in BOOLEAN
          /\ Outcomes!Device(call[c]) \in ill
      BY <3>1 DEF Outcomes!Device, Outcomes!ValveOps
    <3>3. ~(attempt[c] < kvNumAttempts) => call[c].trouble
      <4>1. ~(attempt[c] < kvNumAttempts) => attempt[c] # 0 /\ attempt[c] # 1
        BY AttemptsAssumption DEF CallInv, CallShape
      <4> QED BY <3>1, <4>1 DEF CallInv, Attempts
    <3>4. Outcomes!Trouble(c) \/ Outcomes!Fails(c)
      BY <3>1, <3>2, <3>3, TryAgainIsTrouble
    <3> QED BY <3>4 DEF Outcomes!Next
  <2> QED BY <1>2, <2>1, <2>2, <2>3, <2>4, <2>5, <2>6, <2>7, <2>8 DEF Step
<1>3. CASE Crash
  BY <1>3 DEF Crash, Outcomes!Next
<1>4. ASSUME NEW d \in {"driver", "disk"}, Health(d) PROVE Outcomes!Next
  BY <1>4 DEF Health, Outcomes!Next
<1> QED BY <1>1, <1>2, <1>3, <1>4 DEF Next

\* Whatever attempts it takes, each call of the valve controller and of the
\* store answers as the loop and the handlers expect (valve.go:114,
\* kvstore.go:91-170), for any callers, valves, keys and attempts.
THEOREM CallsAnswerAsPromised == Spec => ImplementsCallOutcomes
<1>1. Init => CallInv /\ Outcomes!Init
  BY CallInvInit DEF Init
<1> QED
  BY <1>1, CallInvStep, OutcomeStep, PTL
  DEF Spec, ImplementsCallOutcomes, Outcomes!Spec, Outcomes!vars
-----------------------------------------------------------------------------
(***************************************************************************)
(* Types, and the bound on attempts                                        *)
(***************************************************************************)
World == open \subseteq Valves /\ stored \subseteq Keys /\ ill \subseteq {"driver", "disk"}

\* What a call is about is something its operation is for.
ArgFits(c) ==
  call[c] # NoCall =>
    /\ call[c].op = "open" => call[c].arg \in Valves
    /\ call[c].op = "set" => call[c].arg \in Keys

\* Attempts are counted up to the limit of the device.
Counted(c) ==
  attempt[c] \in 0..(IF ValveCall(c) THEN onCommandMaxRetries ELSE kvNumAttempts)

TypeInv == CallInv /\ World /\ \A c \in Callers : ArgFits(c) /\ Counted(c)

LEMMA TypeInvInit == Init => TypeInv
<1> SUFFICES ASSUME Init PROVE TypeInv
  OBVIOUS
<1>1. CallInv
  BY CallInvInit
<1>2. /\ open = {} /\ stored = {} /\ ill = {}
      /\ \A c \in Callers : call[c] = NoCall /\ attempt[c] = 0
  BY DEF Init, Outcomes!Init
<1>3. ASSUME NEW c \in Callers PROVE ArgFits(c) /\ Counted(c)
  <2>1. call[c] = NoCall /\ ~ValveCall(c) /\ attempt[c] = 0
    BY <1>2 DEF ValveCall, Under
  <2>2. 0 \in 0..kvNumAttempts
    BY AttemptsAssumption
  <2> QED BY <2>1, <2>2 DEF ArgFits, Counted
<1> QED BY <1>1, <1>2, <1>3 DEF TypeInv, World

\* A step of one caller leaves the calls of the others alone.
LEMMA CallerStep ==
  ASSUME TypeInv, CallInv', World', NEW c \in Callers, ArgFits(c)', Counted(c)',
         \A d \in Callers \ {c} : call'[d] = call[d] /\ attempt'[d] = attempt[d]
  PROVE  TypeInv'
<1>1. ASSUME NEW d \in Callers, d # c PROVE ArgFits(d)' /\ Counted(d)'
  <2>1. call'[d] = call[d] /\ attempt'[d] = attempt[d] /\ ArgFits(d) /\ Counted(d)
    BY <1>1 DEF TypeInv
  <2> QED BY <2>1 DEF ArgFits, Counted, ValveCall, Under
<1> QED BY <1>1 DEF TypeInv

LEMMA ReturnTypes ==
  ASSUME TypeInv, CallInv', NEW c \in Callers, NEW a, Return(c, a),
         stored' \subseteq Keys
  PROVE  TypeInv'
<1>1. call'[c] = NoCall /\ attempt'[c] = 0 /\ UNCHANGED <<open, ill>>
  BY DEF Return, TypeInv, CallInv, CallShape
<1>2. \A d \in Callers \ {c} : call'[d] = call[d] /\ attempt'[d] = attempt[d]
  BY DEF Return, TypeInv, CallInv, CallShape
<1>3. World'
  BY <1>1 DEF TypeInv, World
<1>4. ArgFits(c)' /\ Counted(c)'
  BY <1>1, AttemptsAssumption DEF ArgFits, Counted, ValveCall, Under
<1> QED BY <1>2, <1>3, <1>4, CallerStep

\* The limit is asked about before an attempt is made.
LEMMA TryAgainTypes ==
  ASSUME TypeInv, CallInv', NEW c \in Callers, call[c] # NoCall,
         NEW left \in BOOLEAN, TryAgain(c, left),
         left => \/ Under(c, {"close", "closeAll"})
                 \/ attempt[c] < IF ValveCall(c) THEN onCommandMaxRetries ELSE kvNumAttempts
  PROVE  TypeInv'
<1>1. CASE ~left
  BY <1>1, ReturnTypes DEF TryAgain, TypeInv, World
<1>2. CASE left
  <2>1. call[c] \in Call /\ attempt[c] \in Nat /\ ArgFits(c) /\ Counted(c)
    BY DEF TypeInv, CallInv, CallShape
  <2>2. /\ call' = [call EXCEPT ![c] = [call[c] EXCEPT !.trouble = TRUE]]
        /\ attempt' = [attempt EXCEPT ![c] =
             IF Under(c, {"close", "closeAll"}) THEN attempt[c] ELSE attempt[c] + 1]
        /\ UNCHANGED <<open, stored, ill>>
    BY <1>2 DEF TryAgain
  <2>3. call'[c].op = call[c].op /\ call'[c].arg = call[c].arg
    BY <2>1, <2>2 DEF TypeInv, CallInv, CallShape, Call
  <2>4. call'[c] # NoCall
    <3>1. [call[c] EXCEPT !.trouble = TRUE] \in Call
      BY <2>1 DEF Call
    <3> QED BY <2>2, <3>1, NoCallAssumption DEF TypeInv, CallInv, CallShape
  <2>5. ValveCall(c)' <=> ValveCall(c)
    BY <2>3, <2>4 DEF ValveCall, Under
  <2>6. attempt'[c] = IF Under(c, {"close", "closeAll"}) THEN attempt[c] ELSE attempt[c] + 1
    BY <2>2 DEF TypeInv, CallInv, CallShape
  <2>7. Counted(c)'
    <3>1. attempt'[c] \in 0..(IF ValveCall(c) THEN onCommandMaxRetries ELSE kvNumAttempts)
      BY <1>2, <2>1, <2>6, AttemptsAssumption DEF Counted
    <3> QED BY <2>5, <3>1 DEF Counted
  <2>8. ArgFits(c)'
    BY <2>1, <2>3, <2>4 DEF ArgFits
  <2>9. \A d \in Callers \ {c} : call'[d] = call[d] /\ attempt'[d] = attempt[d]
    BY <2>2 DEF TypeInv, CallInv, CallShape
  <2>10. World'
    BY <2>2 DEF TypeInv, World
  <2> QED BY <2>7, <2>8, <2>9, <2>10, CallerStep
<1> QED BY <1>1, <1>2

LEMMA BeginTypes ==
  ASSUME TypeInv, CallInv', NEW c \in Callers, Begin(c)
  PROVE  TypeInv'
<1>1. PICK k \in Outcomes!Calls : call' = [call EXCEPT ![c] = Outcomes!Begun(k)]
  BY DEF Begin, Outcomes!Begin
<1>2. call'[c].op = k.op /\ call'[c].arg = k.arg
  BY <1>1 DEF Outcomes!Begun, TypeInv, CallInv, CallShape
<1>3. /\ k.op = "open" => k.arg \in Valves
      /\ k.op = "set" => k.arg \in Keys
  BY DEF Outcomes!Calls
<1>4. attempt' = [attempt EXCEPT ![c] = IF call'[c].op = "get" THEN 0 ELSE 1]
      /\ UNCHANGED <<open, stored, ill>>
  BY DEF Begin, Outcomes!Begin
<1>5. attempt'[c] \in {0, 1}
  BY <1>4 DEF TypeInv, CallInv, CallShape
<1>6. Counted(c)'
  BY <1>5, AttemptsAssumption DEF Counted
<1>7. \A d \in Callers \ {c} : call'[d] = call[d] /\ attempt'[d] = attempt[d]
  BY <1>1, <1>4 DEF TypeInv, CallInv, CallShape
<1>8. World' /\ ArgFits(c)'
  BY <1>2, <1>3, <1>4 DEF TypeInv, World, ArgFits
<1> QED BY <1>6, <1>7, <1>8, CallerStep

LEMMA SwitchTypes ==
  ASSUME TypeInv, CallInv', NEW c \in Callers, Switch(c)
  PROVE  TypeInv'
<1>1. /\ call[c] # NoCall /\ call[c].op \in {"open", "close", "closeAll"}
      /\ open' = Outcomes!Effect(call[c], open)
      /\ call' = [call EXCEPT ![c] = [call[c] EXCEPT !.done = TRUE]]
      /\ UNCHANGED <<stored, ill, attempt>>
  BY DEF Switch, ValveCall, Under, Outcomes!ValveOps
<1>2. call[c] \in Call /\ ArgFits(c) /\ Counted(c)
  BY <1>1 DEF TypeInv, CallInv, CallShape
<1>3. open' \subseteq Valves
  <2>1. CASE call[c].op = "open"
    BY <1>1, <1>2, <2>1 DEF Outcomes!Effect, TypeInv, World, ArgFits
  <2>2. CASE call[c].op = "close"
    BY <1>1, <2>2 DEF Outcomes!Effect, TypeInv, World
  <2>3. CASE call[c].op = "closeAll"
    BY <1>1, <2>3 DEF Outcomes!Effect
  <2> QED BY <1>1, <2>1, <2>2, <2>3
<1>4. call'[c].op = call[c].op /\ call'[c].arg = call[c].arg /\ attempt'[c] = attempt[c]
  BY <1>1, <1>2 DEF TypeInv, CallInv, CallShape, Call
<1>5. call'[c] # NoCall
  <2>1. [call[c] EXCEPT !.done = TRUE] \in Call
    BY <1>2 DEF Call
  <2> QED BY <1>1, <2>1, NoCallAssumption DEF TypeInv, CallInv, CallShape
<1>6. ArgFits(c)' /\ Counted(c)'
  BY <1>1, <1>2, <1>4, <1>5 DEF ArgFits, Counted, ValveCall, Under
<1>7. \A d \in Callers \ {c} : call'[d] = call[d] /\ attempt'[d] = attempt[d]
  BY <1>1 DEF TypeInv, CallInv, CallShape
<1>8. World'
  BY <1>1, <1>3 DEF TypeInv, World
<1> QED BY <1>6, <1>7, <1>8, CallerStep

LEMMA MissingLaterTypes ==
  ASSUME TypeInv, CallInv', NEW c \in Callers, GetMissingLater(c)
  PROVE  TypeInv'
<1>1. CASE Return(c, "failed") /\ UNCHANGED stored
  BY <1>1, ReturnTypes DEF TypeInv, World
<1>2. CASE /\ attempt[c] < kvNumAttempts
           /\ attempt' = [attempt EXCEPT ![c] = @ + 1]
           /\ UNCHANGED <<open, stored, ill, call, acted, answer>>
  <2>1. /\ ~ValveCall(c) /\ attempt[c] \in Nat
        /\ attempt'[c] = attempt[c] + 1 /\ ArgFits(c)
    BY <1>2 DEF GetMissingLater, ValveCall, Under, Outcomes!ValveOps,
       TypeInv, CallInv, CallShape
  <2>2. ArgFits(c)' /\ Counted(c)'
    BY <1>2, <2>1, AttemptsAssumption DEF ArgFits, Counted, ValveCall, Under
  <2>3. \A d \in Callers \ {c} : call'[d] = call[d] /\ attempt'[d] = attempt[d]
    BY <1>2 DEF TypeInv, CallInv, CallShape
  <2>4. World'
    BY <1>2 DEF TypeInv, World
  <2> QED BY <2>2, <2>3, <2>4, CallerStep
<1> QED BY <1>1, <1>2 DEF GetMissingLater

LEMMA TypeInvStep == TypeInv /\ [Next]_vars => TypeInv'
<1> SUFFICES ASSUME TypeInv, [Next]_vars PROVE TypeInv'
  OBVIOUS
<1>0. CallInv /\ CallInv'
  BY CallInvStep DEF TypeInv
<1>1. CASE UNCHANGED vars
  BY <1>0, <1>1 DEF vars, tries, TypeInv, World, ArgFits, Counted, ValveCall, Under
<1>2. ASSUME NEW c \in Callers, Begin(c) PROVE TypeInv'
  BY <1>0, <1>2, BeginTypes
<1>3. ASSUME NEW c \in Callers, Step(c) PROVE TypeInv'
  <2>0. stored \subseteq Keys
    BY DEF TypeInv, World
  <2>1. CASE Switch(c)
    BY <1>0, <2>1, SwitchTypes
  <2>2. CASE CommandSucceeds(c)
    BY <1>0, <2>0, <2>2, ReturnTypes DEF CommandSucceeds
  <2>3. CASE CommandFails(c)
    <3>1. /\ call[c] # NoCall /\ ValveCall(c)
          /\ TryAgain(c, repeat(c)) /\ repeat(c) \in BOOLEAN
      BY <2>3 DEF CommandFails, ValveCall, Under, repeat
    <3>2. repeat(c) => \/ Under(c, {"close", "closeAll"})
                       \/ attempt[c] < onCommandMaxRetries
      BY DEF repeat
    <3> QED BY <1>0, <3>1, <3>2, TryAgainTypes
  <2>4. CASE Set(c)
    <3>1. call[c].arg \in Keys
      BY <2>4 DEF Set, Under, TypeInv, ArgFits
    <3>2. stored' \subseteq Keys
      BY <2>0, <2>4, <3>1 DEF Set
    <3> QED BY <1>0, <2>4, <3>2, ReturnTypes DEF Set
  <2>5. CASE GetFound(c)
    BY <1>0, <2>0, <2>5, ReturnTypes DEF GetFound
  <2>6. CASE GetMissing(c)
    BY <1>0, <2>0, <2>6, ReturnTypes DEF GetMissing
  <2>7. CASE GetMissingLater(c)
    BY <1>0, <2>7, MissingLaterTypes
  <2>8. CASE TransactionFails(c)
    <3>1. /\ call[c] # NoCall /\ ~ValveCall(c)
          /\ TryAgain(c, attempt[c] < kvNumAttempts)
          /\ (attempt[c] < kvNumAttempts) \in BOOLEAN
      BY <2>8 DEF TransactionFails, Under, ValveCall, Outcomes!ValveOps
    <3> QED BY <1>0, <3>1, TryAgainTypes
  <2> QED BY <1>3, <2>1, <2>2, <2>3, <2>4, <2>5, <2>6, <2>7, <2>8 DEF Step
<1>4. CASE Crash
  <2>1. /\ \A c \in Callers : call'[c] = NoCall /\ attempt'[c] = 0
        /\ UNCHANGED <<open, stored, ill>>
    BY <1>4 DEF Crash, Outcomes!Crash
  <2>2. \A c \in Callers : ArgFits(c)' /\ Counted(c)'
    BY <2>1, AttemptsAssumption DEF ArgFits, Counted, ValveCall, Under
  <2> QED BY <1>0, <2>1, <2>2 DEF TypeInv, World
<1>5. ASSUME NEW d \in {"driver", "disk"}, Health(d) PROVE TypeInv'
  <2>1. /\ ill' \subseteq {"driver", "disk"}
        /\ UNCHANGED <<open, stored, call, attempt>>
    BY <1>5 DEF Health, Outcomes!Health, tries, TypeInv, World
  <2> QED BY <1>0, <2>1 DEF TypeInv, World, ArgFits, Counted, ValveCall, Under
<1> QED BY <1>1, <1>2, <1>3, <1>4, <1>5 DEF Next

\* Whatever fails and whoever calls at the same time, no call is attempted
\* more often than its limit allows, and no valve is open and no key stored
\* that nobody can have asked for (valve.go:99-125, kvstore.go:91-170).
THEOREM AttemptsAreLimited == Spec => []CallsTypeOK
<1>1. TypeInv => CallsTypeOK
  BY DEF TypeInv, CallInv, CallShape, World, Counted, CallsTypeOK
<1> QED BY <1>1, TypeInvInit, TypeInvStep, PTL DEF Spec
=============================================================================
