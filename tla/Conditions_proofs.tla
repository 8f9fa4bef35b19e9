-------------------------- MODULE Conditions_proofs --------------------------
(***************************************************************************)
(* For a calendar of any length and any number of failing calls, crashes   *)
(* and passes, the log of conditions is sound.                             *)
(***************************************************************************)
EXTENDS Conditions, TLAPS

\* The date of the pass under way, or of the next.
PassDate == IF pc = "rest" THEN day ELSE now

\* What a pass is about to write is about the date of the call: that of the
\* pass or, if it went on past midnight, the next.
PassInv ==
  /\ day \in Days /\ now \in Days /\ late \in BOOLEAN
  /\ pc # "rest" => now = day \/ (late /\ now = day - 1)
  /\ pc = "writeYesterday" =>
       /\ got.kind = "measured"
       /\ got.about = now - 1 \/ (late /\ got.about = now)
  /\ pc \in {"writeToday", "writeTomorrow"} =>
       /\ got.kind = "forecast"
       /\ got.about = now \/ (late /\ got.about = now + 1)

\* What a file may hold: a record of its date, or of the next; measured only
\* if the date is gone by for the pass under way.
Sound(d, record, today, isLate) ==
  record # NoRecord =>
    /\ record.about = d \/ (isLate /\ record.about = d + 1)
    /\ record.kind = "measured" => d < today

FilesInv ==
  /\ DOMAIN conditionsFile = FileDates
  /\ \A d \in FileDates : Sound(d, conditionsFile[d], PassDate, late)

LogInv == PassInv /\ FilesInv

LEMMA LogInvInit == ConditionsInit => LogInv
<1> SUFFICES ASSUME ConditionsInit PROVE LogInv
  OBVIOUS
<1>1. PassInv
  <2>1. pc = "rest" /\ late = FALSE /\ day = 1 /\ now = 1
    BY DEF ConditionsInit
  <2>2. 1 \in Days
    BY CalendarAssumption DEF Days
  <2> QED BY <2>1, <2>2 DEF PassInv
<1>2. \A d \in FileDates : conditionsFile[d] = NoRecord
  BY DEF ConditionsInit
<1>3. DOMAIN conditionsFile = FileDates
  BY DEF ConditionsInit
<1> QED BY <1>1, <1>2, <1>3 DEF LogInv, FilesInv, Sound

\* A record that may stand in a file goes on to as days pass.
LEMMA SoundLasts ==
  ASSUME NEW d \in FileDates, NEW record, NEW today \in Int, NEW after \in Int,
         today <= after, NEW isLate \in BOOLEAN, NEW lateAfter \in BOOLEAN,
         isLate => lateAfter, Sound(d, record, today, isLate)
  PROVE  Sound(d, record, after, lateAfter)
BY CalendarAssumption DEF Sound, FileDates

\* No file changes and the date of the pass does not go back.
LEMMA FilesLast ==
  ASSUME LogInv, UNCHANGED conditionsFile, PassDate <= PassDate',
         PassDate' \in Int, late' \in BOOLEAN, late => late'
  PROVE  FilesInv'
<1>1. PassDate \in Int
  BY CalendarAssumption DEF LogInv, PassInv, PassDate, Days
<1>2. ASSUME NEW d \in FileDates
      PROVE  Sound(d, conditionsFile[d], PassDate, late)'
  <2>1. Sound(d, conditionsFile[d], PassDate, late)
    BY DEF LogInv, FilesInv
  <2>2. Sound(d, conditionsFile[d], PassDate', late')
    BY <1>1, <2>1, SoundLasts DEF LogInv, PassInv
  <2> QED BY <2>2 DEF Sound
<1> QED BY <1>2 DEF LogInv, FilesInv

\* A write leaves the other files alone, and in its own nothing but the
\* record, what was there, or nothing that can be read.
LEMMA WriteInv ==
  ASSUME LogInv, NEW d \in FileDates, NEW record, WriteConditions(d, record),
         Sound(d, record, PassDate, late),
         PassDate <= PassDate', PassDate' \in Int
  PROVE  FilesInv'
<1>1. PassDate \in Int /\ late \in BOOLEAN /\ late' = late
  BY CalendarAssumption DEF LogInv, PassInv, PassDate, Days, WriteConditions
<1>2. PICK r \in {record, conditionsFile[d], NoRecord} :
        conditionsFile' = [conditionsFile EXCEPT ![d] = r]
  BY DEF WriteConditions
<1>3. Sound(d, r, PassDate, late)
  BY <1>2 DEF LogInv, FilesInv, Sound
<1>4. ASSUME NEW e \in FileDates
      PROVE  Sound(e, conditionsFile'[e], PassDate', late')
  <2>1. Sound(e, conditionsFile'[e], PassDate, late)
    BY <1>2, <1>3 DEF LogInv, FilesInv
  <2> QED BY <1>1, <2>1, SoundLasts
<1>5. DOMAIN conditionsFile' = FileDates
  BY <1>2 DEF LogInv, FilesInv
<1> QED BY <1>4, <1>5 DEF FilesInv, Sound

\* The three writes of a pass.
LEMMA WritesInv ==
  ASSUME LogInv, WriteYesterday \/ WriteToday \/ WriteTomorrow
  PROVE  LogInv'
<1> USE CalendarAssumption
<1>1. day \in Days /\ now \in Days /\ late \in BOOLEAN
  BY DEF LogInv, PassInv
<1>2. CASE WriteYesterday
  <2>1. /\ pc = "writeYesterday" /\ pc' = "forecast" /\ WriteConditions(now - 1, got)
        /\ UNCHANGED <<day, now, late, got>>
    BY <1>2 DEF WriteYesterday, WriteConditions, yesterday
  <2>2. now - 1 \in FileDates
    BY <1>1 DEF FileDates, Days
  <2>3. PassDate = now /\ PassDate' = now /\ now \in Int
    BY <1>1, <2>1 DEF PassDate, Days
  <2>4. Sound(now - 1, got, PassDate, late)
    BY <1>1, <2>1, <2>3 DEF LogInv, PassInv, Sound, Days
  <2>5. FilesInv'
    BY <2>1, <2>2, <2>3, <2>4, WriteInv
  <2>6. PassInv'
    BY <2>1 DEF LogInv, PassInv
  <2> QED BY <2>5, <2>6 DEF LogInv
<1>3. CASE WriteToday
  <2>1. /\ pc = "writeToday" /\ pc' = "writeTomorrow" /\ WriteConditions(now, got)
        /\ UNCHANGED <<day, now, late, got>>
    BY <1>3 DEF WriteToday, WriteConditions, local
  <2>2. now \in FileDates
    BY <1>1 DEF FileDates, Days
  <2>3. PassDate = now /\ PassDate' = now /\ now \in Int
    BY <1>1, <2>1 DEF PassDate, Days
  <2>4. Sound(now, got, PassDate, late)
    BY <1>1, <2>1, <2>3 DEF LogInv, PassInv, Sound, Days
  <2>5. FilesInv'
    BY <2>1, <2>2, <2>3, <2>4, WriteInv
  <2>6. PassInv'
    BY <2>1 DEF LogInv, PassInv
  <2> QED BY <2>5, <2>6 DEF LogInv
<1>4. CASE WriteTomorrow
  <2>1. /\ pc = "writeTomorrow" /\ pc' = "rest" /\ now' = 1 /\ UNCHANGED <<day, late>>
        /\ WriteConditions(now + 1, Forecast(got.about + 1))
    BY <1>4 DEF WriteTomorrow, WriteConditions, Return, tomorrow
  <2>2. now + 1 \in FileDates
    BY <1>1 DEF FileDates, Days
  <2>3. PassDate = now /\ PassDate' = day /\ now <= day /\ day \in Int
    BY <1>1, <2>1 DEF LogInv, PassInv, PassDate, Days
  <2>4. Sound(now + 1, Forecast(got.about + 1), PassDate, late)
    BY <1>1, <2>1, <2>3 DEF LogInv, PassInv, Sound, Forecast, Days
  <2>5. FilesInv'
    BY <2>1, <2>2, <2>3, <2>4, WriteInv
  <2>6. PassInv'
    BY <1>1, <2>1 DEF PassInv, Days
  <2> QED BY <2>5, <2>6 DEF LogInv
<1> QED BY <1>2, <1>3, <1>4

LEMMA LogInvStep == LogInv /\ [ConditionsNext]_conditionsVars => LogInv'
<1> SUFFICES ASSUME LogInv, [ConditionsNext]_conditionsVars PROVE LogInv'
  OBVIOUS
<1> USE CalendarAssumption
<1>0. day \in Days /\ now \in Days /\ late \in BOOLEAN
  BY DEF LogInv, PassInv
<1>1. CASE UNCHANGED conditionsVars
  <2>1. UNCHANGED <<day, now, pc, got, conditionsFile, late>>
    BY <1>1 DEF conditionsVars, local
  <2>2. PassInv'
    BY <2>1 DEF LogInv, PassInv
  <2>3. FilesInv'
    BY <2>1 DEF LogInv, FilesInv, Sound, PassDate
  <2> QED BY <2>2, <2>3 DEF LogInv
<1>2. CASE BeginPass
  <2>1. pc = "rest" /\ pc' = "yesterday" /\ now' = day
        /\ UNCHANGED <<day, late, conditionsFile>>
    BY <1>2 DEF BeginPass
  <2>2. PassDate = day /\ PassDate' = day /\ day \in Int
    BY <1>0, <2>1 DEF PassDate, Days
  <2>3. FilesInv'
    BY <1>0, <2>1, <2>2, FilesLast
  <2> QED BY <1>0, <2>1, <2>3 DEF LogInv, PassInv
<1>3. CASE CallAgain /\ pc # "rest"
  <2>1. UNCHANGED <<day, now, pc, got, conditionsFile, late>>
    BY <1>3 DEF CallAgain
  <2> QED BY <2>1 DEF LogInv, PassInv, FilesInv, Sound, PassDate
<1>4. CASE GetYesterday /\ ~CallAgain
  <2>1. /\ pc = "yesterday" /\ UNCHANGED <<day, now, conditionsFile, late>>
        /\ \/ pc' = "writeYesterday" /\ got' = Measured(day - 1)
           \/ pc' = "readLog"
    BY <1>4 DEF GetYesterday, local
  <2>2. PassDate = now /\ PassDate' = now /\ now \in Int
    BY <1>0, <2>1 DEF PassDate, Days
  <2>3. FilesInv'
    BY <1>0, <2>1, <2>2, FilesLast
  <2>4. PassInv'
    BY <1>0, <2>1 DEF LogInv, PassInv, Measured, Days
  <2> QED BY <2>3, <2>4 DEF LogInv
<1>5. CASE ReadMostRecentConditions
  <2>1. /\ pc = "readLog" /\ pc' = "forecast"
        /\ UNCHANGED <<day, now, conditionsFile, late>>
    BY <1>5 DEF ReadMostRecentConditions
  <2>2. PassDate = now /\ PassDate' = now /\ now \in Int
    BY <1>0, <2>1 DEF PassDate, Days
  <2>3. FilesInv'
    BY <1>0, <2>1, <2>2, FilesLast
  <2> QED BY <2>1, <2>3 DEF LogInv, PassInv
<1>6. CASE GetForecast /\ ~CallAgain /\ ~Return
  <2>1. /\ pc = "forecast" /\ pc' = "writeToday" /\ got' = Forecast(day)
        /\ UNCHANGED <<day, now, conditionsFile, late>>
    BY <1>6 DEF GetForecast
  <2>2. PassDate = now /\ PassDate' = now /\ now \in Int
    BY <1>0, <2>1 DEF PassDate, Days
  <2>3. FilesInv'
    BY <1>0, <2>1, <2>2, FilesLast
  <2>4. PassInv'
    BY <1>0, <2>1 DEF LogInv, PassInv, Forecast, Days
  <2> QED BY <2>3, <2>4 DEF LogInv
<1>7. CASE pc # "rest" /\ Return /\ UNCHANGED <<day, conditionsFile, late>>
  <2>1. PassDate = now /\ PassDate' = day /\ now <= day /\ day \in Int
    BY <1>0, <1>7 DEF LogInv, PassInv, PassDate, Return, Days
  <2>2. FilesInv'
    BY <1>0, <1>7, <2>1, FilesLast
  <2>3. PassInv'
    BY <1>0, <1>7 DEF PassInv, Return, Days
  <2> QED BY <2>2, <2>3 DEF LogInv
<1>8. CASE NextDay
  <2>1. /\ day < MaxDay /\ day' = day + 1 /\ late' = (late \/ pc # "rest")
        /\ pc # "rest" => now = day
        /\ UNCHANGED <<now, got, pc, conditionsFile>>
    BY <1>8 DEF NextDay, local
  <2>2. PassDate <= PassDate' /\ PassDate' \in Int /\ late' \in BOOLEAN
    BY <1>0, <2>1 DEF PassDate, Days
  <2>3. FilesInv'
    BY <2>1, <2>2, FilesLast
  <2>4. PassInv'
    <3>1. day' \in Days /\ now' \in Days /\ late' \in BOOLEAN
      BY <1>0, <2>1 DEF Days
    <3>2. ASSUME pc' # "rest" PROVE late' /\ now' = day' - 1
      <4>1. pc # "rest" /\ now = day
        BY <2>1, <3>2
      <4>2. late'
        BY <2>1, <4>1
      <4>3. now' = day' - 1
        BY <1>0, <2>1, <4>1 DEF Days
      <4> QED BY <4>2, <4>3
    <3>3. late => late'
      BY <2>1
    <3> QED BY <2>1, <3>1, <3>2, <3>3 DEF LogInv, PassInv
  <2> QED BY <2>3, <2>4 DEF LogInv
<1>9. CASE WriteYesterday \/ WriteToday \/ WriteTomorrow
  BY <1>9, WritesInv
<1> QED
  BY <1>1, <1>2, <1>3, <1>4, <1>5, <1>6, <1>7, <1>8, <1>9
  DEF ConditionsNext, GetYesterday, GetForecast, Crash

\* The log of conditions is about the dates its files are named by, however
\* late a pass writes and whatever fails (control.go:210-240).
THEOREM LogIsSound == ConditionsSpec => []LogIsAboutItsDate
<1>1. LogInv => LogIsAboutItsDate
  BY DEF LogInv, FilesInv, Sound, LogIsAboutItsDate
<1> QED BY <1>1, LogInvInit, LogInvStep, PTL DEF ConditionsSpec

\* What was measured is never replaced by a forecast (control.go:226-240):
\* forecasts are written for the date of the pass and the next, and what was
\* measured is about dates gone by for it.
THEOREM MeasuredStays == ConditionsSpec => ForecastNeverReplacesMeasured
<1>1. ASSUME LogInv, LogInv', [ConditionsNext]_conditionsVars, NEW d \in FileDates,
             conditionsFile[d] # NoRecord, conditionsFile[d].kind = "measured"
      PROVE  conditionsFile'[d] = NoRecord \/ conditionsFile'[d].kind = "measured"
  <2>1. d < PassDate
    BY <1>1 DEF LogInv, FilesInv, Sound
  <2>2. CASE UNCHANGED conditionsFile
    BY <1>1, <2>2
  <2>3. ASSUME NEW e \in FileDates, NEW record, WriteConditions(e, record),
               e # d \/ record.kind = "measured"
        PROVE  conditionsFile'[d] = NoRecord \/ conditionsFile'[d].kind = "measured"
    BY <1>1, <2>3 DEF WriteConditions, LogInv, FilesInv
  <2>4. day \in Days /\ now \in Days
    BY <1>1 DEF LogInv, PassInv
  <2>5. CASE WriteYesterday
    <3>1. WriteConditions(now - 1, got) /\ pc = "writeYesterday"
      BY <2>5 DEF WriteYesterday, yesterday
    <3>2. got.kind = "measured"
      BY <1>1, <3>1 DEF LogInv, PassInv
    <3>3. now - 1 \in FileDates
      BY <2>4, CalendarAssumption DEF Days, FileDates
    <3> QED BY <2>3, <3>1, <3>2, <3>3
  <2>6. CASE WriteToday
    <3>1. now # d /\ now \in FileDates /\ WriteConditions(now, got)
      BY <2>1, <2>4, <2>6, CalendarAssumption DEF WriteToday, PassDate, Days, FileDates
    <3> QED BY <2>3, <3>1
  <2>7. CASE WriteTomorrow
    <3>1. now + 1 # d /\ now + 1 \in FileDates
      BY <2>1, <2>4, <2>7, CalendarAssumption DEF WriteTomorrow, PassDate, Days, FileDates
    <3>2. WriteConditions(now + 1, Forecast(got.about + 1))
      BY <2>7 DEF WriteTomorrow, tomorrow
    <3> QED BY <2>3, <3>1, <3>2
  <2>8. WriteYesterday \/ WriteToday \/ WriteTomorrow \/ UNCHANGED conditionsFile
    BY <1>1 DEF ConditionsNext, conditionsVars, BeginPass, GetYesterday, CallAgain,
       ReadMostRecentConditions, GetForecast, Crash, NextDay
  <2> QED BY <2>2, <2>5, <2>6, <2>7, <2>8
<1>2. LogInv /\ LogInv' /\ [ConditionsNext]_conditionsVars
        => [\A d \in FileDates :
              conditionsFile[d] # NoRecord /\ conditionsFile[d].kind = "measured" =>
                conditionsFile'[d] = NoRecord \/ conditionsFile'[d].kind = "measured"]_conditionsVars
  BY <1>1
<1> QED
  BY <1>2, LogInvInit, LogInvStep, PTL DEF ConditionsSpec, ForecastNeverReplacesMeasured
=============================================================================
