--------------------------- MODULE Schedule_proofs ---------------------------
(***************************************************************************)
(* For a table of any width, a calendar of any length and any number of    *)
(* failing calls, crashes and loads of the page, the table shows what the  *)
(* log holds, in the columns it is about.                                  *)
(***************************************************************************)
EXTENDS Schedule, Conditions_proofs

(***************************************************************************)
(* Types of the log                                                        *)
(***************************************************************************)
\* What a pass is about to write is a record, and a forecast is about no day
\* to come: the one for tomorrow, a day further, is still of the calendar.
ToWrite ==
  /\ pc \in {"writeYesterday", "writeToday", "writeTomorrow"} => got \in Record
  /\ pc \in {"writeToday", "writeTomorrow"} => got.about <= day

TypedLog == LogInv /\ ConditionsTypeOK /\ ToWrite

LEMMA TypedLogInit == ConditionsInit => TypedLog
<1> SUFFICES ASSUME ConditionsInit PROVE TypedLog
  OBVIOUS
<1>1. LogInv
  BY LogInvInit
<1>2. /\ day = 1 /\ pc = "rest" /\ now = 1 /\ retries = 0 /\ got = Reasonable
      /\ conditionsFile = [d \in FileDates |-> NoRecord] /\ late = FALSE
  BY DEF ConditionsInit
<1>3. 1 \in Days /\ 0 \in 0..Retries
  BY CalendarAssumption, RetriesAssumption DEF Days
<1>4. ConditionsTypeOK /\ ToWrite
  BY <1>2, <1>3 DEF ConditionsTypeOK, ToWrite
<1> QED BY <1>1, <1>4 DEF TypedLog

\* Neither the clock nor what is known of late passes goes back.
LEMMA ClockGoesOn ==
  TypedLog /\ [ConditionsNext]_conditionsVars => day <= day' /\ (late => late')
BY DEF TypedLog, ConditionsTypeOK, Days, conditionsVars, local, ConditionsNext,
   BeginPass, GetYesterday, CallAgain, ReadMostRecentConditions, WriteYesterday,
   GetForecast, WriteToday, WriteTomorrow, WriteConditions, Crash, NextDay, Return

\* A write puts a record, or nothing that can be read, into one file.
LEMMA WriteTypes ==
  ASSUME ConditionsTypeOK, NEW d \in FileDates, NEW record \in Record,
         WriteConditions(d, record)
  PROVE  conditionsFile' \in [FileDates -> Record \cup {NoRecord}]
BY DEF ConditionsTypeOK, WriteConditions

LEMMA RecordTypes ==
  /\ \A d \in FileDates : Measured(d) \in Record /\ Forecast(d) \in Record
  /\ \A d \in Days : d \in FileDates /\ d - 1 \in FileDates /\ d + 1 \in FileDates
BY CalendarAssumption DEF Measured, Forecast, Record, FileDates, Days

LEMMA TypedLogStep == TypedLog /\ [ConditionsNext]_conditionsVars => TypedLog'
<1> SUFFICES ASSUME TypedLog, [ConditionsNext]_conditionsVars PROVE TypedLog'
  OBVIOUS
<1> USE CalendarAssumption, RetriesAssumption
<1>0. LogInv /\ LogInv' /\ ConditionsTypeOK /\ ToWrite
  BY LogInvStep DEF TypedLog
<1>a. 1 \in Days /\ 0 \in 0..Retries /\ Retries \in 0..Retries
  BY DEF Days
<1>1. CASE UNCHANGED conditionsVars
  BY <1>0, <1>1 DEF conditionsVars, local, TypedLog, ConditionsTypeOK, ToWrite
<1>2. CASE BeginPass
  BY <1>0, <1>a, <1>2 DEF BeginPass, TypedLog, ConditionsTypeOK, ToWrite
<1>3. ASSUME CallAgain PROVE TypedLog'
  <2>1. retries' \in 0..Retries /\ UNCHANGED <<day, now, pc, got, conditionsFile, late>>
    BY <1>0, <1>3 DEF CallAgain, ConditionsTypeOK
  <2> QED BY <1>0, <2>1 DEF TypedLog, ConditionsTypeOK, ToWrite
<1>4. CASE GetYesterday /\ ~CallAgain
  <2>1. /\ pc' \in {"writeYesterday", "readLog"}
        /\ got' \in Record \cup {Reasonable}
        /\ pc' = "writeYesterday" => got' \in Record
        /\ UNCHANGED <<day, now, retries, conditionsFile, late>>
    BY <1>0, <1>4, RecordTypes DEF GetYesterday, local, ConditionsTypeOK
  <2> QED BY <1>0, <2>1 DEF TypedLog, ConditionsTypeOK, ToWrite
<1>5. CASE ReadMostRecentConditions
  <2>1. /\ pc' = "forecast" /\ retries' = Retries
        /\ got' = IF conditionsFile[now] = NoRecord THEN Reasonable ELSE conditionsFile[now]
        /\ UNCHANGED <<day, now, conditionsFile, late>>
    BY <1>5 DEF ReadMostRecentConditions
  <2>2. now \in FileDates
    BY <1>0, RecordTypes DEF ConditionsTypeOK
  <2>3. got' \in Record \cup {Reasonable}
    BY <1>0, <2>1, <2>2 DEF ConditionsTypeOK
  <2> QED BY <1>0, <1>a, <2>1, <2>3 DEF TypedLog, ConditionsTypeOK, ToWrite
<1>6. CASE WriteYesterday
  <2>1. /\ pc = "writeYesterday" /\ pc' = "forecast" /\ retries' = Retries
        /\ WriteConditions(now - 1, got) /\ UNCHANGED <<day, now, got, late>>
    BY <1>6 DEF WriteYesterday, WriteConditions, yesterday
  <2>2. now - 1 \in FileDates /\ got \in Record
    BY <1>0, <2>1, RecordTypes DEF ConditionsTypeOK, ToWrite
  <2>3. conditionsFile' \in [FileDates -> Record \cup {NoRecord}]
    BY <1>0, <2>1, <2>2, WriteTypes
  <2> QED BY <1>0, <1>a, <2>1, <2>3 DEF TypedLog, ConditionsTypeOK, ToWrite
<1>7. CASE GetForecast /\ ~CallAgain /\ ~Return
  <2>1. /\ pc' = "writeToday" /\ got' = Forecast(day)
        /\ UNCHANGED <<day, now, retries, conditionsFile, late>>
    BY <1>7 DEF GetForecast
  <2>2. got' \in Record /\ got'.about = day /\ day <= day'
    BY <1>0, <2>1, RecordTypes DEF Forecast, ConditionsTypeOK, Days
  <2> QED BY <1>0, <2>1, <2>2 DEF TypedLog, ConditionsTypeOK, ToWrite
<1>8. CASE WriteToday
  <2>1. /\ pc = "writeToday" /\ pc' = "writeTomorrow"
        /\ WriteConditions(now, got) /\ UNCHANGED <<day, now, retries, got, late>>
    BY <1>8 DEF WriteToday, WriteConditions, local
  <2>2. now \in FileDates /\ got \in Record
    BY <1>0, <2>1, RecordTypes DEF ConditionsTypeOK, ToWrite
  <2>3. conditionsFile' \in [FileDates -> Record \cup {NoRecord}]
    BY <1>0, <2>1, <2>2, WriteTypes
  <2> QED BY <1>0, <2>1, <2>3 DEF TypedLog, ConditionsTypeOK, ToWrite
<1>9. CASE WriteTomorrow
  <2>1. /\ pc = "writeTomorrow" /\ Return /\ UNCHANGED <<day, late>>
        /\ WriteConditions(now + 1, Forecast(got.about + 1))
    BY <1>9 DEF WriteTomorrow, WriteConditions, tomorrow
  <2>2. /\ now \in Days /\ day \in Days
        /\ got.about = now \/ got.about = now + 1
        /\ got.about <= day
    BY <1>0, <2>1 DEF LogInv, PassInv, ToWrite
  <2>3. now + 1 \in FileDates /\ got.about + 1 \in FileDates
    BY <2>2 DEF Days, FileDates
  <2>4. conditionsFile' \in [FileDates -> Record \cup {NoRecord}]
    BY <1>0, <2>1, <2>3, WriteTypes, RecordTypes
  <2> QED BY <1>0, <1>a, <2>1, <2>4 DEF Return, TypedLog, ConditionsTypeOK, ToWrite
<1>10. CASE Return /\ UNCHANGED <<day, conditionsFile, late>>
  BY <1>0, <1>a, <1>10 DEF Return, TypedLog, ConditionsTypeOK, ToWrite
<1>11. CASE NextDay
  <2>1. /\ day' = day + 1 /\ day' \in Days /\ late' \in BOOLEAN
        /\ UNCHANGED <<now, retries, got, pc, conditionsFile>>
    BY <1>0, <1>11 DEF NextDay, local, ConditionsTypeOK, Days
  <2>2. pc \in {"writeToday", "writeTomorrow"} => got.about <= day'
    BY <1>0, <2>1 DEF ToWrite, ConditionsTypeOK, Days, Record, FileDates
  <2> QED BY <1>0, <2>1, <2>2 DEF TypedLog, ConditionsTypeOK, ToWrite
<1> QED
  BY <1>1, <1>2, <1>3, <1>4, <1>5, <1>6, <1>7, <1>8, <1>9, <1>10, <1>11
  DEF ConditionsNext, GetYesterday, GetForecast, Crash

\* The page only reads the log.
LEMMA PageOnlyReads == ScheduleSpec => ConditionsSpec
<1>1. ScheduleInit => ConditionsInit
  BY DEF ScheduleInit
<1>2. [ScheduleNext]_scheduleVars => [ConditionsNext]_conditionsVars
  BY DEF ScheduleNext, scheduleVars, LoadPage
<1> QED BY <1>1, <1>2, PTL DEF ScheduleSpec, ConditionsSpec

-----------------------------------------------------------------------------
(***************************************************************************)
(* What the page was given                                                 *)
(***************************************************************************)
\* The page was loaded on a day gone by or today; every record it was given
\* is of the week that ended a day later, under the date its own file goes by.
GivenInv ==
  /\ toDate = NoPage => DOMAIN history = {}
  /\ toDate # NoPage =>
       /\ toDate \in 2..MaxDay + 1 /\ toDate <= day + 1
       /\ \A k \in DOMAIN history :
            \E d \in FileDates \cap (toDate - (HistoryDays - 1)..toDate) :
              /\ k = LocalDate(d)
              /\ history[k] \in Record
              /\ history[k].about = d \/ (late /\ history[k].about = d + 1)

ScheduleInv == TypedLog /\ GivenInv

LEMMA ScheduleInvInit == ScheduleInit => ScheduleInv
BY TypedLogInit DEF ScheduleInit, ScheduleInv, GivenInv, NothingKnown

LEMMA LoadPageInv == ASSUME ScheduleInv, LoadPage PROVE GivenInv'
<1> DEFINE ds == ReadConditions(Rightmost - (HistoryDays - 1), Rightmost)
<1>0. history' = [k \in {LocalDate(d) : d \in ds} |->
                    conditionsFile[CHOOSE d \in ds : LocalDate(d) = k]]
  BY Zenon DEF LoadPage
<1>1. toDate' = day + 1 /\ UNCHANGED <<day, late, conditionsFile>>
  BY DEF LoadPage, Rightmost, conditionsVars
<1>2. day \in Days /\ toDate' \in 2..MaxDay + 1 /\ toDate' # NoPage /\ toDate' <= day' + 1
  BY <1>1, CalendarAssumption DEF ScheduleInv, TypedLog, ConditionsTypeOK, Days, NoPage
<1>3. ASSUME NEW k \in DOMAIN history'
      PROVE  \E d \in FileDates \cap (toDate' - (HistoryDays - 1)..toDate') :
               /\ k = LocalDate(d)
               /\ history'[k] \in Record
               /\ history'[k].about = d \/ (late' /\ history'[k].about = d + 1)
  <2> DEFINE d == CHOOSE d \in ds : LocalDate(d) = k
  <2>1. d \in ds /\ LocalDate(d) = k /\ history'[k] = conditionsFile[d]
    BY <1>0, <1>3
  <2> HIDE DEF d
  <2>2. /\ d \in FileDates \cap (toDate' - (HistoryDays - 1)..toDate')
        /\ conditionsFile[d] # NoRecord
    BY <1>1, <2>1 DEF ReadConditions, Rightmost
  <2>3. /\ conditionsFile[d] \in Record
        /\ conditionsFile[d].about = d \/ (late /\ conditionsFile[d].about = d + 1)
    BY <2>2 DEF ScheduleInv, TypedLog, ConditionsTypeOK, LogInv, FilesInv, Sound
  <2> HIDE DEF ds
  <2> QED BY <1>1, <2>1, <2>2, <2>3
<1> HIDE DEF ds
<1> QED BY <1>2, <1>3 DEF GivenInv, LocalDate

LEMMA ScheduleInvStep == ScheduleInv /\ [ScheduleNext]_scheduleVars => ScheduleInv'
<1> SUFFICES ASSUME ScheduleInv, [ScheduleNext]_scheduleVars PROVE ScheduleInv'
  OBVIOUS
<1>1. [ConditionsNext]_conditionsVars
  BY DEF ScheduleNext, scheduleVars, LoadPage
<1>2. TypedLog' /\ day <= day' /\ (late => late')
  BY <1>1, TypedLogStep, ClockGoesOn DEF ScheduleInv
<1>3. CASE LoadPage
  BY <1>2, <1>3, LoadPageInv DEF ScheduleInv
<1>4. CASE UNCHANGED pageVars
  <2>1. toDate' = toDate /\ history' = history
    BY <1>4 DEF pageVars
  <2>2. day \in Int /\ day' \in Int
    BY <1>2 DEF ScheduleInv, TypedLog, ConditionsTypeOK, Days
  <2>3. toDate # NoPage => toDate <= day' + 1
    BY <1>2, <2>2 DEF ScheduleInv, GivenInv
  <2>4. ASSUME toDate # NoPage, NEW k \in DOMAIN history
        PROVE  \E d \in FileDates \cap (toDate - (HistoryDays - 1)..toDate) :
                 /\ k = LocalDate(d)
                 /\ history[k] \in Record
                 /\ history[k].about = d \/ (late' /\ history[k].about = d + 1)
    BY <1>2, <2>4 DEF ScheduleInv, GivenInv
  <2>5. GivenInv'
    BY <2>1, <2>3, <2>4 DEF ScheduleInv, GivenInv, LocalDate
  <2> QED BY <1>2, <2>5 DEF ScheduleInv
<1> QED BY <1>3, <1>4 DEF ScheduleNext, scheduleVars

LEMMA ScheduleInvariance == ScheduleSpec => []ScheduleInv
BY ScheduleInvInit, ScheduleInvStep, PTL DEF ScheduleSpec
-----------------------------------------------------------------------------
(***************************************************************************)
(* What it shows                                                           *)
(***************************************************************************)
\* Whatever the weather service, the files and the clock do, what the page
\* holds is of dates there can be files for, and every record is of the kinds
\* the logger writes (data_logger.go, server.js:260).
THEOREM ScheduleTypes == ScheduleSpec => []ScheduleTypeOK
<1>1. ASSUME ScheduleInv PROVE ScheduleTypeOK
  <2>1. ConditionsTypeOK
    BY <1>1 DEF ScheduleInv, TypedLog
  <2>2. toDate \in 0..MaxDay + 1
    BY <1>1, CalendarAssumption DEF ScheduleInv, GivenInv, NoPage
  <2>3. ASSUME NEW k \in DOMAIN history
        PROVE  k \in {LocalDate(d) : d \in FileDates} /\ history[k] \in Record
    BY <1>1, <2>3 DEF ScheduleInv, GivenInv
  <2> QED BY <2>1, <2>2, <2>3 DEF ScheduleTypeOK
<1> QED BY <1>1, ScheduleInvariance, PTL

\* The table of a page opened west of Greenwich shows all it was given, each
\* record under the header of the date it is about or, where a pass went on
\* past midnight, of the day before (tables.js:43-97, server.js:260); for any
\* number of columns.
THEOREM RecordsAreUnderTheirDates == ScheduleSpec => []ScheduleMatchesHeaders
<1>1. ASSUME ScheduleInv, West, toDate # NoPage, NEW k \in DOMAIN history
      PROVE  \E i \in Columns :
               /\ k = Cell(i)
               /\ \/ history[k].about = Header(i)
                  \/ late /\ history[k].about = Header(i) + 1
  <2>1. PICK d \in FileDates \cap (toDate - (HistoryDays - 1)..toDate) :
          /\ k = LocalDate(d)
          /\ history[k].about = d \/ (late /\ history[k].about = d + 1)
    BY <1>1 DEF ScheduleInv, GivenInv
  <2>2. toDate \in Int /\ HistoryDays \in Int /\ d \in Int /\ k = d - 1
    BY <1>1, <2>1, HistoryAssumption DEF ScheduleInv, GivenInv, LocalDate, FileDates
  <2> DEFINE i == d - toDate + (HistoryDays - 1)
  <2>3. i \in Columns /\ Cell(i) = k /\ Header(i) = d
    BY <2>1, <2>2 DEF Columns, Cell, Header
  <2> QED BY <2>1, <2>3
<1>2. ScheduleInv => ScheduleMatchesHeaders
  BY <1>1 DEF ScheduleMatchesHeaders
<1> QED BY <1>2, ScheduleInvariance, PTL

\* Two dates less than a week apart that are of the same day of the week are
\* the same.
LEMMA SameDayOfWeek ==
  ASSUME NEW n \in Nat \ {0}, NEW d \in Int, NEW e \in Int,
         d % n = e % n, d - e < n, e - d < n
  PROVE  d = e
<1>1. d = n * (d \div n) + (d % n) /\ e = n * (e \div n) + (e % n)
  OBVIOUS
<1>2. d \div n \in Int /\ e \div n \in Int /\ d % n \in Int
  OBVIOUS
<1>3. n * ((d \div n) - (e \div n)) = d - e
  BY <1>1, <1>2
<1>4. ASSUME NEW q \in Int, n * q < n, -n < n * q PROVE q = 0
  BY <1>4
<1>5. (d \div n) - (e \div n) = 0
  BY <1>2, <1>3, <1>4
<1> QED BY <1>1, <1>2, <1>5

\* On the day a page was loaded and on the next one, the column marked as
\* today is that of today and no other: the days of the week of the columns
\* all differ, though the columns begin days before (common.js:200,
\* tables.js:46).  The week must have two days or more: with one, the only
\* column, that of tomorrow, would pass for today's.
THEOREM OneColumnIsToday == ScheduleSpec => []TodayIsToday
<1>1. ASSUME ScheduleInv, toDate # NoPage, day <= toDate, NEW i \in Columns
      PROVE  MarkedToday(i) <=> Header(i) = day
  <2>1. /\ day \in Int /\ toDate \in Int /\ toDate <= day + 1
        /\ HistoryDays \in Nat \ {0, 1} /\ i \in 0..HistoryDays - 1
    BY <1>1, HistoryAssumption
    DEF ScheduleInv, GivenInv, TypedLog, ConditionsTypeOK, Days, Columns
  <2>2. Header(i) \in Int /\ Header(i) - day < HistoryDays /\ day - Header(i) < HistoryDays
    BY <1>1, <2>1 DEF Header
  <2>3. Header(i) % HistoryDays = day % HistoryDays => Header(i) = day
    BY <2>1, <2>2, SameDayOfWeek
  <2> QED BY <2>3 DEF MarkedToday, DatesAreEqual
<1>2. ScheduleInv => TodayIsToday
  BY <1>1 DEF TodayIsToday
<1> QED BY <1>2, ScheduleInvariance, PTL

\* What the page reads is about the dates its files are named by, with a page
\* being loaded at any moment of a pass (control.go:210-240).
COROLLARY LogIsSoundForThePage == ScheduleSpec => []LogIsAboutItsDate
BY LogIsSound, PageOnlyReads, PTL
=============================================================================
