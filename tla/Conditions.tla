----------------------------- MODULE Conditions -----------------------------
(***************************************************************************)
(* getConditions of control/control.go and the files of conditions it      *)
(* writes and reads (control/data_logger.go), one for each date.           *)
(*                                                                         *)
(* The two calls of the weather service are tried again, a minute apart;   *)
(* the service knows the date of the call, the files go by the date the    *)
(* pass began on.  A record is what it is about and whether it was         *)
(* measured or forecast; temperature, rain and icon are left out, but that *)
(* a record whose icon is unknown is not written.  A write is in place: an *)
(* error or a crash can leave a file that nobody can read.                 *)
(***************************************************************************)
EXTENDS Integers

CONSTANTS
  MaxDay,    \* bound: last day of the calendar
  Retries,   \* calls after the first, 10 in the code
  NoRecord,  \* no file, or one that cannot be read
  Reasonable \* no conditions, or the "reasonable" conditions of ReadMostRecentConditions

ASSUME CalendarAssumption == MaxDay \in Nat \ {0}
ASSUME RetriesAssumption == Retries \in Nat

VARIABLES
  day,             \* the date by the clock
  now,             \* the date the pass began on
  pc,              \* where getConditions is
  retries,
  got,             \* the conditions the last call gave
  conditionsFile,  \* the record in the file of each date
  late             \* history: some pass went on past midnight

local == <<now, retries, got>>
conditionsVars == <<day, local, pc, conditionsFile, late>>

Days == 1..MaxDay
FileDates == 0..MaxDay + 1
Record == [about : FileDates, kind : {"measured", "forecast"}]
Measured(d) == [about |-> d, kind |-> "measured"]
Forecast(d) == [about |-> d, kind |-> "forecast"]

ConditionsInit ==
  /\ day = 1
  /\ pc = "rest"
  /\ now = 1 /\ retries = 0 /\ got = Reasonable
  /\ conditionsFile = [d \in FileDates |-> NoRecord]
  /\ late = FALSE
-----------------------------------------------------------------------------
\* The end of getConditions, and of its local variables.
Return == pc' = "rest" /\ now' = 1 /\ retries' = 0 /\ got' = Reasonable

\* A pass of the loop gets as far as getConditions.
BeginPass ==
  /\ pc = "rest"
  /\ pc' = "yesterday"
  /\ now' = day
  /\ retries' = Retries
  /\ UNCHANGED <<day, got, conditionsFile, late>>

\* Mutant: the calls are not counted.
CallAgainUncounted ==
  /\ retries' = retries - 1
  /\ UNCHANGED <<day, now, pc, got, conditionsFile, late>>
\* A call fails and is repeated after a minute.
CallAgain ==
  /\ retries > 0
  /\ retries' = retries - 1
  /\ UNCHANGED <<day, now, pc, got, conditionsFile, late>>

GetYesterday ==
  /\ pc = "yesterday"
  /\ \/ /\ got' = Measured(day - 1)
        /\ pc' = "writeYesterday"
        /\ UNCHANGED <<day, now, retries, conditionsFile, late>>
     \/ CallAgain
     \/ /\ retries = 0
        /\ pc' = "readLog"
        /\ UNCHANGED <<day, local, conditionsFile, late>>

\* ReadMostRecentConditions: the date it looks at is that of now, 31 times;
\* the result of AddDate is dropped.
ReadMostRecentConditions ==
  /\ pc = "readLog"
  /\ got' = IF conditionsFile[now] = NoRecord THEN Reasonable ELSE conditionsFile[now]
  /\ pc' = "forecast"
  /\ retries' = Retries
  /\ UNCHANGED <<day, now, conditionsFile, late>>

\* WriteConditions: a record with an unknown icon is passed over, and so is
\* an error, before the file is truncated or after.
WriteConditions(d, record) ==
  /\ \E r \in {record, conditionsFile[d], NoRecord} :
       conditionsFile' = [conditionsFile EXCEPT ![d] = r]
  /\ UNCHANGED <<day, late>>

\* Mutant: filed under the date it was asked for on.
yesterdayAsNow(d) == d
yesterday(d) == d - 1
\* Mutant: the date is not moved.
tomorrowAsNow(d) == d
tomorrow(d) == d + 1

WriteYesterday ==
  /\ pc = "writeYesterday"
  /\ WriteConditions(yesterday(now), got)
  /\ pc' = "forecast"
  /\ retries' = Retries
  /\ UNCHANGED <<now, got>>

GetForecast ==
  /\ pc = "forecast"
  /\ \/ /\ got' = Forecast(day)
        /\ pc' = "writeToday"
        /\ UNCHANGED <<day, now, retries, conditionsFile, late>>
     \/ CallAgain
     \/ retries = 0 /\ Return /\ UNCHANGED <<day, conditionsFile, late>>

WriteToday ==
  /\ pc = "writeToday"
  /\ WriteConditions(now, got)
  /\ pc' = "writeTomorrow"
  /\ UNCHANGED local

WriteTomorrow ==
  /\ pc = "writeTomorrow"
  /\ WriteConditions(tomorrow(now), Forecast(got.about + 1))
  /\ Return

\* The process dies; the loop begins another pass.
Crash ==
  /\ pc # "rest"
  /\ Return
  /\ UNCHANGED <<day, conditionsFile, late>>

\* Midnight; no pass meets two of them (the calls take 20 minutes at most).
NextDay ==
  /\ day < MaxDay
  /\ pc # "rest" => now = day
  /\ day' = day + 1
  /\ late' = (late \/ pc # "rest")
  /\ UNCHANGED <<local, pc, conditionsFile>>

ConditionsNext ==
  \/ BeginPass \/ GetYesterday \/ ReadMostRecentConditions \/ WriteYesterday
  \/ GetForecast \/ WriteToday \/ WriteTomorrow \/ Crash \/ NextDay

ConditionsSpec == ConditionsInit /\ [][ConditionsNext]_conditionsVars
-----------------------------------------------------------------------------
(***************************************************************************)
(* Properties                                                              *)
(***************************************************************************)
ConditionsTypeOK ==
  /\ day \in Days /\ now \in Days
  /\ pc \in {"rest", "yesterday", "writeYesterday", "readLog", "forecast",
             "writeToday", "writeTomorrow"}
  /\ retries \in 0..Retries
  /\ got \in Record \cup {Reasonable}
  /\ conditionsFile \in [FileDates -> Record \cup {NoRecord}]
  /\ late \in BOOLEAN

\* The file of a date is about that date; where a pass went on past midnight
\* it can be about the next, never about one gone by (control.go:210-240).
LogIsAboutItsDate ==
  \A d \in FileDates :
    conditionsFile[d] # NoRecord =>
      \/ conditionsFile[d].about = d
      \/ late /\ conditionsFile[d].about = d + 1

\* What was measured on a day is never replaced by a forecast, by whichever
\* pass and however late (control.go:226-240).
ForecastNeverReplacesMeasured ==
  [][\A d \in FileDates :
       conditionsFile[d] # NoRecord /\ conditionsFile[d].kind = "measured" =>
         conditionsFile'[d] = NoRecord \/ conditionsFile'[d].kind = "measured"]_conditionsVars

\* control.go:206, "If it is unsuccessful it returns the most recent past
\* conditions read from the data log": what the log gives for yesterday's
\* conditions was measured, or forecast, for a day that has passed.
FallbackIsPast ==
  [][pc = "readLog" /\ pc' = "forecast" /\ got' # Reasonable =>
       got'.about < now]_conditionsVars
=============================================================================
