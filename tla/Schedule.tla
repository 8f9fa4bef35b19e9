------------------------------ MODULE Schedule ------------------------------
(***************************************************************************)
(* The schedule table of the web page (www/js/tables.js, common.js and     *)
(* server.js): what it shows of the log under which date, for a page       *)
(* loaded on some day and left open.                                       *)
(*                                                                         *)
(* The server sends the date of a record as midnight UTC, which the        *)
(* browser takes for a point in time: west of Greenwich it lies on the day *)
(* before.  The table has as many columns as a week has days, and tells a  *)
(* date by year, month and day of the week; all days here are of a month.  *)
(***************************************************************************)
EXTENDS Conditions, FiniteSets

CONSTANTS
  HistoryDays,  \* DEFAULT_HISTORY_DAYS of common.js, and the days of a week
  West          \* TRUE: the browser's clock is behind UTC

ASSUME HistoryAssumption == HistoryDays \in Nat \ {0, 1} /\ West \in BOOLEAN

VARIABLES
  toDate,   \* g.toDate, 0 as long as no page is open
  history   \* g.iconHistory, tempHistory and precipHistory, by date string

pageVars == <<toDate, history>>
scheduleVars == <<conditionsVars, pageVars>>

Columns == 0..HistoryDays - 1
NoPage == 0
NothingKnown == [k \in {} |-> NoRecord]

ScheduleInit ==
  /\ ConditionsInit
  /\ toDate = NoPage
  /\ history = NothingKnown

\* processConditionsResponse: the local date of midnight UTC.
LocalDate(d) == IF West THEN d - 1 ELSE d

\* The dates from gFromDate to toDate whose files can be read.
ReadConditions(from, to) ==
  {d \in FileDates \cap from..to : conditionsFile[d] # NoRecord}

\* initAll: the rightmost day is tomorrow.
Rightmost == day + 1

\* The page is loaded: initAll, getServerLogData.
LoadPage ==
  /\ toDate' = Rightmost
  /\ LET ds == ReadConditions(Rightmost - (HistoryDays - 1), Rightmost)
     IN  history' = [k \in {LocalDate(d) : d \in ds} |->
                       conditionsFile[CHOOSE d \in ds : LocalDate(d) = k]]
  /\ UNCHANGED conditionsVars

ScheduleNext ==
  \/ ConditionsNext /\ UNCHANGED pageVars
  \/ LoadPage

ScheduleSpec == ScheduleInit /\ [][ScheduleNext]_scheduleVars
-----------------------------------------------------------------------------
(***************************************************************************)
(* displayScheduleTable                                                    *)
(***************************************************************************)
\* Mutant: headers computed as the cells are.
HeaderAsCell(i) == toDate - HistoryDays + i
\* The date above column i.
Header(i) == toDate - (HistoryDays - 1) + i

\* Mutant: cells are looked up by the date of their header.
CellSameDay(i) == toDate - (HistoryDays - 1) + i
\* The date string the cells of column i are looked up by.
Cell(i) == toDate - HistoryDays + i

\* datesAreEqual compares the days of the week.
DatesAreEqual(d, e) == d % HistoryDays = e % HistoryDays
MarkedToday(i) == DatesAreEqual(Header(i), day)
-----------------------------------------------------------------------------
(***************************************************************************)
(* Properties                                                              *)
(***************************************************************************)
ScheduleTypeOK ==
  /\ ConditionsTypeOK
  /\ toDate \in 0..MaxDay + 1
  /\ DOMAIN history \subseteq {LocalDate(d) : d \in FileDates}
  /\ \A k \in DOMAIN history : history[k] \in Record

\* West of Greenwich, all that was received is shown, each record in the
\* column of the date it is about, or of the day before where a pass went on
\* past midnight; elsewhere the whole table is off by a day (tables.js:43-97,
\* server.js:260).
ScheduleMatchesHeaders ==
  West /\ toDate # NoPage =>
    \A k \in DOMAIN history : \E i \in Columns :
      /\ k = Cell(i)
      /\ \/ history[k].about = Header(i)
         \/ late /\ history[k].about = Header(i) + 1

\* On the day a page was loaded and on the next, the one column marked as
\* today is that of today (common.js:200, tables.js:46).
TodayIsToday ==
  toDate # NoPage /\ day <= toDate =>
    \A i \in Columns : MarkedToday(i) <=> Header(i) = day
=============================================================================
