# A verification of irctl

irctl waters a garden. A Go server (`server/`) keeps a balance of the water in
the soil of every zone, decides once a day which zones to run and for how long,
and commands the valves through a driver program (`drivers/`). A web page
(`www/`) shows the schedule, edits the configuration and starts manual runs.
This directory holds TLA+ models of its control logic, the TLC configurations
that check them and TLAPS proofs of what holds for every instance.

## 1. The system

| component | state | operations | talks to |
|---|---|---|---|
| control loop (`server/control/control.go`) | configuration and plan of a pass (memory); `LastRunDate`, `CurrentVWC<n>` (KV store) | `Run` sleeps an hour and calls `RunOnce`: close all valves, read the configuration, then either reset zones and log a prediction (the date has been run) or get the weather, plan and run the zones | store, zones, data logger, weather, flag `CommandRunning` |
| zones (`zone.go`) | `ZoneState<n>` in the KV store: Unknown, Idle, Running, Complete | `TurnOn`, `TurnOff`, `Run`, `ResetZones`, `TurnAllOff` | store, valves |
| valves (`valve.go`) | the position of each valve, in the hardware | `OpenValve` (five attempts), `CloseValve`, `CloseAllValves` (until it succeeds) | a driver, by a process per attempt |
| KV store (`kvstore.go`) | a badger database | `Get`, `Set`, ten attempts each; a missing key is not an error | disk |
| ET algorithm (`alg.go`) | none | `CalculateVWC`, `CalculateRuntime`, `GetY` | - |
| configuration (`config.go`, `setConfigHandler`) | the config file | `Parse`, `NumZones`; the page replaces the file | disk |
| data logger (`data_logger.go`) | one file per date of conditions and of run times | read and write | disk |
| manual runs (`server.go`) | `CommandRunning` (memory, shared with the loop, no lock), one goroutine per run as its timer | `runzoneHandler`, `runzoneStopHandler` | valves |
| run table of the page (`www/js/tables.js`) | queue of manual runs, selected zone, countdown | run, cancel, countdown, select | manual runs, by HTTP |
| configuration form (`www/js/tables.js`, `server.js`) | a copy of the configuration, and what is kept of it beside | load, show, edit, save | config file, by HTTP |
| schedule table (`www/js/tables.js`, `common.js`) | the history received, the rightmost date | load, show | data logger, by HTTP |
| weather (`control/weather`) | none | conditions of yesterday and the forecast | two web services |
| drivers (`drivers/`) | none | one serial or USB command per process | hardware |
| service manager (`init/`) | - | restarts the server ten seconds after it dies | - |

What makes each correct: the loop waters every zone once a date and knows of all
water that flows; a call says what it did; a manual run has somebody to end it;
the page's queue is worked off in order, and the page knows what flows; a
configuration in force is one that was accepted, changed where its user changed
it; a file of the log is about its date, and is shown under it.

What is hard in it:

- the process can die between any two writes, with water flowing; the store and
  the valves survive, nothing else does;
- every store, driver and file operation can fail, and most callers log the
  failure and go on with the next zone;
- a driver command can work and report failure (`drivers/rain8net/zone_on:4`);
- attempts are repeated by loop and handlers at the same time, openings a number
  of times, closings for ever;
- a pass takes as long as it takes (valves run for minutes, the weather service
  is asked eleven times), and may end on another date than it began;
- loop and HTTP handlers share one boolean, and command the same valves;
- a timer of a manual run is not cancelled when the run is stopped;
- the page runs its own countdown, takes no notice of a refusal, lets through
  minutes the server refuses, and shares one global loop variable among its
  tables;
- files are truncated and written in place.

`PROJECT.json` lists these at their lines under `hazards`.

## 2. Modules

| module | models | its state and actions |
|---|---|---|
| `ETAlgorithm` | `alg.go`, the limits of `config.go` | operators only; integer units in which no product of the code loses a digit |
| `OncePerDate` | nothing: what the loop promises | `recorded`, `watered`, `flowing` |
| `RunLoop` | `control.go`, `zone.go`, outcomes of `kvstore.go` and `valve.go`, `WriteRuntimes`, `setConfigHandler` | see below; implements `OncePerDate` |
| `Server` | the manual handlers of `server.go`, extending `RunLoop` | `hpc`, `hzone`: where each request's goroutine is and the zone it names; `CommandRunning` and `open` are those of `RunLoop` |
| `CallOutcomes` | nothing: what a call of store or valves answers | `call`, `answer`, `open`, `stored` |
| `Calls` | `valveCommand`, `Get`, `Set`, `RetryThenFail`, for several goroutines | the same, and the `attempt` of each; implements `CallOutcomes` |
| `Conditions` | `getConditions`, the conditions files of `data_logger.go` | `conditionsFile`, `pc`, `now`, `retries`, `got` |
| `Schedule` | `displayScheduleTable` and what it shows, extending `Conditions` | `toDate`, `history` |
| `PageConfig` | the configuration form, `setConfigHandler` and the file | `file`, and for each page `globalConf`, `commonShown`, `algorithm`, `form`, `at` |
| `RunQueue` | nothing: what the run table promises | `current`, `queue` |
| `RunTable` | the run table of `tables.js` | the page's globals, with their names, and the requests of the last event; implements `RunQueue` |
| `PageServer` | `RunTable` and `Server` together | `countdown`, `timer`: minutes left on the page and in the goroutines; `asked`, `awaiting`: the request under way |
| `MCRunLoop`, `MCServer`, `MCRunTable`, `MCPageServer`, `MCPageConfig`, `MCSchedule`, `MCCalls` | - | values for the constants |
| `RunLoop_proofs`, `Server_proofs`, `RunTable_proofs`, `PageServer_proofs`, `Calls_proofs`, `PageConfig_proofs`, `Conditions_proofs`, `Schedule_proofs` | - | theorems |

**RunLoop.** One action stands for the code between two points at which
something else can happen: a store operation, a driver command, a sleep. The
variable `pc` names those points; the actions bear the names of the Go functions
or their halves. `zoneState`, `vwc`, `lastRunDate` are the store, `open` the
valves, `runtimesFile` and `config` the files, `now`, `systemConfig`, `plan`,
`todo`, `prevState`, `znum` what the pass has in memory (`znum` is the loop
variable of `ResetZones` and of `runZones`). `lastOpened`, `vwcDate` and `lied`
are history: no action reads them.

- *Time.* The day is cut in `SlotsPerDay` slots of one `runInterval`; `Tick`
  moves the clock, at any moment, or only during the sleep if `Timely`. The
  calendar stops on the last slot of `MaxDay`, where the loop keeps running.
- *Failure.* `Fails(kind)` is the failing outcome of a call, allowed for the
  `FaultKinds` of an instance and `MaxFaults` times. A failing store call is one
  that has used up its attempts. `"flaky"` is an `OpenValve` that opened the
  valve and reports failure. `CloseValve` and `TurnAllOff` repeat until they
  succeed, so they have one outcome.
- *Crash.* `Crash` clears what is in memory; `Restart` is the service manager.
- *Files.* A write truncates first: one that fails (`WriteFile`), or a process
  killed inside it (`Crash`), leaves the file of that date as it was or with
  nothing that can be read.
- *Data.* The configuration is a function from keys to zones as in the code,
  with `Number` separate from the key. The weather is a choice from `Weather`
  in each pass. Which run times a date's file holds is one of `none`,
  `predicted`, `actual`: contents are left out. A disabled zone, a panic on a
  nil map and the time of day of `RunTimeAM` below the hour are left out.

**Server.** A request is accepted, sets the flag, opens the valve, and its
goroutine goes on as the timer: `AcceptRunZone`, `ClaimCommand`,
`ManualOpenValve`, `EndManualRun`, `ManualCloseValve`, each one action because
the others can interleave. The handler looks at the flag and sets it in two
steps; `RunOnce` looks at it and runs `TurnAllOff` in two. The number of minutes
is left open: a timer may end at any time. The model is of a server started with
`-runloop`.

**RunTable.** JavaScript handlers run one at a time and the page's requests are
synchronous, so each handler is one action. The global `i` is a variable of the
model because `removeRunTableEntry` reads it before it assigns it. A slot
assigned `{}` is `NoZone`. Minutes are left out but for their absence from such
a slot. `sent` is the list of requests the last event sent.

**PageServer.** The page's handlers run one at a time and wait for each answer
(`async: false`): an event of `RunTable` leaves its requests in `sent`, and the
next one has to wait until `AskServer`, `RequestRefused` and `ServeRequest` have
worked them off. Time is in whole minutes; the page's countdown starts before
the request is sent and the server's timer when the valve has opened, which takes
`MaxDelay` minutes at most, and what falls due in the same minute happens in any
order. The page asks for minutes the server does not accept
(`Minutes`, `AcceptedMinutes`) and is refused; a negative number gives it a
countdown that never ends, until the user cancels the run. `RunTable` leaves
minutes out: its fairness is that of a user who asks for positive ones. It is a
server started without `-runloop`, its default: the loop's variables stay where
they begin.

**Calls.** An attempt at a valve is a process: `Switch` is its effect,
`CommandSucceeds` or `CommandFails` its exit status, which a driver that is ill
gives as it likes, before an effect or after it. An attempt at the store is one
transaction, which fails only if the disk is ill. `Get` makes one attempt before
`RetryThenFail` makes its own, and only there does it tell a missing key from a
failure: `GetMissing` and `GetMissingLater`. `trouble` and `done` of a call are
history, which `CallOutcomes` is about. The pauses are left out, and the garbage
collection at the end of `Set`.

**Conditions.** One action stands for a call of the service or a write, the two
places where time passes or a crash bites. A record is the date it is about and
whether it was measured or forecast: `GetYesterday` returns what was measured on
the day before the *call*, whichever date the pass began on. A write can be
passed over (unknown icon, error), or leave a file nobody can read. The calls are
repeated a minute apart and end within a pass's hour, so that a pass meets one
midnight at most; values, and what `RunLoop` does with them, are left out. The
model is of either service: the one `main` uses never knows the icon of a
measurement (`accu_weather.go:193`), so that with it every measurement is passed
over.

**Schedule.** The server sends a date as midnight UTC, and the browser reads the
point in time: `LocalDate`. Columns are headed and filled by different offsets
(`Header`, `Cell`), as in the code. A page is loaded on some day and left open.

**PageConfig.** A configuration is three parts that the form treats differently:
the zones, which the page shares with its copy; airport and run time, which it
keeps separately from the load on; and the temperature ranges, of which the form
shows the first four. Settings are values that `Parse` accepts or refuses; a
range is one number in tenths of a degree, enough to tell what a zero, a fraction
and an open end become. `CheckPost`, `TruncateFile` and `WriteFile` are the parts
of the handler between which another handler can run or the server can die;
`WriteFails` is its error path, before the truncation or after it.

## 3. Runs

| run | question | bounds |
|---|---|---|
| `loop_faults` | any two failures of six kinds, a clock that may tick at every step, a zone that leaves and comes back in the configuration: the loop implements `OncePerDate`; water on record, one valve at a time, none during the sleep, credit only after a run, no prediction for a date that has had its run, even where a torn write has lost its times | 2 zones, 3 days of 2 slots, about 400 000 states |
| `loop_live` | passes that end in their hour, a hot and a mild weather: until something fails every zone has its turn every day, evapotranspiration is taken once a date and the date recorded when all zones ran; with any two failures, each costs a zone two dates at most, valves shut, zones come back to Idle in a day and one per failure, passes end | 2 zones, 6 days of 3 slots, about 370 000 states |
| `server_manual` | two requests against the loop: no valve without somebody to shut it | 2 zones, 1 day, one failing `Set` or lying driver, about 750 000 states up to symmetry |
| `server_live` | the same with a crash: the flag comes free; valves shut, unless manual runs of the other valve have the flag at every pass | 2 valves, one of them the loop's, 2 requests, 150 000 states |
| `page_queue` | the run table implements `RunQueue`, fairness included | 3 zones, 3 slots |
| `page_server` | the page and its server: only the run that is shown has water, or one the page has counted to its end, for as long as its opening took; a run is refused only for its minutes or for such a run; every valve shuts | 2 zones, a queue of 1, 3 goroutines, one failing opening, openings of up to a minute, runs of -1 and 1 to 3 minutes of which the server accepts 2, about 300 000 states |
| `config_save` | two pages edit and save: only what `Parse` accepted can be read of the file, a page changes only what was edited, nothing but a zero or a short list of ranges keeps it from saving | 2 zones, 2 slots and lists of 1 to 3 ranges, 2 edits, 1 crash, 610 000 states |
| `log_days` | passes, failing calls, midnights, torn files, crashes and a page left open: files are about their dates, no forecast over a measurement, each record in its column, one column marked as today | 3 days, one repetition, a week of 3 days, 310 000 states |
| `calls_retry` | two goroutines, a driver and a disk that fall ill and recover: calls answer as `CallOutcomes` says, and end | 2 valves, 1 key, five attempts at an opening and three at a transaction, 87 000 states |
| `loop_spared` | *violated:* a zone that need not run is credited with a full soil | |
| `page_wrongzone` | *violated:* the zone sent is not the zone queued | |
| `log_fallback` | *violated:* the fallback for yesterday's weather is today's forecast | |

The three violated runs each state what a comment of the code says (quoted under
`findings`), and are the shortest executions in which the code does otherwise.

*Why the bounds are enough.* Two zones are the least for one zone's trouble to
reach another's, and nothing in the loop counts them; two valves are the least for a manual run of one
to keep the loop from the other. The properties about dates
compare a date with the next one: three days hold a run, its repetition and the
run after, and for the log a measurement, a forecast made two days before and one
made late. Two failures are the least for a failing recovery (a `Set` that fails
after a crash, a state that cannot be restored after a `SetVWC` that failed); the
theorems hold for any number. Two requests are what the flag is to keep apart;
the page needs a third goroutine for the timer of a run that was stopped. Three
slots of the run table hold a head, a middle and a tail, and fill. A failure of
the loop costs two dates: six days hold two failures and the dates they cost.
Runs of two minutes are the least whose timer can go off in the middle of the
next run, three is a number the server refuses, a minute's opening is the least
the page counts and the server does not (two change nothing, nor does a queue of
two in shorter runs). In
`config_save` the lists of ranges have more than, as many as and fewer than the
slots of the form, with a fraction, an open end and, by an edit, a zero or a
temperature beyond the bounds `parseAlgorithm` sets on what it reads (a value
entered on the page is not clamped until it is read back). Three
attempts tell the first, a later and the last one apart; the five of an opening
are those of the code.

*Fairness.* The loop's goroutine is scheduled and its calls return (`WF` of
`LoopStep`), time passes (`WF` of `Tick`) and the service manager restarts the
process (`WF` of `Restart`, `Restart=always`). A manual run ends because its
goroutine sleeps for a number of minutes (`WF` of `HandlerStep`, per request);
nobody has to send a request. The page's countdown expires; in `PageServer`
what is due in a minute happens, and minutes pass however often the user clicks
(`SF` of `NextMinute`: clicks take it away again and again, but the clock does not
stop for them). In `Calls` each goroutine makes
progress (`WF` of `Step`): a process of the driver exits. That a closing command
succeeds in the end is part of the first: `Calls` shows that it does once the
driver has recovered (`CloseEnds`), and with a driver that never does nothing
above it holds.

*What is assumed where.* `NoDateMissed`, `DebitFromPreviousDay` and `DateOnlyWhenAllRan` are about executions in which
nothing has failed yet, for a loop that keeps its hour and a run time before the
last hour of the day. Beyond that the code departs from its comments: with a run
time in the last hour the zones stay Complete overnight and never run again
(`control.go:325`); after a crash between `control.go:183` and `:199` the day's
evapotranspiration is taken twice; a zone whose valve cannot be opened is passed
over and the date recorded all the same (`:353`). `NoZoneStuck` needs the loop to
keep its hour, and so does `AFailureCostsTwoDates`: the code sleeps `runInterval`
*after* each pass (`control.go:73`), so that passes drift and one that waters for
hours skips slots, which `Timely` leaves out and `loop_faults` lets in.
`NoOrphanValve` is about a process that does not die; after a
crash the next pass of the loop closes what is open. It does not say that
commands exclude each other: two requests can pass the test of the flag
together (`server.go:236`), a request accepted while a pass begins loses its
water to `TurnAllOff`. In `Server` an opening is one effect: that a later attempt
opens a valve that has been shut meanwhile is only in `Calls`. Nor do valves shut
whatever happens beside manual runs: a valve a crash has left open waits for a
pass that finds the flag clear, and runs of other zones may have it each time
(`control.go:123`); `ShutUnlessKeptOut` excepts just that, and with two valves
`EveryValveShuts` is violated beside the handlers. A driver command that succeeds
has had its effect; rain8net can report success for an answer that does not match
(`Rain8Net.cpp:317`), which no part of the server could tell. In `PageServer` a command that fails has not opened its
valve and the server does not die: without the loop nobody would shut it.
`SlotsInUse` and `ImplementsRunQueue` are about a page on which the configuration
is saved while nothing waits: `populateAlgorithmValues` leaves the shared `i` at
4, and the next removal then clears slot 4 of the queue. `SaveChangesOnlyEdits`
is about a page whose copy is what the file holds, and about zones and ranges:
an older copy undoes what others have saved, and airport and run time fall back
to those of the load when the form is shown again. `ScheduleMatchesHeaders` is
about a browser west of Greenwich (`West`); elsewhere the table is a day off.

## 4. Proofs

For every number of valves and zones, configuration `Parse` accepts, calendar,
weather, and number of failures of any kind, `RunLoop_proofs` proves of `Spec`:

| theorem | says |
|---|---|
| `TypeCorrect` | `TypeOK`; in particular VWC stays in 0..100% and the zone at hand is in the configuration in use |
| `OncePerDate` | `AtMostOncePerDate` |
| `FlowIsRecorded` | `OpenIsRecorded` |
| `OneValve`, `NoneAsleep` | `OneValveAtATime`, `AsleepMeansShut` |
| `CreditIsEarned` | `CreditOnlyAfterFlow` |
| `PredictionIsForTomorrow` | `PredictionNeverReplacesRun`, over failed and killed writes |
| `LoopImplementsOncePerDate` | `ImplementsOncePerDate` |
| `DebitIsOfPreviousDay`, `DateWhenAllRan` | `DebitFromPreviousDay`, `DateOnlyWhenAllRan` |
| `EveryDateHasItsRun` | `NoDateMissed`, for a loop that keeps its hour |
| `AllHaveBeenReset` | `NoneIsPassedOver`, for a loop that keeps its hour |
| `CalculateVWCBounds` | a day's balance lies between 0 and `MaxVWC` |
| `RunTimeIsTruncated` | a run brings the soil to its target at most, and within a minute's water of it |

They rest on the five named assumptions of `RunLoop` on its constants and on one
inductive invariant, `Inv`. The properties are not inductive by themselves:
"at most once per date" needs to know, at the moment a valve is opened, that the
zone was found Idle, and that an Idle zone has not run since `LastRunDate` was
recorded (`Dates`, last conjunct), which in turn needs that `ResetZones` runs only
on a date that is on record, and that no date on record is ahead of the pass.
`ZoneAtHand` says what `runZones` knows of the zone it works on between two
store operations; `PlanScope` that a plan does not outlive its pass. These make
up `RecordInv`, which mentions no valve but for its type: `TypeStep`, `DatesStep`
and `ZoneAtHandStep` take it through every action (`RecordStep`) from itself
alone, so that it holds beside anybody who opens and shuts valves. `ZoneShut` and
`Water` say that the only open valve is that of the zone at hand (or of the one
at hand when the process died, until `TurnAllOff`); `FlowStep` and `WaterStep`
need that nobody else opens one. `GardenStep` maps each action to a step of
`OncePerDate` or to none, from `Inv`.

What holds until something fails has invariants of its own, which say nothing once
`faults` is not zero (`FailuresStay`: it never is zero again). `UntilAFailure` is
true of a loop as late as it likes and of any configurations: a zone is Running
only while it is the one at hand, what a run has been through is Complete, and a
VWC is no younger than the date on record. `DebitIsOfPreviousDay` and
`DateWhenAllRan` follow without a hypothesis. `PromptInv` is the timetable of a
prompt loop, pass by pass: what is on record at the hour of the run, before it
and after it (`Ahead`, `RanToday`, `PassDone`). It needs three hypotheses, each of
which the properties fail without: `Timely`, passes end in the hour they began in
(a pass that oversleeps the hour of the run misses the date); `RoomForReset`, the
run is not in the last hour of the day (or else no pass is left to reset the zones,
and `control.go:325` passes over them all the next day); `SameZones`, what the
page saves keeps the zones (a zone that was not there yesterday has not been run
yesterday). Under them no zone is Complete when `runZones` comes to it
(`AllHaveBeenReset`), until something fails.

`Server_proofs` reuses `RecordStep`: a handler changes no variable `RecordInv` is
about but the flag and the valves (`HandlingRecord`). From `ServerInv`, which adds
the types of the handlers, follow `ServerTypeCorrect` and
`OncePerDateBesideManualRuns`, for any number of requests. `EveryValveHasACloser`
(`NoOrphanValve`) takes each step of the loop (`LoopKeepsClosers`) and of a handler
(`HandlerKeepsClosers`): who gives up closing a valve has shut it; `NoOrphanStep`
puts the two together for anybody who takes steps of the server.

`PageServer_proofs` is about the page and its server together, for any zones, runs,
slots and goroutines. `PageDrivesTheServer` and `ServerAnswersThePage` show that
the composition is faithful to its parts: each of its steps is one of `Server` or
none, and one of `RunTable` or none, so that what is proved of either holds here
(`EveryShownValveHasACloser` is one such use). `PageServerInv` adds what neither
knows: the order of the requests under way (`PageInOrder`: a stop comes first, a
run last, and it is the one shown), the one goroutine the page waits for (`Waits`),
and for every open valve why it may be open (`WaterIsShown`: it is about to be
shut, the page has counted its run to the end, or it is of the run shown and ends
in time) and the same for the flag (`FlagIsOwned`). The clocks of page and server
are tied by `ClocksInOrder`: the timer of a run never lags the page by more than
the minutes its opening took (`took`). From it follow `RefusedOnlyForCause`
(`RefusedForCause`) and `WaterFlowsAsShown` (`OnlyTheShownRunFlows`), for openings
of any length. The latter has the hypothesis that no command opens a valve and
reports failure (`"flaky"`): such a valve stays open with the flag clear and no
timer, which is listed among the hazards (`server.go:247`).

`RunTable_proofs` proves `TableTypeCorrect`, `SlotsAreInUse` and `NoneWaitsIdle`
(`IdleMeansEmpty`), from `Inv`: these, with `i` pointing behind the queue whenever
something waits, and a name on the page exactly while something runs. From it
follows `PageImplementsQueue`: under the mapping of `Waiting` every event is a
step of `RunQueue` or leaves it unchanged; `AppendIsRunLater`,
`CompletionIsNextRun` and `CancelIsWithdraw` show one correspondence each.

`Calls_proofs` proves `CallsAnswerAsPromised`, for any number of callers, valves,
keys and attempts (two at least): `CallInv` knows that a process that has switched
has had its effect and that an attempt after the first means trouble; `OutcomeStep`
maps each attempt to a step of `CallOutcomes` or to none. That a missing key is
no failure hangs on `GetMissingLater` being reached only in trouble.
`AttemptsAreLimited` (`CallsTypeOK`) adds the bounds on attempts and what a call is
about (`TypeInv`).

`PageConfig_proofs` proves `FileIsAccepted` (`OnlyAcceptedInForce`), for any number
of pages and crashes: `CheckedInv` adds that a page past `CheckPost` waits with a
copy `Parse` accepts, which nothing changes while it waits. The other three
(`CopiesAreWhole`, `OnlyZerosKeepFromSaving`, `OnlyEditsAreSaved`) rest on
`FormsInv`, which relates the three places a page keeps its ranges in: what was
read ends where the copy does or at a zero of it and differs from it by the bound
at most (`CopyInv`), and the form shows as much of it as there are slots and
differs from it in what was edited (`FormInv`). `ParsedRangesProperties` says what
`parseAlgorithm` reads of any list. That a save leaves the relation as it was, and
so may be repeated, needs `WholeDegrees` to be idempotent. `NoConfAssumption`: the
page's lack of a configuration is not one.

`Conditions_proofs` proves `LogIsSound` (`LogIsAboutItsDate`) and `MeasuredStays`
(`ForecastNeverReplacesMeasured`), for any calendar and number of calls: `LogInv`
ties what a call has returned and what is in the files to the date of the pass,
with one day's grace if the pass went on past midnight; what was measured is
about dates before that of the pass, which writes forecasts for its own and the
next.

`Schedule_proofs` goes on from there. `PageOnlyReads` carries both over to a page
that may be loaded at any moment. `TypedLog` adds that a pass never writes about
or to a day the calendar does not have: what the forecast is about has come
(`ToWrite`). `GivenInv` says of every record the page holds which file it came
from; so that `ScheduleTypes` (`ScheduleTypeOK`) and `RecordsAreUnderTheirDates`
(`ScheduleMatchesHeaders`) follow for any number of columns. `OneColumnIsToday`
(`TodayIsToday`) is arithmetic: two days less than a week apart on the same day of
the week are the same (`SameDayOfWeek`). A week must have two days
(`HistoryAssumption`; it has seven): in a table of one column, which is that of
tomorrow, it would pass for today's.

Only model-checked: liveness (`EveryValveShuts`, `ShutUnlessKeptOut`, `NoZoneStuck`,
`EveryPassEnds`, `CommandEnds`, `AttemptsEnd`, `CloseEnds`, and the fairness in
`ImplementsRunQueue`), which is beyond the prover; and `AFailureCostsTwoDates`, for
which the timetable of a prompt loop would have to go on through failures. Every
other safety property of a passing run is proved. What the code does otherwise than
its comments say (the three violated runs) is an execution TLC finds. What limits a
theorem to an instance is its hypotheses: the three of a prompt loop, `"flaky"`, and
`~SaveWhileQueued` of the run table.

## 5. Not modelled

- Web requests for weather and the parsing of answers, error mail, the read-only
  handlers but for the dates they send: no state anything depends on.
- What a text becomes when it is parsed: JSON, times of day, numbers in fields.
  Where it matters (zero, fraction, open end, refused value) the value is one of
  those the models choose from.
- The numato and console drivers (one system call each), and the bytes rain8net
  exchanges; the drivers' effect and exit status are in `Calls`.
- The garbage collection of the store, the log's rows of run times on the page
  (filled as those of conditions are), the arrow buttons (their handlers throw),
  graphs and layers of the page.
- A disabled zone (nothing reads `Enabled`), a clock that goes back, a process
  that hangs in a request without a timeout.
- Third-party code. Most of the repository's lines are the page's vendored
  libraries: jQuery, jqPlot, globalize, the time picker, the countdown, raty,
  jmobile. The program's own code is about six thousand lines, a third of it the
  drivers; the modules map about 1 700 of them, the greater part of the control
  loop, the handlers and the page's tables.

## 6. Plan

Of what is left, in this order:

1. `Config`: `Parse` and `NumZones` by number against look-up by key.
2. `ETAlgorithm` against exact arithmetic over bounded inputs: truncation, and
   the multiplier.
3. `Rain8`: the serial protocol, short reads and writes, as the driver of `Calls`.
4. `Server` with the attempts of `Calls` in the place of its atomic openings.
5. `OncePerDate` beside manual runs as a refinement: which valves are the loop's.
