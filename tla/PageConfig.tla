----------------------------- MODULE PageConfig -----------------------------
(***************************************************************************)
(* The configuration form of the web page (www/js/tables.js and server.js) *)
(* and the handler that stores what it sends (setConfigHandler).           *)
(*                                                                         *)
(* Each page reads the file when it is loaded and keeps a copy.  The form  *)
(* is filled from the copy each time it is shown; Save writes the fields   *)
(* of the form into the copy and sends the whole of it.  The handler       *)
(* checks it, empties the file and writes it, one step each, since several *)
(* pages may post at once and the server may die.  A page waits for the    *)
(* answer to its post: nothing else happens on it meanwhile.               *)
(*                                                                         *)
(* A configuration has the settings of each zone, what all zones have in   *)
(* common (airport and run time), and the temperature ranges, of which the *)
(* form shows the first AlgorithmSlots.  Settings are abstract but for     *)
(* those Parse refuses; a range is one number, in tenths of a degree.      *)
(***************************************************************************)
EXTENDS Integers, SequencesExt

CONSTANTS
  Pages,           \* pages open in browsers
  Keys,            \* keys of ZoneConfigs
  Settings,        \* settings of a zone
  RefusedSettings, \* those Parse refuses (verifyZoneConfig)
  Commons,         \* airport and run time
  RefusedCommons,  \* those Parse refuses
  InitialRanges,   \* the ranges the file may have at first
  RangeInputs,     \* what a user may enter for a range
  AlgorithmSlots,  \* MAX_ALGORITHM_SLOTS of common.js
  NoConf,          \* the page has no configuration, or shows no form
  Empty, Torn,     \* a file truncated, or with the end of an older one
  MaxEdits,        \* bound: fields edited
  MaxCrashes       \* bound: deaths of the server

ASSUME ValueAssumption ==
  /\ RefusedSettings \subseteq Settings
  /\ RefusedCommons \subseteq Commons
  /\ InitialRanges \subseteq Seq(Int)
  /\ RangeInputs \subseteq Int
ASSUME ConfigBoundsAssumption ==
  AlgorithmSlots \in Nat /\ MaxEdits \in Nat /\ MaxCrashes \in Nat

VARIABLES
  file,        \* the config file
  globalConf,  \* g.globalConf of each page; g.zoneConf shares its zones
  commonShown, \* g.airportCode and g.runTime
  algorithm,   \* g.algorithm
  form,        \* the fields of the form, if it is shown
  saveEnabled, \* the Save button
  at,          \* where the page's post is
  edited,      \* history: fields the user changed since the form was shown
  edits, crashes

pages == <<globalConf, commonShown, algorithm, form, saveEnabled, edited>>
vars == <<file, pages, at, edits, crashes>>

Config ==
  [zones : [Keys -> Settings], common : Commons, ranges : Seq(Int)]
ASSUME NoConfAssumption == NoConf \notin Config
Unreadable == {Empty, Torn}

\* Parse, for what the form can change.
ParseOK(c) ==
  /\ \A k \in Keys : c.zones[k] \notin RefusedSettings
  /\ c.common \notin RefusedCommons

Init ==
  /\ file \in {c \in [zones : [Keys -> Settings], common : Commons,
                      ranges : InitialRanges] : ParseOK(c)}
  /\ globalConf = [p \in Pages |-> NoConf]
  /\ commonShown = [p \in Pages |-> NoConf]
  /\ algorithm = [p \in Pages |-> << >>]
  /\ form = [p \in Pages |-> NoConf]
  /\ saveEnabled = [p \in Pages |-> FALSE]
  /\ at = [p \in Pages |-> "free"]
  /\ edited = [p \in Pages |-> {}]
  /\ edits = 0 /\ crashes = 0
-----------------------------------------------------------------------------
(***************************************************************************)
(* The page                                                                *)
(***************************************************************************)
Free(p) == at[p] = "free"

\* parseAlgorithm: 999 degrees stand for no bound.
Unbounded == 9990
Clamped(x) ==
  Max({-Unbounded, Min({Unbounded, x})})

\* populateAlgorithmValues: parseInt drops the fraction.
WholeDegrees(x) == IF x < 0 THEN -(((-x) \div 10) * 10) ELSE (x \div 10) * 10

\* Mutant: the last range is left out.
ParsedRangesButLast(rs) == [k \in 1..Len(rs) - 1 |-> Clamped(rs[k])]
\* parseAlgorithm: a zero is taken for a missing value and ends the reading,
\* without an error; g.algorithm has what was read until then.
ParsedRanges(rs) ==
  LET zero == SelectInSeq(rs, LAMBDA x : x = 0)
      n    == IF zero = 0 THEN Len(rs) ELSE zero - 1
  IN  [k \in 1..n |-> Clamped(rs[k])]

\* initAll: a page is opened, or loaded again.  A file that is not JSON
\* leaves it without a configuration.
LoadPage(p) ==
  /\ Free(p)
  /\ IF file \in Unreadable
     THEN /\ globalConf' = [globalConf EXCEPT ![p] = NoConf]
          /\ commonShown' = [commonShown EXCEPT ![p] = NoConf]
          /\ algorithm' = [algorithm EXCEPT ![p] = << >>]
     ELSE /\ globalConf' = [globalConf EXCEPT ![p] = file]
          /\ commonShown' = [commonShown EXCEPT ![p] = file.common]
          /\ algorithm' = [algorithm EXCEPT ![p] = ParsedRanges(file.ranges)]
  /\ form' = [form EXCEPT ![p] = NoConf]
  /\ saveEnabled' = [saveEnabled EXCEPT ![p] = FALSE]
  /\ edited' = [edited EXCEPT ![p] = {}]
  /\ UNCHANGED <<file, at, edits, crashes>>

\* displayZoneConfigTable: zones from the copy, the rest from what was kept
\* of it when the page was loaded or last saved; no fields for a range that
\* is not there (makeAlgorithmTd).
DisplayZoneConfigTable(p) ==
  /\ Free(p)
  /\ globalConf[p] # NoConf
  /\ form' = [form EXCEPT ![p] =
       [zones  |-> globalConf[p].zones,
        common |-> commonShown[p],
        ranges |-> SubSeq(algorithm[p], 1,
                          Min({AlgorithmSlots, Len(algorithm[p])}))]]
  /\ saveEnabled' = [saveEnabled EXCEPT ![p] = FALSE]
  /\ edited' = [edited EXCEPT ![p] = {}]
  /\ UNCHANGED <<file, globalConf, commonShown, algorithm, at, edits, crashes>>

\* onDoneButtonClick.
DoneButtonClick(p) ==
  /\ Free(p)
  /\ form' = [form EXCEPT ![p] = NoConf]
  /\ edited' = [edited EXCEPT ![p] = {}]
  /\ UNCHANGED <<file, globalConf, commonShown, algorithm, saveEnabled, at,
                 edits, crashes>>

\* The fields of the form shown, and what can be entered in each.
Fields(p) ==
  ({"zones"} \X Keys) \cup {<<"common">>}
    \cup ({"ranges"} \X DOMAIN form[p].ranges)

\* The user changes a field: onValueChange.
EditField(p) ==
  /\ Free(p)
  /\ form[p] # NoConf
  /\ edits < MaxEdits
  /\ \E f \in Fields(p) :
       /\ \/ /\ f[1] = "zones"
             /\ \E v \in Settings : form' = [form EXCEPT ![p].zones[f[2]] = v]
          \/ /\ f[1] = "common"
             /\ \E v \in Commons : form' = [form EXCEPT ![p].common = v]
          \/ /\ f[1] = "ranges"
             /\ \E v \in RangeInputs : form' = [form EXCEPT ![p].ranges[f[2]] = v]
       /\ edited' = [edited EXCEPT ![p] = @ \cup {f}]
  /\ form' # form
  /\ saveEnabled' = [saveEnabled EXCEPT ![p] = TRUE]
  /\ edits' = edits + 1
  /\ UNCHANGED <<file, globalConf, commonShown, algorithm, at, crashes>>

\* Mutant: one row too many.
CopiedZonesOneMore(p) ==
  [k \in Keys \cup {Cardinality(Keys)} |->
     form[p].zones[IF k \in Keys THEN k ELSE 0]]
\* copyUIToConfig: row z + 1 of the table is zone z.
CopiedZones(p) == form[p].zones

\* Mutant: the copy of the page is not brought up to date.
CopiedAlgorithmStale(p) == algorithm[p]
\* populateAlgorithmValues, g.algorithm: the ranges that have fields are
\* taken from them.
CopiedAlgorithm(p) ==
  [k \in DOMAIN algorithm[p] |->
     IF k \in DOMAIN form[p].ranges THEN WholeDegrees(form[p].ranges[k])
     ELSE algorithm[p][k]]

\* populateAlgorithmValues, the copy to be sent.
CopiedRanges(p) ==
  [k \in DOMAIN globalConf[p].ranges |->
     IF k \in DOMAIN form[p].ranges THEN WholeDegrees(form[p].ranges[k])
     ELSE globalConf[p].ranges[k]]

\* populateAlgorithmValues throws at the first of its slots that is not there.
RangesMissing(p) == Len(form[p].ranges) < AlgorithmSlots

\* onSaveButtonClick: the form goes into the page's copy and the copy to the
\* server; nothing is sent, and Save stays enabled, if a range is missing.
SaveButtonClick(p) ==
  /\ Free(p)
  /\ form[p] # NoConf /\ saveEnabled[p]
  /\ globalConf' = [globalConf EXCEPT ![p] =
       [zones |-> CopiedZones(p), common |-> form[p].common,
        ranges |-> CopiedRanges(p)]]
  /\ algorithm' = [algorithm EXCEPT ![p] = CopiedAlgorithm(p)]
  /\ IF RangesMissing(p)
     THEN UNCHANGED <<at, saveEnabled>>
     ELSE /\ at' = [at EXCEPT ![p] = "posted"]
          /\ saveEnabled' = [saveEnabled EXCEPT ![p] = FALSE]
  /\ UNCHANGED <<file, commonShown, form, edited, edits, crashes>>
-----------------------------------------------------------------------------
(***************************************************************************)
(* setConfigHandler                                                        *)
(***************************************************************************)
PostAt(p, from, to) ==
  /\ at[p] = from
  /\ at' = [at EXCEPT ![p] = to]

\* Mutant: what was posted is not checked.
CheckPostNever(p) ==
  /\ PostAt(p, "posted", "parsed")
  /\ UNCHANGED <<file, pages, edits, crashes>>
\* Parse; an error is the answer.
CheckPost(p) ==
  /\ PostAt(p, "posted", IF ParseOK(globalConf[p]) THEN "parsed" ELSE "free")
  /\ UNCHANGED <<file, pages, edits, crashes>>

\* ioutil.WriteFile opens the file and truncates it ...
TruncateFile(p) ==
  /\ PostAt(p, "parsed", "writing")
  /\ file' = Empty
  /\ UNCHANGED <<pages, edits, crashes>>

\* ... and writes it from its beginning: what another handler has written
\* since the truncation shows behind it if it was longer.
WriteFile(p) ==
  /\ PostAt(p, "writing", "free")
  /\ file' \in {globalConf[p]} \cup IF file = Empty THEN {} ELSE {Torn}
  /\ UNCHANGED <<pages, edits, crashes>>

\* The file cannot be opened, or not be written to the end; the error is the
\* answer, and the page goes on.
WriteFails(p) ==
  /\ \/ PostAt(p, "parsed", "free") /\ UNCHANGED file
     \/ PostAt(p, "writing", "free") /\ file' \in {file, Torn}
  /\ UNCHANGED <<pages, edits, crashes>>

\* The server dies: every page that waits is told of an error.
ServerDies ==
  /\ crashes < MaxCrashes
  /\ crashes' = crashes + 1
  /\ at' = [p \in Pages |-> "free"]
  /\ UNCHANGED <<file, pages, edits>>

Next ==
  \/ \E p \in Pages :
       \/ LoadPage(p) \/ DisplayZoneConfigTable(p) \/ DoneButtonClick(p)
       \/ EditField(p) \/ SaveButtonClick(p)
       \/ CheckPost(p) \/ TruncateFile(p) \/ WriteFile(p) \/ WriteFails(p)
  \/ ServerDies

Spec == Init /\ [][Next]_vars
-----------------------------------------------------------------------------
(***************************************************************************)
(* Properties                                                              *)
(***************************************************************************)
ConfigOrNone == Config \cup {NoConf}

TypeOK ==
  /\ file \in Config \cup Unreadable
  /\ globalConf \in [Pages -> ConfigOrNone]
  /\ form \in [Pages -> ConfigOrNone]
  /\ commonShown \in [Pages -> Commons \cup {NoConf}]
  /\ algorithm \in [Pages -> Seq(Int)]
  /\ saveEnabled \in [Pages -> BOOLEAN]
  /\ at \in [Pages -> {"free", "posted", "parsed", "writing"}]
  /\ edits \in 0..MaxEdits /\ crashes \in 0..MaxCrashes

\* The control loop never reads settings Parse would refuse, or part of a
\* configuration: what it can read is whole and was accepted, whoever posts
\* at the same time and whenever the server dies (server.go:182-193,
\* control.go:385).
OnlyAcceptedInForce == file \notin Unreadable => ParseOK(file)

\* A page whose copy is what the file holds sends, of zones and ranges, what
\* the file holds but for the fields its user has changed in the form shown,
\* however often it has saved before.  Ranges lose the fraction and become
\* 999 where they have no bound, unless one was entered on this page; those
\* without fields are sent as they are (tables.js:365-403).
SaveChangesOnlyEdits ==
  [][\A p \in Pages :
       globalConf[p] = file /\ at[p] = "free" /\ at'[p] = "posted" =>
         LET sent == globalConf'[p]
         IN  /\ \A k \in Keys :
                  <<"zones", k>> \in edited[p] \/ sent.zones[k] = file.zones[k]
             /\ DOMAIN sent.ranges = DOMAIN file.ranges
             /\ \A k \in DOMAIN file.ranges :
                  \/ <<"ranges", k>> \in edited[p]
                  \/ IF k <= AlgorithmSlots
                     THEN sent.ranges[k] \in {WholeDegrees(file.ranges[k]),
                                              WholeDegrees(Clamped(file.ranges[k]))}
                     ELSE sent.ranges[k] = file.ranges[k]]_vars

\* The one thing that keeps a page from saving is a range with a zero, or
\* fewer ranges than the form has slots, in the configuration it has read
\* (server.js:112-125, tables.js:388-391).
SaveFailsOnlyForZero ==
  \A p \in Pages :
    form[p] # NoConf /\ RangesMissing(p) =>
      \/ Contains(globalConf[p].ranges, 0)
      \/ Len(globalConf[p].ranges) < AlgorithmSlots
=============================================================================
