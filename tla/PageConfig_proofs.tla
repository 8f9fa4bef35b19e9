-------------------------- MODULE PageConfig_proofs --------------------------
(***************************************************************************)
(* For any pages, configurations, edits and deaths of the server, the file *)
(* holds nothing Parse would refuse.                                       *)
(***************************************************************************)
EXTENDS PageConfig, SequenceTheorems, WellFoundedInduction, TLAPS

\* What passed the check is what will be written: a page changes nothing of
\* its copy until its post is answered.
CheckedInv ==
  /\ OnlyAcceptedInForce
  /\ at \in [Pages -> {"free", "posted", "parsed", "writing"}]
  /\ DOMAIN globalConf = Pages
  /\ \A p \in Pages : at[p] \in {"parsed", "writing"} => ParseOK(globalConf[p])

LEMMA CheckedInit == Init => CheckedInv
<1> SUFFICES ASSUME Init PROVE CheckedInv
  OBVIOUS
<1>1. ParseOK(file)
  BY DEF Init
<1>2. /\ at = [p \in Pages |-> "free"] /\ globalConf = [p \in Pages |-> NoConf]
  BY DEF Init
<1> QED BY <1>1, <1>2 DEF CheckedInv, OnlyAcceptedInForce

\* What is free goes no further than being posted, and only what is free
\* changes its copy.
LEMMA FreeStep ==
  ASSUME CheckedInv, NEW p \in Pages, at[p] = "free", UNCHANGED file,
         \/ UNCHANGED globalConf
         \/ \E c : globalConf' = [globalConf EXCEPT ![p] = c],
         at' = at \/ at' = [at EXCEPT ![p] = "posted"]
  PROVE  CheckedInv'
<1>1. OnlyAcceptedInForce'
  BY DEF CheckedInv, OnlyAcceptedInForce, ParseOK
<1>2. /\ at' \in [Pages -> {"free", "posted", "parsed", "writing"}]
      /\ at'[p] \in {"free", "posted"}
      /\ \A q \in Pages \ {p} : at'[q] = at[q]
  BY DEF CheckedInv
<1>3. DOMAIN globalConf' = Pages /\ \A q \in Pages \ {p} : globalConf'[q] = globalConf[q]
  BY DEF CheckedInv
<1>4. ASSUME NEW q \in Pages, at'[q] \in {"parsed", "writing"}
      PROVE  ParseOK(globalConf'[q])
  <2>1. q # p
    BY <1>2, <1>4
  <2>2. at[q] \in {"parsed", "writing"} /\ globalConf'[q] = globalConf[q]
    BY <1>2, <1>3, <1>4, <2>1
  <2> QED BY <2>2 DEF CheckedInv
<1> QED BY <1>1, <1>2, <1>3, <1>4 DEF CheckedInv, ParseOK

LEMMA CheckedStep == CheckedInv /\ [Next]_vars => CheckedInv'
<1> SUFFICES ASSUME CheckedInv, [Next]_vars PROVE CheckedInv'
  OBVIOUS
<1>1. CASE UNCHANGED vars
  BY <1>1 DEF vars, pages, CheckedInv, OnlyAcceptedInForce, ParseOK, Unreadable
<1>2. ASSUME NEW p \in Pages, LoadPage(p) PROVE CheckedInv'
  <2>1. \E c : globalConf' = [globalConf EXCEPT ![p] = c]
    BY <1>2 DEF LoadPage
  <2>2. at[p] = "free" /\ UNCHANGED <<file, at>>
    BY <1>2 DEF LoadPage, Free
  <2> QED BY <2>1, <2>2, FreeStep
<1>3. ASSUME NEW p \in Pages,
             DisplayZoneConfigTable(p) \/ DoneButtonClick(p) \/ EditField(p)
      PROVE  CheckedInv'
  <2>1. at[p] = "free" /\ UNCHANGED <<file, at, globalConf>>
    BY <1>3 DEF DisplayZoneConfigTable, DoneButtonClick, EditField, Free
  <2> QED BY <2>1, FreeStep
<1>4. ASSUME NEW p \in Pages, SaveButtonClick(p) PROVE CheckedInv'
  <2>1. \E c : globalConf' = [globalConf EXCEPT ![p] = c]
    BY <1>4 DEF SaveButtonClick
  <2>2. /\ at[p] = "free" /\ UNCHANGED file
        /\ at' = at \/ at' = [at EXCEPT ![p] = "posted"]
    BY <1>4 DEF SaveButtonClick, Free
  <2> QED BY <2>1, <2>2, FreeStep
<1>5. ASSUME NEW p \in Pages, CheckPost(p) PROVE CheckedInv'
  <2>1. UNCHANGED <<file, globalConf>>
    BY <1>5 DEF CheckPost, pages
  <2>2. /\ at' \in [Pages -> {"free", "posted", "parsed", "writing"}]
        /\ \A q \in Pages \ {p} : at'[q] = at[q]
        /\ at'[p] = IF ParseOK(globalConf[p]) THEN "parsed" ELSE "free"
    BY <1>5 DEF CheckPost, PostAt, CheckedInv
  <2> QED BY <2>1, <2>2 DEF CheckedInv, OnlyAcceptedInForce, ParseOK
<1>6. ASSUME NEW p \in Pages, TruncateFile(p) PROVE CheckedInv'
  <2>1. file' = Empty /\ UNCHANGED globalConf
    BY <1>6 DEF TruncateFile, pages
  <2>2. /\ at' \in [Pages -> {"free", "posted", "parsed", "writing"}]
        /\ \A q \in Pages \ {p} : at'[q] = at[q]
        /\ at[p] = "parsed"
    BY <1>6 DEF TruncateFile, PostAt, CheckedInv
  <2> QED BY <2>1, <2>2 DEF CheckedInv, OnlyAcceptedInForce, ParseOK, Unreadable
<1>7. ASSUME NEW p \in Pages, WriteFile(p) PROVE CheckedInv'
  <2>1. file' \in {globalConf[p], Torn} /\ UNCHANGED globalConf
    BY <1>7 DEF WriteFile, pages
  <2>2. /\ at' \in [Pages -> {"free", "posted", "parsed", "writing"}]
        /\ \A q \in Pages \ {p} : at'[q] = at[q]
        /\ at[p] = "writing" /\ at'[p] = "free"
    BY <1>7 DEF WriteFile, PostAt, CheckedInv
  <2>3. ParseOK(globalConf[p])
    BY <2>2 DEF CheckedInv
  <2>4. OnlyAcceptedInForce'
    BY <2>1, <2>3 DEF OnlyAcceptedInForce, ParseOK, Unreadable
  <2> QED BY <2>1, <2>2, <2>4 DEF CheckedInv, ParseOK
<1>8. CASE ServerDies
  BY <1>8 DEF ServerDies, pages, CheckedInv, OnlyAcceptedInForce, ParseOK, Unreadable
<1>9. ASSUME NEW p \in Pages, WriteFails(p) PROVE CheckedInv'
  <2>1. file' \in {file, Torn} /\ UNCHANGED globalConf
    BY <1>9 DEF WriteFails, pages
  <2>2. /\ at' \in [Pages -> {"free", "posted", "parsed", "writing"}]
        /\ \A q \in Pages \ {p} : at'[q] = at[q]
        /\ at'[p] = "free"
    BY <1>9 DEF WriteFails, PostAt, CheckedInv
  <2> QED BY <2>1, <2>2 DEF CheckedInv, OnlyAcceptedInForce, ParseOK, Unreadable
<1> QED BY <1>1, <1>2, <1>3, <1>4, <1>5, <1>6, <1>7, <1>8, <1>9 DEF Next

\* Whoever posts at the same time and whenever the server dies, what the
\* control loop can read was accepted by Parse (server.go:173-200).
THEOREM FileIsAccepted == Spec => []OnlyAcceptedInForce
<1>1. CheckedInv => OnlyAcceptedInForce
  BY DEF CheckedInv
<1> QED BY <1>1, CheckedInit, CheckedStep, PTL DEF Spec
-----------------------------------------------------------------------------
(***************************************************************************)
(* Numbers and sequences                                                   *)
(***************************************************************************)
LEMMA LeastOf ==
  ASSUME NEW I, I \subseteq Nat, I # {}
  PROVE  Min(I) \in I
<1>1. PICK x \in I : \A y \in I : ~(<<y, x>> \in OpToRel(<, Nat))
  BY WFMin, NatLessThanWellFounded
<1>2. ASSUME NEW y \in I PROVE x <= y
  <2>1. ~(<<y, x>> \in {ss \in Nat \X Nat : ss[1] < ss[2]})
    BY <1>1 DEF OpToRel
  <2>2. x \in Nat /\ y \in Nat
    OBVIOUS
  <2>3. ~(y < x)
    BY <2>1, <2>2
  <2> QED BY <2>2, <2>3
<1> QED BY <1>2 DEF Min

LEMMA ClampedIsInt == \A x \in Int : Clamped(x) \in Int
<1>1. ASSUME NEW x \in Int, NEW y \in Int
      PROVE  Min({x, y}) \in Int /\ Max({x, y}) \in Int
  <2>1. \E z \in {x, y} : \A w \in {x, y} : z <= w
    OBVIOUS
  <2>2. \E z \in {x, y} : \A w \in {x, y} : z >= w
    OBVIOUS
  <2> QED BY <2>1, <2>2 DEF Min, Max
<1>2. Unbounded \in Int /\ -Unbounded \in Int
  BY DEF Unbounded
<1>3. ASSUME NEW x \in Int PROVE Clamped(x) \in Int
  <2>1. Min({Unbounded, x}) \in Int
    BY <1>1, <1>2
  <2>2. Max({-Unbounded, Min({Unbounded, x})}) \in Int
    BY <1>1, <1>2, <2>1
  <2> QED BY <2>2 DEF Clamped
<1> QED BY <1>3

\* The fraction is dropped once.
LEMMA WholeDegreesProperties ==
  \A x \in Int : WholeDegrees(x) \in Int /\ WholeDegrees(WholeDegrees(x)) = WholeDegrees(x)
BY DEF WholeDegrees

LEMMA FunctionIsSeq ==
  ASSUME NEW S, NEW n \in Nat, NEW f \in [1..n -> S]
  PROVE  f \in Seq(S) /\ Len(f) = n
<1>1. f \in Seq(S)
  BY SeqDef
<1>2. DOMAIN f = 1..Len(f) /\ Len(f) \in Nat
  BY <1>1, LenProperties
<1>3. 1..Len(f) = 1..n
  BY <1>2
<1>4. Len(f) = n
  BY <1>2, <1>3
<1> QED BY <1>1, <1>4

\* What parseAlgorithm reads: the ranges there are, up to the first with a
\* zero.
LEMMA ParsedRangesProperties ==
  ASSUME NEW rs \in Seq(Int)
  PROVE  /\ ParsedRanges(rs) \in Seq(Int)
         /\ \/ Len(ParsedRanges(rs)) = Len(rs)
            \/ /\ Len(ParsedRanges(rs)) < Len(rs)
               /\ rs[Len(ParsedRanges(rs)) + 1] = 0
         /\ \A k \in 1..Len(ParsedRanges(rs)) : ParsedRanges(rs)[k] = Clamped(rs[k])
<1> DEFINE I == {i \in 1..Len(rs) : rs[i] = 0}
           zero == IF I # {} THEN Min(I) ELSE 0
           n == IF zero = 0 THEN Len(rs) ELSE zero - 1
<1>1. ParsedRanges(rs) = [k \in 1..n |-> Clamped(rs[k])]
  BY DEF ParsedRanges, SelectInSeq
<1>2. Len(rs) \in Nat /\ \A k \in 1..Len(rs) : rs[k] \in Int
  BY LenProperties
<1>3. zero = 0 \/ (zero \in 1..Len(rs) /\ rs[zero] = 0)
  <2>1. I \subseteq Nat
    BY <1>2
  <2>2. I # {} => Min(I) \in I
    BY <2>1, LeastOf
  <2> QED BY <2>2
<1> HIDE DEF zero
<1>4. n \in Nat /\ (n = Len(rs) \/ (n < Len(rs) /\ rs[n + 1] = 0))
  BY <1>2, <1>3
<1> HIDE DEF n
<1>5. ParsedRanges(rs) \in [1..n -> Int]
  <2>1. ASSUME NEW k \in 1..n PROVE Clamped(rs[k]) \in Int
    <3>1. k \in 1..Len(rs)
      BY <1>2, <1>4
    <3> QED BY <1>2, <3>1, ClampedIsInt
  <2> QED BY <1>1, <2>1
<1>6. ParsedRanges(rs) \in Seq(Int) /\ Len(ParsedRanges(rs)) = n
  BY <1>4, <1>5, FunctionIsSeq
<1> QED BY <1>1, <1>4, <1>6
-----------------------------------------------------------------------------
(***************************************************************************)
(* What a page keeps                                                       *)
(***************************************************************************)
\* What was read of the ranges ends where the copy does, or before a zero;
\* each is that of the copy, or its bound.
CopyInv(p) ==
  globalConf[p] # NoConf =>
    LET ranges == globalConf[p].ranges
        read   == Len(algorithm[p])
    IN  /\ commonShown[p] \in Commons
        /\ \/ read = Len(ranges)
           \/ read < Len(ranges) /\ ranges[read + 1] = 0
        /\ \A k \in 1..read :
             WholeDegrees(algorithm[p][k]) \in {WholeDegrees(ranges[k]), WholeDegrees(Clamped(ranges[k]))}

\* A form shown has a field for every range read, up to its slots; fields not
\* edited hold what the copy does.
FormInv(p) ==
  form[p] # NoConf =>
    LET fields == Len(form[p].ranges)
    IN  /\ globalConf[p] # NoConf
        /\ fields <= AlgorithmSlots /\ fields <= Len(algorithm[p])
        /\ fields = AlgorithmSlots \/ fields = Len(algorithm[p])
        /\ \A k \in Keys :
             <<"zones", k>> \in edited[p] \/ form[p].zones[k] = globalConf[p].zones[k]
        /\ \A k \in 1..fields :
             \/ <<"ranges", k>> \in edited[p]
             \/ WholeDegrees(form[p].ranges[k]) = WholeDegrees(algorithm[p][k])

\* What is posted is a copy.
PostInv(p) == at[p] # "free" => globalConf[p] # NoConf

PageInv(p) == CopyInv(p) /\ FormInv(p) /\ PostInv(p)
FormsInv == TypeOK /\ DOMAIN edited = Pages /\ \A p \in Pages : PageInv(p)

LEMMA FormsInvInit == Init => FormsInv
<1> SUFFICES ASSUME Init PROVE FormsInv
  OBVIOUS
<1>1. file \in Config
  BY ValueAssumption DEF Init, Config
<1>2. << >> \in Seq(Int)
  BY EmptySeq
<1>3. TypeOK
  BY <1>1, <1>2, ConfigBoundsAssumption DEF Init, TypeOK, ConfigOrNone
<1>4. DOMAIN edited = Pages /\ \A p \in Pages : PageInv(p)
  BY DEF Init, PageInv, CopyInv, FormInv, PostInv
<1> QED BY <1>3, <1>4 DEF FormsInv

\* What one page does leaves the others as they are.
LEMMA OnePage ==
  ASSUME FormsInv, NEW p \in Pages, TypeOK', PageInv(p)', DOMAIN edited' = Pages,
         \A q \in Pages \ {p} :
           /\ globalConf'[q] = globalConf[q] /\ commonShown'[q] = commonShown[q]
           /\ algorithm'[q] = algorithm[q] /\ form'[q] = form[q]
           /\ edited'[q] = edited[q] /\ (at'[q] # "free" => at[q] # "free")
  PROVE  FormsInv'
<1>1. ASSUME NEW q \in Pages, q # p PROVE PageInv(q)'
  <2>1. PageInv(q)
    BY DEF FormsInv
  <2>2. /\ globalConf'[q] = globalConf[q] /\ commonShown'[q] = commonShown[q]
        /\ algorithm'[q] = algorithm[q] /\ form'[q] = form[q]
        /\ edited'[q] = edited[q] /\ (at'[q] # "free" => at[q] # "free")
    BY <1>1
  <2> QED BY <2>1, <2>2 DEF PageInv, CopyInv, FormInv, PostInv
<1> QED BY <1>1 DEF FormsInv

\* Nor does the handler touch what the pages keep.
LEMMA PagesKept ==
  ASSUME FormsInv, TypeOK', UNCHANGED pages,
         \A p \in Pages : at'[p] # "free" => at[p] # "free"
  PROVE  FormsInv'
<1>1. ASSUME NEW p \in Pages PROVE PageInv(p)'
  <2>1. PageInv(p)
    BY DEF FormsInv
  <2>2. at'[p] # "free" => at[p] # "free"
    OBVIOUS
  <2>3. UNCHANGED <<globalConf, commonShown, algorithm, form, edited>>
    BY DEF pages
  <2> QED BY <2>1, <2>2, <2>3 DEF PageInv, CopyInv, FormInv, PostInv
<1>2. DOMAIN edited' = Pages
  BY DEF FormsInv, pages
<1> QED BY <1>1, <1>2 DEF FormsInv

LEMMA LoadPageForms ==
  ASSUME FormsInv, NEW p \in Pages, LoadPage(p)
  PROVE  FormsInv'
<1>0. TypeOK
  BY DEF FormsInv
<1>1. /\ at[p] = "free" /\ form' = [form EXCEPT ![p] = NoConf]
      /\ saveEnabled' = [saveEnabled EXCEPT ![p] = FALSE]
      /\ edited' = [edited EXCEPT ![p] = {}]
      /\ UNCHANGED <<file, at, edits, crashes>>
  BY DEF LoadPage, Free
<1>2. /\ form'[p] = NoConf /\ at'[p] = "free"
      /\ form' \in [Pages -> ConfigOrNone] /\ saveEnabled' \in [Pages -> BOOLEAN]
  BY <1>0, <1>1 DEF TypeOK, ConfigOrNone
<1>3. CASE file \in Unreadable
  <2>1. /\ globalConf' = [globalConf EXCEPT ![p] = NoConf]
        /\ commonShown' = [commonShown EXCEPT ![p] = NoConf]
        /\ algorithm' = [algorithm EXCEPT ![p] = << >>]
    BY <1>3 DEF LoadPage
  <2>2. << >> \in Seq(Int)
    BY EmptySeq
  <2>3. TypeOK'
    BY <1>0, <1>1, <1>2, <2>1, <2>2 DEF TypeOK, ConfigOrNone
  <2>4. globalConf'[p] = NoConf
    BY <1>0, <2>1 DEF TypeOK
  <2>5. PageInv(p)'
    BY <1>2, <2>4 DEF PageInv, CopyInv, FormInv, PostInv
  <2> QED BY <1>0, <1>1, <2>1, <2>3, <2>5, OnePage DEF TypeOK, FormsInv
<1>4. CASE file \notin Unreadable
  <2>1. /\ globalConf' = [globalConf EXCEPT ![p] = file]
        /\ commonShown' = [commonShown EXCEPT ![p] = file.common]
        /\ algorithm' = [algorithm EXCEPT ![p] = ParsedRanges(file.ranges)]
    BY <1>4 DEF LoadPage
  <2>2. file \in Config /\ file.common \in Commons /\ file.ranges \in Seq(Int)
    BY <1>0, <1>4 DEF TypeOK, Config
  <2>3. ParsedRanges(file.ranges) \in Seq(Int)
    BY <2>2, ParsedRangesProperties
  <2>4. TypeOK'
    BY <1>0, <1>1, <1>2, <2>1, <2>2, <2>3 DEF TypeOK, ConfigOrNone
  <2>5. /\ globalConf'[p] = file /\ commonShown'[p] = file.common
        /\ algorithm'[p] = ParsedRanges(file.ranges)
    BY <1>0, <2>1 DEF TypeOK
  <2>6. CopyInv(p)'
    <3> HIDE DEF ParsedRanges
    <3> QED BY <2>2, <2>5, ParsedRangesProperties DEF CopyInv
  <2>7. PageInv(p)'
    BY <1>2, <2>6 DEF PageInv, FormInv, PostInv
  <2> QED BY <1>0, <1>1, <2>1, <2>4, <2>7, OnePage DEF TypeOK, FormsInv
<1> QED BY <1>3, <1>4

LEMMA DisplayForms ==
  ASSUME FormsInv, NEW p \in Pages, DisplayZoneConfigTable(p)
  PROVE  FormsInv'
<1> DEFINE slots == Min({AlgorithmSlots, Len(algorithm[p])})
           shown == [zones  |-> globalConf[p].zones, common |-> commonShown[p],
                     ranges |-> SubSeq(algorithm[p], 1, slots)]
<1>0. TypeOK /\ CopyInv(p)
  BY DEF FormsInv, PageInv
<1>1. /\ at[p] = "free" /\ globalConf[p] # NoConf
      /\ form' = [form EXCEPT ![p] = shown]
      /\ saveEnabled' = [saveEnabled EXCEPT ![p] = FALSE]
      /\ edited' = [edited EXCEPT ![p] = {}]
      /\ UNCHANGED <<file, globalConf, commonShown, algorithm, at, edits, crashes>>
  BY DEF DisplayZoneConfigTable, Free
<1>2. /\ globalConf[p] \in Config /\ commonShown[p] \in Commons
      /\ algorithm[p] \in Seq(Int) /\ Len(algorithm[p]) \in Nat
  BY <1>0, <1>1, LenProperties DEF TypeOK, CopyInv, ConfigOrNone
<1>3. /\ slots \in Nat /\ slots <= AlgorithmSlots /\ slots <= Len(algorithm[p])
      /\ slots = AlgorithmSlots \/ slots = Len(algorithm[p])
  <2>1. \A x, y \in Int : Min({x, y}) = IF x <= y THEN x ELSE y
    BY DEF Min
  <2> QED BY <1>2, <2>1, ConfigBoundsAssumption
<1>4. /\ SubSeq(algorithm[p], 1, slots) \in Seq(Int)
      /\ Len(SubSeq(algorithm[p], 1, slots)) = slots
      /\ \A k \in 1..slots : SubSeq(algorithm[p], 1, slots)[k] = algorithm[p][k]
  <2> HIDE DEF slots
  <2>1. \A k \in 1..slots : algorithm[p][k] \in Int
    <3>1. \A k \in 1..slots : k \in 1..Len(algorithm[p])
      BY <1>2, <1>3
    <3> QED BY <1>2, <3>1, ElementOfSeq
  <2> QED BY <1>3, <2>1, SubSeqProperties
<1>5. shown \in Config
  BY <1>2, <1>4 DEF Config
<1>6. TypeOK'
  BY <1>0, <1>1, <1>5 DEF TypeOK, ConfigOrNone
<1>7. form'[p] = shown
  BY <1>0, <1>1 DEF TypeOK
<1>8. FormInv(p)'
  <2> HIDE DEF slots
  <2>0. shown.zones = globalConf[p].zones /\ shown.ranges = SubSeq(algorithm[p], 1, slots)
    OBVIOUS
  <2>1. /\ form'[p].zones = globalConf'[p].zones
        /\ form'[p].ranges = SubSeq(algorithm[p], 1, slots)
    <3> HIDE DEF shown
    <3> QED BY <1>1, <1>7, <2>0
  <2> HIDE DEF shown
  <2> QED BY <1>1, <1>3, <1>4, <2>1 DEF FormInv
<1>9. PageInv(p)'
  BY <1>0, <1>1, <1>8 DEF PageInv, CopyInv, PostInv
<1> HIDE DEF shown
<1> QED BY <1>0, <1>1, <1>6, <1>9, OnePage DEF TypeOK, FormsInv

LEMMA DoneForms ==
  ASSUME FormsInv, NEW p \in Pages, DoneButtonClick(p)
  PROVE  FormsInv'
<1>0. TypeOK /\ PageInv(p)
  BY DEF FormsInv
<1>1. /\ form' = [form EXCEPT ![p] = NoConf]
      /\ edited' = [edited EXCEPT ![p] = {}]
      /\ UNCHANGED <<file, globalConf, commonShown, algorithm, saveEnabled, at, edits, crashes>>
  BY DEF DoneButtonClick
<1>2. TypeOK'
  BY <1>0, <1>1 DEF TypeOK, ConfigOrNone
<1>3. form'[p] = NoConf
  BY <1>0, <1>1 DEF TypeOK
<1>4. PageInv(p)'
  BY <1>0, <1>1, <1>3 DEF PageInv, CopyInv, FormInv, PostInv
<1> QED BY <1>0, <1>1, <1>2, <1>4, OnePage DEF TypeOK, FormsInv

\* The form new differs from the one shown in the field f at most.
DiffersIn(f, new, p) ==
  /\ Len(new.ranges) = Len(form[p].ranges)
  /\ \A k \in Keys : f = <<"zones", k>> \/ new.zones[k] = form[p].zones[k]
  /\ \A k \in 1..Len(form[p].ranges) :
       f = <<"ranges", k>> \/ new.ranges[k] = form[p].ranges[k]

\* A field is edited and remembered as such.
LEMMA EditedForm ==
  ASSUME FormsInv, NEW p \in Pages, form[p] # NoConf, NEW new \in Config, NEW f,
         form' = [form EXCEPT ![p] = new],
         edited' = [edited EXCEPT ![p] = @ \cup {f}],
         saveEnabled' = [saveEnabled EXCEPT ![p] = TRUE],
         edits' \in 0..MaxEdits,
         UNCHANGED <<file, globalConf, commonShown, algorithm, at, crashes>>,
         DiffersIn(f, new, p)
  PROVE  FormsInv'
<1>0. TypeOK /\ DOMAIN edited = Pages /\ PageInv(p)
  BY DEF FormsInv
<1>1. TypeOK'
  BY <1>0 DEF TypeOK, ConfigOrNone
<1>2. form'[p] = new /\ edited'[p] = edited[p] \cup {f}
  BY <1>0 DEF TypeOK
<1>3. FormInv(p)'
  BY <1>0, <1>2 DEF PageInv, FormInv, DiffersIn
<1>4. PageInv(p)'
  BY <1>0, <1>3 DEF PageInv, CopyInv, PostInv
<1> QED BY <1>0, <1>1, <1>4, OnePage DEF TypeOK

LEMMA EditForms ==
  ASSUME FormsInv, NEW p \in Pages, EditField(p)
  PROVE  FormsInv'
<1>0. /\ TypeOK /\ form[p] # NoConf /\ form[p] \in Config
      /\ form[p].zones \in [Keys -> Settings] /\ form[p].ranges \in Seq(Int)
  BY DEF FormsInv, TypeOK, EditField, ConfigOrNone, Config
<1>1. PICK f \in Fields(p) :
        /\ \/ /\ f[1] = "zones"
              /\ \E v \in Settings : form' = [form EXCEPT ![p].zones[f[2]] = v]
           \/ /\ f[1] = "common"
              /\ \E v \in Commons : form' = [form EXCEPT ![p].common = v]
           \/ /\ f[1] = "ranges"
              /\ \E v \in RangeInputs : form' = [form EXCEPT ![p].ranges[f[2]] = v]
        /\ edited' = [edited EXCEPT ![p] = @ \cup {f}]
  BY DEF EditField
<1>2. /\ saveEnabled' = [saveEnabled EXCEPT ![p] = TRUE]
      /\ edits' \in 0..MaxEdits
      /\ UNCHANGED <<file, globalConf, commonShown, algorithm, at, crashes>>
  BY <1>0, ConfigBoundsAssumption DEF EditField, TypeOK
<1>3. ASSUME NEW k \in Keys, f = <<"zones", k>>, NEW v \in Settings,
             form' = [form EXCEPT ![p].zones[f[2]] = v]
      PROVE  FormsInv'
  <2> DEFINE new == [form[p] EXCEPT !.zones = [form[p].zones EXCEPT ![k] = v]]
  <2>1. form' = [form EXCEPT ![p] = new]
    BY <1>3
  <2>2. /\ new \in Config /\ new.ranges = form[p].ranges
        /\ \A j \in Keys : j # k => new.zones[j] = form[p].zones[j]
    BY <1>0 DEF Config
  <2> HIDE DEF new
  <2>3. DiffersIn(f, new, p)
    BY <1>3, <2>2 DEF DiffersIn
  <2> QED BY <1>0, <1>1, <1>2, <2>1, <2>2, <2>3, EditedForm
<1>4. ASSUME f = <<"common">>, NEW v \in Commons, form' = [form EXCEPT ![p].common = v]
      PROVE  FormsInv'
  <2> DEFINE new == [form[p] EXCEPT !.common = v]
  <2>1. form' = [form EXCEPT ![p] = new]
    BY <1>4
  <2>2. new \in Config /\ new.ranges = form[p].ranges /\ new.zones = form[p].zones
    BY <1>0 DEF Config
  <2> HIDE DEF new
  <2>3. DiffersIn(f, new, p)
    BY <2>2 DEF DiffersIn
  <2> QED BY <1>0, <1>1, <1>2, <2>1, <2>2, <2>3, EditedForm
<1>5. ASSUME NEW k \in DOMAIN form[p].ranges, f = <<"ranges", k>>, NEW v \in RangeInputs,
             form' = [form EXCEPT ![p].ranges[f[2]] = v]
      PROVE  FormsInv'
  <2> DEFINE ranges == [form[p].ranges EXCEPT ![k] = v]
             new == [form[p] EXCEPT !.ranges = ranges]
  <2>1. form' = [form EXCEPT ![p] = new]
    BY <1>5
  <2>2. /\ ranges \in Seq(Int) /\ Len(ranges) = Len(form[p].ranges)
        /\ \A j \in 1..Len(form[p].ranges) : j # k => ranges[j] = form[p].ranges[j]
    <3>1. k \in 1..Len(form[p].ranges) /\ v \in Int
      BY <1>0, <1>5, LenProperties, ValueAssumption
    <3> QED BY <1>0, <3>1, ExceptSeq
  <2> HIDE DEF ranges
  <2>3. new \in Config /\ new.ranges = ranges /\ new.zones = form[p].zones
    BY <1>0, <2>2 DEF Config
  <2> HIDE DEF new
  <2>4. DiffersIn(f, new, p)
    BY <1>5, <2>2, <2>3 DEF DiffersIn
  <2> QED BY <1>0, <1>1, <1>2, <2>1, <2>3, <2>4, EditedForm
<1>6. \/ \E k \in Keys : f = <<"zones", k>>
      \/ f = <<"common">>
      \/ \E k \in DOMAIN form[p].ranges : f = <<"ranges", k>>
  BY DEF Fields
<1> QED BY <1>1, <1>3, <1>4, <1>5, <1>6

\* A save makes the page's copies what the form says, of what has fields.
LEMMA SaveForms ==
  ASSUME FormsInv, NEW p \in Pages, SaveButtonClick(p)
  PROVE  FormsInv'
<1> DEFINE conf == [zones |-> CopiedZones(p), common |-> form[p].common,
                    ranges |-> CopiedRanges(p)]
           fields == Len(form[p].ranges)
           read == Len(algorithm[p])
           size == Len(globalConf[p].ranges)
<1>0. TypeOK /\ DOMAIN edited = Pages /\ CopyInv(p) /\ FormInv(p)
  BY DEF FormsInv, PageInv
<1>1. /\ at[p] = "free" /\ form[p] # NoConf
      /\ globalConf' = [globalConf EXCEPT ![p] = conf]
      /\ algorithm' = [algorithm EXCEPT ![p] = CopiedAlgorithm(p)]
      /\ UNCHANGED <<file, commonShown, form, edited, edits, crashes>>
  BY DEF SaveButtonClick, Free
<1>2. /\ at' \in [Pages -> {"free", "posted", "parsed", "writing"}]
      /\ saveEnabled' \in [Pages -> BOOLEAN]
      /\ \A q \in Pages \ {p} : at'[q] = at[q]
  BY <1>0 DEF SaveButtonClick, TypeOK
<1>3. /\ form[p] \in Config /\ globalConf[p] \in Config /\ globalConf[p] # NoConf
      /\ form[p].ranges \in Seq(Int) /\ globalConf[p].ranges \in Seq(Int)
      /\ algorithm[p] \in Seq(Int)
  BY <1>0, <1>1 DEF TypeOK, ConfigOrNone, FormInv, Config
<1>4. /\ fields \in Nat /\ read \in Nat /\ size \in Nat
      /\ fields <= read /\ read <= size
      /\ DOMAIN form[p].ranges = 1..fields /\ DOMAIN algorithm[p] = 1..read
      /\ DOMAIN globalConf[p].ranges = 1..size
  BY <1>0, <1>1, <1>3, LenProperties DEF FormInv, CopyInv
<1>5. /\ \A k \in 1..fields : WholeDegrees(form[p].ranges[k]) \in Int
      /\ \A k \in 1..read : algorithm[p][k] \in Int
      /\ \A k \in 1..size : globalConf[p].ranges[k] \in Int
  BY <1>3, ElementOfSeq, WholeDegreesProperties
<1>6. /\ CopiedRanges(p) = [k \in 1..size |->
           IF k \in 1..fields THEN WholeDegrees(form[p].ranges[k]) ELSE globalConf[p].ranges[k]]
      /\ CopiedAlgorithm(p) = [k \in 1..read |->
           IF k \in 1..fields THEN WholeDegrees(form[p].ranges[k]) ELSE algorithm[p][k]]
  BY <1>4, Zenon DEF CopiedRanges, CopiedAlgorithm
<1>7. CopiedRanges(p) \in [1..size -> Int] /\ CopiedAlgorithm(p) \in [1..read -> Int]
  BY <1>5, <1>6
<1>8. /\ CopiedRanges(p) \in Seq(Int) /\ Len(CopiedRanges(p)) = size
      /\ CopiedAlgorithm(p) \in Seq(Int) /\ Len(CopiedAlgorithm(p)) = read
  BY <1>4, <1>7, FunctionIsSeq
<1>9. conf \in Config /\ conf # NoConf
  <2>1. conf \in Config
    BY <1>3, <1>8 DEF Config, CopiedZones
  <2> QED BY <2>1, NoConfAssumption
<1>10. TypeOK'
  BY <1>0, <1>1, <1>2, <1>8, <1>9 DEF TypeOK, ConfigOrNone
<1>11. /\ globalConf'[p] = conf /\ algorithm'[p] = CopiedAlgorithm(p)
       /\ form'[p] = form[p] /\ edited'[p] = edited[p] /\ commonShown'[p] = commonShown[p]
  BY <1>0, <1>1 DEF TypeOK
<1>12. conf.zones = form[p].zones /\ conf.ranges = CopiedRanges(p)
  BY DEF CopiedZones
<1> HIDE DEF conf
<1>13. CopyInv(p)'
  <2>1. commonShown'[p] \in Commons
    BY <1>0, <1>3, <1>11 DEF CopyInv
  <2>2. read = size \/ (read < size /\ CopiedRanges(p)[read + 1] = 0)
    BY <1>0, <1>3, <1>4, <1>6 DEF CopyInv
  <2>3. ASSUME NEW k \in 1..read
        PROVE  WholeDegrees(CopiedAlgorithm(p)[k]) \in
                 {WholeDegrees(CopiedRanges(p)[k]), WholeDegrees(Clamped(CopiedRanges(p)[k]))}
    <3>1. k \in 1..size
      BY <1>4
    <3>2. CASE k \in 1..fields
      BY <1>6, <3>1, <3>2
    <3>3. CASE k \notin 1..fields
      <4>1. CopiedAlgorithm(p)[k] = algorithm[p][k] /\ CopiedRanges(p)[k] = globalConf[p].ranges[k]
        BY <1>6, <3>1, <3>3
      <4> QED BY <1>0, <1>3, <4>1 DEF CopyInv
    <3> QED BY <3>2, <3>3
  <2> QED BY <1>8, <1>11, <1>12, <2>1, <2>2, <2>3 DEF CopyInv
<1>14. FormInv(p)'
  <2>1. /\ globalConf'[p] # NoConf /\ form'[p].zones = globalConf'[p].zones
        /\ Len(algorithm'[p]) = read
    BY <1>8, <1>9, <1>11, <1>12
  <2>2. ASSUME NEW k \in 1..fields
        PROVE  WholeDegrees(form'[p].ranges[k]) = WholeDegrees(algorithm'[p][k])
    <3>1. algorithm'[p][k] = WholeDegrees(form[p].ranges[k]) /\ form[p].ranges[k] \in Int
      BY <1>3, <1>4, <1>6, <1>11, ElementOfSeq
    <3> QED BY <1>11, <3>1, WholeDegreesProperties
  <2> QED BY <1>0, <1>1, <1>11, <2>1, <2>2 DEF FormInv
<1>15. PageInv(p)'
  BY <1>9, <1>11, <1>13, <1>14 DEF PageInv, PostInv
<1>16. \A q \in Pages \ {p} : globalConf'[q] = globalConf[q] /\ algorithm'[q] = algorithm[q]
  BY <1>0, <1>1 DEF TypeOK
<1> QED BY <1>0, <1>1, <1>2, <1>10, <1>15, <1>16, OnePage

\* The handler writes what was posted, which is a configuration.
LEMMA HandlerForms ==
  ASSUME FormsInv, NEW p \in Pages,
         CheckPost(p) \/ TruncateFile(p) \/ WriteFile(p) \/ WriteFails(p)
  PROVE  FormsInv'
<1>0. TypeOK /\ PostInv(p)
  BY DEF FormsInv, PageInv
<1>1. /\ at[p] # "free" /\ UNCHANGED <<pages, edits, crashes>>
      /\ \E to \in {"free", "parsed", "writing"} : at' = [at EXCEPT ![p] = to]
  BY DEF CheckPost, TruncateFile, WriteFile, WriteFails, PostAt
<1>2. globalConf[p] \in Config
  BY <1>0, <1>1 DEF PostInv, TypeOK, ConfigOrNone
<1>3. file' \in Config \cup Unreadable
  BY <1>0, <1>2 DEF TypeOK, CheckPost, TruncateFile, WriteFile, WriteFails, Unreadable
<1>4. /\ at' \in [Pages -> {"free", "posted", "parsed", "writing"}]
      /\ \A q \in Pages : at'[q] # "free" => at[q] # "free"
  BY <1>0, <1>1 DEF TypeOK
<1>5. TypeOK'
  BY <1>0, <1>1, <1>3, <1>4 DEF TypeOK, pages
<1> QED BY <1>1, <1>4, <1>5, PagesKept

LEMMA ServerDiesForms == ASSUME FormsInv, ServerDies PROVE FormsInv'
<1>1. TypeOK' /\ UNCHANGED pages /\ \A p \in Pages : at'[p] = "free"
  BY ConfigBoundsAssumption DEF FormsInv, TypeOK, ServerDies, pages
<1> QED BY <1>1, PagesKept

LEMMA FormsInvStep == FormsInv /\ [Next]_vars => FormsInv'
<1> SUFFICES ASSUME FormsInv, [Next]_vars PROVE FormsInv'
  OBVIOUS
<1>1. CASE UNCHANGED vars
  <2>1. TypeOK' /\ UNCHANGED <<pages, at>>
    BY <1>1 DEF vars, pages, FormsInv, TypeOK
  <2> QED BY <2>1, PagesKept
<1>2. ASSUME NEW p \in Pages, LoadPage(p) PROVE FormsInv'
  BY <1>2, LoadPageForms
<1>3. ASSUME NEW p \in Pages, DisplayZoneConfigTable(p) PROVE FormsInv'
  BY <1>3, DisplayForms
<1>4. ASSUME NEW p \in Pages, DoneButtonClick(p) PROVE FormsInv'
  BY <1>4, DoneForms
<1>5. ASSUME NEW p \in Pages, EditField(p) PROVE FormsInv'
  BY <1>5, EditForms
<1>6. ASSUME NEW p \in Pages, SaveButtonClick(p) PROVE FormsInv'
  BY <1>6, SaveForms
<1>7. ASSUME NEW p \in Pages,
             CheckPost(p) \/ TruncateFile(p) \/ WriteFile(p) \/ WriteFails(p)
      PROVE  FormsInv'
  BY <1>7, HandlerForms
<1>8. CASE ServerDies
  BY <1>8, ServerDiesForms
<1> QED BY <1>1, <1>2, <1>3, <1>4, <1>5, <1>6, <1>7, <1>8 DEF Next

LEMMA FormsInvariance == Spec => []FormsInv
BY FormsInvInit, FormsInvStep, PTL DEF Spec
-----------------------------------------------------------------------------
(***************************************************************************)
(* What pages do to the configuration                                      *)
(***************************************************************************)
\* Whoever loads, edits and saves, in whatever order, every copy, every form
\* and every file that can be read is a whole configuration (tables.js:365-403,
\* server.go:173-200): no row of the table is taken for a zone there is not.
THEOREM CopiesAreWhole == Spec => []TypeOK
<1>1. FormsInv => TypeOK
  BY DEF FormsInv
<1> QED BY <1>1, FormsInvariance, PTL

\* A page that cannot save has read a range with a zero, or fewer ranges than
\* its form has slots (server.js:112-125, tables.js:388-391); saving before,
\* or entering a zero, never makes one.
THEOREM OnlyZerosKeepFromSaving == Spec => []SaveFailsOnlyForZero
<1>1. ASSUME FormsInv, NEW p \in Pages, form[p] # NoConf, RangesMissing(p)
      PROVE  \/ Contains(globalConf[p].ranges, 0)
             \/ Len(globalConf[p].ranges) < AlgorithmSlots
  <2>1. FormInv(p) /\ CopyInv(p) /\ TypeOK
    BY <1>1 DEF FormsInv, PageInv
  <2>2. /\ globalConf[p].ranges \in Seq(Int) /\ algorithm[p] \in Seq(Int)
        /\ globalConf[p] # NoConf
    BY <1>1, <2>1 DEF TypeOK, FormInv, ConfigOrNone, Config
  <2>3. Len(algorithm[p]) < AlgorithmSlots
    BY <1>1, <2>1 DEF FormInv, RangesMissing
  <2>4. Len(algorithm[p]) \in Nat /\ Len(globalConf[p].ranges) \in Nat
    BY <2>2, LenProperties
  <2>5. CASE Len(algorithm[p]) = Len(globalConf[p].ranges)
    BY <2>3, <2>5
  <2>6. CASE /\ Len(algorithm[p]) < Len(globalConf[p].ranges)
             /\ globalConf[p].ranges[Len(algorithm[p]) + 1] = 0
    BY <2>4, <2>6 DEF Contains
  <2> QED BY <2>1, <2>2, <2>5, <2>6 DEF CopyInv
<1>2. FormsInv => SaveFailsOnlyForZero
  BY <1>1 DEF SaveFailsOnlyForZero
<1> QED BY <1>2, FormsInvariance, PTL

\* Of zones and ranges, a page whose copy is what the file holds changes only
\* what its user has edited in the form shown, however often it has saved
\* before and whatever ranges the file has (tables.js:365-403).
THEOREM OnlyEditsAreSaved == Spec => SaveChangesOnlyEdits
<1> DEFINE Kept(p) ==
             globalConf[p] = file /\ at[p] = "free" /\ at'[p] = "posted" =>
               LET sent == globalConf'[p]
               IN  /\ \A k \in Keys :
                        <<"zones", k>> \in edited[p] \/ sent.zones[k] = file.zones[k]
                   /\ DOMAIN sent.ranges = DOMAIN file.ranges
                   /\ \A k \in DOMAIN file.ranges :
                        \/ <<"ranges", k>> \in edited[p]
                        \/ IF k <= AlgorithmSlots
                           THEN sent.ranges[k] \in {WholeDegrees(file.ranges[k]),
                                                    WholeDegrees(Clamped(file.ranges[k]))}
                           ELSE sent.ranges[k] = file.ranges[k]
<1>1. ASSUME FormsInv, Next, NEW p \in Pages, at[p] = "free", at'[p] = "posted"
      PROVE  SaveButtonClick(p)
  <2>1. at \in [Pages -> {"free", "posted", "parsed", "writing"}]
    BY <1>1 DEF FormsInv, TypeOK
  <2>2. ASSUME NEW q \in Pages, SaveButtonClick(q) PROVE SaveButtonClick(p)
    BY <1>1, <2>1, <2>2 DEF SaveButtonClick
  <2>3. ASSUME NEW q \in Pages, \/ LoadPage(q) \/ DisplayZoneConfigTable(q)
                                \/ DoneButtonClick(q) \/ EditField(q)
        PROVE  FALSE
    BY <1>1, <2>3 DEF LoadPage, DisplayZoneConfigTable, DoneButtonClick, EditField
  <2>4. ASSUME NEW q \in Pages,
               CheckPost(q) \/ TruncateFile(q) \/ WriteFile(q) \/ WriteFails(q)
        PROVE  FALSE
    BY <1>1, <2>1, <2>4 DEF CheckPost, TruncateFile, WriteFile, WriteFails, PostAt
  <2>5. ~ServerDies
    BY <1>1 DEF ServerDies
  <2> QED BY <1>1, <2>2, <2>3, <2>4, <2>5 DEF Next
<1>2. ASSUME FormsInv, NEW p \in Pages, SaveButtonClick(p),
             globalConf[p] = file, at[p] = "free", at'[p] = "posted"
      PROVE  Kept(p)
  <2>1. TypeOK /\ CopyInv(p) /\ FormInv(p) /\ form[p] # NoConf
    BY <1>2 DEF FormsInv, PageInv, SaveButtonClick
  <2>2. globalConf'[p] = [zones |-> CopiedZones(p), common |-> form[p].common,
                          ranges |-> CopiedRanges(p)]
    BY <1>2, <2>1 DEF SaveButtonClick, TypeOK
  <2>3. ~RangesMissing(p)
    BY <1>2 DEF SaveButtonClick
  <2>4. /\ globalConf[p] # NoConf /\ form[p].ranges \in Seq(Int)
        /\ file.ranges \in Seq(Int) /\ algorithm[p] \in Seq(Int)
    BY <1>2, <2>1 DEF TypeOK, FormInv, ConfigOrNone, Config
  <2>5. /\ Len(form[p].ranges) = AlgorithmSlots
        /\ AlgorithmSlots <= Len(algorithm[p])
        /\ DOMAIN form[p].ranges = 1..AlgorithmSlots
        /\ DOMAIN file.ranges = 1..Len(file.ranges)
        /\ Len(file.ranges) \in Nat /\ Len(algorithm[p]) \in Nat
    BY <2>1, <2>3, <2>4, LenProperties, ConfigBoundsAssumption DEF FormInv, RangesMissing
  <2>6. globalConf'[p].zones = form[p].zones /\ globalConf'[p].ranges = CopiedRanges(p)
    BY <2>2 DEF CopiedZones
  <2>7. CopiedRanges(p) = [k \in 1..Len(file.ranges) |->
          IF k \in 1..AlgorithmSlots THEN WholeDegrees(form[p].ranges[k]) ELSE file.ranges[k]]
    BY <1>2, <2>5, Zenon DEF CopiedRanges
  <2>8. \A k \in Keys :
          <<"zones", k>> \in edited[p] \/ globalConf'[p].zones[k] = file.zones[k]
    BY <1>2, <2>1, <2>6 DEF FormInv
  <2>9. ASSUME NEW k \in 1..Len(file.ranges), <<"ranges", k>> \notin edited[p],
               k <= AlgorithmSlots
        PROVE  CopiedRanges(p)[k] \in {WholeDegrees(file.ranges[k]),
                                       WholeDegrees(Clamped(file.ranges[k]))}
    <3>1. k \in 1..AlgorithmSlots /\ k \in 1..Len(algorithm[p])
      BY <2>5, <2>9, ConfigBoundsAssumption
    <3>2. CopiedRanges(p)[k] = WholeDegrees(form[p].ranges[k])
      BY <2>7, <3>1
    <3>3. WholeDegrees(form[p].ranges[k]) = WholeDegrees(algorithm[p][k])
      BY <2>1, <2>5, <2>9, <3>1 DEF FormInv
    <3>4. WholeDegrees(algorithm[p][k]) \in {WholeDegrees(file.ranges[k]),
                                             WholeDegrees(Clamped(file.ranges[k]))}
      BY <1>2, <2>1, <2>4, <3>1 DEF CopyInv
    <3> QED BY <3>2, <3>3, <3>4
  <2>10. ASSUME NEW k \in 1..Len(file.ranges), ~(k <= AlgorithmSlots)
         PROVE  CopiedRanges(p)[k] = file.ranges[k]
    BY <2>7, <2>10
  <2>11. DOMAIN CopiedRanges(p) = DOMAIN file.ranges
    BY <2>5, <2>7
  <2> QED BY <2>5, <2>6, <2>8, <2>9, <2>10, <2>11
<1>3. ASSUME FormsInv, [Next]_vars, NEW p \in Pages PROVE Kept(p)
  <2>1. CASE Next /\ globalConf[p] = file /\ at[p] = "free" /\ at'[p] = "posted"
    BY <1>1, <1>2, <1>3, <2>1
  <2>2. CASE UNCHANGED vars
    BY <2>2 DEF vars
  <2> QED BY <1>3, <2>1, <2>2
<1>4. FormsInv /\ [Next]_vars => [\A p \in Pages : Kept(p)]_vars
  BY <1>3
<1> QED BY <1>4, FormsInvariance, PTL DEF Spec, SaveChangesOnlyEdits
=============================================================================
