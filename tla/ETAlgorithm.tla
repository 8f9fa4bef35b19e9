---------------------------- MODULE ETAlgorithm ----------------------------
(***************************************************************************)
(* The evapotranspiration arithmetic of control/alg.go, in integers.       *)
(* Units, chosen so that no multiplication of the code loses a digit:      *)
(*   VWC (Pct)          thousandths of a percent, 0..100000                *)
(*   precip             hundredths of an inch                              *)
(*   ZoneETRate         hundredths          growthFactor   tenths          *)
(*   RunTimeMultiplier  tenths              run times      tenths of a min *)
(*   DepthIn            inches              temperatures   degF            *)
(***************************************************************************)
EXTENDS Integers, Sequences

\* The limits verifyZoneConfig sets: 100%, an ET rate of 1.0, a run time
\* multiplier of 10.
FullPct       == 100000
FullETRate    == 100
MaxMultiplier == 100

\* What a zone's configuration contributes (type ZoneConfig of config.go).
Pct == 0..FullPct
ZoneConfig == [Number            : Nat,
               MinVWC            : Pct,
               MaxVWC            : Pct,
               ZoneETRate        : 1..FullETRate,
               DepthIn           : Nat \ {0},
               RunTimeMultiplier : 1..MaxMultiplier]

min(a, b) == IF a < b THEN a ELSE b
max(a, b) == IF a > b THEN a ELSE b

\* alg.go:19, in tenths: the season scales what the plants take.
growthFactor == <<5, 7, 10, 10, 10, 10, 10, 10, 10, 7, 7, 5>>
Months == 1..12

\* RangeMapper.GetY: the first range [X1, X2) that holds x gives the answer,
\* and a temperature outside every range removes nothing.
GetY(ranges, x) ==
  LET hits  == {i \in DOMAIN ranges :
                  ranges[i].X1 <= x /\ x < ranges[i].X2}
      first == {i \in hits : \A j \in hits : i <= j}
  IN  IF first = {} THEN 0 ELSE ranges[CHOOSE i \in first : TRUE].Y

\* One day's balance: rain added, evapotranspiration removed, clamped to
\* what the soil can hold.
CalculateVWC(etPctMap, currentVWC, tempF, precip, month, zconf) ==
  LET remove == GetY(etPctMap, tempF) * zconf.ZoneETRate * growthFactor[month]
      add    == precip * 1000
  IN  min(max(0, currentVWC + add - remove), zconf.MaxVWC)

\* The whole minutes (the conversion to time.Duration truncates) that lift
\* the zone from currentVWC to targetVWC, less the rain that is forecast:
\* 20 percent of VWC in 8 inches of soil take 10 minutes.
CalculateRuntime(currentVWC, targetVWC, forecastPrecip, zconf) ==
  (max(0, targetVWC - currentVWC - forecastPrecip * 1000) * zconf.DepthIn)
     \div 16000
=============================================================================
