-------------------------- MODULE AlgorithmProofs --------------------------
(***************************************************************************)
(* The elevation filter is honest about every run of altitudes, of any     *)
(* length and under any deadband; simplification keeps its tolerance for   *)
(* every run of points, whatever their distances; what a polling source    *)
(* tells its listeners is always of the session that is on; a replay waits *)
(* for a frame when it plays and only then; and ids sort as minted.  Of    *)
(* the demo built on all of it: its panels tell the truth of what is       *)
(* stored, and its loop keeps every event on the trip it was put on.  And  *)
(* a track is made right of any fixes, samples, channels and drafts.       *)
(***************************************************************************)
EXTENDS MCAlgorithms,
        FiniteSetTheorems, WellFoundedInduction, SequenceTheorems, TLAPS

TrendType ==
  [anchor : Int, direction : {"unknown", "up", "down"}, extreme : Int,
   highest : Int, lowest : Int]

ElevationTypes ==
  /\ trend \in TrendType
  /\ gain \in Int /\ loss \in Int
  /\ first \in Int /\ last \in Int
  /\ climbed \in Int /\ descended \in Int

(* The legs banked are of what was travelled, and lead from the first      *)
(* altitude to the anchor.                                                 *)
LegsBanked ==
  /\ 0 <= gain /\ 0 <= loss
  /\ gain - loss = trend.anchor - first
  /\ climbed - descended = last - first

(* Before a direction is found nothing is banked, and both extremes were   *)
(* travelled to.                                                           *)
NoDirection ==
  trend.direction = "unknown" =>
    /\ gain = 0 /\ loss = 0 /\ trend.anchor = first
    /\ ~Confirmed(trend.highest - first) /\ ~Confirmed(first - trend.lowest)
    /\ trend.lowest <= last /\ last <= trend.highest
    /\ trend.lowest <= first /\ first <= trend.highest
    /\ trend.highest - first <= climbed
    /\ first - trend.lowest <= descended

(* A leg in progress is not yet banked, and was travelled after the legs   *)
(* that are; the run stands less than a deadband short of its extreme.     *)
Ascending ==
  trend.direction = "up" =>
    /\ trend.anchor <= trend.extreme /\ last <= trend.extreme
    /\ ~Confirmed(trend.extreme - last)
    /\ gain + (trend.extreme - trend.anchor) <= climbed
    /\ loss + (trend.extreme - last) <= descended

Descending ==
  trend.direction = "down" =>
    /\ trend.extreme <= trend.anchor /\ trend.extreme <= last
    /\ ~Confirmed(last - trend.extreme)
    /\ loss + (trend.anchor - trend.extreme) <= descended
    /\ gain + (last - trend.extreme) <= climbed

ElevationInvariant ==
  ElevationTypes /\ LegsBanked /\ NoDirection /\ Ascending /\ Descending

LEMMA ElevationStarts == ElevationInit => ElevationInvariant
  BY ElevationAssumption
  DEF ElevationInit, ElevationInvariant, ElevationTypes, TrendType, LegsBanked,
      NoDirection, Ascending, Descending, StartAt, Confirmed

LEMMA ElevationKept ==
  ElevationInvariant /\ [ElevationNext]_elevationVars => ElevationInvariant'
<1> SUFFICES ASSUME ElevationInvariant, [ElevationNext]_elevationVars
             PROVE  ElevationInvariant'
  OBVIOUS
<1> USE ElevationAssumption
<1>1. CASE UNCHANGED elevationVars
  BY <1>1
  DEF elevationVars, ElevationInvariant, ElevationTypes, LegsBanked, NoDirection, Ascending,
      Descending, Confirmed
<1>2. CASE ElevationNext
  <2>1. PICK altitude \in Altitudes :
          /\ Travel(altitude)
          /\ \/ FindDirection(altitude)
             \/ FollowUp(altitude) \/ TurnDown(altitude)
             \/ FollowDown(altitude) \/ TurnUp(altitude)
    BY <1>2 DEF ElevationNext
  <2> USE <2>1 DEF Travel, Higher, Lower, Confirmed, ElevationInvariant, ElevationTypes,
          TrendType, LegsBanked, NoDirection, Ascending, Descending
  <2>a. /\ altitude \in Int /\ last' = altitude /\ first' = first
        /\ climbed' \in Int /\ descended' \in Int
        /\ climbed' >= climbed /\ climbed' >= climbed + (altitude - last)
        /\ descended' >= descended /\ descended' >= descended + (last - altitude)
        /\ climbed' - descended' = climbed - descended + (altitude - last)
    OBVIOUS
  <2>2. CASE FindDirection(altitude)
    <3> DEFINE highest == Higher(trend.highest, altitude)
               lowest == Lower(trend.lowest, altitude)
    <3>1. /\ highest \in Int /\ lowest \in Int
          /\ highest >= trend.highest /\ highest >= altitude
          /\ lowest <= trend.lowest /\ lowest <= altitude
          /\ highest = trend.highest \/ highest = altitude
          /\ lowest = trend.lowest \/ lowest = altitude
      BY <2>a
    <3>0. trend.direction = "unknown" /\ gain' = gain /\ loss' = loss
      BY <2>2 DEF FindDirection
    <3>2. CASE Confirmed(highest - trend.anchor)
      <4>1. trend' \in TrendType /\ trend'.anchor = trend.anchor /\ trend'.direction = "up"
          /\ trend'.extreme = highest /\ trend'.highest = highest /\ trend'.lowest = lowest
        BY <2>2, <3>1, <3>2 DEF FindDirection
      <4>2. highest = altitude
        BY <3>0, <3>1, <3>2, <2>a
      <4> HIDE DEF highest, lowest
      <4>t. ElevationTypes'
        BY <4>1, <4>2, <3>0, <3>1, <3>2, <2>a
      <4>l. LegsBanked'
        BY <4>1, <4>2, <3>0, <3>1, <3>2, <2>a
      <4>n. NoDirection'
        BY <4>1, <4>2, <3>0, <3>1, <3>2, <2>a
      <4>u. Ascending'
        BY <4>1, <4>2, <3>0, <3>1, <3>2, <2>a
      <4>d. Descending'
        BY <4>1, <4>2, <3>0, <3>1, <3>2, <2>a
      <4>. QED
        BY <4>t, <4>l, <4>n, <4>u, <4>d DEF ElevationInvariant
    <3>3. CASE ~Confirmed(highest - trend.anchor) /\ Confirmed(trend.anchor - lowest)
      <4>1. trend' \in TrendType /\ trend'.anchor = trend.anchor /\ trend'.direction = "down"
          /\ trend'.extreme = lowest /\ trend'.highest = highest /\ trend'.lowest = lowest
        BY <2>2, <3>1, <3>3 DEF FindDirection
      <4>2. lowest = altitude
        BY <3>0, <3>1, <3>3, <2>a
      <4> HIDE DEF highest, lowest
      <4>t. ElevationTypes'
        BY <4>1, <4>2, <3>0, <3>1, <3>3, <2>a
      <4>l. LegsBanked'
        BY <4>1, <4>2, <3>0, <3>1, <3>3, <2>a
      <4>n. NoDirection'
        BY <4>1, <4>2, <3>0, <3>1, <3>3, <2>a
      <4>u. Ascending'
        BY <4>1, <4>2, <3>0, <3>1, <3>3, <2>a
      <4>d. Descending'
        BY <4>1, <4>2, <3>0, <3>1, <3>3, <2>a
      <4>. QED
        BY <4>t, <4>l, <4>n, <4>u, <4>d DEF ElevationInvariant
    <3>4. CASE ~Confirmed(highest - trend.anchor) /\ ~Confirmed(trend.anchor - lowest)
      <4>1. trend' \in TrendType /\ trend'.anchor = trend.anchor /\ trend'.direction = "unknown"
          /\ trend'.extreme = trend.extreme /\ trend'.highest = highest /\ trend'.lowest = lowest
        BY <2>2, <3>0, <3>1, <3>4 DEF FindDirection
      <4> HIDE DEF highest, lowest
      <4>t. ElevationTypes'
        BY <4>1, <3>0, <3>1, <3>4, <2>a
      <4>l. LegsBanked'
        BY <4>1, <3>0, <3>1, <3>4, <2>a
      <4>n. NoDirection'
        BY <4>1, <3>0, <3>1, <3>4, <2>a
      <4>u. Ascending'
        BY <4>1, <3>0, <3>1, <3>4, <2>a
      <4>d. Descending'
        BY <4>1, <3>0, <3>1, <3>4, <2>a
      <4>. QED
        BY <4>t, <4>l, <4>n, <4>u, <4>d DEF ElevationInvariant
    <3>5. QED
      BY <3>2, <3>3, <3>4
  <2>3. CASE FollowUp(altitude)
    BY <2>3 DEF FollowUp
  <2>4. CASE TurnDown(altitude)
    <3>1. trend' \in TrendType /\ trend'.anchor = trend.extreme /\ trend'.direction = "down"
          /\ trend'.extreme = altitude /\ trend'.highest = trend.highest /\ trend'.lowest = trend.lowest
      BY <2>4 DEF TurnDown, Turned
    <3>2. /\ trend.direction = "up" /\ Confirmed(trend.extreme - altitude)
          /\ gain' = gain + (trend.extreme - trend.anchor) /\ loss' = loss
      BY <2>4 DEF TurnDown
    <3>t. ElevationTypes'
      BY <3>1, <3>2, <2>a
    <3>l. LegsBanked'
      BY <3>1, <3>2, <2>a
    <3>n. NoDirection'
      BY <3>1, <3>2, <2>a
    <3>u. Ascending'
      BY <3>1, <3>2, <2>a
    <3>d. Descending'
      BY <3>1, <3>2, <2>a
    <3>. QED
      BY <3>t, <3>l, <3>n, <3>u, <3>d DEF ElevationInvariant
  <2>5. CASE FollowDown(altitude)
    BY <2>5 DEF FollowDown
  <2>6. CASE TurnUp(altitude)
    <3>1. trend' \in TrendType /\ trend'.anchor = trend.extreme /\ trend'.direction = "up"
          /\ trend'.extreme = altitude /\ trend'.highest = trend.highest /\ trend'.lowest = trend.lowest
      BY <2>6 DEF TurnUp, Turned
    <3>2. /\ trend.direction = "down" /\ Confirmed(altitude - trend.extreme)
          /\ loss' = loss + (trend.anchor - trend.extreme) /\ gain' = gain
      BY <2>6 DEF TurnUp
    <3>t. ElevationTypes'
      BY <3>1, <3>2, <2>a
    <3>3. trend.extreme \in Int /\ trend.anchor \in Int /\ trend.extreme <= trend.anchor
      BY <3>2
    <3>l. LegsBanked'
      <4>1. 0 <= gain' /\ 0 <= loss'
        BY <3>2, <3>3
      <4>2. gain' - loss' = trend'.anchor - first'
        BY <3>1, <3>2, <3>3, <2>a
      <4>3. climbed' - descended' = last' - first'
        BY <2>a
      <4>4. QED
        BY <4>1, <4>2, <4>3
    <3>n. NoDirection'
      BY <3>1, <3>2, <2>a
    <3>u. Ascending'
      BY <3>1, <3>2, <2>a
    <3>d. Descending'
      BY <3>1, <3>2, <2>a
    <3>. QED
      BY <3>t, <3>l, <3>n, <3>u, <3>d DEF ElevationInvariant
  <2>7. QED
    BY <2>1, <2>2, <2>3, <2>4, <2>5, <2>6
<1>3. QED
  BY <1>1, <1>2

LEMMA ElevationEnough == ElevationInvariant => ElevationHonest
  BY ElevationAssumption
  DEF ElevationInvariant, ElevationTypes, TrendType, LegsBanked, NoDirection, Ascending,
      Descending, ElevationHonest, BelowDeadband, GainM, LossM, Confirmed

(* Gain and loss of elevationChange: whatever the altitudes and however    *)
(* many, noise below the deadband is never added up, and no more is        *)
(* reported than was climbed and descended.                                *)
THEOREM ElevationIsHonest == ElevationSpec => []ElevationHonest
<1>1. ElevationSpec => []ElevationInvariant
  BY ElevationStarts, ElevationKept, PTL DEF ElevationSpec
<1>2. QED
  BY <1>1, ElevationEnough, PTL

-----------------------------------------------------------------------------
(* Simplification.                                                         *)

SimplifyTypes ==
  /\ distance \in [Asked -> Distances]
  /\ keep \subseteq Points /\ {1, Count} \subseteq keep
  /\ stack \in Seq(Points \X Points)

(* A span on the stack lies between two survivors with none inside, and    *)
(* before those above it.                                                  *)
SpansOpen ==
  /\ \A k \in 1..Len(stack) :
       /\ stack[k][1] < stack[k][2]
       /\ stack[k][1] \in keep /\ stack[k][2] \in keep
       /\ \A i \in Inside(stack[k]) : i \notin keep
  /\ \A j, k \in 1..Len(stack) : j < k => stack[j][2] <= stack[k][1]

OnStack(a, b) == \E k \in 1..Len(stack) : stack[k] = <<a, b>>
Close(a, b) == \A i \in Inside(<<a, b>>) : Off(i, <<a, b>>) <= ToleranceM

(* What the line joins is within the tolerance, or still to be looked at.  *)
JoinedSettled ==
  \A a, b \in Points : Joined(a, b) => OnStack(a, b) \/ Close(a, b)

SimplifyInvariant == SimplifyTypes /\ SpansOpen /\ JoinedSettled

LEMMA LeastNatural ==
  ASSUME NEW T \in SUBSET Nat, T # {}
  PROVE  \E x \in T : \A y \in T : x <= y
<1> DEFINE Below == {p \in Nat \X Nat : p[1] < p[2]}
<1>1. IsWellFoundedOn(Below, Nat)
  BY NatLessThanWellFounded, Zenon DEF OpToRel
<1> HIDE DEF Below
<1>2. PICK x \in T : \A y \in T : ~(<<y, x>> \in Below)
  BY <1>1, WFMin
<1>3. \A y \in T : ~(y < x)
  BY <1>2 DEF Below
<1>4. QED
  BY <1>3

(* A span with a point off by too much is split: of the points inside it   *)
(* there is a first furthest one.                                          *)
LEMMA FurthestExists ==
  ASSUME NEW a \in Points, NEW b \in Points, NEW far \in Inside(<<a, b>>),
         distance \in [Asked -> Distances], Off(far, <<a, b>>) > ToleranceM
  PROVE  \E i \in Points : Splits(i, <<a, b>>)
<1> DEFINE In == Inside(<<a, b>>)
           off(i) == Off(i, <<a, b>>)
<1>0. \A i \in In : i \in Points /\ off(i) \in 0..FarthestM
  <2> TAKE i \in In
  <2>1. a < i /\ i < b /\ i \in Points
    BY SimplifyAssumption DEF Inside, Points
  <2>2. <<i, a, b>> \in Asked
    BY <2>1 DEF Asked
  <2>3. distance[<<i, a, b>>] \in Distances
    BY <2>2
  <2>4. QED
    BY <2>1, <2>3, SimplifyAssumption DEF Off
<1>a. ToleranceM \in Nat /\ FarthestM \in Nat /\ far \in In /\ off(far) > ToleranceM
  BY SimplifyAssumption
<1>b. In \subseteq Nat
  BY DEF Inside, Points
<1> HIDE DEF In, off
<1>1. PICK least \in {FarthestM - off(i) : i \in In} :
             \A m \in {FarthestM - off(i) : i \in In} : least <= m
  <2>1. {FarthestM - off(i) : i \in In} \in SUBSET Nat
    BY <1>0, <1>a
  <2>2. {FarthestM - off(i) : i \in In} # {}
    BY <1>a
  <2>3. QED
    BY <2>1, <2>2, LeastNatural
<1>2. PICK peak \in In : least = FarthestM - off(peak)
  BY <1>1
<1>3. \A j \in In : off(j) <= off(peak)
  <2> TAKE j \in In
  <2>1. FarthestM - off(peak) <= FarthestM - off(j)
    BY <1>1, <1>2
  <2>2. off(j) \in Int /\ off(peak) \in Int
    BY <1>0
  <2>3. QED
    BY <2>1, <2>2, <1>a
<1>4. PICK i \in {j \in In : off(j) = off(peak)} : \A j \in {k \in In : off(k) = off(peak)} : i <= j
  BY <1>b, LeastNatural
<1>5. i \in In /\ i \in Points /\ off(i) > ToleranceM
  BY <1>0, <1>3, <1>4, <1>a
<1>6. \A j \in In : off(j) <= off(i) /\ (j < i => off(j) < off(i))
  BY <1>0, <1>3, <1>4, <1>b
<1>7. QED
  BY <1>5, <1>6 DEF Splits, In, off

LEMMA SimplifyStarts == SimplifyInit => SimplifyInvariant
<1> SUFFICES ASSUME SimplifyInit PROVE SimplifyInvariant
  OBVIOUS
<1> USE SimplifyAssumption DEF SimplifyInit, Points
<1>1. stack = << <<1, Count>> >> /\ Len(stack) = 1 /\ stack[1] = <<1, Count>>
      /\ stack \in Seq(Points \X Points)
  OBVIOUS
<1>2. SimplifyTypes
  BY <1>1 DEF SimplifyTypes
<1>3. SpansOpen
  BY <1>1 DEF SpansOpen, Inside
<1>4. JoinedSettled
  <2> SUFFICES ASSUME NEW a \in Points, NEW b \in Points, Joined(a, b)
               PROVE  OnStack(a, b)
    BY DEF JoinedSettled
  <2>1. a = 1 /\ b = Count
    BY DEF Joined
  <2>2. QED
    BY <1>1, <2>1 DEF OnStack
<1>5. QED
  BY <1>2, <1>3, <1>4 DEF SimplifyInvariant

(* What is left when the span on top is taken.                             *)
LEMMA PoppedIs ==
  ASSUME SimplifyTypes, stack # << >>
  PROVE  /\ Top \in Points \X Points
         /\ Popped \in Seq(Points \X Points) /\ Len(Popped) = Len(stack) - 1
         /\ Len(stack) \in Nat /\ Len(stack) >= 1
         /\ \A k \in 1..Len(Popped) : Popped[k] = stack[k]
<1> DEFINE S == Points \X Points
           n == Len(stack)
<1>1. stack \in Seq(S) /\ n \in Nat /\ n >= 1
  BY DEF SimplifyTypes
<1> HIDE DEF S
<1>2. \A k \in 1..n : stack[k] \in S
  BY <1>1
<1>3. n - 1 \in Int /\ 1 \in Int /\ \A k \in 1..(n - 1) : stack[k] \in S
  BY <1>1, <1>2
<1> HIDE DEF n
<1>4. /\ SubSeq(stack, 1, n - 1) \in Seq(S)
      /\ Len(SubSeq(stack, 1, n - 1)) = IF 1 <= n - 1 THEN (n - 1) - 1 + 1 ELSE 0
      /\ \A i \in 1..((n - 1) - 1 + 1) : SubSeq(stack, 1, n - 1)[i] = stack[1 + i - 1]
  BY <1>3, SubSeqProperties
<1>5. Popped = SubSeq(stack, 1, n - 1) /\ Top = stack[n]
  BY DEF Popped, Top, n
<1>6. Popped \in Seq(S) /\ Len(Popped) = n - 1
  BY <1>1, <1>4, <1>5
<1>7. ASSUME NEW k \in 1..(n - 1) PROVE Popped[k] = stack[k]
  <2>1. 1 + k - 1 = k /\ k \in 1..((n - 1) - 1 + 1)
    BY <1>1
  <2>2. QED
    BY <2>1, <1>4, <1>5
<1>8. Top \in S
  BY <1>1, <1>2, <1>5
<1>9. QED
  BY <1>1, <1>6, <1>7, <1>8 DEF S, n

LEMMA SplitKept ==
  ASSUME SimplifyInvariant, SplitSpan
  PROVE  SimplifyInvariant'
<1>1. PICK i \in Points :
        /\ Splits(i, Top) /\ keep' = keep \cup {i} /\ distance' = distance
        /\ stack' = Popped \o << <<Top[1], i>>, <<i, Top[2]>> >>
  BY DEF SplitSpan
<1>2. stack # << >> /\ SimplifyTypes /\ SpansOpen /\ JoinedSettled
  BY DEF SplitSpan, SimplifyInvariant
<1> DEFINE a == Top[1]
           b == Top[2]
           n == Len(Popped)
<1>3. /\ Top = <<a, b>> /\ a \in Points /\ b \in Points /\ Points \subseteq Nat
      /\ n \in Nat /\ Len(stack) = n + 1 /\ stack[n + 1] = <<a, b>>
      /\ Popped \in Seq(Points \X Points)
      /\ \A k \in 1..n : Popped[k] = stack[k] /\ stack[k] \in Points \X Points
  <2>1. /\ Top \in Points \X Points /\ Popped \in Seq(Points \X Points)
        /\ Len(Popped) = Len(stack) - 1 /\ Len(stack) \in Nat /\ Len(stack) >= 1
        /\ \A k \in 1..Len(Popped) : Popped[k] = stack[k]
    BY <1>2, PoppedIs
  <2>2. Top = <<a, b>> /\ a \in Points /\ b \in Points /\ Points \subseteq Nat
    BY <2>1 DEF Points
  <2>3. n \in Nat /\ Len(stack) = n + 1 /\ stack[n + 1] = Top
    BY <2>1 DEF Top
  <2>4. \A k \in 1..n : Popped[k] \in Points \X Points
    BY <2>1
  <2>5. QED
    BY <2>1, <2>2, <2>3, <2>4
<1>4. a < i /\ i < b /\ i \in Nat
  BY <1>1, <1>3 DEF Splits, Inside
<1>5. /\ stack' \in Seq(Points \X Points) /\ Len(stack') = n + 2
      /\ stack'[n + 1] = <<a, i>> /\ stack'[n + 2] = <<i, b>>
      /\ \A k \in 1..n : stack'[k] = stack[k]
  <2> DEFINE two == << <<a, i>>, <<i, b>> >>
  <2>1. two \in Seq(Points \X Points) /\ Len(two) = 2 /\ two[1] = <<a, i>> /\ two[2] = <<i, b>>
    BY <1>1, <1>3
  <2>2. stack' = Popped \o two
    BY <1>1
  <2> HIDE DEF two
  <2> DEFINE S == Points \X Points
  <2>3. Popped \in Seq(S) /\ two \in Seq(S)
    BY <2>1, <1>3
  <2> HIDE DEF S, n
  <2>4. /\ Popped \o two \in Seq(S)
        /\ Len(Popped \o two) = Len(Popped) + Len(two)
        /\ \A k \in 1..(Len(Popped) + Len(two)) :
             (Popped \o two)[k] = IF k <= Len(Popped) THEN Popped[k] ELSE two[k - Len(Popped)]
    BY <2>3, ConcatProperties, Zenon
  <2>5. Len(Popped) = n
    BY DEF n
  <2>6. \A k \in 1..n : (Popped \o two)[k] = stack[k]
    BY <2>1, <2>4, <2>5, <1>3
  <2>7. (Popped \o two)[n + 1] = <<a, i>> /\ (Popped \o two)[n + 2] = <<i, b>>
    <3>1. n + 1 \in 1..(n + 2) /\ n + 2 \in 1..(n + 2) /\ ~(n + 1 <= n) /\ ~(n + 2 <= n)
          /\ (n + 1) - n = 1 /\ (n + 2) - n = 2
      <4>1. n \in Nat
        BY <1>3
      <4>2. SUFFICES ASSUME NEW m \in Nat
                     PROVE  /\ m + 1 \in 1..(m + 2) /\ m + 2 \in 1..(m + 2)
                            /\ ~(m + 1 <= m) /\ ~(m + 2 <= m)
                            /\ (m + 1) - m = 1 /\ (m + 2) - m = 2
        BY <4>1
      <4>3. QED
        OBVIOUS
    <3>2. (Popped \o two)[n + 1] = two[1] /\ (Popped \o two)[n + 2] = two[2]
      BY <3>1, <2>1, <2>4, <2>5
    <3>3. QED
      BY <3>2, <2>1
  <2>8. QED
    BY <2>1, <2>2, <2>4, <2>5, <2>6, <2>7, <1>3 DEF S
<1>6. /\ a \in keep /\ b \in keep
      /\ \A j \in Points : a < j /\ j < b => j \notin keep
  <2>1. stack[n + 1] = <<a, b>> /\ n + 1 \in 1..Len(stack)
    BY <1>3
  <2>2. <<a, b>>[1] = a /\ <<a, b>>[2] = b
    OBVIOUS
  <2>3. \A j \in Inside(<<a, b>>) : j \notin keep
    BY <2>1, <1>2 DEF SpansOpen
  <2>4. QED
    BY <1>2, <1>3, <2>1, <2>2, <2>3, SMTT(30) DEF SpansOpen, Inside
<1>7. \A k \in 1..n : stack[k][2] <= a /\ stack[k][1] \in Nat /\ stack[k][2] \in Nat
                      /\ stack[k][1] < stack[k][2]
  <2>1. \A k \in 1..n : k \in 1..Len(stack) /\ n + 1 \in 1..Len(stack) /\ k < n + 1
    BY <1>3
  <2>2. QED
    BY <1>2, <1>3, <2>1 DEF SpansOpen
<1> HIDE DEF a, b, n
<1>8. SimplifyTypes'
  BY <1>1, <1>2, <1>5 DEF SimplifyTypes, Asked, Points
<1>9. SpansOpen'
  <2>1. ASSUME NEW k \in 1..(n + 2)
        PROVE  /\ stack'[k][1] < stack'[k][2]
               /\ stack'[k][1] \in keep' /\ stack'[k][2] \in keep'
               /\ \A j \in Inside(stack'[k]) : j \notin keep'
    <3>1. CASE k \in 1..n
      <4>1. stack'[k] = stack[k] /\ k \in 1..Len(stack)
        BY <1>3, <1>5, <3>1
      <4>2. \A j \in Inside(stack[k]) : j \notin keep /\ j # i
        BY <1>2, <1>3, <1>4, <1>7, <3>1, <4>1 DEF SpansOpen, Inside
      <4>3. QED
        BY <1>1, <1>2, <4>1, <4>2 DEF SpansOpen
    <3>2. CASE k = n + 1
      <4>1. stack'[k][1] = a /\ stack'[k][2] = i /\ stack'[k] = <<a, i>>
        BY <1>5, <3>2
      <4>2. \A j \in Inside(<<a, i>>) : j \in Points /\ a < j /\ j < b /\ j # i
        <5>1. Inside(<<a, i>>) = (a + 1)..(i - 1)
          BY DEF Inside
        <5>2. a \in Nat /\ b \in Nat /\ i \in Nat /\ a >= 1 /\ b <= Count
          BY <1>3, SimplifyAssumption DEF Points
        <5>3. QED
          BY <1>4, <5>1, <5>2, SimplifyAssumption DEF Points
      <4>3. QED
        BY <1>1, <1>4, <1>6, <4>1, <4>2
    <3>3. CASE k = n + 2
      <4>1. stack'[k][1] = i /\ stack'[k][2] = b /\ stack'[k] = <<i, b>>
        BY <1>5, <3>3
      <4>2. \A j \in Inside(<<i, b>>) : j \in Points /\ a < j /\ j < b /\ j # i
        <5>1. Inside(<<i, b>>) = (i + 1)..(b - 1)
          BY DEF Inside
        <5>2. a \in Nat /\ b \in Nat /\ i \in Nat /\ a >= 1 /\ b <= Count
          BY <1>3, SimplifyAssumption DEF Points
        <5>3. QED
          BY <1>4, <5>1, <5>2, SimplifyAssumption DEF Points
      <4>3. QED
        BY <1>1, <1>4, <1>6, <4>1, <4>2
    <3>4. QED
      <4>1. k \in 1..n \/ k = n + 1 \/ k = n + 2
        BY <1>3
      <4>2. QED
        BY <4>1, <3>1, <3>2, <3>3
  <2>2. ASSUME NEW j \in 1..(n + 2), NEW k \in 1..(n + 2), j < k
        PROVE  stack'[j][2] <= stack'[k][1]
    <3>1. CASE k \in 1..n
      <4>1. j \in 1..Len(stack) /\ k \in 1..Len(stack) /\ j \in 1..n
        BY <1>3, <2>2, <3>1
      <4>2. QED
        BY <1>2, <1>5, <2>2, <3>1, <4>1 DEF SpansOpen
    <3>2. CASE k = n + 1
      <4>1. j \in 1..n /\ stack'[k][1] = a /\ stack'[j] = stack[j]
        BY <1>3, <1>5, <2>2, <3>2
      <4>2. QED
        BY <1>7, <4>1
    <3>3. CASE k = n + 2
      <4>1. j \in 1..n \/ j = n + 1
        BY <1>3, <2>2, <3>3
      <4>2. CASE j \in 1..n
        <5>1. stack'[k][1] = i /\ stack'[j] = stack[j]
          BY <1>5, <3>3, <4>2
        <5>2. QED
          BY <1>3, <1>4, <1>7, <4>2, <5>1
      <4>3. CASE j = n + 1
        BY <1>4, <1>5, <3>3, <4>3
      <4>4. QED
        BY <4>1, <4>2, <4>3
    <3>4. QED
      <4>1. k \in 1..n \/ k = n + 1 \/ k = n + 2
        BY <1>3
      <4>2. QED
        BY <4>1, <3>1, <3>2, <3>3
  <2>3. QED
    BY <1>5, <2>1, <2>2 DEF SpansOpen
<1>10. JoinedSettled'
  <2> SUFFICES ASSUME NEW c \in Points, NEW d \in Points, Joined(c, d)'
               PROVE  OnStack(c, d)' \/ Close(c, d)'
    BY DEF JoinedSettled, Points
  <2>1. /\ c \in keep \cup {i} /\ d \in keep \cup {i} /\ c < d /\ c \in Nat /\ d \in Nat
        /\ \A j \in Points : c < j /\ j < d => j \notin keep /\ j # i
    BY <1>1, <1>3 DEF Joined, Inside, Points
  <2>2. CASE c = i
    <3>1. d = b
      <4>1. a \in Nat /\ b \in Nat /\ i < d /\ d \in keep
        BY <1>3, <1>4, <2>1, <2>2
      <4>2. ~(b < d)
        BY <1>3, <1>4, <1>6, <2>1, <2>2, <4>1
      <4>3. ~(d < b)
        BY <1>4, <1>6, <4>1, <2>1
      <4>4. QED
        BY <4>1, <4>2, <4>3, <2>1
    <3>2. n + 2 \in 1..Len(stack') /\ stack'[n + 2] = <<c, d>>
      BY <1>3, <1>5, <2>2, <3>1
    <3>3. QED
      BY <3>2 DEF OnStack
  <2>3. CASE d = i
    <3>1. c = a
      <4>1. a \in Nat /\ b \in Nat /\ c < i /\ c \in keep
        BY <1>3, <1>4, <2>1, <2>3
      <4>2. ~(c < a)
        BY <1>3, <1>4, <1>6, <2>1, <2>3, <4>1
      <4>3. ~(a < c)
        BY <1>4, <1>6, <4>1, <2>1
      <4>4. QED
        BY <4>1, <4>2, <4>3, <2>1
    <3>2. n + 1 \in 1..Len(stack') /\ stack'[n + 1] = <<c, d>>
      BY <1>3, <1>5, <2>3, <3>1
    <3>3. QED
      BY <3>2 DEF OnStack
  <2>4. CASE c # i /\ d # i
    <3>1. Joined(c, d) /\ <<c, d>> # <<a, b>>
      <4>1. c \in keep /\ d \in keep /\ c < d
        BY <2>1, <2>4
      <4>2. \A j \in Inside(<<c, d>>) : j \notin keep
        BY <2>1, SimplifyAssumption DEF Inside, Points
      <4>3. <<c, d>> # <<a, b>>
        BY <1>4, <2>1
      <4>4. QED
        BY <4>1, <4>2, <4>3 DEF Joined
    <3>2. CASE OnStack(c, d)
      <4>1. PICK k \in 1..Len(stack) : stack[k] = <<c, d>>
        BY <3>2 DEF OnStack
      <4>2. k \in 1..n
        <5>1. stack[n + 1] = <<a, b>> /\ <<c, d>> # <<a, b>>
          BY <1>3, <3>1
        <5>2. k # n + 1
          BY <4>1, <5>1, Zenon
        <5>3. n \in Nat /\ Len(stack) = n + 1
          BY <1>3
        <5> HIDE DEF n
        <5>4. QED
          BY <4>1, <5>2, <5>3
      <4>3. stack'[k] = <<c, d>>
        BY <1>5, <4>1, <4>2
      <4>4. k \in 1..Len(stack')
        BY <1>3, <1>5, <4>2
      <4>5. QED
        BY <4>3, <4>4, Zenon DEF OnStack
    <3>3. CASE Close(c, d)
      BY <1>1, <3>3 DEF Close, Off, Inside
    <3>4. QED
      BY <1>2, <3>1, <3>2, <3>3 DEF JoinedSettled
  <2>5. QED
    BY <2>2, <2>3, <2>4
<1>11. QED
  BY <1>8, <1>9, <1>10 DEF SimplifyInvariant

LEMMA CloseKept ==
  ASSUME SimplifyInvariant, CloseSpan
  PROVE  SimplifyInvariant'
<1>1. stack # << >> /\ SimplifyTypes /\ SpansOpen /\ JoinedSettled
  BY DEF CloseSpan, SimplifyInvariant
<1>2. /\ stack' = Popped /\ keep' = keep /\ distance' = distance
      /\ \A i \in Points : ~Splits(i, Top)
  BY DEF CloseSpan
<1> DEFINE n == Len(Popped)
<1>3. /\ Top \in Points \X Points /\ n \in Nat /\ Len(stack) = n + 1 /\ stack[n + 1] = Top
      /\ Popped \in Seq(Points \X Points)
      /\ \A k \in 1..n : stack'[k] = stack[k] /\ k \in 1..Len(stack)
  BY <1>1, <1>2, PoppedIs DEF Top
<1>4. Len(stack') = n
  BY <1>2
<1> HIDE DEF n
<1>5. SimplifyTypes'
  BY <1>1, <1>2, <1>3 DEF SimplifyTypes, Asked, Points
<1>6. SpansOpen'
  BY <1>1, <1>2, <1>3, <1>4 DEF SpansOpen
<1>7. JoinedSettled'
  <2> SUFFICES ASSUME NEW a \in Points, NEW b \in Points, Joined(a, b)'
               PROVE  OnStack(a, b)' \/ Close(a, b)'
    BY DEF JoinedSettled, Points
  <2>1. Joined(a, b)
    BY <1>2 DEF Joined
  <2>2. CASE <<a, b>> = Top
    <3>1. ASSUME NEW i \in Inside(<<a, b>>), ~(Off(i, <<a, b>>) <= ToleranceM)
          PROVE  FALSE
      <4>1. i \in Points /\ a < i /\ i < b
        BY SimplifyAssumption DEF Inside, Points
      <4>2. <<i, a, b>> \in Asked
        BY <4>1 DEF Asked
      <4>3. distance[<<i, a, b>>] \in Distances
        BY <4>2, <1>1 DEF SimplifyTypes
      <4>4. Off(i, <<a, b>>) > ToleranceM
        <5>1. Off(i, <<a, b>>) = distance[<<i, a, b>>] /\ distance[<<i, a, b>>] \in Int
          <6>1. <<a, b>>[1] = a /\ <<a, b>>[2] = b
            OBVIOUS
          <6>2. QED
            <7>1. Off(i, <<a, b>>) = distance[<<i, a, b>>]
              BY <6>1 DEF Off
            <7>2. distance[<<i, a, b>>] \in 0..FarthestM
              BY <4>3, SimplifyAssumption
            <7>3. QED
              BY <7>1, <7>2, SimplifyAssumption
        <5>2. QED
          BY <3>1, <5>1, SimplifyAssumption
      <4>5. QED
        BY <1>1, <1>2, <2>2, <4>4, FurthestExists DEF SimplifyTypes
    <3>2. Close(a, b)
      BY <3>1 DEF Close
    <3>3. QED
      BY <1>2, <3>2 DEF Close, Off, Inside
  <2>3. CASE <<a, b>> # Top
    <3>1. CASE OnStack(a, b)
      <4>1. PICK k \in 1..Len(stack) : stack[k] = <<a, b>>
        BY <3>1 DEF OnStack
      <4>2. k \in 1..n
        BY <1>3, <2>3, <4>1
      <4>3. QED
        BY <1>3, <1>4, <4>1, <4>2 DEF OnStack
    <3>2. CASE Close(a, b)
      BY <1>2, <3>2 DEF Close, Off, Inside
    <3>3. QED
      BY <1>1, <2>1, <3>1, <3>2 DEF JoinedSettled
  <2>4. QED
    BY <2>2, <2>3
<1>8. QED
  BY <1>5, <1>6, <1>7 DEF SimplifyInvariant

LEMMA SimplifyKept ==
  SimplifyInvariant /\ [SimplifyNext]_simplifyVars => SimplifyInvariant'
<1>1. ASSUME SimplifyInvariant, UNCHANGED simplifyVars PROVE SimplifyInvariant'
  BY <1>1
  DEF simplifyVars, SimplifyInvariant, SimplifyTypes, SpansOpen, JoinedSettled, Joined, OnStack,
      Close, Off, Inside, Asked, Points
<1>2. QED
  BY <1>1, SplitKept, CloseKept DEF SimplifyNext

LEMMA SimplifyEnough == SimplifyInvariant => SimplifyWithin
  BY DEF SimplifyInvariant, SimplifyTypes, JoinedSettled, OnStack, Close, SimplifyWithin

(* The promise of simplify: whatever the points, and however their         *)
(* distances compare, what is dropped lies within the tolerance.           *)
THEOREM SimplifyKeepsTolerance == SimplifySpec => []SimplifyWithin
<1>1. SimplifySpec => []SimplifyInvariant
  BY SimplifyStarts, SimplifyKept, PTL DEF SimplifySpec
<1>2. QED
  BY <1>1, SimplifyEnough, PTL

-----------------------------------------------------------------------------
(* The polling source.                                                     *)

PollingTypes ==
  /\ ticking \in BOOLEAN /\ generation \in Nat /\ starts \in Nat
  /\ inFlight \in [generation : Nat, session : Nat,
                   phase : Answers \cup {"none", "asked", "failed", "settled"}]
  /\ delivered \in [kind : {"none", "sample", "error"}, session : Nat]

(* A read of the present generation was begun in the present session: no   *)
(* stop came between, so the source is still started.                      *)
OwnReadIsOfThisSession ==
  inFlight.phase # "none" =>
    /\ inFlight.generation <= generation
    /\ inFlight.generation = generation => ticking /\ inFlight.session = starts

PollingInvariant == PollingTypes /\ OwnReadIsOfThisSession /\ SampleOfThisSession

LEMMA PollingStarts == PollingInit => PollingInvariant
<1> SUFFICES ASSUME PollingInit PROVE PollingInvariant
  OBVIOUS
<1>1. /\ NoRead \in [generation : Nat, session : Nat,
                   phase : Answers \cup {"none", "asked", "failed", "settled"}]
      /\ Silence \in [kind : {"none", "sample", "error"}, session : Nat]
      /\ NoRead.phase = "none"
  BY DEF NoRead, Silence
<1>2. QED
  BY <1>1 DEF PollingInit, PollingInvariant, PollingTypes, OwnReadIsOfThisSession,
              SampleOfThisSession

LEMMA PollingKept ==
  PollingInvariant /\ [PollingNext]_pollingVars => PollingInvariant'
<1> SUFFICES ASSUME PollingInvariant, [PollingNext]_pollingVars
             PROVE  PollingInvariant'
  OBVIOUS
<1> USE PollingAssumption
    DEF PollingInvariant, PollingTypes, OwnReadIsOfThisSession, SampleOfThisSession, NoRead,
        Silence, Answers, Becomes, Hear, Disowned
<1>1. CASE UNCHANGED pollingVars
  BY <1>1 DEF pollingVars
<1>2. CASE StartSource
  BY <1>2 DEF StartSource
<1>3. CASE StopSource
  <2>1. /\ ticking' = FALSE /\ generation' = generation + 1 /\ delivered' = Silence
        /\ reading' = reading /\ inFlight' = inFlight /\ starts' = starts
    BY <1>3 DEF StopSource
  <2>2. PollingTypes'
    <3>1. Silence \in [kind : {"none", "sample", "error"}, session : Nat]
      OBVIOUS
    <3>2. delivered' \in [kind : {"none", "sample", "error"}, session : Nat]
      BY <2>1, <3>1, Zenon
    <3>3. ticking' \in BOOLEAN /\ starts' \in Nat
      BY <2>1, Zenon
    <3>a. generation \in Nat /\ generation' = generation + 1
      BY <2>1, Zenon
    <3>b. generation' \in Nat
      <4> HIDE DEF PollingInvariant, PollingTypes
      <4>1. QED
        BY <3>a
    <3>4. inFlight' \in [generation : Nat, session : Nat,
                         phase : Answers \cup {"none", "asked", "failed", "settled"}]
      BY <2>1, Zenon
    <3>5. QED
      BY <3>2, <3>3, <3>b, <3>4, Zenon
  <2>3. inFlight.phase # "none" => inFlight.generation # generation + 1
                                   /\ inFlight.generation <= generation + 1
    BY <2>1
  <2>4. OwnReadIsOfThisSession'
    BY <2>1, <2>3
  <2>5. SampleOfThisSession'
    BY <2>1
  <2>6. QED
    BY <2>2, <2>4, <2>5
<1>4. CASE Tick
  BY <1>4 DEF Tick
<1>5. CASE DeviceAnswers
  BY <1>5 DEF DeviceAnswers
<1>6. CASE Deliver
  BY <1>6 DEF Deliver
<1>7. CASE Fail
  BY <1>7 DEF Fail
<1>8. CASE Finish
  BY <1>8 DEF Finish
<1>9. QED
  BY <1>1, <1>2, <1>3, <1>4, <1>5, <1>6, <1>7, <1>8 DEF PollingNext

(* createPollingSource: whatever order reads, failures, stops and starts   *)
(* come in, no listener hears of a read begun before the present session.  *)
THEOREM SamplesAreOfTheirSession == PollingSpec => []SampleOfThisSession
<1>1. PollingSpec => []PollingInvariant
  BY PollingStarts, PollingKept, PTL DEF PollingSpec
<1>2. PollingInvariant => SampleOfThisSession
  BY DEF PollingInvariant
<1>3. QED
  BY <1>1, <1>2, PTL

-----------------------------------------------------------------------------
(* The replay.                                                             *)

(* The frame the tick's effect asks for when it runs for `run`.            *)
FrameFor(run) ==
  IF run.playing /\ run.track.from # NoTime THEN run.track.to ELSE Keep

ReplayTypes ==
  /\ playing \in BOOLEAN /\ ran.playing \in BOOLEAN /\ due \in BOOLEAN
  /\ setPlaying \in {"keep", "on", "off"}

(* Between a commit and its effects `ran` may be behind, and at no other   *)
(* time.                                                                   *)
RanForShown == ~due => ran.track = shown /\ ran.playing = playing

(* The frame is the one the last effect asked for, or that one has come    *)
(* and was the last: then the replay is stopping.                          *)
FrameAsked ==
  \/ frame = FrameFor(ran)
  \/ frame = Keep /\ (setPlaying = "off" \/ ~playing)

(* A track without points has no controls, and what was playing when it    *)
(* came is stopped by the effect of the bounds.                            *)
EmptyStops ==
  shown.from = NoTime =>
    /\ setPlaying # "on"
    /\ ran.track = shown => ~playing \/ setPlaying = "off"

ReplayInvariant == ReplayTypes /\ RanForShown /\ FrameAsked /\ EmptyStops

LEMMA ReplayStarts == ReplayInit => ReplayInvariant
<1> SUFFICES ASSUME ReplayInit PROVE ReplayInvariant
  OBVIOUS
<1>1. /\ playing = FALSE /\ due = FALSE /\ setPlaying = "keep" /\ frame = Keep
      /\ ran.track = shown /\ ran.playing = FALSE
  BY DEF ReplayInit
<1>2. ReplayTypes
  BY <1>1 DEF ReplayTypes
<1>3. RanForShown /\ FrameAsked
  BY <1>1, Zenon DEF RanForShown, FrameAsked, FrameFor
<1>4. EmptyStops
  BY <1>1 DEF EmptyStops
<1>5. QED
  BY <1>2, <1>3, <1>4 DEF ReplayInvariant

LEMMA ReplayKept ==
  ReplayInvariant /\ [ReplayNext]_replayVars => ReplayInvariant'
<1> SUFFICES ASSUME ReplayInvariant, [ReplayNext]_replayVars
             PROVE  ReplayInvariant'
  OBVIOUS
<1> USE DEF ReplayInvariant, ReplayTypes, RanForShown, FrameAsked, EmptyStops, FrameFor
<1>1. CASE UNCHANGED replayVars
  BY <1>1 DEF replayVars
<1>2. CASE Play
  BY <1>2 DEF Play, Touched, Controls
<1>3. CASE Pause
  BY <1>3 DEF Pause, Touched
<1>4. CASE ScrubTo
  BY <1>4 DEF ScrubTo, Touched
<1>5. CASE Replace
  BY <1>5 DEF Replace, Touched
<1>6. CASE Commit
  BY <1>6 DEF Commit
<1>7. CASE RunEffects
  BY <1>7 DEF RunEffects, TickFrame
<1>8. CASE TimePasses
  BY <1>8 DEF TimePasses
<1>9. CASE AnimationFrame
  BY <1>9 DEF AnimationFrame
<1>10. QED
  BY <1>1, <1>2, <1>3, <1>4, <1>5, <1>6, <1>7, <1>8, <1>9 DEF ReplayNext

(* useReplay: however handlers, commits, effects and frames come to        *)
(* interleave, for any tracks, a settled replay that plays waits for a     *)
(* frame to the end of the track it shows, and a paused one for none.      *)
THEOREM ReplayWaitsForFrames == ReplaySpec => []FramesWhilePlaying
<1>1. ReplaySpec => []ReplayInvariant
  BY ReplayStarts, ReplayKept, PTL DEF ReplaySpec
<1>2. ReplayInvariant => FramesWhilePlaying
  BY DEF ReplayInvariant, ReplayTypes, RanForShown, FrameAsked, EmptyStops, FrameFor,
         FramesWhilePlaying, ReplaySettled, Pending
<1>3. QED
  BY <1>1, <1>2, PTL

-----------------------------------------------------------------------------
(* The id factory.                                                         *)

(* What the factory remembers is the last id it minted.                    *)
IdInvariant ==
  /\ now \in Nat /\ lastTime \in Int /\ lastRandom \in Int
  /\ minted = [time |-> lastTime, random |-> lastRandom]
  /\ before.time \in Int /\ before.random \in Int
  /\ IdsSort

LEMMA IdStarts == IdInit => IdInvariant
  BY DEF IdInit, IdInvariant, NoId, IdsSort

LEMMA IdKept == IdInvariant /\ [IdNext]_idVars => IdInvariant'
<1> SUFFICES ASSUME IdInvariant, [IdNext]_idVars PROVE IdInvariant'
  OBVIOUS
<1> USE IdFactoryAssumption DEF IdInvariant, IdsSort, Sorts
<1>1. CASE UNCHANGED idVars
  BY <1>1 DEF idVars
<1>2. CASE ClockSet
  BY <1>2 DEF ClockSet
<1>3. CASE NextId
  <2>1. PICK random \in 0..MaxRandom : NextRandom(random) /\ Mint(random)
    BY <1>3 DEF NextId
  <2>2. lastTime' = now
    BY <1>3 DEF NextId
  <2>3. QED
    BY <2>1, <2>2 DEF NextRandom, Mint
<1>4. QED
  BY <1>1, <1>2, <1>3 DEF IdNext

(* createIdFactory: for ids of any width and a clock set in any way, an id *)
(* minted no earlier by the clock than the one before sorts after it.      *)
THEOREM IdsSortAsMinted == IdSpec => []IdsSort
<1>1. IdSpec => []IdInvariant
  BY IdStarts, IdKept, PTL DEF IdSpec
<1>2. IdInvariant => IdsSort
  BY DEF IdInvariant
<1>3. QED
  BY <1>1, <1>2, PTL
-----------------------------------------------------------------------------
(* What the demo tells of its storage.                                     *)

StartupRecords == [run : Nat, stage : {"opening", "listing", "installed"}, found : SUBSET Nat]

(* Until the shell is ready nothing is downloaded or deleted, so a startup *)
(* that has installed the regions found what is still stored; and the run  *)
(* that made it ready, or failed, is over.                                 *)
StartupInv ==
  /\ regionsStored \subseteq Nat /\ everStored \in Nat
  /\ startups \subseteq StartupRecords /\ startupRuns \in Nat
  /\ shell \in {"starting", "ready", "failed"}
  /\ \A r \in startups : r.run <= startupRuns /\ (r.stage = "installed" => r.found \subseteq installed)
  /\ \A r, s \in startups : r.run = s.run => r = s
  /\ shell # "starting" => \A r \in startups : r.run # startupRuns
  /\ shell = "starting" =>
       /\ busy = "idle" /\ stage = "none" /\ confirmed /\ ~astray
       /\ \A r \in startups : r.stage = "installed" => r.found = regionsStored

(* An attempt confirms nothing until it is done, and a deletion that began *)
(* from the store's own list has the rest of the store still to remove.    *)
StatusInv ==
  /\ StatusIsTrue
  /\ (busy = "idle") <=> (stage = "none")
  /\ confirmed => busy = "idle"
  /\ busy = "deleting" /\ ~astray => toDelete = regionsStored

(* An answer under way is what the browser does, and the button is armed   *)
(* only while it is asked nothing.                                         *)
KeepingInv ==
  /\ questions \subseteq [call : {"persisted", "persist"}, answer : {"none", "yes", "no"}]
  /\ \A p, q \in questions : p = q
  /\ armed => questions = {}
  /\ \A q \in questions : /\ q.answer = "yes" => persistent
                          /\ q.answer = "no" => ~persistent
  /\ keeping \in {"granted", "already-persistent"} => persistent
  /\ keeping \in {"unpersisted", "denied"} /\ questions = {} => ~persistent

PanelsInv == StartupInv /\ StatusInv /\ KeepingInv

(* A run of the startup effect moves on.                                   *)
LEMMA StartupMoves ==
  ASSUME StartupInv, NEW r \in startups, NEW x \in StartupRecords, x.run = r.run,
         x.stage = "installed" => x.found \subseteq installed' /\ x.found = regionsStored,
         startups' = (startups \ {r}) \cup {x}, installed \subseteq installed',
         UNCHANGED <<shell, startupRuns, regionsStored, everStored, busy, stage, confirmed, astray>>
  PROVE  StartupInv'
<1>1. \A s \in startups' : s = x \/ (s \in startups /\ s # r)
  OBVIOUS
<1>2. startups' \subseteq StartupRecords
  BY <1>1 DEF StartupInv
<1>3. \A s, t \in startups' : s.run = t.run => s = t
  BY <1>1 DEF StartupInv
<1>4. \A s \in startups' : s.run <= startupRuns /\ (s.stage = "installed" => s.found \subseteq installed')
  BY <1>1 DEF StartupInv
<1>5. shell # "starting" => \A s \in startups' : s.run # startupRuns
  BY <1>1 DEF StartupInv
<1>6. shell = "starting" => \A s \in startups' : s.stage = "installed" => s.found = regionsStored
  BY <1>1 DEF StartupInv
<1>7. QED
  BY <1>2, <1>3, <1>4, <1>5, <1>6 DEF StartupInv

LEMMA StartupKeeps ==
  ASSUME PanelsInv, [PanelsNext]_panelsVars
  PROVE  StartupInv'
<1>1. StartupInv
  BY DEF PanelsInv
<1> DEFINE Rest == <<shell, startups, startupRuns>>
<1>2. ASSUME UNCHANGED Rest, shell # "starting", regionsStored' \subseteq Nat, everStored' \in Nat,
             installed \subseteq installed'
      PROVE  StartupInv'
  BY <1>1, <1>2 DEF StartupInv
<1>3. ASSUME UNCHANGED <<Rest, regionsStored, everStored, installed, busy, stage, confirmed, astray>>
      PROVE  StartupInv'
  BY <1>1, <1>3 DEF StartupInv
<1>4. CASE Restart
  <2> DEFINE new == Opening(startupRuns + 1)
  <2>1. new \in StartupRecords /\ new.run = startupRuns + 1 /\ new.stage = "opening"
    BY <1>1 DEF Opening, StartupRecords, StartupInv
  <2>2. /\ shell = "starting" /\ startupRuns' = startupRuns + 1 /\ startups' = startups \cup {new}
        /\ UNCHANGED <<shell, regionsStored, everStored, installed, busy, stage, confirmed, astray>>
    BY <1>4 DEF Restart, panelVars
  <2> HIDE DEF new
  <2>3. \A s \in startups' : s = new \/ (s \in startups /\ s.run <= startupRuns /\ s.run \in Nat)
    BY <1>1, <2>2 DEF StartupInv, StartupRecords
  <2>4. startupRuns \in Nat
    BY <1>1 DEF StartupInv
  <2>5. startups' \subseteq StartupRecords
    BY <1>1, <2>1, <2>2 DEF StartupInv
  <2>6. \A s, t \in startups' : s.run = t.run => s = t
    BY <1>1, <2>1, <2>3, <2>4 DEF StartupInv
  <2>7. \A s \in startups' : s.run <= startupRuns' /\ (s.stage = "installed" => s.found \subseteq installed')
    BY <1>1, <2>1, <2>2, <2>3, <2>4 DEF StartupInv
  <2>8. \A s \in startups' : s.stage = "installed" => s.found = regionsStored
    BY <1>1, <2>1, <2>2, <2>3 DEF StartupInv
  <2>9. QED
    BY <1>1, <2>2, <2>4, <2>5, <2>6, <2>7, <2>8 DEF StartupInv
<1>5. ASSUME NEW r \in startups, StoresOpen(r) PROVE StartupInv'
  <2> DEFINE x == [r EXCEPT !.stage = "listing"]
  <2>1. x \in StartupRecords /\ x.run = r.run /\ x.stage = "listing"
    BY <1>1 DEF StartupInv, StartupRecords
  <2>2. /\ startups' = (startups \ {r}) \cup {x}
        /\ UNCHANGED <<shell, startupRuns, regionsStored, everStored, installed, busy, stage, confirmed, astray>>
    BY <1>5 DEF StoresOpen, panelVars
  <2> HIDE DEF x
  <2>3. QED
    BY <1>1, <2>1, <2>2, StartupMoves
<1>6. ASSUME NEW r \in startups, RegionsInstalled(r) PROVE StartupInv'
  <2> DEFINE x == [r EXCEPT !.stage = "installed", !.found = regionsStored]
  <2>1. x \in StartupRecords /\ x.run = r.run /\ x.found = regionsStored
    BY <1>1 DEF StartupInv, StartupRecords
  <2>2. /\ startups' = (startups \ {r}) \cup {x} /\ installed' = installed \cup regionsStored
        /\ UNCHANGED <<shell, startupRuns, regionsStored, everStored, busy, stage, confirmed, astray>>
    BY <1>6 DEF RegionsInstalled, panelVars
  <2> HIDE DEF x
  <2>3. QED
    BY <1>1, <2>1, <2>2, StartupMoves
<1>7. ASSUME NEW r \in startups, StartupReports(r) \/ StartupFails(r) PROVE StartupInv'
  <2>1. /\ startups' = startups \ {r}
        /\ \/ r.run = startupRuns /\ shell' \in {"ready", "failed"}
           \/ r.run # startupRuns /\ shell' = shell
        /\ UNCHANGED <<startupRuns, regionsStored, everStored, installed, busy, stage, confirmed, astray>>
    BY <1>7 DEF StartupReports, StartupFails, LiveRun, panelVars
  <2>2. r.run = startupRuns => \A s \in startups' : s.run # startupRuns
    BY <1>1, <2>1 DEF StartupInv
  <2>3. CASE r.run = startupRuns
    BY <1>1, <2>1, <2>2, <2>3 DEF StartupInv
  <2>4. CASE r.run # startupRuns
    BY <1>1, <2>1, <2>4 DEF StartupInv
  <2>5. QED
    BY <2>3, <2>4
<1>8. CASE DoDownload \/ DoDelete
  BY <1>1, <1>2, <1>8 DEF DoDownload, DoDelete, Attempt, startupVars, StartupInv
<1>9. CASE ChangeLands
  <2>1. stage # "none" /\ UNCHANGED <<shell, startups, startupRuns, installed>>
    BY <1>9 DEF ChangeLands, startupVars
  <2>2. regionsStored' \subseteq Nat /\ everStored' \in Nat
    <3>1. regionsStored \subseteq Nat /\ everStored \in Nat
      BY <1>1 DEF StartupInv
    <3>2. \/ regionsStored' = regionsStored \cup {everStored + 1} /\ everStored' = everStored + 1
          \/ regionsStored' \subseteq regionsStored /\ everStored' = everStored
      <4>1. CASE busy = "downloading"
        BY <1>9, <4>1 DEF ChangeLands
      <4>2. CASE busy # "downloading"
        BY <1>9, <4>2 DEF ChangeLands
      <4>3. QED
        BY <4>1, <4>2
    <3>3. everStored' \in Nat
      BY <3>1, <3>2
    <3>4. regionsStored' \subseteq Nat
      <4>1. everStored + 1 \in Nat
        BY <3>1
      <4>2. \A x \in regionsStored' : x \in regionsStored \/ x = everStored + 1
        BY <3>2
      <4>3. QED
        BY <3>1, <4>1, <4>2
    <3>5. QED
      BY <3>3, <3>4
  <2>3. shell # "starting"
    BY <1>1, <2>1 DEF StartupInv
  <2>4. QED
    BY <1>2, <2>1, <2>2, <2>3
<1>10. CASE HookListsAgain \/ StatusRead \/ AttemptFails
  <2>1. /\ stage # "none" \/ busy # "idle"
        /\ UNCHANGED <<shell, startups, startupRuns, regionsStored, everStored>>
        /\ installed \subseteq installed'
    BY <1>10 DEF HookListsAgain, StatusRead, AttemptFails, startupVars
  <2>2. shell # "starting" /\ regionsStored \subseteq Nat /\ everStored \in Nat
    BY <1>1, <2>1 DEF StartupInv
  <2>3. QED
    BY <1>2, <2>1, <2>2
<1>11. CASE HookLists
  BY <1>3, <1>11 DEF HookLists, startupVars
<1>12. ASSUME \/ RequestKeeping
              \/ \E q \in questions : BrowserDecides(q) \/ BrowserAnswers(q) \/ BrowserRejects(q)
       PROVE  StartupInv'
  BY <1>3, <1>12 DEF RequestKeeping, BrowserDecides, BrowserAnswers, BrowserRejects, startupVars, panelVars
<1>13. CASE UNCHANGED panelsVars
  BY <1>3, <1>13 DEF panelsVars, startupVars, panelVars
<1>14. QED
  BY <1>4, <1>5, <1>6, <1>7, <1>8, <1>9, <1>10, <1>11, <1>12, <1>13 DEF PanelsNext

LEMMA StatusKeeps ==
  ASSUME PanelsInv, [PanelsNext]_panelsVars
  PROVE  StatusInv'
<1> USE DEF StatusInv, StatusIsTrue
<1>1. StatusInv /\ StartupInv
  BY DEF PanelsInv
<1>2. ASSUME UNCHANGED <<shell, regionsStored, statusOf, busy, stage, confirmed, astray, toDelete>>,
             installed \subseteq installed'
      PROVE  StatusInv'
  BY <1>1, <1>2
<1>3. CASE Restart
  BY <1>2, <1>3 DEF Restart, panelVars
<1>4. ASSUME NEW r \in startups, StoresOpen(r) \/ RegionsInstalled(r) PROVE StatusInv'
  BY <1>2, <1>4 DEF StoresOpen, RegionsInstalled, panelVars
<1>5. ASSUME NEW r \in startups, StartupReports(r) PROVE StatusInv'
  <2>1. r.stage = "installed" /\ UNCHANGED <<regionsStored, installed, busy, stage, toDelete, confirmed, astray>>
    BY <1>5 DEF StartupReports
  <2>2. CASE LiveRun(r)
    <3>1. shell = "starting"
      BY <1>1, <2>2 DEF StartupInv, LiveRun
    <3>2. r.found = regionsStored /\ r.found \subseteq installed /\ statusOf' = r.found
      BY <1>1, <1>5, <2>1, <2>2, <3>1 DEF StartupInv, StartupReports
    <3>3. QED
      BY <1>1, <2>1, <3>2
  <2>3. CASE ~LiveRun(r)
    BY <1>1, <1>5, <2>1, <2>3 DEF StartupReports
  <2>4. QED
    BY <2>2, <2>3
<1>6. ASSUME NEW r \in startups, StartupFails(r) PROVE StatusInv'
  BY <1>1, <1>6 DEF StartupFails, panelVars
<1>7. CASE DoDownload
  BY <1>1, <1>7 DEF DoDownload, Attempt, startupVars
<1>8. CASE DoDelete
  BY <1>1, <1>8 DEF DoDelete, Attempt, startupVars
<1>9. CASE ChangeLands
  BY <1>1, <1>9 DEF ChangeLands, startupVars
<1>10. CASE HookListsAgain
  BY <1>1, <1>10 DEF HookListsAgain, Done, startupVars
<1>11. CASE StatusRead
  BY <1>1, <1>11 DEF StatusRead, Done, startupVars
<1>12. CASE AttemptFails
  BY <1>1, <1>12 DEF AttemptFails, startupVars
<1>13. CASE HookLists
  BY <1>2, <1>13 DEF HookLists, startupVars
<1>14. ASSUME \/ RequestKeeping
              \/ \E q \in questions : BrowserDecides(q) \/ BrowserAnswers(q) \/ BrowserRejects(q)
       PROVE  StatusInv'
  BY <1>2, <1>14 DEF RequestKeeping, BrowserDecides, BrowserAnswers, BrowserRejects, startupVars, panelVars
<1>15. CASE UNCHANGED panelsVars
  BY <1>2, <1>15 DEF panelsVars, startupVars, panelVars
<1>16. QED
  BY <1>3, <1>4, <1>5, <1>6, <1>7, <1>8, <1>9, <1>10, <1>11, <1>12, <1>13, <1>14, <1>15 DEF PanelsNext

LEMMA KeepingKeeps ==
  ASSUME KeepingInv, [PanelsNext]_panelsVars
  PROVE  KeepingInv'
<1> DEFINE Questions == [call : {"persisted", "persist"}, answer : {"none", "yes", "no"}]
<1>1. ASSUME UNCHANGED keepingVars PROVE KeepingInv'
  BY <1>1 DEF KeepingInv, keepingVars
<1>2. CASE RequestKeeping
  <2> DEFINE asked == [call |-> "persist", answer |-> "none"]
  <2>1. armed /\ armed' = FALSE /\ questions' = questions \cup {asked} /\ UNCHANGED <<keeping, persistent>>
    BY <1>2 DEF RequestKeeping
  <2>2. asked \in Questions /\ asked.answer = "none"
    OBVIOUS
  <2> HIDE DEF asked, Questions
  <2>3. questions' = {asked}
    BY <2>1 DEF KeepingInv
  <2>4. QED
    BY <2>1, <2>2, <2>3 DEF KeepingInv, Questions
<1>3. ASSUME NEW q \in questions, BrowserDecides(q) PROVE KeepingInv'
  <2> DEFINE x == [q EXCEPT !.answer = IF persistent' THEN "yes" ELSE "no"]
  <2>1. /\ q \in Questions /\ q.answer = "none" /\ UNCHANGED <<keeping, armed>>
        /\ persistent => persistent'
        /\ questions' = (questions \ {q}) \cup {x}
    BY <1>3 DEF BrowserDecides, KeepingInv
  <2>2. /\ x \in Questions
        /\ x.answer = "yes" => persistent'
        /\ x.answer = "no" => ~persistent'
    BY <2>1
  <2> HIDE DEF x, Questions
  <2>3. questions' = {x} /\ ~armed'
    BY <2>1 DEF KeepingInv
  <2>4. /\ keeping' \in {"granted", "already-persistent"} => persistent'
        /\ questions' # {}
    BY <2>1, <2>3 DEF KeepingInv
  <2>5. QED
    BY <2>2, <2>3, <2>4 DEF KeepingInv, Questions
<1>4. ASSUME NEW q \in questions, BrowserAnswers(q) \/ BrowserRejects(q) PROVE KeepingInv'
  <2>1. questions = {q} /\ questions' = {} /\ persistent' = persistent
    BY <1>4 DEF BrowserAnswers, BrowserRejects, KeepingInv
  <2>2. \/ keeping' = "error"
        \/ q.answer # "none" /\ q.answer = "yes" /\ keeping' \in {"granted", "already-persistent"}
        \/ q.answer # "none" /\ q.answer # "yes" /\ keeping' \in {"denied", "unpersisted"}
    BY <1>4 DEF BrowserAnswers, BrowserRejects, RenderKeeping
  <2>3. q.answer \in {"none", "yes", "no"}
    BY DEF KeepingInv
  <2>4. QED
    BY <2>1, <2>2, <2>3 DEF KeepingInv
<1>5. ASSUME NEW r \in startups,
             StoresOpen(r) \/ RegionsInstalled(r) \/ StartupReports(r) \/ StartupFails(r)
      PROVE  KeepingInv'
  BY <1>1, <1>5 DEF StoresOpen, RegionsInstalled, StartupReports, StartupFails
<1>6. CASE \/ Restart \/ DoDownload \/ DoDelete \/ ChangeLands \/ HookListsAgain \/ StatusRead
           \/ AttemptFails \/ HookLists
  BY <1>1, <1>6 DEF Restart, DoDownload, DoDelete, Attempt, ChangeLands, HookListsAgain, StatusRead,
                    AttemptFails, HookLists
<1>7. CASE UNCHANGED panelsVars
  BY <1>1, <1>7 DEF panelsVars
<1>8. QED
  BY <1>2, <1>3, <1>4, <1>5, <1>6, <1>7 DEF PanelsNext

LEMMA InitPanels == PanelsInit => PanelsInv
<1> SUFFICES ASSUME PanelsInit PROVE PanelsInv
  OBVIOUS
<1>1. StartupInv
  <2>1. regionsStored \subseteq Nat /\ everStored \in Nat
    <3>1. Cardinality({}) = 0 /\ Cardinality({1}) = 1
      BY FS_EmptySet, FS_Singleton
    <3>2. QED
      BY <3>1 DEF PanelsInit
  <2>2. /\ Opening(1) \in StartupRecords /\ Opening(1).run = 1 /\ Opening(1).stage = "opening"
    BY DEF Opening, StartupRecords
  <2>3. /\ startups = {Opening(1)} /\ startupRuns = 1 /\ shell = "starting"
        /\ busy = "idle" /\ stage = "none" /\ confirmed /\ ~astray
    BY DEF PanelsInit
  <2>4. QED
    BY <2>1, <2>2, <2>3 DEF StartupInv
<1>2. StatusInv
  BY DEF PanelsInit, StatusInv, StatusIsTrue
<1>3. KeepingInv
  <2> DEFINE asked == [call |-> "persisted", answer |-> "none"]
  <2>1. asked \in [call : {"persisted", "persist"}, answer : {"none", "yes", "no"}] /\ asked.answer = "none"
    OBVIOUS
  <2>2. questions = {asked} /\ keeping = "checking" /\ armed = FALSE /\ persistent \in BOOLEAN
    BY DEF PanelsInit
  <2> HIDE DEF asked
  <2>3. QED
    BY <2>1, <2>2 DEF KeepingInv
<1>4. QED
  BY <1>1, <1>2, <1>3 DEF PanelsInv

(* For any number of regions and of runs of the startup effect: once the   *)
(* map may be mounted every region then stored is answered from the store, *)
(* a status shown as confirmed is what is stored unless it rests on a      *)
(* deletion of a stale list, the browser is asked one thing at a time, and *)
(* what the persistence control says is what the browser does.             *)
THEOREM PanelsAlwaysTellTheTruth ==
  PanelsSpec => []PanelsTellTheTruth
<1>1. PanelsInv => PanelsTellTheTruth
  <2> SUFFICES ASSUME PanelsInv PROVE PanelsTellTheTruth
    OBVIOUS
  <2>1. Cardinality(questions) <= 1
    <3>1. CASE questions = {}
      BY <3>1, FS_EmptySet
    <3>2. CASE questions # {}
      <4>1. PICK q \in questions : TRUE
        BY <3>2
      <4>2. questions = {q}
        BY DEF PanelsInv, KeepingInv
      <4>3. Cardinality({q}) = 1
        BY FS_Singleton
      <4>4. QED
        BY <4>2, <4>3
    <3>3. QED
      BY <3>1, <3>2
  <2>2. KeepingIsTrue
    BY <2>1 DEF KeepingIsTrue, PanelsInv, KeepingInv
  <2>3. QED
    BY <2>2 DEF PanelsTellTheTruth, PanelsInv, StatusInv
<1>2. PanelsInv /\ [PanelsNext]_panelsVars => PanelsInv'
  BY StartupKeeps, StatusKeeps, KeepingKeeps DEF PanelsInv
<1>3. QED
  BY <1>1, <1>2, InitPanels, PTL DEF PanelsSpec

-----------------------------------------------------------------------------
(* The demo's trip loop: what is bound to a trip, and what a review shows. *)

Event == [id : Nat, trip : Int]
(* The trips of a flow so far: those of the loop and those of a drawing    *)
(* are apart.                                                              *)
TripsOf(f) == IF f = "loop" THEN 1..recordings ELSE (MaxRecordings + 1)..Drawn
SaveHandler == [kind : {"save"}, flow : Flows, trip : Int, stage : {"adding", "listing", "releasing"},
                id : Nat, context : Int]
FinishHandler == [kind : {"finish"}, flow : Flows, trip : Int, stage : {"finishing", "binding"},
                  context : Int, left : SUBSET Event]
OtherHandler == [kind : {"start"}, flow : {"loop"}] \cup [kind : {"open"}, flow : {"loop"}, trip : Int]

Saves == {h \in handlers : h.kind = "save"}
Finishes == {h \in handlers : h.kind = "finish"}
Starting == \E h \in handlers : h.kind = "start"

LoopTypes ==
  /\ recordings \in 0..MaxRecordings /\ drawings \in 0..MaxDrawings
  /\ reviewing \in Int
  /\ counts \in [events : Nat, openings : Nat]
  /\ handlers \subseteq SaveHandler \cup FinishHandler \cup OtherHandler
  /\ writtenIds \in [Flows -> SUBSET Nat]
  /\ stored \subseteq Event
  /\ shownEvents \in [Flows -> SUBSET Event]
  /\ DOMAIN belongs \subseteq 1..counts.events
  /\ finished \subseteq Int /\ disturbed \subseteq Int

(* Every trip there is was recorded or drawn, and by its own flow.         *)
TripsKnown ==
  /\ \A h \in Saves \cup Finishes : h.trip \in TripsOf(h.flow)
  /\ \A i \in DOMAIN belongs : belongs[i] \in TripsOf("loop") \cup TripsOf("author")
  /\ finished \subseteq TripsOf("loop") \cup TripsOf("author")
  /\ (recording => recordings > 0) /\ (authoring => drawings > 0)

(* While a recording is being started none is under way.                   *)
StartAlone == Starting => ~recording /\ recordings < MaxRecordings

(* The writes of the loop that are open, by their events' ids, are as many *)
(* as it counts: with a count of zero nothing is being written.            *)
OpenWrites == {h.id : h \in {g \in Saves : g.flow = "loop"}}

WritesCounted == writesOpen = Cardinality(OpenWrites)

(* A write under way is of an event of its own that was not reported,      *)
(* stored once it is to be listed; the loop's began with no trip under     *)
(* review.                                                                 *)
SavesSound ==
  /\ \A h \in Saves : h.id \notin DOMAIN belongs /\ h.id \in 1..counts.events
  /\ \A h, g \in Saves : h.id = g.id => h = g
  /\ \A h \in Saves : h.stage = "listing" => \E s \in stored : s.id = h.id
  /\ \A h \in Saves : h.flow = "loop" => h.context = NoTrip

(* An event the loop is writing is of the trip recorded, and that trip is  *)
(* not being finished, or the trip is exempt.                              *)
SavesOfTheRecording ==
  \A h \in Saves :
    h.flow = "loop" /\ h.trip \notin disturbed =>
      recording /\ h.trip = Recorded /\ \A g \in Finishes : g.flow # "loop"

Active(f) == IF f = "loop" THEN recording ELSE authoring

(* The key to stop and the drawing's save: whatever was reported of the    *)
(* trip that is open is in the ids and in the list of its flow, of which   *)
(* the next render takes what is to be bound.                              *)
SavedIsListed ==
  \A f \in Flows : \A i \in DOMAIN belongs :
    Active(f) /\ TripOf(f) \notin disturbed /\ belongs[i] = TripOf(f)
      => i \in writtenIds[f] /\ \E e \in shownEvents[f] : e.id = i

HasEvents(t) == (\E i \in DOMAIN belongs : belongs[i] = t) \/ (\E h \in Saves : h.trip = t)

(* So while a recording has events it is what the loop shows, and only its *)
(* own finish may be under way: another list would hide its events.        *)
RecordedInFront ==
  recording /\ Recorded \notin disturbed /\ HasEvents(Recorded)
    => /\ reviewing = NoTrip
       /\ \A g \in Finishes : g.flow = "loop" => g.trip = Recorded /\ g.stage = "finishing"

(* What a flow counts as written is of its trip; the loop may still hold   *)
(* ids of an exempt one.                                                   *)
OfTrip(i, f, t) ==
  /\ i \in DOMAIN belongs /\ belongs[i] \in TripsOf(f)
  /\ belongs[i] = t \/ (f = "loop" /\ belongs[i] \in disturbed)

WrittenSound ==
  /\ \A f \in Flows : \A i \in writtenIds[f] : OfTrip(i, f, TripOf(f))
  /\ Starting => \A i \in writtenIds["loop"] : belongs[i] \in disturbed

(* What a finish has left to bind is of its trip.                          *)
LeftSound ==
  \A h \in Finishes : \A e \in h.left : OfTrip(e.id, h.flow, h.trip)

(* A finish has bound, or has left to bind, all that was reported of its   *)
(* trip.                                                                   *)
FinishBindsAll ==
  \A h \in Finishes : \A i \in DOMAIN belongs :
    h.trip \notin disturbed /\ belongs[i] = h.trip
      => [id |-> i, trip |-> h.trip] \in stored \/ \E e \in h.left : e.id = i

(* No event is being written to a trip that is being finished or that was, *)
(* unless it is exempt: what is bound next is final.                       *)
FinishMeetsNoSave ==
  \A h \in Saves :
    /\ \A g \in Finishes : g.trip = h.trip => h.trip \in disturbed
    /\ h.trip \in finished => h.trip \in disturbed

(* A trip that is open was not finished, and a recording that was ended is *)
(* not open.                                                               *)
ActiveIsNotFinished ==
  /\ \A f \in Flows : Active(f) => TripOf(f) \notin finished
  /\ \A h \in Finishes : h.flow = "loop" /\ recording /\ h.stage = "binding" => h.trip # Recorded

(* What was reported is stored; what is stored under a drawing is that     *)
(* drawing's; and the loop shows no binding that is not stored.            *)
StoredSound ==
  /\ \A i \in DOMAIN belongs : \E s \in stored : s.id = i
  /\ \A s \in stored : s.trip # NoTrip =>
       s.id \in DOMAIN belongs /\ (belongs[s.id] \in TripsOf("author") => s.trip = belongs[s.id])
  /\ \A e \in shownEvents["loop"] : e.trip # NoTrip => e \in stored

LoopSound ==
  /\ TripsKnown /\ StartAlone /\ WritesCounted /\ SavesSound /\ SavesOfTheRecording
  /\ SavedIsListed /\ RecordedInFront /\ WrittenSound /\ LeftSound /\ FinishBindsAll
  /\ FinishMeetsNoSave /\ ActiveIsNotFinished /\ StoredSound /\ EventsFollowTheirTrip

LoopInv == LoopTypes /\ LoopSound

LEMMA KindsTell ==
  ASSUME LoopTypes
  PROVE  /\ Saves \subseteq SaveHandler /\ Finishes \subseteq FinishHandler
         /\ \A h \in handlers : h.kind = "open" => h.trip \in Int
BY DEF LoopTypes, Saves, Finishes, SaveHandler, FinishHandler, OtherHandler

(* A step that leaves alone all the loop is about.                         *)
LEMMA SameLoop ==
  ASSUME LoopSound,
         UNCHANGED <<recording, recordings, Saves, Finishes, Starting, reviewing, authoring, drawings,
                     writesOpen, writtenIds, stored, shownEvents, counts.events, belongs, finished, disturbed>>
  PROVE  LoopSound'
<1>1. TripsKnown' /\ StartAlone' /\ WritesCounted' /\ SavesSound' /\ SavesOfTheRecording'
  BY DEF LoopSound, TripsKnown, TripsOf, Drawn, StartAlone, WritesCounted, OpenWrites, SavesSound,
         SavesOfTheRecording, Recorded
<1>2. SavedIsListed' /\ RecordedInFront' /\ WrittenSound' /\ LeftSound'
  BY DEF LoopSound, SavedIsListed, RecordedInFront, WrittenSound, LeftSound, TripsOf, Drawn,
         TripOf, Recorded, Active, HasEvents, OfTrip
<1>3. FinishBindsAll' /\ FinishMeetsNoSave' /\ ActiveIsNotFinished' /\ StoredSound' /\ EventsFollowTheirTrip'
  BY DEF LoopSound, FinishBindsAll, FinishMeetsNoSave, ActiveIsNotFinished, StoredSound,
         EventsFollowTheirTrip, TripsOf, Drawn, TripOf, Recorded, Active
<1> QED BY <1>1, <1>2, <1>3 DEF LoopSound

LEMMA PinsKeep ==
  ASSUME LoopInv, NEW f \in Flows, Pin(f) \/ CancelPin(f)
  PROVE  LoopInv'
<1>1. UNCHANGED <<recording, recordings, handlers, reviewing, authoring, drawings, writesOpen,
                  writtenIds, stored, shownEvents, counts, belongs, finished, disturbed>>
  BY DEF Pin, CancelPin
<1>2. LoopTypes'
  BY <1>1 DEF LoopInv, LoopTypes
<1>3. UNCHANGED <<Saves, Finishes, Starting>>
  BY <1>1 DEF Saves, Finishes, Starting
<1> QED BY <1>1, <1>2, <1>3, SameLoop DEF LoopInv

LEMMA OpensKeep ==
  ASSUME LoopInv,
         (\E t \in finished \cup {0} : OpenTrip(t)) \/ (\E h \in handlers : TripNotOpened(h))
  PROVE  LoopInv'
<1>1. /\ UNCHANGED <<recording, recordings, reviewing, authoring, drawings, writesOpen, writtenIds,
                     stored, shownEvents, belongs, finished, disturbed>>
      /\ counts'.events = counts.events
      /\ counts' \in [events : Nat, openings : Nat]
  BY DEF OpenTrip, TripNotOpened, LoopInv, LoopTypes
<1>2. PICK h : /\ h.kind = "open"
               /\ handlers' = handlers \cup {h} \/ handlers' = handlers \ {h}
               /\ h \in OtherHandler
  <2>1. ASSUME NEW t \in finished \cup {0}, OpenTrip(t)
        PROVE  \E h : /\ h.kind = "open"
                      /\ handlers' = handlers \cup {h}
                      /\ h \in OtherHandler
    <3> DEFINE n == [kind |-> "open", flow |-> "loop", trip |-> t]
    <3>1. handlers' = handlers \cup {n} /\ n.kind = "open"
      BY <2>1 DEF OpenTrip
    <3>2. t \in Int
      BY DEF LoopInv, LoopTypes
    <3>3. n \in OtherHandler
      BY <3>2 DEF OtherHandler
    <3> QED BY <3>1, <3>3
  <2>2. ASSUME NEW h \in handlers, TripNotOpened(h)
        PROVE  h.kind = "open" /\ handlers' = handlers \ {h} /\ h \in OtherHandler
    BY <2>2 DEF TripNotOpened, LoopInv, LoopTypes, SaveHandler, FinishHandler
  <2> QED BY <2>1, <2>2
<1>3. UNCHANGED <<Saves, Finishes, Starting>>
  BY <1>2 DEF Saves, Finishes, Starting
<1>4. handlers' \subseteq SaveHandler \cup FinishHandler \cup OtherHandler
  BY <1>2 DEF LoopInv, LoopTypes
<1>5. LoopTypes'
  BY <1>1, <1>4 DEF LoopInv, LoopTypes
<1> QED BY <1>1, <1>3, <1>5, SameLoop DEF LoopInv

(* Handlers leave, and nothing else happens.                               *)
LEMMA FewerHandlers ==
  ASSUME LoopSound,
         UNCHANGED <<recording, recordings, reviewing, authoring, drawings,
                     writtenIds, stored, shownEvents, counts.events, belongs, finished, disturbed>>,
         Finishes' \subseteq Finishes, Saves' \subseteq Saves, Starting' => Starting, WritesCounted'
  PROVE  LoopSound'
<1>1. TripsKnown' /\ StartAlone' /\ SavesSound' /\ SavesOfTheRecording'
  BY DEF LoopSound, TripsKnown, TripsOf, Drawn, StartAlone, SavesSound, SavesOfTheRecording,
         Recorded
<1>2. SavedIsListed' /\ RecordedInFront' /\ WrittenSound' /\ LeftSound'
  BY DEF LoopSound, SavedIsListed, RecordedInFront, WrittenSound, LeftSound, TripsOf, Drawn,
         TripOf, Recorded, Active, HasEvents, OfTrip
<1>3. FinishBindsAll' /\ FinishMeetsNoSave' /\ ActiveIsNotFinished' /\ StoredSound' /\ EventsFollowTheirTrip'
  BY DEF LoopSound, FinishBindsAll, FinishMeetsNoSave, ActiveIsNotFinished, StoredSound,
         EventsFollowTheirTrip, TripsOf, Drawn, TripOf, Recorded, Active
<1> QED BY <1>1, <1>2, <1>3 DEF LoopSound

LEMMA FinishFailsKeeps ==
  ASSUME LoopInv, NEW h \in handlers, FinishFails(h)
  PROVE  LoopInv'
<1>1. /\ UNCHANGED <<recording, recordings, reviewing, authoring, drawings, writesOpen, writtenIds,
                     stored, shownEvents, counts, belongs, finished, disturbed>>
      /\ h.kind = "finish" /\ handlers' = handlers \ {h}
  BY DEF FinishFails
<1>2. Saves' = Saves /\ Finishes' \subseteq Finishes /\ (Starting' => Starting)
  BY <1>1 DEF Saves, Finishes, Starting
<1>3. LoopTypes'
  BY <1>1 DEF LoopInv, LoopTypes
<1>4. WritesCounted'
  BY <1>1, <1>2 DEF LoopInv, LoopSound, WritesCounted, OpenWrites
<1> QED BY <1>1, <1>2, <1>3, <1>4, FewerHandlers DEF LoopInv

(* A write that settles is one fewer, as its event is in no other.         *)
LEMMA WriteCloses ==
  ASSUME LoopInv, NEW h \in Saves, Saves' = Saves \ {h},
         writesOpen' = IF h.flow = "loop" THEN writesOpen - 1 ELSE writesOpen
  PROVE  WritesCounted'
<1>1. OpenWrites \subseteq 1..counts.events /\ counts.events \in Nat
  BY DEF LoopInv, LoopTypes, LoopSound, SavesSound, OpenWrites
<1>2. IsFiniteSet(OpenWrites)
  <2>1. IsFiniteSet(1..counts.events)
    BY <1>1, FS_Interval
  <2> QED BY <1>1, <2>1, FS_Subset
<1>3. CASE h.flow = "loop"
  <2>1. OpenWrites' = OpenWrites \ {h.id} /\ h.id \in OpenWrites
    BY <1>3 DEF LoopInv, LoopSound, SavesSound, OpenWrites
  <2>2. Cardinality(OpenWrites') = Cardinality(OpenWrites) - 1
    BY <2>1, <1>2, FS_RemoveElement
  <2> QED BY <2>2, <1>3 DEF WritesCounted, LoopInv, LoopSound
<1>4. CASE h.flow # "loop"
  <2>1. OpenWrites' = OpenWrites
    BY <1>4 DEF OpenWrites
  <2> QED BY <2>1, <1>4 DEF WritesCounted, LoopInv, LoopSound
<1> QED BY <1>3, <1>4

LEMMA MediaReleasedKeeps ==
  ASSUME LoopInv, NEW h \in handlers, MediaReleased(h)
  PROVE  LoopInv'
<1>1. /\ UNCHANGED <<recording, recordings, reviewing, authoring, drawings, writtenIds,
                     stored, shownEvents, counts, belongs, finished, disturbed>>
      /\ h.kind = "save" /\ handlers' = handlers \ {h}
      /\ writesOpen' = IF h.flow = "loop" THEN writesOpen - 1 ELSE writesOpen
  BY DEF MediaReleased, Settled
<1>2. h \in Saves /\ Saves' = Saves \ {h} /\ Finishes' = Finishes /\ (Starting' => Starting)
  BY <1>1 DEF Saves, Finishes, Starting
<1>3. LoopTypes'
  BY <1>1 DEF LoopInv, LoopTypes
<1>4. WritesCounted'
  BY <1>1, <1>2, WriteCloses
<1>5. Saves' \subseteq Saves /\ Finishes' \subseteq Finishes
  BY <1>2
<1> QED BY <1>1, <1>2, <1>3, <1>4, <1>5, FewerHandlers DEF LoopInv

(* A write moves on to its next stage.                                     *)
LEMMA SaveMovesOn ==
  ASSUME LoopInv, NEW h \in Saves, NEW n \in SaveHandler,
         n.id = h.id, n.flow = h.flow, n.trip = h.trip, n.context = h.context,
         handlers' = (handlers \ {h}) \cup {n},
         UNCHANGED <<recording, recordings, reviewing, authoring, drawings, writesOpen,
                     writtenIds, shownEvents, counts, belongs, finished, disturbed>>,
         stored \subseteq stored', stored' \subseteq Event,
         \A s \in stored' : s \in stored \/ s.trip = NoTrip,
         n.stage = "listing" => \E s \in stored' : s.id = h.id
  PROVE  LoopInv'
<1>1. /\ Saves' = (Saves \ {h}) \cup {n}
      /\ Finishes' = Finishes /\ Starting' = Starting
  BY DEF Saves, Finishes, Starting, SaveHandler
<1>2. LoopTypes'
  BY DEF LoopInv, LoopTypes
<1>3. WritesCounted'
  <2>1. OpenWrites' = OpenWrites
    BY <1>1 DEF OpenWrites
  <2> QED BY <2>1 DEF LoopInv, LoopSound, WritesCounted
<1>4. TripsKnown' /\ StartAlone'
  BY <1>1 DEF LoopInv, LoopSound, TripsKnown, TripsOf, Drawn, StartAlone
<1>5. SavesSound'
  BY <1>1 DEF LoopInv, LoopSound, SavesSound
<1>6. SavesOfTheRecording' /\ FinishMeetsNoSave'
  BY <1>1 DEF LoopInv, LoopSound, SavesOfTheRecording, FinishMeetsNoSave, Recorded
<1>7. SavedIsListed' /\ WrittenSound' /\ LeftSound'
  BY <1>1
     DEF LoopInv, LoopSound, SavedIsListed, WrittenSound, LeftSound, TripsOf, Drawn, TripOf,
         Recorded, Active, OfTrip
<1>8. RecordedInFront'
  BY <1>1 DEF LoopInv, LoopSound, RecordedInFront, Recorded, HasEvents
<1>9. FinishBindsAll' /\ ActiveIsNotFinished' /\ EventsFollowTheirTrip'
  BY <1>1
     DEF LoopInv, LoopSound, FinishBindsAll, ActiveIsNotFinished, EventsFollowTheirTrip, TripOf,
         Drawn, Recorded, Active
<1>10. StoredSound'
  BY <1>1 DEF LoopInv, LoopSound, StoredSound, TripsOf, Drawn
<1> QED BY <1>2, <1>3, <1>4, <1>5, <1>6, <1>7, <1>8, <1>9, <1>10 DEF LoopInv, LoopSound

LEMMA EventAddedKeeps ==
  ASSUME LoopInv, NEW h \in handlers, EventAdded(h)
  PROVE  LoopInv'
<1> DEFINE n == [h EXCEPT !.stage = "listing"]
<1>1. h \in Saves /\ h \in SaveHandler
  BY KindsTell DEF EventAdded, Saves, LoopInv
<1>2. n \in SaveHandler /\ n.id = h.id /\ n.flow = h.flow /\ n.trip = h.trip /\ n.context = h.context
  BY <1>1 DEF SaveHandler
<1>3. /\ handlers' = (handlers \ {h}) \cup {n}
      /\ stored' = stored \cup {[id |-> h.id, trip |-> NoTrip]}
      /\ UNCHANGED <<recording, recordings, reviewing, authoring, drawings, writesOpen,
                     writtenIds, shownEvents, counts, belongs, finished, disturbed>>
  BY DEF EventAdded
<1> HIDE DEF n
<1>4. [id |-> h.id, trip |-> NoTrip] \in Event
  BY <1>1 DEF SaveHandler, Event, NoTrip
<1>5. /\ stored \subseteq stored' /\ stored' \subseteq Event
      /\ \A s \in stored' : s \in stored \/ s.trip = NoTrip
      /\ \E s \in stored' : s.id = h.id
  BY <1>3, <1>4 DEF LoopInv, LoopTypes
<1> QED BY <1>1, <1>2, <1>3, <1>5, SaveMovesOn

LEMMA SaveFailsKeeps ==
  ASSUME LoopInv, NEW h \in handlers, SaveFails(h)
  PROVE  LoopInv'
<1> DEFINE n == [h EXCEPT !.stage = "releasing"]
<1>1. h \in Saves /\ h \in SaveHandler
  BY KindsTell DEF SaveFails, Saves, LoopInv
<1>2. n \in SaveHandler /\ n.id = h.id /\ n.flow = h.flow /\ n.trip = h.trip /\ n.context = h.context
      /\ n.stage = "releasing"
  BY <1>1 DEF SaveHandler
<1>3. /\ handlers' = (handlers \ {h}) \cup {n}
      /\ UNCHANGED <<recording, recordings, reviewing, authoring, drawings, writesOpen, stored,
                     writtenIds, shownEvents, counts, belongs, finished, disturbed>>
  BY DEF SaveFails
<1> HIDE DEF n
<1>5. /\ stored \subseteq stored' /\ stored' \subseteq Event
      /\ \A s \in stored' : s \in stored \/ s.trip = NoTrip
      /\ (n.stage = "listing" => \E s \in stored' : s.id = h.id)
  BY <1>2, <1>3 DEF LoopInv, LoopTypes
<1> QED BY <1>1, <1>2, <1>3, <1>5, SaveMovesOn

(* A trip tells the flow it is of.                                         *)
LEMMA FlowsApart ==
  ASSUME LoopTypes, TripsKnown
  PROVE  /\ TripsOf("loop") \cap TripsOf("author") = {}
         /\ TripsOf("loop") \cup TripsOf("author") \subseteq 1..(MaxRecordings + MaxDrawings)
         /\ \A h \in Saves \cup Finishes : h.flow \in Flows
         /\ \A h, g \in Saves \cup Finishes : h.trip = g.trip => h.flow = g.flow
<1>1. TripsOf("loop") = 1..recordings /\ TripsOf("author") = (MaxRecordings + 1)..(MaxRecordings + drawings)
  BY DEF TripsOf, Drawn
<1>2. TripsOf("loop") \cap TripsOf("author") = {}
  BY <1>1, DemoLoopAssumption DEF LoopTypes
<1>3. TripsOf("loop") \cup TripsOf("author") \subseteq 1..(MaxRecordings + MaxDrawings)
  BY <1>1, DemoLoopAssumption DEF LoopTypes
<1>4. \A h \in Saves \cup Finishes : h.flow \in Flows
  BY KindsTell DEF SaveHandler, FinishHandler
<1>5. \A h, g \in Saves \cup Finishes : h.trip = g.trip => h.flow = g.flow
  BY <1>2, <1>4 DEF TripsKnown, Flows
<1> QED BY <1>2, <1>3, <1>4, <1>5

(* A new event is of the trip that is open: no finish of it is under way,  *)
(* or the trip is exempt, and nothing was reported of it before.           *)
LEMMA HandOverKeeps ==
  ASSUME LoopInv, NEW f \in Flows, HandOver(f)
  PROVE  LoopInv'
<1> DEFINE n == [kind |-> "save", flow |-> f, trip |-> TripOf(f), stage |-> "adding", id |-> counts.events + 1,
                 context |-> reviewing]
<1>1. /\ UNCHANGED <<recording, recordings, reviewing, authoring, drawings, writtenIds,
                     stored, shownEvents, belongs, finished>>
      /\ handlers' = handlers \cup {n}
      /\ writesOpen' = IF f = "loop" THEN writesOpen + 1 ELSE writesOpen
  BY DEF HandOver
<1>2. /\ counts'.events = counts.events + 1 /\ counts' \in [events : Nat, openings : Nat]
  BY DEF HandOver, LoopInv, LoopTypes
<1>3. /\ disturbed \subseteq disturbed' /\ disturbed' \subseteq Int
      /\ \A g \in Finishes : g.flow = f => TripOf(f) \in disturbed'
  BY DemoLoopAssumption DEF HandOver, Of, Finishes, LoopInv, LoopTypes, TripOf, Recorded, Drawn
<1>4. Active(f) /\ (f = "loop" => reviewing = NoTrip) /\ TripOf(f) \in TripsOf(f)
  BY DemoLoopAssumption
     DEF HandOver, ComposerShown, composable, Active, TripOf, TripsOf, Recorded, Drawn, LoopInv,
         LoopTypes, LoopSound, TripsKnown
<1>5. /\ n \in SaveHandler /\ n.id = counts.events + 1 /\ n.flow = f /\ n.trip = TripOf(f)
      /\ n.context = reviewing /\ n.stage = "adding" /\ n.kind = "save"
  BY DemoLoopAssumption DEF SaveHandler, LoopInv, LoopTypes, TripOf, Recorded, Drawn
<1> HIDE DEF n
<1>6. Saves' = Saves \cup {n} /\ Finishes' = Finishes /\ Starting' = Starting
  BY <1>1, <1>5 DEF Saves, Finishes, Starting
<1>7. n \notin Saves /\ \A h \in Saves : h.id # n.id
  BY <1>5 DEF LoopInv, LoopSound, LoopTypes, SavesSound
<1>8. LoopTypes'
  BY <1>1, <1>2, <1>3, <1>5 DEF LoopInv, LoopTypes
<1>9. WritesCounted'
  <2>1. OpenWrites \subseteq 1..counts.events /\ counts.events \in Nat
    BY DEF LoopInv, LoopTypes, LoopSound, SavesSound, OpenWrites
  <2>2. IsFiniteSet(OpenWrites)
    <3>1. IsFiniteSet(1..counts.events)
      BY <2>1, FS_Interval
    <3> QED BY <2>1, <3>1, FS_Subset
  <2>3. CASE f = "loop"
    <3>1. OpenWrites' = OpenWrites \cup {n.id} /\ n.id \notin OpenWrites
      BY <2>3, <1>5, <1>6, <1>7 DEF OpenWrites
    <3>2. Cardinality(OpenWrites') = Cardinality(OpenWrites) + 1
      BY <2>2, <3>1, FS_AddElement
    <3> QED BY <3>2, <2>3, <1>1 DEF WritesCounted, LoopInv, LoopSound
  <2>4. CASE f # "loop"
    <3>1. OpenWrites' = OpenWrites
      BY <2>4, <1>5, <1>6 DEF OpenWrites
    <3> QED BY <3>1, <2>4, <1>1 DEF WritesCounted, LoopInv, LoopSound
  <2> QED BY <2>3, <2>4
<1>10. TripsKnown' /\ StartAlone'
  BY <1>1, <1>4, <1>5, <1>6 DEF LoopInv, LoopSound, TripsKnown, TripsOf, Drawn, StartAlone
<1>11. SavesSound'
  <2>1. DOMAIN belongs \subseteq 1..counts.events /\ counts.events \in Nat
    BY DEF LoopInv, LoopTypes
  <2>2. n.id \notin DOMAIN belongs /\ n.id \in 1..counts'.events
    BY <2>1, <1>5, <1>2
  <2> QED BY <1>1, <1>2, <1>4, <1>5, <1>6, <1>7, <2>1, <2>2 DEF LoopInv, LoopSound, SavesSound
<1>12. SavesOfTheRecording'
  BY <1>1, <1>3, <1>4, <1>5, <1>6
     DEF LoopInv, LoopSound, SavesOfTheRecording, TripOf, Recorded, Active
<1>13. FinishMeetsNoSave'
  <2>1. \A g \in Finishes : g.trip = n.trip => n.trip \in disturbed'
    <3>1. SUFFICES ASSUME NEW g \in Finishes, g.trip = n.trip PROVE g.flow = f
      BY <1>3, <1>5
    <3>2. g.trip \in TripsOf(g.flow) /\ g.flow \in Flows
      BY FlowsApart DEF LoopInv, LoopSound, TripsKnown
    <3> QED BY <3>1, <3>2, <1>4, <1>5, FlowsApart DEF LoopInv, LoopSound, Flows
  <2>2. n.trip \notin finished
    BY <1>4, <1>5 DEF LoopInv, LoopSound, ActiveIsNotFinished
  <2> QED BY <1>1, <1>3, <1>6, <2>1, <2>2 DEF LoopInv, LoopSound, FinishMeetsNoSave
<1>14. SavedIsListed' /\ WrittenSound' /\ LeftSound'
  BY <1>1, <1>3, <1>6
     DEF LoopInv, LoopSound, SavedIsListed, WrittenSound, LeftSound, TripsOf, Drawn, TripOf,
         Recorded, Active, OfTrip
<1>15. RecordedInFront'
  <2>1. SUFFICES ASSUME recording, Recorded \notin disturbed', HasEvents(Recorded)'
        PROVE  reviewing = NoTrip /\ \A g \in Finishes : g.flow = "loop" => g.trip = Recorded /\ g.stage = "finishing"
    BY <1>1, <1>6 DEF RecordedInFront, Recorded
  <2>2. CASE HasEvents(Recorded)
    BY <2>1, <2>2, <1>3 DEF LoopInv, LoopSound, RecordedInFront
  <2>3. CASE ~HasEvents(Recorded)
    <3>1. n.trip = Recorded
      BY <2>1, <2>3, <1>1, <1>6 DEF HasEvents, Recorded
    <3>2. f = "loop"
      BY <3>1, <1>5, <1>4, DemoLoopAssumption
         DEF TripOf, TripsOf, Recorded, Drawn, Flows, LoopInv, LoopTypes
    <3> QED BY <3>1, <3>2, <2>1, <1>3, <1>4, <1>5
  <2> QED BY <2>2, <2>3
<1>16. FinishBindsAll' /\ ActiveIsNotFinished' /\ EventsFollowTheirTrip'
  BY <1>1, <1>3, <1>6
     DEF LoopInv, LoopSound, FinishBindsAll, ActiveIsNotFinished, EventsFollowTheirTrip, TripOf,
         Drawn, Recorded, Active
<1>17. StoredSound'
  BY <1>1 DEF LoopInv, LoopSound, StoredSound, TripsOf, Drawn
<1> QED BY <1>8, <1>9, <1>10, <1>11, <1>12, <1>13, <1>14, <1>15, <1>16, <1>17 DEF LoopInv, LoopSound

(* The render's list and ids hold all that was reported of the trip.       *)
LEMMA FinishTripKeeps ==
  ASSUME LoopInv, NEW f \in Flows, FinishTrip(f)
  PROVE  LoopInv'
<1> DEFINE left == {e \in shownEvents[f] : e.id \in writtenIds[f]}
           n == [kind |-> "finish", flow |-> f, trip |-> TripOf(f), stage |-> "finishing", context |-> reviewing,
                 left |-> left]
<1>1. /\ UNCHANGED <<recording, recordings, reviewing, authoring, drawings, writesOpen, writtenIds,
                     stored, shownEvents, counts, belongs, finished>>
      /\ handlers' = handlers \cup {n}
  BY DEF FinishTrip
<1>3. /\ disturbed \subseteq disturbed' /\ disturbed' \subseteq Int
      /\ f = "author" => \A g \in Saves : g.flow = f => TripOf(f) \in disturbed'
  <2>1. TripOf(f) \in Int
    BY DemoLoopAssumption DEF LoopInv, LoopTypes, TripOf, Recorded, Drawn
  <2>2. disturbed' = disturbed \/ disturbed' = disturbed \cup {TripOf(f)}
    BY DEF FinishTrip
  <2>3. ASSUME f = "author", NEW g \in Saves, g.flow = f PROVE TripOf(f) \in disturbed'
    <3>1. \E h \in Of("save") : h.flow = f
      BY <2>3 DEF Saves, Of
    <3> QED BY <3>1, <2>3 DEF FinishTrip
  <2> QED BY <2>1, <2>2, <2>3 DEF LoopInv, LoopTypes
<1>4. Active(f) /\ TripOf(f) \in TripsOf(f)
  BY DemoLoopAssumption
     DEF FinishTrip, finalizable, Active, TripOf, TripsOf, Recorded, Drawn, LoopInv, LoopTypes,
         LoopSound, TripsKnown
<1>2. f = "loop" => \A g \in Saves : g.flow # "loop"
  <2>1. SUFFICES ASSUME f = "loop" PROVE \A g \in Saves : g.flow # "loop"
    OBVIOUS
  <2>2. OpenWrites \subseteq 1..counts.events /\ counts.events \in Nat
    BY DEF LoopInv, LoopTypes, LoopSound, SavesSound, OpenWrites
  <2>3. IsFiniteSet(OpenWrites)
    <3>1. IsFiniteSet(1..counts.events)
      BY <2>2, FS_Interval
    <3> QED BY <2>2, <3>1, FS_Subset
  <2>4. Cardinality(OpenWrites) = 0
    BY <2>1 DEF FinishTrip, finalizable, LoopInv, LoopSound, WritesCounted
  <2>5. OpenWrites = {}
    BY <2>3, <2>4, FS_EmptySet
  <2> QED BY <2>5 DEF OpenWrites
<1>5. left \subseteq Event
  BY DEF LoopInv, LoopTypes
<1>6. /\ n \in FinishHandler /\ n.flow = f /\ n.trip = TripOf(f)
      /\ n.left = left /\ n.stage = "finishing" /\ n.kind = "finish"
  BY <1>5, DemoLoopAssumption DEF FinishHandler, LoopInv, LoopTypes, TripOf, Recorded, Drawn
<1>7. \A e \in left : e \in shownEvents[f] /\ e.id \in writtenIds[f]
  OBVIOUS
<1>8. \A i \in writtenIds[f] : (\E e \in shownEvents[f] : e.id = i) => \E e \in left : e.id = i
  OBVIOUS
<1> HIDE DEF n, left
<1>9. Saves' = Saves /\ Finishes' = Finishes \cup {n} /\ Starting' = Starting
  BY <1>1, <1>6 DEF Saves, Finishes, Starting
<1>10. LoopTypes'
  BY <1>1, <1>3, <1>6 DEF LoopInv, LoopTypes
<1>11. TripsKnown' /\ StartAlone' /\ WritesCounted' /\ SavesSound'
  BY <1>1, <1>4, <1>6, <1>9
     DEF LoopInv, LoopSound, TripsKnown, TripsOf, Drawn, StartAlone, WritesCounted, OpenWrites,
         SavesSound
<1>12. SavesOfTheRecording'
  BY <1>1, <1>2, <1>3, <1>6, <1>9 DEF LoopInv, LoopSound, SavesOfTheRecording, Recorded
<1>13. SavedIsListed' /\ WrittenSound'
  BY <1>1, <1>3, <1>9
     DEF LoopInv, LoopSound, SavedIsListed, WrittenSound, TripsOf, Drawn, TripOf, Recorded,
         Active, OfTrip
<1>14. RecordedInFront'
  BY <1>1, <1>3, <1>6, <1>9 DEF LoopInv, LoopSound, RecordedInFront, HasEvents, TripOf, Recorded
<1>15. LeftSound'
  <2>1. \A e \in n.left : OfTrip(e.id, f, TripOf(f))
    BY <1>6, <1>7 DEF LoopInv, LoopSound, WrittenSound
  <2>2. \A i, t, g : OfTrip(i, g, t) => OfTrip(i, g, t)'
    BY <1>1, <1>3 DEF OfTrip, TripsOf, Drawn
  <2> QED BY <2>1, <2>2, <1>1, <1>6, <1>9 DEF LoopInv, LoopSound, LeftSound, TripOf, Recorded, Drawn
<1>16. FinishBindsAll'
  <2>1. ASSUME NEW i \in DOMAIN belongs, n.trip \notin disturbed', belongs[i] = n.trip
        PROVE  \E e \in n.left : e.id = i
    <3>1. Active(f) /\ TripOf(f) \notin disturbed /\ belongs[i] = TripOf(f)
      BY <2>1, <1>3, <1>4, <1>6
    <3>2. i \in writtenIds[f] /\ \E e \in shownEvents[f] : e.id = i
      BY <3>1 DEF LoopInv, LoopSound, SavedIsListed
    <3> QED BY <3>2, <1>6, <1>8
  <2> QED BY <2>1, <1>1, <1>3, <1>9, ZenonT(30) DEF LoopInv, LoopSound, FinishBindsAll
<1>17. FinishMeetsNoSave'
  <2>1. ASSUME NEW h \in Saves, n.trip = h.trip PROVE h.trip \in disturbed'
    <3>1. h.trip \in TripsOf(h.flow) /\ h.flow \in Flows
      BY FlowsApart DEF LoopInv, LoopSound, TripsKnown
    <3>2. h.flow = f
      BY <3>1, <2>1, <1>4, <1>6, FlowsApart DEF LoopInv, LoopSound, Flows
    <3> QED BY <3>2, <2>1, <1>2, <1>3, <1>6 DEF Flows
  <2> QED BY <2>1, <1>1, <1>3, <1>9 DEF LoopInv, LoopSound, FinishMeetsNoSave
<1>18. ActiveIsNotFinished' /\ StoredSound' /\ EventsFollowTheirTrip'
  BY <1>1, <1>3, <1>6, <1>9
     DEF LoopInv, LoopSound, ActiveIsNotFinished, StoredSound, EventsFollowTheirTrip, TripsOf,
         TripOf, Drawn, Recorded, Active
<1> QED BY <1>10, <1>11, <1>12, <1>13, <1>14, <1>15, <1>16, <1>17, <1>18 DEF LoopInv, LoopSound

(* The recording of the finish's own trip ends.                            *)
LEMMA TripFinishedKeeps ==
  ASSUME LoopInv, NEW h \in handlers, TripFinished(h)
  PROVE  LoopInv'
<1> DEFINE n == [h EXCEPT !.stage = "binding"]
<1>1. h \in Finishes /\ h \in FinishHandler
  BY KindsTell DEF TripFinished, Finishes, LoopInv
<1>2. /\ n \in FinishHandler /\ n.flow = h.flow /\ n.trip = h.trip /\ n.left = h.left
      /\ n.stage = "binding" /\ h.stage = "finishing"
  BY <1>1 DEF FinishHandler, TripFinished
<1>3. /\ handlers' = (handlers \ {h}) \cup {n}
      /\ UNCHANGED <<recordings, reviewing, authoring, drawings, writesOpen, stored,
                     writtenIds, shownEvents, counts, belongs, finished, disturbed>>
  BY DEF TripFinished
<1>4. recording' <=> recording /\ h.trip # Recorded
  BY DEF TripFinished
<1> HIDE DEF n
<1>5. Saves' = Saves /\ Finishes' = (Finishes \ {h}) \cup {n} /\ Starting' = Starting
  BY <1>1, <1>2, <1>3 DEF Saves, Finishes, Starting, FinishHandler
<1>6. LoopTypes'
  BY <1>2, <1>3 DEF LoopInv, LoopTypes
<1>7. TripsKnown' /\ StartAlone' /\ WritesCounted' /\ SavesSound'
  BY <1>1, <1>2, <1>3, <1>4, <1>5
     DEF LoopInv, LoopSound, TripsKnown, TripsOf, Drawn, StartAlone, WritesCounted, OpenWrites,
         SavesSound
<1>8. h.flow = "loop" \/ h.trip # Recorded
  BY <1>1, FlowsApart, DemoLoopAssumption
     DEF LoopInv, LoopSound, TripsKnown, TripsOf, Drawn, Recorded, LoopTypes, Flows
<1>9. SavesOfTheRecording'
  BY <1>1, <1>2, <1>3, <1>4, <1>5, <1>8 DEF LoopInv, LoopSound, SavesOfTheRecording, Recorded
<1>10. SavedIsListed' /\ WrittenSound'
  BY <1>3, <1>4, <1>5
     DEF LoopInv, LoopSound, SavedIsListed, WrittenSound, TripsOf, Drawn, TripOf, Recorded,
         Active, OfTrip
<1>11. RecordedInFront'
  BY <1>1, <1>2, <1>3, <1>4, <1>5, <1>8 DEF LoopInv, LoopSound, RecordedInFront, HasEvents, Recorded
<1>12. LeftSound'
  BY <1>1, <1>2, <1>3, <1>5 DEF LoopInv, LoopSound, LeftSound, OfTrip, TripsOf, Drawn
<1>13. FinishBindsAll' /\ FinishMeetsNoSave'
  BY <1>1, <1>2, <1>3, <1>5 DEF LoopInv, LoopSound, FinishBindsAll, FinishMeetsNoSave
<1>14. ActiveIsNotFinished'
  BY <1>1, <1>2, <1>3, <1>4, <1>5
     DEF LoopInv, LoopSound, ActiveIsNotFinished, Active, TripOf, Recorded, Drawn
<1>15. StoredSound' /\ EventsFollowTheirTrip'
  BY <1>3 DEF LoopInv, LoopSound, StoredSound, EventsFollowTheirTrip, TripsOf, Drawn
<1> QED BY <1>6, <1>7, <1>9, <1>10, <1>11, <1>12, <1>13, <1>14, <1>15 DEF LoopInv, LoopSound

LEMMA StartKeeps ==
  ASSUME LoopInv, Start
  PROVE  LoopInv'
<1> DEFINE n == [kind |-> "start", flow |-> "loop"]
<1>1. /\ UNCHANGED <<recording, recordings, drawings, writesOpen, stored, shownEvents,
                     counts, belongs, finished, disturbed>>
      /\ handlers' = handlers \cup {n} /\ n.kind = "start" /\ n \in OtherHandler
      /\ authoring' = FALSE /\ reviewing' = NoTrip /\ ~recording /\ recordings < MaxRecordings
  BY DEF Start, Review, OtherHandler
<1>2. /\ writtenIds' \in [Flows -> SUBSET Nat]
      /\ writtenIds'["loop"] = {} /\ writtenIds'["author"] = writtenIds["author"]
  BY DEF Start, LoopInv, LoopTypes, Flows
<1> HIDE DEF n
<1>3. Saves' = Saves /\ Finishes' = Finishes
  BY <1>1 DEF Saves, Finishes
<1>4. LoopTypes'
  BY <1>1, <1>2 DEF LoopInv, LoopTypes, NoTrip
<1>5. TripsKnown' /\ StartAlone' /\ WritesCounted' /\ SavesSound'
  BY <1>1, <1>3
     DEF LoopInv, LoopSound, TripsKnown, TripsOf, Drawn, StartAlone, WritesCounted, OpenWrites,
         SavesSound
<1>6. SavesOfTheRecording' /\ FinishMeetsNoSave' /\ FinishBindsAll'
  BY <1>1, <1>3
     DEF LoopInv, LoopSound, SavesOfTheRecording, Recorded, FinishMeetsNoSave, FinishBindsAll
<1>7. SavedIsListed' /\ RecordedInFront'
  BY <1>1, <1>3 DEF LoopInv, LoopSound, SavedIsListed, RecordedInFront, Active, Flows
<1>8. WrittenSound' /\ LeftSound'
  BY <1>1, <1>2, <1>3
     DEF LoopInv, LoopSound, WrittenSound, LeftSound, TripsOf, Drawn, TripOf, Recorded, OfTrip,
         Flows
<1>9. ActiveIsNotFinished' /\ StoredSound' /\ EventsFollowTheirTrip'
  BY <1>1, <1>3
     DEF LoopInv, LoopSound, ActiveIsNotFinished, StoredSound, EventsFollowTheirTrip, TripsOf,
         TripOf, Drawn, Recorded, Active, Flows
<1> QED BY <1>4, <1>5, <1>6, <1>7, <1>8, <1>9 DEF LoopInv, LoopSound

(* A new recording has no events, and no ids are left of another.          *)
LEMMA StartSettlesKeeps ==
  ASSUME LoopInv, NEW h \in handlers, StartSettles(h)
  PROVE  LoopInv'
<1>1. /\ UNCHANGED <<reviewing, authoring, drawings, writesOpen, writtenIds, stored, shownEvents,
                     counts, belongs, finished, disturbed>>
      /\ h.kind = "start" /\ handlers' = handlers \ {h}
  BY DEF StartSettles
<1>2. /\ Saves' = Saves /\ Finishes' = Finishes
      /\ ~Starting' /\ Starting
  BY <1>1
     DEF Saves, Finishes, Starting, LoopInv, LoopTypes, SaveHandler, FinishHandler, OtherHandler
<1>3. ~recording /\ recordings < MaxRecordings
  BY <1>2 DEF LoopInv, LoopSound, StartAlone
<1>4. CASE UNCHANGED <<recording, recordings>>
  <2>1. LoopTypes'
    BY <1>1, <1>4 DEF LoopInv, LoopTypes
  <2>2. WritesCounted'
    BY <1>1, <1>2 DEF LoopInv, LoopSound, WritesCounted, OpenWrites
  <2> QED BY <1>1, <1>2, <1>4, <2>1, <2>2, FewerHandlers DEF LoopInv
<1>5. CASE recording' = TRUE /\ recordings' = recordings + 1
  <2>1. LoopTypes'
    BY <1>1, <1>3, <1>5, DemoLoopAssumption DEF LoopInv, LoopTypes
  <2>2. /\ TripsOf("loop") \subseteq TripsOf("loop")' /\ TripsOf("author")' = TripsOf("author")
        /\ Recorded' \notin TripsOf("loop") \cup TripsOf("author") /\ Recorded' \in TripsOf("loop")'
        /\ \A t \in TripsOf("author") : t \notin TripsOf("loop")'
    BY <1>1, <1>3, <1>5, DemoLoopAssumption DEF LoopInv, LoopTypes, TripsOf, Recorded, Drawn
  <2>3. \A t : ~(recording' /\ t = Recorded' /\ t \in TripsOf("loop") \cup TripsOf("author"))
    BY <2>2
  <2>4. \A k \in Saves \cup Finishes : k.flow \in Flows /\ k.trip # Recorded'
    BY <2>2, FlowsApart DEF LoopInv, LoopSound, TripsKnown, Flows
  <2>5. \A i \in DOMAIN belongs : belongs[i] # Recorded'
    BY <2>2 DEF LoopInv, LoopSound, TripsKnown
  <2>6. TripsKnown'
    BY <1>1, <1>2, <1>3, <1>5, <2>2, <2>4 DEF LoopInv, LoopSound, TripsKnown, Flows, LoopTypes
  <2>7. StartAlone' /\ WritesCounted' /\ SavesSound'
    BY <1>1, <1>2 DEF LoopInv, LoopSound, StartAlone, WritesCounted, OpenWrites, SavesSound
  <2>8. SavesOfTheRecording' /\ FinishMeetsNoSave' /\ FinishBindsAll'
    BY <1>1, <1>2, <1>3
       DEF LoopInv, LoopSound, SavesOfTheRecording, FinishMeetsNoSave, FinishBindsAll
  <2>9. SavedIsListed'
    BY <1>1, <2>5 DEF LoopInv, LoopSound, SavedIsListed, Active, TripOf, Drawn, Flows
  <2>10. RecordedInFront'
    BY <1>1, <1>2, <2>4, <2>5 DEF LoopInv, LoopSound, RecordedInFront, HasEvents
  <2>11. WrittenSound' /\ LeftSound'
    <3>1. \A i, t : \A f \in Flows : OfTrip(i, f, t) => OfTrip(i, f, t)'
      BY <1>1, <2>2 DEF OfTrip, Flows
    <3>2. \A i \in writtenIds["loop"] :
            i \in DOMAIN belongs /\ belongs[i] \in TripsOf("loop") /\ belongs[i] \in disturbed
      BY <1>2 DEF LoopInv, LoopSound, WrittenSound, OfTrip, Flows
    <3>3. \A i \in writtenIds["author"] :
            i \in DOMAIN belongs /\ belongs[i] \in TripsOf("author") /\ belongs[i] = TripOf("author")
      BY DEF LoopInv, LoopSound, WrittenSound, OfTrip, Flows
    <3>4. WrittenSound'
      BY <1>1, <1>2, <2>2, <3>2, <3>3 DEF WrittenSound, OfTrip, TripOf, Drawn, Flows
    <3> QED BY <1>1, <1>2, <2>4, <3>1, <3>4 DEF LoopInv, LoopSound, LeftSound
  <2>12. ActiveIsNotFinished'
    BY <1>1, <1>2, <2>2, <2>4
       DEF LoopInv, LoopSound, ActiveIsNotFinished, TripsKnown, Active, TripOf, Drawn, Flows
  <2>13. StoredSound' /\ EventsFollowTheirTrip'
    BY <1>1, <2>2 DEF LoopInv, LoopSound, StoredSound, EventsFollowTheirTrip
  <2> QED BY <2>1, <2>6, <2>7, <2>8, <2>9, <2>10, <2>11, <2>12, <2>13 DEF LoopInv, LoopSound
<1> QED BY <1>4, <1>5 DEF StartSettles

(* A new drawing has no events; what was drawn before keeps its trip.      *)
LEMMA AuthorStartKeeps ==
  ASSUME LoopInv, AuthorStart
  PROVE  LoopInv'
<1>1. /\ UNCHANGED <<recording, recordings, handlers, writesOpen, stored, counts, belongs, finished, disturbed>>
      /\ ~recording /\ ~authoring /\ drawings < MaxDrawings
      /\ authoring' = TRUE /\ drawings' = drawings + 1 /\ reviewing' = NoTrip
  BY DEF AuthorStart
<1>2. /\ writtenIds' \in [Flows -> SUBSET Nat] /\ shownEvents' \in [Flows -> SUBSET Event]
      /\ writtenIds'["author"] = {} /\ writtenIds'["loop"] = writtenIds["loop"]
      /\ shownEvents'["loop"] = shownEvents["loop"]
  BY DEF AuthorStart, LoopInv, LoopTypes, Flows
<1>3. UNCHANGED <<Saves, Finishes, Starting>>
  BY <1>1 DEF Saves, Finishes, Starting
<1>4. LoopTypes'
  BY <1>1, <1>2, DemoLoopAssumption DEF LoopInv, LoopTypes, NoTrip
<1>5. /\ TripsOf("author") \subseteq TripsOf("author")' /\ TripsOf("loop")' = TripsOf("loop")
      /\ Drawn' \notin TripsOf("loop") \cup TripsOf("author")
  BY <1>1, DemoLoopAssumption DEF LoopInv, LoopTypes, TripsOf, Drawn
<1>6. \A k \in Saves \cup Finishes : k.flow \in Flows /\ k.trip # Drawn'
  BY <1>5, FlowsApart DEF LoopInv, LoopSound, TripsKnown, Flows
<1>7. \A i \in DOMAIN belongs : belongs[i] # Drawn'
  BY <1>5 DEF LoopInv, LoopSound, TripsKnown
<1>8. TripsKnown'
  BY <1>1, <1>3, <1>5, <1>6 DEF LoopInv, LoopSound, TripsKnown, Flows, LoopTypes
<1>9. StartAlone' /\ WritesCounted' /\ SavesSound'
  BY <1>1, <1>3 DEF LoopInv, LoopSound, StartAlone, WritesCounted, OpenWrites, SavesSound
<1>10. SavesOfTheRecording' /\ FinishMeetsNoSave' /\ FinishBindsAll'
  BY <1>1, <1>3
     DEF LoopInv, LoopSound, SavesOfTheRecording, FinishMeetsNoSave, FinishBindsAll, Recorded
<1>11. SavedIsListed' /\ RecordedInFront'
  BY <1>1, <1>7 DEF SavedIsListed, RecordedInFront, Active, TripOf, Flows
<1>12. \A i \in writtenIds["loop"] :
         /\ i \in DOMAIN belongs /\ belongs[i] \in TripsOf("loop")
         /\ belongs[i] = Recorded \/ belongs[i] \in disturbed
  BY DEF LoopInv, LoopSound, WrittenSound, OfTrip, TripOf, Flows
<1>13. WrittenSound'
  BY <1>1, <1>2, <1>3, <1>5, <1>12
     DEF LoopInv, LoopSound, WrittenSound, OfTrip, TripOf, Recorded, Flows
<1>14. LeftSound'
  <2>1. \A i, t : \A f \in Flows : OfTrip(i, f, t) => OfTrip(i, f, t)'
    BY <1>1, <1>5 DEF OfTrip, Flows
  <2> QED BY <1>1, <1>3, <1>6, <2>1 DEF LoopInv, LoopSound, LeftSound
<1>15. ActiveIsNotFinished'
  BY <1>1, <1>3, <1>5
     DEF LoopInv, LoopSound, ActiveIsNotFinished, TripsKnown, Active, TripOf, Recorded, Flows
<1>16. StoredSound' /\ EventsFollowTheirTrip'
  <2>1. \A i \in DOMAIN belongs : belongs[i] \in TripsOf("author")' => belongs[i] \in TripsOf("author")
    BY <1>1, <1>7, DemoLoopAssumption DEF LoopInv, LoopTypes, LoopSound, TripsKnown, TripsOf, Drawn
  <2> QED BY <1>1, <1>2, <2>1 DEF LoopInv, LoopSound, StoredSound, EventsFollowTheirTrip
<1> QED BY <1>4, <1>8, <1>9, <1>10, <1>11, <1>13, <1>14, <1>15, <1>16 DEF LoopInv, LoopSound

LEMMA AuthorCancelKeeps ==
  ASSUME LoopInv, AuthorCancel
  PROVE  LoopInv'
<1>1. /\ UNCHANGED <<recording, recordings, handlers, reviewing, drawings, writesOpen, writtenIds, stored,
                     shownEvents, counts, belongs, finished, disturbed>>
      /\ authoring' = FALSE
  BY DEF AuthorCancel
<1>2. UNCHANGED <<Saves, Finishes, Starting>>
  BY <1>1 DEF Saves, Finishes, Starting
<1>3. LoopTypes'
  BY <1>1 DEF LoopInv, LoopTypes
<1>4. TripsKnown' /\ StartAlone' /\ WritesCounted' /\ SavesSound' /\ SavesOfTheRecording'
  BY <1>1, <1>2
     DEF LoopInv, LoopSound, TripsKnown, TripsOf, Drawn, StartAlone, WritesCounted, OpenWrites,
         SavesSound, SavesOfTheRecording, Recorded
<1>5. SavedIsListed' /\ RecordedInFront' /\ WrittenSound' /\ LeftSound'
  BY <1>1, <1>2
     DEF LoopInv, LoopSound, SavedIsListed, RecordedInFront, WrittenSound, LeftSound, TripsOf,
         Drawn, TripOf, Recorded, Active, HasEvents, OfTrip
<1>6. FinishBindsAll' /\ FinishMeetsNoSave' /\ ActiveIsNotFinished' /\ StoredSound' /\ EventsFollowTheirTrip'
  BY <1>1, <1>2
     DEF LoopInv, LoopSound, FinishBindsAll, FinishMeetsNoSave, ActiveIsNotFinished, StoredSound,
         EventsFollowTheirTrip, TripsOf, Drawn, TripOf, Recorded, Active
<1> QED BY <1>3, <1>4, <1>5, <1>6 DEF LoopInv, LoopSound

(* Another trip in front of a recording exempts it.                        *)
LEMMA TripOpenedKeeps ==
  ASSUME LoopInv, NEW h \in handlers, TripOpened(h)
  PROVE  LoopInv'
<1>1. /\ UNCHANGED <<recording, recordings, authoring, drawings, writesOpen, stored, shownEvents,
                     counts, belongs, finished>>
      /\ h.kind = "open" /\ handlers' = handlers \ {h} /\ reviewing' = h.trip
  BY DEF TripOpened, Review
<1>2. /\ writtenIds' \in [Flows -> SUBSET Nat]
      /\ writtenIds'["loop"] = {} /\ writtenIds'["author"] = writtenIds["author"]
  BY DEF TripOpened, LoopInv, LoopTypes, Flows
<1>3. /\ disturbed \subseteq disturbed' /\ disturbed' \subseteq Int
      /\ (recording => Recorded \in disturbed')
  BY DEF TripOpened, Crossed, LoopInv, LoopTypes, Recorded
<1>4. UNCHANGED <<Saves, Finishes, Starting>>
  BY <1>1 DEF Saves, Finishes, Starting
<1>5. LoopTypes'
  BY <1>1, <1>2, <1>3, KindsTell DEF LoopInv, LoopTypes
<1>6. TripsKnown' /\ StartAlone' /\ WritesCounted' /\ SavesSound'
  BY <1>1, <1>4
     DEF LoopInv, LoopSound, TripsKnown, TripsOf, Drawn, StartAlone, WritesCounted, OpenWrites,
         SavesSound
<1>7. SavesOfTheRecording' /\ FinishMeetsNoSave' /\ FinishBindsAll'
  BY <1>1, <1>3, <1>4
     DEF LoopInv, LoopSound, SavesOfTheRecording, Recorded, FinishMeetsNoSave, FinishBindsAll
<1>8. SavedIsListed' /\ RecordedInFront'
  BY <1>1, <1>2, <1>3, <1>4
     DEF LoopInv, LoopSound, SavedIsListed, RecordedInFront, Active, TripOf, Recorded, Drawn,
         Flows
<1>9. WrittenSound' /\ LeftSound'
  BY <1>1, <1>2, <1>3, <1>4
     DEF LoopInv, LoopSound, WrittenSound, LeftSound, TripsOf, Drawn, TripOf, Recorded, OfTrip,
         Flows
<1>10. ActiveIsNotFinished' /\ StoredSound' /\ EventsFollowTheirTrip'
  BY <1>1, <1>3, <1>4
     DEF LoopInv, LoopSound, ActiveIsNotFinished, StoredSound, EventsFollowTheirTrip, TripsOf,
         TripOf, Drawn, Recorded, Active, Flows
<1> QED BY <1>5, <1>6, <1>7, <1>8, <1>9, <1>10 DEF LoopInv, LoopSound

(* Everything was bound, and nothing more of the trip is being written.    *)
LEMMA ReviewFinishedKeeps ==
  ASSUME LoopInv, NEW h \in handlers, ReviewFinished(h)
  PROVE  LoopInv'
<1>1. /\ UNCHANGED <<recording, recordings, drawings, writesOpen, stored, shownEvents, counts, belongs>>
      /\ h.kind = "finish" /\ handlers' = handlers \ {h} /\ reviewing' = h.trip
      /\ finished' = finished \cup {h.trip} /\ h.stage = "binding" /\ h.left = {}
  BY DEF ReviewFinished, Review, BoundAll
<1>2. /\ writtenIds' \in [Flows -> SUBSET Nat]
      /\ writtenIds'["loop"] = {} \/ writtenIds'["loop"] = writtenIds["loop"]
      /\ writtenIds'["author"] = writtenIds["author"]
      /\ (authoring' => authoring) /\ (h.flow = "author" => ~authoring')
      /\ (h.flow = "loop" => writtenIds' = writtenIds)
  <2>1. h.flow \in Flows
    BY <1>1, KindsTell DEF LoopInv, Finishes, FinishHandler
  <2> QED BY <2>1 DEF ReviewFinished, LoopInv, LoopTypes, Flows
<1>3. /\ disturbed \subseteq disturbed' /\ disturbed' \subseteq Int
      /\ (recording => Recorded \in disturbed')
  BY DEF ReviewFinished, Crossed, LoopInv, LoopTypes, Recorded
<1>4. /\ UNCHANGED <<Saves, Starting>> /\ Finishes' = Finishes \ {h} /\ h \in Finishes /\ h \in FinishHandler
  BY <1>1, KindsTell DEF Saves, Finishes, Starting, LoopInv
<1>5. h.trip \in TripsOf(h.flow) /\ h.flow \in Flows /\ h.trip \in Int
  BY <1>4 DEF LoopInv, LoopSound, TripsKnown, FinishHandler
<1>6. LoopTypes'
  BY <1>1, <1>2, <1>3, <1>5 DEF LoopInv, LoopTypes
<1>7. TripsKnown' /\ StartAlone' /\ WritesCounted' /\ SavesSound'
  BY <1>1, <1>2, <1>4, <1>5
     DEF LoopInv, LoopSound, TripsKnown, TripsOf, Drawn, StartAlone, WritesCounted, OpenWrites,
         SavesSound, Flows
<1>8. SavesOfTheRecording' /\ FinishMeetsNoSave' /\ FinishBindsAll'
  BY <1>1, <1>3, <1>4, ZenonT(30)
     DEF LoopInv, LoopSound, SavesOfTheRecording, Recorded, FinishMeetsNoSave, FinishBindsAll
<1>9. SavedIsListed' /\ RecordedInFront'
  BY <1>1, <1>2, <1>3, <1>4
     DEF LoopInv, LoopSound, SavedIsListed, RecordedInFront, Active, TripOf, Recorded, Drawn,
         Flows
<1>10. WrittenSound' /\ LeftSound'
  BY <1>1, <1>2, <1>3, <1>4
     DEF LoopInv, LoopSound, WrittenSound, LeftSound, TripsOf, Drawn, TripOf, Recorded, OfTrip,
         Flows
<1>11. ActiveIsNotFinished'
  <2>1. recording => Recorded # h.trip
    BY <1>1, <1>4, <1>5, DemoLoopAssumption
       DEF LoopInv, LoopSound, LoopTypes, ActiveIsNotFinished, TripsOf, Drawn, Recorded, Flows
  <2>2. authoring' => Drawn # h.trip
    BY <1>2, <1>5, DemoLoopAssumption
       DEF LoopInv, LoopSound, LoopTypes, TripsOf, TripsKnown, Drawn, Recorded, Flows
  <2> QED BY <1>1, <1>2, <1>4, <2>1, <2>2
             DEF LoopInv, LoopSound, ActiveIsNotFinished, TripOf, Drawn, Recorded, Active
<1>12. StoredSound'
  BY <1>1 DEF LoopInv, LoopSound, StoredSound, TripsOf, Drawn
<1>13. EventsFollowTheirTrip'
  BY <1>1, <1>3, <1>4 DEF LoopInv, LoopSound, EventsFollowTheirTrip, FinishBindsAll
<1> QED BY <1>6, <1>7, <1>8, <1>9, <1>10, <1>11, <1>12, <1>13 DEF LoopInv, LoopSound

(* The copy stored is of its event's trip: another flow's finish cannot    *)
(* take it away, and a list read before still shows what is stored.        *)
LEMMA BindEventKeeps ==
  ASSUME LoopInv, NEW h \in handlers, h.kind = "finish", NEW b \in h.left, BindEvent(h, b)
  PROVE  LoopInv'
<1> DEFINE n == [h EXCEPT !.left = @ \ {b}]
           c == [b EXCEPT !.trip = h.trip]
<1>1. h \in Finishes /\ h \in FinishHandler /\ h.stage = "binding"
  BY KindsTell DEF BindEvent, Finishes, LoopInv
<1>2. /\ n \in FinishHandler /\ n.flow = h.flow /\ n.trip = h.trip /\ n.left = h.left \ {b}
      /\ n.stage = "binding" /\ n.kind = "finish"
  BY <1>1 DEF FinishHandler
<1>3. b \in Event /\ h.trip \in Int
  BY <1>1 DEF FinishHandler
<1>4. /\ c \in Event /\ c.id = b.id /\ c.trip = h.trip /\ c = [id |-> b.id, trip |-> h.trip]
      /\ \A e \in Event : e.id = c.id /\ e.trip = c.trip => e = c
  BY <1>3 DEF Event
<1>5. /\ handlers' = (handlers \ {h}) \cup {n}
      /\ stored' = {s \in stored : s.id # b.id} \cup {c}
      /\ UNCHANGED <<recording, recordings, reviewing, authoring, drawings, writesOpen,
                     writtenIds, counts, belongs, finished, disturbed>>
  BY DEF BindEvent
<1> HIDE DEF n, c
<1>6. stored \subseteq Event /\ stored' \subseteq Event
  BY <1>4, <1>5 DEF LoopInv, LoopTypes
<1>7. \A i : (\E s \in stored : s.id = i) => \E s \in stored' : s.id = i
  BY <1>4, <1>5
<1>8. /\ shownEvents' \in [Flows -> SUBSET Event]
      /\ h.flow = "loop" => shownEvents'["loop"] \subseteq stored' /\ shownEvents'["author"] = shownEvents["author"]
      /\ h.flow # "loop" => /\ shownEvents'["loop"] = shownEvents["loop"]
                            /\ shownEvents'["author"] = stored' \/ shownEvents'["author"] = shownEvents["author"]
  <2>1. h.flow \in Flows /\ shownEvents \in [Flows -> SUBSET Event]
    BY <1>1 DEF LoopInv, LoopTypes, FinishHandler
  <2>2. \/ shownEvents' = shownEvents /\ h.flow # "loop"
        \/ h.flow = "loop" /\ shownEvents' = [shownEvents EXCEPT !["loop"] = EventsOf(h.context)']
        \/ h.flow # "loop" /\ shownEvents' = [shownEvents EXCEPT ![h.flow] = stored']
    BY DEF BindEvent, StillMounted
  <2>3. EventsOf(h.context)' \subseteq stored'
    BY DEF EventsOf
  <2> QED BY <2>1, <2>2, <2>3, <1>6 DEF Flows
<1>9. Saves' = Saves /\ Finishes' = (Finishes \ {h}) \cup {n} /\ Starting' = Starting
  BY <1>1, <1>2, <1>5 DEF Saves, Finishes, Starting
<1>10. OfTrip(b.id, h.flow, h.trip) /\ h.flow \in Flows
  BY <1>1 DEF LoopInv, LoopSound, LeftSound, FinishHandler
<1>11. LoopTypes'
  BY <1>2, <1>5, <1>6, <1>8 DEF LoopInv, LoopTypes
<1>12. TripsKnown' /\ StartAlone' /\ WritesCounted'
  BY <1>1, <1>2, <1>5, <1>9
     DEF LoopInv, LoopSound, TripsKnown, TripsOf, Drawn, StartAlone, WritesCounted, OpenWrites
<1>13. SavesSound'
  BY <1>5, <1>7, <1>9 DEF LoopInv, LoopSound, SavesSound
<1>14. SavesOfTheRecording' /\ FinishMeetsNoSave'
  BY <1>1, <1>2, <1>5, <1>9 DEF LoopInv, LoopSound, SavesOfTheRecording, Recorded, FinishMeetsNoSave
<1>15. SavedIsListed'
  <2>1. ASSUME NEW i \in DOMAIN belongs, recording, Recorded \notin disturbed, belongs[i] = Recorded
        PROVE  i \in writtenIds["loop"] /\ \E e \in shownEvents'["loop"] : e.id = i
    <3>1. HasEvents(Recorded)
      BY <2>1 DEF HasEvents
    <3>2. h.flow # "loop"
      BY <2>1, <3>1, <1>1 DEF LoopInv, LoopSound, RecordedInFront
    <3> QED BY <2>1, <3>2, <1>8 DEF LoopInv, LoopSound, SavedIsListed, Active, TripOf, Flows
  <2>2. ASSUME NEW i \in DOMAIN belongs, authoring, Drawn \notin disturbed, belongs[i] = Drawn
        PROVE  i \in writtenIds["author"] /\ \E e \in shownEvents'["author"] : e.id = i
    <3>1. i \in writtenIds["author"] /\ \E e \in shownEvents["author"] : e.id = i
      BY <2>2 DEF LoopInv, LoopSound, SavedIsListed, Active, TripOf, Flows
    <3>2. \E s \in stored' : s.id = i
      BY <1>7 DEF LoopInv, LoopSound, StoredSound
    <3> QED BY <3>1, <3>2, <1>8
  <2> QED BY <2>1, <2>2, <1>5 DEF SavedIsListed, Active, TripOf, Recorded, Drawn, Flows
<1>16. RecordedInFront'
  BY <1>1, <1>2, <1>5, <1>9 DEF LoopInv, LoopSound, RecordedInFront, HasEvents, Recorded
<1>17. WrittenSound' /\ LeftSound'
  BY <1>1, <1>2, <1>5, <1>9
     DEF LoopInv, LoopSound, WrittenSound, LeftSound, TripsOf, Drawn, TripOf, Recorded, OfTrip
<1>18. FinishBindsAll'
  <2>1. SUFFICES ASSUME NEW g \in Finishes', NEW i \in DOMAIN belongs, g.trip \notin disturbed, belongs[i] = g.trip
        PROVE  [id |-> i, trip |-> g.trip] \in stored' \/ \E e \in g.left : e.id = i
    BY <1>5 DEF FinishBindsAll
  <2>2. CASE i = b.id
    <3>1. belongs[i] = h.trip
      BY <2>1, <2>2, <1>10 DEF OfTrip
    <3> QED BY <2>1, <2>2, <3>1, <1>4, <1>5
  <2>3. CASE i # b.id
    <3>1. PICK k \in Finishes : k.trip = g.trip /\ \A e \in k.left : e.id = i => e \in g.left
      BY <2>1, <2>3, <1>1, <1>2, <1>9
    <3>2. [id |-> i, trip |-> g.trip] \in stored \/ \E e \in k.left : e.id = i
      BY <2>1, <3>1 DEF LoopInv, LoopSound, FinishBindsAll
    <3>3. [id |-> i, trip |-> g.trip].id = i
      OBVIOUS
    <3> QED BY <2>3, <3>1, <3>2, <3>3, <1>5
  <2> QED BY <2>2, <2>3
<1>19. ActiveIsNotFinished'
  BY <1>1, <1>2, <1>5, <1>9
     DEF LoopInv, LoopSound, ActiveIsNotFinished, Active, TripOf, Recorded, Drawn
<1>20. StoredSound'
  <2>1. \A i \in DOMAIN belongs : \E s \in stored' : s.id = i
    BY <1>7 DEF LoopInv, LoopSound, StoredSound
  <2>2. b.id \in DOMAIN belongs /\ (belongs[b.id] \in TripsOf("author") => h.trip = belongs[b.id])
    BY <1>10, FlowsApart DEF OfTrip, LoopInv, LoopSound, Flows
  <2>3. \A s \in stored' : s.trip # NoTrip =>
          s.id \in DOMAIN belongs /\ (belongs[s.id] \in TripsOf("author") => s.trip = belongs[s.id])
    BY <2>2, <1>4, <1>5 DEF LoopInv, LoopSound, StoredSound
  <2>4. ASSUME NEW e \in shownEvents'["loop"], e.trip # NoTrip PROVE e \in stored'
    <3>1. CASE h.flow = "loop"
      BY <3>1, <1>8
    <3>2. CASE h.flow # "loop"
      <4>1. e \in stored /\ e \in Event
        BY <3>2, <2>4, <1>8, <1>6 DEF LoopInv, LoopSound, StoredSound
      <4>2. CASE e.id = b.id
        <5>1. belongs[b.id] \in TripsOf("author") /\ belongs[b.id] = h.trip
          BY <3>2, <1>10 DEF OfTrip, Flows
        <5>2. e.trip = h.trip
          BY <4>1, <4>2, <5>1, <2>4 DEF LoopInv, LoopSound, StoredSound
        <5> QED BY <4>1, <4>2, <5>2, <1>4, <1>5
      <4> QED BY <4>1, <4>2, <1>5
    <3> QED BY <3>1, <3>2
  <2> QED BY <2>1, <2>3, <2>4, <1>5 DEF StoredSound, TripsOf, Drawn
<1>21. EventsFollowTheirTrip'
  <2>1. SUFFICES ASSUME NEW i \in DOMAIN belongs, belongs[i] \in finished, belongs[i] \notin disturbed
        PROVE  [id |-> i, trip |-> belongs[i]] \in stored'
    BY <1>5 DEF EventsFollowTheirTrip
  <2>2. [id |-> i, trip |-> belongs[i]] \in stored /\ [id |-> i, trip |-> belongs[i]].id = i
    BY <2>1 DEF LoopInv, LoopSound, EventsFollowTheirTrip
  <2>3. CASE i = b.id
    <3>1. belongs[i] = h.trip
      BY <2>1, <2>3, <1>10 DEF OfTrip
    <3> QED BY <2>3, <3>1, <1>4, <1>5
  <2> QED BY <2>2, <2>3, <1>5
<1> QED BY <1>11, <1>12, <1>13, <1>14, <1>15, <1>16, <1>17, <1>18, <1>19, <1>20, <1>21
           DEF LoopInv, LoopSound

(* A list read again holds what is stored; with a recording that has       *)
(* events in front, all of it.                                             *)
LEMMA EventsListedKeeps ==
  ASSUME LoopInv, NEW f \in Flows, EventsListed(f)
  PROVE  LoopInv'
<1>1. UNCHANGED <<recording, recordings, handlers, reviewing, authoring, drawings, writesOpen,
                  writtenIds, stored, counts, belongs, finished, disturbed>>
  BY DEF EventsListed
<1>2. /\ shownEvents' \in [Flows -> SUBSET Event]
      /\ \/ shownEvents'["loop"] = shownEvents["loop"]
         \/ shownEvents'["loop"] \subseteq stored /\ (reviewing = NoTrip => shownEvents'["loop"] = stored)
      /\ shownEvents'["author"] = stored \/ shownEvents'["author"] = shownEvents["author"]
  <2>1. EventsOf(reviewing) \subseteq stored /\ (reviewing = NoTrip => EventsOf(reviewing) = stored)
    BY DEF EventsOf
  <2> QED BY <2>1 DEF EventsListed, LoopInv, LoopTypes, Flows
<1>3. UNCHANGED <<Saves, Finishes, Starting>>
  BY <1>1 DEF Saves, Finishes, Starting
<1>4. LoopTypes'
  BY <1>1, <1>2 DEF LoopInv, LoopTypes
<1>5. TripsKnown' /\ StartAlone' /\ WritesCounted' /\ SavesSound' /\ SavesOfTheRecording'
  BY <1>1, <1>3
     DEF LoopInv, LoopSound, TripsKnown, TripsOf, Drawn, StartAlone, WritesCounted, OpenWrites,
         SavesSound, SavesOfTheRecording, Recorded
<1>6. RecordedInFront' /\ WrittenSound' /\ LeftSound'
  BY <1>1, <1>3
     DEF LoopInv, LoopSound, RecordedInFront, WrittenSound, LeftSound, TripsOf, Drawn, TripOf,
         Recorded, HasEvents, OfTrip
<1>7. SavedIsListed'
  <2>1. \A i \in DOMAIN belongs : \E s \in stored : s.id = i
    BY DEF LoopInv, LoopSound, StoredSound
  <2>2. \A i \in DOMAIN belongs : recording /\ Recorded \notin disturbed /\ belongs[i] = Recorded => reviewing = NoTrip
    BY DEF LoopInv, LoopSound, RecordedInFront, HasEvents
  <2> QED BY <1>1, <1>2, <2>1, <2>2
             DEF LoopInv, LoopSound, SavedIsListed, Active, TripOf, Recorded, Drawn, Flows
<1>8. FinishBindsAll' /\ FinishMeetsNoSave' /\ ActiveIsNotFinished' /\ EventsFollowTheirTrip'
  BY <1>1, <1>3
     DEF LoopInv, LoopSound, FinishBindsAll, FinishMeetsNoSave, ActiveIsNotFinished,
         EventsFollowTheirTrip, TripsOf, Drawn, TripOf, Recorded, Active
<1>9. StoredSound'
  BY <1>1, <1>2 DEF LoopInv, LoopSound, StoredSound, TripsOf, Drawn
<1> QED BY <1>4, <1>5, <1>6, <1>7, <1>8, <1>9 DEF LoopInv, LoopSound

(* The event reported enters the ids and the list of its flow, unless its  *)
(* drawing is gone.                                                        *)
LEMMA SaveSettlesKeeps ==
  ASSUME LoopInv, NEW h \in handlers, SaveSettles(h)
  PROVE  LoopInv'
<1>1. h \in Saves /\ h \in SaveHandler /\ h.stage = "listing" /\ h.flow \in Flows /\ h.trip \in Int
  BY KindsTell DEF SaveSettles, Saves, LoopInv, SaveHandler
<1>2. /\ UNCHANGED <<recording, recordings, reviewing, authoring, drawings, stored, counts, finished, disturbed>>
      /\ handlers' = handlers \ {h}
      /\ writesOpen' = IF h.flow = "loop" THEN writesOpen - 1 ELSE writesOpen
  BY DEF SaveSettles, Settled
<1>3. h.id \notin DOMAIN belongs /\ h.id \in 1..counts.events /\ h.id \in Nat
  BY <1>1 DEF LoopInv, LoopSound, SavesSound, SaveHandler
<1>4. /\ DOMAIN belongs' = DOMAIN belongs \cup {h.id} /\ belongs'[h.id] = h.trip
      /\ \A i \in DOMAIN belongs : belongs'[i] = belongs[i]
  BY <1>3 DEF SaveSettles
<1>5. UNCHANGED <<Finishes, Starting>> /\ Saves' = Saves \ {h}
  BY <1>1, <1>2 DEF Saves, Finishes, Starting
<1>6. h.trip \in TripsOf(h.flow)
  BY <1>1 DEF LoopInv, LoopSound, TripsKnown
<1>7. /\ writtenIds' \in [Flows -> SUBSET Nat] /\ shownEvents' \in [Flows -> SUBSET Event]
      /\ \A f \in Flows : writtenIds[f] \subseteq writtenIds'[f] /\ writtenIds'[f] \subseteq writtenIds[f] \cup {h.id}
      /\ \A f \in Flows : f # h.flow => writtenIds'[f] = writtenIds[f] /\ shownEvents'[f] = shownEvents[f]
      /\ StillMounted(h) => h.id \in writtenIds'[h.flow] /\ shownEvents'[h.flow] = Relisted(h)
      /\ ~StillMounted(h) => writtenIds' = writtenIds /\ shownEvents' = shownEvents
  <2>1. Relisted(h) \subseteq Event
    BY DEF Relisted, EventsOf, LoopInv, LoopTypes, Flows
  <2> QED BY <2>1, <1>1, <1>3 DEF SaveSettles, LoopInv, LoopTypes
<1>8. /\ \A i \in DOMAIN belongs' : \E s \in stored : s.id = i
      /\ h.flow = "loop" => \/ shownEvents'["loop"] = shownEvents["loop"] /\ reviewing # NoTrip
                            \/ shownEvents'["loop"] \subseteq stored /\ (reviewing = NoTrip => shownEvents'["loop"] = stored)
      /\ h.flow = "author" => \/ shownEvents'["author"] = stored
                              \/ shownEvents'["author"] = shownEvents["author"] /\ ~StillMounted(h)
  <2>1. \A i \in DOMAIN belongs' : \E s \in stored : s.id = i
    BY <1>1, <1>4 DEF LoopInv, LoopSound, StoredSound, SavesSound
  <2>2. h.flow = "loop" => StillMounted(h) /\ h.context = NoTrip
    BY <1>1 DEF StillMounted, LoopInv, LoopSound, SavesSound
  <2>3. h.flow = "loop" => \/ /\ Relisted(h) = shownEvents["loop"]
                              /\ reviewing # NoTrip
                           \/ /\ Relisted(h) \subseteq stored
                              /\ reviewing = NoTrip => Relisted(h) = stored
    BY <2>2 DEF Relisted, EventsOf
  <2>4. h.flow = "author" => Relisted(h) = stored
    BY DEF Relisted
  <2>5. ASSUME h.flow = "loop" PROVE shownEvents'["loop"] = Relisted(h)
    BY <2>2, <2>5, <1>7
  <2>6. ASSUME h.flow = "author"
        PROVE  \/ shownEvents'["author"] = stored
               \/ shownEvents'["author"] = shownEvents["author"] /\ ~StillMounted(h)
    BY <2>4, <2>6, <1>7
  <2> QED BY <2>1, <2>3, <2>5, <2>6
<1>9. LoopTypes'
  BY <1>2, <1>3, <1>4, <1>7 DEF LoopInv, LoopTypes
<1>10. TripsKnown' /\ StartAlone'
  BY <1>1, <1>2, <1>4, <1>5, <1>6
     DEF LoopInv, LoopSound, TripsKnown, TripsOf, Drawn, StartAlone, Flows
<1>11. WritesCounted'
  BY <1>1, <1>2, <1>5, WriteCloses
<1>12. SavesSound'
  BY <1>1, <1>2, <1>4, <1>5 DEF LoopInv, LoopSound, SavesSound
<1>13. SavesOfTheRecording' /\ FinishMeetsNoSave'
  BY <1>2, <1>5 DEF LoopInv, LoopSound, SavesOfTheRecording, Recorded, FinishMeetsNoSave
<1>14. HasEvents(Recorded)' => HasEvents(Recorded)
  BY <1>1, <1>2, <1>4, <1>5 DEF HasEvents, Recorded
<1>15. RecordedInFront'
  BY <1>2, <1>5, <1>14 DEF LoopInv, LoopSound, RecordedInFront, Recorded
<1>16. h.flow = "author" /\ StillMounted(h) => authoring /\ h.trip = Drawn
  BY DEF StillMounted
<1>17. h.flow = "loop" => h.trip = Recorded \/ h.trip \in disturbed
  BY <1>1 DEF LoopInv, LoopSound, SavesOfTheRecording
<1>18. SavedIsListed'
  <2>1. ASSUME NEW i \in DOMAIN belongs', recording, Recorded \notin disturbed, belongs'[i] = Recorded
        PROVE  i \in writtenIds'["loop"] /\ \E e \in shownEvents'["loop"] : e.id = i
    <3>1. HasEvents(Recorded)
      BY <2>1, <1>1, <1>4 DEF HasEvents
    <3>2. reviewing = NoTrip
      BY <2>1, <3>1 DEF LoopInv, LoopSound, RecordedInFront
    <3>3. CASE i = h.id
      <4>1. h.flow = "loop"
        BY <3>3, <2>1, <1>1, <1>4, <1>6, FlowsApart, DemoLoopAssumption
           DEF LoopInv, LoopSound, LoopTypes, TripsKnown, TripsOf, Recorded, Drawn, Flows
      <4> QED BY <4>1, <3>2, <3>3, <1>7, <1>8 DEF StillMounted
    <3>4. CASE i \in DOMAIN belongs
      <4>1. i \in writtenIds["loop"] /\ \E e \in shownEvents["loop"] : e.id = i
        BY <3>4, <2>1, <1>4 DEF LoopInv, LoopSound, SavedIsListed, Active, TripOf, Flows
      <4> QED BY <4>1, <3>2, <1>1, <1>7, <1>8 DEF Flows
    <3> QED BY <3>3, <3>4, <1>4
  <2>2. ASSUME NEW i \in DOMAIN belongs', authoring, Drawn \notin disturbed, belongs'[i] = Drawn
        PROVE  i \in writtenIds'["author"] /\ \E e \in shownEvents'["author"] : e.id = i
    <3>1. CASE i = h.id
      <4>1. h.trip = Drawn
        BY <3>1, <2>2, <1>4
      <4>2. h.flow = "author"
        BY <4>1, <2>2, <1>1, <1>6, DemoLoopAssumption
           DEF LoopInv, LoopSound, LoopTypes, TripsKnown, TripsOf, Drawn, Flows
      <4>3. StillMounted(h)
        BY <4>1, <2>2 DEF StillMounted
      <4> QED BY <4>2, <4>3, <3>1, <1>7, <1>8
    <3>2. CASE i \in DOMAIN belongs
      <4>1. i \in writtenIds["author"] /\ \E e \in shownEvents["author"] : e.id = i
        BY <3>2, <2>2, <1>4 DEF LoopInv, LoopSound, SavedIsListed, Active, TripOf, Flows
      <4> QED BY <4>1, <1>1, <1>7, <1>8 DEF Flows
    <3> QED BY <3>1, <3>2, <1>4
  <2> QED BY <2>1, <2>2, <1>2 DEF SavedIsListed, Active, TripOf, Recorded, Drawn, Flows
<1>19. WrittenSound'
  <2>1. ASSUME NEW f \in Flows, NEW i \in writtenIds'[f]
        PROVE  /\ i \in DOMAIN belongs' /\ belongs'[i] \in TripsOf(f)
               /\ belongs'[i] = TripOf(f) \/ (f = "loop" /\ belongs'[i] \in disturbed)
    <3>1. CASE i \in writtenIds[f]
      BY <3>1, <1>4 DEF LoopInv, LoopSound, WrittenSound, OfTrip
    <3>2. CASE i \notin writtenIds[f]
      <4>1. i = h.id /\ f = h.flow /\ StillMounted(h)
        BY <3>2, <2>1, <1>1, <1>7
      <4> QED BY <4>1, <1>1, <1>4, <1>6, <1>16, <1>17 DEF TripOf, Flows
    <3> QED BY <3>1, <3>2
  <2>2. ASSUME Starting, NEW i \in writtenIds'["loop"] PROVE belongs'[i] \in disturbed
    <3>1. ~recording
      BY <2>2 DEF LoopInv, LoopSound, StartAlone
    <3>2. CASE i \in writtenIds["loop"]
      BY <3>2, <2>2, <1>4 DEF LoopInv, LoopSound, WrittenSound, OfTrip, Flows
    <3>3. CASE i \notin writtenIds["loop"]
      <4>1. i = h.id /\ h.flow = "loop"
        BY <3>3, <2>2, <1>1, <1>7 DEF Flows
      <4> QED BY <4>1, <3>1, <1>1, <1>4 DEF LoopInv, LoopSound, SavesOfTheRecording
    <3> QED BY <3>2, <3>3
  <2> QED BY <2>1, <2>2, <1>2, <1>5 DEF WrittenSound, OfTrip, TripsOf, TripOf, Recorded, Drawn
<1>20. LeftSound'
  BY <1>2, <1>4, <1>5 DEF LoopInv, LoopSound, LeftSound, OfTrip, TripsOf, Drawn
<1>21. FinishBindsAll'
  <2>1. \A g \in Finishes : g.trip = h.trip => g.trip \in disturbed
    BY <1>1 DEF LoopInv, LoopSound, FinishMeetsNoSave
  <2> QED BY <2>1, <1>2, <1>4, <1>5 DEF LoopInv, LoopSound, FinishBindsAll
<1>22. ActiveIsNotFinished'
  BY <1>2, <1>5 DEF LoopInv, LoopSound, ActiveIsNotFinished, Active, TripOf, Recorded, Drawn
<1>23. StoredSound'
  <2>1. \A e \in shownEvents'["loop"] : e \in shownEvents["loop"] \/ e \in stored
    BY <1>1, <1>7, <1>8 DEF Flows
  <2>2. \A s \in stored : s.trip # NoTrip =>
          s.id \in DOMAIN belongs' /\ (belongs'[s.id] \in TripsOf("author") => s.trip = belongs'[s.id])
    BY <1>4 DEF LoopInv, LoopSound, StoredSound
  <2> QED BY <2>1, <2>2, <1>2, <1>8 DEF LoopInv, LoopSound, StoredSound, TripsOf, Drawn
<1>24. EventsFollowTheirTrip'
  <2>1. h.trip \in finished => h.trip \in disturbed
    BY <1>1 DEF LoopInv, LoopSound, FinishMeetsNoSave
  <2> QED BY <2>1, <1>2, <1>4 DEF LoopInv, LoopSound, EventsFollowTheirTrip
<1> QED BY <1>9, <1>10, <1>11, <1>12, <1>13, <1>15, <1>18, <1>19, <1>20, <1>21, <1>22, <1>23,
           <1>24
           DEF LoopInv, LoopSound

LEMMA LoopInvInit == LoopInit => LoopInv
<1> SUFFICES ASSUME LoopInit PROVE LoopInv
  OBVIOUS
<1>1. Saves = {} /\ Finishes = {} /\ ~Starting /\ DOMAIN belongs = {}
  BY DEF LoopInit, Saves, Finishes, Starting
<1>2. LoopTypes
  BY <1>1, DemoLoopAssumption DEF LoopInit, LoopTypes, NoTrip
<1>3. OpenWrites = {}
  BY <1>1 DEF OpenWrites
<1>4. WritesCounted
  BY <1>3, FS_EmptySet DEF WritesCounted, LoopInit
<1>5. TripsKnown /\ StartAlone /\ SavesSound /\ SavesOfTheRecording /\ LeftSound
  BY <1>1 DEF LoopInit, TripsKnown, StartAlone, SavesSound, SavesOfTheRecording, LeftSound
<1>6. SavedIsListed /\ RecordedInFront /\ FinishBindsAll /\ FinishMeetsNoSave /\ EventsFollowTheirTrip
  BY <1>1
     DEF LoopInit, SavedIsListed, RecordedInFront, FinishBindsAll, FinishMeetsNoSave,
         EventsFollowTheirTrip
<1>7. WrittenSound /\ ActiveIsNotFinished /\ StoredSound
  BY <1>1 DEF LoopInit, WrittenSound, ActiveIsNotFinished, StoredSound, Flows
<1> QED BY <1>2, <1>4, <1>5, <1>6, <1>7 DEF LoopInv, LoopSound

LEMMA LoopInvNext ==
  ASSUME LoopInv, [LoopNext]_loopVars
  PROVE  LoopInv'
<1>1. CASE UNCHANGED loopVars
  <2>1. UNCHANGED <<recording, recordings, handlers, reviewing, authoring, drawings, writesOpen,
                    writtenIds, stored, shownEvents, counts, belongs, finished, disturbed>>
    BY <1>1 DEF loopVars
  <2>2. LoopTypes'
    BY <2>1 DEF LoopInv, LoopTypes
  <2>3. UNCHANGED <<Saves, Finishes, Starting>>
    BY <2>1 DEF Saves, Finishes, Starting
  <2> QED BY <2>1, <2>2, <2>3, SameLoop DEF LoopInv
<1>2. ASSUME NEW f \in Flows, HandOver(f) PROVE LoopInv'
  BY <1>2, HandOverKeeps
<1>3. CASE Start \/ AuthorStart \/ AuthorCancel
  BY <1>3, StartKeeps, AuthorStartKeeps, AuthorCancelKeeps
<1>4. ASSUME NEW f \in Flows, FinishTrip(f) \/ Pin(f) \/ CancelPin(f) \/ EventsListed(f) PROVE LoopInv'
  BY <1>4, FinishTripKeeps, PinsKeep, EventsListedKeeps
<1>5. ASSUME \/ \E t \in finished \cup {0} : OpenTrip(t)
             \/ \E h \in handlers : TripNotOpened(h)
      PROVE  LoopInv'
  BY <1>5, OpensKeep
<1>6. ASSUME NEW h \in handlers,
             \/ StartSettles(h) \/ TripFinished(h) \/ ReviewFinished(h) \/ FinishFails(h)
             \/ EventAdded(h) \/ SaveSettles(h) \/ SaveFails(h) \/ MediaReleased(h) \/ TripOpened(h)
      PROVE  LoopInv'
  BY <1>6, StartSettlesKeeps, TripFinishedKeeps, ReviewFinishedKeeps, FinishFailsKeeps,
     EventAddedKeeps, SaveSettlesKeeps, SaveFailsKeeps, MediaReleasedKeeps, TripOpenedKeeps
<1>7. ASSUME NEW h \in handlers, h.kind = "finish", NEW e \in h.left, BindEvent(h, e) PROVE LoopInv'
  BY <1>7, BindEventKeeps
<1> QED BY <1>1, <1>2, <1>3, <1>4, <1>5, <1>6, <1>7 DEF LoopNext

(* Of loop.tsx's stop and save and authoring.tsx's save, for any number of *)
(* trips, events and handlers under way: an event reported as saved is     *)
(* stored under the trip it was put on by the time that trip is up for     *)
(* review, and a review shows only events stored under its trip.           *)
THEOREM DemoKeepsItsEvents == LoopSpec => []LoopKeepsEvents
<1>1. LoopInv => LoopKeepsEvents
  <2>1. ASSUME LoopInv, NEW e \in reviewEvents PROVE e \in EventsOf(reviewing)
    BY <2>1 DEF LoopInv, LoopSound, StoredSound, reviewEvents, EventsOf
  <2> QED BY <2>1 DEF LoopInv, LoopSound, LoopKeepsEvents, ReviewIsOfItsTrip
<1> QED BY <1>1, LoopInvInit, LoopInvNext, PTL DEF LoopSpec

-----------------------------------------------------------------------------
(* Sorts and filters.                                                      *)

(* A set of pairs that puts the members of a set in a line.                *)
Orders(precedes, S) ==
  /\ \A x \in S : <<x, x>> \notin precedes
  /\ \A x, y \in S : x # y => (<<x, y>> \in precedes \/ <<y, x>> \in precedes)
  /\ \A x, y, z \in S : (<<x, y>> \in precedes /\ <<y, z>> \in precedes) => <<x, z>> \in precedes

(* The members of a set, each once and in this order.                      *)
Lines(p, S, precedes) ==
  /\ p \in [1..Cardinality(S) -> S]
  /\ \A i, j \in 1..Cardinality(S) : i < j => <<p[i], p[j]>> \in precedes
  /\ \A x \in S : \E k \in 1..Cardinality(S) : p[k] = x

LEMMA ArrangedLines ==
  ASSUME NEW S, IsFiniteSet(S), NEW precedes, Orders(precedes, S)
  PROVE  Cardinality(S) \in Nat /\ Lines(Arranged(S, precedes), S, precedes)
<1> DEFINE size == Cardinality(S)
           ahead(x) == {y \in S : <<y, x>> \in precedes}
           rank == [x \in S |-> Cardinality(ahead(x))]
           p == Arranged(S, precedes)
<1>1. size \in Nat
  BY FS_CardinalityType
<1>2. ASSUME NEW x \in S
      PROVE  IsFiniteSet(ahead(x)) /\ Cardinality(ahead(x)) \in 0..(size - 1)
  <2>1. ahead(x) \in SUBSET S /\ ahead(x) # S
    BY DEF Orders
  <2>2. IsFiniteSet(ahead(x)) /\ Cardinality(ahead(x)) <= size /\ Cardinality(ahead(x)) # size
    BY <2>1, FS_Subset
  <2>3. Cardinality(ahead(x)) \in Nat
    BY <2>2, FS_CardinalityType
  <2> QED
    BY <2>2, <2>3, <1>1
<1>3. ASSUME NEW x \in S, NEW y \in S, <<x, y>> \in precedes
      PROVE  rank[x] < rank[y]
  <2>1. ahead(x) \in SUBSET ahead(y) /\ ahead(x) # ahead(y)
    <3>1. \A z \in ahead(x) : z \in ahead(y)
      BY <1>3 DEF Orders
    <3>2. x \in ahead(y) /\ x \notin ahead(x)
      BY <1>3 DEF Orders
    <3> DEFINE of == ahead(x)
               others == ahead(y)
    <3>3. (\A z \in of : z \in others) /\ x \in others /\ x \notin of
      BY <3>1, <3>2
    <3> HIDE DEF of, others
    <3>4. of \in SUBSET others /\ of # others
      BY <3>3
    <3> QED
      BY <3>4 DEF of, others
  <2>2. Cardinality(ahead(x)) <= Cardinality(ahead(y)) /\ Cardinality(ahead(x)) # Cardinality(ahead(y))
    BY <2>1, <1>2, FS_Subset
  <2>3. rank[x] = Cardinality(ahead(x)) /\ rank[y] = Cardinality(ahead(y))
    OBVIOUS
  <2>4. Cardinality(ahead(x)) \in Int /\ Cardinality(ahead(y)) \in Int
    BY <1>2, SMTT(30)
  <2> DEFINE i == Cardinality(ahead(x))
             j == Cardinality(ahead(y))
  <2>5. i \in Int /\ j \in Int /\ i <= j /\ i # j /\ rank[x] = i /\ rank[y] = j
    BY <2>2, <2>3, <2>4
  <2> HIDE DEF i, j, rank
  <2> QED
    BY <2>5
<1>4. rank \in [S -> 0..(size - 1)]
  BY <1>2
<1>5. rank \in Surjection(S, 0..(size - 1))
  <2>1. \A x, y \in S : rank[x] = rank[y] => x = y
    <3>1. \A x \in S : rank[x] \in Int
      BY <1>4
    <3> HIDE DEF rank
    <3>2. \A x, y \in S : x # y => <<x, y>> \in precedes \/ <<y, x>> \in precedes
      BY DEF Orders
    <3>3. \A x, y \in S : <<x, y>> \in precedes => rank[x] < rank[y]
      BY <1>3
    <3> SUFFICES ASSUME NEW x \in S, NEW y \in S, rank[x] = rank[y], x # y PROVE FALSE
      OBVIOUS
    <3>4. rank[x] < rank[y] \/ rank[y] < rank[x]
      BY <3>2, <3>3
    <3> QED
      BY <3>1, <3>4
  <2> HIDE DEF rank
  <2>2. rank \in Injection(S, 0..(size - 1))
    BY <2>1, <1>4 DEF Injection, IsInjective
  <2>3. IsFiniteSet(0..(size - 1)) /\ Cardinality(0..(size - 1)) = size
    BY <1>1, FS_Interval, SMTT(30)
  <2> QED
    BY <2>2, <2>3, FS_Injection
<1>6. \A k \in 1..size : p[k] = CHOOSE x \in S : Cardinality(ahead(x)) = k - 1
  BY DEF Arranged
<1>7. ASSUME NEW k \in 1..size PROVE p[k] \in S /\ rank[p[k]] = k - 1
  <2>1. \E x \in S : rank[x] = k - 1
    <3>1. k - 1 \in 0..(size - 1)
      BY <1>1
    <3> HIDE DEF rank
    <3> QED
      BY <3>1, <1>5 DEF Surjection
  <2>2. \E x \in S : Cardinality(ahead(x)) = k - 1
    BY <2>1
  <2>3. p[k] \in S /\ Cardinality(ahead(p[k])) = k - 1
    BY <2>2, <1>6
  <2> QED
    BY <2>3
<1>8. p \in [1..size -> S]
  <2>1. p = [k \in 1..size |-> CHOOSE x \in S : Cardinality(ahead(x)) = k - 1]
    BY DEF Arranged
  <2>2. \A k \in 1..size : (CHOOSE x \in S : Cardinality(ahead(x)) = k - 1) \in S
    BY <1>6, <1>7
  <2> HIDE DEF p, ahead
  <2> QED
    BY <2>1, <2>2
<1> HIDE DEF rank, p
<1>9. \A i, j \in 1..size : i < j => <<p[i], p[j]>> \in precedes
  <2> SUFFICES ASSUME NEW i \in 1..size, NEW j \in 1..size, i < j, <<p[i], p[j]>> \notin precedes PROVE FALSE
    OBVIOUS
  <2>1. p[i] \in S /\ p[j] \in S /\ rank[p[i]] = i - 1 /\ rank[p[j]] = j - 1
    BY <1>7
  <2>2. <<p[j], p[i]>> \in precedes \/ p[j] = p[i]
    BY <2>1 DEF Orders
  <2> QED
    BY <2>1, <2>2, <1>3
<1>10. ASSUME NEW x \in S PROVE \E k \in 1..size : p[k] = x
  <2>1. rank[x] + 1 \in 1..size
    BY <1>4, <1>1
  <2>2. p[rank[x] + 1] \in S /\ rank[p[rank[x] + 1]] = rank[x] /\ rank[x] \in Int
    BY <2>1, <1>7, <1>4
  <2>3. p[rank[x] + 1] = x
    <3> DEFINE y == p[rank[x] + 1]
    <3>1. y \in S /\ rank[y] = rank[x] /\ rank[x] \in Int
      BY <2>2
    <3> HIDE DEF y
    <3>2. <<x, y>> \notin precedes /\ <<y, x>> \notin precedes
      BY <3>1, <1>3
    <3> QED
      BY <3>1, <3>2 DEF y, Orders
  <2> QED
    BY <2>1, <2>3
<1> QED
  BY <1>1, <1>8, <1>9, <1>10 DEF Lines, p

(* The places picked, in order.                                            *)
Rising(p, places) ==
  /\ p \in [1..Cardinality(places) -> places]
  /\ \A i, j \in 1..Cardinality(places) : i < j => p[i] < p[j]
  /\ \A x \in places : \E k \in 1..Cardinality(places) : p[k] = x

(* What is picked of a sequence is some of its elements, in their order p. *)
PickedBy(p, s, places) ==
  /\ Rising(p, places) /\ Cardinality(places) \in Nat
  /\ Picked(s, places) = [k \in 1..Cardinality(places) |-> s[p[k]]]

LEMMA PickedOf ==
  ASSUME NEW n \in Nat, NEW places \in SUBSET (1..n)
  PROVE  \E p : \A s : PickedBy(p, s, places)
<1> DEFINE precedes == {w \in places \X places : w[1] < w[2]}
           size == Cardinality(places)
           p == Arranged(places, precedes)
<1>0. \A x \in places : x \in Int
  OBVIOUS
<1>1. IsFiniteSet(places)
  <2>1. IsFiniteSet(1..n)
    BY FS_Interval
  <2> QED
    BY <2>1, FS_Subset
<1>2. \A x, y \in places : <<x, y>> \in precedes <=> x < y
  OBVIOUS
<1>3. size \in Nat /\ Lines(p, places, precedes)
  <2> HIDE DEF precedes
  <2>1. Orders(precedes, places)
    BY <1>0, <1>2 DEF Orders
  <2> QED
    BY <1>1, <2>1, ArrangedLines
<1>4. Rising(p, places)
  <2> HIDE DEF precedes, p
  <2>1. \A k \in 1..size : p[k] \in places
    BY <1>3 DEF Lines
  <2> QED
    BY <1>2, <1>3, <2>1 DEF Lines, Rising
<1>5. \A k \in 1..size : p[k] = CHOOSE i \in places : Cardinality({j \in places : j < i}) = k - 1
  <2>1. \A i \in places : {j \in places : <<j, i>> \in precedes} = {j \in places : j < i}
    BY <1>2
  <2> HIDE DEF precedes
  <2>2. \A k \in 1..size : p[k] = CHOOSE i \in places : Cardinality({j \in places : <<j, i>> \in precedes}) = k - 1
    BY DEF Arranged
  <2>3. \A k : (CHOOSE i \in places : Cardinality({j \in places : <<j, i>> \in precedes}) = k - 1)
                 = (CHOOSE i \in places : Cardinality({j \in places : j < i}) = k - 1)
    BY <2>1
  <2> QED
    BY <2>2, <2>3
<1> HIDE DEF p
<1>6. \A s : Picked(s, places) = [k \in 1..size |-> s[p[k]]]
  <2> DEFINE place(k) == CHOOSE i \in places : Cardinality({j \in places : j < i}) = k - 1
  <2>1. \A s : Picked(s, places) = [k \in 1..size |-> s[place(k)]]
    BY DEF Picked
  <2>2. \A k \in 1..size : p[k] = place(k)
    BY <1>5
  <2> HIDE DEF place
  <2> QED
    BY <2>1, <2>2
<1> QED
  BY <1>3, <1>4, <1>6 DEF PickedBy

(* What holds at the first of a run of numbers, and with each of the next, *)
(* holds of all of them.                                                   *)
LEMMA UpTo ==
  ASSUME NEW a \in Int, NEW b \in Int, NEW S, a \in S,
         \A k \in a..(b - 1) : k \in S => k + 1 \in S
  PROVE  \A k \in a..b : k \in S
<1> SUFFICES ASSUME NEW c \in a..b, c \notin S PROVE FALSE
  OBVIOUS
<1> DEFINE T == {d \in Nat : a + d \in a..b /\ a + d \notin S}
<1>1. c - a \in T
  OBVIOUS
<1>2. PICK d \in T : \A e \in T : d <= e
  BY <1>1, LeastNatural
<1>3. d # 0 /\ d \in Nat /\ a + d \in a..b /\ a + d \notin S
  BY <1>2
<1>4. d - 1 \notin T
  BY <1>2, <1>3
<1>5. a + (d - 1) \in a..(b - 1) /\ a + (d - 1) \in S
  BY <1>3, <1>4
<1> QED
  BY <1>3, <1>5

-----------------------------------------------------------------------------
(* Sums.                                                                   *)

SummedBy(sum, of, from, to) ==
  sum = [k \in from..to |-> IF k = from THEN 0 ELSE sum[k - 1] + of[k]]

LEMMA SumsExist ==
  ASSUME NEW of, NEW from \in Int, NEW to \in Int, from <= to
  PROVE  \E sum : SummedBy(sum, of, from, to)
<1> DEFINE S == {k \in from..to : \E sum : SummedBy(sum, of, from, k)}
<1>1. from \in S
  <2>1. SummedBy([k \in from..from |-> 0], of, from, from)
    BY DEF SummedBy
  <2> QED
    BY <2>1
<1>2. ASSUME NEW j \in from..(to - 1), j \in S PROVE j + 1 \in S
  <2>1. PICK sum : SummedBy(sum, of, from, j)
    BY <1>2
  <2> DEFINE longer == [k \in from..(j + 1) |-> IF k = j + 1 THEN sum[j] + of[j + 1] ELSE sum[k]]
  <2>2. ASSUME NEW k \in from..(j + 1)
        PROVE  longer[k] = IF k = from THEN 0 ELSE longer[k - 1] + of[k]
    <3>1. CASE k = j + 1
      <4>1. longer[k] = sum[j] + of[j + 1] /\ longer[k - 1] = sum[j] /\ k # from
        BY <3>1
      <4> QED
        BY <3>1, <4>1
    <3>2. CASE k # j + 1
      <4>1. k \in from..j
        BY <3>2
      <4>2. sum[k] = IF k = from THEN 0 ELSE sum[k - 1] + of[k]
        BY <2>1, <4>1 DEF SummedBy
      <4>3. longer[k] = sum[k] /\ (k # from => longer[k - 1] = sum[k - 1])
        BY <3>2, <4>1
      <4> QED
        BY <4>2, <4>3
    <3> QED
      BY <3>1, <3>2
  <2>3. longer = [k \in from..(j + 1) |-> longer[k]]
    OBVIOUS
  <2> HIDE DEF longer
  <2>4. SummedBy(longer, of, from, j + 1)
    BY <2>2, <2>3 DEF SummedBy
  <2> QED
    BY <2>4
<1>3. to \in from..to
  OBVIOUS
<1> HIDE DEF S
<1>4. to \in S
  BY <1>1, <1>2, <1>3, UpTo
<1> QED
  BY <1>4 DEF S

(* Sums over one run agree on the shorter one.                             *)
LEMMA SumsAgree ==
  ASSUME NEW of, NEW from \in Int, NEW to \in Int, NEW more \in Int, from <= to, to <= more,
         NEW sum, SummedBy(sum, of, from, to), NEW sums, SummedBy(sums, of, from, more)
  PROVE  \A k \in from..to : sum[k] = sums[k]
<1> DEFINE S == {k \in from..to : sum[k] = sums[k]}
<1>1. \A k \in from..to : sum[k] = IF k = from THEN 0 ELSE sum[k - 1] + of[k]
  BY DEF SummedBy
<1>2. \A k \in from..more : sums[k] = IF k = from THEN 0 ELSE sums[k - 1] + of[k]
  BY DEF SummedBy
<1>3. from \in S
  <2>1. from \in from..to /\ from \in from..more
    OBVIOUS
  <2> QED
    BY <1>1, <1>2, <2>1
<1>4. ASSUME NEW j \in from..(to - 1), j \in S PROVE j + 1 \in S
  <2>1. j + 1 \in from..to /\ j + 1 \in from..more /\ j + 1 # from /\ (j + 1) - 1 = j
    OBVIOUS
  <2>2. sum[j + 1] = sum[j] + of[j + 1] /\ sums[j + 1] = sums[j] + of[j + 1]
    BY <1>1, <1>2, <2>1
  <2> QED
    BY <1>4, <2>1, <2>2
<1>5. \A k \in from..to : k \in S
  <2> HIDE DEF S
  <2> QED
    BY <1>3, <1>4, UpTo
<1> QED
  BY <1>5

LEMMA SumOverIs ==
  ASSUME NEW of, NEW from \in Int, NEW to \in Int, from <= to
  PROVE  \E sum : SummedBy(sum, of, from, to) /\ SumOver(of, from, to) = sum[to]
<1> DEFINE sum == CHOOSE f : SummedBy(f, of, from, to)
<1>1. SummedBy(sum, of, from, to)
  BY SumsExist
<1>2. SumOver(of, from, to) = sum[to]
  BY DEF SumOver, SummedBy
<1> QED
  BY <1>1, <1>2

(* A sum over nothing, and over one place more.                            *)
LEMMA SumOverUnrolled ==
  ASSUME NEW of, NEW from \in Int
  PROVE  /\ SumOver(of, from, from) = 0
         /\ \A to \in Int : from <= to =>
              SumOver(of, from, to + 1) = SumOver(of, from, to) + of[to + 1]
<1>1. SumOver(of, from, from) = 0
  <2>1. PICK sum : SummedBy(sum, of, from, from) /\ SumOver(of, from, from) = sum[from]
    BY SumOverIs
  <2> QED
    BY <2>1 DEF SummedBy
<1>2. ASSUME NEW to \in Int, from <= to
      PROVE  SumOver(of, from, to + 1) = SumOver(of, from, to) + of[to + 1]
  <2>1. to + 1 \in Int /\ from <= to + 1 /\ to <= to + 1
    BY <1>2
  <2>2. PICK sum : SummedBy(sum, of, from, to) /\ SumOver(of, from, to) = sum[to]
    BY <1>2, SumOverIs
  <2>3. PICK sums : SummedBy(sums, of, from, to + 1) /\ SumOver(of, from, to + 1) = sums[to + 1]
    BY <2>1, SumOverIs
  <2>4. sum[to] = sums[to]
    <3>1. to \in from..to
      BY <1>2
    <3> QED
      BY <1>2, <2>1, <2>2, <2>3, <3>1, SumsAgree
  <2>5. sums[to + 1] = sums[to] + of[to + 1]
    <3>1. to + 1 \in from..(to + 1) /\ to + 1 # from /\ (to + 1) - 1 = to
      BY <1>2
    <3> QED
      BY <2>3, <3>1 DEF SummedBy
  <2> QED
    BY <2>2, <2>3, <2>4, <2>5
<1> QED
  BY <1>1, <1>2

LEMMA SumOverInt ==
  ASSUME NEW of, NEW from \in Int, NEW to \in Int, \A k \in (from + 1)..to : of[k] \in Int
  PROVE  \A k \in from..to : SumOver(of, from, k) \in Int
<1> DEFINE S == {k \in from..to : SumOver(of, from, k) \in Int}
<1>1. CASE from <= to
  <2>1. from \in S
    BY <1>1, SumOverUnrolled
  <2>2. ASSUME NEW j \in from..(to - 1), j \in S PROVE j + 1 \in S
    <3>1. j \in Int /\ from <= j /\ j + 1 \in from..to /\ j + 1 \in (from + 1)..to
      OBVIOUS
    <3>2. SumOver(of, from, j + 1) = SumOver(of, from, j) + of[j + 1]
      BY <3>1, SumOverUnrolled
    <3> QED
      BY <2>2, <3>1, <3>2
  <2>3. \A k \in from..to : k \in S
    <3> HIDE DEF S
    <3> QED
      BY <2>1, <2>2, UpTo
  <2> QED
    BY <2>3
<1> QED
  BY <1>1

(* What a sum is of nothing but numbers that are not negative.             *)
LEMMA SumOverRises ==
  ASSUME NEW of, NEW from \in Int, NEW to \in Int, \A k \in (from + 1)..to : of[k] \in Nat
  PROVE  \A j, k \in from..to : j <= k => SumOver(of, from, j) <= SumOver(of, from, k)
<1> SUFFICES ASSUME NEW j \in from..to PROVE \A k \in j..to : SumOver(of, from, j) <= SumOver(of, from, k)
  OBVIOUS
<1> DEFINE S == {k \in j..to : SumOver(of, from, j) <= SumOver(of, from, k)}
<1>0. \A k \in from..to : SumOver(of, from, k) \in Int
  <2>1. \A k \in (from + 1)..to : of[k] \in Int
    OBVIOUS
  <2> QED
    BY <2>1, SumOverInt
<1>1. j \in S
  BY <1>0
<1>2. ASSUME NEW k \in j..(to - 1), k \in S PROVE k + 1 \in S
  <2>1. k \in Int /\ from <= k /\ k \in from..to /\ k + 1 \in j..to /\ k + 1 \in (from + 1)..to
    OBVIOUS
  <2>2. SumOver(of, from, k + 1) = SumOver(of, from, k) + of[k + 1] /\ of[k + 1] \in Nat
    BY <2>1, SumOverUnrolled
  <2> QED
    BY <1>0, <1>2, <2>1, <2>2
<1>3. \A k \in j..to : k \in S
  <2> HIDE DEF S
  <2> QED
    BY <1>1, <1>2, UpTo
<1> QED
  BY <1>3

(* A sum goes on from where another stops.                                 *)
LEMMA SumOverSplits ==
  ASSUME NEW of, NEW from \in Int, NEW mid \in Int, NEW to \in Int, from <= mid, mid <= to,
         \A k \in (from + 1)..to : of[k] \in Int
  PROVE  SumOver(of, from, to) = SumOver(of, from, mid) + SumOver(of, mid, to)
<1> DEFINE S == {k \in mid..to : SumOver(of, from, k) = SumOver(of, from, mid) + SumOver(of, mid, k)}
<1>0. /\ \A k \in from..to : SumOver(of, from, k) \in Int
      /\ \A k \in mid..to : SumOver(of, mid, k) \in Int
  <2>1. \A k \in (mid + 1)..to : of[k] \in Int
    OBVIOUS
  <2> QED
    BY <2>1, SumOverInt
<1>1. mid \in S
  <2>1. SumOver(of, mid, mid) = 0
    BY SumOverUnrolled
  <2> QED
    BY <1>0, <2>1
<1>2. ASSUME NEW k \in mid..(to - 1), k \in S PROVE k + 1 \in S
  <2>1. k \in Int /\ from <= k /\ mid <= k /\ k \in from..to /\ k + 1 \in mid..to /\ k + 1 \in (from + 1)..to
    OBVIOUS
  <2>2. SumOver(of, from, k + 1) = SumOver(of, from, k) + of[k + 1] /\ of[k + 1] \in Int
    BY <2>1, SumOverUnrolled
  <2>3. SumOver(of, mid, k + 1) = SumOver(of, mid, k) + of[k + 1]
    BY <2>1, SumOverUnrolled
  <2>4. mid \in from..to
    OBVIOUS
  <2> QED
    BY <1>0, <1>2, <2>1, <2>2, <2>3, <2>4
<1>3. \A k \in mid..to : k \in S
  <2> HIDE DEF S
  <2> QED
    BY <1>1, <1>2, UpTo
<1> QED
  BY <1>3

(* What f has after `from`, up to `to`, g has after `here`, up to `there`. *)
SameAfter(f, from, to, g, here, there) ==
  /\ from \in Int /\ to \in Int /\ here \in Int /\ there \in Int
  /\ from <= to /\ there = here + (to - from)
  /\ \A k \in (from + 1)..to : g[(k - from) + here] = f[k]

(* Two sums of the same numbers are one.                                   *)
LEMMA SumOverSame ==
  ASSUME NEW f, NEW g, NEW from, NEW to, NEW here, NEW there, SameAfter(f, from, to, g, here, there)
  PROVE  SumOver(f, from, to) = SumOver(g, here, there)
<1>0. /\ from \in Int /\ to \in Int /\ here \in Int /\ there \in Int /\ from <= to /\ there = here + (to - from)
      /\ \A k \in (from + 1)..to : g[(k - from) + here] = f[k]
  BY DEF SameAfter
<1> DEFINE S == {k \in from..to : SumOver(f, from, k) = SumOver(g, here, (k - from) + here)}
<1>1. from \in S
  <2>1. SumOver(f, from, from) = 0 /\ SumOver(g, here, here) = 0 /\ (from - from) + here = here
    BY <1>0, SumOverUnrolled
  <2> QED
    BY <1>0, <2>1
<1>2. ASSUME NEW k \in from..(to - 1), k \in S PROVE k + 1 \in S
  <2> DEFINE l == (k - from) + here
  <2>1. k \in Int /\ from <= k /\ k + 1 \in from..to /\ k + 1 \in (from + 1)..to
    BY <1>0
  <2>2. SumOver(f, from, k + 1) = SumOver(f, from, k) + f[k + 1]
    BY <1>0, <2>1, SumOverUnrolled
  <2>3. l \in Int /\ here <= l /\ ((k + 1) - from) + here = l + 1
    BY <1>0, <2>1
  <2>4. SumOver(f, from, k) = SumOver(g, here, l)
    BY <1>2
  <2>5. g[((k + 1) - from) + here] = f[k + 1]
    BY <1>0, <2>1
  <2> HIDE DEF l
  <2>6. SumOver(g, here, l + 1) = SumOver(g, here, l) + g[l + 1]
    BY <1>0, <2>3, SumOverUnrolled
  <2> QED
    BY <1>0, <2>1, <2>2, <2>3, <2>4, <2>5, <2>6
<1>3. from \in Int /\ to \in Int /\ to \in from..to /\ (to - from) + here = there
  BY <1>0
<1> HIDE DEF S
<1>4. \A k \in from..to : k \in S
  BY <1>1, <1>2, <1>3, UpTo
<1>5. SumOver(f, from, to) = SumOver(g, here, (to - from) + here)
  BY <1>3, <1>4 DEF S
<1> QED
  BY <1>3, <1>5

(* Sequences joined into one, one after another.                           *)
JoinedBy(f, seqs, n) == f = [i \in 1..n |-> IF i = 1 THEN seqs[i] ELSE f[i - 1] \o seqs[i]]

LEMMA JoinsExist ==
  ASSUME NEW seqs, NEW n \in Nat, n >= 1
  PROVE  \E f : JoinedBy(f, seqs, n)
<1> DEFINE S == {k \in 1..n : \E f : JoinedBy(f, seqs, k)}
<1>1. 1 \in S
  <2>1. JoinedBy([i \in 1..1 |-> seqs[1]], seqs, 1)
    BY DEF JoinedBy
  <2> QED
    BY <2>1
<1>2. ASSUME NEW j \in 1..(n - 1), j \in S PROVE j + 1 \in S
  <2>1. PICK f : JoinedBy(f, seqs, j)
    BY <1>2
  <2> DEFINE whole == f[j] \o seqs[j + 1]
             longer == [i \in 1..(j + 1) |-> IF i = j + 1 THEN whole ELSE f[i]]
  <2>0. whole = f[j] \o seqs[j + 1]
    OBVIOUS
  <2> HIDE DEF whole
  <2>2. ASSUME NEW i \in 1..(j + 1)
        PROVE  longer[i] = IF i = 1 THEN seqs[i] ELSE longer[i - 1] \o seqs[i]
    <3>1. CASE i = j + 1
      <4>1. longer[i] = whole /\ longer[i - 1] = f[j] /\ i # 1
        BY <3>1
      <4> QED
        BY <2>0, <3>1, <4>1
    <3>2. CASE i # j + 1
      <4>1. i \in 1..j
        BY <3>2
      <4>2. f[i] = IF i = 1 THEN seqs[i] ELSE f[i - 1] \o seqs[i]
        BY <2>1, <4>1 DEF JoinedBy
      <4>3. longer[i] = f[i] /\ (i # 1 => longer[i - 1] = f[i - 1])
        BY <3>2, <4>1
      <4> QED
        BY <4>2, <4>3
    <3> QED
      BY <3>1, <3>2
  <2>3. longer = [i \in 1..(j + 1) |-> longer[i]]
    OBVIOUS
  <2> HIDE DEF longer
  <2>4. JoinedBy(longer, seqs, j + 1)
    BY <2>2, <2>3 DEF JoinedBy
  <2> QED
    BY <2>4
<1>3. n \in 1..n
  OBVIOUS
<1> HIDE DEF S
<1>4. n \in S
  BY <1>1, <1>2, <1>3, UpTo
<1> QED
  BY <1>4 DEF S

LEMMA JoinsAgree ==
  ASSUME NEW seqs, NEW n \in Nat, NEW m \in Nat, n <= m, NEW f, JoinedBy(f, seqs, n), NEW g, JoinedBy(g, seqs, m)
  PROVE  \A i \in 1..n : f[i] = g[i]
<1> DEFINE S == {i \in 1..n : f[i] = g[i]}
<1>1. \A i \in 1..n : f[i] = IF i = 1 THEN seqs[i] ELSE f[i - 1] \o seqs[i]
  BY DEF JoinedBy
<1>2. \A i \in 1..m : g[i] = IF i = 1 THEN seqs[i] ELSE g[i - 1] \o seqs[i]
  BY DEF JoinedBy
<1>3. CASE n = 0
  BY <1>3
<1>4. CASE n # 0
  <2>1. 1 \in S
    <3>1. 1 \in 1..n /\ 1 \in 1..m
      BY <1>4
    <3> QED
      BY <1>1, <1>2, <3>1
  <2>2. ASSUME NEW j \in 1..(n - 1), j \in S PROVE j + 1 \in S
    <3>1. j + 1 \in 1..n /\ j + 1 \in 1..m /\ j + 1 # 1 /\ (j + 1) - 1 = j
      OBVIOUS
    <3>2. f[j + 1] = f[j] \o seqs[j + 1] /\ g[j + 1] = g[j] \o seqs[j + 1]
      BY <1>1, <1>2, <3>1
    <3> QED
      BY <2>2, <3>1, <3>2
  <2>3. \A i \in 1..n : i \in S
    <3> HIDE DEF S
    <3> QED
      BY <2>1, <2>2, UpTo
  <2> QED
    BY <2>3
<1> QED
  BY <1>3, <1>4

(* The first n sequences, joined.                                          *)
JoinedUpTo(seqs, n) == FlattenSeq(SubSeq(seqs, 1, n))

LEMMA JoinedIs ==
  ASSUME NEW T, NEW seqs \in Seq(Seq(T)), NEW n \in 1..Len(seqs)
  PROVE  \E f : JoinedBy(f, seqs, n) /\ JoinedUpTo(seqs, n) = f[n]
<1> DEFINE some == SubSeq(seqs, 1, n)
           f == CHOOSE g : JoinedBy(g, seqs, n)
<1>1. Len(some) = n /\ n # 0 /\ n \in Nat /\ n >= 1 /\ \A i \in 1..n : some[i] = seqs[i]
  OBVIOUS
<1>2. JoinedBy(f, seqs, n)
  BY <1>1, JoinsExist
<1>3. \A g : JoinedBy(g, some, n) <=> JoinedBy(g, seqs, n)
  <2> HIDE DEF some
  <2>1. \A g : [i \in 1..n |-> IF i = 1 THEN some[i] ELSE g[i - 1] \o some[i]]
                 = [i \in 1..n |-> IF i = 1 THEN seqs[i] ELSE g[i - 1] \o seqs[i]]
    BY <1>1
  <2> QED
    BY <2>1 DEF JoinedBy
<1>4. f = CHOOSE g : JoinedBy(g, some, n)
  BY <1>3
<1> HIDE DEF some, f
<1>5. FlattenSeq(some) = (CHOOSE g : JoinedBy(g, some, n))[n]
  BY <1>1 DEF FlattenSeq, JoinedBy
<1> QED
  BY <1>2, <1>4, <1>5 DEF JoinedUpTo, some

LEMMA JoinedUnrolled ==
  ASSUME NEW T, NEW seqs \in Seq(Seq(T))
  PROVE  /\ JoinedUpTo(seqs, 0) = << >>
         /\ \A n \in 0..(Len(seqs) - 1) : JoinedUpTo(seqs, n + 1) = JoinedUpTo(seqs, n) \o seqs[n + 1]
         /\ JoinedUpTo(seqs, Len(seqs)) = FlattenSeq(seqs)
         /\ \A n \in 0..Len(seqs) : JoinedUpTo(seqs, n) \in Seq(T)
<1>0. 0 \in Int /\ Len(seqs) \in Int /\ Len(seqs) \in Nat /\ \A i \in 1..Len(seqs) : seqs[i] \in Seq(T)
  OBVIOUS
<1>1. JoinedUpTo(seqs, 0) = << >>
  <2>1. SubSeq(seqs, 1, 0) = << >> /\ Len(<< >>) = 0
    OBVIOUS
  <2> QED
    BY <2>1 DEF JoinedUpTo, FlattenSeq
<1>2. ASSUME NEW n \in 0..(Len(seqs) - 1) PROVE JoinedUpTo(seqs, n + 1) = JoinedUpTo(seqs, n) \o seqs[n + 1]
  <2>1. n + 1 \in 1..Len(seqs) /\ n + 1 \in Nat /\ seqs[n + 1] \in Seq(T)
    BY <1>0
  <2>2. PICK g : JoinedBy(g, seqs, n + 1) /\ JoinedUpTo(seqs, n + 1) = g[n + 1]
    BY <2>1, JoinedIs
  <2>3. CASE n = 0
    <3>1. g[1] = seqs[1]
      BY <2>2, <2>3 DEF JoinedBy
    <3>2. << >> \o seqs[1] = seqs[1]
      BY <2>1, <2>3
    <3> QED
      BY <1>1, <2>2, <2>3, <3>1, <3>2
  <2>4. CASE n # 0
    <3>1. n \in 1..Len(seqs) /\ n \in Nat /\ n <= n + 1 /\ n \in 1..n
      BY <1>0, <2>4
    <3>2. PICK f : JoinedBy(f, seqs, n) /\ JoinedUpTo(seqs, n) = f[n]
      BY <3>1, JoinedIs
    <3>3. f[n] = g[n]
      BY <2>1, <2>2, <3>1, <3>2, JoinsAgree
    <3>4. g[n + 1] = g[n] \o seqs[n + 1]
      <4>1. n + 1 \in 1..(n + 1) /\ n + 1 # 1 /\ (n + 1) - 1 = n
        BY <3>1
      <4> QED
        BY <2>2, <4>1 DEF JoinedBy
    <3> QED
      BY <2>2, <3>2, <3>3, <3>4
  <2> QED
    BY <2>3, <2>4
<1>3. JoinedUpTo(seqs, Len(seqs)) = FlattenSeq(seqs)
  <2>1. SubSeq(seqs, 1, Len(seqs)) = seqs
    OBVIOUS
  <2> QED
    BY <2>1 DEF JoinedUpTo
<1>4. \A n \in 0..Len(seqs) : JoinedUpTo(seqs, n) \in Seq(T)
  <2> DEFINE S == {n \in 0..Len(seqs) : JoinedUpTo(seqs, n) \in Seq(T)}
  <2>1. 0 \in S
    <3>1. 0 \in 0..Len(seqs) /\ << >> \in Seq(T)
      BY <1>0
    <3> QED
      BY <1>1, <3>1
  <2>2. ASSUME NEW n \in 0..(Len(seqs) - 1), n \in S PROVE n + 1 \in S
    <3>1. n + 1 \in 0..Len(seqs) /\ seqs[n + 1] \in Seq(T)
      BY <1>0
    <3>2. JoinedUpTo(seqs, n) \o seqs[n + 1] \in Seq(T)
      BY <2>2, <3>1
    <3> QED
      BY <1>2, <3>1, <3>2
  <2>3. \A n \in 0..Len(seqs) : n \in S
    <3> HIDE DEF S
    <3> QED
      BY <1>0, <2>1, <2>2, UpTo
  <2> QED
    BY <2>3
<1> QED
  BY <1>1, <1>2, <1>3, <1>4

(* What is in the whole is in one of the parts, and the other way round.   *)
LEMMA JoinedHolds ==
  ASSUME NEW T, NEW seqs \in Seq(Seq(T))
  PROVE  {FlattenSeq(seqs)[i] : i \in DOMAIN FlattenSeq(seqs)}
           = UNION {{seqs[n][i] : i \in DOMAIN seqs[n]} : n \in DOMAIN seqs}
<1> DEFINE held(s) == {s[i] : i \in DOMAIN s}
           upTo(n) == UNION {held(seqs[m]) : m \in 1..n}
           S == {n \in 0..Len(seqs) : held(JoinedUpTo(seqs, n)) = upTo(n)}
<1>0. 0 \in Int /\ Len(seqs) \in Int /\ Len(seqs) \in Nat /\ DOMAIN seqs = 1..Len(seqs) /\ \A i \in 1..Len(seqs) : seqs[i] \in Seq(T)
  OBVIOUS
<1>1. 0 \in S
  <2>1. held(<< >>) = {} /\ upTo(0) = {} /\ 0 \in 0..Len(seqs)
    BY <1>0
  <2> QED
    BY <2>1, JoinedUnrolled
<1>2. ASSUME NEW n \in 0..(Len(seqs) - 1), n \in S PROVE n + 1 \in S
  <2> DEFINE a == JoinedUpTo(seqs, n)
             b == seqs[n + 1]
  <2>1. n \in 0..Len(seqs) /\ n + 1 \in 0..Len(seqs) /\ n + 1 \in 1..Len(seqs) /\ n \in Nat
    BY <1>0
  <2>2. a \in Seq(T) /\ b \in Seq(T) /\ JoinedUpTo(seqs, n + 1) = a \o b
    BY <1>0, <2>1, JoinedUnrolled
  <2> HIDE DEF a
  <2>3. held(a \o b) = held(a) \cup held(b)
    <3> HIDE DEF b
    <3>1. /\ Len(a) \in Nat /\ Len(b) \in Nat /\ Len(a \o b) = Len(a) + Len(b)
          /\ DOMAIN (a \o b) = 1..(Len(a) + Len(b)) /\ DOMAIN a = 1..Len(a) /\ DOMAIN b = 1..Len(b)
          /\ \A i \in 1..(Len(a) + Len(b)) : (a \o b)[i] = IF i <= Len(a) THEN a[i] ELSE b[i - Len(a)]
      BY <2>2
    <3>2. ASSUME NEW x \in held(a \o b) PROVE x \in held(a) \cup held(b)
      <4>1. PICK i \in 1..(Len(a) + Len(b)) : x = (a \o b)[i]
        BY <3>1
      <4>2. CASE i <= Len(a)
        <5>1. i \in DOMAIN a /\ x = a[i]
          BY <3>1, <4>1, <4>2
        <5> QED
          BY <5>1
      <4>3. CASE ~(i <= Len(a))
        <5>1. i - Len(a) \in DOMAIN b /\ x = b[i - Len(a)]
          BY <3>1, <4>1, <4>3
        <5> QED
          BY <5>1
      <4> QED
        BY <4>2, <4>3
    <3>3. ASSUME NEW x \in held(a) PROVE x \in held(a \o b)
      <4>1. PICK i \in 1..Len(a) : x = a[i]
        BY <3>1
      <4>2. i \in DOMAIN (a \o b) /\ x = (a \o b)[i]
        BY <3>1, <4>1
      <4> QED
        BY <4>2
    <3>4. ASSUME NEW x \in held(b) PROVE x \in held(a \o b)
      <4>1. PICK i \in 1..Len(b) : x = b[i]
        BY <3>1
      <4>2. Len(a) + i \in DOMAIN (a \o b) /\ x = (a \o b)[Len(a) + i]
        BY <3>1, <4>1
      <4> QED
        BY <4>2
    <3> HIDE DEF held
    <3> QED
      BY <3>2, <3>3, <3>4
  <2>4. upTo(n + 1) = upTo(n) \cup held(b)
    <3>1. 1..(n + 1) = (1..n) \cup {n + 1}
      BY <2>1
    <3> HIDE DEF held
    <3> QED
      BY <3>1
  <2>5. held(a) = upTo(n)
    BY <1>2 DEF a
  <2> HIDE DEF held, upTo, b
  <2>6. held(JoinedUpTo(seqs, n + 1)) = upTo(n + 1)
    BY <2>2, <2>3, <2>4, <2>5
  <2> QED
    BY <2>1, <2>6
<1>3. \A n \in 0..Len(seqs) : n \in S
  <2> HIDE DEF S
  <2> QED
    BY <1>0, <1>1, <1>2, UpTo
<1>4. Len(seqs) \in 0..Len(seqs)
  BY <1>0
<1>5. held(JoinedUpTo(seqs, Len(seqs))) = upTo(Len(seqs))
  <2> HIDE DEF held, upTo
  <2> QED
    BY <1>3, <1>4
<1>6. JoinedUpTo(seqs, Len(seqs)) = FlattenSeq(seqs)
  BY JoinedUnrolled
<1> QED
  BY <1>0, <1>5, <1>6

-----------------------------------------------------------------------------
(* Durations.                                                              *)

LEMMA Remainders ==
  ASSUME NEW n \in Nat
  PROVE  /\ n \div 60 \in Nat /\ n % 60 \in 0..59 /\ n = 60 * (n \div 60) + (n % 60)
         /\ n \div 3600 \in Nat /\ n % 3600 \in 0..3599 /\ n = 3600 * (n \div 3600) + (n % 3600)
<1>1. n \div 60 \in Nat /\ n \div 3600 \in Nat
  OBVIOUS
<1>2. n % 60 \in 0..59 /\ n % 3600 \in 0..3599
  OBVIOUS
<1>3. n = 60 * (n \div 60) + (n % 60)
  OBVIOUS
<1>4. n = 3600 * (n \div 3600) + (n % 3600)
  OBVIOUS
<1> QED
  BY <1>1, <1>2, <1>3, <1>4

LEMMA OneRemainder ==
  ASSUME NEW a \in Nat, NEW b \in Nat, NEW x \in 0..59, NEW y \in 0..59, 60 * a + x = 60 * b + y
  PROVE  x = y
OBVIOUS

LEMMA ClockReads ==
  ASSUME NEW total \in Nat
  PROVE  /\ (total % 3600) \div 60 \in 0..59 /\ total % 60 \in 0..59
         /\ ((total \div 3600) * 60 + (total % 3600) \div 60) * 60 + (total % 60) = total
<1> DEFINE h == total \div 3600
           r == total % 3600
           m == r \div 60
           x == r % 60
           q == total \div 60
           s == total % 60
<1>1. h \in Nat /\ r \in 0..3599 /\ total = 3600 * h + r
  BY Remainders
<1>2. m \in Nat /\ x \in 0..59 /\ r = 60 * m + x
  BY <1>1, Remainders
<1>3. q \in Nat /\ s \in 0..59 /\ total = 60 * q + s
  BY Remainders
<1> HIDE DEF h, r, m, x, q, s
<1>4. m \in 0..59
  BY <1>1, <1>2
<1>5. total = 60 * (h * 60 + m) + x
  BY <1>1, <1>2
<1>6. s = x
  <2>1. h * 60 + m \in Nat
    BY <1>1, <1>2
  <2> QED
    BY <1>2, <1>3, <1>5, <2>1, OneRemainder
<1>7. (h * 60 + m) * 60 + s = total
  BY <1>1, <1>2, <1>5, <1>6
<1> QED
  <2>1. h = total \div 3600
    BY DEF h
  <2>2. m = (total % 3600) \div 60
    BY DEF m, r
  <2>3. s = total % 60
    BY DEF s
  <2> QED
    BY <1>3, <1>4, <1>7, <2>1, <2>2, <2>3

(* StatsPanel, formatDuration: whatever two durations a track has, each    *)
(* reads as a clock would, to the nearest second, and never out of order.  *)
THEOREM DurationsRead ==
  ASSUME NEW ms \in Int, NEW longer \in Int
  PROVE  DurationReads(ms, longer)
<1> DEFINE total(d) == Later(0, (d + 500) \div 1000)
           seconds(d) == (d.h * 60 + d.m) * 60 + d.s
<1>1. ASSUME NEW d \in Int
      PROVE  /\ total(d) \in Nat
             /\ FormatDuration(d).m \in 0..59 /\ FormatDuration(d).s \in 0..59
             /\ seconds(FormatDuration(d)) = total(d)
  <2>1. total(d) \in Nat
    BY DEF Later
  <2>2. /\ FormatDuration(d).h = total(d) \div 3600 /\ FormatDuration(d).s = total(d) % 60
        /\ FormatDuration(d).m = (total(d) % 3600) \div 60
    BY DEF FormatDuration
  <2> HIDE DEF total
  <2>3. /\ (total(d) % 3600) \div 60 \in 0..59 /\ total(d) % 60 \in 0..59
        /\ ((total(d) \div 3600) * 60 + (total(d) % 3600) \div 60) * 60 + (total(d) % 60) = total(d)
    BY <2>1, ClockReads
  <2> QED
    BY <2>1, <2>2, <2>3
<1>2. ms >= 0 => Apart(total(ms) * 1000, ms) <= 500
  BY DEF Later, Apart
<1>3. ms <= longer => total(ms) <= total(longer)
  BY DEF Later
<1> HIDE DEF total
<1> DEFINE panel == StatsPanel([movingTimeMs |-> ms, durationMs |-> longer])
<1>4. panel.moving = FormatDuration(ms) /\ panel.duration = FormatDuration(longer)
  BY DEF StatsPanel
<1> HIDE DEF panel, seconds
<1>5. /\ panel.moving.m \in 0..59 /\ panel.moving.s \in 0..59
      /\ ms >= 0 => Apart(seconds(panel.moving) * 1000, ms) <= 500
      /\ ms <= longer => seconds(panel.moving) <= seconds(panel.duration)
  BY <1>1, <1>2, <1>3, <1>4
<1> QED
  BY <1>5 DEF DurationReads, panel, seconds

-----------------------------------------------------------------------------
(* The points kept of a stream of fixes.                                   *)

Policies == [maxAccuracyM : Int, minDistanceM : Nat, maxIntervalMs : Int]

Taken(kept, fix, policy) ==
  LET previous == IF kept = << >> THEN Unset ELSE Last(kept)
  IN IF Decision(previous, fix, policy).keep THEN Append(kept, fix) ELSE kept

KeptBy(after, fixes, policy, n) ==
  after = [i \in 0..n |-> IF i = 0 THEN << >> ELSE Taken(after[i - 1], fixes[i], policy)]

LEMMA KeptExists ==
  ASSUME NEW fixes, NEW policy, NEW n \in Nat
  PROVE  \E after : KeptBy(after, fixes, policy, n)
<1> DEFINE S == {k \in 0..n : \E after : KeptBy(after, fixes, policy, k)}
<1>1. 0 \in S
  <2>1. KeptBy([i \in 0..0 |-> << >>], fixes, policy, 0)
    BY DEF KeptBy
  <2> QED
    BY <2>1
<1>2. ASSUME NEW j \in 0..(n - 1), j \in S PROVE j + 1 \in S
  <2>1. PICK after : KeptBy(after, fixes, policy, j)
    BY <1>2
  <2> DEFINE newest == Taken(after[j], fixes[j + 1], policy)
             longer == [i \in 0..(j + 1) |-> IF i = j + 1 THEN newest ELSE after[i]]
  <2>0. newest = Taken(after[j], fixes[j + 1], policy)
    OBVIOUS
  <2> HIDE DEF newest
  <2>2. ASSUME NEW i \in 0..(j + 1)
        PROVE  longer[i] = IF i = 0 THEN << >> ELSE Taken(longer[i - 1], fixes[i], policy)
    <3>1. CASE i = j + 1
      <4>1. longer[i] = newest /\ longer[i - 1] = after[j] /\ i # 0
        BY <3>1
      <4> QED
        BY <2>0, <3>1, <4>1
    <3>2. CASE i # j + 1
      <4>1. i \in 0..j
        BY <3>2
      <4>2. after[i] = IF i = 0 THEN << >> ELSE Taken(after[i - 1], fixes[i], policy)
        BY <2>1, <4>1 DEF KeptBy
      <4>3. longer[i] = after[i] /\ (i # 0 => longer[i - 1] = after[i - 1])
        BY <3>2, <4>1
      <4> QED
        BY <4>2, <4>3
    <3> QED
      BY <3>1, <3>2
  <2>3. longer = [i \in 0..(j + 1) |-> longer[i]]
    OBVIOUS
  <2> HIDE DEF longer
  <2>4. KeptBy(longer, fixes, policy, j + 1)
    BY <2>2, <2>3 DEF KeptBy
  <2> QED
    BY <2>4
<1>3. n \in 0..n
  OBVIOUS
<1> HIDE DEF S
<1>4. n \in S
  BY <1>1, <1>2, <1>3, UpTo
<1> QED
  BY <1>4 DEF S

(* The points kept of the first n fixes.                                   *)
KeptOf(fixes, policy, n) == Kept(SubSeq(fixes, 1, n), policy)

LEMMA KeptIs ==
  ASSUME NEW T, NEW fixes \in Seq(T), NEW policy, NEW n \in 0..Len(fixes)
  PROVE  \E after : KeptBy(after, fixes, policy, n) /\ KeptOf(fixes, policy, n) = after[n]
<1> DEFINE some == SubSeq(fixes, 1, n)
           after == CHOOSE f : KeptBy(f, fixes, policy, n)
<1>1. Len(some) = n /\ n \in Nat /\ \A i \in 1..n : some[i] = fixes[i]
  OBVIOUS
<1>2. KeptBy(after, fixes, policy, n)
  BY <1>1, KeptExists
<1>3. \A f : KeptBy(f, some, policy, n) <=> KeptBy(f, fixes, policy, n)
  <2> HIDE DEF some
  <2>1. \A i \in 0..n : i # 0 => i \in 1..n
    BY <1>1
  <2>2. \A f : [i \in 0..n |-> IF i = 0 THEN << >> ELSE Taken(f[i - 1], some[i], policy)]
                 = [i \in 0..n |-> IF i = 0 THEN << >> ELSE Taken(f[i - 1], fixes[i], policy)]
    BY <1>1, <2>1
  <2> QED
    BY <2>2 DEF KeptBy
<1>4. after = CHOOSE f : KeptBy(f, some, policy, n)
  BY <1>3
<1> HIDE DEF some, after
<1>5. Kept(some, policy) = (CHOOSE f : KeptBy(f, some, policy, n))[n]
  BY <1>1 DEF Kept, KeptBy, Taken
<1> QED
  BY <1>2, <1>4, <1>5 DEF KeptOf, some

-----------------------------------------------------------------------------
(* Sampling.                                                               *)

Accurate(fix, policy) == fix.accuracyM = Unset \/ fix.accuracyM <= policy.maxAccuracyM

LEMMA KeptUnrolled ==
  ASSUME NEW T, NEW fixes \in Seq(T), NEW policy
  PROVE  /\ KeptOf(fixes, policy, 0) = << >>
         /\ \A n \in 0..(Len(fixes) - 1) :
              KeptOf(fixes, policy, n + 1) = Taken(KeptOf(fixes, policy, n), fixes[n + 1], policy)
         /\ KeptOf(fixes, policy, Len(fixes)) = Kept(fixes, policy)
<1>1. KeptOf(fixes, policy, 0) = << >>
  <2>0. 0 \in 0..Len(fixes)
    OBVIOUS
  <2>1. PICK f : KeptBy(f, fixes, policy, 0) /\ KeptOf(fixes, policy, 0) = f[0]
    BY <2>0, KeptIs
  <2> QED
    BY <2>1 DEF KeptBy
<1>2. ASSUME NEW n \in 0..(Len(fixes) - 1)
      PROVE  KeptOf(fixes, policy, n + 1) = Taken(KeptOf(fixes, policy, n), fixes[n + 1], policy)
  <2>0. n \in 0..Len(fixes) /\ n + 1 \in 0..Len(fixes) /\ n \in Nat /\ n + 1 \in Nat
    OBVIOUS
  <2>1. PICK f : KeptBy(f, fixes, policy, n) /\ KeptOf(fixes, policy, n) = f[n]
    BY <2>0, KeptIs
  <2>2. PICK g : KeptBy(g, fixes, policy, n + 1) /\ KeptOf(fixes, policy, n + 1) = g[n + 1]
    BY <2>0, KeptIs
  <2> DEFINE S == {k \in 0..n : f[k] = g[k]}
  <2>3. 0 \in S
    BY <2>0, <2>1, <2>2 DEF KeptBy
  <2>4. ASSUME NEW k \in 0..(n - 1), k \in S PROVE k + 1 \in S
    <3>1. k + 1 \in 0..n /\ k + 1 \in 0..(n + 1) /\ k + 1 # 0 /\ (k + 1) - 1 = k
      OBVIOUS
    <3>2. f[k + 1] = Taken(f[k], fixes[k + 1], policy)
      BY <2>1, <3>1 DEF KeptBy
    <3>3. g[k + 1] = Taken(g[k], fixes[k + 1], policy)
      BY <2>2, <3>1 DEF KeptBy
    <3>4. f[k] = g[k]
      BY <2>4
    <3> QED
      BY <3>1, <3>2, <3>3, <3>4
  <2>5. n \in 0..n /\ 0 \in Int /\ n \in Int
    OBVIOUS
  <2> HIDE DEF S
  <2>6. n \in S
    BY <2>3, <2>4, <2>5, UpTo
  <2>7. g[n + 1] = Taken(g[n], fixes[n + 1], policy)
    <3>1. n + 1 \in 0..(n + 1) /\ n + 1 # 0 /\ (n + 1) - 1 = n
      BY <2>0
    <3> QED
      BY <2>2, <3>1 DEF KeptBy
  <2> QED
    BY <2>1, <2>2, <2>6, <2>7 DEF S
<1>3. KeptOf(fixes, policy, Len(fixes)) = Kept(fixes, policy)
  <2>1. SubSeq(fixes, 1, Len(fixes)) = fixes
    OBVIOUS
  <2> QED
    BY <2>1 DEF KeptOf
<1> QED
  BY <1>1, <1>2, <1>3

(* One more fix: kept, or left out as unneeded.                            *)
LEMMA TakenStep ==
  ASSUME NEW kept \in Seq(Fixes), NEW fix \in Fixes, NEW policy \in Policies
  PROVE  /\ Taken(kept, fix, policy) \in {kept, Append(kept, fix)}
         /\ Taken(kept, fix, policy) = Append(kept, fix) => Accurate(fix, policy)
         /\ Accurate(fix, policy) /\ Taken(kept, fix, policy) = kept =>
              /\ kept # << >>
              /\ Gap(Last(kept).place, fix.place) <= policy.minDistanceM
              /\ fix.t - Last(kept).t < policy.maxIntervalMs
<1> DEFINE previous == IF kept = << >> THEN Unset ELSE Last(kept)
           decided == Decision(previous, fix, policy).keep
<1>0. Append(kept, fix) # kept
  <2>1. Len(Append(kept, fix)) = Len(kept) + 1
    OBVIOUS
  <2> QED
    BY <2>1
<1>1. Taken(kept, fix, policy) = IF decided THEN Append(kept, fix) ELSE kept
  BY DEF Taken
<1>2. kept # << >> => Last(kept) \in Fixes /\ Last(kept) # Unset
  BY TrackMakingAssumption DEF Last
<1>3. fix.accuracyM \in Int \cup {Unset} /\ fix.place \in Int /\ fix.t \in Int
  BY DEF Fixes
<1>4. decided => Accurate(fix, policy)
  <2>1. fix.accuracyM # Unset /\ fix.accuracyM > policy.maxAccuracyM => ~decided
    BY DEF Decision
  <2> QED
    BY <1>3, <2>1 DEF Accurate, Policies
<1>5. ASSUME Accurate(fix, policy), ~decided
      PROVE  /\ kept # << >>
             /\ Gap(Last(kept).place, fix.place) <= policy.minDistanceM
             /\ fix.t - Last(kept).t < policy.maxIntervalMs
  <2>1. ~(fix.accuracyM # Unset /\ fix.accuracyM > policy.maxAccuracyM)
    BY <1>3, <1>5 DEF Accurate, Policies
  <2>2. kept # << >>
    BY <1>5, <2>1 DEF Decision
  <2>3. previous = Last(kept) /\ previous # Unset /\ previous.place \in Int /\ previous.t \in Int
    BY <1>2, <2>2 DEF Fixes
  <2>4. ~(Gap(previous.place, fix.place) > policy.minDistanceM)
        /\ ~(fix.t - previous.t >= policy.maxIntervalMs)
    <3> HIDE DEF previous
    <3> QED
      BY <1>5, <2>1, <2>3 DEF Decision
  <2>5. Gap(previous.place, fix.place) \in Int
    BY <1>3, <2>3 DEF Gap
  <2> HIDE DEF previous
  <2>6. Gap(previous.place, fix.place) <= policy.minDistanceM
        /\ fix.t - previous.t < policy.maxIntervalMs
    BY <1>3, <2>3, <2>4, <2>5 DEF Policies
  <2> QED
    BY <2>2, <2>3, <2>6
<1> HIDE DEF decided
<1> QED
  BY <1>0, <1>1, <1>4, <1>5

Grows(fixes, policy, m, n) ==
  /\ KeptOf(fixes, policy, n) \in Seq(Fixes)
  /\ \A i \in DOMAIN KeptOf(fixes, policy, n) : Accurate(KeptOf(fixes, policy, n)[i], policy)
  /\ IsPrefix(KeptOf(fixes, policy, m), KeptOf(fixes, policy, n))

LEMMA KeptGrows ==
  ASSUME NEW fixes \in Seq(Fixes), NEW policy \in Policies, NEW m \in 0..Len(fixes),
         KeptOf(fixes, policy, m) \in Seq(Fixes),
         \A i \in DOMAIN KeptOf(fixes, policy, m) : Accurate(KeptOf(fixes, policy, m)[i], policy)
  PROVE  \A n \in m..Len(fixes) : Grows(fixes, policy, m, n)
<1> DEFINE S == {n \in m..Len(fixes) : Grows(fixes, policy, m, n)}
<1>1. m \in S
  BY DEF Grows, IsPrefix
<1>2. ASSUME NEW n \in m..(Len(fixes) - 1), n \in S PROVE n + 1 \in S
  <2> DEFINE old == KeptOf(fixes, policy, n)
             new == KeptOf(fixes, policy, n + 1)
             start == KeptOf(fixes, policy, m)
  <2>0. n + 1 \in m..Len(fixes) /\ n \in 0..(Len(fixes) - 1) /\ fixes[n + 1] \in Fixes
    OBVIOUS
  <2>1. new = Taken(old, fixes[n + 1], policy)
    BY <2>0, KeptUnrolled
  <2>2. old \in Seq(Fixes) /\ (\A i \in DOMAIN old : Accurate(old[i], policy)) /\ IsPrefix(start, old)
    BY <1>2 DEF Grows
  <2>3. new \in {old, Append(old, fixes[n + 1])} /\ (new = Append(old, fixes[n + 1]) => Accurate(fixes[n + 1], policy))
    BY <2>0, <2>1, <2>2, TakenStep
  <2>6. start \in Seq(Fixes)
    OBVIOUS
  <2> HIDE DEF old, new, start
  <2>4. new \in Seq(Fixes) /\ \A i \in DOMAIN new : Accurate(new[i], policy)
    <3>1. CASE new = old
      BY <2>2, <3>1
    <3>2. CASE new = Append(old, fixes[n + 1])
      <4>1. new \in Seq(Fixes) /\ Len(new) = Len(old) + 1
        BY <2>0, <2>2, <3>2
      <4>2. \A i \in 1..Len(new) : (i \in 1..Len(old) /\ new[i] = old[i]) \/ new[i] = fixes[n + 1]
        BY <2>0, <2>2, <3>2
      <4>3. DOMAIN new = 1..Len(new) /\ DOMAIN old = 1..Len(old)
        BY <2>2, <4>1
      <4> QED
        BY <2>2, <2>3, <3>2, <4>1, <4>2, <4>3
    <3> QED
      BY <2>3, <3>1, <3>2
  <2>5. IsPrefix(start, new)
    <3>1. start \in Seq(Fixes) /\ Len(start) <= Len(old) /\ start = SubSeq(old, 1, Len(start))
      BY <2>2, <2>6 DEF IsPrefix
    <3>2. CASE new = Append(old, fixes[n + 1])
      <4>1. SubSeq(new, 1, Len(start)) = SubSeq(old, 1, Len(start)) /\ Len(start) <= Len(new)
        BY <2>0, <2>2, <3>1, <3>2
      <4> QED
        BY <3>1, <4>1 DEF IsPrefix
    <3> QED
      BY <2>2, <2>3, <3>2
  <2> QED
    BY <2>0, <2>4, <2>5 DEF Grows, old, new, start
<1> HIDE DEF S
<1>3. m \in Int /\ Len(fixes) \in Int
  OBVIOUS
<1>4. \A n \in m..Len(fixes) : n \in S
  BY <1>1, <1>2, <1>3, UpTo
<1> QED
  BY <1>4 DEF S

(* sample, handleFix: of every stream of fixes, under every policy, no     *)
(* kept point fails the accuracy filter, and no accurate fix is farther    *)
(* from the last point kept before it, in metres or in milliseconds, than  *)
(* the policy lets the track be wrong.                                     *)
THEOREM SampledTrackIsFaithful ==
  ASSUME NEW fixes \in Seq(Fixes), NEW policy \in Policies
  PROVE  TrackIsFaithful(fixes, policy)
<1> DEFINE kept == Kept(fixes, policy)
           K(n) == KeptOf(fixes, policy, n)
<1>1. \A n \in 0..Len(fixes) : Grows(fixes, policy, 0, n)
  <2>1. K(0) = << >> /\ 0 \in 0..Len(fixes)
    BY KeptUnrolled
  <2>2. K(0) \in Seq(Fixes) /\ \A i \in DOMAIN K(0) : Accurate(K(0)[i], policy)
    <3>1. << >> \in Seq(Fixes) /\ DOMAIN << >> = {}
      OBVIOUS
    <3>2. K(0) \in Seq(Fixes) /\ DOMAIN K(0) = {}
      BY <2>1, <3>1
    <3> QED
      BY <3>2
  <2> QED
    BY <2>1, <2>2, KeptGrows
<1>2. kept = K(Len(fixes)) /\ Len(fixes) \in 0..Len(fixes)
  BY KeptUnrolled
<1>3. \A i \in DOMAIN kept : Accurate(kept[i], policy)
  BY <1>1, <1>2 DEF Grows
<1>4. ASSUME NEW i \in DOMAIN fixes, Accurate(fixes[i], policy)
      PROVE  /\ K(i) # << >> /\ IsPrefix(K(i), kept)
             /\ Gap(Last(K(i)).place, fixes[i].place) <= policy.minDistanceM
             /\ Last(K(i)) = fixes[i] \/ fixes[i].t - Last(K(i)).t < policy.maxIntervalMs
  <2>0. i \in 1..Len(fixes) /\ i \in 0..Len(fixes) /\ i - 1 \in 0..(Len(fixes) - 1) /\ (i - 1) + 1 = i
        /\ Len(fixes) \in i..Len(fixes) /\ i - 1 \in 0..Len(fixes) /\ fixes[i] \in Fixes
    OBVIOUS
  <2>1. K(i) = Taken(K(i - 1), fixes[i], policy)
    <3>1. K((i - 1) + 1) = Taken(K(i - 1), fixes[(i - 1) + 1], policy)
      BY <2>0, KeptUnrolled
    <3> QED
      BY <2>0, <3>1
  <2>2. K(i) \in Seq(Fixes) /\ (\A j \in DOMAIN K(i) : Accurate(K(i)[j], policy)) /\ K(i - 1) \in Seq(Fixes)
    BY <1>1, <2>0 DEF Grows
  <2>3. IsPrefix(K(i), kept)
    <3>1. Grows(fixes, policy, i, Len(fixes))
      BY <2>0, <2>2, KeptGrows
    <3> QED
      BY <1>2, <3>1 DEF Grows
  <2> DEFINE old == K(i - 1)
             new == K(i)
  <2>4. /\ new \in {old, Append(old, fixes[i])}
        /\ new = old => /\ old # << >>
                        /\ Gap(Last(old).place, fixes[i].place) <= policy.minDistanceM
                        /\ fixes[i].t - Last(old).t < policy.maxIntervalMs
    BY <1>4, <2>0, <2>1, <2>2, TakenStep
  <2>5. old \in Seq(Fixes)
    BY <2>2
  <2> HIDE DEF old, new, K
  <2>6. new # << >> /\ Gap(Last(new).place, fixes[i].place) <= policy.minDistanceM
        /\ (Last(new) = fixes[i] \/ fixes[i].t - Last(new).t < policy.maxIntervalMs)
    <3>1. CASE new = old
      BY <2>4, <3>1
    <3>2. CASE new = Append(old, fixes[i])
      <4>1. new # << >> /\ Last(new) = fixes[i]
        BY <2>5, <3>2 DEF Last
      <4>2. Gap(fixes[i].place, fixes[i].place) = 0 /\ policy.minDistanceM \in Nat
        BY <2>0 DEF Gap, Fixes, Policies
      <4> QED
        BY <4>1, <4>2
    <3> QED
      BY <2>4, <3>1, <3>2
  <2> QED
    BY <2>3, <2>6 DEF new
<1>5. \A i \in DOMAIN fixes : SubSeq(fixes, 1, i) = SubSeq(fixes, 1, i) /\ K(i) = Kept(SubSeq(fixes, 1, i), policy)
  BY DEF KeptOf
<1> QED
  BY <1>3, <1>4, <1>5 DEF TrackIsFaithful, Accurate, KeptOf

-----------------------------------------------------------------------------
(* Sensor samples, in their order.                                         *)

(* Of two samples of a sequence, the older, or the first to arrive.        *)
Older(samples, i, j) == samples[i].t < samples[j].t \/ (samples[i].t = samples[j].t /\ i < j)

(* g has the places of a sequence of samples, the oldest first.            *)
Aged(g, n, samples, places) ==
  /\ g \in [1..n -> places]
  /\ \A i, j \in 1..n : i < j => Older(samples, g[i], g[j])
  /\ \A x \in places : \E k \in 1..n : g[k] = x

LEMMA ByTimeOf ==
  ASSUME NEW T, NEW samples \in Seq(T), \A i \in 1..Len(samples) : samples[i].t \in Int
  PROVE  \E g : /\ Aged(g, Len(samples), samples, 1..Len(samples))
                /\ ByTime(samples) = [k \in 1..Len(samples) |-> samples[g[k]]]
<1> DEFINE n == Len(samples)
           S == DOMAIN samples
           precedes == {w \in S \X S : Older(samples, w[1], w[2])}
           g == Arranged(S, precedes)
<1>1. n \in Nat /\ S = 1..n
  OBVIOUS
<1>2. IsFiniteSet(S) /\ Cardinality(S) = n
  <2>1. IsFiniteSet(1..n) /\ Cardinality(1..n) = IF 1 > n THEN 0 ELSE n - 1 + 1
    BY <1>1, FS_Interval
  <2> QED
    BY <1>1, <2>1
<1>3. \A x, y \in S : <<x, y>> \in precedes <=> Older(samples, x, y)
  OBVIOUS
<1> HIDE DEF precedes
<1>4. Orders(precedes, S)
  <2>1. \A x \in S : ~Older(samples, x, x)
    BY <1>1 DEF Older
  <2>2. \A x, y \in S : x # y => (Older(samples, x, y) \/ Older(samples, y, x))
    BY <1>1 DEF Older
  <2>3. \A x, y, z \in S : Older(samples, x, y) /\ Older(samples, y, z) => Older(samples, x, z)
    BY <1>1 DEF Older
  <2> QED
    BY <1>3, <2>1, <2>2, <2>3 DEF Orders
<1>5. Lines(g, S, precedes)
  BY <1>2, <1>4, ArrangedLines
<1>6. ByTime(samples) = [k \in 1..n |-> samples[g[k]]]
  BY <1>1 DEF ByTime, precedes, Older
<1> HIDE DEF g
<1>7. Aged(g, n, samples, 1..n)
  <2>1. \A k \in 1..n : g[k] \in S
    BY <1>2, <1>5 DEF Lines
  <2>2. \A i, j \in 1..n : i < j => <<g[i], g[j]>> \in precedes
    BY <1>2, <1>5 DEF Lines
  <2>3. \A i, j \in 1..n : i < j => Older(samples, g[i], g[j])
    BY <1>3, <2>1, <2>2
  <2> QED
    BY <1>1, <1>2, <1>5, <2>3 DEF Lines, Aged
<1> QED
  BY <1>6, <1>7

(* The samples that are in time, the oldest first.                         *)
PlacesInTime(samples, pointT, maxAgeMs) ==
  {i \in 1..Len(samples) : samples[i].t \in (pointT - maxAgeMs)..pointT}

EligibleBy(g, n, samples, pointT, maxAgeMs) ==
  /\ Aged(g, n, samples, PlacesInTime(samples, pointT, maxAgeMs))
  /\ ByTime(InTime(samples, pointT, maxAgeMs)) = [k \in 1..n |-> samples[g[k]]]

LEMMA EligibleSamples ==
  ASSUME NEW T, NEW samples \in Seq(T), \A i \in 1..Len(samples) : samples[i].t \in Int,
         NEW pointT \in Int, NEW maxAgeMs \in Int
  PROVE  \E n \in Nat : \E g : EligibleBy(g, n, samples, pointT, maxAgeMs)
<1> DEFINE inTime == InTime(samples, pointT, maxAgeMs)
           places == {i \in 1..Len(samples) : samples[i].t \in (pointT - maxAgeMs)..pointT}
           n == Cardinality(places)
<1>1. inTime = Picked(samples, places)
  <2>1. \A i \in 1..Len(samples) : samples[i].t <= pointT /\ pointT - samples[i].t <= maxAgeMs
                                     <=> samples[i].t \in (pointT - maxAgeMs)..pointT
    OBVIOUS
  <2>2. {i \in DOMAIN samples : samples[i].t <= pointT /\ pointT - samples[i].t <= maxAgeMs} = places
    BY <2>1
  <2> HIDE DEF places
  <2> QED
    BY <2>2 DEF InTime
<1>2. PICK p : \A s : PickedBy(p, s, places)
  <2>1. places \in SUBSET (1..Len(samples)) /\ Len(samples) \in Nat
    OBVIOUS
  <2> HIDE DEF places
  <2> QED
    BY <2>1, PickedOf
<1>3. \A i \in places : samples[i].t \in Int /\ samples[i] \in T /\ i \in Int
  OBVIOUS
<1> HIDE DEF inTime, places, n
<1>4. n \in Nat /\ inTime = [k \in 1..n |-> samples[p[k]]] /\ p \in [1..n -> places]
      /\ (\A i, j \in 1..n : i < j => p[i] < p[j]) /\ \A x \in places : \E k \in 1..n : p[k] = x
  BY <1>1, <1>2 DEF PickedBy, Rising, n
<1>5. inTime \in Seq(T) /\ Len(inTime) = n /\ \A k \in 1..n : inTime[k] = samples[p[k]] /\ inTime[k].t \in Int
  <2>1. \A k \in 1..n : p[k] \in places
    BY <1>4
  <2>2. \A k \in 1..n : samples[p[k]] \in T /\ samples[p[k]].t \in Int
    BY <1>3, <2>1
  <2> QED
    BY <1>4, <2>2
<1>6. PICK o : /\ Aged(o, n, inTime, 1..n)
               /\ ByTime(inTime) = [k \in 1..n |-> inTime[o[k]]]
  BY <1>5, ByTimeOf
<1> DEFINE g == [k \in 1..n |-> p[o[k]]]
<1>7. \A k \in 1..n : o[k] \in 1..n /\ g[k] = p[o[k]] /\ g[k] \in places /\ inTime[o[k]] = samples[g[k]]
  <2>1. \A k \in 1..n : o[k] \in 1..n
    BY <1>6 DEF Aged
  <2> QED
    BY <1>4, <1>5, <2>1
<1>8. ByTime(inTime) = [k \in 1..n |-> samples[g[k]]]
  <2> HIDE DEF g
  <2> QED
    BY <1>6, <1>7
<1>9. Aged(g, n, samples, places)
  <2>1. g \in [1..n -> places]
    BY <1>7
  <2>2. ASSUME NEW i \in 1..n, NEW j \in 1..n, i < j
        PROVE  Older(samples, g[i], g[j])
    <3>1. Older(inTime, o[i], o[j])
      BY <1>6, <2>2 DEF Aged
    <3>2. o[i] \in 1..n /\ o[j] \in 1..n /\ (o[i] < o[j] => p[o[i]] < p[o[j]])
      BY <1>4, <1>7
    <3>3. g[i] = p[o[i]] /\ g[j] = p[o[j]] /\ inTime[o[i]] = samples[g[i]] /\ inTime[o[j]] = samples[g[j]]
      BY <1>7
    <3> HIDE DEF g
    <3> QED
      BY <3>1, <3>2, <3>3 DEF Older
  <2>3. ASSUME NEW x \in places PROVE \E k \in 1..n : g[k] = x
    <3>1. PICK m \in 1..n : p[m] = x
      BY <1>4
    <3>2. PICK k \in 1..n : o[k] = m
      BY <1>6 DEF Aged
    <3> QED
      BY <1>7, <3>1, <3>2
  <2> HIDE DEF g
  <2> QED
    BY <2>1, <2>2, <2>3 DEF Aged
<1>10. EligibleBy(g, n, samples, pointT, maxAgeMs)
  <2> HIDE DEF g
  <2> QED
    BY <1>8, <1>9 DEF EligibleBy, PlacesInTime, inTime, places
<1> QED
  BY <1>4, <1>10

(* What is collected of a channel, and which of it is the last.            *)
CollectedFrom(samples, key, said) ==
  /\ Collected(samples, key) = << >> <=> said = {}
  /\ said # {} => \E k \in said : /\ Last(Collected(samples, key)) = samples[k].values[key]
                                  /\ \A j \in said : j <= k

LEMMA CollectedOf ==
  ASSUME NEW samples, NEW n \in Nat, DOMAIN samples = 1..n, NEW key
  PROVE  CollectedFrom(samples, key, {k \in 1..n : Says(samples[k], key)})
<1> DEFINE said == {k \in 1..n : Says(samples[k], key)}
           some == Picked(samples, said)
           m == Cardinality(said)
           collected == Collected(samples, key)
<1>1. PICK q : PickedBy(q, samples, said)
  <2>1. said \in SUBSET (1..n)
    OBVIOUS
  <2> HIDE DEF said
  <2> QED
    BY <2>1, PickedOf
<1>2. collected = [i \in DOMAIN some |-> some[i].values[key]]
  BY DEF Collected
<1>3. \A i \in said : i \in Int
  OBVIOUS
<1> HIDE DEF said
<1>4. /\ m \in Nat /\ q \in [1..m -> said] /\ some = [k \in 1..m |-> samples[q[k]]]
      /\ \A i, j \in 1..m : i < j => q[i] < q[j]
      /\ \A x \in said : \E k \in 1..m : q[k] = x
  BY <1>1 DEF PickedBy, Rising
<1> HIDE DEF some, collected, m
<1>5. collected = [k \in 1..m |-> samples[q[k]].values[key]]
  BY <1>2, <1>4
<1>6. collected = << >> <=> m = 0
  <2>1. DOMAIN collected = 1..m
    BY <1>5
  <2>2. m = 0 => collected = << >>
    BY <1>5
  <2>3. collected = << >> => 1..m = {}
    BY <2>1
  <2>4. 1..m = {} => m = 0
    BY <1>4
  <2> QED
    BY <2>2, <2>3, <2>4
<1>7. m = 0 <=> said = {}
  <2>1. m = 0 => said = {}
    BY <1>4
  <2>2. m # 0 => q[m] \in said
    BY <1>4
  <2> QED
    BY <2>1, <2>2
<1>8. ASSUME m # 0
      PROVE  /\ q[m] \in said /\ Last(collected) = samples[q[m]].values[key]
             /\ \A j \in said : j <= q[m]
  <2>1. m \in 1..m
    BY <1>4, <1>8
  <2>2. Len(collected) = m
    <3> DEFINE what == {samples[q[k]].values[key] : k \in 1..m}
    <3>1. \A k \in 1..m : samples[q[k]].values[key] \in what
      OBVIOUS
    <3> HIDE DEF what
    <3>2. collected \in [1..m -> what]
      BY <1>5, <3>1
    <3>3. collected \in Seq(what)
      BY <1>4, <3>2, SeqDef
    <3> QED
      BY <1>4, <3>2, <3>3
  <2>3. Last(collected) = collected[m]
    BY <2>2 DEF Last
  <2>4. collected[m] = samples[q[m]].values[key]
    BY <1>5, <2>1
  <2>5. ASSUME NEW j \in said PROVE j <= q[m]
    <3>1. PICK k \in 1..m : q[k] = j
      BY <1>4
    <3>2. q[m] \in said
      BY <1>4, <2>1
    <3>3. k < m => q[k] < q[m]
      BY <1>4, <2>1
    <3> QED
      BY <1>3, <2>1, <3>1, <3>2, <3>3
  <2> QED
    BY <1>4, <2>1, <2>3, <2>4, <2>5
<1> QED
  BY <1>6, <1>7, <1>8 DEF CollectedFrom, collected, said

(* Where a channel was read in time.                                       *)
SaidInTime(samples, pointT, maxAgeMs, key) ==
  {i \in PlacesInTime(samples, pointT, maxAgeMs) : Says(samples[i], key)}

NewestSaid(samples, said) == {i \in said : \A j \in said : samples[j].t <= samples[i].t}

(* What the samples in time say of a channel, and which of it is the last. *)
LastSaid(eligible, samples, key, said) ==
  /\ Collected(eligible, key) = << >> <=> said = {}
  /\ said # {} => Last(Collected(eligible, key)) = samples[Max(NewestSaid(samples, said))].values[key]

LEMMA LastSaidIsNewest ==
  ASSUME NEW T, NEW samples \in Seq(T), \A i \in 1..Len(samples) : samples[i].t \in Int,
         NEW pointT \in Int, NEW maxAgeMs \in Int, NEW key
  PROVE  LastSaid(ByTime(InTime(samples, pointT, maxAgeMs)), samples, key,
                  SaidInTime(samples, pointT, maxAgeMs, key))
<1> DEFINE eligible == ByTime(InTime(samples, pointT, maxAgeMs))
           places == PlacesInTime(samples, pointT, maxAgeMs)
           said == SaidInTime(samples, pointT, maxAgeMs, key)
           newest == NewestSaid(samples, said)
           collected == Collected(eligible, key)
<1>1. PICK n \in Nat : \E g : EligibleBy(g, n, samples, pointT, maxAgeMs)
  BY EligibleSamples
<1>2. PICK g : EligibleBy(g, n, samples, pointT, maxAgeMs)
  BY <1>1
<1>3. /\ eligible = [k \in 1..n |-> samples[g[k]]]
      /\ g \in [1..n -> places]
      /\ \A i, j \in 1..n : i < j => Older(samples, g[i], g[j])
      /\ \A x \in places : \E k \in 1..n : g[k] = x
  BY <1>2 DEF EligibleBy, Aged
<1>4. \A i \in places : i \in Int /\ samples[i].t \in Int
  BY DEF PlacesInTime
<1> DEFINE there == {k \in 1..n : Says(eligible[k], key)}
<1>5. CollectedFrom(eligible, key, there)
  <2>1. DOMAIN eligible = 1..n
    BY <1>3
  <2> HIDE DEF eligible
  <2> QED
    BY <1>1, <2>1, CollectedOf
<1>6. \A k \in 1..n : eligible[k] = samples[g[k]]
  BY <1>3
<1> HIDE DEF eligible, collected
<1>7. said = {i \in places : Says(samples[i], key)}
  BY DEF SaidInTime
<1> HIDE DEF places, said
<1>8. \A k \in there : g[k] \in said
  BY <1>3, <1>6, <1>7
<1>9. \A i \in said : \E k \in there : g[k] = i
  BY <1>3, <1>6, <1>7
<1>10. \A k \in there : k \in 1..n
  OBVIOUS
<1> HIDE DEF there
<1>11. there = {} <=> said = {}
  BY <1>8, <1>9
<1>12. ASSUME said # {}
       PROVE  Last(collected) = samples[Max(newest)].values[key]
  <2>1. PICK k \in there : /\ Last(collected) = eligible[k].values[key]
                           /\ \A j \in there : j <= k
    BY <1>5, <1>11, <1>12 DEF CollectedFrom, collected
  <2>2. g[k] \in said /\ k \in 1..n /\ eligible[k] = samples[g[k]]
    BY <1>6, <1>8, <1>10
  <2>3. \A i \in said : i = g[k] \/ Older(samples, i, g[k])
    <3> TAKE i \in said
    <3>1. PICK j \in there : g[j] = i
      BY <1>9
    <3>2. j \in 1..n /\ j <= k
      BY <1>10, <2>1
    <3>3. CASE j = k
      BY <3>1, <3>3
    <3>4. CASE j # k
      <4>1. j < k
        BY <2>2, <3>2, <3>4
      <4> QED
        BY <1>3, <2>2, <3>1, <3>2, <4>1
    <3> QED
      BY <3>3, <3>4
  <2>4. \A i \in said : i \in Int /\ samples[i].t \in Int
    BY <1>4, <1>7
  <2>5. g[k] \in newest /\ \A i \in newest : g[k] >= i
    <3>1. \A i \in said : samples[i].t <= samples[g[k]].t
      BY <2>2, <2>3, <2>4 DEF Older
    <3>2. g[k] \in newest
      BY <2>2, <3>1 DEF NewestSaid
    <3>3. \A i \in newest : i \in said /\ samples[g[k]].t <= samples[i].t
      BY <2>2 DEF NewestSaid
    <3>4. \A i \in newest : g[k] >= i
      BY <2>2, <2>3, <2>4, <3>3 DEF Older
    <3> QED
      BY <3>2, <3>4
  <2>6. \A i \in newest : i \in Int
    BY <2>4 DEF NewestSaid
  <2> HIDE DEF newest
  <2>7. \A x \in newest : (\A i \in newest : x >= i) => x = g[k]
    BY <2>5, <2>6
  <2>8. Max(newest) = g[k]
    BY <2>5, <2>7 DEF Max
  <2> QED
    BY <2>1, <2>2, <2>8
<1> QED
  BY <1>5, <1>11, <1>12 DEF LastSaid, CollectedFrom, collected, eligible, said, newest

(* mergeSensorSamples: whatever the sensors said and when, a point has the *)
(* channels somebody read in time for it and no other, and its "last" is   *)
(* of the most recent moment and the last of it to arrive.                 *)
THEOREM SamplesMergedAtTheirTime ==
  ASSUME NEW T, NEW samples \in Seq(T), \A i \in 1..Len(samples) : samples[i].t \in Int,
         NEW pointT \in Int, NEW policy, policy.maxAgeMs \in Int
  PROVE  MergedAtItsTime(samples, pointT, policy)
<1> DEFINE eligible == ByTime(InTime(samples, pointT, policy.maxAgeMs))
           named == UNION {DOMAIN samples[i].values : i \in DOMAIN samples}
           keys == {key \in named : Collected(eligible, key) # << >>}
           merged == MergeSensorSamples(samples, pointT, policy)
           said(key) == {i \in DOMAIN samples :
                           /\ key \in DOMAIN samples[i].values /\ samples[i].values[key] # NotFinite
                           /\ samples[i].t \in (pointT - policy.maxAgeMs)..pointT}
           newest(key) == {i \in said(key) : \A j \in said(key) : samples[j].t <= samples[i].t}
<1>1. \A key : said(key) = SaidInTime(samples, pointT, policy.maxAgeMs, key)
  BY DEF SaidInTime, PlacesInTime, Says
<1>2. \A key : newest(key) = NewestSaid(samples, said(key))
  BY DEF NewestSaid
<1>3. \A key : LastSaid(eligible, samples, key, said(key))
  <2> HIDE DEF eligible, said
  <2> QED
    BY <1>1, LastSaidIsNewest DEF eligible
<1>4. merged = [key \in keys |-> Reduced(Collected(eligible, key), policy.reduce)]
  BY DEF MergeSensorSamples
<1>5. \A i \in DOMAIN samples : \A key \in DOMAIN samples[i].values : key \in named
  OBVIOUS
<1> HIDE DEF said, newest, eligible, merged, named
<1>6. DOMAIN merged = keys
  BY <1>4
<1>7. \A key \in DOMAIN merged : said(key) # {}
  BY <1>3, <1>6 DEF LastSaid
<1>8. \A i \in DOMAIN samples : \A key \in DOMAIN samples[i].values :
        i \in said(key) => key \in DOMAIN merged
  BY <1>3, <1>5, <1>6 DEF LastSaid
<1>9. ASSUME policy.reduce = "last", NEW key \in DOMAIN merged
      PROVE  merged[key] = samples[Max(newest(key))].values[key]
  <2>1. merged[key] = Reduced(Collected(eligible, key), policy.reduce)
    BY <1>4, <1>6
  <2>2. Reduced(Collected(eligible, key), "last") = Last(Collected(eligible, key))
    BY DEF Reduced
  <2> QED
    BY <1>2, <1>3, <1>7, <1>9, <2>1, <2>2 DEF LastSaid
<1> QED
  BY <1>7, <1>8, <1>9 DEF MergedAtItsTime, said, newest, merged

-----------------------------------------------------------------------------
(* Channels.                                                               *)

Channel(K, U, A) == [key : K, unit : U, aggregate : A]

Sense(d) == <<d.key, d.unit, IF d.aggregate = Unset THEN "avg" ELSE d.aggregate>>

(* Two descriptors of one channel that do not mean the same.               *)
Clash(a, b) == a.key = b.key /\ Sense(a) # Sense(b)

Clashes(S) == \E a, b \in S : Clash(a, b)

DistinctKeys(s) == \A m, n \in DOMAIN s : m # n => s[m].key # s[n].key

LEMMA MismatchIsClash ==
  ASSUME NEW K, NEW U, NEW A, NEW a \in Channel(K, U, A), NEW b \in Channel(K, U, A)
  PROVE  ChannelMismatch(a, b) <=> Clash(a, b)
<1> DEFINE meant(d) == IF d.aggregate = Unset THEN "avg" ELSE d.aggregate
<1>1. ASSUME NEW d \in Channel(K, U, A)
      PROVE  DescribeChannel(d) = [key |-> d.key, unit |-> d.unit, aggregate |-> meant(d)]
  <2> DEFINE m == meant(d)
  <2>1. DescribeChannel(d) = [d EXCEPT !.aggregate = m]
    BY DEF DescribeChannel
  <2> HIDE DEF m
  <2>2. [d EXCEPT !.aggregate = m] = [key |-> d.key, unit |-> d.unit, aggregate |-> m]
    BY DEF Channel
  <2> QED
    BY <2>1, <2>2 DEF m
<1>2. \A d : Sense(d) = <<d.key, d.unit, meant(d)>>
  BY DEF Sense
<1> HIDE DEF meant
<1> QED
  BY <1>1, <1>2 DEF ChannelMismatch, Clash

LEMMA RisingStarts ==
  ASSUME NEW n \in Nat, NEW places \in SUBSET (1..n), NEW p, Rising(p, places), Cardinality(places) \in Nat,
         NEW r \in Nat, \A k \in 1..r : k \in places
  PROVE  \A k \in 1..r : k \in 1..Cardinality(places) /\ p[k] = k
<1> DEFINE size == Cardinality(places)
           S == {k \in 0..r : \A j \in 1..k : j \in 1..size /\ p[j] = j}
<1>1. 0 \in S
  OBVIOUS
<1>2. ASSUME NEW k \in 0..(r - 1), k \in S PROVE k + 1 \in S
  <2>0. k + 1 \in places /\ k + 1 \in 0..r /\ \A j \in 1..k : j \in 1..size /\ p[j] = j
    BY <1>2
  <2>1. PICK m \in 1..size : p[m] = k + 1
    BY <2>0 DEF Rising
  <2>2. m >= k + 1
    BY <2>0, <2>1
  <2>3. k + 1 \in 1..size
    BY <2>1, <2>2
  <2>4. p[k + 1] \in places /\ p[k + 1] \in Int
    <3>1. \A x \in places : x \in Int
      OBVIOUS
    <3>2. p[k + 1] \in places
      BY <2>3 DEF Rising
    <3> QED
      BY <3>1, <3>2
  <2>5. k >= 1 => p[k] < p[k + 1]
    BY <2>0, <2>3 DEF Rising
  <2>6. m > k + 1 => p[k + 1] < p[m]
    BY <2>1, <2>3 DEF Rising
  <2>7. k >= 1 => p[k] = k
    BY <2>0
  <2>8. p[k + 1] >= k + 1
    BY <2>4, <2>5, <2>7
  <2>9. m = k + 1
    BY <2>1, <2>2, <2>4, <2>6, <2>8
  <2> QED
    BY <2>0, <2>1, <2>3, <2>9
<1>3. 0 \in Int /\ r \in Int
  OBVIOUS
<1> HIDE DEF S
<1>4. \A k \in 0..r : k \in S
  BY <1>1, <1>2, <1>3, UpTo
<1>5. r \in S
  BY <1>4
<1> QED
  BY <1>5 DEF S

(* The channels there are, without duplicates.                             *)
Single(w, all) ==
  /\ DistinctKeys(w)
  /\ \A i \in DOMAIN w : \E n \in DOMAIN all : w[i] = all[n]
  /\ \A n \in DOMAIN all : \E i \in DOMAIN w : w[i].key = all[n].key

FirstOfKeys(all) == {n \in DOMAIN all : \A m \in 1..(n - 1) : all[m].key # all[n].key}

LEMMA FirstOfKey ==
  ASSUME NEW T, NEW all \in Seq(T), NEW n \in DOMAIN all
  PROVE  \E m \in FirstOfKeys(all) : m <= n /\ all[m].key = all[n].key
<1> DEFINE same == {m \in DOMAIN all : all[m].key = all[n].key}
<1>1. DOMAIN all = 1..Len(all) /\ same \in SUBSET Nat /\ same # {}
  OBVIOUS
<1>2. PICK m \in same : \A x \in same : m <= x
  BY <1>1, LeastNatural
<1>3. m \in DOMAIN all /\ m \in Int /\ n \in Int /\ n \in same
  BY <1>1
<1>4. \A x \in 1..(m - 1) : x \in DOMAIN all /\ ~(m <= x)
  BY <1>1, <1>3
<1>5. \A x \in 1..(m - 1) : all[x].key # all[m].key
  BY <1>2, <1>4
<1> QED
  BY <1>2, <1>3, <1>5 DEF FirstOfKeys

LEMMA WithoutDuplicatesOf ==
  ASSUME NEW K, NEW U, NEW A, NEW all \in Seq(Channel(K, U, A)), Unset \notin Seq(Channel(K, U, A))
  PROVE  /\ WithoutDuplicates(all) = Unset <=> Clashes(ToSet(all))
         /\ ~Clashes(ToSet(all)) =>
              /\ WithoutDuplicates(all) = Picked(all, FirstOfKeys(all))
              /\ WithoutDuplicates(all) \in Seq(Channel(K, U, A))
              /\ Single(WithoutDuplicates(all), all)
<1> DEFINE T == Channel(K, U, A)
           places == FirstOfKeys(all)
           size == Cardinality(places)
           w == Picked(all, places)
           bad == \E m \in places, n \in DOMAIN all : m < n /\ ChannelMismatch(all[m], all[n])
<1>1. WithoutDuplicates(all) = IF bad THEN Unset ELSE w
  BY DEF WithoutDuplicates, FirstOfKeys
<1>2. DOMAIN all = 1..Len(all) /\ Len(all) \in Nat /\ places \in SUBSET (1..Len(all)) /\ \A i \in 1..Len(all) : all[i] \in T
  BY DEF FirstOfKeys
<1>3. \A m, n \in DOMAIN all : ChannelMismatch(all[m], all[n]) <=> Clash(all[m], all[n])
  BY <1>2, MismatchIsClash
<1>4. PICK p : PickedBy(p, all, places)
  BY <1>2, PickedOf
<1>5. bad <=> Clashes(ToSet(all))
  <2>1. bad => Clashes(ToSet(all))
    BY <1>2, <1>3 DEF Clashes, ToSet
  <2>2. ASSUME Clashes(ToSet(all)) PROVE bad
    <3>1. PICK i \in DOMAIN all, j \in DOMAIN all : Clash(all[i], all[j])
      BY <2>2 DEF Clashes, ToSet
    <3>2. PICK m \in places : m <= i /\ all[m].key = all[i].key
      BY <1>2, FirstOfKey
    <3>3. m <= j
      <4>1. m \in Int /\ j \in Int /\ j \in 1..Len(all)
        BY <1>2
      <4>2. ~(j \in 1..(m - 1))
        BY <3>1, <3>2 DEF FirstOfKeys, Clash
      <4> QED
        BY <4>1, <4>2
    <3>4. PICK n \in {i, j} : Sense(all[m]) # Sense(all[n])
      BY <3>1 DEF Clash
    <3>5. n \in DOMAIN all /\ m <= n /\ m # n /\ all[m].key = all[n].key /\ m \in DOMAIN all
      BY <1>2, <3>1, <3>2, <3>3, <3>4 DEF Clash
    <3>6. m < n /\ Clash(all[m], all[n])
      BY <1>2, <3>4, <3>5 DEF Clash
    <3> QED
      BY <1>3, <3>5, <3>6
  <2> QED
    BY <2>1, <2>2
<1>6. /\ size \in Nat /\ p \in [1..size -> places] /\ w = [k \in 1..size |-> all[p[k]]]
      /\ \A i, j \in 1..size : i < j => p[i] < p[j]
      /\ \A x \in places : \E k \in 1..size : p[k] = x
  BY <1>4 DEF PickedBy, Rising
<1> HIDE DEF w, bad, size
<1>7. DOMAIN w = 1..size /\ \A k \in 1..size : p[k] \in places /\ p[k] \in DOMAIN all /\ w[k] = all[p[k]]
  BY <1>2, <1>6
<1>8. w \in Seq(T)
  <2>1. w \in [1..size -> T]
    BY <1>2, <1>6, <1>7
  <2> QED
    BY <1>6, <2>1, SeqDef
<1>9. Single(w, all)
  <2>1. ASSUME NEW i \in 1..size, NEW j \in 1..size, i < j
        PROVE  w[i].key # w[j].key
    <3>1. p[i] < p[j] /\ p[j] \in places /\ p[i] \in 1..Len(all) /\ p[j] \in 1..Len(all)
      BY <1>2, <1>6, <1>7, <2>1
    <3>2. p[i] \in 1..(p[j] - 1)
      BY <3>1
    <3>3. all[p[i]].key # all[p[j]].key
      BY <3>1, <3>2 DEF FirstOfKeys
    <3> QED
      BY <1>7, <3>3
  <2>2. DistinctKeys(w)
    <3>1. \A i, j \in 1..size : i # j => i < j \/ j < i
      BY <1>6
    <3> QED
      BY <1>7, <2>1, <3>1 DEF DistinctKeys
  <2>3. ASSUME NEW n \in DOMAIN all PROVE \E i \in DOMAIN w : w[i].key = all[n].key
    <3>1. PICK m \in places : all[m].key = all[n].key
      BY FirstOfKey
    <3>2. PICK k \in 1..size : p[k] = m
      BY <1>6
    <3> QED
      BY <1>7, <3>1, <3>2
  <2> QED
    BY <1>7, <2>2, <2>3 DEF Single
<1> QED
  BY <1>1, <1>5, <1>8, <1>9 DEF w

(* What is there already, each of its own key, stays where it is.          *)
LEMMA WithoutDuplicatesKeeps ==
  ASSUME NEW K, NEW U, NEW A, NEW r \in Seq(Channel(K, U, A)), NEW s \in Seq(Channel(K, U, A)),
         Unset \notin Seq(Channel(K, U, A)), DistinctKeys(r), ~Clashes(ToSet(r \o s))
  PROVE  /\ SubSeq(WithoutDuplicates(r \o s), 1, Len(r)) = r
         /\ (\A i \in DOMAIN s : \E n \in DOMAIN r : r[n].key = s[i].key) => WithoutDuplicates(r \o s) = r
<1> DEFINE T == Channel(K, U, A)
           all == r \o s
           places == FirstOfKeys(all)
           size == Cardinality(places)
           w == WithoutDuplicates(all)
<1>1. /\ all \in Seq(T) /\ Len(all) = Len(r) + Len(s) /\ DOMAIN all = 1..Len(all) /\ Len(r) \in Nat /\ Len(s) \in Nat
      /\ DOMAIN r = 1..Len(r) /\ DOMAIN s = 1..Len(s)
      /\ \A i \in 1..Len(r) : all[i] = r[i]
      /\ \A i \in 1..Len(all) : i > Len(r) => i - Len(r) \in 1..Len(s) /\ all[i] = s[i - Len(r)]
  OBVIOUS
<1>2. w = Picked(all, places) /\ w \in Seq(T)
  BY <1>1, WithoutDuplicatesOf
<1> HIDE DEF all, w
<1>3. places \in SUBSET (1..Len(all)) /\ Len(all) \in Nat
  BY <1>1 DEF FirstOfKeys
<1>4. PICK p : PickedBy(p, all, places)
  BY <1>3, PickedOf
<1>5. Rising(p, places) /\ size \in Nat /\ w = [k \in 1..size |-> all[p[k]]]
  BY <1>2, <1>4 DEF PickedBy
<1>6. \A k \in 1..Len(r) : k \in places
  <2> TAKE k \in 1..Len(r)
  <2>1. k \in DOMAIN all /\ all[k] = r[k] /\ \A m \in 1..(k - 1) : m \in 1..Len(r) /\ all[m] = r[m] /\ m # k
    BY <1>1
  <2>2. \A m \in 1..(k - 1) : all[m].key # all[k].key
    BY <1>1, <2>1 DEF DistinctKeys
  <2> QED
    BY <2>1, <2>2 DEF FirstOfKeys
<1> HIDE DEF places
<1>7. \A k \in 1..Len(r) : k \in 1..size /\ p[k] = k
  <2>1. Len(r) \in Nat /\ Cardinality(places) \in Nat /\ Rising(p, places)
    BY <1>1, <1>5
  <2> HIDE DEF size
  <2>2. \A k \in 1..Len(r) : k \in 1..Cardinality(places) /\ p[k] = k
    BY <1>3, <1>6, <2>1, RisingStarts, ZenonT(30)
  <2> QED
    BY <2>2 DEF size
<1> HIDE DEF size
<1>8. Len(w) = size /\ DOMAIN w = 1..size /\ \A k \in 1..Len(r) : w[k] = r[k]
  BY <1>1, <1>2, <1>5, <1>7
<1>9. Len(r) \in Nat /\ size \in Nat /\ Len(r) <= size
  <2>1. Len(r) \in Nat /\ size \in Nat
    BY <1>1, <1>5
  <2>2. Len(r) >= 1 => Len(r) \in 1..size
    BY <1>7, <2>1
  <2> QED
    BY <2>1, <2>2
<1>10. SubSeq(w, 1, Len(r)) = r
  <2>1. SubSeq(w, 1, Len(r)) \in Seq(T) /\ Len(SubSeq(w, 1, Len(r))) = Len(r)
        /\ \A k \in 1..Len(r) : SubSeq(w, 1, Len(r))[k] = w[k]
    BY <1>1, <1>2, <1>8, <1>9
  <2> QED
    BY <1>8, <2>1, SeqEqual
<1>11. ASSUME \A i \in DOMAIN s : \E n \in DOMAIN r : r[n].key = s[i].key
       PROVE  w = r
  <2>1. \A k \in places : k \in 1..Len(r)
    <3> TAKE k \in places
    <3>1. k \in 1..Len(all) /\ \A m \in 1..(k - 1) : all[m].key # all[k].key
      BY <1>1 DEF places, FirstOfKeys
    <3>2. CASE k > Len(r)
      <4>1. PICK n \in 1..Len(r) : r[n].key = s[k - Len(r)].key
        BY <1>1, <1>11, <3>1, <3>2
      <4>2. all[n].key = all[k].key /\ n \in 1..(k - 1)
        BY <1>1, <3>1, <3>2, <4>1
      <4> QED
        BY <3>1, <4>2
    <3> QED
      BY <1>1, <3>1, <3>2
  <2>2. size = Len(r)
    <3>1. size > Len(r) => size \in 1..size /\ p[size] \in places /\ p[size] \in 1..Len(r)
      BY <1>5, <2>1 DEF Rising, size
    <3>2. size > Len(r) => \A k \in 1..Len(r) : p[k] < p[size]
      BY <1>1, <1>5, <1>7 DEF Rising, size
    <3>3. size > Len(r) => FALSE
      <4>1. size > Len(r) => p[p[size]] = p[size] /\ p[p[size]] < p[size]
        BY <1>7, <3>1, <3>2
      <4> QED
        BY <1>9, <3>1, <4>1
    <3> QED
      BY <1>9, <3>1, <3>3
  <2> QED
    BY <1>2, <1>8, <2>2, SeqEqual
<1> QED
  BY <1>10, <1>11 DEF w, all

LEMMA FlattenedIs ==
  ASSUME NEW T, NEW seqs \in Seq(Seq(T))
  PROVE  /\ FlattenSeq(seqs) \in Seq(T)
         /\ ToSet(FlattenSeq(seqs)) = UNION {ToSet(seqs[n]) : n \in DOMAIN seqs}
<1>1. Len(seqs) \in Nat /\ FlattenSeq(seqs) \in Seq(T)
  BY JoinedUnrolled
<1> DEFINE flat == FlattenSeq(seqs)
<1>2. {flat[i] : i \in DOMAIN flat} = UNION {{seqs[n][i] : i \in DOMAIN seqs[n]} : n \in DOMAIN seqs}
  BY JoinedHolds
<1> HIDE DEF flat
<1>3. ToSet(flat) = UNION {ToSet(seqs[n]) : n \in DOMAIN seqs}
  BY <1>2 DEF ToSet
<1> QED
  BY <1>1, <1>3 DEF flat

LEMMA ReversedHolds ==
  ASSUME NEW T, NEW seqs \in Seq(Seq(T))
  PROVE  Reverse(seqs) \in Seq(Seq(T)) /\ ToSet(FlattenSeq(Reverse(seqs))) = ToSet(FlattenSeq(seqs))
<1> DEFINE back == Reverse(seqs)
           n == Len(seqs)
<1>1. n \in Nat /\ DOMAIN seqs = 1..n /\ \A i \in 1..n : seqs[i] \in Seq(T) /\ (n - i) + 1 \in 1..n /\ (n - ((n - i) + 1)) + 1 = i
  OBVIOUS
<1>2. back = [i \in 1..n |-> seqs[(n - i) + 1]]
  BY DEF Reverse
<1> HIDE DEF back, n
<1>3. back \in Seq(Seq(T)) /\ DOMAIN back = 1..n
  <2>1. \A i \in 1..n : seqs[(n - i) + 1] \in Seq(T)
    BY <1>1
  <2>2. back \in [1..n -> Seq(T)]
    BY <1>2, <2>1
  <2> QED
    BY <1>1, <2>2, SeqDef
<1>4. UNION {ToSet(back[i]) : i \in DOMAIN back} = UNION {ToSet(seqs[i]) : i \in DOMAIN seqs}
  <2>1. \A i \in 1..n : back[i] = seqs[(n - i) + 1] /\ (n - i) + 1 \in 1..n
    BY <1>1, <1>2
  <2>2. \A i \in 1..n : seqs[i] = back[(n - i) + 1] /\ (n - i) + 1 \in 1..n
    BY <1>1, <2>1
  <2> QED
    BY <1>1, <1>3, <2>1, <2>2
<1> QED
  BY <1>3, <1>4, FlattenedIs DEF back

LEMMA JoinedSet ==
  ASSUME NEW T, NEW r \in Seq(T), NEW s \in Seq(T)
  PROVE  r \o s \in Seq(T) /\ ToSet(r \o s) = ToSet(r) \cup ToSet(s)
<1> DEFINE all == r \o s
<1>1. all \in Seq(T) /\ Len(r) \in Nat /\ Len(s) \in Nat /\ DOMAIN all = 1..(Len(r) + Len(s))
      /\ DOMAIN r = 1..Len(r) /\ DOMAIN s = 1..Len(s)
      /\ \A i \in 1..(Len(r) + Len(s)) : all[i] = IF i <= Len(r) THEN r[i] ELSE s[i - Len(r)]
  OBVIOUS
<1> HIDE DEF all
<1>2. ASSUME NEW i \in DOMAIN all PROVE all[i] \in ToSet(r) \cup ToSet(s)
  <2>1. CASE i <= Len(r)
    <3>1. i \in DOMAIN r /\ all[i] = r[i]
      BY <1>1, <2>1
    <3> QED
      BY <3>1 DEF ToSet
  <2>2. CASE ~(i <= Len(r))
    <3>1. i - Len(r) \in DOMAIN s /\ all[i] = s[i - Len(r)]
      BY <1>1, <2>2
    <3> QED
      BY <3>1 DEF ToSet
  <2> QED
    BY <2>1, <2>2
<1>3. ASSUME NEW i \in DOMAIN r PROVE r[i] \in ToSet(all)
  <2>1. i \in DOMAIN all /\ all[i] = r[i]
    BY <1>1
  <2> QED
    BY <2>1 DEF ToSet
<1>4. ASSUME NEW i \in DOMAIN s PROVE s[i] \in ToSet(all)
  <2>1. i + Len(r) \in DOMAIN all /\ all[i + Len(r)] = s[i]
    BY <1>1
  <2> QED
    BY <2>1 DEF ToSet
<1>5. \A x : x \in ToSet(all) <=> x \in ToSet(r) \cup ToSet(s)
  BY <1>2, <1>3, <1>4 DEF ToSet
<1> QED
  BY <1>1, <1>5 DEF all

(* createWebTrackRecorder: the channels of a trip resumed with sensors.    *)
Resumed(trip, others) ==
  IF CollectSensorChannels(others) = Unset THEN Unset
  ELSE MergeChannelDescriptors(trip, CollectSensorChannels(others))

(* What the sensors declare, when they agree.                              *)
LEMMA DeclaredChannels ==
  ASSUME NEW K, NEW U, NEW A, NEW sensors \in Seq(Seq(Channel(K, U, A))),
         Unset \notin Seq(Channel(K, U, A))
  PROVE  LET said == ToSet(FlattenSeq(sensors))
             declared == CollectSensorChannels(sensors)
         IN /\ \A d \in said : d \in Channel(K, U, A)
            /\ declared = Unset <=> Clashes(said)
            /\ ~Clashes(said) => /\ declared \in Seq(Channel(K, U, A))
                                 /\ ToSet(declared) \subseteq said
                                 /\ \A d \in said : \E c \in ToSet(declared) : c.key = d.key
<1> DEFINE flat == FlattenSeq(sensors)
           said == ToSet(flat)
           declared == CollectSensorChannels(sensors)
<1>1. flat \in Seq(Channel(K, U, A))
  BY FlattenedIs
<1>2. declared = WithoutDuplicates(flat)
  BY DEF CollectSensorChannels
<1> HIDE DEF flat, declared
<1>3. \A d \in said : d \in Channel(K, U, A)
  BY <1>1 DEF ToSet
<1>4. declared = Unset <=> Clashes(said)
  BY <1>1, <1>2, WithoutDuplicatesOf
<1>5. ASSUME ~Clashes(said)
      PROVE  declared \in Seq(Channel(K, U, A)) /\ Single(declared, flat)
  BY <1>1, <1>2, <1>5, WithoutDuplicatesOf
<1>6. Single(declared, flat) => /\ ToSet(declared) \subseteq said
                                /\ \A d \in said : \E c \in ToSet(declared) : c.key = d.key
  BY DEF Single, ToSet
<1> QED
  BY <1>3, <1>4, <1>5, <1>6 DEF flat, declared

(* Resuming a trip with sensors that are not at odds with it.              *)
KeepsTrip(trip, said, channels, T) ==
  /\ channels \in Seq(T)
  /\ SubSeq(channels, 1, Len(trip)) = trip
  /\ DistinctKeys(channels)
  /\ ToSet(channels) \subseteq ToSet(trip) \cup said
  /\ \A d \in said : \E c \in ToSet(channels) : c.key = d.key

LEMMA ResumedTrip ==
  ASSUME NEW K, NEW U, NEW A, NEW trip \in Seq(Channel(K, U, A)), DistinctKeys(trip),
         NEW sensors \in Seq(Seq(Channel(K, U, A))), Unset \notin Seq(Channel(K, U, A)),
         ~Clashes(ToSet(trip) \cup ToSet(FlattenSeq(sensors)))
  PROVE  /\ KeepsTrip(trip, ToSet(FlattenSeq(sensors)), Resumed(trip, sensors), Channel(K, U, A))
         /\ (\A d \in ToSet(FlattenSeq(sensors)) : \E c \in ToSet(trip) : c.key = d.key) => Resumed(trip, sensors) = trip
<1> DEFINE T == Channel(K, U, A)
           said == ToSet(FlattenSeq(sensors))
           declared == CollectSensorChannels(sensors)
           all == trip \o declared
           channels == WithoutDuplicates(all)
<1>1. ~Clashes(said)
  BY DEF Clashes
<1>2. /\ declared # Unset /\ declared \in Seq(T) /\ ToSet(declared) \subseteq said
      /\ \A d \in said : \E c \in ToSet(declared) : c.key = d.key
  BY <1>1, DeclaredChannels
<1>3. Resumed(trip, sensors) = channels
  BY <1>2 DEF Resumed, MergeChannelDescriptors
<1> HIDE DEF declared, said
<1>4. all \in Seq(T) /\ ToSet(all) = ToSet(trip) \cup ToSet(declared)
  BY <1>2, JoinedSet
<1>5. ~Clashes(ToSet(all))
  <2>1. ToSet(all) \subseteq ToSet(trip) \cup said /\ ~Clashes(ToSet(trip) \cup said)
    BY <1>2, <1>4 DEF said
  <2> QED
    BY <2>1 DEF Clashes
<1>6. channels \in Seq(T) /\ Single(channels, all)
  BY <1>4, <1>5, WithoutDuplicatesOf
<1>7. /\ SubSeq(channels, 1, Len(trip)) = trip
      /\ (\A i \in DOMAIN declared : \E n \in DOMAIN trip : trip[n].key = declared[i].key) => channels = trip
  BY <1>2, <1>5, WithoutDuplicatesKeeps
<1> HIDE DEF channels, all
<1>8. ToSet(channels) \subseteq ToSet(all) /\ \A d \in ToSet(all) : \E c \in ToSet(channels) : c.key = d.key
  <2>1. \A x \in ToSet(channels) : x \in ToSet(all)
    <3>1. \A i \in DOMAIN channels : channels[i] \in ToSet(all)
      BY <1>6 DEF Single, ToSet
    <3> QED
      BY <3>1 DEF ToSet
  <2>2. ASSUME NEW n \in DOMAIN all PROVE \E c \in ToSet(channels) : c.key = all[n].key
    <3>1. PICK i \in DOMAIN channels : channels[i].key = all[n].key
      BY <1>6 DEF Single
    <3>2. channels[i] \in ToSet(channels)
      BY DEF ToSet
    <3> QED
      BY <3>1, <3>2
  <2>3. \A d \in ToSet(all) : \E n \in DOMAIN all : d = all[n]
    BY DEF ToSet
  <2> QED
    BY <2>1, <2>2, <2>3
<1>9. KeepsTrip(trip, said, channels, T)
  <2>1. \A d \in said : \E c \in ToSet(channels) : c.key = d.key
    <3> TAKE d \in said
    <3>1. PICK c \in ToSet(declared) : c.key = d.key
      BY <1>2
    <3>2. PICK b \in ToSet(channels) : b.key = c.key
      BY <1>4, <1>8, <3>1
    <3> QED
      BY <3>1, <3>2
  <2>2. ToSet(channels) \subseteq ToSet(trip) \cup said
    BY <1>2, <1>4, <1>8
  <2> QED
    BY <1>6, <1>7, <2>1, <2>2 DEF KeepsTrip, Single
<1>10. ASSUME \A d \in said : \E c \in ToSet(trip) : c.key = d.key PROVE channels = trip
  <2>1. \A i \in DOMAIN declared : declared[i] \in said
    BY <1>2 DEF ToSet
  <2>2. \A i \in DOMAIN declared : \E n \in DOMAIN trip : trip[n].key = declared[i].key
    <3> TAKE i \in DOMAIN declared
    <3>1. PICK c \in ToSet(trip) : c.key = declared[i].key
      BY <1>10, <2>1
    <3> QED
      BY <3>1 DEF ToSet
  <2> QED
    BY <1>7, <2>2
<1> QED
  BY <1>3, <1>9, <1>10 DEF said

(* collectSensorChannels, mergeChannelDescriptors: for every trip resumed  *)
(* and every sensors, either a sensor is at odds with the trip or with     *)
(* another and no recorder is made, or the trip's channels stay as they    *)
(* were, each sensor's means what it meant, and it can be resumed again.   *)
THEOREM ResumedChannelsKeepTheirMeaning ==
  ASSUME NEW K, NEW U, NEW A, NEW restored \in Seq(Channel(K, U, A)), DistinctKeys(restored),
         NEW sensors \in Seq(Seq(Channel(K, U, A))), Unset \notin Seq(Channel(K, U, A))
  PROVE  ChannelsKeepTheirMeaning(restored, sensors)
<1> DEFINE T == Channel(K, U, A)
           said == ToSet(FlattenSeq(sensors))
           declared == CollectSensorChannels(sensors)
           channels == Resumed(restored, sensors)
           odds == \E a \in said, b \in said \cup ToSet(restored) : a.key = b.key /\ Sense(a) # Sense(b)
<1>1. odds <=> Clashes(ToSet(restored) \cup said)
  <2>1. ASSUME NEW a \in ToSet(restored), NEW b \in ToSet(restored), Clash(a, b) PROVE FALSE
    <3>1. PICK i \in DOMAIN restored, j \in DOMAIN restored : a = restored[i] /\ b = restored[j]
      BY DEF ToSet
    <3>2. i # j => restored[i].key # restored[j].key
      BY DEF DistinctKeys
    <3> QED
      BY <2>1, <3>1, <3>2 DEF Clash
  <2> HIDE DEF said
  <2>2. odds => Clashes(ToSet(restored) \cup said)
    BY DEF Clashes, Clash
  <2>3. ASSUME Clashes(ToSet(restored) \cup said) PROVE odds
    <3>1. PICK a \in ToSet(restored) \cup said, b \in ToSet(restored) \cup said : Clash(a, b)
      BY <2>3 DEF Clashes
    <3>2. Clash(b, a)
      BY <3>1 DEF Clash
    <3>3. a \in said \/ b \in said
      BY <2>1, <3>1
    <3> QED
      BY <3>1, <3>2, <3>3 DEF Clash
  <2> QED
    BY <2>2, <2>3
<1>2. ASSUME odds PROVE channels = Unset
  <2>1. CASE Clashes(said)
    <3>1. declared = Unset
      BY <2>1, DeclaredChannels
    <3> QED
      BY <3>1 DEF Resumed
  <2>2. CASE ~Clashes(said)
    <3>1. /\ declared # Unset /\ declared \in Seq(T) /\ ToSet(declared) \subseteq said
          /\ \A d \in said : \E c \in ToSet(declared) : c.key = d.key
      BY <2>2, DeclaredChannels
    <3> HIDE DEF declared, said
    <3>2. PICK a \in said, b \in said \cup ToSet(restored) : Clash(a, b)
      BY <1>2 DEF Clash
    <3>3. b \in ToSet(restored)
      BY <2>2, <3>2 DEF Clashes
    <3>4. PICK c \in ToSet(declared) : c.key = a.key
      BY <3>1
    <3>5. Sense(c) = Sense(a)
      BY <2>2, <3>1, <3>4 DEF Clashes, Clash
    <3>6. Clash(c, b)
      BY <3>2, <3>4, <3>5 DEF Clash
    <3>7. restored \o declared \in Seq(T) /\ ToSet(restored \o declared) = ToSet(restored) \cup ToSet(declared)
      BY <3>1, JoinedSet
    <3>8. Clashes(ToSet(restored \o declared))
      BY <3>3, <3>6, <3>7 DEF Clashes
    <3>9. WithoutDuplicates(restored \o declared) = Unset
      BY <3>7, <3>8, WithoutDuplicatesOf
    <3> QED
      BY <3>9 DEF Resumed, MergeChannelDescriptors, declared
  <2> QED
    BY <2>1, <2>2
<1>3. ASSUME ~odds
      PROVE  /\ channels # Unset /\ KeepsTrip(restored, said, channels, T)
             /\ Resumed(channels, sensors) = channels /\ Resumed(channels, Reverse(sensors)) = channels
  <2>1. ~Clashes(ToSet(restored) \cup said)
    BY <1>1, <1>3
  <2>2. KeepsTrip(restored, said, channels, T)
    BY <2>1, ResumedTrip
  <2>3. Reverse(sensors) \in Seq(Seq(T)) /\ ToSet(FlattenSeq(Reverse(sensors))) = said
    BY ReversedHolds
  <2> HIDE DEF channels, said
  <2>4. ~Clashes(ToSet(channels) \cup said)
    BY <2>1, <2>2 DEF Clashes, KeepsTrip
  <2>5. channels \in Seq(T) /\ DistinctKeys(channels) /\ \A d \in said : \E c \in ToSet(channels) : c.key = d.key
    BY <2>2 DEF KeepsTrip
  <2>6. Resumed(channels, sensors) = channels
    <3>1. sensors \in Seq(Seq(T)) /\ said = ToSet(FlattenSeq(sensors))
      BY DEF said
    <3> QED
      BY <2>4, <2>5, <3>1, ResumedTrip
  <2>7. Resumed(channels, Reverse(sensors)) = channels
    BY <2>3, <2>4, <2>5, ResumedTrip DEF said
  <2> QED
    BY <2>2, <2>5, <2>6, <2>7
<1>4. ASSUME ~odds, NEW d \in said
      PROVE  \E n \in DOMAIN channels : Sense(channels[n]) = Sense(d)
  <2>1. KeepsTrip(restored, said, channels, T) /\ ~Clashes(ToSet(restored) \cup said)
    BY <1>1, <1>3, <1>4
  <2> HIDE DEF channels, said
  <2>2. PICK c \in ToSet(channels) : c.key = d.key
    BY <1>4, <2>1 DEF KeepsTrip
  <2>3. c \in ToSet(restored) \cup said
    BY <2>1 DEF KeepsTrip
  <2>4. Sense(c) = Sense(d)
    BY <1>4, <2>1, <2>2, <2>3 DEF Clashes, Clash
  <2> QED
    BY <2>4 DEF ToSet
<1>5. channels = Unset <=> odds
  BY <1>2, <1>3
<1> HIDE DEF odds
<1>6. ~odds =>
        /\ SubSeq(channels, 1, Len(restored)) = restored
        /\ \A m, n \in DOMAIN channels : m # n => channels[m].key # channels[n].key
        /\ \A d \in said : \E n \in DOMAIN channels : Sense(channels[n]) = Sense(d)
        /\ ToSet(channels) \subseteq ToSet(restored) \cup said
        /\ Resumed(channels, sensors) = channels /\ Resumed(channels, Reverse(sensors)) = channels
  <2> HIDE DEF channels, said
  <2> QED
    BY <1>3, <1>4 DEF KeepsTrip, DistinctKeys
<1> QED
  BY <1>5, <1>6 DEF ChannelsKeepTheirMeaning, Resumed, Sense, odds

-----------------------------------------------------------------------------
(* Drafts.                                                                 *)

LEMMA GreatestIs ==
  ASSUME NEW n \in Nat, NEW S \in SUBSET (1..n), S # {}
  PROVE  Max(S) \in S /\ \A x \in S : x <= Max(S)
<1> DEFINE T == {n - x : x \in S}
<1>0. \A x \in S : x \in Int /\ n - x \in Nat
  OBVIOUS
<1>1. T \in SUBSET Nat /\ T # {}
  BY <1>0
<1>2. PICK d \in T : \A e \in T : d <= e
  BY <1>1, LeastNatural
<1>3. PICK m \in S : d = n - m
  BY <1>2
<1>4. \A x \in S : m >= x
  <2>1. \A x \in S : d <= n - x
    BY <1>2
  <2> QED
    BY <1>0, <1>3, <2>1
<1>5. Max(S) = CHOOSE x \in S : \A y \in S : x >= y
  BY DEF Max
<1>6. Max(S) \in S /\ \A y \in S : Max(S) >= y
  BY <1>3, <1>4, <1>5
<1> QED
  BY <1>0, <1>6

LEMMA LeastIs ==
  ASSUME NEW n \in Nat, NEW S \in SUBSET (1..n), S # {}
  PROVE  Min(S) \in S /\ \A x \in S : Min(S) <= x
<1>1. S \in SUBSET Nat
  OBVIOUS
<1>2. PICK m \in S : \A x \in S : m <= x
  BY <1>1, LeastNatural
<1>3. Min(S) = CHOOSE x \in S : \A y \in S : x <= y
  BY DEF Min
<1> QED
  BY <1>2, <1>3

(* Rounding.                                                               *)
LEMMA Quotient ==
  ASSUME NEW x \in Int, NEW y \in Int, y > 0
  PROVE  x \div y \in Int /\ (x \div y) * y <= x /\ x < (x \div y) * y + y
OBVIOUS

LEMMA Cancelled ==
  ASSUME NEW u \in Int, NEW v \in Int, NEW y \in Int, y > 0, u * y < v * y
  PROVE  u < v
OBVIOUS

LEMMA RoundedRises ==
  ASSUME NEW a \in Int, NEW b \in Int, NEW den \in Int, den > 0, a <= b
  PROVE  Rounded(a, den) \in Int /\ Rounded(b, den) \in Int /\ Rounded(a, den) <= Rounded(b, den)
<1> DEFINE p == Rounded(a, den)
           q == Rounded(b, den)
           y == 2 * den
<1>1. y \in Int /\ y > 0 /\ p = (2 * a + den) \div y /\ q = (2 * b + den) \div y
      /\ 2 * a + den \in Int /\ 2 * b + den \in Int /\ 2 * a + den <= 2 * b + den
  BY DEF Rounded
<1> HIDE DEF p, q, y
<1>2. p \in Int /\ p * y <= 2 * a + den
  BY <1>1, Quotient
<1>3. q \in Int /\ 2 * b + den < q * y + y
  BY <1>1, Quotient
<1>4. p * y < q * y + y
  <2>1. p * y \in Int /\ q * y \in Int
    BY <1>1, <1>2, <1>3
  <2> QED
    BY <1>1, <1>2, <1>3, <2>1
<1>5. q * y + y = (q + 1) * y
  BY <1>1, <1>3
<1>6. p < q + 1
  BY <1>1, <1>2, <1>3, <1>4, <1>5, Cancelled
<1> QED
  BY <1>2, <1>3, <1>6 DEF p, q

LEMMA RoundedWhole ==
  ASSUME NEW m \in Int, NEW den \in Int, den > 0
  PROVE  Rounded(den * m, den) = m
<1> DEFINE q == Rounded(den * m, den)
           y == 2 * den
<1>1. y \in Int /\ y > 0 /\ q = (2 * (den * m) + den) \div y /\ 2 * (den * m) + den \in Int
  BY DEF Rounded
<1>2. 2 * (den * m) + den = m * y + den
  OBVIOUS
<1>3. m * y \in Int /\ y = den + den
  OBVIOUS
<1> HIDE DEF q, y
<1>4. q \in Int /\ q * y <= m * y + den /\ m * y + den < q * y + y
  BY <1>1, <1>2, Quotient
<1>5. q * y \in Int /\ (m + 1) * y = m * y + y /\ (q + 1) * y = q * y + y
  BY <1>1, <1>4
<1>6. q * y < (m + 1) * y /\ m * y < (q + 1) * y
  BY <1>1, <1>3, <1>4, <1>5
<1>7. q < m + 1 /\ m < q + 1
  BY <1>1, <1>4, <1>6, Cancelled
<1> QED
  BY <1>4, <1>7 DEF q

LEMMA RoundedZero ==
  ASSUME NEW den \in Int, den > 0
  PROVE  Rounded(0, den) = 0
<1>1. Rounded(den * 0, den) = 0 /\ den * 0 = 0
  BY RoundedWhole
<1> QED
  BY <1>1

LEMMA ProductRises ==
  ASSUME NEW a \in Int, NEW b \in Int, NEW m \in Nat, a <= b
  PROVE  a * m \in Int /\ b * m \in Int /\ a * m <= b * m
OBVIOUS

(* What was travelled only grows.                                          *)
LEMMA TravelledRises ==
  ASSUME NEW points \in Seq(DraftPoints), NEW breaks, NEW from \in 1..Len(points), NEW to \in from..Len(points)
  PROVE  /\ Travelled(points, breaks, from, from) = 0
         /\ \A j \in from..to : Travelled(points, breaks, from, j) \in Nat
         /\ \A j, k \in from..to : j <= k => Travelled(points, breaks, from, j) <= Travelled(points, breaks, from, k)
<1> DEFINE begins == {breaks[k] : k \in DOMAIN breaks}
           leg == [k \in 2..Len(points) |-> IF k \in begins THEN 0
                                            ELSE Gap(points[k].place, points[k - 1].place)]
<1>1. \A j : Travelled(points, breaks, from, j) = SumOver(leg, from, j)
  BY DEF Travelled
<1>2. \A k \in 2..Len(points) : leg[k] \in Nat
  <2> TAKE k \in 2..Len(points)
  <2>1. points[k].place \in Int /\ points[k - 1].place \in Int
    <3>1. k \in 1..Len(points) /\ k - 1 \in 1..Len(points)
      OBVIOUS
    <3>2. points[k] \in DraftPoints /\ points[k - 1] \in DraftPoints
      BY <3>1
    <3> QED
      BY <3>2 DEF DraftPoints
  <2>2. Gap(points[k].place, points[k - 1].place) \in Nat
    BY <2>1 DEF Gap
  <2> QED
    BY <2>2
<1> HIDE DEF leg
<1>3. from \in Int /\ to \in Int /\ \A k \in (from + 1)..to : leg[k] \in Nat /\ leg[k] \in Int
  BY <1>2
<1>4. \A k \in from..to : SumOver(leg, from, k) \in Int
  BY <1>3, SumOverInt
<1>5. \A j, k \in from..to : j <= k => SumOver(leg, from, j) <= SumOver(leg, from, k)
  BY <1>3, SumOverRises
<1>6. SumOver(leg, from, from) = 0
  BY <1>3, SumOverUnrolled
<1>7. \A k \in from..to : SumOver(leg, from, k) \in Nat
  <2> TAKE k \in from..to
  <2>1. from \in from..to /\ from <= k
    OBVIOUS
  <2>2. SumOver(leg, from, from) <= SumOver(leg, from, k)
    BY <1>5, <2>1
  <2> QED
    BY <1>4, <1>6, <2>2
<1> QED
  BY <1>1, <1>5, <1>6, <1>7

(* Between two anchors time passes, and never backwards.                   *)
LEMMA BetweenRises ==
  ASSUME NEW points \in Seq(DraftPoints), NEW breaks,
         NEW from \in 1..Len(points), NEW to \in 1..Len(points), from < to,
         points[from].t \in Int, points[to].t \in Int, points[from].t <= points[to].t
  PROVE  /\ \A j \in from..to : BetweenAnchors(points, breaks, j, from, to) \in points[from].t..points[to].t
         /\ \A j, k \in from..to : j <= k =>
              BetweenAnchors(points, breaks, j, from, to) <= BetweenAnchors(points, breaks, k, from, to)
<1> DEFINE span == Travelled(points, breaks, from, to)
           spanMs == points[to].t - points[from].t
           gone(j) == IF span = 0 THEN j - from ELSE Travelled(points, breaks, from, j)
           whole == IF span = 0 THEN to - from ELSE span
           passed(j) == Rounded(gone(j) * spanMs, whole)
           begin == points[from].t
<1>1. \A j : BetweenAnchors(points, breaks, j, from, to) = begin + passed(j)
  BY DEF BetweenAnchors
<1>2. to \in from..Len(points) /\ from \in from..to /\ to \in from..to /\ from \in Int /\ to \in Int
  OBVIOUS
<1>3. /\ Travelled(points, breaks, from, from) = 0
      /\ \A j \in from..to : Travelled(points, breaks, from, j) \in Nat
      /\ \A j, k \in from..to : j <= k => Travelled(points, breaks, from, j) <= Travelled(points, breaks, from, k)
  BY <1>2, TravelledRises
<1>4. whole \in Nat /\ whole > 0 /\ gone(from) = 0 /\ gone(to) = whole
  BY <1>2, <1>3
<1>5. /\ \A j \in from..to : gone(j) \in Int
      /\ \A j, k \in from..to : j <= k => gone(j) <= gone(k)
  BY <1>2, <1>3
<1>6. spanMs \in Nat /\ begin \in Int /\ points[to].t = begin + spanMs
  OBVIOUS
<1>7. \A j : passed(j) = Rounded(gone(j) * spanMs, whole)
  OBVIOUS
<1> HIDE DEF gone, whole, spanMs, begin, passed
<1>8. ASSUME NEW j \in from..to, NEW k \in from..to, j <= k
      PROVE  passed(j) \in Int /\ passed(k) \in Int /\ passed(j) <= passed(k)
  <2>1. gone(j) \in Int /\ gone(k) \in Int /\ gone(j) <= gone(k)
    BY <1>5, <1>8
  <2>2. gone(j) * spanMs \in Int /\ gone(k) * spanMs \in Int /\ gone(j) * spanMs <= gone(k) * spanMs
    BY <1>6, <2>1, ProductRises
  <2> QED
    BY <1>4, <1>7, <2>2, RoundedRises
<1>9. passed(from) = 0
  <2>1. gone(from) * spanMs = 0
    BY <1>4, <1>6
  <2> QED
    BY <1>4, <1>7, <2>1, RoundedZero
<1>10. passed(to) = spanMs
  <2>1. passed(to) = Rounded(whole * spanMs, whole)
    BY <1>4, <1>7
  <2> QED
    BY <1>4, <1>6, <2>1, RoundedWhole
<1>11. \A j \in from..to : passed(j) \in Int /\ 0 <= passed(j) /\ passed(j) <= spanMs
  <2> TAKE j \in from..to
  <2>1. from <= j /\ j <= to
    OBVIOUS
  <2>2. passed(j) \in Int /\ passed(from) <= passed(j) /\ passed(j) <= passed(to)
    BY <1>2, <1>8, <2>1
  <2> QED
    BY <1>9, <1>10, <2>2
<1>12. \A j \in from..to : BetweenAnchors(points, breaks, j, from, to) \in begin..points[to].t
  BY <1>1, <1>6, <1>11
<1>13. \A j, k \in from..to : j <= k =>
         BetweenAnchors(points, breaks, j, from, to) <= BetweenAnchors(points, breaks, k, from, to)
  BY <1>1, <1>6, <1>8
<1> QED
  BY <1>12, <1>13 DEF begin

LEMMA AfterRises ==
  ASSUME NEW points \in Seq(DraftPoints), NEW breaks, NEW from \in 1..Len(points), points[from].t \in Int,
         NEW speedMps \in Int, speedMps > 0
  PROVE  /\ \A j \in from..Len(points) : /\ AfterAnchors(points, breaks, j, from, speedMps) \in Int
                                         /\ AfterAnchors(points, breaks, j, from, speedMps) >= points[from].t
         /\ \A j, k \in from..Len(points) : j <= k =>
              AfterAnchors(points, breaks, j, from, speedMps) <= AfterAnchors(points, breaks, k, from, speedMps)
<1> DEFINE gone(j) == Travelled(points, breaks, from, j)
           passed(j) == Rounded(gone(j) * 1000, speedMps)
           begin == points[from].t
<1>1. \A j : AfterAnchors(points, breaks, j, from, speedMps) = begin + passed(j)
  BY DEF AfterAnchors
<1>2. Len(points) \in from..Len(points) /\ from \in from..Len(points)
  OBVIOUS
<1>3. /\ gone(from) = 0
      /\ \A j \in from..Len(points) : gone(j) \in Nat
      /\ \A j, k \in from..Len(points) : j <= k => gone(j) <= gone(k)
  BY <1>2, TravelledRises
<1>4. \A j : passed(j) = Rounded(gone(j) * 1000, speedMps)
  OBVIOUS
<1>5. begin \in Int
  OBVIOUS
<1> HIDE DEF gone, passed, begin
<1>6. ASSUME NEW j \in from..Len(points), NEW k \in from..Len(points), j <= k
      PROVE  passed(j) \in Int /\ passed(k) \in Int /\ passed(j) <= passed(k)
  <2>1. gone(j) * 1000 \in Int /\ gone(k) * 1000 \in Int /\ gone(j) * 1000 <= gone(k) * 1000
    BY <1>3, <1>6
  <2> QED
    BY <1>4, <2>1, RoundedRises
<1>7. passed(from) = 0
  BY <1>3, <1>4, RoundedZero
<1>8. \A j \in from..Len(points) : passed(j) \in Nat
  <2> TAKE j \in from..Len(points)
  <2>1. from <= j
    OBVIOUS
  <2>2. passed(j) \in Int /\ passed(from) <= passed(j)
    BY <1>2, <1>6, <2>1
  <2> QED
    BY <1>7, <2>2
<1>9. \A j \in from..Len(points) : /\ AfterAnchors(points, breaks, j, from, speedMps) \in Int
                                   /\ AfterAnchors(points, breaks, j, from, speedMps) >= begin
  BY <1>1, <1>5, <1>8
<1>10. \A j, k \in from..Len(points) : j <= k =>
         AfterAnchors(points, breaks, j, from, speedMps) <= AfterAnchors(points, breaks, k, from, speedMps)
  BY <1>1, <1>5, <1>6, <1>8
<1> QED
  BY <1>9, <1>10 DEF begin

(* Points whose times can be told: the first has one, those that have one  *)
(* are in order, and there is a rate for what comes after the last of them.*)
Anchored(points, options) ==
  /\ points \in Seq(DraftPoints) /\ 1 \in Anchors(points) /\ AnchorsInOrder(points)
  /\ options.speedMps \in Int \cup {Untimed} /\ (options.speedMps # Untimed => options.speedMps > 0)
  /\ RateKnown(points, options)

AnchorsUpTo(points, j) == {i \in Anchors(points) : i <= j}
AnchorsFrom(points, j) == {i \in Anchors(points) : i >= j}

LEMMA AnchorsAround ==
  ASSUME NEW points \in Seq(DraftPoints), 1 \in Anchors(points), NEW j \in 1..Len(points)
  PROVE  /\ \A i \in Anchors(points) : i \in 1..Len(points) /\ points[i].t \in Int
         /\ Max(AnchorsUpTo(points, j)) \in Anchors(points)
         /\ Max(AnchorsUpTo(points, j)) <= j
         /\ \A i \in Anchors(points) : i <= j => i <= Max(AnchorsUpTo(points, j))
         /\ AnchorsFrom(points, j) # {} =>
              /\ Min(AnchorsFrom(points, j)) \in Anchors(points)
              /\ Min(AnchorsFrom(points, j)) >= j
              /\ \A i \in Anchors(points) : i >= j => i >= Min(AnchorsFrom(points, j))
<1>1. \A i \in Anchors(points) : i \in 1..Len(points) /\ points[i].t \in Int
  <2> TAKE i \in Anchors(points)
  <2>1. i \in 1..Len(points) /\ points[i].t # Untimed
    BY DEF Anchors
  <2>2. points[i] \in DraftPoints
    BY <2>1
  <2> QED
    BY <2>1, <2>2 DEF DraftPoints
<1> DEFINE up == AnchorsUpTo(points, j)
           down == AnchorsFrom(points, j)
<1>2. up \in SUBSET (1..Len(points)) /\ up # {} /\ down \in SUBSET (1..Len(points)) /\ Len(points) \in Nat
  BY <1>1 DEF AnchorsUpTo, AnchorsFrom
<1>3. \A i : /\ i \in up <=> (i \in Anchors(points) /\ i <= j)
             /\ i \in down <=> (i \in Anchors(points) /\ i >= j)
  BY DEF AnchorsUpTo, AnchorsFrom
<1> HIDE DEF up, down
<1>4. Max(up) \in up /\ \A x \in up : x <= Max(up)
  BY <1>2, GreatestIs
<1>5. down # {} => Min(down) \in down /\ \A x \in down : Min(down) <= x
  BY <1>2, LeastIs
<1>6. down # {} => \A x \in down : x >= Min(down)
  <2>1. \A x \in down : x \in Int
    BY <1>2
  <2> QED
    BY <1>5, <2>1
<1>7. /\ Max(up) \in Anchors(points) /\ Max(up) <= j
      /\ \A i \in Anchors(points) : i <= j => i <= Max(up)
  <2>1. Max(up) \in Anchors(points) /\ Max(up) <= j
    BY <1>3, <1>4, Zenon
  <2>2. \A i \in Anchors(points) : i <= j => i <= Max(up)
    BY <1>3, <1>4, Zenon
  <2> QED
    BY <2>1, <2>2
<1>8. down # {} => /\ Min(down) \in Anchors(points) /\ Min(down) >= j
                   /\ \A i \in Anchors(points) : i >= j => i >= Min(down)
  <2>1. down # {} => Min(down) \in Anchors(points) /\ Min(down) >= j
    BY <1>3, <1>5, Zenon
  <2>2. down # {} => \A i \in Anchors(points) : i >= j => i >= Min(down)
    BY <1>3, <1>6, Zenon
  <2> QED
    BY <2>1, <2>2
<1> QED
  BY <1>1, <1>7, <1>8 DEF up, down

(* How a point gets its time.                                              *)
ByBoth(points, breaks, options, j, from, to) ==
  /\ from \in Anchors(points) /\ to \in Anchors(points) /\ from < j /\ j < to
  /\ TimeOf(points, breaks, options, j) = BetweenAnchors(points, breaks, j, from, to)

ByRate(points, breaks, options, j, from) ==
  /\ from \in Anchors(points) /\ from < j /\ AnchorsFrom(points, j) = {}
  /\ options.speedMps \in Int /\ options.speedMps > 0
  /\ TimeOf(points, breaks, options, j) = AfterAnchors(points, breaks, j, from, options.speedMps)

LEMMA TimeOfCases ==
  ASSUME NEW points, NEW options, Anchored(points, options), NEW breaks, NEW j \in 1..Len(points)
  PROVE  /\ j \in Anchors(points) => TimeOf(points, breaks, options, j) = points[j].t
         /\ j \notin Anchors(points) /\ AnchorsFrom(points, j) # {} =>
              ByBoth(points, breaks, options, j, Max(AnchorsUpTo(points, j)), Min(AnchorsFrom(points, j)))
         /\ j \notin Anchors(points) /\ AnchorsFrom(points, j) = {} =>
              ByRate(points, breaks, options, j, Max(AnchorsUpTo(points, j)))
<1> DEFINE from == Max(AnchorsUpTo(points, j))
           to == Min(AnchorsFrom(points, j))
<1>0. points \in Seq(DraftPoints) /\ 1 \in Anchors(points)
  BY DEF Anchored
<1>1. /\ \A i \in Anchors(points) : i \in 1..Len(points) /\ points[i].t \in Int
      /\ from \in Anchors(points) /\ from <= j
      /\ AnchorsFrom(points, j) # {} => to \in Anchors(points) /\ to >= j
  BY <1>0, AnchorsAround
<1>2. TimeOf(points, breaks, options, j) =
        IF j \in Anchors(points) THEN points[j].t
        ELSE IF AnchorsFrom(points, j) # {} THEN BetweenAnchors(points, breaks, j, from, to)
        ELSE IF options.speedMps # Untimed THEN AfterAnchors(points, breaks, j, from, options.speedMps)
        ELSE Untimed
  BY DEF TimeOf, AnchorsUpTo, AnchorsFrom
<1> HIDE DEF from, to
<1>3. ASSUME j \notin Anchors(points), AnchorsFrom(points, j) # {}
      PROVE  ByBoth(points, breaks, options, j, from, to)
  <2>1. from # j /\ to # j
    BY <1>1, <1>3
  <2> QED
    BY <1>1, <1>2, <1>3, <2>1 DEF ByBoth
<1>4. ASSUME j \notin Anchors(points), AnchorsFrom(points, j) = {}
      PROVE  ByRate(points, breaks, options, j, from)
  <2>1. from # j /\ from < j
    BY <1>1, <1>4
  <2>2. Len(points) \notin Anchors(points)
    <3>1. Len(points) \in Anchors(points) => Len(points) \in AnchorsFrom(points, j)
      BY <1>0 DEF AnchorsFrom
    <3> QED
      BY <1>4, <3>1
  <2>3. options.speedMps # Untimed
    BY <2>2 DEF Anchored, RateKnown
  <2>4. options.speedMps \in Int /\ options.speedMps > 0
    BY <2>3 DEF Anchored
  <2> QED
    BY <1>1, <1>2, <1>4, <2>1, <2>3, <2>4 DEF ByRate
<1> QED
  BY <1>2, <1>3, <1>4 DEF from, to

(* Everybody has a time, and none is before the time of the one before.    *)
LEMMA TimesRise ==
  ASSUME NEW points, NEW options, Anchored(points, options), NEW breaks
  PROVE  /\ \A j \in 1..Len(points) : TimeOf(points, breaks, options, j) \in Int
         /\ \A j \in 1..(Len(points) - 1) :
              TimeOf(points, breaks, options, j) <= TimeOf(points, breaks, options, j + 1)
<1> DEFINE n == Len(points)
           A == Anchors(points)
           T(j) == TimeOf(points, breaks, options, j)
           from(j) == Max(AnchorsUpTo(points, j))
           to(j) == Min(AnchorsFrom(points, j))
           open(j) == AnchorsFrom(points, j) = {}
           between(j, a, b) == BetweenAnchors(points, breaks, j, a, b)
           after(j, a) == AfterAnchors(points, breaks, j, a, options.speedMps)
           rate == options.speedMps \in Int /\ options.speedMps > 0
<1>0. points \in Seq(DraftPoints) /\ 1 \in A /\ n \in Nat
  BY DEF Anchored
<1>1. /\ \A i \in A : i \in 1..n /\ points[i].t \in Int
      /\ \A j \in 1..n : /\ from(j) \in A /\ from(j) <= j
                         /\ \A i \in A : i <= j => i <= from(j)
                         /\ ~open(j) => to(j) \in A /\ to(j) >= j /\ \A i \in A : i >= j => i >= to(j)
  <2>1. \A i \in A : i \in 1..n /\ points[i].t \in Int
    <3>1. 1 \in 1..n
      BY <1>0 DEF Anchors
    <3> QED
      BY <1>0, <3>1, AnchorsAround
  <2>2. ASSUME NEW j \in 1..n
        PROVE  /\ from(j) \in A /\ from(j) <= j
               /\ \A i \in A : i <= j => i <= from(j)
               /\ ~open(j) => to(j) \in A /\ to(j) >= j /\ \A i \in A : i >= j => i >= to(j)
    BY <1>0, AnchorsAround
  <2> HIDE DEF n, A, from, to, open
  <2> QED
    BY <2>1, <2>2
<1>2. \A i, j \in A : i < j => points[i].t <= points[j].t
  BY DEF Anchored, AnchorsInOrder
<1>3. \A j \in 1..n : /\ j \in A => T(j) = points[j].t
                      /\ j \notin A /\ ~open(j) => from(j) < j /\ j < to(j) /\ T(j) = between(j, from(j), to(j))
                      /\ j \notin A /\ open(j) => from(j) < j /\ rate /\ T(j) = after(j, from(j))
  BY TimeOfCases DEF ByBoth, ByRate
<1>4. ASSUME NEW a \in A, NEW b \in A, a < b
      PROVE  /\ \A j \in a..b : between(j, a, b) \in points[a].t..points[b].t
             /\ \A j, k \in a..b : j <= k => between(j, a, b) <= between(k, a, b)
  <2>1. a \in 1..n /\ b \in 1..n /\ points[a].t \in Int /\ points[b].t \in Int /\ points[a].t <= points[b].t
    BY <1>1, <1>2, <1>4
  <2> QED
    BY <1>0, <1>4, <2>1, BetweenRises
<1>5. ASSUME rate, NEW a \in A
      PROVE  /\ \A j \in a..n : after(j, a) \in Int /\ after(j, a) >= points[a].t
             /\ \A j, k \in a..n : j <= k => after(j, a) <= after(k, a)
  <2>1. a \in 1..n /\ points[a].t \in Int
    BY <1>1
  <2> QED
    BY <1>0, <1>5, <2>1, AfterRises
<1>6. \A j : open(j) <=> \A i \in A : ~(i >= j)
  BY DEF AnchorsFrom
<1> HIDE DEF n, A, T, from, to, open, between, after, rate
<1>7. ASSUME NEW j \in 1..n PROVE T(j) \in Int
  <2>1. CASE j \in A
    BY <1>1, <1>3, <2>1
  <2>2. CASE j \notin A /\ ~open(j)
    <3>1. from(j) \in A /\ to(j) \in A /\ from(j) < j /\ j < to(j) /\ T(j) = between(j, from(j), to(j))
      BY <1>1, <1>3, <2>2
    <3>2. from(j) \in Int /\ to(j) \in Int /\ points[from(j)].t \in Int /\ points[to(j)].t \in Int
      BY <1>1, <3>1
    <3>3. j \in from(j)..to(j) /\ from(j) < to(j)
      BY <3>1, <3>2
    <3>4. T(j) \in points[from(j)].t..points[to(j)].t
      BY <1>4, <3>1, <3>3
    <3> QED
      BY <3>2, <3>4
  <2>3. CASE j \notin A /\ open(j)
    <3>1. from(j) \in A /\ from(j) < j /\ rate /\ T(j) = after(j, from(j))
      BY <1>1, <1>3, <2>3
    <3>2. from(j) \in 1..n
      BY <1>1, <3>1
    <3>3. j \in from(j)..n
      BY <3>1, <3>2
    <3> QED
      BY <1>5, <3>1, <3>3
  <2> QED
    BY <2>1, <2>2, <2>3
<1>8. ASSUME NEW j \in 1..(n - 1) PROVE T(j) <= T(j + 1)
  <2>0. j \in 1..n /\ j + 1 \in 1..n /\ j \in Int /\ n \in Int
    BY <1>0, <1>8
  <2>1. CASE j \in A /\ j + 1 \in A
    BY <1>2, <1>3, <2>0, <2>1
  <2>2. CASE j \in A /\ j + 1 \notin A
    <3>1. from(j + 1) \in A /\ from(j + 1) <= j + 1 /\ j <= from(j + 1) /\ from(j + 1) \in Int
      <4>1. from(j + 1) \in A /\ from(j + 1) <= j + 1
        BY <1>1, <2>0
      <4>2. j <= from(j + 1)
        <5>1. j <= j + 1
          BY <2>0
        <5> QED
          BY <1>1, <2>0, <2>2, <5>1
      <4>3. from(j + 1) \in Int
        BY <1>1, <4>1
      <4> QED
        BY <4>1, <4>2, <4>3
    <3>2. from(j + 1) = j
      BY <2>0, <2>2, <3>1
    <3>3. T(j) = points[j].t /\ points[j].t \in Int
      BY <1>1, <1>3, <2>0, <2>2
    <3>4. CASE ~open(j + 1)
      <4>1. to(j + 1) \in A /\ j + 1 < to(j + 1) /\ T(j + 1) = between(j + 1, j, to(j + 1))
        BY <1>1, <1>3, <2>0, <2>2, <3>2, <3>4
      <4>2. to(j + 1) \in Int /\ points[to(j + 1)].t \in Int
        BY <1>1, <4>1
      <4>3. j + 1 \in j..to(j + 1) /\ j < to(j + 1)
        BY <2>0, <4>1, <4>2
      <4>4. T(j + 1) \in points[j].t..points[to(j + 1)].t
        BY <1>4, <2>2, <4>1, <4>3
      <4> QED
        BY <3>3, <4>2, <4>4
    <3>5. CASE open(j + 1)
      <4>1. rate /\ T(j + 1) = after(j + 1, j) /\ j + 1 \in j..n
        BY <1>3, <2>0, <2>2, <3>2, <3>5
      <4>2. after(j + 1, j) \in Int /\ after(j + 1, j) >= points[j].t
        BY <1>5, <2>2, <4>1
      <4> QED
        BY <3>3, <4>1, <4>2
    <3> QED
      BY <3>4, <3>5
  <2>3. CASE j \notin A /\ j + 1 \in A
    <3>1. ~open(j)
      BY <1>6, <2>0, <2>3
    <3>2. /\ from(j) \in A /\ from(j) \in Int /\ to(j) \in A /\ to(j) \in Int
          /\ from(j) < j /\ j < to(j) /\ j + 1 >= to(j) /\ T(j) = between(j, from(j), to(j))
      BY <1>1, <1>3, <2>0, <2>3, <3>1
    <3>3. to(j) = j + 1 /\ from(j) < to(j) /\ j \in from(j)..to(j)
      BY <2>0, <3>2
    <3>4. T(j) \in points[from(j)].t..points[j + 1].t /\ points[j + 1].t \in Int /\ points[from(j)].t \in Int
      BY <1>1, <1>4, <2>3, <3>2, <3>3
    <3>5. T(j + 1) = points[j + 1].t
      BY <1>3, <2>0, <2>3
    <3> QED
      BY <3>4, <3>5
  <2>4. CASE j \notin A /\ j + 1 \notin A
    <3>1. \A i \in A : i \in Int /\ (i <= j <=> i <= j + 1) /\ (i >= j <=> i >= j + 1)
      <4>1. \A i \in A : i \in Int /\ i # j /\ i # j + 1
        BY <1>1, <2>4
      <4> QED
        BY <2>0, <4>1
    <3>2. from(j) \in A /\ from(j + 1) \in A /\ from(j) <= j /\ from(j + 1) <= j + 1
      BY <1>1, <2>0
    <3>3. from(j) <= from(j + 1) /\ from(j + 1) <= from(j)
      BY <1>1, <2>0, <3>1, <3>2
    <3>4. from(j) = from(j + 1)
      BY <3>1, <3>2, <3>3
    <3>5. open(j) <=> open(j + 1)
      BY <1>6, <3>1
    <3>6. CASE ~open(j)
      <4>1. to(j) \in A /\ to(j + 1) \in A /\ to(j) >= j /\ to(j + 1) >= j + 1
        BY <1>1, <2>0, <3>5, <3>6
      <4>2. to(j) >= to(j + 1) /\ to(j + 1) >= to(j)
        BY <1>1, <2>0, <3>1, <3>5, <3>6, <4>1
      <4>3. to(j) = to(j + 1)
        BY <3>1, <4>1, <4>2
      <4>4. /\ T(j) = between(j, from(j), to(j)) /\ T(j + 1) = between(j + 1, from(j), to(j))
            /\ from(j) < j /\ j + 1 < to(j)
        BY <1>3, <2>0, <2>4, <3>4, <3>5, <3>6, <4>3
      <4>5. j \in from(j)..to(j) /\ j + 1 \in from(j)..to(j) /\ j <= j + 1 /\ from(j) < to(j)
        BY <2>0, <3>1, <3>2, <4>1, <4>4
      <4> QED
        BY <1>4, <3>2, <4>1, <4>4, <4>5
    <3>7. CASE open(j)
      <4>1. /\ T(j) = after(j, from(j)) /\ T(j + 1) = after(j + 1, from(j)) /\ rate /\ from(j) < j
        BY <1>3, <2>0, <2>4, <3>4, <3>5, <3>7
      <4>2. j \in from(j)..n /\ j + 1 \in from(j)..n /\ j <= j + 1
        BY <2>0, <3>1, <3>2, <4>1
      <4> QED
        BY <1>5, <3>2, <4>1, <4>2
    <3> QED
      BY <3>6, <3>7
  <2> QED
    BY <2>1, <2>2, <2>3, <2>4
<1> QED
  BY <1>7, <1>8 DEF n, T

SegmentsCover(n, segments) ==
  /\ segments # << >> /\ Len(segments) \in Nat
  /\ \A k \in 1..Len(segments) :
       /\ segments[k].startIndex \in 1..n /\ segments[k].endIndex \in 1..n
       /\ segments[k].startIndex <= segments[k].endIndex
       /\ k > 1 => segments[k].startIndex = segments[k - 1].endIndex + 1
  /\ segments[1].startIndex = 1 /\ segments[Len(segments)].endIndex = n

SegmentShape == [startIndex : Int, endIndex : Int, startedAt : Int, endedAt : Int]

LEMMA SegmentsOfDraft ==
  ASSUME NEW draft \in Drafts, draft.points # << >>,
         \A k \in DOMAIN draft.breaks : draft.breaks[k] \in 2..Len(draft.points),
         \A i \in 1..Len(draft.points) : draft.points[i].t \in Int
  PROVE  SegmentsOf(draft) \in Seq(SegmentShape) /\ SegmentsCover(Len(draft.points), SegmentsOf(draft))
<1> DEFINE n == Len(draft.points)
           begins == {1} \cup {draft.breaks[i] : i \in DOMAIN draft.breaks}
           size == Cardinality(begins)
           segments == SegmentsOf(draft)
           start(k) == CHOOSE i \in begins : Cardinality({j \in begins : j < i}) = k - 1
           end(k) == IF k = size THEN n ELSE start(k + 1) - 1
<1>1. n \in Nat /\ n >= 1
  BY DEF Drafts
<1>2. begins \in SUBSET (1..n) /\ 1 \in begins
  BY <1>1
<1>3. segments = [k \in 1..size |-> [startIndex |-> start(k), endIndex |-> end(k),
                                     startedAt |-> draft.points[start(k)].t, endedAt |-> draft.points[end(k)].t]]
  BY DEF SegmentsOf
<1> HIDE DEF begins
<1>4. PICK p : \A s : PickedBy(p, s, begins)
  BY <1>1, <1>2, PickedOf
<1>5. Rising(p, begins) /\ size \in Nat /\ p \in [1..size -> begins]
      /\ (\A i, j \in 1..size : i < j => p[i] < p[j]) /\ \A x \in begins : \E k \in 1..size : p[k] = x
  BY <1>4 DEF PickedBy, Rising
<1>6. \A k \in 1..size : start(k) = p[k]
  <2> TAKE k \in 1..size
  <2> DEFINE there == start(k)
             s == [x \in {there, p[k]} |-> x]
  <2>1. Picked(s, begins) = [i \in 1..size |-> s[start(i)]]
    BY DEF Picked
  <2>2. Picked(s, begins) = [i \in 1..size |-> s[p[i]]]
    BY <1>4 DEF PickedBy
  <2> HIDE DEF start
  <2>3. s[there] = s[p[k]]
    BY <2>1, <2>2
  <2> HIDE DEF there
  <2>4. s[there] = there /\ s[p[k]] = p[k]
    OBVIOUS
  <2> QED
    BY <2>3, <2>4 DEF there
<1>7. \A k \in 1..1 : k \in 1..Cardinality(begins) /\ p[k] = k
  <2>1. 1 \in Nat /\ Cardinality(begins) \in Nat /\ \A k \in 1..1 : k \in begins
    BY <1>2, <1>5
  <2> QED
    <3>1. Rising(p, begins) /\ n \in Nat /\ begins \in SUBSET (1..n)
      BY <1>1, <1>2, <1>5
    <3> DEFINE r == 1
    <3>2. r \in Nat /\ \A k \in 1..r : k \in begins
      BY <2>1
    <3> HIDE DEF r
    <3>3. \A k \in 1..r : k \in 1..Cardinality(begins) /\ p[k] = k
      <4> HIDE DEF n, size
      <4>1. begins \in SUBSET (1..n) /\ n \in Nat /\ Rising(p, begins) /\ Cardinality(begins) \in Nat
        BY <2>1, <3>1
      <4>2. \A x \in Nat : (\A k \in 1..x : k \in begins) => \A k \in 1..x : k \in 1..Cardinality(begins) /\ p[k] = k
        BY <4>1, RisingStarts, ZenonT(30)
      <4> QED
        BY <3>2, <4>2
    <3> QED
      BY <3>3 DEF r
<1>8. 1 \in 1..size /\ size >= 1 /\ start(1) = 1
  <2>1. 1 \in 1..size /\ p[1] = 1
    BY <1>7
  <2>2. size >= 1
    BY <1>5, <2>1
  <2> HIDE DEF start
  <2>3. start(1) = p[1]
    BY <1>6, <2>1
  <2> QED
    BY <2>1, <2>2, <2>3
<1>9. \A k \in 1..size : start(k) \in 1..n
  BY <1>2, <1>5, <1>6
<1>10. \A k \in 1..(size - 1) : k \in 1..size /\ k + 1 \in 1..size /\ start(k) < start(k + 1)
  <2> TAKE k \in 1..(size - 1)
  <2>1. k \in 1..size /\ k + 1 \in 1..size /\ k < k + 1
    BY <1>5
  <2>2. p[k] < p[k + 1]
    BY <1>5, <2>1
  <2> QED
    BY <1>6, <2>1, <2>2
<1> HIDE DEF start, size
<1>11. ASSUME NEW k \in 1..size
       PROVE  /\ end(k) \in 1..n /\ start(k) <= end(k)
              /\ k > 1 => start(k) = end(k - 1) + 1
  <2>1. CASE k = size
    BY <1>1, <1>9, <2>1
  <2>2. CASE k # size
    <3>1. k \in 1..(size - 1)
      BY <1>5, <2>2
    <3>2. start(k) \in 1..n /\ start(k + 1) \in 1..n /\ start(k) < start(k + 1)
      BY <1>9, <1>10, <3>1
    <3> QED
      BY <2>2, <3>2
  <2>3. k > 1 => start(k) = end(k - 1) + 1
    <3>1. k > 1 => k - 1 # size /\ (k - 1) + 1 = k /\ start(k) \in Int
      BY <1>5, <1>9
    <3> QED
      BY <3>1
  <2> QED
    BY <2>1, <2>2, <2>3
<1>12. end(size) = n
  OBVIOUS
<1> HIDE DEF end, segments, n
<1>13. segments \in Seq(SegmentShape) /\ Len(segments) = size
  <2>1. \A k \in 1..size : [startIndex |-> start(k), endIndex |-> end(k),
                            startedAt |-> draft.points[start(k)].t, endedAt |-> draft.points[end(k)].t]
                             \in SegmentShape
    BY <1>9, <1>11 DEF SegmentShape, n
  <2>2. segments \in [1..size -> SegmentShape]
    BY <1>3, <2>1
  <2>3. segments \in Seq(SegmentShape)
    BY <1>5, <2>2, SeqDef
  <2> QED
    BY <1>5, <2>2, <2>3
<1>14. \A k \in 1..size : segments[k].startIndex = start(k) /\ segments[k].endIndex = end(k)
  BY <1>3
<1>15. \A k \in 1..size : k > 1 => k - 1 \in 1..size
  BY <1>5
<1>16. segments # << >> /\ size \in 1..size
  BY <1>5, <1>8, <1>13
<1>17. SegmentsCover(n, segments)
  <2>1. \A k \in 1..size :
          /\ segments[k].startIndex \in 1..n /\ segments[k].endIndex \in 1..n
          /\ segments[k].startIndex <= segments[k].endIndex
          /\ k > 1 => segments[k].startIndex = segments[k - 1].endIndex + 1
    BY <1>9, <1>11, <1>14, <1>15
  <2>2. segments[1].startIndex = 1 /\ segments[size].endIndex = n
    BY <1>8, <1>12, <1>14, <1>16
  <2> QED
    BY <1>5, <1>13, <1>16, <2>1, <2>2 DEF SegmentsCover
<1> QED
  BY <1>13, <1>17 DEF segments, n

LEMMA EndsTimedOf ==
  ASSUME NEW points \in Seq(DraftPoints), NEW options, options.startedAt \in Int,
         options.endedAt \in Int \cup {Untimed}
  PROVE  /\ EndsTimed(points, options) \in Seq(DraftPoints)
         /\ Len(EndsTimed(points, options)) = Len(points)
         /\ \A i \in 1..Len(points) : points[i].t # Untimed => EndsTimed(points, options)[i].t = points[i].t
         /\ points # << >> => EndsTimed(points, options)[1].t # Untimed
<1> DEFINE n == Len(points)
           fill(i, t) == IF t # Untimed /\ points[i].t = Untimed THEN t ELSE points[i].t
           time(i) == IF i = 1 THEN fill(1, options.startedAt)
                      ELSE IF i = n THEN fill(i, options.endedAt)
                      ELSE points[i].t
           ended == EndsTimed(points, options)
<1>1. n \in Nat /\ DOMAIN points = 1..n /\ \A i \in 1..n : points[i] \in DraftPoints
  OBVIOUS
<1>2. ended = [i \in 1..n |-> [points[i] EXCEPT !.t = time(i)]]
  BY <1>1 DEF EndsTimed
<1>3. \A i \in 1..n : time(i) \in Int \cup {Untimed} /\ (points[i].t # Untimed => time(i) = points[i].t)
  <2>1. \A i \in 1..n : points[i].t \in Int \cup {Untimed}
    BY <1>1 DEF DraftPoints
  <2> QED
    BY <2>1
<1>4. n >= 1 => time(1) # Untimed
  <2>1. n >= 1 => points[1].t \in Int \cup {Untimed}
    BY <1>1 DEF DraftPoints
  <2> QED
    BY <2>1, TrackMakingAssumption
<1> HIDE DEF time, ended, n
<1>5. \A i \in 1..n : ended[i] \in DraftPoints /\ ended[i].t = time(i)
  <2> TAKE i \in 1..n
  <2>1. ended[i] = [points[i] EXCEPT !.t = time(i)]
    BY <1>2
  <2>2. points[i] \in DraftPoints /\ time(i) \in Int \cup {Untimed}
    BY <1>1, <1>3
  <2> QED
    BY <2>1, <2>2 DEF DraftPoints
<1>6. ended \in Seq(DraftPoints) /\ Len(ended) = n
  <2>1. ended \in [1..n -> DraftPoints]
    BY <1>2, <1>5
  <2>2. ended \in Seq(DraftPoints)
    BY <1>1, <2>1, SeqDef
  <2> QED
    BY <1>1, <2>1, <2>2
<1>7. points # << >> => 1 \in 1..n /\ n >= 1
  BY DEF n
<1> QED
  BY <1>3, <1>4, <1>5, <1>6, <1>7 DEF n, ended

(* interpolateTimes, toTrack: every draft, under every options, is refused *)
(* or can be promoted with the times it gets, keeps every time that was    *)
(* set, and has none made up on either side of a break.                    *)
THEOREM InterpolatedDraftsAreTracks ==
  ASSUME NEW draft \in Drafts, \A k \in DOMAIN draft.breaks : draft.breaks[k] \in 2..Len(draft.points),
         NEW options, options.startedAt \in Int, options.endedAt \in Int \cup {Untimed},
         options.speedMps \in Int \cup {Untimed}
  PROVE  InterpolatedDraftIsATrack(draft, options)
<1> DEFINE n == Len(draft.points)
           points == EndsTimed(draft.points, options)
           timed == InterpolateTimes(draft, options)
           time(j) == TimeOf(points, draft.breaks, options, j)
           filled == [j \in 1..n |-> [points[j] EXCEPT !.t = time(j)]]
<1>1. draft.points \in Seq(DraftPoints) /\ draft.breaks \in Seq(Nat) /\ n \in Nat
  BY DEF Drafts
<1>2. /\ points \in Seq(DraftPoints) /\ Len(points) = n /\ DOMAIN points = 1..n
      /\ \A i \in 1..n : draft.points[i].t # Untimed => points[i].t = draft.points[i].t
      /\ draft.points # << >> => points[1].t # Untimed
  BY <1>1, EndsTimedOf
<1>3. SUFFICES ASSUME timed # Rejected
               PROVE  /\ ToTrack(timed) # Rejected
                      /\ \A i \in DOMAIN draft.points :
                           draft.points[i].t # Untimed => timed.points[i].t = draft.points[i].t
                      /\ \A k \in DOMAIN draft.breaks : {draft.breaks[k] - 1, draft.breaks[k]} \subseteq Anchors(points)
  BY DEF InterpolatedDraftIsATrack
<1>4. CASE draft.points = << >>
  <2>1. timed = draft
    BY <1>3, <1>4 DEF InterpolateTimes
  <2>2. DOMAIN draft.points = {} /\ n = 0
    BY <1>4
  <2>3. DOMAIN draft.breaks = {}
    BY <2>2
  <2>4. UntimedIn(draft) = {} /\ SegmentsOf(draft) = << >>
    BY <1>4, <2>2 DEF UntimedIn, SegmentsOf
  <2>5. ValidTrackGeometry(draft.points, << >>, << >>)
    BY <1>4 DEF ValidTrackGeometry, SegmentRanges, SegmentsCoverPoints, TemporalOrder, LapRanges
  <2>6. ToTrack(draft) = FinalizeTrack(draft.points, << >>, << >>)
    BY <2>4, <2>5 DEF ToTrack
  <2>7. FinalizeTrack(draft.points, << >>, << >>) \in DraftTracks
    BY <1>1 DEF FinalizeTrack, DraftTracks
  <2> QED
    BY <2>1, <2>2, <2>3, <2>6, <2>7, TrackMakingAssumption
<1>5. CASE draft.points # << >>
  <2>1. /\ OptionsOK(options) /\ PausesAnchored(points, draft.breaks) /\ AnchorsInOrder(points)
        /\ RateKnown(points, options)
        /\ timed = [draft EXCEPT !.points = filled]
    <3> HIDE DEF points
    <3>1. timed = IF ~OptionsOK(options) THEN Rejected
                  ELSE IF ~PausesAnchored(points, draft.breaks) \/ ~AnchorsInOrder(points) THEN Rejected
                  ELSE IF ~RateKnown(points, options) THEN Rejected
                  ELSE [draft EXCEPT !.points = filled]
      BY <1>2, <1>5 DEF InterpolateTimes, points
    <3> QED
      BY <1>3, <3>1
  <2> HIDE DEF points, timed, filled
  <2>2. timed \in [points : {filled}, breaks : {draft.breaks}]
    BY <2>1 DEF Drafts
  <2>3. timed.points = filled /\ timed.breaks = draft.breaks
    BY <2>2
  <2>4. n >= 1 /\ 1 \in Anchors(points)
    <3>1. n >= 1
      BY <1>1, <1>5
    <3> QED
      BY <1>2, <1>5, <3>1 DEF Anchors
  <2>5. Anchored(points, options)
    BY <1>2, <2>1, <2>4 DEF Anchored, OptionsOK
  <2>6. /\ \A j \in 1..n : time(j) \in Int
        /\ \A j \in 1..(n - 1) : time(j) <= time(j + 1)
    BY <1>2, <2>5, TimesRise
  <2>7. \A j \in 1..n : j \in Anchors(points) => time(j) = points[j].t
    BY <1>2, <2>5, TimeOfCases
  <2> HIDE DEF time
  <2>8. \A j \in 1..n : filled[j] \in DraftPoints /\ filled[j].t = time(j)
    <3> TAKE j \in 1..n
    <3>1. filled[j] = [points[j] EXCEPT !.t = time(j)]
      BY DEF filled
    <3>2. points[j] \in DraftPoints /\ time(j) \in Int
      BY <1>2, <2>6
    <3> QED
      BY <3>1, <3>2 DEF DraftPoints
  <2>9. filled \in Seq(DraftPoints) /\ Len(filled) = n /\ DOMAIN filled = 1..n
    <3>1. filled \in [1..n -> DraftPoints]
      BY <2>8 DEF filled
    <3>2. filled \in Seq(DraftPoints)
      BY <1>1, <3>1, SeqDef, SMTT(30)
    <3> QED
      BY <1>1, <3>1, <3>2
  <2>10. timed \in Drafts
    <3>1. timed = [points |-> filled, breaks |-> draft.breaks]
      BY <2>2
    <3> QED
      BY <1>1, <2>9, <3>1 DEF Drafts
  <2> DEFINE segments == SegmentsOf(timed)
  <2>11. segments \in Seq(SegmentShape) /\ SegmentsCover(n, segments)
    <3>1. timed.points # << >>
      BY <1>1, <2>3, <2>4, <2>9
    <3>2. \A k \in DOMAIN timed.breaks : timed.breaks[k] \in 2..Len(timed.points)
      BY <2>3, <2>9
    <3>3. \A i \in 1..Len(timed.points) : timed.points[i].t \in Int
      BY <2>3, <2>6, <2>8, <2>9
    <3> QED
      BY <2>3, <2>9, <2>10, <3>1, <3>2, <3>3, SegmentsOfDraft
  <2> HIDE DEF segments
  <2>12. UntimedIn(timed) = {}
    BY <2>3, <2>6, <2>8, <2>9, TrackMakingAssumption DEF UntimedIn
  <2>13. SegmentRanges(filled, segments)
    <3>1. \A i \in 1..Len(segments) :
            /\ segments[i].startIndex \in 1..n /\ segments[i].endIndex \in 1..n
            /\ segments[i].startIndex <= segments[i].endIndex
            /\ i > 1 => segments[i].startIndex = segments[i - 1].endIndex + 1
      BY <2>11 DEF SegmentsCover
    <3>2. \A i \in 1..Len(segments) : i > 1 => i - 1 \in 1..Len(segments)
      BY <2>11
    <3>3. \A i \in 1..Len(segments) : i > 1 => segments[i].startIndex > segments[i - 1].endIndex
      BY <3>1, <3>2
    <3> QED
      BY <1>1, <2>9, <3>1, <3>3 DEF SegmentRanges
  <2>14. SegmentsCoverPoints(filled, segments)
    <3>1. \A i \in 2..Len(segments) : i \in 1..Len(segments) /\ i > 1
      BY <2>11
    <3> QED
      BY <2>9, <2>11, <3>1 DEF SegmentsCoverPoints, SegmentsCover
  <2>15. TemporalOrder(filled)
    <3>1. \A i \in 1..(n - 1) : i \in 1..n /\ i + 1 \in 1..n
      BY <1>1
    <3> QED
      BY <2>6, <2>8, <2>9, <3>1 DEF TemporalOrder
  <2>16. LapRanges(filled, << >>)
    BY DEF LapRanges
  <2>17. ToTrack(timed) = FinalizeTrack(filled, segments, << >>)
    BY <2>3, <2>12, <2>13, <2>14, <2>15, <2>16 DEF ToTrack, ValidTrackGeometry, segments
  <2>18. FinalizeTrack(filled, segments, << >>) \in DraftTracks
    BY <2>9, <2>11 DEF FinalizeTrack, DraftTracks, SegmentShape
  <2>19. ToTrack(timed) # Rejected
    BY <2>17, <2>18, TrackMakingAssumption
  <2>20. \A i \in DOMAIN draft.points :
           draft.points[i].t # Untimed => timed.points[i].t = draft.points[i].t
    <3> TAKE i \in DOMAIN draft.points
    <3>1. i \in 1..n
      BY <1>1
    <3>2. draft.points[i].t # Untimed => points[i].t = draft.points[i].t /\ i \in Anchors(points)
      BY <1>2, <3>1 DEF Anchors
    <3> QED
      BY <2>3, <2>7, <2>8, <3>1, <3>2
  <2> QED
    BY <2>1, <2>19, <2>20 DEF PausesAnchored
<1> QED
  BY <1>4, <1>5

-----------------------------------------------------------------------------
(* What the run asks of them.                                              *)

LEMMA SequencesAreSequences ==
  ASSUME NEW S, NEW n \in Nat
  PROVE  Sequences(S, n) \subseteq Seq(S)
<1> SUFFICES ASSUME NEW k \in 0..n, NEW s \in [1..k -> S] PROVE s \in Seq(S)
  BY DEF Sequences
<1>1. k \in Nat
  OBVIOUS
<1> QED
  BY <1>1, SeqDef

LEMMA CutsAreSequences ==
  ASSUME NEW n \in Nat, NEW cut \in Cuts(n)
  PROVE  cut \in Seq(2..n) /\ \A i, j \in DOMAIN cut : i < j => cut[i] < cut[j]
<1> DEFINE each == [i \in 1..n |-> i]
<1>1. PICK places \in SUBSET (2..n) : cut = Picked(each, places)
  BY DEF Cuts
<1>2. PICK p : PickedBy(p, each, places)
  <2>1. places \in SUBSET (1..n)
    OBVIOUS
  <2> QED
    BY <2>1, PickedOf
<1> DEFINE size == Cardinality(places)
<1>3. /\ size \in Nat /\ p \in [1..size -> places] /\ cut = [k \in 1..size |-> each[p[k]]]
      /\ \A i, j \in 1..size : i < j => p[i] < p[j]
  BY <1>1, <1>2 DEF PickedBy, Rising
<1> HIDE DEF size
<1>4. \A k \in 1..size : p[k] \in 2..n /\ cut[k] = p[k]
  <2>1. \A k \in 1..size : p[k] \in places /\ p[k] \in 2..n /\ p[k] \in 1..n
    <3>1. \A x \in places : x \in 2..n /\ x \in 1..n
      OBVIOUS
    <3>2. \A k \in 1..size : p[k] \in places
      BY <1>3
    <3> QED
      BY <3>1, <3>2
  <2> QED
    BY <1>3, <2>1
<1>5. cut \in [1..size -> 2..n]
  <2>1. DOMAIN cut = 1..size /\ cut = [k \in 1..size |-> cut[k]]
    BY <1>3
  <2> HIDE DEF each
  <2> QED
    BY <1>4, <2>1
<1>6. cut \in Seq(2..n)
  BY <1>3, <1>5, SeqDef
<1> QED
  BY <1>3, <1>4, <1>5, <1>6

LEMMA DraftsAsked ==
  ASSUME NEW n \in Nat, NEW places \in SUBSET Int, NEW times \in SUBSET (Int \cup {Untimed}),
         NEW draft \in DraftsOf(n, places, times)
  PROVE  draft \in Drafts /\ \A k \in DOMAIN draft.breaks : draft.breaks[k] \in 2..Len(draft.points)
<1>1. PICK place \in [1..n -> places], t \in [1..n -> times], cut \in Cuts(n) :
        draft = [points |-> [i \in 1..n |-> [place |-> place[i], t |-> t[i]]], breaks |-> cut]
  BY DEF DraftsOf
<1> DEFINE points == [i \in 1..n |-> [place |-> place[i], t |-> t[i]]]
<1>2. points \in Seq(DraftPoints) /\ Len(points) = n
  <2>1. \A i \in 1..n : [place |-> place[i], t |-> t[i]] \in DraftPoints
    BY DEF DraftPoints
  <2>2. points \in [1..n -> DraftPoints]
    BY <2>1
  <2>3. points \in Seq(DraftPoints)
    BY <2>2, SeqDef
  <2> QED
    BY <2>2, <2>3
<1>3. cut \in Seq(2..n) /\ cut \in Seq(Nat)
  <2>1. cut \in Seq(2..n)
    BY CutsAreSequences
  <2> QED
    BY <2>1
<1>4. draft.points = points /\ draft.breaks = cut /\ draft = [points |-> points, breaks |-> cut]
  BY <1>1
<1> HIDE DEF points
<1> QED
  BY <1>2, <1>3, <1>4 DEF Drafts

(* Each question, and what it is answered.                                 *)
LEMMA FixesAnswered ==
  ASSUME AskFixes PROVE TrackIsMadeRight'
<1>1. PICK fixes \in Sequences([t : 0..2, place : 0..2, accuracyM : {Unset, 1, 2}], 3) :
        question' = [about |-> "fixes", fixes |-> fixes]
  BY DEF AskFixes
<1>2. fixes \in Seq(Fixes)
  <2>1. fixes \in Seq([t : 0..2, place : 0..2, accuracyM : {Unset, 1, 2}])
    BY SequencesAreSequences
  <2>2. [t : 0..2, place : 0..2, accuracyM : {Unset, 1, 2}] \subseteq Fixes
    BY DEF Fixes
  <2> QED
    BY <2>1, <2>2, SeqMonotonic
<1>3. SamplingPolicy \in Policies
  BY DEF SamplingPolicy, Policies
<1>4. TrackIsFaithful(fixes, SamplingPolicy)
  BY <1>2, <1>3, SampledTrackIsFaithful
<1>5. question'.about = "fixes" /\ question'.fixes = fixes
  BY <1>1
<1> QED
  BY <1>4, <1>5 DEF TrackIsMadeRight

LEMMA SamplesAnswered ==
  ASSUME AskSamples PROVE TrackIsMadeRight'
<1>1. PICK samples \in Sequences([t : 0..2, values : Readings], 3), reduce \in {"last", "min", "max", "avg"} :
        question' = [about |-> "samples", samples |-> samples,
                     policy |-> [maxAgeMs |-> 1, reduce |-> reduce]]
  BY DEF AskSamples
<1> DEFINE T == [t : 0..2, values : Readings]
           policy == [maxAgeMs |-> 1, reduce |-> reduce]
<1>2. samples \in Seq(T)
  BY SequencesAreSequences
<1>3. \A i \in 1..Len(samples) : samples[i].t \in Int
  <2>1. \A s \in T : s.t \in Int
    OBVIOUS
  <2> HIDE DEF T
  <2>2. \A i \in 1..Len(samples) : samples[i] \in T
    BY <1>2, ElementOfSeq
  <2> QED
    BY <2>1, <2>2
<1>4. policy.maxAgeMs \in Int
  OBVIOUS
<1> HIDE DEF T
<1>5. \A t \in 1..2 : MergedAtItsTime(samples, t, policy)
  BY <1>2, <1>3, <1>4, SamplesMergedAtTheirTime
<1>6. question'.about = "samples" /\ question'.samples = samples /\ question'.policy = policy
  BY <1>1
<1> QED
  BY <1>5, <1>6 DEF TrackIsMadeRight

LEMMA ChannelsAnswered ==
  ASSUME AskChannels PROVE TrackIsMadeRight'
<1>1. PICK trip \in Sequences(Channels, 2), one \in Sequences(Channels, 2), other \in Sequences(Channels, 1) :
        /\ Len(trip) = 2 => trip[1].key # trip[2].key
        /\ question' = [about |-> "channels", restored |-> trip, sensors |-> <<one, other>>]
  BY DEF AskChannels
<1> DEFINE K == {1, 2}
           U == {"m", "s"}
           A == {Unset, "avg"}
           sensors == <<one, other>>
<1>2. Channels = Channel(K, U, A)
  BY DEF Channels, Channel
<1>3. trip \in Seq(Channels) /\ one \in Seq(Channels) /\ other \in Seq(Channels) /\ Len(trip) <= 2
  <2>1. trip \in Seq(Channels) /\ one \in Seq(Channels) /\ other \in Seq(Channels)
    BY SequencesAreSequences
  <2>2. PICK k \in 0..2 : trip \in [1..k -> Channels]
    BY DEF Sequences
  <2>3. Len(trip) = k
    BY <2>1, <2>2
  <2> QED
    BY <2>1, <2>3
<1>4. sensors \in Seq(Seq(Channels))
  BY <1>3
<1>5. DistinctKeys(trip)
  <2>1. DOMAIN trip = 1..Len(trip) /\ Len(trip) \in 0..2
    <3>1. DOMAIN trip = 1..Len(trip) /\ Len(trip) \in Nat
      BY <1>3, LenProperties
    <3> QED
      BY <1>3, <3>1
  <2>2. \A m, n \in DOMAIN trip : m # n => Len(trip) = 2 /\ ((m = 1 /\ n = 2) \/ (m = 2 /\ n = 1))
    BY <2>1
  <2> QED
    BY <1>1, <2>2 DEF DistinctKeys
<1> HIDE DEF K, U, A, sensors
<1>6. ChannelsKeepTheirMeaning(trip, sensors)
  BY <1>2, <1>3, <1>4, <1>5, ChannelsAssumption, ResumedChannelsKeepTheirMeaning
<1>7. question'.about = "channels" /\ question'.restored = trip /\ question'.sensors = sensors
  BY <1>1 DEF sensors
<1> QED
  BY <1>6, <1>7 DEF TrackIsMadeRight

LEMMA DraftAnswered ==
  ASSUME AskDraft PROVE TrackIsMadeRight'
<1>1. PICK draft \in (UNION {DraftsOf(n, {0, 1, 3}, {Untimed, 10, 20, 25}) : n \in 0..3})
                       \cup DraftsOf(4, {0, 1}, {Untimed, 10, 25}) :
        question' = [about |-> "draft", draft |-> draft]
  BY DEF AskDraft
<1>2. draft \in Drafts /\ \A k \in DOMAIN draft.breaks : draft.breaks[k] \in 2..Len(draft.points)
  <2>1. CASE draft \in DraftsOf(4, {0, 1}, {Untimed, 10, 25})
    <3>1. 4 \in Nat /\ {0, 1} \in SUBSET Int /\ {Untimed, 10, 25} \in SUBSET (Int \cup {Untimed})
      OBVIOUS
    <3> QED
      BY <2>1, <3>1, DraftsAsked
  <2>2. CASE draft \in UNION {DraftsOf(n, {0, 1, 3}, {Untimed, 10, 20, 25}) : n \in 0..3}
    <3>1. PICK n \in 0..3 : draft \in DraftsOf(n, {0, 1, 3}, {Untimed, 10, 20, 25})
      BY <2>2
    <3>2. n \in Nat /\ {0, 1, 3} \in SUBSET Int /\ {Untimed, 10, 20, 25} \in SUBSET (Int \cup {Untimed})
      OBVIOUS
    <3> QED
      BY <3>1, <3>2, DraftsAsked
  <2> QED
    BY <1>1, <2>1, <2>2
<1>3. ASSUME NEW options \in Options
      PROVE  InterpolatedDraftIsATrack(draft, options)
  <2>1. PICK endedAt \in {Untimed, 5, 23}, speedMps \in {Untimed, 400} :
          options = [startedAt |-> 10, endedAt |-> endedAt, speedMps |-> speedMps]
    BY DEF Options
  <2>2. options.startedAt \in Int /\ options.endedAt \in Int \cup {Untimed} /\ options.speedMps \in Int \cup {Untimed}
    BY <2>1
  <2> QED
    BY <1>2, <2>2, InterpolatedDraftsAreTracks
<1>4. question'.about = "draft" /\ question'.draft = draft
  BY <1>1
<1> QED
  BY <1>3, <1>4 DEF TrackIsMadeRight

(* The other questions are of other things.                                *)
LEMMA OtherwiseAsked ==
  ASSUME AskTrack \/ AskChart \/ AskTrip \/ AskDocument \/ AskForm \/ AskRegions
  PROVE  TrackIsMadeRight'
<1>1. question'.about \in {"track", "chart", "trip", "document", "form", "regions"}
  <2>1. AskTrack => question'.about = "track"
    BY DEF AskTrack
  <2>2. AskChart => question'.about = "chart"
    BY DEF AskChart
  <2>3. AskTrip => question'.about = "trip"
    BY DEF AskTrip
  <2>4. AskDocument => question'.about = "document"
    BY DEF AskDocument
  <2>5. AskForm => question'.about = "form"
    BY DEF AskForm
  <2>6. AskRegions => question'.about = "regions"
    BY DEF AskRegions
  <2> QED
    BY <2>1, <2>2, <2>3, <2>4, <2>5, <2>6
<1> QED
  BY <1>1 DEF TrackIsMadeRight

(* A track is made right of whatever the run asks: of its fixes, samples,  *)
(* channels and drafts.                                                    *)
THEOREM TracksAreMadeRight == Spec => []TrackIsMadeRight
<1>1. Init => TrackIsMadeRight
  BY DEF Init, NoQuestion, TrackIsMadeRight
<1>2. TrackIsMadeRight /\ [Next]_allVars => TrackIsMadeRight'
  <2> SUFFICES ASSUME TrackIsMadeRight, [Next]_allVars PROVE TrackIsMadeRight'
    OBVIOUS
  <2>1. CASE question' = question
    BY <2>1 DEF TrackIsMadeRight
  <2>2. CASE Ask
    BY <2>2, FixesAnswered, SamplesAnswered, ChannelsAnswered, DraftAnswered, OtherwiseAsked DEF Ask
  <2>3. Ask \/ question' = question
    BY DEF Next, allVars
  <2> QED
    BY <2>1, <2>2, <2>3
<1> QED
  BY <1>1, <1>2, PTL DEF Spec
=============================================================================
