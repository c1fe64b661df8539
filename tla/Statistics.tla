------------------------------ MODULE Statistics ------------------------------
(***************************************************************************)
(* The two loops of packages/core/src over one run of points, each a       *)
(* machine that takes one round per step, so that a run of any length is a *)
(* behaviour: elevationChange (stats.ts), gain and loss of a run of        *)
(* altitudes under a deadband, and simplify (simplify.ts),                 *)
(* Ramer-Douglas-Peucker with an explicit stack.                           *)
(***************************************************************************)
EXTENDS Integers, Sequences

(***************************************************************************)
(* elevationChange.  What the function would return had the run ended is   *)
(* GainM and LossM.  `first`, `last`, `climbed` and `descended` record the *)
(* run itself: where it began and stands, and the sum of its rises and of  *)
(* its falls.                                                              *)
(***************************************************************************)

CONSTANTS HysteresisM,
          Altitudes,     \* bound: the altitudes a run has
          MaxTravel      \* bound: rises and falls of a run, in all

ASSUME ElevationAssumption ==
  HysteresisM \in Nat /\ Altitudes \subseteq Int /\ MaxTravel \in Nat

VARIABLES
  trend,      \* [anchor, direction, extreme, highest, lowest]
  gain, loss, \* legs banked
  first, last, climbed, descended

elevationVars == <<trend, gain, loss, first, last, climbed, descended>>

StartAt(altitude) ==
  [anchor |-> altitude, direction |-> "unknown", extreme |-> altitude,
   highest |-> altitude, lowest |-> altitude]

ElevationInit ==
  /\ first \in Altitudes /\ last = first
  /\ trend = StartAt(first)
  /\ gain = 0 /\ loss = 0
  /\ climbed = 0 /\ descended = 0

-----------------------------------------------------------------------------
Higher(a, b) == IF a > b THEN a ELSE b
Lower(a, b) == IF a < b THEN a ELSE b

(* A rise or a fall that is a trend and no oscillation.                    *)
Confirmed(rise) == rise >= HysteresisM /\ rise > 0

(* The run goes on: what is recorded of it.                                *)
Travel(altitude) ==
  /\ last' = altitude
  /\ climbed' = climbed + Higher(altitude - last, 0)
  /\ descended' = descended + Higher(last - altitude, 0)
  /\ climbed' + descended' <= MaxTravel
  /\ UNCHANGED first

(* No leg is confirmed yet: both extremes are candidates.                  *)
FindDirection(altitude) ==
  /\ trend.direction = "unknown"
  /\ LET highest == Higher(trend.highest, altitude)
         lowest == Lower(trend.lowest, altitude)
         seen == [trend EXCEPT !.highest = highest, !.lowest = lowest]
     IN trend' = IF Confirmed(highest - trend.anchor)
                   THEN [seen EXCEPT !.direction = "up", !.extreme = highest]
                 ELSE IF Confirmed(trend.anchor - lowest)
                   THEN [seen EXCEPT !.direction = "down", !.extreme = lowest]
                 ELSE seen
  /\ UNCHANGED <<gain, loss>>

(* Further in the direction of the leg, or not far enough back to end it.  *)
FollowUp(altitude) ==
  /\ trend.direction = "up"
  /\ ~Confirmed(trend.extreme - altitude)
  /\ trend' = [trend EXCEPT !.extreme = Higher(@, altitude)]
  /\ UNCHANGED <<gain, loss>>

FollowDown(altitude) ==
  /\ trend.direction = "down"
  /\ ~Confirmed(altitude - trend.extreme)
  /\ trend' = [trend EXCEPT !.extreme = Lower(@, altitude)]
  /\ UNCHANGED <<gain, loss>>

(* Mutated: the new leg is measured from where the reversal was noticed.   *)
TurnedLate(direction, altitude) ==
  [trend EXCEPT !.anchor = altitude, !.direction = direction, !.extreme = altitude]

Turned(direction, altitude) ==
  [trend EXCEPT !.anchor = trend.extreme, !.direction = direction, !.extreme = altitude]

(* A confirmed reversal banks the leg that ended at the extreme.           *)
TurnDown(altitude) ==
  /\ trend.direction = "up"
  /\ Confirmed(trend.extreme - altitude)
  /\ gain' = gain + (trend.extreme - trend.anchor)
  /\ trend' = Turned("down", altitude)
  /\ UNCHANGED loss

TurnUp(altitude) ==
  /\ trend.direction = "down"
  /\ Confirmed(altitude - trend.extreme)
  /\ loss' = loss + (trend.anchor - trend.extreme)
  /\ trend' = Turned("up", altitude)
  /\ UNCHANGED gain

(* The leg in progress is flushed when the run ends.                       *)
GainM == IF trend.direction = "up" THEN gain + (trend.extreme - trend.anchor) ELSE gain
LossM == IF trend.direction = "down" THEN loss + (trend.anchor - trend.extreme) ELSE loss

ElevationNext ==
  \E altitude \in Altitudes :
    /\ Travel(altitude)
    /\ \/ FindDirection(altitude)
       \/ FollowUp(altitude) \/ TurnDown(altitude)
       \/ FollowDown(altitude) \/ TurnUp(altitude)

ElevationSpec == ElevationInit /\ [][ElevationNext]_elevationVars

-----------------------------------------------------------------------------
(* Properties.                                                             *)

(* Less than what the deadband tells from noise.                           *)
BelowDeadband(difference) ==
  difference = 0 \/ (difference < HysteresisM /\ -difference < HysteresisM)

(* The figures a trip is shown with: oscillation below the deadband never  *)
(* adds up, whatever its length -- gain less loss is how much higher the   *)
(* run ended than it began, to within one deadband -- and neither figure   *)
(* is more than what was really climbed or descended.                      *)
ElevationHonest ==
  /\ BelowDeadband((GainM - LossM) - (last - first))
  /\ 0 <= GainM /\ GainM <= climbed
  /\ 0 <= LossM /\ LossM <= descended

-----------------------------------------------------------------------------
(***************************************************************************)
(* simplify: one span popped per step.  How far a point lies from the line *)
(* between two others is what perpendicularDistanceM computes; here it is  *)
(* any function, so that what is shown owes nothing to the geometry.       *)
(***************************************************************************)

CONSTANTS Count,       \* points of the run, numbered from 1
          FarthestM,   \* no two points are further apart
          Distances,   \* bound: distances there are
          ToleranceM

ASSUME SimplifyAssumption ==
  /\ Count \in Nat /\ Count > 2
  /\ FarthestM \in Nat /\ Distances \subseteq 0..FarthestM
  /\ ToleranceM \in Nat

VARIABLES
  distance,   \* [<<point, first, last>> -> metres from the point to the span]
  keep,       \* the points that survive
  stack       \* spans to look at, the last one first: <<first, last>>

simplifyVars == <<distance, keep, stack>>

Points == 1..Count
Inside(span) == (span[1] + 1)..(span[2] - 1)
Asked == {ask \in Points \X Points \X Points : ask[2] < ask[1] /\ ask[1] < ask[3]}

SimplifyInit ==
  /\ distance \in [Asked -> Distances]
  /\ keep = {1, Count}
  /\ stack = << <<1, Count>> >>

-----------------------------------------------------------------------------
Off(i, span) == distance[<<i, span[1], span[2]>>]
Top == stack[Len(stack)]
Popped == SubSeq(stack, 1, Len(stack) - 1)

(* Mutated: a span of three points has nothing to decide.                  *)
SplitsWide(i, span) ==
  /\ span[2] > span[1] + 2
  /\ i \in Inside(span) /\ Off(i, span) > ToleranceM
  /\ \A j \in Inside(span) : Off(j, span) <= Off(i, span) /\ (j < i => Off(j, span) < Off(i, span))

(* The first of the furthest points, when it is off by too much.           *)
Splits(i, span) ==
  /\ i \in Inside(span) /\ Off(i, span) > ToleranceM
  /\ \A j \in Inside(span) : Off(j, span) <= Off(i, span) /\ (j < i => Off(j, span) < Off(i, span))

SplitSpan ==
  /\ stack # << >>
  /\ \E i \in Points :
       /\ Splits(i, Top)
       /\ keep' = keep \cup {i}
       /\ stack' = Popped \o << <<Top[1], i>>, <<i, Top[2]>> >>
  /\ UNCHANGED distance

CloseSpan ==
  /\ stack # << >>
  /\ \A i \in Points : ~Splits(i, Top)
  /\ stack' = Popped
  /\ UNCHANGED <<distance, keep>>

SimplifyNext == SplitSpan \/ CloseSpan

SimplifySpec == SimplifyInit /\ [][SimplifyNext]_simplifyVars

-----------------------------------------------------------------------------
(* Properties.                                                             *)

(* Two survivors the returned line joins.                                  *)
Joined(a, b) ==
  a \in keep /\ b \in keep /\ a < b /\ \A i \in Inside(<<a, b>>) : i \notin keep

(* "Every point that is dropped is guaranteed to lie within toleranceM of  *)
(* the returned polyline", whose ends are those of the run.                *)
SimplifyWithin ==
  stack = << >> =>
    /\ {1, Count} \subseteq keep
    /\ \A a, b \in Points : Joined(a, b) =>
         \A i \in Inside(<<a, b>>) : Off(i, <<a, b>>) <= ToleranceM
=============================================================================
