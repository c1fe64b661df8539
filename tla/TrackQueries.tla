------------------------------ MODULE TrackQueries ------------------------------
(***************************************************************************)
(* What packages/core answers about a finished track: where it was at a    *)
(* moment (position-at.ts) and how much of it there is (stats.ts), for the *)
(* track and for its laps; what packages/maplibre makes of it for the map  *)
(* (track-geojson.ts); and what the trip review of packages/react shows of *)
(* it beside the map: a marker and charts under one cursor, and durations. *)
(*                                                                         *)
(* Places lie on a line: a point's `place` is a whole number and a leg is  *)
(* the distance between two.  A place between two points is a fraction,    *)
(* [num, den].  Elevation is in Statistics; here are the runs of          *)
(* altitudes it is given.                                                  *)
(***************************************************************************)
EXTENDS TrackData, Sequencing, FiniteSetsExt, SequencesExt

CONSTANT Absent   \* a field that is not there

ASSUME TrackQueriesAssumption ==
  Absent \notin Int \cup [west : Int, east : Int] \cup [num : Int, den : Int]

-----------------------------------------------------------------------------
(* positionAt.                                                             *)

(* Mutated: at a boundary instant the earlier segment answers.             *)
EarliestSegment(track, t) ==
  Min({s \in DOMAIN track.segments : t >= track.points[track.segments[s].startIndex].t})

(* Later segments first: at a boundary instant the next one has begun.     *)
OwningSegment(track, t) ==
  Max({s \in DOMAIN track.segments : t >= track.points[track.segments[s].startIndex].t})

(* The last sample of a segment at or before t, and the way to the next.   *)
Within(points, segment, t) ==
  LET index == Max({segment.startIndex} \cup
                   {i \in segment.startIndex..segment.endIndex : points[i].t <= t})
      at == points[index]
      next == points[index + 1]
  IN IF at.t = t \/ index = Len(points) \/ index >= segment.endIndex
       THEN [num |-> at.place, den |-> 1]
       ELSE [num |-> at.place * (next.t - at.t) + (next.place - at.place) * (t - at.t),
             den |-> next.t - at.t]

PositionAt(track, t) ==
  LET count == Len(track.points)
  IN IF count = 0 THEN Absent
     ELSE IF t < track.points[1].t \/ t > track.points[count].t THEN Absent
     ELSE Within(track.points, track.segments[OwningSegment(track, t)], t)

-----------------------------------------------------------------------------
(* computeStats.                                                           *)

Apart(a, b) == IF a > b THEN a - b ELSE b - a
LegM(track, i) == Apart(track.points[i].place, track.points[i - 1].place)
LegMs(track, i) == track.points[i].t - track.points[i - 1].t

(* The legs that were travelled, each named by the point it leads to.      *)
Legs(track) ==
  UNION {(track.segments[s].startIndex + 1)..track.segments[s].endIndex :
           s \in DOMAIN track.segments}

(* The sum of a measure over some of the first n places.                   *)
Total(places, n, of) == SumOver([i \in 1..n |-> IF i \in places THEN of[i] ELSE 0], 0, n)

(* rollUpChannel, and the extremes of any measure.                         *)
RollUp(values) ==
  [min |-> Min(ToSet(values)), max |-> Max(ToSet(values)), count |-> Len(values),
   sum |-> SumOver(values, 0, Len(values)), last |-> Last(values)]

(* The altitudes of one segment, as elevationChange is given them.         *)
AltitudesOf(track, segment) ==
  LET all == [i \in 1..(segment.endIndex - segment.startIndex + 1) |->
                track.points[segment.startIndex + i - 1].altitudeM]
  IN Picked(all, {i \in DOMAIN all : all[i] # Absent})

(* Legs whose fixes share a millisecond have no speed.                     *)
Timed(track) == {i \in Legs(track) : LegMs(track, i) > 0}

(* The fastest legs; a speed is a leg, as metres over milliseconds.        *)
Fastest(track) ==
  {i \in Timed(track) : \A j \in Timed(track) :
     LegM(track, i) * LegMs(track, j) >= LegM(track, j) * LegMs(track, i)}

ComputeStats(track) ==
  LET count == Len(track.points)
      altitudes == FlattenSeq([s \in DOMAIN track.segments |-> AltitudesOf(track, track.segments[s])])
      moving == [s \in DOMAIN track.segments |-> track.points[track.segments[s].endIndex].t
                                                  - track.points[track.segments[s].startIndex].t]
  IN [distanceM |-> Total(Legs(track), count, [i \in 2..count |-> LegM(track, i)]),
      durationMs |-> IF count = 0 THEN 0 ELSE track.points[count].t - track.points[1].t,
      movingTimeMs |-> SumOver(moving, 0, Len(moving)),
      fastest |-> Fastest(track),
      altitudes |-> IF altitudes = << >> THEN Absent ELSE RollUp(altitudes)]

-----------------------------------------------------------------------------
(* computeLapStats: the track's segments clipped to the lap and rebased.   *)

Later(i, j) == IF i > j THEN i ELSE j
Earlier(i, j) == IF i < j THEN i ELSE j

Clipped(track, lap) ==
  LET clip(segment) ==
        [segment EXCEPT !.startIndex = Later(@, lap.startIndex) - lap.startIndex + 1,
                        !.endIndex = Earlier(@, lap.endIndex) - lap.startIndex + 1]
      all == [s \in DOMAIN track.segments |-> clip(track.segments[s])]
  IN [points |-> SubSeq(track.points, lap.startIndex, lap.endIndex),
      segments |-> Picked(all, {s \in DOMAIN all : all[s].endIndex >= all[s].startIndex})]

ComputeLapStats(track, lap) == ComputeStats(Clipped(track, lap))

-----------------------------------------------------------------------------
(* On the map.  `simplified` has the points kept of each segment, or is    *)
(* Absent: a cache.                                                        *)

SegmentGeometry(track, s) ==
  IF track.simplified # Absent THEN track.simplified[s]
  ELSE SubSeq(track.points, track.segments[s].startIndex, track.segments[s].endIndex)

(* A lone point makes no line.                                             *)
BuildTrackLineFeatures(track) ==
  {[segmentId |-> track.segments[s].id, line |-> SegmentGeometry(track, s)] :
     s \in {s \in DOMAIN track.segments : Len(SegmentGeometry(track, s)) >= 2}}

(* From the points, not from the cache; a lone point is marked once.       *)
BuildTrackEndpointFeatures(track) ==
  {[kind |-> "start", at |-> track.points[i]] : i \in DOMAIN track.points \cap {1}}
    \cup {[kind |-> "finish", at |-> track.points[i]] :
            i \in (DOMAIN track.points \ {1}) \cap {Len(track.points)}}

BuildLapFeatures(track, laps) ==
  {[lap |-> lap, at |-> track.points[lap.endIndex]] :
     lap \in {lap \in laps : lap.endIndex \in DOMAIN track.points}}

TrackBounds(track) ==
  LET places == {track.points[i].place : i \in DOMAIN track.points}
  IN IF places = {} THEN Absent ELSE [west |-> Min(places), east |-> Max(places)]

(* The camera stays where it is for a track of no points.                  *)
FitTrack(track, camera) ==
  IF TrackBounds(track) = Absent THEN camera ELSE TrackBounds(track)

-----------------------------------------------------------------------------
(* In the review.  A point's `channels` say what was read there.           *)

Marker(track, cursor) == IF cursor = Absent THEN Absent ELSE PositionAt(track, cursor)

Carried(track, key) == {i \in DOMAIN track.points : track.points[i].channels[key] # Absent}

(* A descriptor has a key, and may set the ends of its scale.              *)
Chartable(track, declared, requested) ==
  Picked(declared, {c \in DOMAIN declared : /\ requested = Absent \/ declared[c].key \in requested
                                            /\ Carried(track, declared[c].key) # {}})

(* Along the width of the chart, and up its height.                        *)
Part(from, to, value, degenerate) ==
  IF to = from THEN degenerate ELSE [num |-> value - from, den |-> to - from]

ChannelChart(track, descriptor, cursor) ==
  LET carried == Carried(track, descriptor.key)
      value(i) == track.points[i].channels[descriptor.key]
      t0 == track.points[Min(carried)].t
      t1 == track.points[Max(carried)].t
      lo == IF descriptor.min = Absent THEN Min({value(i) : i \in carried}) ELSE descriptor.min
      hi == IF descriptor.max = Absent THEN Max({value(i) : i \in carried}) ELSE descriptor.max
      x(t) == Part(t0, t1, t, [num |-> 0, den |-> 1])
      sample(i) == [x |-> x(track.points[i].t), y |-> Part(lo, hi, value(i), [num |-> 1, den |-> 2])]
      samples == [i \in DOMAIN track.points |-> sample(i)]
      line(segment) == Picked(samples, carried \cap (segment.startIndex..segment.endIndex))
      lines == [s \in DOMAIN track.segments |-> line(track.segments[s])]
  IN [lines |-> Picked(lines, {s \in DOMAIN lines : lines[s] # << >>}),
      cursor |-> IF cursor = Absent THEN Absent
                 ELSE IF cursor < t0 \/ cursor > t1 THEN Absent ELSE x(cursor)]

ChannelCharts(track, declared, requested, cursor) ==
  LET charts == Chartable(track, declared, requested)
  IN [c \in DOMAIN charts |-> ChannelChart(track, charts[c], cursor)]

(* Rounded to the second before it is cut into hours and minutes.          *)
FormatDuration(ms) ==
  LET total == Later(0, (ms + 500) \div 1000)
  IN [h |-> total \div 3600, m |-> (total % 3600) \div 60, s |-> total % 60]

StatsPanel(stats) ==
  [duration |-> FormatDuration(stats.durationMs), moving |-> FormatDuration(stats.movingTimeMs)]

-----------------------------------------------------------------------------
(* Properties, of the answers.                                             *)

(* positionAt: the last point observed by then is the only one that may    *)
(* answer, whatever segment it is in; on the way from it to a later point  *)
(* of the same segment, the place lies between the two; over a pause, it   *)
(* is where the recording stopped; outside the trip there is none.         *)
PositionIsObserved(track, t) ==
  LET answer == PositionAt(track, t)
      seen == {i \in DOMAIN track.points : track.points[i].t <= t}
      ahead == {i \in DOMAIN track.points : track.points[i].t >= t}
      at == track.points[Max(seen)]
      next == track.points[Max(seen) + 1]
      paused == \E s \in DOMAIN track.segments : track.segments[s].endIndex = Max(seen)
  IN IF seen = {} \/ ahead = {} THEN answer = Absent
     ELSE IF at.t = t \/ paused THEN answer = [num |-> at.place, den |-> 1]
     ELSE /\ answer.den > 0
          /\ (answer.num - at.place * answer.den) * (next.t - at.t)
               = (next.place - at.place) * (t - at.t) * answer.den

(* computeStats and computeLapStats: a pause is neither travelled nor      *)
(* moved through -- distance and moving time are those from point to point *)
(* less those of the gaps between segments -- and two laps that share a    *)
(* point add up to the lap over both, wherever the pauses lie.             *)
LapsAddUp(track, first, middle, last) ==
  LET lap(i, j) == ComputeLapStats(track, [startIndex |-> i, endIndex |-> j])
      whole == lap(first, last)
      gaps == {s \in 2..Len(track.segments) :
                 first < track.segments[s].startIndex /\ track.segments[s].startIndex <= last}
      gapsM == [s \in gaps |-> LegM(track, track.segments[s].startIndex)]
      gapsMs == [s \in gaps |-> LegMs(track, track.segments[s].startIndex)]
      sum(a, b) == [distanceM |-> a.distanceM + b.distanceM,
                    durationMs |-> a.durationMs + b.durationMs,
                    movingTimeMs |-> a.movingTimeMs + b.movingTimeMs]
      parts == sum(lap(first, middle), lap(middle, last))
  IN /\ whole.distanceM = SumOver([i \in (first + 1)..last |-> LegM(track, i)], first, last)
                            - Total(gaps, Len(track.segments), gapsM)
     /\ parts = [distanceM |-> whole.distanceM, durationMs |-> whole.durationMs,
                 movingTimeMs |-> whole.movingTimeMs]
     /\ whole.movingTimeMs = whole.durationMs - Total(gaps, Len(track.segments), gapsMs)
     /\ first = 1 /\ last = Len(track.points) => whole = ComputeStats(track)

(* buildTrackLineFeatures, buildTrackEndpointFeatures, buildLapFeatures,   *)
(* trackBounds: with or without the cache, every line begins and ends      *)
(* where its segment does and keeps to its points, none crosses a pause;   *)
(* a point no line touches is the end of one or a segment of one point;    *)
(* the frame holds every line and every mark and no more than the points.  *)
MapShowsTheTrack(track, laps, elsewhere) ==
  LET drawn == BuildTrackLineFeatures(track)
      marks == BuildTrackEndpointFeatures(track) \cup BuildLapFeatures(track, laps)
      frame == FitTrack(track, elsewhere)
      ofSegment(s) == {f \in drawn : f.segmentId = track.segments[s].id}
  IN /\ \A s \in DOMAIN track.segments :
          LET begin == track.segments[s].startIndex
              end == track.segments[s].endIndex
          IN IF begin = end THEN ofSegment(s) = {}
             ELSE \E f \in ofSegment(s) :
                    /\ ofSegment(s) = {f}
                    /\ f.line[1] = track.points[begin] /\ Last(f.line) = track.points[end]
                    /\ ToSet(f.line) \subseteq {track.points[i] : i \in begin..end}
     /\ Cardinality(drawn) <= Len(track.segments)
     /\ Cardinality(marks) = Cardinality(laps) + Earlier(2, Len(track.points))
     /\ track.points = << >> => frame = elsewhere
     /\ \A shown \in {mark.at : mark \in marks} \cup UNION {ToSet(f.line) : f \in drawn} :
          frame.west <= shown.place /\ shown.place <= frame.east
     /\ track.points # << >> =>
          {frame.west, frame.east} \subseteq {track.points[i].place : i \in DOMAIN track.points}

(* ChannelChart, TripReview: a chart has each sample of its channel once   *)
(* and in its order, joins two only within a segment, and stays within its *)
(* box when the scale is the data's; where its cursor stands the map has a *)
(* marker, and on a sample's moment the cursor stands on the sample.       *)
ChartIsTheTrip(track, descriptor, cursor) ==
  LET carried == Picked([i \in DOMAIN track.points |-> i], Carried(track, descriptor.key))
      charts == ChannelCharts(track, <<descriptor>>, Absent, cursor)
      chart == charts[1]
      drawn == FlattenSeq(chart.lines)
      owner(i) == CHOOSE s \in DOMAIN track.segments :
                    i \in track.segments[s].startIndex..track.segments[s].endIndex
      lineOf(k) == Min({n \in DOMAIN chart.lines :
                          k <= Len(FlattenSeq(SubSeq(chart.lines, 1, n)))})
      same(a, b) == a.num * b.den = b.num * a.den
      inBox(part) == 0 <= part.num /\ part.num <= part.den
  IN IF carried = << >> THEN charts = << >>
     ELSE /\ Len(drawn) = Len(carried)
          /\ \A j, k \in DOMAIN carried :
               /\ (lineOf(j) = lineOf(k)) <=> (owner(carried[j]) = owner(carried[k]))
               /\ j < k => drawn[j].x.num <= drawn[k].x.num
          /\ \A k \in DOMAIN drawn : inBox(drawn[k].x)
          /\ descriptor.min = Absent /\ descriptor.max = Absent =>
               \A k \in DOMAIN drawn : inBox(drawn[k].y)
          /\ chart.cursor # Absent => Marker(track, cursor) # Absent /\ inBox(chart.cursor)
          /\ \A k \in DOMAIN carried : track.points[carried[k]].t = cursor =>
               chart.cursor # Absent /\ same(chart.cursor, drawn[k].x)

(* StatsPanel, formatDuration: a duration reads as a clock would, to the   *)
(* nearest second, and the longer of two never reads as the shorter.       *)
DurationReads(ms, longer) ==
  LET panel == StatsPanel([movingTimeMs |-> ms, durationMs |-> longer])
      a == panel.moving
      b == panel.duration
      seconds(d) == (d.h * 60 + d.m) * 60 + d.s
  IN /\ a.m \in 0..59 /\ a.s \in 0..59
     /\ ms >= 0 => Apart(seconds(a) * 1000, ms) <= 500
     /\ ms <= longer => seconds(a) <= seconds(b)
=============================================================================
