------------------------------ MODULE TrackData ------------------------------
(***************************************************************************)
(* A track as packages/core sees it: a timeline of points, the segments    *)
(* that partition it and the laps marked over it.  Indices are 1-based     *)
(* here (0-based in the code).  Coordinates, labels, statistics and the    *)
(* simplified display geometry are derived from or carried with the points *)
(* and are left out.                                                       *)
(***************************************************************************)
EXTENDS Naturals, Sequences

(* No record under this id.  A record with the fields of a track, so that  *)
(* "nothing stored yet" is the least track of the order Extends.           *)
NoTrack == [status |-> "none", points |-> << >>,
            segments |-> << >>, laps |-> << >>]

TrackStatus == {"recording", "paused", "finalized"}

-----------------------------------------------------------------------------
(* assertTemporalOrder: one timeline, boundaries between segments included.*)
TemporalOrder(points) ==
  \A i \in 1..(Len(points) - 1) : points[i].t <= points[i + 1].t

(* assertSegmentRanges: in bounds, not inverted, after the preceding one.  *)
SegmentRanges(points, segments) ==
  \A i \in 1..Len(segments) :
    /\ segments[i].startIndex >= 1
    /\ segments[i].endIndex <= Len(points)
    /\ segments[i].startIndex <= segments[i].endIndex
    /\ i > 1 => segments[i].startIndex > segments[i - 1].endIndex

(* assertSegmentsCoverPoints: contiguous from the first point to the last. *)
SegmentsCoverPoints(points, segments) ==
  IF segments = << >>
    THEN points = << >>
    ELSE /\ segments[1].startIndex = 1
         /\ \A i \in 2..Len(segments) :
              segments[i].startIndex = segments[i - 1].endIndex + 1
         /\ segments[Len(segments)].endIndex = Len(points)

(* assertLapRanges: laps may overlap and need not cover the points.        *)
LapRanges(points, laps) ==
  \A i \in 1..Len(laps) :
    /\ laps[i].startIndex >= 1
    /\ laps[i].endIndex <= Len(points)
    /\ laps[i].startIndex <= laps[i].endIndex

(* assertValidTrackGeometry: what every finalized or resumed track meets.  *)
ValidTrackGeometry(points, segments, laps) ==
  /\ SegmentRanges(points, segments)
  /\ SegmentsCoverPoints(points, segments)
  /\ TemporalOrder(points)
  /\ LapRanges(points, laps)

-----------------------------------------------------------------------------
(* The filter of recoverInterruptedTrack, and the first test a resuming    *)
(* recorder applies.                                                       *)
Interrupted(track) == track.status \in {"recording", "paused"}

(* What createWebTrackRecorder accepts as resumeFrom.                      *)
Resumable(track) ==
  /\ Interrupted(track)
  /\ ValidTrackGeometry(track.points, track.segments, track.laps)

(* finalizeTrack, once its assertion has passed.                           *)
FinalizeTrack(points, segments, laps) ==
  [status |-> "finalized", points |-> points, segments |-> segments, laps |-> laps]

-----------------------------------------------------------------------------
(* b continues a: same points and laps so far, the same segments under the *)
(* same ids, of which the last may have grown; a finished track has no     *)
(* continuation but itself.                                                *)
Extends(a, b) ==
  /\ a.status = "finalized" => b = a
  /\ Len(a.points) <= Len(b.points)
  /\ \A i \in 1..Len(a.points) : b.points[i] = a.points[i]
  /\ Len(a.segments) <= Len(b.segments)
  /\ \A i \in 1..Len(a.segments) :
       /\ b.segments[i].id = a.segments[i].id
       /\ b.segments[i].startIndex = a.segments[i].startIndex
       /\ b.segments[i].endIndex >= a.segments[i].endIndex
  /\ Len(a.laps) <= Len(b.laps)
  /\ \A i \in 1..Len(a.laps) : b.laps[i] = a.laps[i]
=============================================================================
