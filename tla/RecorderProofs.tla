---------------------------- MODULE RecorderProofs ----------------------------
(***************************************************************************)
(* What Recorder keeps for every store, clock, listener, sensor set and    *)
(* bound, and that it implements DurableTrip.  Every picture on its way to *)
(* the store continues the record that is there, and is continued by the   *)
(* picture waiting behind it and by the recording itself; so whatever      *)
(* lands, in whatever session, the record grows.                           *)
(***************************************************************************)
EXTENDS Recorder, FiniteSetTheorems, TLAPS

-----------------------------------------------------------------------------
(* The blank track is a track, and every picture of a typed recording too. *)
LEMMA NoTrackType == NoTrack \in Track
BY DEF NoTrack, Track

LEMMA NoIdType == NoId \in Nat \X Nat
BY DEF NoId

LEMMA AllSegmentsType ==
  ASSUME TrackTypeOK
  PROVE  AllSegments \in Seq(Segment)
<1>1. CASE SegmentCaught
  <2>1. [id |-> segmentId, startIndex |-> segmentStart, endIndex |-> Len(points)] \in Segment
    BY DEF TrackTypeOK, Segment
  <2> QED BY <1>1, <2>1 DEF AllSegments, TrackTypeOK
<1>2. CASE ~SegmentCaught
  BY <1>2 DEF AllSegments, TrackTypeOK
<1> QED BY <1>1, <1>2

LEMMA SnapshotType ==
  ASSUME TrackTypeOK, NEW statusNow
  PROVE  Snapshot(statusNow) \in Track
<1>1. AllSegments \in Seq(Segment)
  BY AllSegmentsType
<1> QED BY <1>1 DEF Snapshot, Track, TrackStatus, TrackTypeOK

LEMMA FinalLapsType ==
  ASSUME TrackTypeOK
  PROVE  FinalLaps \in Seq(Span)
<1>1. [startIndex |-> lapStart, endIndex |-> Len(points)] \in Span
  BY DEF TrackTypeOK, Span
<1> QED BY <1>1 DEF FinalLaps, TrackTypeOK

LEMMA LapStartType ==
  ASSUME NEW track \in Track
  PROVE  LapStartAfter(track) \in Nat
<1>1. track.laps \in Seq(Span)
  BY DEF Track
<1>2. CASE track.laps # << >>
  <2>1. track.laps[Len(track.laps)] \in Span
    BY <1>1, <1>2
  <2> QED BY <2>1, <1>2 DEF LapStartAfter, Span
<1> QED BY <1>2 DEF LapStartAfter

-----------------------------------------------------------------------------
(* Type correctness, one lemma per group of variables.                     *)
LEMMA WriteType ==
  ASSUME NEW by \in {"autosave", "stop"}, NEW track \in Track
  PROVE  Write(by, track) \in [by : {"autosave", "stop"}, track : Track]
BY DEF Write

LEMMA EnqueueType ==
  ASSUME QueueTypeOK, NEW picture \in Track, EnqueueSave(picture),
         UNCHANGED <<durable, acked, stopping>>, reported' \in {reported, NoTrack}
  PROVE  QueueTypeOK'
<1>1. Write("autosave", picture) \in [by : {"autosave", "stop"}, track : Track]
  BY WriteType
<1> QED BY <1>1, NoTrackType DEF QueueTypeOK, EnqueueSave

LEMMA StoreType ==
  ASSUME QueueTypeOK, StoreAnswers
  PROVE  QueueTypeOK'
<1>1. Write("autosave", pendingSnapshot) \in [by : {"autosave", "stop"}, track : Track]
  BY WriteType DEF QueueTypeOK
<1>2. CASE AutosaveLands
  BY <1>1, <1>2, NoTrackType DEF QueueTypeOK, AutosaveLands, ContinueLoop
<1>3. CASE AutosaveFails
  BY <1>1, <1>3, NoTrackType DEF QueueTypeOK, AutosaveFails, ContinueLoop, BreakLoop
<1>4. CASE FinalLands
  BY <1>4 DEF QueueTypeOK, FinalLands
<1>5. CASE FinalFails
  BY <1>5 DEF QueueTypeOK, FinalFails, AfterFinalFailure
<1> QED BY <1>2, <1>3, <1>4, <1>5 DEF StoreAnswers

LEMMA QueueTypeStep ==
  ASSUME TypeOK, [Next]_vars
  PROVE  QueueTypeOK'
<1> USE DEF TypeOK
<1>1. CASE UNCHANGED queueVars
  BY <1>1 DEF QueueTypeOK, queueVars
<1>2. CASE Pause
  <2>1. Snapshot("paused") \in Track
    BY SnapshotType
  <2> QED BY <1>2, <2>1, EnqueueType DEF Pause
<1>3. CASE Tick
  <2>1. Snapshot(status) \in Track
    BY SnapshotType
  <2> QED BY <1>3, <2>1, EnqueueType DEF Tick
<1>4. CASE Stop
  BY <1>4 DEF Stop, QueueTypeOK
<1>5. ASSUME NEW final \in Track, SaveFinal(final) \/ RetryFinal(final)
      PROVE  QueueTypeOK'
  <2>1. Write("stop", final) \in [by : {"autosave", "stop"}, track : Track]
    BY WriteType
  <2> QED BY <1>5, <2>1 DEF SaveFinal, RetryFinal, QueueTypeOK
<1>6. CASE StopAgain \/ SaveFinished
  BY <1>5, <1>6 DEF StopAgain, SaveFinished, TrackTypeOK
<1>7. CASE StopRejected
  BY <1>7 DEF StopRejected, DrainRejects, QueueTypeOK
<1>8. CASE Store
  BY <1>8, StoreType DEF Store
<1>9. CASE Crash
  BY <1>9, NoTrackType DEF Crash, QueueCrash, QueueTypeOK
<1>10. CASE Create \/ Start \/ Resume \/ MarkLap \/ FixKept \/ SensorSample \/ Platform
  BY <1>10, <1>1 DEF Create, Start, Resume, MarkLap, FixKept, SensorSample, Platform
<1> QED BY <1>1, <1>2, <1>3, <1>4, <1>6, <1>7, <1>8, <1>9, <1>10 DEF Next, Calls, vars

LEMMA WatchTypeStep ==
  ASSUME TypeOK, [Next]_vars
  PROVE  WatchTypeOK'
<1> USE DEF TypeOK
<1>1. CASE UNCHANGED watchVars
  BY <1>1 DEF WatchTypeOK, watchVars
<1>2. ASSUME NEW supported, NEW thrown, BeginWatching(supported, thrown)
      PROVE  WatchTypeOK'
  BY <1>2 DEF BeginWatching, AcquireWakeLock, StartSensors, WatchTypeOK
<1>3. CASE Start \/ Resume
  BY <1>2, <1>3 DEF Start, Resume
<1>4. CASE Pause \/ Stop
  <2>1. StopWatching
    BY <1>4 DEF Pause, Stop
  <2>2. generation' \in Nat /\ watchId' \in Nat \cup {None} /\ wakeLock' \in Nat \cup {None}
    BY <2>1 DEF StopWatching, WatchTypeOK
  <2>3. sensorsDesired' \in BOOLEAN
    BY <2>1 DEF StopWatching
  <2>4. leases' \subseteq Nat /\ active' \subseteq Sensors
    BY <2>1 DEF StopWatching, WatchTypeOK
  <2> QED BY <2>1, <2>2, <2>3, <2>4 DEF StopWatching, WatchTypeOK
<1>5. CASE Platform
  <2>1. CASE LockAnswered
    BY <2>1 DEF LockAnswered, WatchTypeOK
  <2>2. CASE LockDropped
    BY <2>2 DEF LockDropped, WatchTypeOK
  <2>3. CASE SensorStarted
    BY <2>3 DEF SensorStarted, WatchTypeOK
  <2>4. CASE SensorStartFails
    BY <2>4 DEF SensorStartFails, WatchTypeOK
  <2> QED BY <1>5, <2>1, <2>2, <2>3, <2>4 DEF Platform, PlatformAnswers
<1>6. CASE Crash
  BY <1>6 DEF Crash, WatchCrash, WatchTypeOK
<1>7. CASE Create \/ MarkLap \/ StopAgain \/ SaveFinished \/ StopRejected
             \/ FixKept \/ SensorSample \/ Tick \/ Store
  BY <1>7, <1>1 DEF Create, MarkLap, StopAgain, SaveFinished, StopRejected,
                    FixKept, SensorSample, Tick, Store
<1> QED BY <1>1, <1>3, <1>4, <1>5, <1>6, <1>7 DEF Next, Calls, vars

LEMMA TrackTypeStep ==
  ASSUME TypeOK, [Next]_vars
  PROVE  TrackTypeOK'
<1> USE DEF TypeOK
<1>1. CASE UNCHANGED trackVars
  BY <1>1 DEF TrackTypeOK, trackVars
<1>2. ASSUME NEW restored \in Track, Restore(restored)
      PROVE  /\ points' \in Seq(Point) /\ segments' \in Seq(Segment)
             /\ laps' \in Seq(Span) /\ lapStart' \in Nat
  <2>1. LapStartAfter(restored) \in Nat
    BY LapStartType
  <2> QED BY <1>2, <2>1 DEF Restore, Track
<1>3. CASE Create
  <2>1. Restore(durable) /\ durable \in Track
    BY <1>3 DEF Create, QueueTypeOK
  <2>2. /\ points' \in Seq(Point) /\ segments' \in Seq(Segment)
        /\ laps' \in Seq(Span) /\ lapStart' \in Nat
    BY <2>1, <1>2
  <2>3. /\ session' \in Nat /\ alive' \in BOOLEAN /\ sampled' \in Nat
    BY <1>3 DEF Create, TrackTypeOK
  <2> QED BY <1>3, <2>2, <2>3, NoTrackType, NoIdType DEF Create, Blank, TrackTypeOK, TrackStatus
<1>4. CASE Crash
  <2>1. Restore(NoTrack) /\ NoTrack \in Track
    BY <1>4, NoTrackType DEF Crash
  <2>2. /\ points' \in Seq(Point) /\ segments' \in Seq(Segment)
        /\ laps' \in Seq(Span) /\ lapStart' \in Nat
    BY <2>1, <1>2
  <2> QED BY <1>4, <2>2, NoTrackType, NoIdType DEF Crash, Blank, TrackTypeOK, TrackStatus
<1>5. CASE Start \/ Resume
  <2>1. Here \in Nat \X Nat
    BY DEF Here, TrackTypeOK, WatchTypeOK
  <2>2. segmentStart' \in Nat /\ segmentId' \in Nat \X Nat
    BY <1>5, <2>1 DEF Start, Resume, OpenSegment, TrackTypeOK
  <2>3. timer' \in BOOLEAN
    BY <1>5 DEF Start, Resume, TrackTypeOK
  <2>4. lapsAtPause' \in Nat
    BY <1>5 DEF Start, Resume, TrackTypeOK
  <2>5. /\ status' \in TrackStatus /\ started' \in BOOLEAN
        /\ UNCHANGED <<session, alive, points, segments, laps, lapStart, finalized,
                       pendingSamples, sampled>>
    BY <1>5 DEF Start, Resume, TrackTypeOK, TrackStatus
  <2> QED BY <2>2, <2>3, <2>4, <2>5 DEF TrackTypeOK
<1>6. CASE Pause
  BY <1>6, AllSegmentsType, NoIdType DEF Pause, CloseSegment, TrackTypeOK, TrackStatus
<1>7. CASE MarkLap
  <2>1. [startIndex |-> lapStart, endIndex |-> Len(points)] \in Span
    BY DEF TrackTypeOK, Span
  <2> QED BY <1>7, <2>1 DEF MarkLap, TrackTypeOK
<1>8. CASE Stop
  <2>1. FinalizeTrack(points, AllSegments, FinalLaps) \in Track
    BY AllSegmentsType, FinalLapsType DEF FinalizeTrack, Track, TrackTypeOK, TrackStatus
  <2>2. finalized' \in Track
    BY <1>8, <2>1 DEF Stop, TrackTypeOK
  <2>3. lapStart' \in Nat
    BY <1>8 DEF Stop, TrackTypeOK
  <2>4. segments' \in Seq(Segment) /\ segmentStart' \in Nat /\ segmentId' \in Nat \X Nat
    BY <1>8, AllSegmentsType, NoIdType DEF Stop, CloseSegment
  <2> QED BY <1>8, <2>2, <2>3, <2>4, FinalLapsType DEF Stop, TrackTypeOK, TrackStatus
<1>9. CASE FixKept
  <2> PICK g \in registered, t \in Times :
        /\ points' = Append(points, [t |-> t, by |-> <<session, g>>, samples |-> Eligible(t)])
        /\ pendingSamples' = LeftOver(t)
    BY <1>9 DEF FixKept
  <2>1. [t |-> t, by |-> <<session, g>>, samples |-> Eligible(t)] \in Point
    BY DEF TrackTypeOK, WatchTypeOK, Eligible, Point
  <2>2. pendingSamples' \subseteq Sample
    BY DEF LeftOver, TrackTypeOK
  <2> QED BY <1>9, <2>1, <2>2 DEF FixKept, TrackTypeOK
<1>10. CASE SensorSample
  <2> PICK t \in Times :
        pendingSamples' = pendingSamples \cup {[n |-> sampled + 1, t |-> t, by |-> Here]}
    BY <1>10 DEF SensorSample
  <2>1. [n |-> sampled + 1, t |-> t, by |-> Here] \in Sample
    BY DEF TrackTypeOK, WatchTypeOK, Sample, Here
  <2> QED BY <1>10, <2>1 DEF SensorSample, TrackTypeOK
<1>11. CASE StopAgain \/ SaveFinished \/ StopRejected \/ Tick \/ Platform \/ Store
  BY <1>11, <1>1 DEF StopAgain, SaveFinished, StopRejected, Tick, Platform, Store
<1> QED BY <1>1, <1>3, <1>4, <1>5, <1>6, <1>7, <1>8, <1>9, <1>10, <1>11
        DEF Next, Calls, vars

(* TypeOK for every store, listener, clock, sensor set and bound.          *)
THEOREM TypeCorrect == Spec => []TypeOK
<1>1. Init => TypeOK
  <2> SUFFICES ASSUME Init PROVE TypeOK
    OBVIOUS
  <2>1. QueueTypeOK
    BY NoTrackType DEF Init, QueueTypeOK
  <2>2. WatchTypeOK
    BY DEF Init, WatchPristine, WatchTypeOK, None
  <2>3. TrackTypeOK
    <3>1. session \in Nat /\ sampled \in Nat /\ segmentStart \in Nat /\ lapStart \in Nat
      BY DEF Init
    <3>2. alive \in BOOLEAN /\ started \in BOOLEAN /\ timer \in BOOLEAN
      BY DEF Init
    <3>3. points \in Seq(Point) /\ segments \in Seq(Segment) /\ laps \in Seq(Span)
      BY DEF Init
    <3>4. pendingSamples \subseteq Sample
      BY DEF Init
    <3> QED BY <3>1, <3>2, <3>3, <3>4, NoTrackType, NoIdType DEF Init, TrackTypeOK, TrackStatus
  <2> QED BY <2>1, <2>2, <2>3 DEF TypeOK
<1>2. TypeOK /\ [Next]_vars => TypeOK'
  BY QueueTypeStep, WatchTypeStep, TrackTypeStep DEF TypeOK
<1> QED BY <1>1, <1>2, PTL DEF Spec

-----------------------------------------------------------------------------
(* Extends is an order on tracks.                                          *)
LEMMA EndIndexType ==
  ASSUME NEW a \in Track, NEW i \in 1..Len(a.segments)
  PROVE  a.segments[i].endIndex \in Nat
<1>1. a.segments \in Seq(Segment)
  BY DEF Track
<1>2. a.segments[i] \in Segment
  BY <1>1
<1> QED BY <1>2 DEF Segment

LEMMA ExtendsReflexive == ASSUME NEW a \in Track PROVE Extends(a, a)
<1>1. /\ Len(a.points) \in Nat /\ Len(a.segments) \in Nat /\ Len(a.laps) \in Nat
  BY DEF Track
<1>2. ASSUME NEW i \in 1..Len(a.segments) PROVE a.segments[i].endIndex \in Nat
  BY EndIndexType
<1> QED BY <1>1, <1>2 DEF Extends

LEMMA ExtendsTransitive ==
  ASSUME NEW a \in Track, NEW b \in Track, NEW c \in Track,
         Extends(a, b), Extends(b, c)
  PROVE  Extends(a, c)
<1>1. CASE a.status = "finalized"
  BY <1>1 DEF Extends
<1>2. CASE a.status # "finalized"
  <2>1. /\ Len(a.points) \in Nat /\ Len(b.points) \in Nat /\ Len(c.points) \in Nat
        /\ Len(a.segments) \in Nat /\ Len(b.segments) \in Nat /\ Len(c.segments) \in Nat
        /\ Len(a.laps) \in Nat /\ Len(b.laps) \in Nat /\ Len(c.laps) \in Nat
    BY DEF Track
  <2>2. /\ Len(a.points) <= Len(c.points)
        /\ \A i \in 1..Len(a.points) : c.points[i] = a.points[i]
    BY <2>1 DEF Extends
  <2>3. /\ Len(a.laps) <= Len(c.laps)
        /\ \A i \in 1..Len(a.laps) : c.laps[i] = a.laps[i]
    BY <2>1 DEF Extends
  <2>4. Len(a.segments) <= Len(c.segments)
    BY <2>1 DEF Extends
  <2>5. ASSUME NEW i \in 1..Len(a.segments)
        PROVE  /\ c.segments[i].id = a.segments[i].id
               /\ c.segments[i].startIndex = a.segments[i].startIndex
               /\ c.segments[i].endIndex >= a.segments[i].endIndex
    <3>1. i \in 1..Len(b.segments) /\ i \in 1..Len(c.segments)
      BY <2>1, <2>4 DEF Extends
    <3>2. /\ a.segments[i].endIndex \in Nat /\ b.segments[i].endIndex \in Nat
          /\ c.segments[i].endIndex \in Nat
      BY <3>1, EndIndexType
    <3>3. /\ b.segments[i].id = a.segments[i].id
          /\ b.segments[i].startIndex = a.segments[i].startIndex
          /\ b.segments[i].endIndex >= a.segments[i].endIndex
      BY DEF Extends
    <3>4. /\ c.segments[i].id = b.segments[i].id
          /\ c.segments[i].startIndex = b.segments[i].startIndex
          /\ c.segments[i].endIndex >= b.segments[i].endIndex
      BY <3>1 DEF Extends
    <3> QED BY <3>2, <3>3, <3>4
  <2> QED BY <1>2, <2>2, <2>3, <2>4, <2>5 DEF Extends
<1> QED BY <1>1, <1>2

LEMMA NoTrackLeast == ASSUME NEW a \in Track PROVE Extends(NoTrack, a)
<1>1. Len(a.points) \in Nat /\ Len(a.segments) \in Nat /\ Len(a.laps) \in Nat
  BY DEF Track
<1> QED BY <1>1 DEF Extends, NoTrack

-----------------------------------------------------------------------------
(* The inductive invariant.                                                *)

(* The recording as it stands, as an autosave would write it.              *)
Current == Snapshot("recording")

(* Which control states the recorder can be in.                            *)
ControlInv ==
  /\ ~alive => status = "finalized" /\ stopping = "no"
  /\ ~started => status = "finalized" /\ stopping = "no" /\ finalized = NoTrack
  /\ status # "finalized" => stopping = "no" /\ finalized = NoTrack
  /\ status # "recording" => segmentStart = 0
  /\ timer => status # "finalized"
  /\ stopping # "no" => finalized.status = "finalized"

(* Who has a write in flight, and of what kind its picture is.             *)
WritesInv ==
  /\ \A v, w \in writes : v = w
  /\ writer = "writing" <=> \E w \in writes : w.by = "autosave"
  /\ stopping = "saving" <=> \E w \in writes : w.by = "stop"
  /\ stopping \in {"settled", "failed"} => writer # "writing"
  /\ \A w \in writes : w.by = "autosave" => w.track.status # "finalized"
  /\ \A w \in writes : w.by = "stop" => w.track = finalized
  /\ pendingSnapshot.status # "finalized"
  /\ writer = "idle" => pendingSnapshot = NoTrack
  /\ writer # "idle" => alive /\ HasStore

(* A finished record, while its recorder lives, is that recorder's.        *)
DurableInv ==
  /\ alive /\ durable.status = "finalized" => stopping = "settled"
  /\ stopping = "settled" /\ HasStore => durable = finalized

(* The chain of pictures, from the stored record to the recording.         *)
ChainInv ==
  /\ Extends(acked, durable)
  /\ \A w \in writes : Extends(durable, w.track)
  /\ \A w \in writes : w.by = "autosave" => Extends(w.track, pendingSnapshot)
                                           \/ pendingSnapshot = NoTrack
  /\ alive /\ stopping = "no" =>
       /\ Extends(durable, Current)
       /\ \A w \in writes : Extends(w.track, Current)
       /\ Extends(pendingSnapshot, Current)
  /\ stopping \in {"draining", "saving", "failed"} =>
       /\ Extends(durable, finalized)
       /\ \A w \in writes : Extends(w.track, finalized)
       /\ Extends(pendingSnapshot, finalized)

IInv == TypeOK /\ ControlInv /\ WritesInv /\ DurableInv /\ ChainInv

-----------------------------------------------------------------------------
(* Pictures of one state, and how the recording grows.                     *)
LEMMA CurrentType == TypeOK => Current \in Track
BY SnapshotType DEF Current, TypeOK

LEMMA CurrentTypeNext == TypeOK' => Current' \in Track
<1>1. (TypeOK => Current \in Track)'
  BY CurrentType, PTL
<1> QED BY <1>1

LEMMA FinalType ==
  TypeOK => FinalizeTrack(points, AllSegments, FinalLaps) \in Track
BY AllSegmentsType, FinalLapsType
   DEF FinalizeTrack, Track, TrackStatus, TypeOK, TrackTypeOK

(* The status of a picture does not matter to the order.                   *)
LEMMA SnapshotContinues ==
  ASSUME NEW a \in Track, NEW statusNow, Extends(a, Current)
  PROVE  Extends(a, Snapshot(statusNow))
<1>1. a.status # "finalized"
  BY DEF Extends, Current, Snapshot
<1> QED BY <1>1 DEF Extends, Current, Snapshot

LEMMA SnapshotIsCurrent ==
  ASSUME TypeOK, NEW statusNow
  PROVE  Extends(Snapshot(statusNow), Current) /\ Snapshot(statusNow) \in Track
         /\ Snapshot(statusNow).status # "finalized"
<1>1. Extends(Current, Current)
  BY CurrentType, ExtendsReflexive
<1>2. Snapshot(statusNow) \in Track
  BY SnapshotType DEF TypeOK
<1>3. Snapshot(statusNow).status # "finalized"
  BY DEF Snapshot
<1> QED BY <1>1, <1>2, <1>3 DEF Extends, Current, Snapshot

(* The finished track continues the recording: stop() only adds a lap.     *)
LEMMA FinalContinues ==
  ASSUME TypeOK
  PROVE  Extends(Current, FinalizeTrack(points, AllSegments, FinalLaps))
<1> DEFINE F == FinalizeTrack(points, AllSegments, FinalLaps)
<1>1. Extends(Current, Current)
  BY CurrentType, ExtendsReflexive
<1>2. /\ Current.points = F.points
      /\ Current.segments = F.segments
      /\ Current.status # "finalized"
      /\ Current.laps = laps /\ F.laps = FinalLaps
  BY DEF Current, Snapshot, FinalizeTrack
<1>3. /\ Len(laps) <= Len(FinalLaps)
      /\ \A i \in 1..Len(laps) : FinalLaps[i] = laps[i]
  <2>1. laps \in Seq(Span)
    BY DEF TypeOK, TrackTypeOK
  <2> QED BY <2>1 DEF FinalLaps
<1> QED BY <1>1, <1>2, <1>3 DEF Extends

LEMMA SameRecording ==
  ASSUME TypeOK, TypeOK',
         points' = points, AllSegments' = AllSegments, laps' = laps
  PROVE  Extends(Current, Current')
<1>1. Current' = Current
  BY DEF Current, Snapshot
<1> QED BY <1>1, CurrentType, ExtendsReflexive

(* A kept fix lengthens the open segment or makes it appear.               *)
LEMMA FixGrows ==
  ASSUME TypeOK, TypeOK', FixKept
  PROVE  Extends(Current, Current')
<1> USE DEF TypeOK
<1>1. PICK p \in Point : points' = Append(points, p)
  <2> PICK g \in registered, t \in Times :
        points' = Append(points, [t |-> t, by |-> <<session, g>>, samples |-> Eligible(t)])
    BY DEF FixKept
  <2>1. [t |-> t, by |-> <<session, g>>, samples |-> Eligible(t)] \in Point
    BY DEF TrackTypeOK, WatchTypeOK, Eligible, Point
  <2> QED BY <2>1
<1>2. UNCHANGED <<segments, laps, segmentStart, segmentId>>
  BY DEF FixKept
<1>3. /\ Len(points) \in Nat /\ Len(points') = Len(points) + 1
      /\ \A i \in 1..Len(points) : points'[i] = points[i]
  BY <1>1 DEF TrackTypeOK
<1>4. /\ Len(AllSegments) <= Len(AllSegments')
      /\ \A i \in 1..Len(AllSegments) :
           /\ AllSegments'[i].id = AllSegments[i].id
           /\ AllSegments'[i].startIndex = AllSegments[i].startIndex
           /\ AllSegments'[i].endIndex >= AllSegments[i].endIndex
  <2> DEFINE now == [id |-> segmentId, startIndex |-> segmentStart, endIndex |-> Len(points)]
             later == [id |-> segmentId, startIndex |-> segmentStart, endIndex |-> Len(points')]
  <2>1. segments \in Seq(Segment) /\ now \in Segment /\ later \in Segment
    BY <1>3 DEF TrackTypeOK, Segment
  <2>2. ASSUME NEW i \in 1..Len(segments)
        PROVE  segments[i].endIndex \in Nat
    <3>1. segments[i] \in Segment
      BY <2>1
    <3> QED BY <3>1 DEF Segment
  <2>3. CASE SegmentCaught
    <3>1. SegmentCaught'
      BY <2>3, <1>2, <1>3 DEF SegmentCaught, TrackTypeOK
    <3>2. AllSegments = Append(segments, now)
      BY <2>3 DEF AllSegments
    <3>3. AllSegments' = Append(segments, later)
      BY <3>1, <1>2 DEF AllSegments
    <3>4. /\ now.id = later.id /\ now.startIndex = later.startIndex
          /\ later.endIndex >= now.endIndex
      BY <1>3
    <3> HIDE DEF now, later
    <3> QED BY <2>1, <2>2, <3>2, <3>3, <3>4
  <2>4. CASE ~SegmentCaught
    <3>1. AllSegments = segments
      BY <2>4 DEF AllSegments
    <3>2. AllSegments' = segments \/ AllSegments' = Append(segments, later)
      BY <1>2 DEF AllSegments
    <3> HIDE DEF now, later
    <3> QED BY <2>1, <2>2, <3>1, <3>2
  <2> QED BY <2>3, <2>4
<1>5. Len(laps) \in Nat /\ laps' = laps
  BY <1>2 DEF TrackTypeOK
<1>6. /\ Current.points = points /\ Current'.points = points'
      /\ Current.segments = AllSegments /\ Current'.segments = AllSegments'
      /\ Current.laps = laps /\ Current'.laps = laps'
      /\ Current.status # "finalized"
  BY DEF Current, Snapshot
<1> QED BY <1>3, <1>4, <1>5, <1>6 DEF Extends

LEMMA LapGrows ==
  ASSUME TypeOK, TypeOK', points' = points, AllSegments' = AllSegments,
         NEW lap \in Span, laps' = Append(laps, lap)
  PROVE  Extends(Current, Current')
<1>1. Extends(Current, Current)
  BY CurrentType, ExtendsReflexive
<1>2. /\ Len(laps) <= Len(laps')
      /\ \A i \in 1..Len(laps) : laps'[i] = laps[i]
  BY DEF TypeOK, TrackTypeOK
<1>3. /\ Current.points = Current'.points
      /\ Current.segments = Current'.segments
      /\ Current.laps = laps /\ Current'.laps = laps'
      /\ Current.status # "finalized"
  BY DEF Current, Snapshot
<1> QED BY <1>1, <1>2, <1>3 DEF Extends

(* One step of a living recorder never takes anything off the recording.   *)
LEMMA CurrentGrows ==
  ASSUME IInv, TypeOK', Next, ~Create, ~Crash
  PROVE  Extends(Current, Current')
<1> USE DEF IInv
<1>1. CASE Start \/ Resume
  <2>1. segmentStart = 0
    BY <1>1 DEF ControlInv, Start, Resume
  <2>2. AllSegments = segments
    BY <2>1 DEF AllSegments, SegmentCaught
  <2>3. /\ points' = points /\ segments' = segments /\ laps' = laps
        /\ segmentStart' = Len(points) + 1
    BY <1>1 DEF Start, Resume, OpenSegment
  <2>4. ~SegmentCaught'
    BY <2>3 DEF SegmentCaught, TypeOK, TrackTypeOK
  <2>5. AllSegments' = segments
    BY <2>3, <2>4 DEF AllSegments
  <2> QED BY <2>2, <2>3, <2>5, SameRecording
<1>2. ASSUME CloseSegment, points' = points PROVE AllSegments' = AllSegments
  <2>1. ~SegmentCaught'
    BY <1>2 DEF CloseSegment, SegmentCaught
  <2> QED BY <1>2, <2>1 DEF CloseSegment, AllSegments
<1>3. CASE Pause
  BY <1>2, <1>3, SameRecording DEF Pause
<1>4. CASE MarkLap
  <2>1. [startIndex |-> lapStart, endIndex |-> Len(points)] \in Span
    BY DEF TypeOK, TrackTypeOK, Span
  <2>2. AllSegments' = AllSegments
    BY <1>4 DEF MarkLap, AllSegments, SegmentCaught
  <2> QED BY <1>4, <2>1, <2>2, LapGrows DEF MarkLap
<1>5. CASE Stop
  <2>1. [startIndex |-> lapStart, endIndex |-> Len(points)] \in Span
    BY DEF TypeOK, TrackTypeOK, Span
  <2>2. points' = points /\ AllSegments' = AllSegments /\ laps' = FinalLaps
    BY <1>5, <1>2 DEF Stop
  <2>3. CASE FinalLaps = laps
    BY <2>2, <2>3, SameRecording
  <2>4. CASE FinalLaps # laps
    BY <2>1, <2>2, <2>4, LapGrows DEF FinalLaps
  <2> QED BY <2>3, <2>4
<1>6. CASE FixKept
  BY <1>6, FixGrows
<1>7. CASE SensorSample
  <2>1. points' = points /\ laps' = laps /\ AllSegments' = AllSegments
    BY <1>7 DEF SensorSample, AllSegments, SegmentCaught
  <2> QED BY <2>1, SameRecording
<1>8. CASE StopAgain \/ SaveFinished \/ StopRejected \/ Tick \/ Platform \/ Store
  <2>1. UNCHANGED trackVars
    BY <1>8 DEF StopAgain, SaveFinished, StopRejected, Tick, Platform, Store
  <2>2. points' = points /\ laps' = laps /\ AllSegments' = AllSegments
    BY <2>1 DEF trackVars, AllSegments, SegmentCaught
  <2> QED BY <2>2, SameRecording
<1> QED BY <1>1, <1>3, <1>4, <1>5, <1>6, <1>7, <1>8 DEF Next, Calls

-----------------------------------------------------------------------------
(* The control states.                                                     *)
LEMMA ControlStep ==
  ASSUME IInv, [Next]_vars
  PROVE  ControlInv'
<1> USE DEF IInv
<1>1. ASSUME UNCHANGED trackVars, stopping' = stopping PROVE ControlInv'
  BY <1>1 DEF ControlInv, trackVars
<1>2. CASE UNCHANGED vars
  BY <1>2, <1>1 DEF vars, queueVars
<1>3. CASE Create
  BY <1>3 DEF Create, Blank, ControlInv, queueVars
<1>4. CASE Crash
  BY <1>4 DEF Crash, Blank, QueueCrash, ControlInv
<1>5. CASE Start \/ Resume
  BY <1>5 DEF Start, Resume, ControlInv, queueVars
<1>6. CASE Pause
  BY <1>6 DEF Pause, CloseSegment, ControlInv
<1>7. CASE Stop
  BY <1>7 DEF Stop, CloseSegment, ControlInv, FinalizeTrack
<1>8. CASE MarkLap \/ FixKept \/ SensorSample
  <2>1. UNCHANGED <<alive, status, started, segmentStart, timer, stopping, finalized>>
    BY <1>8 DEF MarkLap, FixKept, SensorSample, queueVars
  <2> QED BY <2>1 DEF ControlInv
<1>9. CASE StopAgain \/ SaveFinished \/ StopRejected
  BY <1>9 DEF StopAgain, SaveFinished, StopRejected, RetryFinal, SaveFinal, DrainRejects,
              ControlInv, trackVars
<1>10. CASE Tick \/ Platform
  BY <1>10, <1>1 DEF Tick, Platform, queueVars
<1>11. CASE Store
  <2>1. CASE AutosaveLands \/ AutosaveFails
    BY <1>11, <2>1, <1>1 DEF Store, AutosaveLands, AutosaveFails
  <2>2. CASE FinalLands \/ FinalFails
    <3>1. stopping = "saving"
      BY <2>2 DEF FinalLands, FinalFails, WritesInv
    <3> QED BY <1>11, <2>2, <3>1 DEF Store, FinalLands, FinalFails, AfterFinalFailure,
                                     ControlInv, trackVars
  <2> QED BY <1>11, <2>1, <2>2 DEF Store, StoreAnswers
<1> QED BY <1>2, <1>3, <1>4, <1>5, <1>6, <1>7, <1>8, <1>9, <1>10, <1>11 DEF Next, Calls

-----------------------------------------------------------------------------
(* The writes in flight.                                                   *)

(* A recorder that still takes pictures has not begun to stop.             *)
LEMMA EnqueueWrites ==
  ASSUME TypeOK, WritesInv, NEW picture, picture.status # "finalized",
         EnqueueSave(picture), alive, stopping = "no",
         UNCHANGED <<stopping, finalized, alive>>
  PROVE  WritesInv'
<1>1. NoTrack.status # "finalized"
  BY DEF NoTrack
<1>2. CASE UNCHANGED <<writes, pendingSnapshot, writer>>
  BY <1>2 DEF WritesInv
<1>3. CASE writer # "idle" /\ pendingSnapshot' = picture /\ UNCHANGED <<writes, writer>>
  BY <1>3 DEF WritesInv
<1>4. CASE /\ writer = "idle" /\ writer' = "writing"
           /\ writes' = writes \cup {Write("autosave", picture)}
           /\ pendingSnapshot' = NoTrack
  <2>1. writes' = {Write("autosave", picture)}
    BY <1>4 DEF WritesInv, TypeOK, QueueTypeOK
  <2>2. Write("autosave", picture).by = "autosave" /\ Write("autosave", picture).track = picture
    BY DEF Write
  <2> QED BY <1>1, <1>4, <2>1, <2>2 DEF WritesInv, EnqueueSave, AutosaveEnabled
<1> QED BY <1>2, <1>3, <1>4 DEF EnqueueSave

LEMMA StoreWrites ==
  ASSUME TypeOK, WritesInv, StoreAnswers, finalized' = finalized, alive' = alive
  PROVE  WritesInv'
<1>1. NoTrack.status # "finalized"
  BY DEF NoTrack
<1>2. ASSUME NEW w \in writes, w.by = "autosave", ContinueLoop(w) \/ BreakLoop(w),
             stopping' = stopping
      PROVE  WritesInv'
  <2>1. writes \ {w} = {}
    BY <1>2 DEF WritesInv
  <2>2. writer = "writing" /\ stopping # "saving"
    BY <1>2 DEF WritesInv
  <2>3. CASE BreakLoop(w)
    BY <1>2, <2>1, <2>2, <2>3 DEF BreakLoop, WritesInv
  <2>4. CASE pendingSnapshot = NoTrack /\ ContinueLoop(w)
    BY <1>2, <2>1, <2>2, <2>4 DEF ContinueLoop, WritesInv
  <2>5. CASE pendingSnapshot # NoTrack /\ ContinueLoop(w)
    <3>1. writes' = {Write("autosave", pendingSnapshot)}
      BY <2>1, <2>5 DEF ContinueLoop
    <3>2. /\ Write("autosave", pendingSnapshot).by = "autosave"
          /\ Write("autosave", pendingSnapshot).track = pendingSnapshot
      BY DEF Write
    <3> QED BY <1>1, <1>2, <2>2, <2>5, <3>1, <3>2 DEF ContinueLoop, WritesInv
  <2> QED BY <1>2, <2>3, <2>4, <2>5
<1>3. CASE AutosaveLands \/ AutosaveFails
  BY <1>2, <1>3 DEF AutosaveLands, AutosaveFails
<1>4. CASE FinalLands \/ FinalFails
  <2> PICK w \in writes : /\ w.by = "stop" /\ writes' = writes \ {w}
                          /\ stopping' \in {"settled", "failed"}
                          /\ UNCHANGED <<pendingSnapshot, writer>>
    BY <1>4 DEF FinalLands, FinalFails, AfterFinalFailure
  <2>1. writes' = {} /\ writer # "writing"
    BY DEF WritesInv
  <2> QED BY <2>1 DEF WritesInv
<1> QED BY <1>3, <1>4 DEF StoreAnswers

LEMMA WritesStep ==
  ASSUME IInv, [Next]_vars
  PROVE  WritesInv'
<1> USE DEF IInv
<1>1. ASSUME UNCHANGED queueVars, finalized' = finalized, alive => alive' PROVE WritesInv'
  BY <1>1 DEF WritesInv, queueVars
<1>2. CASE UNCHANGED vars
  BY <1>2, <1>1 DEF vars, trackVars
<1>3. CASE Create
  <2>1. writes = {}
    BY <1>3 DEF Create, ControlInv, WritesInv, TypeOK, QueueTypeOK
  <2> QED BY <1>3, <2>1 DEF Create, Blank, WritesInv, queueVars
<1>4. CASE Crash
  BY <1>4 DEF Crash, QueueCrash, WritesInv, NoTrack
<1>5. CASE Start \/ Resume \/ MarkLap \/ FixKept \/ SensorSample
  <2>1. UNCHANGED <<queueVars, finalized, alive>>
    BY <1>5 DEF Start, Resume, MarkLap, FixKept, SensorSample
  <2> QED BY <2>1, <1>1
<1>6. CASE Pause
  <2>1. stopping = "no" /\ alive
    BY <1>6 DEF Pause, ControlInv
  <2> QED BY <1>6, <2>1, SnapshotIsCurrent, EnqueueWrites DEF Pause
<1>7. CASE Tick
  <2>1. stopping = "no" /\ alive
    BY <1>7 DEF Tick, ControlInv
  <2> QED BY <1>7, <2>1, SnapshotIsCurrent, EnqueueWrites DEF Tick, trackVars
<1>8. CASE Stop
  <2>1. \A w \in writes : w.by # "stop"
    BY <1>8 DEF Stop, WritesInv
  <2> QED BY <1>8, <2>1 DEF Stop, WritesInv
<1>9. CASE StopAgain \/ SaveFinished
  <2>1. writes = {} /\ writer # "writing"
    BY <1>9 DEF StopAgain, SaveFinished, RetryFinal, SaveFinal, Drained, WritesInv, TypeOK,
                QueueTypeOK
  <2>2. /\ Write("stop", finalized).by = "stop"
        /\ Write("stop", finalized).track = finalized
    BY DEF Write
  <2> QED BY <1>9, <2>1, <2>2 DEF StopAgain, SaveFinished, RetryFinal, SaveFinal, WritesInv,
                                  trackVars
<1>10. CASE StopRejected
  BY <1>10 DEF StopRejected, DrainRejects, WritesInv, trackVars
<1>11. CASE Platform
  BY <1>11, <1>1 DEF Platform, trackVars
<1>12. CASE Store
  BY <1>12, StoreWrites DEF Store, trackVars
<1> QED BY <1>2, <1>3, <1>4, <1>5, <1>6, <1>7, <1>8, <1>9, <1>10, <1>11, <1>12
        DEF Next, Calls

-----------------------------------------------------------------------------
(* The finished record.                                                    *)
LEMMA DurableStep ==
  ASSUME IInv, [Next]_vars
  PROVE  DurableInv'
<1> USE DEF IInv
<1>1. ASSUME UNCHANGED <<durable, stopping, alive, finalized>> PROVE DurableInv'
  BY <1>1 DEF DurableInv
<1>2. CASE UNCHANGED vars
  BY <1>2, <1>1 DEF vars, trackVars, queueVars
<1>3. CASE Create
  <2>1. durable.status # "finalized"
    BY <1>3 DEF Create, NoTrack, Resumable, Interrupted
  <2> QED BY <1>3, <2>1 DEF Create, ControlInv, DurableInv, queueVars
<1>4. CASE Crash
  BY <1>4 DEF Crash, QueueCrash, DurableInv
<1>5. CASE Start \/ Resume \/ MarkLap \/ FixKept \/ SensorSample \/ Platform
  <2>1. UNCHANGED <<durable, stopping, alive, finalized>>
    BY <1>5 DEF Start, Resume, MarkLap, FixKept, SensorSample, Platform, queueVars, trackVars
  <2> QED BY <2>1, <1>1
<1>6. CASE Pause \/ Tick
  BY <1>6, <1>1 DEF Pause, Tick, trackVars
<1>7. CASE Stop
  BY <1>7 DEF Stop, DurableInv
<1>8. CASE StopAgain \/ SaveFinished \/ StopRejected
  BY <1>8 DEF StopAgain, SaveFinished, StopRejected, RetryFinal, SaveFinal, DrainRejects,
              DurableInv, trackVars
<1>9. CASE Store
  <2>1. UNCHANGED <<alive, finalized>>
    BY <1>9 DEF Store, trackVars
  <2>2. CASE AutosaveLands
    <3>1. stopping # "settled" /\ durable'.status # "finalized" /\ stopping' = stopping
      BY <2>2 DEF AutosaveLands, WritesInv
    <3> QED BY <2>1, <3>1 DEF DurableInv
  <2>3. CASE AutosaveFails
    BY <2>1, <2>3, <1>1 DEF AutosaveFails
  <2>4. CASE FinalLands
    BY <2>1, <2>4 DEF FinalLands, WritesInv, DurableInv
  <2>5. CASE FinalFails
    <3>1. stopping = "saving" /\ stopping' = "failed" /\ durable' = durable
      BY <2>5 DEF FinalFails, AfterFinalFailure, WritesInv
    <3> QED BY <2>1, <3>1 DEF DurableInv
  <2> QED BY <1>9, <2>2, <2>3, <2>4, <2>5 DEF Store, StoreAnswers
<1> QED BY <1>2, <1>3, <1>4, <1>5, <1>6, <1>7, <1>8, <1>9 DEF Next, Calls

-----------------------------------------------------------------------------
(* The chain of pictures.                                                  *)

(* What the chain says of one track x, at whatever place in it.            *)
Before(x) ==
  /\ alive /\ stopping = "no" => Extends(x, Current)
  /\ stopping \in {"draining", "saving", "failed"} => Extends(x, finalized)

LEMMA ChainAsBefore ==
  ChainInv <=> /\ Extends(acked, durable)
               /\ \A w \in writes : Extends(durable, w.track)
               /\ \A w \in writes : w.by = "autosave" => Extends(w.track, pendingSnapshot)
                                                        \/ pendingSnapshot = NoTrack
               /\ Before(durable) /\ Before(pendingSnapshot)
               /\ \A w \in writes : Before(w.track)
BY DEF ChainInv, Before

(* A step that leaves the track alone leaves it before the recording.      *)
LEMMA BeforeStep ==
  ASSUME IInv, TypeOK', Next, ~Create, ~Crash, NEW x \in Track, Before(x)
  PROVE  Before(x)'
<1> USE DEF IInv
<1>1. CASE Stop
  <2>1. Extends(x, Current) /\ Extends(Current, Current')
    BY <1>1, CurrentGrows DEF Stop, Before
  <2>2. Extends(x, Current')
    BY <2>1, ExtendsTransitive, CurrentType, CurrentTypeNext
  <2>3. Extends(x, FinalizeTrack(points, AllSegments, FinalLaps))
    BY <2>1, ExtendsTransitive, CurrentType, FinalType, FinalContinues
  <2>4. stopping' \in {"draining", "saving", "failed"}
          => finalized' = FinalizeTrack(points, AllSegments, FinalLaps)
    BY <1>1 DEF Stop
  <2> QED BY <2>2, <2>3, <2>4 DEF Before
<1>2. CASE ~Stop
  <2>1. /\ finalized' = finalized /\ alive' = alive
        /\ stopping' = "no" => stopping = "no"
        /\ stopping' \in {"draining", "saving", "failed"}
             => stopping \in {"draining", "saving", "failed"}
    <3>1. CASE Start \/ Pause \/ Resume \/ MarkLap
      BY <3>1 DEF Start, Pause, Resume, MarkLap, queueVars
    <3>2. CASE FixKept \/ SensorSample \/ Tick \/ Platform
      BY <3>2 DEF FixKept, SensorSample, Tick, Platform, queueVars, trackVars
    <3>3. CASE StopAgain \/ SaveFinished \/ StopRejected
      BY <3>3 DEF StopAgain, SaveFinished, StopRejected, RetryFinal, SaveFinal,
                  DrainRejects, trackVars
    <3>4. CASE Store
      <4>1. CASE AutosaveLands \/ AutosaveFails
        BY <3>4, <4>1 DEF Store, AutosaveLands, AutosaveFails, trackVars
      <4>2. CASE FinalLands \/ FinalFails
        <5>1. stopping = "saving" /\ stopping' \in {"settled", "failed"}
          BY <4>2 DEF FinalLands, FinalFails, AfterFinalFailure, WritesInv
        <5> QED BY <3>4, <5>1 DEF Store, trackVars
      <4> QED BY <3>4, <4>1, <4>2 DEF Store, StoreAnswers
    <3> QED BY <1>2, <3>1, <3>2, <3>3, <3>4 DEF Next, Calls
  <2>2. Extends(x, Current) => Extends(x, Current')
    BY CurrentGrows, ExtendsTransitive, CurrentType, CurrentTypeNext
  <2> QED BY <2>1, <2>2 DEF Before
<1> QED BY <1>1, <1>2

LEMMA SamePictures ==
  ASSUME IInv, TypeOK', Next, ~Create, ~Crash,
         UNCHANGED <<durable, acked, writes, pendingSnapshot>>
  PROVE  ChainInv'
<1> USE DEF IInv
<1>1. /\ durable \in Track /\ pendingSnapshot \in Track
      /\ \A w \in writes : w.track \in Track
  BY DEF TypeOK, QueueTypeOK
<1>2. \A x \in Track : Before(x) => Before(x)'
  BY BeforeStep
<1> QED BY <1>1, <1>2, ChainAsBefore DEF ChainInv, Before

LEMMA CreateChain ==
  ASSUME IInv, TypeOK', Create
  PROVE  ChainInv'
<1> USE DEF IInv
<1>1. writes = {} /\ pendingSnapshot = NoTrack
  BY DEF Create, ControlInv, WritesInv, TypeOK, QueueTypeOK
<1>2. /\ points' = durable.points /\ segments' = durable.segments
      /\ laps' = durable.laps /\ segmentStart' = 0
  BY DEF Create, Restore, Blank
<1>3. AllSegments' = durable.segments
  BY <1>2 DEF AllSegments, SegmentCaught
<1>4. /\ Current'.points = durable.points /\ Current'.segments = durable.segments
      /\ Current'.laps = durable.laps
  BY <1>2, <1>3 DEF Current, Snapshot
<1>5. durable.status # "finalized"
  BY DEF Create, NoTrack, Resumable, Interrupted
<1>6. Extends(durable, durable)
  BY ExtendsReflexive DEF TypeOK, QueueTypeOK
<1>7. Extends(durable, Current')
  BY <1>4, <1>5, <1>6 DEF Extends
<1>8. Extends(NoTrack, Current')
  BY NoTrackLeast, CurrentTypeNext
<1>9. stopping' = "no" /\ UNCHANGED <<durable, acked, writes, pendingSnapshot>>
  BY DEF Create, queueVars, ControlInv
<1> QED BY <1>1, <1>7, <1>8, <1>9 DEF ChainInv

LEMMA CrashChain ==
  ASSUME IInv, Crash
  PROVE  ChainInv'
<1> USE DEF IInv
<1>1. durable' \in {durable} \cup {w.track : w \in writes}
  BY DEF Crash, QueueCrash
<1>2. Extends(acked, durable')
  <2>1. CASE durable' = durable
    BY <2>1 DEF ChainInv
  <2>2. CASE durable' # durable
    <3> PICK w \in writes : durable' = w.track
      BY <1>1, <2>2
    <3>1. acked \in Track /\ durable \in Track /\ w.track \in Track
      BY DEF TypeOK, QueueTypeOK
    <3> QED BY <3>1, ExtendsTransitive DEF ChainInv
  <2> QED BY <2>1, <2>2
<1> QED BY <1>2 DEF Crash, QueueCrash, ChainInv

LEMMA PictureChain ==
  ASSUME IInv, TypeOK', Pause \/ Tick
  PROVE  ChainInv'
<1> USE DEF IInv
<1> DEFINE picture == Snapshot(IF Pause THEN "paused" ELSE status)
<1>1. /\ EnqueueSave(picture)
      /\ UNCHANGED <<durable, acked, stopping, alive>>
  BY DEF Pause, Tick, trackVars
<1>2. stopping = "no" /\ alive
  BY DEF Pause, Tick, ControlInv
<1>3. /\ picture \in Track /\ Extends(picture, Current)
      /\ \A x \in Track : Extends(x, Current) => Extends(x, picture)
  BY SnapshotIsCurrent, SnapshotContinues
<1> HIDE DEF picture
<1>4. /\ durable \in Track /\ pendingSnapshot \in Track
      /\ \A w \in writes : w.track \in Track
  BY DEF TypeOK, QueueTypeOK
<1>5. Next /\ ~Create /\ ~Crash
  BY <1>2 DEF Next, Calls, Pause, Tick, Create, Crash, trackVars
<1>6. \A x \in Track : Extends(x, Current) => Extends(x, Current')
  BY <1>5, CurrentGrows, CurrentType, CurrentTypeNext, ExtendsTransitive
<1>7. CASE UNCHANGED <<writes, pendingSnapshot, writer>>
  BY <1>1, <1>5, <1>7, SamePictures
<1>8. CASE pendingSnapshot' = picture /\ UNCHANGED <<writes, writer>>
  BY <1>1, <1>2, <1>3, <1>4, <1>6, <1>8 DEF ChainInv
<1>9. CASE /\ writer = "idle" /\ pendingSnapshot' = NoTrack
           /\ writes' = writes \cup {Write("autosave", picture)}
  <2>1. writes' = {Write("autosave", picture)}
    BY <1>2, <1>9 DEF WritesInv, TypeOK, QueueTypeOK
  <2>2. Write("autosave", picture).track = picture
    BY DEF Write
  <2>3. Extends(durable, picture) /\ Extends(durable, Current')
    BY <1>2, <1>3, <1>4, <1>6 DEF ChainInv
  <2>4. Extends(picture, Current') /\ Extends(NoTrack, Current')
    BY <1>3, <1>6, NoTrackLeast, CurrentTypeNext
  <2> QED BY <1>1, <1>2, <1>9, <2>1, <2>2, <2>3, <2>4 DEF ChainInv
<1> QED BY <1>1, <1>7, <1>8, <1>9 DEF EnqueueSave

LEMMA FinalSaveChain ==
  ASSUME IInv, TypeOK', StopAgain \/ SaveFinished
  PROVE  ChainInv'
<1> USE DEF IInv
<1>1. /\ stopping \in {"draining", "failed"} /\ stopping' = "saving"
      /\ writes' = writes \cup {Write("stop", finalized)}
      /\ UNCHANGED <<durable, acked, pendingSnapshot, finalized>>
  BY DEF StopAgain, SaveFinished, RetryFinal, SaveFinal, trackVars
<1>2. writes = {}
  BY DEF StopAgain, SaveFinished, RetryFinal, SaveFinal, Drained, WritesInv, TypeOK,
         QueueTypeOK
<1>3. /\ Write("stop", finalized).by = "stop"
      /\ Write("stop", finalized).track = finalized
  BY DEF Write
<1>4. Extends(finalized, finalized)
  BY ExtendsReflexive DEF TypeOK, TrackTypeOK
<1> QED BY <1>1, <1>2, <1>3, <1>4 DEF ChainInv

LEMMA StoreChain ==
  ASSUME IInv, TypeOK', Store
  PROVE  ChainInv'
<1> USE DEF IInv
<1>1. Next /\ ~Create /\ ~Crash
  <2>1. alive' = alive /\ session' = session
    BY DEF Store, trackVars
  <2>2. ~Crash
    BY <2>1 DEF Crash
  <2>3. ~Create
    BY <2>1 DEF Create, TypeOK, TrackTypeOK
  <2> QED BY <2>2, <2>3 DEF Next
<1>2. \A x \in Track : Before(x) => Before(x)'
  BY <1>1, BeforeStep
<1>3. /\ durable \in Track /\ pendingSnapshot \in Track /\ acked \in Track
      /\ \A w \in writes : w.track \in Track
  BY DEF TypeOK, QueueTypeOK
<1>4. NoTrack \in Track /\ Before(NoTrack)'
  BY NoTrackType, NoTrackLeast, CurrentTypeNext DEF Before, TypeOK, TrackTypeOK
<1>5. ASSUME NEW w \in writes, w.by = "autosave", ContinueLoop(w) \/ BreakLoop(w),
             \/ durable' = w.track /\ acked' = w.track
             \/ durable' = durable /\ acked' = acked
      PROVE  ChainInv'
  <2>1. writes \ {w} = {}
    BY <1>5 DEF WritesInv
  <2>2. Extends(acked', durable') /\ Before(durable)'
    <3>1. CASE durable' = w.track /\ acked' = w.track
      BY <1>2, <1>3, <3>1, ExtendsReflexive, ChainAsBefore DEF Before
    <3>2. CASE durable' = durable /\ acked' = acked
      BY <1>2, <1>3, <3>2, ChainAsBefore DEF Before
    <3> QED BY <1>5, <3>1, <3>2
  <2>3. CASE writes' = {} /\ UNCHANGED pendingSnapshot
    <3>1. Before(pendingSnapshot)'
      BY <1>2, <1>3, <2>3, ChainAsBefore DEF Before
    <3> QED BY <2>2, <2>3, <3>1, ChainAsBefore DEF ChainInv, Before
  <2>4. CASE /\ pendingSnapshot # NoTrack
             /\ writes' = {Write("autosave", pendingSnapshot)}
             /\ pendingSnapshot' = NoTrack
    <3>1. /\ Write("autosave", pendingSnapshot).track = pendingSnapshot
      BY DEF Write
    <3>2. Extends(w.track, pendingSnapshot)
      BY <1>5, <2>4 DEF ChainInv
    <3>3. Extends(durable', pendingSnapshot)
      BY <1>3, <1>5, <3>2, ExtendsTransitive DEF ChainInv
    <3>4. /\ stopping' \in {"draining", "saving", "failed"} => Extends(pendingSnapshot, finalized')
          /\ alive' /\ stopping' = "no" => Extends(pendingSnapshot, Current')
      BY <1>2, <1>3, ChainAsBefore DEF Before
    <3> QED BY <1>4, <2>2, <2>4, <3>1, <3>3, <3>4 DEF ChainInv, Before
  <2> QED BY <1>5, <2>1, <2>3, <2>4 DEF ContinueLoop, BreakLoop
<1>6. CASE AutosaveLands \/ AutosaveFails
  BY <1>5, <1>6 DEF AutosaveLands, AutosaveFails
<1>7. CASE FinalLands \/ FinalFails
  <2> PICK w \in writes :
        /\ w.by = "stop" /\ writes' = writes \ {w} /\ UNCHANGED pendingSnapshot
        /\ \/ durable' = w.track /\ acked' = w.track /\ stopping' = "settled"
           \/ durable' = durable /\ acked' = acked
    BY <1>7 DEF FinalLands, FinalFails
  <2>1. writes' = {}
    BY DEF WritesInv
  <2>2. Extends(acked', durable')
    BY <1>3, ExtendsReflexive DEF ChainInv
  <2>3. stopping' # "no"
    BY <1>7 DEF FinalLands, FinalFails, AfterFinalFailure
  <2>4. CASE stopping' = "settled"
    BY <2>1, <2>2, <2>4 DEF ChainInv
  <2>5. CASE stopping' # "settled"
    <3>1. Before(durable)' /\ Before(pendingSnapshot)'
      BY <1>2, <1>3, <2>5, ChainAsBefore DEF Before
    <3> QED BY <2>1, <2>2, <2>3, <3>1 DEF ChainInv, Before
  <2> QED BY <2>4, <2>5
<1> QED BY <1>6, <1>7 DEF Store, StoreAnswers

LEMMA ChainStep ==
  ASSUME IInv, TypeOK', [Next]_vars
  PROVE  ChainInv'
<1> USE DEF IInv
<1>1. CASE UNCHANGED vars
  BY <1>1 DEF ChainInv, vars, queueVars, trackVars, Current, Snapshot, AllSegments,
              SegmentCaught
<1>2. CASE Create
  BY <1>2, CreateChain
<1>3. CASE Crash
  BY <1>3, CrashChain
<1>4. CASE Pause \/ Tick
  BY <1>4, PictureChain
<1>5. CASE StopAgain \/ SaveFinished
  BY <1>5, FinalSaveChain
<1>6. CASE Store
  BY <1>6, StoreChain
<1>7. CASE Next /\ ~Create /\ ~Crash /\ ~(Pause \/ Tick) /\ ~(StopAgain \/ SaveFinished) /\ ~Store
  <2>1. UNCHANGED <<durable, acked, writes, pendingSnapshot>>
    BY <1>7 DEF Next, Calls, Start, Resume, MarkLap, Stop, StopRejected, DrainRejects,
                FixKept, SensorSample, Platform, queueVars
  <2> QED BY <1>7, <2>1, SamePictures
<1> QED BY <1>1, <1>2, <1>3, <1>4, <1>5, <1>6, <1>7

-----------------------------------------------------------------------------
(* The theorems.                                                           *)
LEMMA InitInv == Init => IInv
<1> SUFFICES ASSUME Init PROVE IInv
  OBVIOUS
<1>1. TypeOK
  <2>1. QueueTypeOK
    BY NoTrackType DEF Init, QueueTypeOK
  <2>2. WatchTypeOK
    BY DEF Init, WatchPristine, WatchTypeOK, None
  <2>3. TrackTypeOK
    <3>1. session \in Nat /\ sampled \in Nat /\ segmentStart \in Nat /\ lapStart \in Nat
      BY DEF Init
    <3>2. alive \in BOOLEAN /\ started \in BOOLEAN /\ timer \in BOOLEAN
      BY DEF Init
    <3>3. points \in Seq(Point) /\ segments \in Seq(Segment) /\ laps \in Seq(Span)
      BY DEF Init
    <3>4. pendingSamples \subseteq Sample
      BY DEF Init
    <3> QED BY <3>1, <3>2, <3>3, <3>4, NoTrackType, NoIdType DEF Init, TrackTypeOK, TrackStatus
  <2> QED BY <2>1, <2>2, <2>3 DEF TypeOK
<1>2. ControlInv
  BY DEF Init, ControlInv
<1>3. WritesInv
  BY DEF Init, WritesInv, NoTrack
<1>4. DurableInv
  BY DEF Init, DurableInv
<1>5. ChainInv
  <2>1. Extends(NoTrack, NoTrack)
    BY NoTrackType, ExtendsReflexive
  <2> QED BY <2>1 DEF Init, ChainInv
<1> QED BY <1>1, <1>2, <1>3, <1>4, <1>5 DEF IInv

LEMMA StepInv == IInv /\ [Next]_vars => IInv'
<1> SUFFICES ASSUME IInv, [Next]_vars PROVE IInv'
  OBVIOUS
<1>1. TypeOK'
  BY QueueTypeStep, WatchTypeStep, TrackTypeStep DEF IInv, TypeOK
<1> QED BY <1>1, ControlStep, WritesStep, DurableStep, ChainStep DEF IInv

(* The inductive invariant: at every moment the stored record, the write   *)
(* in flight, the picture waiting and the recording continue one another.  *)
THEOREM RecorderInvariant == Spec => []IInv
BY InitInv, StepInv, PTL DEF Spec

(* The autosave queue and the final save of stop() never have two writes   *)
(* in flight, whatever the store does with them.                           *)
THEOREM OneWrite == Spec => []OneWriteInFlight
<1>1. IInv => OneWriteInFlight
  <2> SUFFICES ASSUME IInv PROVE OneWriteInFlight
    OBVIOUS
  <2>1. CASE writes = {}
    BY <2>1, FS_EmptySet DEF OneWriteInFlight
  <2>2. CASE writes # {}
    <3> PICK w \in writes : TRUE
      BY <2>2
    <3>1. writes = {w}
      BY DEF IInv, WritesInv
    <3>2. Cardinality({w}) = 1
      BY FS_Singleton
    <3> QED BY <3>1, <3>2 DEF OneWriteInFlight
  <2> QED BY <2>1, <2>2
<1> QED BY <1>1, RecorderInvariant, PTL

(* A stop() that resolved has left its finished track in the store, and    *)
(* nothing that could still replace it.                                    *)
THEOREM StopStores == Spec => []StoppedMeansStored
<1>1. IInv => StoppedMeansStored
  <2> SUFFICES ASSUME IInv, stopping = "settled", HasStore
               PROVE  durable = finalized /\ writes = {}
    BY DEF StoppedMeansStored
  <2>1. durable = finalized
    BY DEF IInv, DurableInv
  <2>2. \A w \in writes : w.by # "autosave" /\ w.by # "stop"
    BY DEF IInv, WritesInv
  <2> QED BY <2>1, <2>2 DEF IInv, TypeOK, QueueTypeOK
<1> QED BY <1>1, RecorderInvariant, PTL

(* The same order inside and outside the refinement.                       *)
LEMMA TripExtends ==
  ASSUME NEW a, NEW b
  PROVE  Trip!Extends(a, b) <=> Extends(a, b)
BY DEF Trip!Extends, Extends

LEMMA DurableAdvances ==
  ASSUME IInv, [Next]_vars
  PROVE  Trip!Next \/ UNCHANGED <<durable, acked>>
<1> USE DEF IInv
<1>1. ASSUME Extends(durable, durable'), acked' \in {acked, durable'}
      PROVE  Trip!Next
  BY <1>1, TripExtends DEF Trip!Next, Trip!Advance
<1>2. CASE Crash
  <2>1. durable' \in {durable} \cup {w.track : w \in writes} /\ acked' = acked
    BY <1>2 DEF Crash, QueueCrash
  <2>2. CASE durable' = durable
    BY <2>1, <2>2
  <2>3. CASE durable' # durable
    <3>1. Extends(durable, durable')
      BY <2>1, <2>3 DEF ChainInv
    <3> QED BY <2>1, <3>1, <1>1
  <2> QED BY <2>2, <2>3
<1>3. CASE Store
  <2>1. CASE AutosaveLands \/ FinalLands
    <3>1. Extends(durable, durable') /\ acked' = durable'
      BY <2>1 DEF AutosaveLands, FinalLands, ChainInv
    <3> QED BY <3>1, <1>1
  <2>2. CASE AutosaveFails \/ FinalFails
    BY <2>2 DEF AutosaveFails, FinalFails
  <2> QED BY <1>3, <2>1, <2>2 DEF Store, StoreAnswers
<1>4. CASE UNCHANGED vars
  BY <1>4 DEF vars, queueVars
<1>5. CASE Next /\ ~Crash /\ ~Store
  BY <1>5 DEF Next, Calls, Create, Start, Pause, Resume, MarkLap, Stop, StopAgain,
              SaveFinished, StopRejected, RetryFinal, SaveFinal, DrainRejects, FixKept,
              SensorSample, Tick, Platform, queueVars
<1> QED BY <1>2, <1>3, <1>4, <1>5

(* Recorder implements DurableTrip: for every store, clock and listener,   *)
(* every crash and every number of sessions, the stored record only grows, *)
(* a finished one is never touched, and what was reported stored is kept.  *)
THEOREM RecorderImplementsDurableTrip == Spec => DurableTripSpec
<1>1. Init => Trip!Init
  <2>1. Trip!NoTrack = NoTrack
    BY DEF Trip!NoTrack, NoTrack
  <2> QED BY <2>1 DEF Init, Trip!Init
<1>2. IInv /\ [Next]_vars => [Trip!Next]_<<durable, acked>>
  BY DurableAdvances
<1> QED BY <1>1, <1>2, RecorderInvariant, PTL DEF Spec, DurableTripSpec, Trip!Spec

(* What a save reported successful stays part of the stored record.        *)
THEOREM SavedIsKept == Spec => []AckedIsDurable
<1>1. IInv => AckedIsDurable
  <2>1. Trip!Extends(acked, durable) <=> Extends(acked, durable)
    BY TripExtends
  <2> QED BY <2>1 DEF IInv, ChainInv, AckedIsDurable, Trip!PromiseKept
<1> QED BY <1>1, RecorderInvariant, PTL

-----------------------------------------------------------------------------
(* What is held of the platform.                                           *)

(* Nothing is held, and nothing asked for under the current generation is  *)
(* still to come, unless the recorder watches; sensors run only while they *)
(* are wanted, and one lease is asked for per generation.                  *)
HoldInv ==
  /\ status # "recording" =>
       ~sensorsDesired /\ leases = {} /\ watchId = None /\ generation \notin lockRequests
  /\ ~sensorsDesired => active = {} /\ \A s \in Sensors : generation \notin starting[s]
  /\ generation \in lockRequests => leases = {}
  /\ leases \subseteq {wakeLock}
  /\ \A g \in lockRequests : g <= generation
  /\ \A s \in Sensors : \A g \in starting[s] : g <= generation

LEMMA StopWatchingHolds ==
  ASSUME TypeOK, HoldInv, StopWatching, status' # "recording"
  PROVE  HoldInv'
<1>1. /\ generation \in Nat /\ generation' = generation + 1
      /\ watchId' = None /\ leases' = {} /\ sensorsDesired' = FALSE /\ active' = {}
      /\ lockRequests' = lockRequests /\ starting' = starting
  BY DEF StopWatching, HoldInv, TypeOK, WatchTypeOK
<1>2. \A g \in lockRequests : g \in Nat /\ g <= generation
  BY DEF HoldInv, TypeOK, WatchTypeOK
<1>3. \A s \in Sensors : \A g \in starting[s] : g \in Nat /\ g <= generation
  BY DEF HoldInv, TypeOK, WatchTypeOK
<1>4. \A g \in lockRequests : g # generation' /\ g <= generation'
  BY <1>1, <1>2
<1>5. \A s \in Sensors : \A g \in starting[s] : g # generation' /\ g <= generation'
  BY <1>1, <1>3
<1> QED BY <1>1, <1>4, <1>5 DEF HoldInv

LEMMA BeginWatchingHolds ==
  ASSUME TypeOK, HoldInv, status # "recording", status' = "recording",
         NEW supported, NEW thrown, BeginWatching(supported, thrown)
  PROVE  HoldInv'
<1>1. /\ generation \in Nat /\ generation' = generation /\ leases' = leases
      /\ active' = active /\ wakeLock' = wakeLock
      /\ leases = {} /\ active = {} /\ ~sensorsDesired
  BY DEF BeginWatching, HoldInv, TypeOK, WatchTypeOK
<1>2. CASE UNCHANGED <<lockRequests, sensorsDesired, starting>>
  BY <1>1, <1>2 DEF HoldInv
<1>3. CASE AcquireWakeLock /\ StartSensors
  <2>1. \A g \in lockRequests' : g <= generation'
    BY <1>1, <1>3 DEF AcquireWakeLock, HoldInv
  <2>2. \A s \in Sensors : \A g \in starting'[s] : g <= generation'
    BY <1>1, <1>3 DEF StartSensors, HoldInv
  <2>3. sensorsDesired'
    BY <1>3 DEF StartSensors
  <2> QED BY <1>1, <2>1, <2>2, <2>3 DEF HoldInv
<1> QED BY <1>2, <1>3 DEF BeginWatching

LEMMA PlatformHolds ==
  ASSUME TypeOK, HoldInv, PlatformAnswers, status' = status
  PROVE  HoldInv'
<1>1. CASE LockAnswered
  <2>1. PICK g \in lockRequests :
          /\ lockRequests' = lockRequests \ {g}
          /\ \/ UNCHANGED <<wakeLock, leases>>
             \/ g = generation /\ wakeLock' = g /\ leases' = leases \cup {g}
    BY <1>1 DEF LockAnswered, LeaseCurrent
  <2>2. UNCHANGED <<generation, watchId, sensorsDesired, starting, active>>
    BY <1>1 DEF LockAnswered
  <2>3. CASE UNCHANGED <<wakeLock, leases>>
    BY <2>1, <2>2, <2>3 DEF HoldInv
  <2>4. CASE g = generation /\ wakeLock' = g /\ leases' = leases \cup {g}
    <3>1. leases = {} /\ status = "recording"
      BY <2>4 DEF HoldInv
    <3>2. leases' = {g} /\ generation' \notin lockRequests'
      BY <2>1, <2>2, <2>4, <3>1
    <3> QED BY <2>1, <2>2, <2>4, <3>1, <3>2 DEF HoldInv
  <2> QED BY <2>1, <2>3, <2>4
<1>2. CASE LockDropped
  BY <1>2 DEF LockDropped, HoldInv
<1>3. ASSUME NEW s \in Sensors, NEW g \in starting[s],
             starting' = [starting EXCEPT ![s] = @ \ {g}],
             UNCHANGED <<generation, watchId, lockRequests, wakeLock, leases, sensorsDesired>>,
             \/ active' = active
             \/ StopLateSensor(g) /\ active' = active \ {s}
             \/ ~StopLateSensor(g) /\ active' = active \cup {s}
      PROVE  HoldInv'
  <2>1. \A r \in Sensors : starting'[r] \subseteq starting[r]
    BY <1>3 DEF TypeOK, WatchTypeOK
  <2>2. ~sensorsDesired => active' = {}
    <3>1. ~sensorsDesired => g # generation /\ active = {}
      BY DEF HoldInv
    <3> QED BY <1>3, <3>1 DEF StopLateSensor
  <2>3. /\ \A r \in Sensors : \A h \in starting'[r] : h <= generation'
        /\ ~sensorsDesired' => \A r \in Sensors : generation' \notin starting'[r]
    BY <1>3, <2>1 DEF HoldInv
  <2> QED BY <1>3, <2>2, <2>3 DEF HoldInv
<1>4. CASE SensorStarted \/ SensorStartFails
  BY <1>3, <1>4 DEF SensorStarted, SensorStartFails
<1> QED BY <1>1, <1>2, <1>4 DEF PlatformAnswers

LEMMA HoldStep ==
  ASSUME IInv, HoldInv, [Next]_vars
  PROVE  HoldInv'
<1> USE DEF IInv
<1>1. ASSUME UNCHANGED watchVars, status' = status PROVE HoldInv'
  BY <1>1 DEF HoldInv, watchVars
<1>2. CASE UNCHANGED vars
  BY <1>2, <1>1 DEF vars, trackVars
<1>3. CASE Create
  <2>1. status = "finalized" /\ status' = "finalized" /\ UNCHANGED watchVars
    BY <1>3 DEF Create, Blank, ControlInv
  <2> QED BY <2>1, <1>1
<1>4. CASE Crash
  BY <1>4 DEF Crash, Blank, WatchCrash, HoldInv
<1>5. CASE Start \/ Resume
  <2>1. status # "recording" /\ status' = "recording"
    BY <1>5 DEF Start, Resume, ControlInv
  <2>2. PICK outcome \in WatchOutcomes : BeginWatching(outcome[1], outcome[2])
    BY <1>5 DEF Start, Resume
  <2> QED BY <2>1, <2>2, BeginWatchingHolds
<1>6. CASE Pause \/ Stop
  BY <1>6, StopWatchingHolds DEF Pause, Stop
<1>7. CASE Platform
  BY <1>7, PlatformHolds DEF Platform, trackVars
<1>8. CASE MarkLap \/ FixKept \/ SensorSample \/ StopAgain \/ SaveFinished \/ StopRejected
             \/ Tick \/ Store
  BY <1>8, <1>1 DEF MarkLap, FixKept, SensorSample, StopAgain, SaveFinished, StopRejected,
                    Tick, Store, trackVars
<1> QED BY <1>2, <1>3, <1>4, <1>5, <1>6, <1>7, <1>8 DEF Next, Calls

LEMMA HoldStart == Init => HoldInv
BY DEF Init, WatchPristine, HoldInv

(* Whenever the recorder is not recording, nothing of the platform is      *)
(* held, and a lock that is held is the one releaseWakeLock gives back.    *)
THEOREM NothingIsHeldWhenIdle == Spec => []NothingHeldWhenIdle
<1>1. HoldInv => NothingHeldWhenIdle
  BY DEF HoldInv, NothingHeldWhenIdle
<1> QED BY <1>1, InitInv, StepInv, HoldStart, HoldStep, PTL DEF Spec

(* While a recording goes on, no late start of an earlier session stops a  *)
(* sensor that runs for it.                                                *)
THEOREM SensorsAreNotStolen == Spec => SensorNotStolen
<1>1. ASSUME IInv, HoldInv, [Next]_vars, status = "recording", status' = "recording"
      PROVE  active \subseteq active'
  <2>1. CASE UNCHANGED active
    BY <2>1
  <2>2. CASE SensorStarted
    <3>0. PICK s \in Sensors : \E g \in starting[s] :
            active' = IF StopLateSensor(g) THEN active \ {s} ELSE active \cup {s}
      BY <2>2 DEF SensorStarted
    <3>1. PICK g \in starting[s] :
            active' = IF StopLateSensor(g) THEN active \ {s} ELSE active \cup {s}
      BY <3>0
    <3>2. StopLateSensor(g) => active = {}
      BY <1>1 DEF StopLateSensor, HoldInv
    <3> QED BY <3>1, <3>2
  <2>3. CASE Pause \/ Stop \/ Crash \/ Create
    BY <1>1, <2>3 DEF Pause, Stop, Crash, Create, Blank
  <2>4. CASE Platform /\ ~SensorStarted
    BY <2>4 DEF Platform, PlatformAnswers, LockAnswered, LockDropped, SensorStartFails
  <2>5. CASE Start \/ Resume
    BY <2>5 DEF Start, Resume, BeginWatching
  <2>6. CASE \/ MarkLap \/ FixKept \/ SensorSample \/ StopAgain \/ SaveFinished \/ StopRejected
             \/ Tick \/ Store \/ UNCHANGED vars
    BY <2>6 DEF MarkLap, FixKept, SensorSample, StopAgain, SaveFinished, StopRejected,
                Tick, Store, vars, watchVars
  <2> QED BY <1>1, <2>1, <2>2, <2>3, <2>4, <2>5, <2>6 DEF Next, Calls
<1>2. IInv /\ HoldInv /\ [Next]_vars =>
        [status = "recording" /\ status' = "recording" => active \subseteq active']_vars
  BY <1>1
<1> QED BY <1>2, InitInv, StepInv, HoldStart, HoldStep, PTL DEF Spec, SensorNotStolen

-----------------------------------------------------------------------------
(* What can be resumed.                                                    *)

(* The segments partition the first n points.                              *)
Partition(segs, n) ==
  /\ \A i \in 1..Len(segs) :
       /\ segs[i].startIndex >= 1
       /\ segs[i].startIndex <= segs[i].endIndex
       /\ segs[i].endIndex <= n
  /\ \A i \in 2..Len(segs) : segs[i].startIndex = segs[i - 1].endIndex + 1
  /\ IF segs = << >>
       THEN n = 0
       ELSE segs[1].startIndex = 1 /\ segs[Len(segs)].endIndex = n

(* What the closed segments cover: all, or all before the open segment.    *)
Covered == IF segmentStart = 0 THEN Len(points) ELSE segmentStart - 1

GeometryInv ==
  /\ Partition(segments, Covered)
  /\ segmentStart <= Len(points) + 1
  /\ status = "recording" => segmentStart # 0
  /\ TemporalOrder(points)
  /\ LapRanges(points, laps)
  /\ lapStart >= 1 /\ lapStart <= Len(points) + 1

LEMMA SpanType ==
  ASSUME NEW segs \in Seq(Segment), NEW i \in 1..Len(segs)
  PROVE  segs[i].startIndex \in Nat /\ segs[i].endIndex \in Nat
<1>1. segs[i] \in Segment
  OBVIOUS
<1> QED BY <1>1 DEF Segment

LEMMA PartitionIsValid ==
  ASSUME NEW ps \in Seq(Point), NEW segs \in Seq(Segment)
  PROVE  Partition(segs, Len(ps)) <=> SegmentRanges(ps, segs) /\ SegmentsCoverPoints(ps, segs)
<1>1. Len(segs) \in Nat /\ Len(ps) \in Nat /\ (segs = << >> <=> Len(segs) = 0)
      /\ (ps = << >> <=> Len(ps) = 0)
  OBVIOUS
<1>2. \A i \in 1..Len(segs) : segs[i].startIndex \in Nat /\ segs[i].endIndex \in Nat
  BY SpanType
<1>3. ASSUME Partition(segs, Len(ps))
      PROVE  SegmentRanges(ps, segs) /\ SegmentsCoverPoints(ps, segs)
  <2>1. ASSUME NEW i \in 1..Len(segs), i > 1
        PROVE  segs[i].startIndex > segs[i - 1].endIndex
    <3>1. i \in 2..Len(segs) /\ i - 1 \in 1..Len(segs)
      BY <2>1, <1>1
    <3>2. segs[i].startIndex = segs[i - 1].endIndex + 1
      BY <1>3, <3>1 DEF Partition
    <3> QED BY <3>1, <3>2, <1>2
  <2>2. SegmentRanges(ps, segs)
    BY <1>3, <2>1 DEF Partition, SegmentRanges
  <2> QED BY <1>1, <1>3, <2>2 DEF Partition, SegmentsCoverPoints
<1>4. ASSUME SegmentRanges(ps, segs), SegmentsCoverPoints(ps, segs)
      PROVE  Partition(segs, Len(ps))
  BY <1>1, <1>4 DEF Partition, SegmentRanges, SegmentsCoverPoints
<1> QED BY <1>3, <1>4

LEMMA PartitionGrows ==
  ASSUME NEW segs \in Seq(Segment), NEW m \in Nat, NEW n \in Nat, NEW seg \in Segment,
         Partition(segs, m), m < n, seg.startIndex = m + 1, seg.endIndex = n
  PROVE  Partition(Append(segs, seg), n)
<1> DEFINE more == Append(segs, seg)
<1>1. /\ Len(segs) \in Nat /\ Len(more) = Len(segs) + 1 /\ more # << >>
      /\ \A i \in 1..Len(segs) : more[i] = segs[i]
      /\ more[Len(segs) + 1] = seg
  OBVIOUS
<1>2. \A i \in 1..Len(segs) : segs[i].startIndex \in Nat /\ segs[i].endIndex \in Nat
  BY SpanType
<1> HIDE DEF more
<1>3. ASSUME NEW i \in 1..Len(more)
      PROVE  /\ more[i].startIndex >= 1
             /\ more[i].startIndex <= more[i].endIndex
             /\ more[i].endIndex <= n
  <2>1. CASE i \in 1..Len(segs)
    BY <1>1, <1>2, <2>1 DEF Partition
  <2>2. CASE i = Len(segs) + 1
    BY <1>1, <2>2
  <2> QED BY <1>1, <2>1, <2>2
<1>4. segs # << >> => Len(segs) \in 1..Len(segs) /\ segs[Len(segs)].endIndex = m
                      /\ segs[1].startIndex = 1 /\ 1 \in 1..Len(segs)
  BY DEF Partition
<1>5. segs = << >> => Len(segs) = 0 /\ m = 0
  BY DEF Partition
<1>6. ASSUME NEW i \in 2..Len(more)
      PROVE  more[i].startIndex = more[i - 1].endIndex + 1
  <2>1. CASE i \in 2..Len(segs)
    <3>1. i \in 1..Len(segs) /\ i - 1 \in 1..Len(segs)
      BY <2>1, <1>1
    <3> QED BY <1>1, <2>1, <3>1 DEF Partition
  <2>2. CASE i = Len(segs) + 1
    <3>1. segs # << >> /\ i - 1 = Len(segs)
      BY <1>1, <1>5, <2>2
    <3> QED BY <1>1, <1>4, <2>2, <3>1
  <2> QED BY <1>1, <2>1, <2>2
<1>7. more[1].startIndex = 1 /\ more[Len(more)].endIndex = n
  <2>1. CASE segs = << >>
    BY <1>1, <1>5, <2>1
  <2>2. CASE segs # << >>
    BY <1>1, <1>4, <2>2
  <2> QED BY <2>1, <2>2
<1>8. Partition(more, n)
  BY <1>1, <1>3, <1>6, <1>7 DEF Partition
<1> QED BY <1>8 DEF more

(* With the open segment, the segments cover every point.                  *)
LEMMA AllSegmentsCover ==
  ASSUME TypeOK, GeometryInv
  PROVE  Partition(AllSegments, Len(points))
<1>1. /\ Len(points) \in Nat /\ segmentStart \in Nat /\ segments \in Seq(Segment)
      /\ segmentId \in Nat \X Nat
  BY DEF TypeOK, TrackTypeOK
<1>2. CASE SegmentCaught
  <2>1. PICK seg \in Segment : seg = [id |-> segmentId, startIndex |-> segmentStart,
                                      endIndex |-> Len(points)]
    BY <1>1 DEF Segment
  <2>2. /\ AllSegments = Append(segments, seg)
        /\ seg.startIndex = segmentStart /\ seg.endIndex = Len(points)
    BY <1>2, <2>1 DEF AllSegments
  <2>3. /\ segmentStart - 1 \in Nat /\ segmentStart - 1 < Len(points)
        /\ Partition(segments, segmentStart - 1)
        /\ segmentStart = (segmentStart - 1) + 1
    BY <1>1, <1>2 DEF SegmentCaught, GeometryInv, Covered
  <2> QED BY <1>1, <2>2, <2>3, PartitionGrows
<1>3. CASE ~SegmentCaught
  <2>1. AllSegments = segments
    BY <1>3 DEF AllSegments
  <2>2. Covered = Len(points)
    BY <1>1, <1>3 DEF SegmentCaught, GeometryInv, Covered
  <2> QED BY <2>1, <2>2 DEF GeometryInv
<1> QED BY <1>2, <1>3

LEMMA LapAdded ==
  ASSUME NEW ps \in Seq(Point), NEW ls \in Seq(Span), LapRanges(ps, ls),
         NEW from \in Nat, from >= 1, from <= Len(ps)
  PROVE  LapRanges(ps, Append(ls, [startIndex |-> from, endIndex |-> Len(ps)]))
<1>0. [startIndex |-> from, endIndex |-> Len(ps)] \in Span
  BY DEF Span
<1>1. PICK lap \in Span : lap = [startIndex |-> from, endIndex |-> Len(ps)]
  BY <1>0
<1>2. lap.startIndex = from /\ lap.endIndex = Len(ps)
  BY <1>1
<1>3. /\ Len(ls) \in Nat /\ Len(Append(ls, lap)) = Len(ls) + 1 /\ Len(ps) \in Nat
      /\ \A i \in 1..Len(ls) : Append(ls, lap)[i] = ls[i]
      /\ Append(ls, lap)[Len(ls) + 1] = lap
  OBVIOUS
<1>4. LapRanges(ps, Append(ls, lap))
  BY <1>2, <1>3 DEF LapRanges
<1> QED BY <1>1, <1>4

(* What the recorder holds in memory is a track that finalizeTrack takes.  *)
LEMMA RecordingIsValid ==
  ASSUME TypeOK, GeometryInv
  PROVE  /\ ValidTrackGeometry(points, AllSegments, laps)
         /\ ValidTrackGeometry(points, AllSegments, FinalLaps)
<1>1. /\ points \in Seq(Point) /\ laps \in Seq(Span) /\ lapStart \in Nat
      /\ AllSegments \in Seq(Segment)
  BY AllSegmentsType DEF TypeOK, TrackTypeOK
<1>2. SegmentRanges(points, AllSegments) /\ SegmentsCoverPoints(points, AllSegments)
  BY <1>1, AllSegmentsCover, PartitionIsValid
<1>3. LapRanges(points, FinalLaps)
  <2>1. CASE laps # << >> /\ LapPending
    BY <1>1, <2>1, LapAdded DEF GeometryInv, FinalLaps, LapPending
  <2>2. CASE ~(laps # << >> /\ LapPending)
    BY <2>2 DEF GeometryInv, FinalLaps
  <2> QED BY <2>1, <2>2
<1> QED BY <1>2, <1>3 DEF ValidTrackGeometry, GeometryInv

(* A recorder made of a record, or of none, holds what the record holds.   *)
LEMMA RestoredGeometry ==
  ASSUME NEW track \in Track, ValidTrackGeometry(track.points, track.segments, track.laps),
         Restore(track), Blank
  PROVE  GeometryInv'
<1>1. /\ track.points \in Seq(Point) /\ track.segments \in Seq(Segment)
      /\ track.laps \in Seq(Span)
  BY DEF Track
<1>2. /\ points' = track.points /\ segments' = track.segments /\ laps' = track.laps
      /\ lapStart' = LapStartAfter(track) /\ segmentStart' = 0 /\ status' = "finalized"
  BY DEF Restore, Blank
<1>3. Partition(track.segments, Len(track.points))
  BY <1>1, PartitionIsValid DEF ValidTrackGeometry
<1>4. LapStartAfter(track) >= 1 /\ LapStartAfter(track) <= Len(track.points) + 1
  <2>1. CASE track.laps = << >>
    BY <1>1, <2>1 DEF LapStartAfter
  <2>2. CASE track.laps # << >>
    <3>1. Len(track.laps) \in 1..Len(track.laps)
      BY <1>1, <2>2
    <3>2. PICK lap \in Span : lap = track.laps[Len(track.laps)]
      BY <1>1, <3>1
    <3>3. lap.startIndex >= 1 /\ lap.endIndex <= Len(track.points)
          /\ lap.startIndex <= lap.endIndex
      BY <3>1, <3>2 DEF ValidTrackGeometry, LapRanges
    <3>4. LapStartAfter(track) = lap.endIndex + 1
      BY <2>2, <3>2 DEF LapStartAfter
    <3>5. lap.startIndex \in Nat /\ lap.endIndex \in Nat /\ Len(track.points) \in Nat
      BY <1>1 DEF Span
    <3> QED BY <3>3, <3>4, <3>5
  <2> QED BY <2>1, <2>2
<1>5. Covered' = Len(track.points) /\ Len(track.points) \in Nat
  BY <1>1, <1>2 DEF Covered
<1> QED BY <1>2, <1>3, <1>4, <1>5 DEF GeometryInv, ValidTrackGeometry

LEMMA NoTrackIsValid == ValidTrackGeometry(NoTrack.points, NoTrack.segments, NoTrack.laps)
BY DEF NoTrack, ValidTrackGeometry, SegmentRanges, SegmentsCoverPoints, TemporalOrder, LapRanges

(* A point more is after the others, in the open segment, under every lap. *)
LEMMA FixGeometry ==
  ASSUME TypeOK, GeometryInv, FixKept
  PROVE  GeometryInv'
<1>1. PICK g \in registered, t \in Times :
        /\ status = "recording" /\ NotStale(t)
        /\ points' = Append(points, [t |-> t, by |-> <<session, g>>, samples |-> Eligible(t)])
  BY DEF FixKept, CallbackCurrent
<1>2. /\ status' = status /\ segments' = segments /\ laps' = laps
      /\ segmentStart' = segmentStart /\ lapStart' = lapStart
  BY DEF FixKept
<1>3. [t |-> t, by |-> <<session, g>>, samples |-> Eligible(t)] \in Point
  BY DEF TypeOK, TrackTypeOK, WatchTypeOK, Eligible, Point
<1>4. PICK p \in Point : p = [t |-> t, by |-> <<session, g>>, samples |-> Eligible(t)]
  BY <1>3
<1>5. /\ points' = Append(points, p) /\ p.t = t /\ t \in Nat
      /\ points \in Seq(Point) /\ laps \in Seq(Span) /\ lapStart \in Nat /\ segmentStart \in Nat
  BY <1>1, <1>4, RecorderAssumption DEF TypeOK, TrackTypeOK
<1>6. /\ Len(points) \in Nat /\ Len(points') = Len(points) + 1
      /\ \A i \in 1..Len(points) : points'[i] = points[i]
      /\ points'[Len(points) + 1] = p
  BY <1>5
<1>7. segmentStart # 0 /\ Covered' = Covered
  BY <1>1, <1>2 DEF GeometryInv, Covered
<1>8. TemporalOrder(points')
  <2>1. ASSUME NEW i \in 1..(Len(points') - 1)
        PROVE  points'[i].t <= points'[i + 1].t
    <3>1. CASE i \in 1..(Len(points) - 1)
      <4>1. i \in 1..Len(points) /\ i + 1 \in 1..Len(points)
        BY <1>6, <3>1
      <4> QED BY <1>6, <3>1, <4>1 DEF GeometryInv, TemporalOrder
    <3>2. CASE i = Len(points)
      <4>1. points # << >> /\ i \in 1..Len(points)
        BY <1>6, <2>1, <3>2
      <4>2. t >= points[Len(points)].t /\ points[Len(points)].t \in Nat
        <5>1. points[Len(points)] \in Point
          BY <1>5, <3>2, <4>1
        <5> QED BY <1>1, <4>1, <5>1, RecorderAssumption DEF NotStale, Point
      <4> QED BY <1>5, <1>6, <3>2, <4>1, <4>2
    <3> QED BY <1>6, <3>1, <3>2
  <2> QED BY <2>1 DEF TemporalOrder
<1>9. LapRanges(points', laps')
  <2>1. ASSUME NEW i \in 1..Len(laps)
        PROVE  laps[i].endIndex <= Len(points')
    <3>1. laps[i] \in Span
      BY <1>5
    <3>2. laps[i].endIndex \in Nat /\ laps[i].endIndex <= Len(points)
      BY <3>1 DEF Span, GeometryInv, LapRanges
    <3> QED BY <1>6, <3>2
  <2> QED BY <1>2, <2>1 DEF GeometryInv, LapRanges
<1> QED BY <1>2, <1>5, <1>6, <1>7, <1>8, <1>9 DEF GeometryInv

(* What is on its way to the store, is there, or was finished.             *)
Pictures == {durable, pendingSnapshot, finalized} \cup {w.track : w \in writes}

GoodPicture(track) == ValidTrackGeometry(track.points, track.segments, track.laps)

RecoverableInv == GeometryInv /\ \A track \in Pictures : GoodPicture(track)

(* Every picture was taken earlier, or is of the recording as it stands.   *)
LEMMA PicturesMove ==
  ASSUME IInv, [Next]_vars, NEW track \in Pictures'
  PROVE  \/ track \in Pictures
         \/ track = NoTrack
         \/ \E statusNow : track = Snapshot(statusNow)
         \/ Stop /\ track = FinalizeTrack(points, AllSegments, FinalLaps)
<1>1. ASSUME UNCHANGED <<durable, pendingSnapshot, writes>>, finalized' \in {finalized, NoTrack}
      PROVE  track \in Pictures \cup {NoTrack}
  BY <1>1 DEF Pictures
<1>2. CASE UNCHANGED vars
  BY <1>1, <1>2 DEF vars, queueVars, trackVars
<1>3. CASE Create \/ Start \/ Resume \/ MarkLap \/ FixKept \/ SensorSample \/ Platform \/ StopRejected
  BY <1>1, <1>3 DEF Create, Blank, Start, Resume, MarkLap, FixKept, SensorSample, Platform,
                    StopRejected, DrainRejects, queueVars, trackVars
<1>4. CASE Stop
  <2>1. finalized' \in {finalized, FinalizeTrack(points, AllSegments, FinalLaps)}
        /\ UNCHANGED <<durable, pendingSnapshot, writes>>
    BY <1>4 DEF Stop
  <2> QED BY <1>4, <2>1 DEF Pictures
<1>5. CASE StopAgain \/ SaveFinished
  <2>1. /\ writes' = writes \cup {Write("stop", finalized)}
        /\ UNCHANGED <<durable, pendingSnapshot, finalized>>
    BY <1>5 DEF StopAgain, SaveFinished, RetryFinal, SaveFinal, trackVars
  <2>2. Write("stop", finalized).track = finalized
    BY DEF Write
  <2> QED BY <2>1, <2>2 DEF Pictures
<1>6. ASSUME NEW statusNow, EnqueueSave(Snapshot(statusNow)), UNCHANGED <<durable, finalized>>
      PROVE  track \in Pictures \/ track = NoTrack \/ track = Snapshot(statusNow)
  <2>1. Write("autosave", Snapshot(statusNow)).track = Snapshot(statusNow)
    BY DEF Write
  <2> QED BY <1>6, <2>1 DEF EnqueueSave, Pictures
<1>7. CASE Pause \/ Tick
  BY <1>6, <1>7 DEF Pause, Tick, trackVars
<1>8. CASE Store
  <2>1. finalized' = finalized /\ durable' \in {durable} \cup {w.track : w \in writes}
    BY <1>8 DEF Store, StoreAnswers, AutosaveLands, AutosaveFails, FinalLands, FinalFails, trackVars
  <2>2. pendingSnapshot' \in {pendingSnapshot, NoTrack}
    BY <1>8 DEF Store, StoreAnswers, AutosaveLands, AutosaveFails, FinalLands, FinalFails,
                ContinueLoop, BreakLoop
  <2>3. writes' \subseteq writes \cup {Write("autosave", pendingSnapshot)}
    BY <1>8 DEF Store, StoreAnswers, AutosaveLands, AutosaveFails, FinalLands, FinalFails,
                ContinueLoop, BreakLoop
  <2>4. Write("autosave", pendingSnapshot).track = pendingSnapshot
    BY DEF Write
  <2> QED BY <2>1, <2>2, <2>3, <2>4 DEF Pictures
<1>9. CASE Crash
  <2>1. /\ durable' \in {durable} \cup {w.track : w \in writes}
        /\ writes' = {} /\ pendingSnapshot' = NoTrack /\ finalized' = NoTrack
    BY <1>9 DEF Crash, Blank, QueueCrash
  <2> QED BY <2>1 DEF Pictures
<1> QED BY <1>2, <1>3, <1>4, <1>5, <1>7, <1>8, <1>9 DEF Next, Calls

LEMMA GeometryStep ==
  ASSUME IInv, RecoverableInv, [Next]_vars
  PROVE  GeometryInv'
<1> USE DEF IInv, RecoverableInv
<1>1. ASSUME UNCHANGED <<points, segments, laps, segmentStart, lapStart, status>>
      PROVE  GeometryInv'
  BY <1>1 DEF GeometryInv, Covered
<1>2. CASE \/ UNCHANGED vars
           \/ SensorSample \/ StopAgain \/ SaveFinished \/ StopRejected \/ Tick \/ Platform \/ Store
  BY <1>1, <1>2 DEF vars, SensorSample, StopAgain, SaveFinished, StopRejected, Tick, Platform,
                    Store, trackVars
<1>3. CASE Create
  <2>1. durable \in Track /\ GoodPicture(durable)
    BY DEF TypeOK, QueueTypeOK, Pictures
  <2> QED BY <1>3, <2>1, RestoredGeometry DEF Create, GoodPicture
<1>4. CASE Crash
  BY <1>4, NoTrackType, NoTrackIsValid, RestoredGeometry DEF Crash
<1>5. /\ Len(points) \in Nat /\ points \in Seq(Point) /\ laps \in Seq(Span) /\ lapStart \in Nat
  BY DEF TypeOK, TrackTypeOK
<1>6. CASE Start \/ Resume
  <2>1. segmentStart = 0 /\ segmentStart' = Len(points) + 1
        /\ UNCHANGED <<points, segments, laps, lapStart>>
    BY <1>6 DEF Start, Resume, OpenSegment, ControlInv
  <2>2. Covered' = Covered
    BY <1>5, <2>1 DEF Covered
  <2> QED BY <1>5, <2>1, <2>2 DEF GeometryInv
<1>7. Partition(AllSegments, Len(points))
  BY AllSegmentsCover
<1>8. CASE Pause
  <2>1. /\ segments' = AllSegments /\ segmentStart' = 0 /\ status' = "paused"
        /\ UNCHANGED <<points, laps, lapStart>>
    BY <1>8 DEF Pause, CloseSegment
  <2>2. Covered' = Len(points)
    BY <2>1 DEF Covered
  <2> QED BY <1>5, <1>7, <2>1, <2>2 DEF GeometryInv
<1>9. CASE Stop
  <2>1. /\ segments' = AllSegments /\ segmentStart' = 0 /\ status' = "finalized"
        /\ points' = points /\ laps' = FinalLaps /\ lapStart' \in {lapStart, Len(points) + 1}
    BY <1>9 DEF Stop, CloseSegment
  <2>2. Covered' = Len(points)
    BY <2>1 DEF Covered
  <2>3. LapRanges(points, FinalLaps)
    BY RecordingIsValid DEF ValidTrackGeometry
  <2>4. lapStart' >= 1 /\ lapStart' <= Len(points) + 1
    BY <1>5, <2>1 DEF GeometryInv
  <2> QED BY <1>5, <1>7, <2>1, <2>2, <2>3, <2>4 DEF GeometryInv
<1>10. CASE MarkLap
  <2>1. /\ lapStart <= Len(points) /\ lapStart' = Len(points) + 1
        /\ laps' = Append(laps, [startIndex |-> lapStart, endIndex |-> Len(points)])
        /\ UNCHANGED <<points, segments, segmentStart, status>>
    BY <1>10, <1>5 DEF MarkLap, LapPending
  <2>2. LapRanges(points, laps')
    BY <1>5, <2>1, LapAdded DEF GeometryInv
  <2>3. Covered' = Covered
    BY <2>1 DEF Covered
  <2> QED BY <1>5, <2>1, <2>2, <2>3 DEF GeometryInv
<1>11. CASE FixKept
  BY <1>11, FixGeometry
<1> QED BY <1>2, <1>3, <1>4, <1>6, <1>8, <1>9, <1>10, <1>11 DEF Next, Calls

LEMMA RecoverableStart == Init => RecoverableInv
<1> SUFFICES ASSUME Init PROVE RecoverableInv
  OBVIOUS
<1>1. Pictures = {NoTrack}
  BY DEF Init, Pictures
<1>2. GeometryInv
  BY DEF Init, GeometryInv, Covered, Partition, TemporalOrder, LapRanges
<1> QED BY <1>1, <1>2, NoTrackIsValid DEF RecoverableInv, GoodPicture

LEMMA RecoverableStep ==
  ASSUME IInv, RecoverableInv, [Next]_vars
  PROVE  RecoverableInv'
<1>1. GeometryInv'
  BY GeometryStep
<1>2. /\ ValidTrackGeometry(points, AllSegments, laps)
      /\ ValidTrackGeometry(points, AllSegments, FinalLaps)
  BY RecordingIsValid DEF IInv, RecoverableInv
<1>3. ASSUME NEW track \in Pictures' PROVE GoodPicture(track)
  <2>1. CASE track \in Pictures
    BY <2>1 DEF RecoverableInv
  <2>2. CASE track = NoTrack
    BY <2>2, NoTrackIsValid DEF GoodPicture
  <2>3. CASE \E statusNow : track = Snapshot(statusNow)
    BY <1>2, <2>3 DEF Snapshot, GoodPicture
  <2>4. CASE track = FinalizeTrack(points, AllSegments, FinalLaps)
    BY <1>2, <2>4 DEF FinalizeTrack, GoodPicture
  <2> QED BY <2>1, <2>2, <2>3, <2>4, PicturesMove
<1> QED BY <1>1, <1>3 DEF RecoverableInv, GoodPicture

(* What the recorder made is never refused: neither by finalizeTrack when  *)
(* it stops, nor by the recorder that resumes what a crash left.           *)
THEOREM NothingIsRefused == Spec => []Recoverable
<1>1. ASSUME IInv, RecoverableInv PROVE Recoverable
  <2>1. ValidTrackGeometry(points, AllSegments, FinalLaps)
    BY <1>1, RecordingIsValid DEF IInv, RecoverableInv
  <2>2. GoodPicture(durable)
    BY <1>1 DEF RecoverableInv, Pictures
  <2> QED BY <2>1, <2>2 DEF Recoverable, Resumable, GoodPicture
<1>2. IInv /\ RecoverableInv => Recoverable
  BY <1>1
<1> QED BY <1>2, InitInv, StepInv, RecoverableStart, RecoverableStep, PTL DEF Spec

-----------------------------------------------------------------------------
(* What a pause separates.                                                 *)

(* Each segment holds the points of the watch it is named for.             *)
Belongs(ps, segs) ==
  \A i \in 1..Len(segs) : \A j \in segs[i].startIndex..segs[i].endIndex :
    ps[j].by = segs[i].id

(* Each sample is one of the first n, of its point's watch, not after the  *)
(* point, and in no other point.                                           *)
OwnSamples(ps, n) ==
  \A i \in 1..Len(ps) : \A s \in ps[i].samples :
    /\ s.n <= n /\ s.t <= ps[i].t /\ s.by = ps[i].by
    /\ \A j \in 1..Len(ps) : s \in ps[j].samples => j = i

OpenSegmentBelongs ==
  segmentStart # 0 => /\ segmentId = Here
                      /\ \A j \in segmentStart..Len(points) : points[j].by = segmentId

PendingIsUnused ==
  \A s \in pendingSamples : /\ s.n <= sampled /\ s.by = Here
                            /\ \A i \in 1..Len(points) : s \notin points[i].samples

PausePicture(track) == Belongs(track.points, track.segments) /\ OwnSamples(track.points, sampled)

PauseInv ==
  /\ Belongs(points, segments)
  /\ OpenSegmentBelongs
  /\ OwnSamples(points, sampled)
  /\ PendingIsUnused
  /\ \A track \in Pictures : PausePicture(track)

LEMMA AllBelong ==
  ASSUME TypeOK, PauseInv
  PROVE  Belongs(points, AllSegments)
<1>1. /\ Len(points) \in Nat /\ segmentStart \in Nat /\ segments \in Seq(Segment)
      /\ segmentId \in Nat \X Nat
  BY DEF TypeOK, TrackTypeOK
<1>2. CASE SegmentCaught
  <2>1. PICK seg \in Segment : seg = [id |-> segmentId, startIndex |-> segmentStart,
                                      endIndex |-> Len(points)]
    BY <1>1 DEF Segment
  <2>2. /\ AllSegments = Append(segments, seg) /\ seg.id = segmentId
        /\ seg.startIndex = segmentStart /\ seg.endIndex = Len(points)
    BY <1>2, <2>1 DEF AllSegments
  <2>3. /\ Len(segments) \in Nat /\ Len(AllSegments) = Len(segments) + 1
        /\ \A i \in 1..Len(segments) : AllSegments[i] = segments[i]
        /\ AllSegments[Len(segments) + 1] = seg
    BY <1>1, <2>2
  <2>4. ASSUME NEW i \in 1..Len(AllSegments),
               NEW j \in AllSegments[i].startIndex..AllSegments[i].endIndex
        PROVE  points[j].by = AllSegments[i].id
    <3>1. CASE i \in 1..Len(segments)
      BY <2>3, <2>4, <3>1 DEF PauseInv, Belongs
    <3>2. CASE i = Len(segments) + 1
      BY <1>2, <2>2, <2>3, <2>4, <3>2 DEF PauseInv, OpenSegmentBelongs, SegmentCaught
    <3> QED BY <2>3, <3>1, <3>2
  <2> QED BY <2>4 DEF Belongs
<1>3. CASE ~SegmentCaught
  BY <1>3 DEF AllSegments, PauseInv
<1> QED BY <1>2, <1>3

(* Samples delivered later are not those a track has.                      *)
LEMMA OwnSamplesLast ==
  ASSUME NEW ps \in Seq(Point), NEW n \in Nat, NEW m \in Nat, n <= m, OwnSamples(ps, n)
  PROVE  OwnSamples(ps, m)
<1>1. ASSUME NEW i \in 1..Len(ps), NEW s \in ps[i].samples
      PROVE  s.n <= m
  <2>1. ps[i] \in Point
    OBVIOUS
  <2>2. s.n \in Nat
    BY <1>1, <2>1 DEF Point, Sample
  <2>3. s.n <= n
    BY <1>1 DEF OwnSamples
  <2> QED BY <2>2, <2>3
<1> QED BY <1>1 DEF OwnSamples

(* A point more is of the open segment, and its samples are its own.       *)
LEMMA FixIsOwn ==
  ASSUME TypeOK, GeometryInv, PauseInv, FixKept
  PROVE  /\ Belongs(points', segments')
         /\ OpenSegmentBelongs'
         /\ OwnSamples(points', sampled')
         /\ PendingIsUnused'
<1>1. PICK g \in registered, t \in Times :
        /\ g = generation /\ status = "recording" /\ pendingSamples' = LeftOver(t)
        /\ points' = Append(points, [t |-> t, by |-> <<session, g>>, samples |-> Eligible(t)])
  BY DEF FixKept, CallbackCurrent
<1>2. /\ session' = session /\ segments' = segments /\ segmentStart' = segmentStart
      /\ segmentId' = segmentId /\ sampled' = sampled /\ generation' = generation
  BY DEF FixKept, watchVars
<1>3. [t |-> t, by |-> <<session, g>>, samples |-> Eligible(t)] \in Point
  BY DEF TypeOK, TrackTypeOK, WatchTypeOK, Eligible, Point
<1>4. PICK p \in Point : p = [t |-> t, by |-> <<session, g>>, samples |-> Eligible(t)]
  BY <1>3
<1>5. /\ points' = Append(points, p) /\ p.t = t /\ p.by = Here /\ p.samples = Eligible(t)
      /\ points \in Seq(Point) /\ segments \in Seq(Segment) /\ segmentStart \in Nat
  BY <1>1, <1>4 DEF TypeOK, TrackTypeOK, Here
<1>6. /\ Len(points) \in Nat /\ Len(points') = Len(points) + 1
      /\ \A i \in 1..Len(points) : points'[i] = points[i]
      /\ points'[Len(points) + 1] = p
  BY <1>5
<1>7. /\ Here' = Here /\ segmentStart # 0 /\ segmentStart >= 1 /\ segmentId = Here
      /\ Covered = segmentStart - 1 /\ segmentStart <= Len(points) + 1
  BY <1>1, <1>2, <1>5 DEF Here, GeometryInv, Covered, PauseInv, OpenSegmentBelongs
<1>8. Belongs(points', segments')
  <2>1. ASSUME NEW i \in 1..Len(segments),
               NEW j \in segments[i].startIndex..segments[i].endIndex
        PROVE  points'[j].by = segments[i].id
    <3>1. /\ segments[i].startIndex \in Nat /\ segments[i].endIndex \in Nat
          /\ segments[i].startIndex >= 1 /\ segments[i].endIndex <= Covered
      BY <1>5, SpanType DEF GeometryInv, Partition
    <3>2. j \in 1..Len(points)
      BY <1>5, <1>6, <1>7, <2>1, <3>1
    <3> QED BY <1>6, <2>1, <3>2 DEF PauseInv, Belongs
  <2> QED BY <1>2, <2>1 DEF Belongs
<1>9. OpenSegmentBelongs'
  <2>1. ASSUME NEW j \in segmentStart..Len(points')
        PROVE  points'[j].by = segmentId
    <3>1. CASE j = Len(points) + 1
      BY <1>5, <1>6, <1>7, <3>1
    <3>2. CASE j \in segmentStart..Len(points)
      <4>1. j \in 1..Len(points)
        BY <1>5, <1>6, <1>7, <3>2
      <4> QED BY <1>6, <1>7, <3>2, <4>1 DEF PauseInv, OpenSegmentBelongs
    <3>3. j \in segmentStart..(Len(points) + 1)
      BY <1>6, <2>1
    <3>4. j = Len(points) + 1 \/ j \in segmentStart..Len(points)
      BY <1>5, <1>6, <3>3
    <3> QED BY <3>1, <3>2, <3>4
  <2>2. \A j \in segmentStart..Len(points') : points'[j].by = segmentId
    BY <2>1
  <2> QED BY <1>2, <1>7, <2>2 DEF OpenSegmentBelongs
<1>10. ASSUME NEW s \in Eligible(t)
       PROVE  /\ s.n <= sampled /\ s.t <= p.t /\ s.by = p.by
              /\ \A i \in 1..Len(points) : s \notin points[i].samples
  BY <1>5, <1>10 DEF Eligible, PauseInv, PendingIsUnused
<1>11. OwnSamples(points', sampled')
  <2>1. ASSUME NEW i \in 1..Len(points'), NEW s \in points'[i].samples
        PROVE  /\ s.n <= sampled /\ s.t <= points'[i].t /\ s.by = points'[i].by
               /\ \A j \in 1..Len(points') : s \in points'[j].samples => j = i
    <3>1. CASE i = Len(points) + 1
      BY <1>5, <1>6, <1>10, <2>1, <3>1
    <3>2. CASE i \in 1..Len(points)
      <4>1. /\ s \in points[i].samples /\ points'[i] = points[i]
            /\ s.n <= sampled /\ s.t <= points[i].t /\ s.by = points[i].by
            /\ \A j \in 1..Len(points) : s \in points[j].samples => j = i
        BY <1>6, <2>1, <3>2 DEF PauseInv, OwnSamples
      <4>2. s \notin p.samples
        BY <1>5, <1>10, <3>2, <4>1
      <4> QED BY <1>6, <4>1, <4>2
    <3> QED BY <1>6, <3>1, <3>2
  <2> QED BY <1>2, <2>1 DEF OwnSamples
<1>12. PendingIsUnused'
  <2>1. ASSUME NEW s \in LeftOver(t)
        PROVE  /\ s.n <= sampled /\ s.by = Here
               /\ \A i \in 1..Len(points') : s \notin points'[i].samples
    <3>1. /\ s \in pendingSamples /\ s.n <= sampled /\ s.by = Here
          /\ \A i \in 1..Len(points) : s \notin points[i].samples
      BY <2>1 DEF LeftOver, PauseInv, PendingIsUnused
    <3>2. s \notin p.samples
      <4>1. s.t \in Nat /\ t \in Nat /\ s.t > t
        BY <2>1, RecorderAssumption DEF LeftOver, TypeOK, TrackTypeOK, Sample
      <4> QED BY <1>5, <4>1 DEF Eligible
    <3> QED BY <1>6, <3>1, <3>2
  <2> QED BY <1>1, <1>2, <1>7, <2>1 DEF PendingIsUnused
<1> QED BY <1>8, <1>9, <1>11, <1>12

(* A sample more is newer than every sample used so far.                   *)
LEMMA SampleIsUnused ==
  ASSUME TypeOK, PauseInv, SensorSample
  PROVE  PendingIsUnused' /\ OwnSamples(points', sampled')
<1>1. PICK t \in Times :
        pendingSamples' = pendingSamples \cup {[n |-> sampled + 1, t |-> t, by |-> Here]}
  BY DEF SensorSample
<1>2. /\ sampled' = sampled + 1 /\ points' = points /\ Here' = Here
      /\ sampled \in Nat /\ points \in Seq(Point)
  BY DEF SensorSample, watchVars, Here, TypeOK, TrackTypeOK
<1>3. ASSUME NEW s \in pendingSamples, s.n <= sampled
      PROVE  s.n <= sampled + 1
  <2>1. s.n \in Nat
    BY DEF TypeOK, TrackTypeOK, Sample
  <2> QED BY <1>2, <1>3, <2>1
<1>4. ASSUME NEW i \in 1..Len(points), NEW s \in points[i].samples
      PROVE  s.n # sampled + 1
  <2>1. points[i] \in Point
    BY <1>2
  <2>2. s.n \in Nat
    BY <1>4, <2>1 DEF Point, Sample
  <2>3. s.n <= sampled
    BY <1>4 DEF PauseInv, OwnSamples
  <2> QED BY <1>2, <2>2, <2>3
<1>5. PICK new : new = [n |-> sampled + 1, t |-> t, by |-> Here]
  OBVIOUS
<1>6. /\ new.n = sampled + 1 /\ new.by = Here /\ pendingSamples' = pendingSamples \cup {new}
  BY <1>1, <1>5
<1>7. \A i \in 1..Len(points) : new \notin points[i].samples
  BY <1>4, <1>6
<1>8. PendingIsUnused'
  <2>1. ASSUME NEW s \in pendingSamples'
        PROVE  /\ s.n <= sampled + 1 /\ s.by = Here
               /\ \A i \in 1..Len(points) : s \notin points[i].samples
    <3>1. CASE s \in pendingSamples
      BY <1>3, <3>1 DEF PauseInv, PendingIsUnused
    <3>2. CASE s = new
      BY <1>2, <1>6, <1>7, <3>2
    <3> QED BY <1>6, <2>1, <3>1, <3>2
  <2> QED BY <1>2, <2>1 DEF PendingIsUnused
<1>9. OwnSamples(points, sampled + 1)
  BY <1>2, OwnSamplesLast DEF PauseInv
<1> QED BY <1>2, <1>8, <1>9

LEMMA SampledGrows ==
  ASSUME TypeOK, [Next]_vars
  PROVE  sampled \in Nat /\ sampled' \in Nat /\ sampled <= sampled'
<1>1. sampled \in Nat
  BY DEF TypeOK, TrackTypeOK
<1>2. sampled' \in {sampled, sampled + 1}
  BY DEF Next, Calls, Create, Crash, Start, Pause, Resume, MarkLap, Stop, StopAgain, SaveFinished,
         StopRejected, FixKept, SensorSample, Tick, Platform, Store, vars, trackVars
<1> QED BY <1>1, <1>2

(* The recording, without the pictures.                                    *)
LEMMA PauseStep ==
  ASSUME IInv, GeometryInv, PauseInv, [Next]_vars
  PROVE  /\ Belongs(points', segments')
         /\ OpenSegmentBelongs'
         /\ OwnSamples(points', sampled')
         /\ PendingIsUnused'
<1>1. ASSUME UNCHANGED <<points, segments, segmentStart, segmentId, session, generation,
                         sampled, pendingSamples>>
      PROVE  /\ Belongs(points', segments')
             /\ OpenSegmentBelongs'
             /\ OwnSamples(points', sampled')
             /\ PendingIsUnused'
  BY <1>1 DEF PauseInv, OpenSegmentBelongs, PendingIsUnused, Here
<1>2. CASE UNCHANGED vars
  BY <1>1, <1>2 DEF vars, watchVars, trackVars
<1>3. CASE MarkLap \/ StopAgain \/ SaveFinished \/ StopRejected \/ Tick \/ Store
  BY <1>1, <1>3 DEF MarkLap, StopAgain, SaveFinished, StopRejected, Tick, Store, watchVars, trackVars
<1>4. CASE Platform
  BY <1>1, <1>4 DEF Platform, PlatformAnswers, LockAnswered, LockDropped, SensorStarted,
                    SensorStartFails, trackVars
<1>5. CASE Create
  <2>1. /\ points' = durable.points /\ segments' = durable.segments /\ segmentStart' = 0
        /\ pendingSamples' = {} /\ sampled' = sampled
    BY <1>5 DEF Create, Restore, Blank
  <2>2. PausePicture(durable)
    BY DEF PauseInv, Pictures
  <2> QED BY <2>1, <2>2 DEF PausePicture, OpenSegmentBelongs, PendingIsUnused
<1>6. CASE Crash
  BY <1>6 DEF Crash, Restore, Blank, NoTrack, Belongs, OwnSamples, OpenSegmentBelongs,
              PendingIsUnused
<1>7. CASE Start \/ Resume
  <2>1. /\ segmentStart' = Len(points) + 1 /\ segmentId' = Here /\ Here' = Here
        /\ UNCHANGED <<points, segments, pendingSamples, sampled>>
    BY <1>7 DEF Start, Resume, OpenSegment, BeginWatching, Here
  <2>2. Len(points) \in Nat
    BY DEF IInv, TypeOK, TrackTypeOK
  <2> QED BY <2>1, <2>2 DEF PauseInv, OpenSegmentBelongs, PendingIsUnused
<1>8. CASE Pause \/ Stop
  <2>1. /\ segments' = AllSegments /\ segmentStart' = 0 /\ pendingSamples' = {}
        /\ UNCHANGED <<points, sampled>>
    BY <1>8 DEF Pause, Stop, CloseSegment
  <2>2. Belongs(points, AllSegments)
    BY AllBelong DEF IInv
  <2> QED BY <2>1, <2>2 DEF PauseInv, OpenSegmentBelongs, PendingIsUnused
<1>9. CASE FixKept
  BY <1>9, FixIsOwn DEF IInv
<1>10. CASE SensorSample
  <2>1. UNCHANGED <<points, segments, segmentStart, segmentId>> /\ Here' = Here
    BY <1>10 DEF SensorSample, watchVars, Here
  <2> QED BY <1>10, <2>1, SampleIsUnused DEF IInv, PauseInv, OpenSegmentBelongs
<1> QED BY <1>2, <1>3, <1>4, <1>5, <1>6, <1>7, <1>8, <1>9, <1>10 DEF Next, Calls

LEMMA PauseInvStart == Init => PauseInv
<1> SUFFICES ASSUME Init PROVE PauseInv
  OBVIOUS
<1>1. Pictures = {NoTrack} /\ points = << >> /\ segments = << >> /\ segmentStart = 0
      /\ pendingSamples = {}
  BY DEF Init, Pictures
<1> QED BY <1>1 DEF PauseInv, PausePicture, NoTrack, Belongs, OwnSamples, OpenSegmentBelongs,
                    PendingIsUnused

LEMMA PicturesAreTracks ==
  ASSUME IInv, NEW track \in Pictures
  PROVE  track \in Track
BY DEF IInv, TypeOK, QueueTypeOK, TrackTypeOK, Pictures

LEMMA PauseInvStep ==
  ASSUME IInv, GeometryInv, PauseInv, [Next]_vars
  PROVE  PauseInv'
<1>1. sampled \in Nat /\ sampled' \in Nat /\ sampled <= sampled' /\ points \in Seq(Point)
  BY SampledGrows DEF IInv, TypeOK, TrackTypeOK
<1>2. Belongs(points, AllSegments) /\ OwnSamples(points, sampled')
  BY <1>1, AllBelong, OwnSamplesLast DEF IInv, PauseInv
<1>3. ASSUME NEW track \in Pictures' PROVE PausePicture(track)'
  <2>1. CASE track \in Pictures
    <3>1. track.points \in Seq(Point) /\ PausePicture(track)
      BY <2>1, PicturesAreTracks DEF PauseInv, Track
    <3> QED BY <1>1, <3>1, OwnSamplesLast DEF PausePicture
  <2>2. CASE track = NoTrack
    BY <2>2 DEF NoTrack, PausePicture, Belongs, OwnSamples
  <2>3. CASE \E statusNow : track = Snapshot(statusNow)
    BY <1>2, <2>3 DEF Snapshot, PausePicture
  <2>4. CASE track = FinalizeTrack(points, AllSegments, FinalLaps)
    BY <1>2, <2>4 DEF FinalizeTrack, PausePicture
  <2> QED BY <2>1, <2>2, <2>3, <2>4, PicturesMove
<1>4. \A track \in Pictures' : PausePicture(track)'
  BY <1>3
<1> QED BY <1>4, PauseStep DEF PauseInv

(* Nothing crosses a pause, however late a fix or a sample comes and       *)
(* whatever a crash leaves for the next session: each segment holds what   *)
(* its own watch saw, and each sample is in one point of its own watch.    *)
THEOREM NothingIsMixedAcrossPauses == Spec => []NothingCrossesAPause
<1>1. ASSUME IInv, PauseInv PROVE NothingCrossesAPause
  <2>1. Belongs(points, AllSegments)
    BY <1>1, AllBelong DEF IInv
  <2> QED BY <1>1, <2>1 DEF NothingCrossesAPause, Belongs, PauseInv, OwnSamples
<1>2. IInv /\ PauseInv => NothingCrossesAPause
  BY <1>1
<1>3. IInv /\ GeometryInv /\ PauseInv /\ [Next]_vars => PauseInv'
  BY PauseInvStep
<1>4. RecoverableInv => GeometryInv
  BY DEF RecoverableInv
<1> QED BY <1>2, <1>3, <1>4, InitInv, StepInv, RecoverableStart, RecoverableStep, PauseInvStart,
           PTL DEF Spec
=============================================================================
