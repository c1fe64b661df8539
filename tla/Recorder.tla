------------------------------- MODULE Recorder -------------------------------
(***************************************************************************)
(* The web recorder (packages/recorder-web/src/recorder.ts) over the life  *)
(* of one trip: sessions that start, pause, resume, mark laps and stop,    *)
(* the fixes and sensor samples that reach them, the autosaves and the     *)
(* final save (SaveQueue), the platform resources (WatchSession), the      *)
(* death of the process at any point and the session that picks the trip   *)
(* up again from the stored record.                                        *)
(*                                                                         *)
(* JavaScript runs a handler to its first await without interruption, so   *)
(* each action is one such run: a call of the recorder, a platform         *)
(* callback, or the continuation of an answered promise.                   *)
(***************************************************************************)
EXTENDS SaveQueue, WatchSession, FiniteSets

CONSTANTS Times,         \* the instants a device clock may report
          MaxSampleAge,  \* sensorMerge.maxAgeMs
          MaxPoints,     \* bound: points of the trip
          MaxLaps,       \* bound: laps of the trip
          MaxSamples,    \* bound: sensor samples of the trip
          MaxSessions    \* bound: processes that record the trip

ASSUME RecorderAssumption ==
  /\ Times \subseteq Nat
  /\ MaxSampleAge \in Nat
  /\ MaxPoints \in Nat /\ MaxLaps \in Nat /\ MaxSamples \in Nat
  /\ MaxSessions \in Nat

VARIABLES
  session,         \* how many processes have recorded this trip so far
  alive,           \* a recorder object exists
  status,          \* TrackRecorder.status
  started,
  points,          \* [t, by, samples]; by is a ghost: whose watch saw it
  segments,        \* closed segments: [id, startIndex, endIndex]
  laps,            \* [startIndex, endIndex]
  segmentStart,    \* index where the open segment begins, 0 when none is open
  segmentId,
  lapStart,        \* index where the current lap begins
  finalized,       \* the finished track, or NoTrack
  timer,           \* autosaveHandle is set
  pendingSamples,  \* samples since the previous kept point: [n, t, by]
  sampled,         \* ghost: samples delivered so far
  lapsAtPause      \* ghost: laps marked when pause() was called

trackVars == <<session, alive, status, started, points, segments, laps,
               segmentStart, segmentId, lapStart, finalized, timer,
               pendingSamples, sampled, lapsAtPause>>

vars == <<queueVars, watchVars, trackVars>>

NoId == <<0, 0>>

(* A recording opens one segment and one watch per generation of a         *)
(* session, so the pair names both.                                        *)
Here == <<session, generation>>

-----------------------------------------------------------------------------
(* A recorder object as it is before start(), over a restored track.       *)
LapStartAfter(restored) ==
  IF restored.laps = << >> THEN 1
  ELSE restored.laps[Len(restored.laps)].endIndex + 1

Restore(restored) ==
  /\ points' = restored.points
  /\ segments' = restored.segments
  /\ laps' = restored.laps
  /\ lapStart' = LapStartAfter(restored)

Blank ==
  /\ status' = "finalized"
  /\ started' = FALSE
  /\ segmentStart' = 0
  /\ segmentId' = NoId
  /\ finalized' = NoTrack
  /\ timer' = FALSE
  /\ pendingSamples' = {}
  /\ lapsAtPause' = 0

Init ==
  /\ durable = NoTrack
  /\ acked = NoTrack
  /\ writes = {}
  /\ pendingSnapshot = NoTrack
  /\ writer = "idle"
  /\ reported = NoTrack
  /\ stopping = "no"
  /\ WatchPristine
  /\ session = 0
  /\ alive = FALSE
  /\ status = "finalized"
  /\ started = FALSE
  /\ points = << >>
  /\ segments = << >>
  /\ laps = << >>
  /\ segmentStart = 0
  /\ segmentId = NoId
  /\ lapStart = 1
  /\ finalized = NoTrack
  /\ timer = FALSE
  /\ pendingSamples = {}
  /\ sampled = 0
  /\ lapsAtPause = 0

(* createWebTrackRecorderInternal: a fresh recorder, or one that resumes   *)
(* the interrupted record the store holds.  A record it refuses leaves no  *)
(* recorder.                                                               *)
Create ==
  /\ ~alive
  /\ session < MaxSessions
  /\ durable = NoTrack \/ Resumable(durable)
  /\ session' = session + 1
  /\ alive' = TRUE
  /\ Restore(durable)
  /\ Blank
  /\ UNCHANGED <<queueVars, watchVars, sampled>>

(* The process dies.                                                       *)
Crash ==
  /\ alive
  /\ alive' = FALSE
  /\ Restore(NoTrack)
  /\ Blank
  /\ QueueCrash
  /\ WatchCrash
  /\ UNCHANGED <<session, sampled>>

-----------------------------------------------------------------------------
(* Segments and pictures.                                                  *)

(* The open segment has caught a point.                                    *)
SegmentCaught == segmentStart # 0 /\ Len(points) >= segmentStart

(* The closed segments and, if it has caught anything, the open one.       *)
AllSegments ==
  IF SegmentCaught
    THEN Append(segments, [id |-> segmentId, startIndex |-> segmentStart,
                           endIndex |-> Len(points)])
    ELSE segments

OpenSegment ==
  /\ segmentStart' = Len(points) + 1
  /\ segmentId' = Here

(* closeSegment: an empty span is dropped, and so is a segment not open.   *)
CloseSegment ==
  /\ segments' = AllSegments
  /\ segmentStart' = 0
  /\ segmentId' = NoId

(* buildSnapshot.  Closing the open segment does not change the picture.   *)
Snapshot(statusNow) ==
  [status |-> IF statusNow = "paused" THEN "paused" ELSE "recording",
   points |-> points, segments |-> AllSegments, laps |-> laps]

-----------------------------------------------------------------------------
(* The recorder's calls.                                                   *)

(* What watchPosition may do: register, refuse, or refuse to a listener    *)
(* that throws.                                                            *)
WatchOutcomes ==
  {<<TRUE, FALSE>>, <<FALSE, FALSE>>} \cup
  (IF ListenerMayThrow THEN {<<FALSE, TRUE>>} ELSE {})

Start ==
  /\ alive
  /\ ~started
  /\ started' = TRUE
  /\ status' = "recording"
  /\ OpenSegment
  /\ \E outcome \in WatchOutcomes :
       /\ BeginWatching(outcome[1], outcome[2])
       /\ timer' = (AutosaveEnabled /\ ~outcome[2])
  /\ UNCHANGED <<queueVars, session, alive, points, segments, laps, lapStart,
                 finalized, pendingSamples, sampled, lapsAtPause>>

(* Mutated: pause() leaves the flush to the next tick of the timer.        *)
PauseUnflushed ==
  /\ status = "recording"
  /\ generation + 1 < MaxGeneration
  /\ status' = "paused"
  /\ CloseSegment
  /\ StopWatching
  /\ pendingSamples' = {}
  /\ lapsAtPause' = Len(laps) /\ reported' = NoTrack
  /\ UNCHANGED <<durable, acked, writes, pendingSnapshot, writer, stopping, session,
                 alive, started, points, laps, lapStart, finalized, timer, sampled>>

Pause ==
  /\ status = "recording"
  /\ generation + 1 < MaxGeneration
  /\ status' = "paused"
  /\ CloseSegment
  /\ StopWatching
  /\ pendingSamples' = {}
  /\ EnqueueSave(Snapshot("paused"))
  /\ lapsAtPause' = Len(laps) /\ reported' = NoTrack
  /\ UNCHANGED <<durable, acked, stopping, session, alive, started, points, laps,
                 lapStart, finalized, timer, sampled>>

Resume ==
  /\ status = "paused"
  /\ status' = "recording"
  /\ OpenSegment
  /\ \E outcome \in WatchOutcomes : BeginWatching(outcome[1], outcome[2])
  /\ lapsAtPause' = 0
  /\ UNCHANGED <<queueVars, session, alive, started, points, segments, laps,
                 lapStart, finalized, timer, pendingSamples, sampled>>

LapPending == Len(points) >= lapStart

MarkLap ==
  /\ alive
  /\ finalized = NoTrack
  /\ LapPending
  /\ Len(laps) < MaxLaps
  /\ laps' = Append(laps, [startIndex |-> lapStart, endIndex |-> Len(points)])
  /\ lapStart' = Len(points) + 1
  /\ UNCHANGED <<queueVars, watchVars, session, alive, status, started, points,
                 segments, segmentStart, segmentId, finalized, timer,
                 pendingSamples, sampled, lapsAtPause>>

-----------------------------------------------------------------------------
(* stop().                                                                 *)

(* A final lap exists only if laps were marked and points followed.        *)
FinalLaps ==
  IF laps # << >> /\ LapPending
    THEN Append(laps, [startIndex |-> lapStart, endIndex |-> Len(points)])
    ELSE laps

(* The first stop(): the recording ends, and finalizeTrack either throws   *)
(* out of it or leaves a finished track to save after the queue.           *)
Stop ==
  /\ alive
  /\ started
  /\ stopping = "no"
  /\ finalized = NoTrack
  /\ generation < MaxGeneration
  /\ CloseSegment
  /\ StopWatching
  /\ pendingSamples' = {}
  /\ status' = "finalized"
  /\ timer' = FALSE
  /\ lapsAtPause' = 0
  /\ laps' = FinalLaps
  /\ lapStart' = IF laps # << >> /\ LapPending THEN Len(points) + 1 ELSE lapStart
  /\ IF ValidTrackGeometry(points, AllSegments, FinalLaps)
       THEN /\ finalized' = FinalizeTrack(points, AllSegments, FinalLaps)
            /\ stopping' = IF HasStore THEN "draining" ELSE "settled"
       ELSE UNCHANGED <<finalized, stopping>>
  /\ UNCHANGED <<durable, acked, writes, pendingSnapshot, writer, reported, session,
                 alive, started, points, sampled>>

StopAgain == RetryFinal(finalized) /\ UNCHANGED <<watchVars, trackVars>>

SaveFinished == SaveFinal(finalized) /\ UNCHANGED <<watchVars, trackVars>>

StopRejected == DrainRejects /\ UNCHANGED <<watchVars, trackVars>>

-----------------------------------------------------------------------------
(* What the platform delivers.                                             *)

(* Mutated: a queued callback of a watch torn down is taken while another  *)
(* watch is live.                                                          *)
CallbackAnyWatch(g) == status = "recording"

(* The first test of handleFix, and of every sample callback.              *)
CallbackCurrent(g) == g = generation /\ status = "recording"

(* Mutated: a fix older than the last kept point goes on to sampling.      *)
NotStaleAnyTime(t) == TRUE

(* Not strictly older than the last kept point, pauses included.           *)
NotStale(t) == points # << >> => t >= points[Len(points)].t

(* mergeSensorSamples: not after the point, and not too old for it.        *)
Eligible(t) == {s \in pendingSamples : s.t <= t /\ t - s.t <= MaxSampleAge}

(* What a kept point leaves for the next one.                              *)
LeftOver(t) == {s \in pendingSamples : s.t > t}

(* handleFix, for a fix that passes sampling; every other fix changes      *)
(* nothing.                                                                *)
FixKept ==
  \E g \in registered, t \in Times :
    /\ CallbackCurrent(g)
    /\ Len(points) < MaxPoints
    /\ NotStale(t)
    /\ points' = Append(points, [t |-> t, by |-> <<session, g>>, samples |-> Eligible(t)])
    /\ pendingSamples' = LeftOver(t)
    /\ UNCHANGED <<queueVars, watchVars, session, alive, status, started, segments,
                   laps, segmentStart, segmentId, lapStart, finalized, timer, sampled,
                   lapsAtPause>>

(* A running sensor the recorder is subscribed to reports.                 *)
SensorSample ==
  \E s \in active, t \in Times :
    /\ sensorsDesired
    /\ status = "recording"
    /\ sampled < MaxSamples
    /\ sampled' = sampled + 1
    /\ pendingSamples' = pendingSamples \cup {[n |-> sampled + 1, t |-> t, by |-> Here]}
    /\ UNCHANGED <<queueVars, watchVars, session, alive, status, started, points,
                   segments, laps, segmentStart, segmentId, lapStart, finalized, timer,
                   lapsAtPause>>

(* The autosave timer fires.                                               *)
Tick ==
  /\ timer
  /\ EnqueueSave(Snapshot(status))
  /\ UNCHANGED <<durable, acked, reported, stopping, watchVars, trackVars>>

Platform == PlatformAnswers /\ UNCHANGED <<queueVars, trackVars>>

Store == StoreAnswers /\ UNCHANGED <<watchVars, trackVars>>

-----------------------------------------------------------------------------
Calls == Create \/ Start \/ Pause \/ Resume \/ MarkLap \/ Stop \/ StopAgain

Next ==
  \/ Calls
  \/ SaveFinished \/ StopRejected
  \/ FixKept \/ SensorSample \/ Tick
  \/ Platform \/ Store
  \/ Crash

Spec == Init /\ [][Next]_vars

(* Promise continuations run, and the store answers what it was handed.    *)
Fairness ==
  /\ WF_vars(SaveFinished)
  /\ WF_vars(StopRejected)
  /\ WF_vars(Store)

FairSpec == Spec /\ Fairness

-----------------------------------------------------------------------------
(* Properties.                                                             *)

Sample == [n : Nat, t : Times, by : Nat \X Nat]
Point == [t : Times, by : Nat \X Nat, samples : SUBSET Sample]
Span == [startIndex : Nat, endIndex : Nat]
Segment == [id : Nat \X Nat, startIndex : Nat, endIndex : Nat]
Track == [status : TrackStatus \cup {"none"}, points : Seq(Point),
          segments : Seq(Segment), laps : Seq(Span)]

QueueTypeOK ==
  /\ durable \in Track /\ acked \in Track /\ pendingSnapshot \in Track
  /\ writes \subseteq [by : {"autosave", "stop"}, track : Track]
  /\ writer \in {"idle", "writing", "broken"}
  /\ reported \in Track
  /\ stopping \in {"no", "draining", "saving", "settled", "failed"}

WatchTypeOK ==
  /\ generation \in Nat /\ watchId \in Nat \cup {None}
  /\ registered \subseteq Nat /\ lockRequests \subseteq Nat
  /\ wakeLock \in Nat \cup {None} /\ leases \subseteq Nat
  /\ sensorsDesired \in BOOLEAN
  /\ starting \in [Sensors -> SUBSET Nat] /\ active \subseteq Sensors

TrackTypeOK ==
  /\ session \in Nat /\ alive \in BOOLEAN
  /\ status \in TrackStatus /\ started \in BOOLEAN
  /\ points \in Seq(Point) /\ segments \in Seq(Segment) /\ laps \in Seq(Span)
  /\ segmentStart \in Nat /\ segmentId \in Nat \X Nat /\ lapStart \in Nat
  /\ finalized \in Track /\ timer \in BOOLEAN
  /\ pendingSamples \subseteq Sample
  /\ sampled \in Nat /\ lapsAtPause \in Nat

(* Every variable of the recorder, its queue and its platform session has  *)
(* the type its declaration in recorder.ts gives it.                       *)
TypeOK == QueueTypeOK /\ WatchTypeOK /\ TrackTypeOK

(* enqueueSave and stop(): "at most one write in flight", autosaves and    *)
(* the final save counted together.                                        *)
OneWriteInFlight == Cardinality(writes) <= 1

(* enqueueSave: a picture that waits has a writer that will come to it; a  *)
(* failed autosave "must not poison the queue".                            *)
PendingHasWriter == pendingSnapshot # NoTrack => writes # {}

(* assertValidTrackGeometry never refuses what the recorder itself made:   *)
(* neither inside stop(), where it would throw the finished track away,    *)
(* nor when a later session resumes what a crash left in the store.        *)
Recoverable ==
  /\ ValidTrackGeometry(points, AllSegments, FinalLaps)
  /\ Interrupted(durable) => Resumable(durable)

(* A stop() that resolved has left exactly its finished track in the       *)
(* store, and no autosave can follow it.                                   *)
StoppedMeansStored ==
  stopping = "settled" /\ HasStore => durable = finalized /\ writes = {}

(* handleFix and stopSensors: nothing crosses a pause.  The points of one  *)
(* segment were all seen by the watch that was live while the segment was  *)
(* open, so no late callback draws a line across a pause; and a sensor     *)
(* sample is merged into at most one point, never into an earlier one than *)
(* itself, and never into one of another watch.                            *)
NothingCrossesAPause ==
  /\ \A i \in 1..Len(AllSegments) :
       \A j \in AllSegments[i].startIndex..AllSegments[i].endIndex :
         points[j].by = AllSegments[i].id
  /\ \A i \in 1..Len(points) : \A s \in points[i].samples :
       /\ s.t <= points[i].t
       /\ s.by = points[i].by
       /\ \A j \in 1..Len(points) : s \in points[j].samples => j = i

(* stopWatching and the late answers of requestWakeLock and                *)
(* SensorSource.start(): once a recording is paused, finished or gone,     *)
(* nothing it asked for is held, whenever the answer comes; and a lock the *)
(* page holds is always one releaseWakeLock would give back.               *)
NothingHeldWhenIdle ==
  /\ status # "recording" => leases = {} /\ active = {} /\ watchId = None
  /\ leases \subseteq {wakeLock}

(* startSensors: while a recording goes on, reconciling the late start of  *)
(* an earlier session never stops a sensor the current one is using.       *)
SensorNotStolen ==
  [][status = "recording" /\ status' = "recording" => active \subseteq active']_vars

(* The recorder keeps the promise of DurableTrip: the stored record only   *)
(* grows, across autosaves, crashes and resumed sessions, and what a save  *)
(* reported stored is never lost.                                          *)
Trip == INSTANCE DurableTrip WITH stored <- durable, promised <- acked
DurableTripSpec == Trip!Spec
AckedIsDurable == Trip!PromiseKept

(* stop() settles: with a queue that drains and a store that answers, its  *)
(* promise resolves or rejects.                                            *)
StopSettles ==
  stopping \in {"draining", "saving"} ~> stopping \in {"settled", "failed"} \/ ~alive

(* A track holds what pause() had to keep: the recording as paused, with   *)
(* the laps marked by then at least.                                       *)
HoldsThePause(track) ==
  /\ track.status = "paused"
  /\ track.points = points /\ track.segments = AllSegments
  /\ Len(track.laps) >= lapsAtPause

(* pause() flushes: "a pause is often the last thing that happens before   *)
(* an app is backgrounded and killed", so the picture of the pause reaches *)
(* the store, or the failure to store it the error listeners, without      *)
(* waiting for the timer.  A queue poisoned by a listener that threw is    *)
(* excepted: there it reaches neither (PendingHasWriter).                  *)
PausePersisted ==
  status = "paused" /\ AutosaveEnabled
    ~> \/ HoldsThePause(durable) \/ HoldsThePause(reported)
       \/ status # "paused" \/ writer = "broken"
=============================================================================
