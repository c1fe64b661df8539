------------------------------ MODULE TrackMaking ------------------------------
(***************************************************************************)
(* The pure decisions by which packages/core makes a track.  Of a recorded *)
(* one: is a fix worth keeping (sampling.ts), what do the sensors say at a *)
(* point (sensors-merge.ts) -- Recorder calls both; there they are         *)
(* choices, here they are what the code computes -- and, as the recorder   *)
(* is created, which channels the track will have, of those its sensors    *)
(* declare and those of a trip it resumes.  Of an authored one: how a      *)
(* draft gets its times and becomes a track (interpolateTimes and toTrack  *)
(* of draft.ts).                                                           *)
(*                                                                         *)
(* A draft is [points, breaks]; a point has a place on a line and a time,  *)
(* or Untimed.  A break is the index of the point that begins a segment.   *)
(* A call that is rejected throws and changes nothing.                     *)
(***************************************************************************)
EXTENDS TrackData, Sequencing, FiniteSetsExt, SequencesExt

CONSTANTS Unset,        \* a field that is not there
          NotFinite,    \* a reading that is no finite number
          Untimed,      \* a draft point's time, or an option, that is not given
          Rejected      \* what a call that threw answers

(* What a source of locations reports, at a place on a line.               *)
Fixes == [t : Int, place : Int, accuracyM : Int \cup {Unset}]

(* The points of a draft, and what a draft becomes.                        *)
DraftPoints == [place : Int, t : Int \cup {Untimed}]
Drafts == [points : Seq(DraftPoints), breaks : Seq(Nat)]
DraftTracks ==
  [status : {"finalized"}, points : Seq(DraftPoints),
   segments : Seq([startIndex : Int, endIndex : Int, startedAt : Int, endedAt : Int]),
   laps : {<< >>}]

ASSUME TrackMakingAssumption ==
  /\ Unset \notin Int /\ Unset \notin Fixes
  /\ Untimed \notin Int /\ Rejected \notin Drafts \cup DraftTracks

-----------------------------------------------------------------------------
(* sample: accuracy first, and it is absolute.                             *)

Gap(a, b) == IF a > b THEN a - b ELSE b - a

Decision(previous, candidate, policy) ==
  IF candidate.accuracyM # Unset /\ candidate.accuracyM > policy.maxAccuracyM
    THEN [keep |-> FALSE, reason |-> "inaccurate"]
  ELSE IF previous = Unset
    THEN [keep |-> TRUE, reason |-> "first-point"]
  ELSE IF Gap(previous.place, candidate.place) > policy.minDistanceM
    THEN [keep |-> TRUE, reason |-> "moved"]
  ELSE IF candidate.t - previous.t >= policy.maxIntervalMs
    THEN [keep |-> TRUE, reason |-> "interval-elapsed"]
  ELSE [keep |-> FALSE, reason |-> "too-close"]

(* The points a recorder makes of a stream of fixes.                       *)
Kept(fixes, policy) ==
  LET taken(kept, fix) ==
        LET previous == IF kept = << >> THEN Unset ELSE Last(kept)
        IN IF Decision(previous, fix, policy).keep THEN Append(kept, fix) ELSE kept
      after[n \in 0..Len(fixes)] == IF n = 0 THEN << >> ELSE taken(after[n - 1], fixes[n])
  IN after[Len(fixes)]

-----------------------------------------------------------------------------
(* mergeSensorSamples.                                                     *)

(* Neither stale nor newer than the point.                                 *)
InTime(samples, pointT, maxAgeMs) ==
  Picked(samples, {i \in DOMAIN samples : /\ samples[i].t <= pointT
                                          /\ pointT - samples[i].t <= maxAgeMs})

(* Mutated: in the order the samples arrived.                              *)
ByArrival(samples) == samples

(* A stable sort: samples of one moment stay in the order they arrived in. *)
ByTime(samples) ==
  LET earlier(i, j) == samples[i].t < samples[j].t \/ (samples[i].t = samples[j].t /\ i < j)
      before == {w \in (DOMAIN samples) \X (DOMAIN samples) : earlier(w[1], w[2])}
      order == Arranged(DOMAIN samples, before)
  IN [k \in DOMAIN samples |-> samples[order[k]]]

Says(sample, key) == key \in DOMAIN sample.values /\ sample.values[key] # NotFinite

(* What the samples say of one channel, oldest first.                      *)
Collected(samples, key) ==
  LET said == Picked(samples, {i \in DOMAIN samples : Says(samples[i], key)})
  IN [i \in DOMAIN said |-> said[i].values[key]]

(* The average is kept as [sum, count].                                    *)
Reduced(values, reduce) ==
  CASE reduce = "last" -> Last(values)
    [] reduce = "min" -> Min(ToSet(values))
    [] reduce = "max" -> Max(ToSet(values))
    [] OTHER -> [sum |-> SumOver(values, 0, Len(values)), count |-> Len(values)]

MergeSensorSamples(samples, pointT, policy) ==
  LET eligible == ByTime(InTime(samples, pointT, policy.maxAgeMs))
      keys == {key \in UNION {DOMAIN samples[i].values : i \in DOMAIN samples} :
                 Collected(eligible, key) # << >>}
  IN [key \in keys |-> Reduced(Collected(eligible, key), policy.reduce)]

-----------------------------------------------------------------------------
(* Channel descriptors: [key, unit, aggregate], where `unit` stands for    *)
(* all that must be the same, and an aggregate may be left out.            *)

DescribeChannel(d) == [d EXCEPT !.aggregate = IF @ = Unset THEN "avg" ELSE @]

ChannelMismatch(a, b) == a.key = b.key /\ DescribeChannel(a) # DescribeChannel(b)

(* The first of each key, in order; Unset when a later one contradicts it. *)
WithoutDuplicates(all) ==
  LET first == {n \in DOMAIN all : \A m \in 1..(n - 1) : all[m].key # all[n].key}
  IN IF \E m \in first, n \in DOMAIN all : m < n /\ ChannelMismatch(all[m], all[n]) THEN Unset
     ELSE Picked(all, first)

CollectSensorChannels(sensors) == WithoutDuplicates(FlattenSeq(sensors))

(* A trip's channels have distinct keys: a recorder collected them.        *)
MergeChannelDescriptors(restored, declared) == WithoutDuplicates(restored \o declared)

-----------------------------------------------------------------------------
(* interpolate.                                                            *)

(* Math.round of a quotient that is not negative.                          *)
Rounded(num, den) == (2 * num + den) \div (2 * den)

OptionsOK(options) ==
  /\ options.endedAt # Untimed => options.endedAt >= options.startedAt
  /\ options.speedMps # Untimed => options.speedMps > 0

(* The ends take the times given, unless they have their own.              *)
EndsTimed(points, options) ==
  LET fill(i, t) == IF t # Untimed /\ points[i].t = Untimed THEN t ELSE points[i].t
  IN [i \in DOMAIN points |->
        [points[i] EXCEPT !.t = IF i = 1 THEN fill(1, options.startedAt)
                                ELSE IF i = Len(points) THEN fill(i, options.endedAt)
                                ELSE @]]

Anchors(points) == {i \in DOMAIN points : points[i].t # Untimed}

(* A pause has a duration only the author knows.                           *)
PausesAnchored(points, breaks) ==
  \A i \in DOMAIN breaks : {breaks[i] - 1, breaks[i]} \subseteq Anchors(points)

AnchorsInOrder(points) ==
  \A i, j \in Anchors(points) : i < j => points[i].t <= points[j].t

(* What was travelled from point i to point j; a break's leg was not.      *)
Travelled(points, breaks, i, j) ==
  LET begins == {breaks[k] : k \in DOMAIN breaks}
      leg == [k \in 2..Len(points) |-> IF k \in begins THEN 0
                                       ELSE Gap(points[k].place, points[k - 1].place)]
  IN SumOver(leg, i, j)

(* Between two anchors time passes by distance, or by index where there is *)
(* none.                                                                   *)
BetweenAnchors(points, breaks, j, from, to) ==
  LET span == Travelled(points, breaks, from, to)
      spanMs == points[to].t - points[from].t
  IN points[from].t
       + (IF span = 0 THEN Rounded((j - from) * spanMs, to - from)
          ELSE Rounded(Travelled(points, breaks, from, j) * spanMs, span))

AfterAnchors(points, breaks, j, from, speedMps) ==
  points[from].t + Rounded(Travelled(points, breaks, from, j) * 1000, speedMps)

(* Anything after the last anchor needs a rate.                            *)
RateKnown(points, options) ==
  Len(points) \in Anchors(points) \/ options.speedMps # Untimed

TimeOf(points, breaks, options, j) ==
  LET earlier == {i \in Anchors(points) : i <= j}
      later == {i \in Anchors(points) : i >= j}
  IN IF j \in Anchors(points) THEN points[j].t
     ELSE IF later # {} THEN BetweenAnchors(points, breaks, j, Max(earlier), Min(later))
     ELSE IF options.speedMps # Untimed
       THEN AfterAnchors(points, breaks, j, Max(earlier), options.speedMps)
     ELSE Untimed

InterpolateTimes(draft, options) ==
  LET points == EndsTimed(draft.points, options)
  IN IF ~OptionsOK(options) THEN Rejected
     ELSE IF draft.points = << >> THEN draft
     ELSE IF ~PausesAnchored(points, draft.breaks) \/ ~AnchorsInOrder(points) THEN Rejected
     ELSE IF ~RateKnown(points, options) THEN Rejected
     ELSE [draft EXCEPT !.points =
             [j \in DOMAIN points |->
                [points[j] EXCEPT !.t = TimeOf(points, draft.breaks, options, j)]]]

-----------------------------------------------------------------------------
(* toTrack.                                                                *)

(* segmentRanges, with the times of each segment's ends.                   *)
SegmentsOf(draft) ==
  LET starts == {1} \cup {draft.breaks[i] : i \in DOMAIN draft.breaks}
      start(k) == CHOOSE i \in starts : Cardinality({j \in starts : j < i}) = k - 1
      end(k) == IF k = Cardinality(starts) THEN Len(draft.points) ELSE start(k + 1) - 1
  IN IF draft.points = << >> THEN << >>
     ELSE [k \in 1..Cardinality(starts) |->
             [startIndex |-> start(k), endIndex |-> end(k),
              startedAt |-> draft.points[start(k)].t, endedAt |-> draft.points[end(k)].t]]

UntimedIn(draft) == {i \in DOMAIN draft.points : draft.points[i].t = Untimed}

(* The track finalizeTrack makes of it, if its assertion passes.           *)
ToTrack(draft) ==
  IF UntimedIn(draft) # {} THEN Rejected
  ELSE IF ~ValidTrackGeometry(draft.points, SegmentsOf(draft), << >>) THEN Rejected
  ELSE FinalizeTrack(draft.points, SegmentsOf(draft), << >>)

-----------------------------------------------------------------------------
(* Properties, of the answers.                                             *)

(* sample: of a stream of fixes with one clock, no kept point fails the    *)
(* accuracy filter, and no accurate fix of the stream is further from the  *)
(* last point kept before it than the policy lets the track be wrong,      *)
(* in metres or in milliseconds.                                           *)
TrackIsFaithful(fixes, policy) ==
  LET kept == Kept(fixes, policy)
      accurate(fix) == fix.accuracyM = Unset \/ fix.accuracyM <= policy.maxAccuracyM
  IN /\ \A i \in DOMAIN kept : accurate(kept[i])
     /\ \A i \in DOMAIN fixes : accurate(fixes[i]) =>
          LET upTo == Kept(SubSeq(fixes, 1, i), policy)
              point == Last(upTo)
          IN /\ upTo # << >> /\ IsPrefix(upTo, kept)
             /\ Gap(point.place, fixes[i].place) <= policy.minDistanceM
             /\ point = fixes[i] \/ fixes[i].t - point.t < policy.maxIntervalMs

(* mergeSensorSamples: a point's "last" reading of a channel is one of the *)
(* most recent moment not after the point, the last to arrive of those,    *)
(* however late the samples came in and whatever other channels said; a    *)
(* channel nobody read in time is not there.                               *)
MergedAtItsTime(samples, pointT, policy) ==
  LET merged == MergeSensorSamples(samples, pointT, policy)
      said(key) == {i \in DOMAIN samples :
                      /\ key \in DOMAIN samples[i].values /\ samples[i].values[key] # NotFinite
                      /\ samples[i].t \in (pointT - policy.maxAgeMs)..pointT}
      newest(key) == {i \in said(key) : \A j \in said(key) : samples[j].t <= samples[i].t}
  IN /\ \A key \in DOMAIN merged : said(key) # {}
     /\ \A i \in DOMAIN samples : \A key \in DOMAIN samples[i].values :
          i \in said(key) => key \in DOMAIN merged
     /\ policy.reduce = "last" =>
          \A key \in DOMAIN merged : merged[key] = samples[Max(newest(key))].values[key]

(* collectSensorChannels, mergeChannelDescriptors: resuming a trip leaves  *)
(* every channel it has as it was recorded, and gives each channel that a  *)
(* sensor declares one descriptor, which means what the sensor means --    *)
(* or the recorder is not made, and only for a sensor at odds with the     *)
(* trip or with another sensor.  What was resumed once can be resumed      *)
(* again with those sensors, in whatever order they are configured.        *)
ChannelsKeepTheirMeaning(restored, sensors) ==
  LET declared == CollectSensorChannels(sensors)
      resume(trip, others) ==
        IF CollectSensorChannels(others) = Unset THEN Unset
        ELSE MergeChannelDescriptors(trip, CollectSensorChannels(others))
      channels == resume(restored, sensors)
      said == ToSet(FlattenSeq(sensors))
      sense(d) == <<d.key, d.unit, IF d.aggregate = Unset THEN "avg" ELSE d.aggregate>>
      odds == \E a \in said, b \in said \cup ToSet(restored) : a.key = b.key /\ sense(a) # sense(b)
  IN /\ (channels = Unset) <=> odds
     /\ ~odds =>
          /\ SubSeq(channels, 1, Len(restored)) = restored
          /\ \A m, n \in DOMAIN channels : m # n => channels[m].key # channels[n].key
          /\ \A d \in said : \E n \in DOMAIN channels : sense(channels[n]) = sense(d)
          /\ ToSet(channels) \subseteq ToSet(restored) \cup said
          /\ resume(channels, sensors) = channels /\ resume(channels, Reverse(sensors)) = channels

(* interpolateTimes: a call that is accepted leaves nobody untimed, moves  *)
(* no time that was set, and lets no time run backwards, so that the draft *)
(* can be promoted; and a pause keeps the duration its author gave it: the *)
(* times on either side of a break were set, or are the ends'.             *)
InterpolatedDraftIsATrack(draft, options) ==
  LET timed == InterpolateTimes(draft, options)
      given == Anchors(EndsTimed(draft.points, options))
  IN timed # Rejected =>
       /\ ToTrack(timed) # Rejected
       /\ \A i \in DOMAIN draft.points :
            draft.points[i].t # Untimed => timed.points[i].t = draft.points[i].t
       /\ \A k \in DOMAIN draft.breaks : {draft.breaks[k] - 1, draft.breaks[k]} \subseteq given
=============================================================================
