------------------------------ MODULE MCAlgorithms ------------------------------
(***************************************************************************)
(* The core's algorithms, the two clocks, and the demo's loop and panels,  *)
(* checked side by side: a behaviour is of one part, and the others stay   *)
(* at rest.  The part "functions" asks one question of a pure function,    *)
(* and the properties judge what it answers.                               *)
(***************************************************************************)
EXTENDS Statistics, PollingSensor, IdFactory, TripReplay,
        TrackQueries, TrackMaking, Portability, EventForm,
        OfflineArchives, DemoLoop, DemoPanels

VARIABLES part, question

demoVars == <<loopVars, panelsVars>>
algorithmVars == <<elevationVars, simplifyVars, pollingVars, idVars, replayVars, demoVars>>
allVars == <<part, question, algorithmVars>>

NoQuestion == [about |-> "nothing"]

(* The tracks of a replay: three trips, one that overlaps another, and one *)
(* of a single point, and one of none.                                     *)
ReplayTracks ==
  {[from |-> 2, to |-> 4], [from |-> 4, to |-> 5], [from |-> 1, to |-> 1],
   [from |-> NoTime, to |-> NoTime]}

-----------------------------------------------------------------------------
(* A part at rest.                                                         *)

ElevationRests ==
  /\ first = 0 /\ last = 0 /\ trend = StartAt(0)
  /\ gain = 0 /\ loss = 0 /\ climbed = 0 /\ descended = 0
SimplifyRests == distance = << >> /\ keep = {1, Count} /\ stack = << <<1, Count>> >>
ReplayRests ==
  /\ wanted = [from |-> 1, to |-> 1] /\ shown = wanted /\ cursor = 1 /\ playing = FALSE
  /\ setCursor = Keep /\ setPlaying = "keep" /\ due = FALSE
  /\ ran = [track |-> wanted, playing |-> FALSE]
  /\ frame = Keep /\ anchor = NoTime /\ elapsed = LastTime + 1 /\ touches = 0

Init ==
  /\ question = NoQuestion
  /\ part \in {"elevation", "simplify", "replay", "polling", "ids", "functions", "loop", "panels"}
  /\ PollingInit /\ IdInit /\ LoopInit
  /\ PanelsInit /\ (part = "panels" \/ (regionsStored = {} /\ persistent))
  /\ \/ part = "elevation" /\ ElevationInit /\ SimplifyRests /\ ReplayRests
     \/ part = "simplify" /\ SimplifyInit /\ ElevationRests /\ ReplayRests
     \/ part = "replay" /\ ReplayInit /\ ElevationRests /\ SimplifyRests
     \/ part \in {"polling", "ids", "functions", "loop", "panels"} /\ ElevationRests /\ SimplifyRests /\ ReplayRests

-----------------------------------------------------------------------------
(* What the functions are asked.                                           *)

Sequences(S, n) == UNION {[1..k -> S] : k \in 0..n}

(* Every way to cut n points into segments.                                *)
Cuts(n) == {Picked([i \in 1..n |-> i], cut) : cut \in SUBSET (2..n)}
CutInto(cut, n) ==
  LET bounds == <<1>> \o cut \o <<n + 1>>
  IN IF n = 0 THEN << >>
     ELSE [i \in 1..(Len(bounds) - 1) |->
             [id |-> i, startIndex |-> bounds[i], endIndex |-> bounds[i + 1] - 1]]

InOneTime(points) == \A i \in 1..(Len(points) - 1) : points[i].t <= points[i + 1].t

AskTrack ==
  \E n \in 0..4 : \E t \in [1..n -> 0..2], place \in [1..n -> {0, 3}], cut \in Cuts(n) :
    LET points == [i \in 1..n |-> [t |-> t[i], place |-> place[i],
                                   altitudeM |-> IF i = 2 THEN Absent ELSE i]]
    IN /\ InOneTime(points)
       /\ question' = [about |-> "track",
                       track |-> [points |-> points, segments |-> CutInto(cut, n)]]

(* What a channel may read; a long track is for the pauses.                *)
Values(n) == IF n = 4 THEN {Absent, 3} ELSE {Absent, 0, 1, 3}

AskChart ==
  \E n \in 0..4 : \E t \in [1..n -> 0..2], value \in [1..n -> Values(n)], cut \in Cuts(n) :
    LET points == [i \in 1..n |-> [t |-> t[i], place |-> i, altitudeM |-> Absent,
                                   channels |-> [k \in {"depth"} |-> value[i]]]]
    IN /\ InOneTime(points)
       /\ question' = [about |-> "chart",
                       track |-> [points |-> points, segments |-> CutInto(cut, n)]]

Descriptors ==
  {[key |-> "depth", min |-> min, max |-> max] : min \in {Absent, 1}, max \in {Absent, 2}}

(* A track with the cache of its simplified segments, and without.         *)
Pictures(track) ==
  LET ends(segment) == IF segment.startIndex = segment.endIndex
                         THEN <<track.points[segment.startIndex]>>
                         ELSE <<track.points[segment.startIndex], track.points[segment.endIndex]>>
      caches == {Absent, [s \in DOMAIN track.segments |-> ends(track.segments[s])]}
  IN {[points |-> track.points, segments |-> track.segments, simplified |-> cache] : cache \in caches}

Durations == {0, 499, 500, 59499, 59500, 3599499, 3599500, 86399999}

AskFixes ==
  \E fixes \in Sequences([t : 0..2, place : 0..2, accuracyM : {Unset, 1, 2}], 3) :
    /\ InOneTime(fixes)
    /\ question' = [about |-> "fixes", fixes |-> fixes]

SamplingPolicy == [maxAccuracyM |-> 1, minDistanceM |-> 1, maxIntervalMs |-> 2]

Readings ==
  {[k \in {"heart"} |-> 1], [k \in {"heart"} |-> 2], [k \in {"depth"} |-> 3],
   [k \in {"heart", "depth"} |-> IF k = "heart" THEN NotFinite ELSE 4]}

AskSamples ==
  \E samples \in Sequences([t : 0..2, values : Readings], 3),
     reduce \in {"last", "min", "max", "avg"} :
    question' = [about |-> "samples", samples |-> samples,
                 policy |-> [maxAgeMs |-> 1, reduce |-> reduce]]

Channels == [key : {1, 2}, unit : {"m", "s"}, aggregate : {Unset, "avg"}]

ASSUME ChannelsAssumption == Unset \notin Seq(Channels)

(* A trip's channels have a key each.                                      *)
AskChannels ==
  \E trip \in Sequences(Channels, 2), one \in Sequences(Channels, 2), other \in Sequences(Channels, 1) :
    /\ Len(trip) = 2 => trip[1].key # trip[2].key
    /\ question' = [about |-> "channels", restored |-> trip, sensors |-> <<one, other>>]

DraftsOf(n, places, times) ==
  {[points |-> [i \in 1..n |-> [place |-> place[i], t |-> t[i]]], breaks |-> cut] :
     place \in [1..n -> places], t \in [1..n -> times], cut \in Cuts(n)}

AskDraft ==
  /\ \E draft \in (UNION {DraftsOf(n, {0, 1, 3}, {Untimed, 10, 20, 25}) : n \in 0..3})
                  \cup DraftsOf(4, {0, 1}, {Untimed, 10, 25}) :
       question' = [about |-> "draft", draft |-> draft]

Options ==
  {[startedAt |-> 10, endedAt |-> endedAt, speedMps |-> speedMps] :
     endedAt \in {Untimed, 5, 23}, speedMps \in {Untimed, 400}}

(* A point's altitude and fields, as telemetry comes and goes.             *)
Telemetry ==
  {[altitudeM |-> Null, fields |-> [f \in Fields |-> Null]],
   [altitudeM |-> 8, fields |-> [f \in Fields |-> Null]],
   [altitudeM |-> Null, fields |-> [f \in Fields |-> 7]]}
   \cup {[altitudeM |-> 9, fields |-> [f \in Fields |-> IF f = g THEN 6 ELSE Null]] : g \in Fields}

Lap == [startIndex |-> 1, endIndex |-> 2]

(* A trip, or what is no trip: the markers are none of the values.         *)
TripsAsked ==
  [points : Seq([place : Nat, altitudeM : {Null, 8, 9}, t : Int, fields : [Fields -> {Null, 6, 7}]]),
   segments : Seq([id : Nat, startIndex : Nat, endIndex : Nat]),
   laps : {<< >>, <<Lap>>}, status : {"finalized"}, rest : {"rest"}]

EventsAsked == [id : {1, 2}, occurredAt : {0, 1}, media : SUBSET {1, 2}]

ASSUME TripAssumption ==
  /\ Null \notin Int /\ Null \notin Seq(Seq(Int)) /\ Null \notin Seq(Seq({Null, 6, 7}))
  /\ Malformed \notin [track : TripsAsked, events : Seq(EventsAsked)]

AskTrip ==
  \E n \in 0..3 : \E t \in [1..n -> 0..1], says \in [1..n -> Telemetry], cut \in Cuts(n),
                     laps \in {<< >>, <<Lap>>} :
    question' =
      [about |-> "trip",
       track |-> [points |-> [i \in 1..n |-> [t |-> t[i], place |-> i,
                                              altitudeM |-> says[i].altitudeM,
                                              fields |-> says[i].fields]],
                  segments |-> CutInto(cut, n), laps |-> laps,
                  status |-> "finalized", rest |-> "rest"]]

Events ==
  Sequences(EventsAsked, 1)
    \cup {<<[id |-> 2, occurredAt |-> s, media |-> m], [id |-> 1, occurredAt |-> t, media |-> {1}]>> :
            s \in {0, 1}, t \in {0, 1}, m \in SUBSET {1, 2}}

(* Documents of another program: arrays that fit and arrays that do not.   *)
Times == {<< >>} \cup [1..1 -> Sequences({0, 1, Null}, 2)] \cup [1..2 -> Sequences({0, 1}, 2)]
Shapes == Sequences(0..2, 2)
Filled(shape, value) == [s \in DOMAIN shape |-> [i \in 1..shape[s] |-> value]]

Arrays == {Null} \cup UNION {{Filled(shape, value) : shape \in Shapes} : value \in {7, Null}}

ASSUME DocumentAssumption == Null \notin Seq(Seq({0, 1, Null}))

DocumentOf(shape, times, extra, arrays) ==
  [features |-> <<
     [kind |-> "track",
      coordinates |-> [s \in DOMAIN shape |->
                         [i \in 1..shape[s] |-> [place |-> 2 * s + i, altitudeM |-> Null]]],
      coordTimes |-> times,
      fields |-> [f \in Fields |-> IF f = "heart" THEN arrays ELSE Null],
      segments |-> [s \in 1..(Len(shape) + extra) |-> [id |-> s]],
      laps |-> << >>, status |-> "finalized", rest |-> "rest"] >>,
   media |-> << >>]

AskDocument ==
  \E shape \in Shapes, times \in Times, extra \in 0..1, arrays \in Arrays :
    question' = [about |-> "document", document |-> DocumentOf(shape, times, extra, arrays)]

Specs ==
  [key : {1, 2}, type : {"select", "boolean", "number", "text"}, required : BOOLEAN,
   options : {<<Empty, 1>>}]

ASSUME FormAssumption ==
  \A K \in SUBSET {1, 2} : NoValue \notin [K -> Int \cup BOOLEAN \cup {Empty}]

AskForm ==
  \E specs \in Sequences(Specs, 2), categories \in {NoValue, <<Empty>>} :
    question' = [about |-> "form", specs |-> specs, categories |-> categories]

MapSources(id) ==
  [id : {id}, role : {Omitted, "base", "terrain"}, transport : {"pmtiles", "raster"},
   offlineLicensed : BOOLEAN]

SourcesAsked == {<<a>> : a \in MapSources(1)} \cup (MapSources(1) \X MapSources(2))
IdsAsked == {Omitted, << >>, <<1>>, <<2>>, <<1, 2>>, <<2, 1>>, <<1, 3>>}

AskRegions ==
  \E sources \in SourcesAsked, one \in IdsAsked, other \in IdsAsked :
    question' = [about |-> "regions", sources |-> sources, asked |-> <<one, other>>]

(* Of the regions asked for, those that could be had.                      *)
Had(sources, asked) == {n \in DOMAIN asked : Resolve(sources, asked[n]).refused = "no"}

(* Their manifests, downloaded at moments of any order.                    *)
Manifests(sources, asked, at) ==
  LET had == Picked([n \in DOMAIN asked |-> n], Had(sources, asked))
  IN [k \in DOMAIN had |-> ManifestOf(had[k], at[had[k]], sources, asked[had[k]])]

Ask ==
  /\ part = "functions" /\ question = NoQuestion
  /\ \/ AskTrack \/ AskChart
     \/ AskFixes \/ AskSamples \/ AskChannels \/ AskDraft
     \/ AskTrip \/ AskDocument \/ AskForm \/ AskRegions
  /\ UNCHANGED <<part, algorithmVars>>

Next ==
  \/ Ask
  \/ /\ UNCHANGED <<part, question>>
     /\ \/ /\ part = "elevation" /\ ElevationNext
           /\ UNCHANGED <<simplifyVars, pollingVars, idVars, replayVars, demoVars>>
        \/ /\ part = "simplify" /\ SimplifyNext
           /\ UNCHANGED <<elevationVars, pollingVars, idVars, replayVars, demoVars>>
        \/ /\ part = "polling" /\ PollingNext
           /\ UNCHANGED <<elevationVars, simplifyVars, idVars, replayVars, demoVars>>
        \/ /\ part = "ids" /\ IdNext
           /\ UNCHANGED <<elevationVars, simplifyVars, pollingVars, replayVars, demoVars>>
        \/ /\ part = "replay" /\ ReplayNext
           /\ UNCHANGED <<elevationVars, simplifyVars, pollingVars, idVars, demoVars>>
        \/ /\ part = "loop" /\ LoopNext
           /\ UNCHANGED <<elevationVars, simplifyVars, pollingVars, idVars, replayVars, panelsVars>>
        \/ /\ part = "panels" /\ PanelsNext
           /\ UNCHANGED <<elevationVars, simplifyVars, pollingVars, idVars, replayVars, loopVars>>

Spec == Init /\ [][Next]_allVars /\ PollingFairness /\ ReplayFairness

-----------------------------------------------------------------------------
(* Properties.                                                             *)

(* What is told of a track -- where it was, how much of it there is, its   *)
(* lines on the map, its charts and durations -- is so, whatever pauses,   *)
(* ties and missing readings it has.                                       *)
TrackIsToldTrue ==
  /\ question.about = "track" =>
       LET n == Len(question.track.points)
       IN /\ \A t \in (-1)..3 : PositionIsObserved(question.track, t)
          /\ \A i, j, k \in 1..n : i <= j /\ j <= k => LapsAddUp(question.track, i, j, k)
          /\ \A picture \in Pictures(question.track) :
               MapShowsTheTrack(picture, {[id |-> i, endIndex |-> i] : i \in 1..n}, [west |-> 9, east |-> 9])
  /\ question.about = "chart" =>
       /\ \A descriptor \in Descriptors, moment \in {Absent} \cup (-1)..3 :
            ChartIsTheTrip(question.track, descriptor, moment)
       /\ question.track.points = << >> =>
            \A ms \in Durations \cup {-1}, longer \in Durations : DurationReads(ms, longer)

(* What a track is made of keeps its promise: the fixes kept of a stream,  *)
(* the samples merged at a point, the channels declared on resuming, and   *)
(* the times interpolated in a draft.                                      *)
TrackIsMadeRight ==
  /\ question.about = "fixes" => TrackIsFaithful(question.fixes, SamplingPolicy)
  /\ question.about = "samples" =>
       \A t \in 1..2 : MergedAtItsTime(question.samples, t, question.policy)
  /\ question.about = "channels" => ChannelsKeepTheirMeaning(question.restored, question.sensors)
  /\ question.about = "draft" =>
       \A options \in Options : InterpolatedDraftIsATrack(question.draft, options)

(* What leaves one place arrives at the other: a trip exported and         *)
(* imported, a document of another program, the fields of a form, and a    *)
(* region downloaded and read again.                                       *)
NothingIsLostOnTheWay ==
  /\ question.about = "trip" =>
       \A events \in IF Len(question.track.points) = 1 THEN Events ELSE {<< >>} :
         TripComesBack(question.track, events)
  /\ question.about = "document" => ImportRepairsNothing(question.document)
  /\ question.about = "form" => FormComesThrough(question.specs, question.categories)
  /\ question.about = "regions" =>
       /\ \A n \in DOMAIN question.asked : OnlyLicensedRegions(question.sources, question.asked[n])
       /\ LET put == UNION {ArchivesOf(n, question.sources, question.asked[n]) :
                              n \in Had(question.sources, question.asked)}
          IN \A at \in [1..2 -> {Omitted, 1, 2}], gone \in {{}, put} \cup {{a} : a \in put},
                later \in {question.sources, SubSeq(question.sources, 1, 1), Reverse(question.sources)} :
               NewestArchiveServes(Manifests(question.sources, question.asked, at), put, gone, later)

(* The two clocks: a polled source left started keeps reading for its own  *)
(* session, and a replay that is let be comes to its end and stops.        *)
ClocksGoOn == PollingGoesOn /\ PlayEnds
=============================================================================
