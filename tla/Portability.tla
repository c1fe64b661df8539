------------------------------- MODULE Portability -------------------------------
(***************************************************************************)
(* Export and import of a trip, packages/core/src/portability.ts: a track  *)
(* and its events as GeoJSON features with the media they refer to.        *)
(*                                                                         *)
(* Besides its place and time a point may have an altitude, which travels  *)
(* in its coordinate, and fields -- accuracy, speed, heading, sensor       *)
(* channels -- which travel as arrays parallel to the coordinates, with    *)
(* Null where a point has none.  What is copied as it is (descriptors,     *)
(* statistics, tags, consumer data) is `rest`.  Simplified lines are       *)
(* derived and are not exported.                                           *)
(***************************************************************************)
EXTENDS TrackData, Sequencing, SequencesExt

CONSTANTS Null,       \* no value: undefined, and null in a document
          Fields,     \* names of the per-point fields
          Malformed   \* TrackImportError, or the refusal of the geometry

-----------------------------------------------------------------------------
(* Export.                                                                 *)

(* One array per segment, of what is said of each of its points.          *)
PerSegment(track, said) ==
  [s \in DOMAIN track.segments |->
     SubSeq(said, track.segments[s].startIndex, track.segments[s].endIndex)]

(* A field no point has is left out of the document.                       *)
Parallel(track, field) ==
  IF \A i \in DOMAIN track.points : track.points[i].fields[field] = Null THEN Null
  ELSE PerSegment(track, [i \in DOMAIN track.points |-> track.points[i].fields[field]])

Coordinate(point) == [place |-> point.place, altitudeM |-> point.altitudeM]

(* Mutated: as the caller lists them.                                      *)
AsGiven(events) == events

(* occurredAt, then id: the caller's order does not matter.                *)
InOrder(events) ==
  LET earlier(i, j) == \/ events[i].occurredAt < events[j].occurredAt
                       \/ /\ events[i].occurredAt = events[j].occurredAt
                          /\ events[i].id < events[j].id \/ (events[i].id = events[j].id /\ i < j)
      before == {w \in (DOMAIN events) \X (DOMAIN events) : earlier(w[1], w[2])}
      order == Arranged(DOMAIN events, before)
  IN [k \in DOMAIN events |-> events[order[k]]]

(* Keyed by id, sorted by it.                                              *)
Manifest(events) ==
  LET media == UNION {e.media : e \in ToSet(events)}
  IN Arranged(media, {w \in media \X media : w[1] < w[2]})

TrackFeature(track) ==
  [kind |-> "track",
   coordinates |-> PerSegment(track, [i \in DOMAIN track.points |-> Coordinate(track.points[i])]),
   coordTimes |-> PerSegment(track, [i \in DOMAIN track.points |-> track.points[i].t]),
   fields |-> [field \in Fields |-> Parallel(track, field)],
   segments |-> [s \in DOMAIN track.segments |-> [id |-> track.segments[s].id]],
   laps |-> track.laps, status |-> track.status, rest |-> track.rest]

EventFeature(event) == [kind |-> "event", event |-> event]

TrackToGeoJSON(track, events) ==
  IF ~ValidTrackGeometry(track.points, track.segments, track.laps) THEN Malformed
  ELSE [features |-> <<TrackFeature(track)>>
                       \o [i \in DOMAIN InOrder(events) |-> EventFeature(InOrder(events)[i])],
        media |-> Manifest(events)]

-----------------------------------------------------------------------------
(* Import.                                                                 *)

(* assertAligned: an array per segment, a value per coordinate.            *)
Aligned(arrays, coordinates) ==
  arrays # Null =>
    /\ Len(arrays) = Len(coordinates)
    /\ \A s \in DOMAIN coordinates : Len(arrays[s]) = Len(coordinates[s])

OfKind(document, kind) ==
  Picked(document.features, {i \in DOMAIN document.features : document.features[i].kind = kind})

Shaped(feature) ==
  /\ Len(feature.segments) = Len(feature.coordinates)
  /\ Aligned(feature.coordTimes, feature.coordinates)
  /\ \A field \in Fields : Aligned(feature.fields[field], feature.coordinates)

ReadParallel(arrays, s, i) == IF arrays = Null THEN Null ELSE arrays[s][i]

PointAt(feature, s, i) ==
  [place |-> feature.coordinates[s][i].place, altitudeM |-> feature.coordinates[s][i].altitudeM,
   t |-> feature.coordTimes[s][i],
   fields |-> [field \in Fields |-> ReadParallel(feature.fields[field], s, i)]]

TrackOf(feature) ==
  LET lines == feature.coordinates
      before(s) == SumOver([k \in DOMAIN lines |-> Len(lines[k])], 0, s - 1)
  IN [points |-> FlattenSeq([s \in DOMAIN lines |->
                   [i \in DOMAIN lines[s] |-> PointAt(feature, s, i)]]),
      segments |-> [s \in DOMAIN lines |->
                      [id |-> feature.segments[s].id,
                       startIndex |-> before(s) + 1, endIndex |-> before(s) + Len(lines[s])]],
      laps |-> feature.laps, status |-> feature.status, rest |-> feature.rest]

GeoJSONToTrack(document) ==
  LET found == OfKind(document, "track")
      events == OfKind(document, "event")
      track == TrackOf(found[1])
  IN IF Len(found) # 1 THEN Malformed
     ELSE IF ~Shaped(found[1]) \/ Null \in ToSet(FlattenSeq(found[1].coordTimes)) THEN Malformed
     ELSE IF ~ValidTrackGeometry(track.points, track.segments, track.laps) THEN Malformed
     ELSE [track |-> track, events |-> [i \in DOMAIN events |-> events[i].event]]

-----------------------------------------------------------------------------
(* Properties, of the answers.                                             *)

(* An exported trip comes back as it was, its events by their time and     *)
(* then by their id whatever order they were given in; the manifest names  *)
(* what they refer to and nothing twice.                                   *)
TripComesBack(track, events) ==
  LET exported == TrackToGeoJSON(track, events)
      back == GeoJSONToTrack(exported)
  IN exported # Malformed =>
       /\ back # Malformed /\ back.track = track
       /\ ToSet(back.events) = ToSet(events)
       /\ \A i, j \in DOMAIN back.events : i < j =>
            LET e == back.events[i]
                f == back.events[j]
            IN e.occurredAt < f.occurredAt \/ (e.occurredAt = f.occurredAt /\ e.id < f.id)
       /\ ToSet(exported.media) = UNION {e.media : e \in ToSet(events)}
       /\ IsInjective(exported.media)

(* A field that is there and says nothing is as good as none.              *)
Canonical(feature) ==
  [feature EXCEPT !.fields = [field \in Fields |->
     IF feature.fields[field] # Null
          /\ \A s \in DOMAIN feature.fields[field] : ToSet(feature.fields[field][s]) \subseteq {Null}
       THEN Null ELSE feature.fields[field]]]

(* "Import surfaces malformed temporal or segment structure rather than    *)
(* repairing it": a document another program wrote is refused, or every    *)
(* coordinate, time and field value of it is in the track, at its place:   *)
(* the track exports to that document again.                               *)
ImportRepairsNothing(document) ==
  LET imported == GeoJSONToTrack(document)
  IN imported # Malformed =>
       Canonical(OfKind(document, "track")[1]) = TrackFeature(imported.track)
=============================================================================
