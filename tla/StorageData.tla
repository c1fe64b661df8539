----------------------------- MODULE StorageData -----------------------------
(***************************************************************************)
(* The rows a consumer's store holds: tracks, their list projection,       *)
(* events and blobs (packages/core/src/storage.ts, summary.ts, event.ts).  *)
(* A table is a set of rows with distinct ids.  Of a track only the status *)
(* is kept, of an event its owner and the blobs its media refer to; a blob *)
(* is its key.                                                             *)
(***************************************************************************)
EXTENDS TrackData, FiniteSets

CONSTANTS TrackIds, EventIds, BlobKeys,
          NoOwner  \* the trackId of an event that belongs to no track

ASSUME StorageDataAssumption == NoOwner \notin TrackIds

TrackRow == [id : TrackIds, status : TrackStatus]
EventRow == [id : EventIds, trackId : TrackIds \cup {NoOwner}, media : SUBSET BlobKeys]
SummaryRow == [id : TrackIds, status : TrackStatus, eventCount : Nat]

-----------------------------------------------------------------------------
Put(table, row) == {r \in table : r.id # row.id} \cup {row}

Without(table, id) == {r \in table : r.id # id}

WithId(table, id) == {r \in table : r.id = id}

EventsOf(events, trackId) == {e \in events : e.trackId = trackId}

BlobKeysOf(events) == UNION {e.media : e \in events}

(* summariseTrack; the bounding box, the statistics and the tags are left  *)
(* out.                                                                    *)
SummariseTrack(track, eventCount) ==
  [id |-> track.id, status |-> track.status, eventCount |-> eventCount]

(* What a list of trips shows for these tables.                            *)
SummariesOf(tracks, events) ==
  {SummariseTrack(t, Cardinality(EventsOf(events, t.id))) : t \in tracks}
=============================================================================
