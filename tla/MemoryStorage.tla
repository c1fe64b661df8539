---------------------------- MODULE MemoryStorage ----------------------------
(***************************************************************************)
(* The storage contract as its in-memory reference implementation states   *)
(* it (packages/core/src/testing/memory-storage.ts): every operation is    *)
(* one step, and the list projection is computed, never stored.            *)
(***************************************************************************)
EXTENDS StorageData

VARIABLES tracks, events, blobs

memoryVars == <<tracks, events, blobs>>

Init == tracks = {} /\ events = {} /\ blobs = {}

SaveTrack(track) == tracks' = Put(tracks, track) /\ UNCHANGED <<events, blobs>>

(* The cascade: the track's events, and the blobs only they referred to.   *)
DeleteTrack(id) ==
  LET doomed == EventsOf(events, id)
  IN /\ tracks' = Without(tracks, id)
     /\ events' = events \ doomed
     /\ blobs' = blobs \ (BlobKeysOf(doomed) \ BlobKeysOf(events \ doomed))

SaveEvent(event) == events' = Put(events, event) /\ UNCHANGED <<tracks, blobs>>

DeleteEvent(id) == events' = Without(events, id) /\ UNCHANGED <<tracks, blobs>>

(* newId has never returned this key before.                               *)
PutBlob(key) == blobs' = blobs \cup {key} /\ UNCHANGED <<tracks, events>>

DeleteBlob(key) == blobs' = blobs \ {key} /\ UNCHANGED <<tracks, events>>

ClearAll == tracks' = {} /\ events' = {} /\ blobs' = {}

Next ==
  \/ \E t \in TrackRow : SaveTrack(t)
  \/ \E id \in TrackIds : DeleteTrack(id)
  \/ \E e \in EventRow : SaveEvent(e)
  \/ \E id \in EventIds : DeleteEvent(id)
  \/ \E key \in BlobKeys : PutBlob(key) \/ DeleteBlob(key)
  \/ ClearAll

Spec == Init /\ [][Next]_memoryVars
=============================================================================
