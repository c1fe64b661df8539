------------------------------ MODULE IdbStorage ------------------------------
(***************************************************************************)
(* The IndexedDB adapter (packages/storage-idb/src/storage-adapter.ts),    *)
(* used by several callers at once: the components of a page, and other    *)
(* pages with a connection of their own to the same database.  Every       *)
(* operation is one readwrite transaction, and stores its list projection  *)
(* beside the tracks and events it is computed from.                       *)
(*                                                                         *)
(* IndexedDB runs two readwrite transactions at the same time only if      *)
(* their scopes have no store in common, shows the writes of a transaction *)
(* to nobody before it commits, and undoes them when it aborts.  So a      *)
(* transaction is two steps: Begin, with the reads it starts with, and its *)
(* commit, with everything it does from then on; or an abort.              *)
(***************************************************************************)
EXTENDS StorageData

CONSTANTS Clients,  \* callers; each has one call outstanding at a time
          MaxCalls  \* bound: calls made in all

ASSUME IdbStorageAssumption == MaxCalls \in Nat

VARIABLES
  tracks, summaries, events, blobs,  \* the committed object stores
  call,    \* [Clients -> the operation under way, or Idle]
  minted,  \* blob keys newId has returned
  made     \* calls made so far

storeVars == <<tracks, summaries, events, blobs>>
vars == <<tracks, summaries, events, blobs, call, minted, made>>

Idle == [op |-> "idle", on |-> {}, phase |-> "idle", seen |-> {}]

(* Mutated: each operation locks only the store it is named for.           *)
ScopeOwnStore ==
  [idle |-> {},
   saveTrack |-> {"tracks"}, deleteTrack |-> {"tracks"},
   saveEvent |-> {"events"}, deleteEvent |-> {"events"},
   putBlob |-> {"blobs"}, deleteBlob |-> {"blobs"},
   clearAll |-> {"tracks", "summaries", "events", "blobs"}]

(* The stores each operation names when it opens its transaction.          *)
Scope ==
  [idle |-> {},
   saveTrack |-> {"tracks", "summaries", "events"},
   deleteTrack |-> {"tracks", "summaries", "events", "blobs"},
   saveEvent |-> {"events", "summaries"},
   deleteEvent |-> {"events", "summaries"},
   putBlob |-> {"blobs"},
   deleteBlob |-> {"blobs"},
   clearAll |-> {"tracks", "summaries", "events", "blobs"}]

Init ==
  /\ tracks = {} /\ summaries = {} /\ events = {} /\ blobs = {}
  /\ call = [c \in Clients |-> Idle]
  /\ minted = {}
  /\ made = 0

-----------------------------------------------------------------------------
(* Calls.                                                                  *)

Request(c, op, on) ==
  /\ call[c].phase = "idle"
  /\ made < MaxCalls
  /\ made' = made + 1
  /\ call' = [call EXCEPT ![c] = [op |-> op, on |-> on, phase |-> "waiting", seen |-> {}]]
  /\ UNCHANGED storeVars

RequestPutBlob(c) ==
  \E key \in BlobKeys \ minted :
    /\ Request(c, "putBlob", key)
    /\ minted' = minted \cup {key}

RequestTrack(c) ==
  /\ \/ \E t \in TrackRow : Request(c, "saveTrack", t)
     \/ \E id \in TrackIds : Request(c, "deleteTrack", id)
  /\ UNCHANGED minted

RequestSaveEvent(c) ==
  \E e \in EventRow :
    /\ e.media \subseteq minted
    /\ Request(c, "saveEvent", e)
    /\ UNCHANGED minted

RequestDelete(c) ==
  /\ \/ \E id \in EventIds : Request(c, "deleteEvent", id)
     \/ \E key \in minted : Request(c, "deleteBlob", key)
     \/ Request(c, "clearAll", {})
  /\ UNCHANGED minted

-----------------------------------------------------------------------------
(* Transactions.                                                           *)

(* What an operation reads first: saveTrack counts the track's events,     *)
(* deleteTrack selects those it dooms, saveEvent and deleteEvent fetch the *)
(* row they replace.                                                       *)
FirstReads(o) ==
  CASE o.op = "saveTrack" -> EventsOf(events, o.on.id)
    [] o.op = "deleteTrack" -> EventsOf(events, o.on)
    [] o.op = "saveEvent" -> WithId(events, o.on.id)
    [] o.op = "deleteEvent" -> WithId(events, o.on)
    [] OTHER -> {}

(* No open transaction has a store of this one in its scope.               *)
ScopeFree(c) ==
  \A d \in Clients \ {c} :
    call[d].phase = "open" => Scope[call[d].op] \cap Scope[call[c].op] = {}

Begin(c) ==
  /\ call[c].phase = "waiting"
  /\ ScopeFree(c)
  /\ call' = [call EXCEPT ![c].phase = "open", ![c].seen = FirstReads(call[c])]
  /\ UNCHANGED <<storeVars, minted, made>>

Open(c, op) == call[c].phase = "open" /\ call[c].op = op

Return(c) == call' = [call EXCEPT ![c] = Idle] /\ UNCHANGED <<minted, made>>

CommitSaveTrack(c) ==
  /\ Open(c, "saveTrack")
  /\ tracks' = Put(tracks, call[c].on)
  /\ summaries' = Put(summaries, SummariseTrack(call[c].on, Cardinality(call[c].seen)))
  /\ UNCHANGED <<events, blobs>>
  /\ Return(c)

(* Mutated: a blob of a doomed event is taken for an orphan.               *)
OrphansAll(doomed, survivors) == BlobKeysOf(doomed)

(* A blob is orphaned only if nothing that survives still points at it.    *)
Orphans(doomed, survivors) == BlobKeysOf(doomed) \ BlobKeysOf(survivors)

CommitDeleteTrack(c) ==
  /\ Open(c, "deleteTrack")
  /\ tracks' = Without(tracks, call[c].on)
  /\ summaries' = Without(summaries, call[c].on)
  /\ events' = events \ call[c].seen
  /\ blobs' = blobs \ Orphans(call[c].seen, events')
  /\ Return(c)

(* Mutated: the new owner alone is counted again.                          *)
OwnersNewOnly(previous, owner) == {owner} \ {NoOwner}

(* The tracks whose count a write of an event may change.                  *)
Owners(previous, owner) == ({e.trackId : e \in previous} \cup {owner}) \ {NoOwner}

(* recountOwners, over the events as the transaction has left them.        *)
RecountOwners(table, owners) ==
  {IF s.id \in owners THEN [s EXCEPT !.eventCount = Cardinality(EventsOf(table, s.id))]
   ELSE s : s \in summaries}

CommitSaveEvent(c) ==
  /\ Open(c, "saveEvent")
  /\ events' = Put(events, call[c].on)
  /\ summaries' = RecountOwners(events', Owners(call[c].seen, call[c].on.trackId))
  /\ UNCHANGED <<tracks, blobs>>
  /\ Return(c)

CommitDeleteEvent(c) ==
  /\ Open(c, "deleteEvent")
  /\ events' = Without(events, call[c].on)
  /\ summaries' = RecountOwners(events', Owners(call[c].seen, NoOwner))
  /\ UNCHANGED <<tracks, blobs>>
  /\ Return(c)

CommitPutBlob(c) ==
  /\ Open(c, "putBlob")
  /\ blobs' = blobs \cup {call[c].on}
  /\ UNCHANGED <<tracks, summaries, events>>
  /\ Return(c)

CommitDeleteBlob(c) ==
  /\ Open(c, "deleteBlob")
  /\ blobs' = blobs \ {call[c].on}
  /\ UNCHANGED <<tracks, summaries, events>>
  /\ Return(c)

CommitClearAll(c) ==
  /\ Open(c, "clearAll")
  /\ tracks' = {} /\ summaries' = {} /\ events' = {} /\ blobs' = {}
  /\ Return(c)

(* A request fails, the quota is reached or the page dies: the transaction *)
(* is undone and the call rejects.                                         *)
Abort(c) ==
  /\ call[c].phase \in {"waiting", "open"}
  /\ UNCHANGED storeVars
  /\ Return(c)

-----------------------------------------------------------------------------
Commit(c) ==
  \/ CommitSaveTrack(c) \/ CommitDeleteTrack(c)
  \/ CommitSaveEvent(c) \/ CommitDeleteEvent(c)
  \/ CommitPutBlob(c) \/ CommitDeleteBlob(c) \/ CommitClearAll(c)

Transactions(c) == Begin(c) \/ Commit(c) \/ Abort(c)

Next ==
  \E c \in Clients :
    \/ RequestPutBlob(c) \/ RequestTrack(c) \/ RequestSaveEvent(c) \/ RequestDelete(c)
    \/ Transactions(c)

Spec == Init /\ [][Next]_vars

-----------------------------------------------------------------------------
(* Properties.                                                             *)

(* Each store holds rows of its schema, one per id, and every summary is   *)
(* the summary of an id a track may have.                                  *)
StorageTypeOK ==
  /\ tracks \subseteq TrackRow /\ summaries \subseteq SummaryRow
  /\ events \subseteq EventRow /\ blobs \subseteq minted
  /\ \A table \in {tracks, summaries, events} :
       \A r, s \in table : r.id = s.id => r = s
  /\ minted \subseteq BlobKeys /\ made \in Nat
  /\ \A c \in Clients : call[c].phase \in {"idle", "waiting", "open"}

(* saveTrack, saveEvent, deleteEvent and deleteTrack: "a track and its     *)
(* summary must never be observable in disagreement", the event count      *)
(* included, whichever calls interleave and whichever of them abort.       *)
SummariesAgree == summaries = SummariesOf(tracks, events)

(* deleteTrack: no event of the track survives it, and a blob goes only if *)
(* no surviving event refers to it.                                        *)
CascadeExact ==
  [][\A c \in Clients : CommitDeleteTrack(c) =>
       /\ EventsOf(events', call[c].on) = {}
       /\ blobs \cap BlobKeysOf(events') \subseteq blobs']_vars

(* The adapter implements the contract: each call takes effect as one step *)
(* of the in-memory reference, or not at all.                              *)
Memory == INSTANCE MemoryStorage
MemorySpec == Memory!Spec
=============================================================================
