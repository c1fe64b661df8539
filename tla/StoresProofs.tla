----------------------------- MODULE StoresProofs -----------------------------
(***************************************************************************)
(* What is stored, for any number of callers, tracks, events, blobs,       *)
(* regions and sources.                                                    *)
(*                                                                         *)
(* The IndexedDB adapter implements the storage contract.  Scopes of open  *)
(* transactions are disjoint, so what a transaction read first is still    *)
(* what the store holds when it commits, and the summary it then writes,   *)
(* or the cascade it then deletes, is the one a single step would have     *)
(* computed.                                                               *)
(*                                                                         *)
(* A listed region is whole and nothing stored is invisible.  A region has *)
(* one download at most, and is listed, doomed, shown or on a list only    *)
(* when that download is over.  So no sweep but its own touches what a     *)
(* download has put, and what a download has still to put or a sweep still *)
(* to remove accounts for every archive.                                   *)
(***************************************************************************)
EXTENDS IdbStorage, UseOfflineRegions, FiniteSetTheorems, TLAPS

-----------------------------------------------------------------------------
(* The IndexedDB adapter.                                                  *)

Args == TrackRow \cup TrackIds \cup EventRow \cup EventIds \cup BlobKeys \cup {{}}

Calls == [op : DOMAIN Scope, on : Args, phase : {"idle", "waiting", "open"},
          seen : SUBSET EventRow]

UniqueIds(table) == \A r, s \in table : r.id = s.id => r = s

TablesInv ==
  /\ tracks \subseteq TrackRow /\ events \subseteq EventRow
  /\ UniqueIds(tracks) /\ UniqueIds(events)
  /\ IsFiniteSet(events)
  /\ blobs \subseteq minted /\ minted \subseteq BlobKeys
  /\ made \in Nat

ArgumentFits(o) ==
  /\ o.op = "saveTrack" => o.on \in TrackRow
  /\ o.op = "deleteTrack" => o.on \in TrackIds
  /\ o.op = "saveEvent" => o.on \in EventRow
  /\ o.op = "deleteEvent" => o.on \in EventIds
  /\ o.op \in {"putBlob", "deleteBlob"} => o.on \in minted

CallsInv ==
  /\ call \in [Clients -> Calls]
  /\ \A c \in Clients : ArgumentFits(call[c])

(* Open transactions share no store.                                       *)
ExclusiveInv ==
  \A c, d \in Clients :
    c # d /\ call[c].phase = "open" /\ call[d].phase = "open"
      => Scope[call[c].op] \cap Scope[call[d].op] = {}

(* What an open transaction read first is still what the store holds.      *)
SeenInv == \A c \in Clients : call[c].phase = "open" => call[c].seen = FirstReads(call[c])

IInv == TablesInv /\ CallsInv /\ ExclusiveInv /\ SeenInv /\ SummariesAgree

-----------------------------------------------------------------------------
(* Facts about tables.                                                     *)

(* Put keeps the ids of a table distinct.                                  *)
LEMMA PutUnique ==
  ASSUME NEW table, NEW row, UniqueIds(table)
  PROVE  UniqueIds(Put(table, row))
  BY DEF UniqueIds, Put

(* So does every subset of a table.                                        *)
LEMMA SubsetUnique ==
  ASSUME NEW table, NEW sub \in SUBSET table, UniqueIds(table)
  PROVE  UniqueIds(sub)
  BY DEF UniqueIds

(* Put adds at most one row.                                               *)
LEMMA PutFinite ==
  ASSUME NEW table, NEW row, IsFiniteSet(table)
  PROVE  IsFiniteSet(Put(table, row))
  <1>1. IsFiniteSet({r \in table : r.id # row.id})
    BY FS_Subset
  <1> QED
    BY <1>1, FS_AddElement DEF Put

(* saveTrack: a new row and its new summary, the others as they were.      *)
LEMMA SaveTrackAgrees ==
  ASSUME NEW rows, NEW ev, NEW track
  PROVE  Put(SummariesOf(rows, ev), SummariseTrack(track, Cardinality(EventsOf(ev, track.id))))
           = SummariesOf(Put(rows, track), ev)
  <1> DEFINE count(id) == Cardinality(EventsOf(ev, id))
             sum(t) == SummariseTrack(t, count(t.id))
             others == {t \in rows : t.id # track.id}
  <1>1. \A t : sum(t).id = t.id
    BY DEF SummariseTrack
  <1>2. SummariesOf(rows, ev) = {sum(t) : t \in rows}
    BY DEF SummariesOf
  <1>3. SummariesOf(Put(rows, track), ev) = {sum(t) : t \in others \cup {track}}
    BY DEF SummariesOf, Put
  <1>4. {s \in {sum(t) : t \in rows} : s.id # track.id} = {sum(t) : t \in others}
    <2> HIDE DEF sum
    <2> QED BY <1>1
  <1>5. Put(SummariesOf(rows, ev), sum(track))
          = {s \in {sum(t) : t \in rows} : s.id # track.id} \cup {sum(track)}
    <2> HIDE DEF sum
    <2> QED BY <1>1, <1>2 DEF Put
  <1> QED
    <2> HIDE DEF sum, others
    <2>1. {sum(t) : t \in others} \cup {sum(track)} = {sum(t) : t \in others \cup {track}}
      OBVIOUS
    <2>2. Put(SummariesOf(rows, ev), sum(track)) = SummariesOf(Put(rows, track), ev)
      BY <1>3, <1>4, <1>5, <2>1
    <2> QED BY <2>2 DEF sum

(* deleteTrack: one row and its summary gone, and events of it alone.      *)
LEMMA DeleteTrackAgrees ==
  ASSUME NEW rows, NEW ev, NEW ev2, NEW id,
         \A other : other # id => EventsOf(ev2, other) = EventsOf(ev, other)
  PROVE  Without(SummariesOf(rows, ev), id) = SummariesOf(Without(rows, id), ev2)
  <1> DEFINE sum(t) == SummariseTrack(t, Cardinality(EventsOf(ev, t.id)))
             sum2(t) == SummariseTrack(t, Cardinality(EventsOf(ev2, t.id)))
             others == {t \in rows : t.id # id}
  <1>1. \A t : sum(t).id = t.id
    BY DEF SummariseTrack
  <1>2. \A t : t.id # id => sum(t) = sum2(t)
    OBVIOUS
  <1>3. SummariesOf(rows, ev) = {sum(t) : t \in rows}
    BY DEF SummariesOf
  <1>4. SummariesOf(Without(rows, id), ev2) = {sum2(t) : t \in others}
    BY DEF SummariesOf, Without
  <1> HIDE DEF sum, sum2
  <1>5. {s \in {sum(t) : t \in rows} : s.id # id} = {sum2(t) : t \in others}
    BY <1>1, <1>2
  <1> QED
    BY <1>3, <1>4, <1>5 DEF Without

(* recountOwners: recounting every track whose events changed is enough.   *)
LEMMA RecountAgrees ==
  ASSUME NEW rows, NEW ev, NEW ev2, NEW owners,
         \A t \in rows : t.id \notin owners => EventsOf(ev2, t.id) = EventsOf(ev, t.id)
  PROVE  {IF s.id \in owners
            THEN [s EXCEPT !.eventCount = Cardinality(EventsOf(ev2, s.id))]
            ELSE s : s \in SummariesOf(rows, ev)}
           = SummariesOf(rows, ev2)
  <1> DEFINE sum(t) == SummariseTrack(t, Cardinality(EventsOf(ev, t.id)))
             sum2(t) == SummariseTrack(t, Cardinality(EventsOf(ev2, t.id)))
             fix(s) == IF s.id \in owners
                         THEN [s EXCEPT !.eventCount = Cardinality(EventsOf(ev2, s.id))]
                         ELSE s
  <1>1. \A t \in rows : fix(sum(t)) = sum2(t)
    BY DEF SummariseTrack
  <1>2. SummariesOf(rows, ev) = {sum(t) : t \in rows} /\ SummariesOf(rows, ev2) = {sum2(t) : t \in rows}
    BY DEF SummariesOf
  <1>3. {fix(s) : s \in SummariesOf(rows, ev)} = SummariesOf(rows, ev2)
    <2> HIDE DEF sum, sum2, fix
    <2> QED BY <1>1, <1>2
  <1> QED
    BY <1>3
-----------------------------------------------------------------------------
(* The invariant.                                                          *)

LEMMA InvInit == Init => IInv
  <1> SUFFICES ASSUME Init PROVE IInv
    OBVIOUS
  <1>1. TablesInv
    BY FS_EmptySet DEF Init, TablesInv, UniqueIds
  <1>2. CallsInv
    BY DEF Init, CallsInv, Calls, Args, Idle, Scope, ArgumentFits
  <1>3. ExclusiveInv /\ SeenInv
    BY DEF Init, ExclusiveInv, SeenInv, Idle
  <1>4. SummariesAgree
    BY DEF Init, SummariesAgree, SummariesOf
  <1> QED
    BY <1>1, <1>2, <1>3, <1>4 DEF IInv

(* Beside an open transaction over the events there is none that has read  *)
(* any event.                                                              *)
LEMMA OthersReadNoEvents ==
  ASSUME CallsInv, ExclusiveInv,
         NEW c \in Clients, NEW d \in Clients \ {c},
         call[c].phase = "open", "events" \in Scope[call[c].op], call[d].phase = "open"
  PROVE  call[d].op \in {"idle", "putBlob", "deleteBlob"}
  <1>1. "events" \notin Scope[call[d].op]
    BY DEF ExclusiveInv
  <1>2. call[d].op \in DOMAIN Scope
    BY DEF CallsInv, Calls
  <1> QED
    BY <1>1, <1>2 DEF Scope

(* The end of a call leaves the others as they were.                       *)
LEMMA ReturnKeeps ==
  ASSUME CallsInv, ExclusiveInv, SeenInv, NEW c \in Clients, Return(c),
         \/ events' = events
         \/ call[c].phase = "open" /\ "events" \in Scope[call[c].op]
  PROVE  CallsInv' /\ ExclusiveInv' /\ SeenInv'
  <1>1. call' = [call EXCEPT ![c] = Idle] /\ minted' = minted
    BY DEF Return
  <1>2. Idle \in Calls
    BY DEF Idle, Calls, Args, Scope
  <1>3. CallsInv'
    BY <1>1, <1>2 DEF CallsInv, ArgumentFits, Idle
  <1>4. call'[c].phase = "idle" /\ \A d \in Clients \ {c} : call'[d] = call[d]
    BY <1>1 DEF CallsInv, Idle
  <1>5. ExclusiveInv'
    BY <1>4 DEF ExclusiveInv
  <1>6. SeenInv'
    <2> SUFFICES ASSUME NEW d \in Clients, call'[d].phase = "open"
                 PROVE  call'[d].seen = FirstReads(call[d])'
      BY DEF SeenInv
    <2>1. d # c /\ call'[d] = call[d]
      BY <1>4
    <2>2. CASE events' = events
      BY <2>1, <2>2 DEF SeenInv, FirstReads
    <2>3. CASE call[c].phase = "open" /\ "events" \in Scope[call[c].op]
      <3>1. call[d].op \in {"idle", "putBlob", "deleteBlob"}
        BY <2>1, <2>3, OthersReadNoEvents
      <3> QED
        BY <2>1, <3>1 DEF SeenInv, FirstReads
    <2> QED
      BY <2>2, <2>3
  <1> QED
    BY <1>3, <1>5, <1>6

(* The ids of a saveTrack's summary are its track's, so both tables change *)
(* together, and so on for the other commits: the tables stay well formed. *)
LEMMA CommitKeepsTables ==
  ASSUME IInv, NEW c \in Clients, Commit(c)
  PROVE  TablesInv'
  <1> USE DEF Open, Return
  <1>1. CASE CommitSaveTrack(c)
    <2>1. tracks' = Put(tracks, call[c].on) /\ call[c].on \in TrackRow
      BY <1>1 DEF CommitSaveTrack, IInv, CallsInv, ArgumentFits
    <2>2. UniqueIds(tracks')
      BY <2>1, PutUnique DEF IInv, TablesInv
    <2> QED
      BY <1>1, <2>1, <2>2 DEF CommitSaveTrack, IInv, TablesInv, Put
  <1>2. CASE CommitDeleteTrack(c)
    <2>1. tracks' \subseteq tracks /\ events' \subseteq events /\ blobs' \subseteq blobs
      BY <1>2 DEF CommitDeleteTrack, Without, Orphans
    <2>2. UniqueIds(tracks') /\ UniqueIds(events') /\ IsFiniteSet(events')
      BY <2>1, SubsetUnique, FS_Subset DEF IInv, TablesInv
    <2> QED
      BY <1>2, <2>1, <2>2 DEF CommitDeleteTrack, IInv, TablesInv
  <1>3. CASE CommitSaveEvent(c)
    <2>1. events' = Put(events, call[c].on) /\ call[c].on \in EventRow
      BY <1>3 DEF CommitSaveEvent, IInv, CallsInv, ArgumentFits
    <2>2. UniqueIds(events') /\ IsFiniteSet(events')
      BY <2>1, PutUnique, PutFinite DEF IInv, TablesInv
    <2> QED
      BY <1>3, <2>1, <2>2 DEF CommitSaveEvent, IInv, TablesInv, Put
  <1>4. CASE CommitDeleteEvent(c)
    <2>1. events' \subseteq events
      BY <1>4 DEF CommitDeleteEvent, Without
    <2>2. UniqueIds(events') /\ IsFiniteSet(events')
      BY <2>1, SubsetUnique, FS_Subset DEF IInv, TablesInv
    <2> QED
      BY <1>4, <2>1, <2>2 DEF CommitDeleteEvent, IInv, TablesInv
  <1>5. CASE CommitPutBlob(c)
    BY <1>5 DEF CommitPutBlob, IInv, CallsInv, ArgumentFits, TablesInv, UniqueIds
  <1>6. CASE CommitDeleteBlob(c)
    BY <1>6 DEF CommitDeleteBlob, IInv, TablesInv, UniqueIds
  <1>7. CASE CommitClearAll(c)
    BY <1>7, FS_EmptySet DEF CommitClearAll, IInv, TablesInv, UniqueIds
  <1> QED
    BY <1>1, <1>2, <1>3, <1>4, <1>5, <1>6, <1>7 DEF Commit

(* What a transaction read first, spelled out per operation.               *)
LEMMA SeenIsCurrent ==
  ASSUME IInv, NEW c \in Clients, call[c].phase = "open"
  PROVE  /\ call[c].op = "saveTrack" => call[c].seen = EventsOf(events, call[c].on.id)
         /\ call[c].op = "deleteTrack" => call[c].seen = EventsOf(events, call[c].on)
         /\ call[c].op = "saveEvent" => call[c].seen = WithId(events, call[c].on.id)
         /\ call[c].op = "deleteEvent" => call[c].seen = WithId(events, call[c].on)
  BY DEF IInv, SeenInv, FirstReads

LEMMA CommitKeepsSummaries ==
  ASSUME IInv, NEW c \in Clients, Commit(c)
  PROVE  SummariesAgree'
  <1> DEFINE on == call[c].on
             seen == call[c].seen
  <1>a. summaries = SummariesOf(tracks, events)
    BY DEF IInv, SummariesAgree
  <1>1. CASE CommitSaveTrack(c)
    <2>1. seen = EventsOf(events, on.id)
      BY <1>1, SeenIsCurrent DEF CommitSaveTrack, Open
    <2> QED
      BY <1>1, <1>a, <2>1, SaveTrackAgrees DEF CommitSaveTrack, SummariesAgree
  <1>2. CASE CommitDeleteTrack(c)
    <2>1. seen = EventsOf(events, on)
      BY <1>2, SeenIsCurrent DEF CommitDeleteTrack, Open
    <2>2. \A other : other # on => EventsOf(events', other) = EventsOf(events, other)
      BY <1>2, <2>1 DEF CommitDeleteTrack, EventsOf
    <2> QED
      BY <1>2, <1>a, <2>2, DeleteTrackAgrees DEF CommitDeleteTrack, SummariesAgree
  <1>3. CASE CommitSaveEvent(c)
    <2>1. seen = WithId(events, on.id) /\ on \in EventRow
      BY <1>3, SeenIsCurrent DEF CommitSaveEvent, Open, IInv, CallsInv, ArgumentFits
    <2>2. \A t \in tracks : t.id \notin Owners(seen, on.trackId)
            => EventsOf(events', t.id) = EventsOf(events, t.id)
      <3>1. events' = {r \in events : r.id # on.id} \cup {on}
        BY <1>3 DEF CommitSaveEvent, Put
      <3>2. \A t \in tracks : t.id # NoOwner
        BY StorageDataAssumption DEF IInv, TablesInv, TrackRow
      <3> QED
        BY <2>1, <3>1, <3>2 DEF Owners, EventsOf, WithId
    <2>3. RecountOwners(events', Owners(seen, on.trackId)) = SummariesOf(tracks, events')
      <3> DEFINE owners == Owners(seen, on.trackId)
      <3> HIDE DEF owners
      <3>1. \A t \in tracks : t.id \notin owners => EventsOf(events', t.id) = EventsOf(events, t.id)
        BY <2>2 DEF owners
      <3>2. RecountOwners(events', owners) = SummariesOf(tracks, events')
        BY <1>a, <3>1, RecountAgrees DEF RecountOwners
      <3> QED
        BY <3>2 DEF owners
    <2> QED
      BY <1>3, <2>3 DEF CommitSaveEvent, SummariesAgree
  <1>4. CASE CommitDeleteEvent(c)
    <2>1. seen = WithId(events, on)
      BY <1>4, SeenIsCurrent DEF CommitDeleteEvent, Open
    <2>2. \A t \in tracks : t.id \notin Owners(seen, NoOwner)
            => EventsOf(events', t.id) = EventsOf(events, t.id)
      <3>1. events' = {r \in events : r.id # on}
        BY <1>4 DEF CommitDeleteEvent, Without
      <3>2. \A t \in tracks : t.id # NoOwner
        BY StorageDataAssumption DEF IInv, TablesInv, TrackRow
      <3> QED
        BY <2>1, <3>1, <3>2 DEF Owners, EventsOf, WithId
    <2>3. RecountOwners(events', Owners(seen, NoOwner)) = SummariesOf(tracks, events')
      <3> DEFINE owners == Owners(seen, NoOwner)
      <3> HIDE DEF owners
      <3>1. \A t \in tracks : t.id \notin owners => EventsOf(events', t.id) = EventsOf(events, t.id)
        BY <2>2 DEF owners
      <3>2. RecountOwners(events', owners) = SummariesOf(tracks, events')
        BY <1>a, <3>1, RecountAgrees DEF RecountOwners
      <3> QED
        BY <3>2 DEF owners
    <2> QED
      BY <1>4, <2>3 DEF CommitDeleteEvent, SummariesAgree
  <1>5. CASE CommitPutBlob(c) \/ CommitDeleteBlob(c)
    BY <1>5, <1>a DEF CommitPutBlob, CommitDeleteBlob, SummariesAgree
  <1>6. CASE CommitClearAll(c)
    BY <1>6 DEF CommitClearAll, SummariesAgree, SummariesOf
  <1> QED
    BY <1>1, <1>2, <1>3, <1>4, <1>5, <1>6 DEF Commit

LEMMA CommitKeeps ==
  ASSUME IInv, NEW c \in Clients, Commit(c)
  PROVE  IInv'
  <1>1. Return(c) /\ call[c].phase = "open"
    BY DEF Commit, CommitSaveTrack, CommitDeleteTrack, CommitSaveEvent, CommitDeleteEvent,
           CommitPutBlob, CommitDeleteBlob, CommitClearAll, Open
  <1>2. events' = events \/ "events" \in Scope[call[c].op]
    BY DEF Commit, CommitSaveTrack, CommitDeleteTrack, CommitSaveEvent, CommitDeleteEvent,
           CommitPutBlob, CommitDeleteBlob, CommitClearAll, Open, Scope
  <1> QED
    BY <1>1, <1>2, ReturnKeeps, CommitKeepsTables, CommitKeepsSummaries DEF IInv

LEMMA RequestKeeps ==
  ASSUME IInv, NEW c \in Clients,
         RequestPutBlob(c) \/ RequestTrack(c) \/ RequestSaveEvent(c) \/ RequestDelete(c)
  PROVE  IInv'
  <1>1. PICK op \in DOMAIN Scope, on \in Args : Request(c, op, on) /\ ArgumentFits([op |-> op, on |-> on])'
    BY DEF RequestPutBlob, RequestTrack, RequestSaveEvent, RequestDelete, Scope, Args,
           ArgumentFits, IInv, TablesInv
  <1> DEFINE o == [op |-> op, on |-> on, phase |-> "waiting", seen |-> {}]
  <1>2. call' = [call EXCEPT ![c] = o] /\ UNCHANGED storeVars /\ made' = made + 1
    BY <1>1 DEF Request
  <1>3. o \in Calls
    BY <1>1 DEF Calls
  <1>4. minted \subseteq minted' /\ minted' \subseteq BlobKeys
    BY DEF RequestPutBlob, RequestTrack, RequestSaveEvent, RequestDelete, IInv, TablesInv
  <1>5. TablesInv'
    BY <1>2, <1>4 DEF IInv, TablesInv, storeVars, UniqueIds
  <1>6. call'[c] = o /\ \A d \in Clients \ {c} : call'[d] = call[d]
    BY <1>2 DEF IInv, CallsInv
  <1>7. CallsInv'
    <2>1. call' \in [Clients -> Calls]
      BY <1>2, <1>3 DEF IInv, CallsInv
    <2>2. ArgumentFits(o)'
      BY <1>1 DEF ArgumentFits
    <2>3. \A d \in Clients : ArgumentFits(call[d])'
      BY <1>4, <1>6, <2>2 DEF IInv, CallsInv, ArgumentFits
    <2> QED
      BY <2>1, <2>3 DEF CallsInv
  <1>8. ExclusiveInv' /\ SeenInv'
    BY <1>2, <1>6 DEF IInv, ExclusiveInv, SeenInv, FirstReads, storeVars
  <1>9. SummariesAgree'
    BY <1>2 DEF IInv, SummariesAgree, storeVars
  <1> QED
    BY <1>5, <1>7, <1>8, <1>9 DEF IInv

LEMMA BeginKeeps ==
  ASSUME IInv, NEW c \in Clients, Begin(c)
  PROVE  IInv'
  <1> DEFINE o == [call[c] EXCEPT !.phase = "open", !.seen = FirstReads(call[c])]
  <1>1. call' = [call EXCEPT ![c] = o] /\ UNCHANGED <<storeVars, minted, made>>
    BY DEF Begin, IInv, CallsInv
  <1>2. call[c] \in Calls
    BY DEF IInv, CallsInv
  <1>3. FirstReads(call[c]) \subseteq events
    BY DEF FirstReads, EventsOf, WithId
  <1>4. o \in Calls /\ o.op = call[c].op /\ o.on = call[c].on /\ o.phase = "open"
          /\ o.seen = FirstReads(call[c])
    BY <1>2, <1>3 DEF Calls, IInv, TablesInv
  <1> HIDE DEF o
  <1>5. call'[c] = o /\ \A d \in Clients \ {c} : call'[d] = call[d]
    BY <1>1 DEF IInv, CallsInv
  <1>6. TablesInv' /\ SummariesAgree'
    BY <1>1 DEF IInv, TablesInv, SummariesAgree, storeVars, UniqueIds
  <1>7. CallsInv'
    <2>1. call' \in [Clients -> Calls]
      BY <1>1, <1>4 DEF IInv, CallsInv
    <2>2. \A d \in Clients : ArgumentFits(call[d])'
      BY <1>1, <1>4, <1>5 DEF IInv, CallsInv, ArgumentFits
    <2> QED
      BY <2>1, <2>2 DEF CallsInv
  <1>8. ExclusiveInv'
    <2> SUFFICES ASSUME NEW d \in Clients, NEW e \in Clients, d # e,
                        call'[d].phase = "open", call'[e].phase = "open"
                 PROVE  Scope[call'[d].op] \cap Scope[call'[e].op] = {}
      BY DEF ExclusiveInv
    <2>a. \A x \in Clients \ {c} :
            call[x].phase = "open" => Scope[call[x].op] \cap Scope[call[c].op] = {}
      BY DEF Begin, ScopeFree
    <2>b. call'[c].op = call[c].op
      BY <1>4, <1>5
    <2>1. CASE d = c
      <3>1. call'[e] = call[e]
        BY <1>5, <2>1
      <3> QED
        BY <2>a, <2>b, <2>1, <3>1
    <2>2. CASE e = c
      <3>1. call'[d] = call[d]
        BY <1>5, <2>2
      <3> QED
        BY <2>a, <2>b, <2>2, <3>1
    <2>3. CASE d # c /\ e # c
      BY <1>5, <2>3 DEF IInv, ExclusiveInv
    <2> QED
      BY <2>1, <2>2, <2>3
  <1>9. SeenInv'
    <2>1. events' = events
      BY <1>1 DEF storeVars
    <2>2. FirstReads(call'[c]) = FirstReads(call[c])
      BY <1>4, <1>5 DEF FirstReads
    <2>3. call'[c].seen = FirstReads(call[c])'
      BY <1>4, <1>5, <2>1, <2>2 DEF FirstReads
    <2>4. \A d \in Clients \ {c} : call'[d].phase = "open" => call'[d].seen = FirstReads(call[d])'
      BY <1>5, <2>1 DEF IInv, SeenInv, FirstReads
    <2> QED
      BY <2>3, <2>4 DEF SeenInv
  <1> QED
    BY <1>6, <1>7, <1>8, <1>9 DEF IInv

LEMMA AbortKeeps ==
  ASSUME IInv, NEW c \in Clients, Abort(c)
  PROVE  IInv'
  <1>1. Return(c) /\ UNCHANGED storeVars
    BY DEF Abort
  <1>2. CallsInv' /\ ExclusiveInv' /\ SeenInv'
    BY <1>1, ReturnKeeps DEF IInv, storeVars
  <1>3. TablesInv' /\ SummariesAgree'
    BY <1>1 DEF IInv, TablesInv, SummariesAgree, storeVars, UniqueIds, Return
  <1> QED
    BY <1>2, <1>3 DEF IInv

LEMMA StutterKeeps ==
  ASSUME IInv, UNCHANGED vars
  PROVE  IInv'
  BY DEF IInv, vars, TablesInv, CallsInv, ArgumentFits, ExclusiveInv, SeenInv, FirstReads,
         SummariesAgree, UniqueIds

(* The inductive invariant holds of every behaviour of the adapter.        *)
THEOREM StorageInvariant == Spec => []IInv
  <1>1. IInv /\ [Next]_vars => IInv'
    BY RequestKeeps, BeginKeeps, CommitKeeps, AbortKeeps, StutterKeeps DEF Next, Transactions
  <1> QED
    BY InvInit, <1>1, PTL DEF Spec

(* A trip list never disagrees with the tracks and events it is a          *)
(* projection of.                                                          *)
THEOREM SummariesAlwaysAgree == Spec => []SummariesAgree
  <1>1. IInv => SummariesAgree
    BY DEF IInv
  <1> QED
    BY <1>1, StorageInvariant, PTL

(* Each object store holds rows of its schema, one per id.                 *)
THEOREM StorageTypes == Spec => []StorageTypeOK
  <1>1. ASSUME IInv PROVE StorageTypeOK
    <2>1. tracks \subseteq TrackRow /\ events \subseteq EventRow /\ blobs \subseteq minted
            /\ minted \subseteq BlobKeys /\ made \in Nat
      BY <1>1 DEF IInv, TablesInv
    <2>2. \A id : Cardinality(EventsOf(events, id)) \in Nat
      BY <1>1, FS_Subset, FS_CardinalityType DEF IInv, TablesInv, EventsOf
    <2>3. summaries = SummariesOf(tracks, events)
      BY <1>1 DEF IInv, SummariesAgree
    <2>4. summaries \subseteq SummaryRow
      BY <2>1, <2>2, <2>3 DEF SummariesOf, SummariseTrack, TrackRow, SummaryRow
    <2>5. UniqueIds(summaries)
      BY <1>1, <2>3 DEF IInv, TablesInv, UniqueIds, SummariesOf, SummariseTrack
    <2>6. \A table \in {tracks, summaries, events} : UniqueIds(table)
      BY <1>1, <2>5 DEF IInv, TablesInv
    <2>7. \A c \in Clients : call[c].phase \in {"idle", "waiting", "open"}
      BY <1>1 DEF IInv, CallsInv, Calls
    <2> QED
      BY <2>1, <2>4, <2>6, <2>7 DEF StorageTypeOK, UniqueIds
  <1> QED
    BY <1>1, StorageInvariant, PTL

-----------------------------------------------------------------------------
(* The commits are the steps of the contract.                              *)

LEMMA CommitImplements ==
  ASSUME IInv, NEW c \in Clients, Commit(c)
  PROVE  Memory!Next
  <1>a. call[c].phase = "open" => ArgumentFits(call[c])
    BY DEF IInv, CallsInv
  <1>1. CASE CommitSaveTrack(c)
    <2>1. Memory!SaveTrack(call[c].on) /\ call[c].on \in TrackRow
      BY <1>1, <1>a DEF CommitSaveTrack, Open, ArgumentFits, Memory!SaveTrack,
         Put, Memory!Put
    <2> QED
      BY <2>1 DEF Memory!Next, TrackRow, Memory!TrackRow, TrackStatus, Memory!TrackStatus
  <1>2. CASE CommitDeleteTrack(c)
    <2>1. call[c].seen = EventsOf(events, call[c].on) /\ call[c].on \in TrackIds
      BY <1>2, <1>a, SeenIsCurrent DEF CommitDeleteTrack, Open, ArgumentFits
    <2>2. Memory!DeleteTrack(call[c].on)
      BY <1>2, <2>1 DEF CommitDeleteTrack, Orphans, Memory!DeleteTrack, Without, Memory!Without,
         EventsOf, Memory!EventsOf, BlobKeysOf, Memory!BlobKeysOf
    <2> QED
      BY <2>1, <2>2 DEF Memory!Next
  <1>3. CASE CommitSaveEvent(c)
    <2>1. Memory!SaveEvent(call[c].on) /\ call[c].on \in EventRow
      BY <1>3, <1>a DEF CommitSaveEvent, Open, ArgumentFits, Memory!SaveEvent,
         Put, Memory!Put
    <2> QED
      BY <2>1 DEF Memory!Next, EventRow, Memory!EventRow
  <1>4. CASE CommitDeleteEvent(c)
    <2>1. Memory!DeleteEvent(call[c].on) /\ call[c].on \in EventIds
      BY <1>4, <1>a DEF CommitDeleteEvent, Open, ArgumentFits, Memory!DeleteEvent,
         Without, Memory!Without
    <2> QED
      BY <2>1 DEF Memory!Next
  <1>5. CASE CommitPutBlob(c)
    <2>1. Memory!PutBlob(call[c].on) /\ call[c].on \in BlobKeys
      BY <1>5, <1>a DEF CommitPutBlob, Open, ArgumentFits, IInv, TablesInv, Memory!PutBlob
    <2> QED
      BY <2>1 DEF Memory!Next
  <1>6. CASE CommitDeleteBlob(c)
    <2>1. Memory!DeleteBlob(call[c].on) /\ call[c].on \in BlobKeys
      BY <1>6, <1>a DEF CommitDeleteBlob, Open, ArgumentFits, IInv, TablesInv, Memory!DeleteBlob
    <2> QED
      BY <2>1 DEF Memory!Next
  <1>7. CASE CommitClearAll(c)
    BY <1>7 DEF CommitClearAll, Memory!ClearAll, Memory!Next
  <1> QED
    BY <1>1, <1>2, <1>3, <1>4, <1>5, <1>6, <1>7 DEF Commit

(* Every call of the adapter takes effect as one step of the in-memory     *)
(* reference, or not at all, whatever interleaves with it.                 *)
THEOREM IdbImplementsMemory == Spec => MemorySpec
  <1>1. Init => Memory!Init
    BY DEF Init, Memory!Init
  <1>2. ASSUME IInv, [Next]_vars
        PROVE  [Memory!Next]_(Memory!memoryVars)
    <2>1. CASE UNCHANGED storeVars
      BY <2>1 DEF storeVars, Memory!memoryVars
    <2>2. CASE \E c \in Clients : Commit(c)
      BY <1>2, <2>2, CommitImplements
    <2>3. UNCHANGED storeVars \/ \E c \in Clients : Commit(c)
      BY <1>2 DEF Next, vars, storeVars, Transactions, Begin, Abort, Request, RequestPutBlob,
                  RequestTrack, RequestSaveEvent, RequestDelete
    <2> QED
      BY <2>1, <2>2, <2>3
  <1> QED
    BY <1>1, <1>2, StorageInvariant, PTL DEF Spec, MemorySpec, Memory!Spec

(* A deleted track takes its events with it, and no blob a surviving event *)
(* refers to.                                                              *)
THEOREM CascadeIsExact == Spec => CascadeExact
  <1> DEFINE Exact == \A c \in Clients : CommitDeleteTrack(c) =>
                        /\ EventsOf(events', call[c].on) = {}
                        /\ blobs \cap BlobKeysOf(events') \subseteq blobs'
  <1>1. ASSUME IInv PROVE Exact
    <2> SUFFICES ASSUME NEW c \in Clients, CommitDeleteTrack(c)
                 PROVE  /\ EventsOf(events', call[c].on) = {}
                        /\ blobs \cap BlobKeysOf(events') \subseteq blobs'
      OBVIOUS
    <2>1. call[c].seen = EventsOf(events, call[c].on)
      BY <1>1, SeenIsCurrent DEF CommitDeleteTrack, Open
    <2>2. EventsOf(events', call[c].on) = {}
      BY <2>1 DEF CommitDeleteTrack, EventsOf
    <2>3. blobs \cap BlobKeysOf(events') \subseteq blobs'
      BY DEF CommitDeleteTrack, Orphans
    <2> QED
      BY <2>2, <2>3
  <1>2. IInv => [Exact]_vars
    BY <1>1
  <1> QED
    BY <1>2, StorageInvariant, PTL DEF CascadeExact
-----------------------------------------------------------------------------
(* Offline regions.                                                        *)

CallFields == {"op", "region", "sources", "at", "todo", "result", "tag"}

(* What a call may be doing.                                               *)
CallShape(c) ==
  /\ DOMAIN c = CallFields
  /\ \/ c.op = "download" /\ c.at \in {"archives", "manifest", "sweep", "removing"}
     \/ c.op = "delete" /\ c.at \in {"sweep", "removing", "unlist"}
     \/ c.op = "list" /\ c.at \in {"keys", "reading"}

(* The download of the region is over.                                     *)
Settled(r) == r \in 1..downloads /\ ~UnderWay("download", r)

Stored(r) == {a.source : a \in ArchivesOf(r)}

(* A download that has not failed has put its sources but for those to do. *)
PutsWhatIsLeft(c) ==
  c.op = "download" =>
    /\ c.region \in 1..downloads
    /\ c.at = "archives" => Stored(c.region) = c.sources \ c.todo /\ c.todo \subseteq c.sources
    /\ c.at = "manifest" => Stored(c.region) = c.sources

(* A sweep has every archive of its region that is left before it.         *)
SweepsWhatIsLeft(c) ==
  /\ c.op = "delete" => c.region \in doomed
  /\ c.at = "removing" =>
       ArchivesOf(c.region) \subseteq c.todo /\ \A a \in c.todo : a.region = c.region
  /\ c.at = "unlist" => ArchivesOf(c.region) = {}

ListsSettled(c) ==
  c.op = "list" => \A r \in c.result \cup c.todo : Settled(r)

CallInv(c) == CallShape(c) /\ PutsWhatIsLeft(c) /\ SweepsWhatIsLeft(c) /\ ListsSettled(c)

OneDownloadEach ==
  \A c, d \in calls :
    c.op = "download" /\ d.op = "download" /\ c.region = d.region => c = d

RegionsKnown ==
  /\ \A a \in archives : a.region \in 1..downloads
  /\ \A m \in manifests : Settled(m.region)
  /\ \A r \in doomed : Settled(r)

StoreInv ==
  /\ downloads \in Nat
  /\ \A c \in calls : CallInv(c)
  /\ OneDownloadEach
  /\ RegionsKnown
  /\ RegionsAreWhole

RegionsInv == StoreInv /\ \A r \in shown.regions : Settled(r)

-----------------------------------------------------------------------------
(* Calls.                                                                  *)

LEMMA NewCall ==
  ASSUME NEW op, NEW region, NEW sources, NEW at, NEW todo, NEW tag,
         NEW e, e = Call(op, region, sources, at, todo, tag)
  PROVE  /\ DOMAIN e = CallFields
         /\ e.op = op /\ e.region = region /\ e.sources = sources
         /\ e.at = at /\ e.todo = todo /\ e.result = {}
BY DEF Call, CallFields

(* A fresh list is a call like any other.                                  *)
LEMMA FreshList ==
  ASSUME NEW tag
  PROVE  CallInv(ListCall(tag)) /\ ListCall(tag).op = "list" /\ ListCall(tag).at = "keys"
<1> DEFINE e == ListCall(tag)
<1>1. /\ DOMAIN e = CallFields /\ e.op = "list" /\ e.at = "keys" /\ e.todo = {} /\ e.result = {}
  BY NewCall DEF ListCall
<1> HIDE DEF e
<1>2. CallInv(e)
  BY <1>1 DEF CallInv, CallShape, PutsWhatIsLeft, SweepsWhatIsLeft, ListsSettled
<1>3. QED
  BY <1>1, <1>2 DEF e

(* A download that is over stays over, whatever calls come and go: ids are *)
(* not used twice.                                                         *)
LEMMA SettledStays ==
  ASSUME downloads \in Nat, downloads' \in Nat, downloads <= downloads',
         \A e \in calls' : e.op = "download" =>
           e.region > downloads \/ UnderWay("download", e.region),
         NEW r, Settled(r)
  PROVE  Settled(r)'
BY DEF Settled, UnderWay

(* A step of one call that puts nothing: it becomes other calls, or none,  *)
(* a sweep may have taken archives of its region, and of a download that   *)
(* ends nothing is left over.                                              *)
LEMMA OneCallMoves ==
  ASSUME StoreInv, NEW c \in calls, NEW D, calls' = (calls \ {c}) \cup D,
         UNCHANGED <<manifests, downloads, doomed>>, stranded \subseteq stranded',
         NEW gone, archives' = archives \ gone,
         gone # {} => c.at = "removing" /\ \A a \in gone : a.region = c.region,
         \A d \in D : CallShape(d) /\ ListsSettled(d) /\ PutsWhatIsLeft(d)' /\ SweepsWhatIsLeft(d)',
         \A d \in D : d.op = "download" => c.op = "download" /\ d.region = c.region,
         \A d, e \in D : d.op = "download" /\ e.op = "download" => d = e,
         c.op = "download" =>
           \/ \E d \in D : d.op = "download"
           \/ ArchivesOf(c.region) \ gone = {} \/ c.region \in stranded'
  PROVE  StoreInv' /\ \A r : Settled(r) => Settled(r)'
<1>1. /\ downloads \in Nat /\ OneDownloadEach /\ RegionsKnown /\ ListedIsWhole /\ NothingInvisible
      /\ \A e \in calls : CallInv(e)
  BY DEF StoreInv, RegionsAreWhole
<1>2. /\ manifests' = manifests /\ downloads' = downloads /\ doomed' = doomed
      /\ archives' \subseteq archives
  OBVIOUS
<1>3. CallShape(c) /\ SweepsWhatIsLeft(c) /\ (c.op = "download" => UnderWay("download", c.region))
  BY <1>1 DEF CallInv, UnderWay
<1>4. \A e \in calls' : e.op = "download" => UnderWay("download", e.region)
  BY <1>3 DEF UnderWay
<1>5. \A r : Settled(r) => Settled(r)'
  BY <1>1, <1>2, <1>4 DEF Settled, UnderWay
<1>6. \A e \in calls \ {c} : e.op = "download" /\ e.region = c.region => gone = {}
  <2>1. SUFFICES ASSUME NEW e \in calls \ {c}, e.op = "download", e.region = c.region, gone # {}
                 PROVE  FALSE
    OBVIOUS
  <2>2. c.op # "download"
    BY <1>1, <2>1 DEF OneDownloadEach
  <2>3. c.region \in doomed
    BY <1>3, <2>1, <2>2 DEF CallShape, SweepsWhatIsLeft
  <2>4. QED
    BY <1>1, <2>1, <2>3 DEF RegionsKnown, Settled, UnderWay
<1>7. \A r : r # c.region \/ gone = {} => ArchivesOf(r)' = ArchivesOf(r) /\ Stored(r)' = Stored(r)
  BY DEF ArchivesOf, Stored
<1>8. \A e \in calls' : CallInv(e)'
  <2>1. SUFFICES ASSUME NEW e \in calls' PROVE (CallInv(e))'
    OBVIOUS
  <2>2. CASE e \in D
    <3>1. CallShape(e) /\ ListsSettled(e) /\ (PutsWhatIsLeft(e))' /\ (SweepsWhatIsLeft(e))'
      BY <2>2
    <3>2. (CallShape(e))' /\ (ListsSettled(e))'
      BY <1>5, <3>1 DEF ListsSettled, CallShape
    <3>3. QED
      BY <3>1, <3>2 DEF CallInv
  <2>3. CASE e \in calls \ {c}
    <3>1. CallShape(e) /\ PutsWhatIsLeft(e) /\ SweepsWhatIsLeft(e) /\ ListsSettled(e)
      BY <1>1, <2>3 DEF CallInv
    <3>2. (CallShape(e))' /\ (ListsSettled(e))'
      BY <1>5, <3>1 DEF ListsSettled, CallShape
    <3>3. (PutsWhatIsLeft(e))'
      BY <1>2, <1>6, <1>7, <2>3, <3>1 DEF PutsWhatIsLeft
    <3>4. (SweepsWhatIsLeft(e))'
      BY <1>2, <3>1 DEF SweepsWhatIsLeft, ArchivesOf
    <3>5. QED
      BY <3>1, <3>2, <3>3, <3>4 DEF CallInv
  <2>4. QED
    BY <2>1, <2>2, <2>3
<1>9. OneDownloadEach'
  BY <1>1 DEF OneDownloadEach
<1>10. RegionsKnown'
  BY <1>1, <1>2, <1>5 DEF RegionsKnown
<1>11. ListedIsWhole'
  <2>1. SUFFICES ASSUME NEW m \in manifests, m.region \notin doomed
                 PROVE  m.sources = {a.source : a \in (ArchivesOf(m.region))'}
    BY <1>2 DEF ListedIsWhole
  <2>2. m.sources = Stored(m.region)
    BY <1>1, <2>1 DEF ListedIsWhole, Stored
  <2>3. m.region # c.region \/ gone = {}
    <3>1. gone # {} => c.op \in {"download", "delete"}
      BY <1>3 DEF CallShape
    <3>2. Settled(m.region)
      BY <1>1 DEF RegionsKnown
    <3>3. QED
      BY <1>3, <2>1, <3>1, <3>2 DEF Settled, SweepsWhatIsLeft
  <2>4. (ArchivesOf(m.region))' = ArchivesOf(m.region)
    BY <2>3 DEF ArchivesOf
  <2>5. QED
    BY <2>2, <2>4 DEF Stored
<1>12. NothingInvisible'
  <2>1. SUFFICES ASSUME NEW a \in archives'
                 PROVE  \/ a.region \in Listed \/ a.region \in stranded'
                        \/ \E e \in calls' : e.op = "download" /\ e.region = a.region
    BY <1>2 DEF NothingInvisible, Listed, UnderWay
  <2>2. \/ a.region \in Listed \/ a.region \in stranded
        \/ \E e \in calls : e.op = "download" /\ e.region = a.region
    BY <1>1, <1>2 DEF NothingInvisible, UnderWay
  <2>3. CASE c.op = "download" /\ c.region = a.region
    <3>1. a \in ArchivesOf(c.region) \ gone
      BY <2>3 DEF ArchivesOf
    <3>2. (\E d \in D : d.op = "download" /\ d.region = a.region) \/ c.region \in stranded'
      BY <2>3, <3>1
    <3>3. QED
      BY <2>3, <3>2
  <2>4. CASE ~(c.op = "download" /\ c.region = a.region)
    BY <2>2, <2>4
  <2>5. QED
    BY <2>3, <2>4
<1>13. QED
  BY <1>1, <1>2, <1>5, <1>8, <1>9, <1>10, <1>11, <1>12 DEF StoreInv, RegionsAreWhole

(* What a call is stays what it is while what is stored is left alone.     *)
LEMMA CallInvStays ==
  ASSUME NEW d, CallInv(d), UNCHANGED <<archives, manifests, downloads, doomed>>
  PROVE  CallShape(d) /\ ListsSettled(d) /\ (PutsWhatIsLeft(d))' /\ (SweepsWhatIsLeft(d))'
BY DEF CallInv, PutsWhatIsLeft, SweepsWhatIsLeft, Stored, ArchivesOf

-----------------------------------------------------------------------------
(* The steps of a call that put nothing.                                   *)

(* Two of them only move a call: to another stage, with something to do.   *)
LEMMA MoveKeeps ==
  ASSUME StoreInv, NEW c \in calls, NEW at, NEW todo, Move(c, at, todo),
         UNCHANGED <<archives, manifests, downloads, doomed>>, stranded \subseteq stranded',
         CallInv([c EXCEPT !.at = at, !.todo = todo])
  PROVE  StoreInv' /\ \A r : Settled(r) => Settled(r)'
<1> DEFINE e == [c EXCEPT !.at = at, !.todo = todo]
<1>1. CallShape(c)
  BY DEF StoreInv, CallInv
<1>2. e.op = c.op /\ e.region = c.region
  BY <1>1 DEF CallShape, CallFields
<1> DEFINE D == {e}
<1>3. calls' = (calls \ {c}) \cup D
  BY DEF Move
<1> HIDE DEF e
<1>4. CallInv(e)
  BY DEF e
<1>5. /\ \A d \in D : CallShape(d) /\ ListsSettled(d) /\ PutsWhatIsLeft(d)' /\ SweepsWhatIsLeft(d)'
      /\ \A d \in D : d.op = "download" => c.op = "download" /\ d.region = c.region
      /\ \A d, f \in D : d.op = "download" /\ f.op = "download" => d = f
      /\ c.op = "download" => \E d \in D : d.op = "download"
  <2>1. CallShape(e) /\ ListsSettled(e) /\ (PutsWhatIsLeft(e))' /\ (SweepsWhatIsLeft(e))'
    BY <1>4, CallInvStays
  <2>2. \A d \in D : CallShape(d) /\ ListsSettled(d) /\ PutsWhatIsLeft(d)' /\ SweepsWhatIsLeft(d)'
    BY <2>1, Zenon
  <2>3. QED
    BY <1>2, <2>2
<1> DEFINE gone == {}
<1>6. archives' = archives \ gone /\ gone = {}
  OBVIOUS
<1> HIDE DEF D, gone
<1>7. QED
  BY <1>3, <1>5, <1>6, OneCallMoves

LEMMA EndKeeps ==
  ASSUME StoreInv, NEW c \in calls, Settle(c, {}),
         UNCHANGED <<archives, manifests, downloads, doomed>>, stranded \subseteq stranded',
         c.op = "download" => ArchivesOf(c.region) = {} \/ c.region \in stranded'
  PROVE  StoreInv' /\ \A r : Settled(r) => Settled(r)'
<1> DEFINE D == {}
<1>1. calls' = (calls \ {c}) \cup D /\ \A d \in D : FALSE
  BY DEF Settle
<1> DEFINE gone == {}
<1>2. archives' = archives \ gone /\ gone = {}
  OBVIOUS
<1> HIDE DEF D, gone
<1>3. QED
  BY <1>1, <1>2, OneCallMoves

LEMMA FailKeeps ==
  ASSUME StoreInv, NEW c \in calls, DownloadFails(c)
  PROVE  StoreInv' /\ \A r : Settled(r) => Settled(r)'
<1> DEFINE e == [c EXCEPT !.at = "sweep", !.todo = {}]
<1>1. CallShape(c) /\ PutsWhatIsLeft(c)
  BY DEF StoreInv, CallInv
<1>2. c.op = "download"
  BY <1>1 DEF DownloadFails, CallShape
<1>3. DOMAIN e = CallFields /\ e.op = c.op /\ e.region = c.region /\ e.at = "sweep"
  BY <1>1 DEF CallShape, CallFields
<1> HIDE DEF e
<1>4. CallInv(e)
  BY <1>1, <1>2, <1>3 DEF CallInv, CallShape, PutsWhatIsLeft, SweepsWhatIsLeft, ListsSettled
<1>5. Move(c, "sweep", {})
  BY DEF DownloadFails, Rollback
<1>6. UNCHANGED <<archives, manifests, downloads, doomed>> /\ stranded' = stranded
  BY DEF DownloadFails
<1>7. QED
  BY <1>4, <1>5, <1>6, MoveKeeps DEF e

(* The sweep goes on with the keys that are left, having removed one or    *)
(* none.                                                                   *)
LEMMA SweepKeeps ==
  ASSUME StoreInv, NEW c \in calls, c.op \in {"download", "delete"},
         c.at \in {"sweep", "removing"}, NEW keys, SweepTo(c, keys),
         NEW gone, archives' = archives \ gone,
         gone # {} => c.at = "removing" /\ \A a \in gone : a.region = c.region,
         ArchivesOf(c.region) \ gone \subseteq keys, \A a \in keys : a.region = c.region,
         UNCHANGED <<manifests, downloads, stranded, doomed>>
  PROVE  StoreInv' /\ \A r : Settled(r) => Settled(r)'
<1>1. CallShape(c) /\ PutsWhatIsLeft(c) /\ SweepsWhatIsLeft(c)
  BY DEF StoreInv, CallInv
<1>2. (ArchivesOf(c.region))' \subseteq keys
  BY DEF ArchivesOf
<1>3. CASE keys # {} \/ c.op = "delete"
  <2> DEFINE at == IF keys # {} THEN "removing" ELSE "unlist"
             e == [c EXCEPT !.at = at, !.todo = keys]
             D == {e}
  <2>1. /\ DOMAIN e = CallFields /\ e.op = c.op /\ e.region = c.region
        /\ e.at = at /\ e.todo = keys
    BY <1>1 DEF CallShape, CallFields
  <2>2. calls' = (calls \ {c}) \cup D
    BY <1>3 DEF SweepTo, Move
  <2> HIDE DEF e
  <2>3. CallShape(e) /\ ListsSettled(e) /\ (PutsWhatIsLeft(e))' /\ (SweepsWhatIsLeft(e))'
    BY <1>1, <1>2, <1>3, <2>1 DEF CallShape, PutsWhatIsLeft, SweepsWhatIsLeft, ListsSettled
  <2>4. \A d \in D : CallShape(d) /\ ListsSettled(d) /\ PutsWhatIsLeft(d)' /\ SweepsWhatIsLeft(d)'
    BY <2>3, Zenon
  <2>5. /\ \A d \in D : d.op = "download" => c.op = "download" /\ d.region = c.region
        /\ \A d, f \in D : d.op = "download" /\ f.op = "download" => d = f
        /\ c.op = "download" => \E d \in D : d.op = "download"
    BY <2>1
  <2> HIDE DEF D
  <2>6. QED
    BY <2>2, <2>4, <2>5, OneCallMoves
<1>4. CASE keys = {} /\ c.op = "download"
  <2> DEFINE D == {}
  <2>1. calls' = (calls \ {c}) \cup D /\ \A d \in D : FALSE
    BY <1>4 DEF SweepTo, Settle
  <2>2. ArchivesOf(c.region) \ gone = {}
    BY <1>4
  <2> HIDE DEF D
  <2>3. QED
    BY <2>1, <2>2, OneCallMoves
<1>5. QED
  BY <1>3, <1>4

LEMMA ListArchivesKeeps ==
  ASSUME StoreInv, NEW c \in calls, ListArchives(c)
  PROVE  StoreInv' /\ \A r : Settled(r) => Settled(r)'
<1>1. c.op \in {"download", "delete"} /\ c.at \in {"sweep", "removing"}
  BY DEF StoreInv, CallInv, CallShape, ListArchives
<1> DEFINE keys == ArchivesOf(c.region)
           gone == {}
<1>2. SweepTo(c, keys)
  BY DEF ListArchives, SweepKeys
<1>3. (\A a \in keys : a.region = c.region) /\ ArchivesOf(c.region) \ gone \subseteq keys
  BY DEF ArchivesOf
<1>4. /\ UNCHANGED <<manifests, downloads, stranded, doomed>>
      /\ archives' = archives \ gone /\ gone = {}
  BY DEF ListArchives
<1> HIDE DEF keys, gone
<1>5. QED
  BY <1>1, <1>2, <1>3, <1>4, SweepKeeps

LEMMA RemoveArchiveKeeps ==
  ASSUME StoreInv, NEW c \in calls, RemoveArchive(c)
  PROVE  StoreInv' /\ \A r : Settled(r) => Settled(r)'
<1>1. c.op \in {"download", "delete"} /\ c.at = "removing" /\ SweepsWhatIsLeft(c)
  BY DEF StoreInv, CallInv, CallShape, RemoveArchive
<1>2. PICK a \in c.todo : archives' = archives \ {a} /\ SweepTo(c, c.todo \ {a})
  BY DEF RemoveArchive
<1> DEFINE keys == c.todo \ {a}
           gone == {a}
<1>3. (\A k \in keys : k.region = c.region) /\ ArchivesOf(c.region) \ gone \subseteq keys
  BY <1>1 DEF SweepsWhatIsLeft
<1>4. \A k \in gone : k.region = c.region
  BY <1>1 DEF SweepsWhatIsLeft
<1>5. /\ UNCHANGED <<manifests, downloads, stranded, doomed>>
      /\ archives' = archives \ gone /\ SweepTo(c, keys)
  BY <1>2 DEF RemoveArchive
<1> HIDE DEF keys, gone
<1>6. QED
  BY <1>1, <1>3, <1>4, <1>5, SweepKeeps

LEMMA SweepFailKeeps ==
  ASSUME StoreInv, NEW c \in calls, SweepFails(c)
  PROVE  StoreInv' /\ \A r : Settled(r) => Settled(r)'
BY EndKeeps DEF SweepFails

LEMMA UnlistFailKeeps ==
  ASSUME StoreInv, NEW c \in calls, UnlistFails(c)
  PROVE  StoreInv' /\ \A r : Settled(r) => Settled(r)'
<1>1. c.op # "download"
  BY DEF StoreInv, CallInv, CallShape, UnlistFails
<1>2. QED
  BY <1>1, EndKeeps DEF UnlistFails

LEMMA ListKeysKeeps ==
  ASSUME StoreInv, NEW c \in calls, ListKeys(c)
  PROVE  StoreInv' /\ \A r : Settled(r) => Settled(r)'
<1> DEFINE e == [c EXCEPT !.at = "reading", !.todo = Listed]
<1>1. CallShape(c) /\ ListsSettled(c) /\ \A r \in Listed : Settled(r)
  BY DEF StoreInv, CallInv, RegionsKnown, Listed
<1>2. c.op = "list"
  BY <1>1 DEF ListKeys, CallShape
<1>3. /\ DOMAIN e = CallFields /\ e.op = c.op /\ e.region = c.region
      /\ e.at = "reading" /\ e.todo = Listed /\ e.result = c.result
  BY <1>1 DEF CallShape, CallFields
<1> HIDE DEF e
<1>4. CallInv(e)
  BY <1>1, <1>2, <1>3 DEF CallInv, CallShape, PutsWhatIsLeft, SweepsWhatIsLeft, ListsSettled
<1>5. Move(c, "reading", Listed) /\ UNCHANGED <<archives, manifests, downloads, stranded, doomed>>
  BY DEF ListKeys
<1>6. QED
  BY <1>4, <1>5, MoveKeeps DEF e

LEMMA ReadManifestKeeps ==
  ASSUME StoreInv, NEW c \in calls, ReadManifest(c)
  PROVE  StoreInv' /\ \A r : Settled(r) => Settled(r)'
<1>1. PICK r \in c.todo :
        calls' = (calls \ {c}) \cup
          {[c EXCEPT !.todo = @ \ {r}, !.result = IF r \in Listed THEN @ \cup {r} ELSE @]}
  BY DEF ReadManifest
<1>a. PICK e : e = [c EXCEPT !.todo = @ \ {r}, !.result = IF r \in Listed THEN @ \cup {r} ELSE @]
  OBVIOUS
<1>2. CallShape(c) /\ ListsSettled(c)
  BY DEF StoreInv, CallInv
<1>3. c.op = "list" /\ c.at = "reading"
  BY <1>2 DEF ReadManifest, CallShape
<1>4. /\ DOMAIN e = CallFields /\ e.op = c.op /\ e.region = c.region /\ e.at = c.at
      /\ e.todo = c.todo \ {r}
      /\ e.result = (IF r \in Listed THEN c.result \cup {r} ELSE c.result)
  BY <1>2, <1>a DEF CallShape, CallFields
<1> DEFINE D == {e}
<1>5. calls' = (calls \ {c}) \cup D
  BY <1>1, <1>a
<1>6. e.result \subseteq c.result \cup c.todo /\ e.todo \subseteq c.todo
  BY <1>4
<1>7. CallInv(e)
  BY <1>2, <1>3, <1>4, <1>6
    DEF CallInv, CallShape, PutsWhatIsLeft, SweepsWhatIsLeft, ListsSettled
<1>8. UNCHANGED <<archives, manifests, downloads, stranded, doomed>>
  BY DEF ReadManifest
<1>9. CallShape(e) /\ ListsSettled(e) /\ (PutsWhatIsLeft(e))' /\ (SweepsWhatIsLeft(e))'
  BY <1>7, <1>8, CallInvStays
<1>10. /\ \A d \in D : CallShape(d) /\ ListsSettled(d) /\ PutsWhatIsLeft(d)' /\ SweepsWhatIsLeft(d)'
       /\ \A d \in D : d.op # "download"
  <2>1. \A d \in D : CallShape(d) /\ ListsSettled(d) /\ PutsWhatIsLeft(d)' /\ SweepsWhatIsLeft(d)'
    BY <1>9, Zenon
  <2>2. QED
    BY <1>3, <1>4, <2>1
<1> DEFINE gone == {}
<1>11. archives' = archives \ gone /\ gone = {}
  BY <1>8
<1> HIDE DEF D, gone
<1>12. QED
  BY <1>3, <1>5, <1>8, <1>10, <1>11, OneCallMoves, ZenonT(30)

(* A list resolves with regions whose downloads are over.                  *)
LEMMA ListEndKeeps ==
  ASSUME StoreInv, NEW c \in calls, ListResolves(c) \/ ListFails(c)
  PROVE  StoreInv' /\ \A r : Settled(r) => Settled(r)'
<1>1. c.op = "list"
  BY DEF StoreInv, CallInv, CallShape, ListResolves, ListFails
<1>2. QED
  BY <1>1, EndKeeps DEF ListResolves, ListFails

-----------------------------------------------------------------------------
(* Calls that begin, and calls that put something.                         *)

(* Calls that begin, none of them of a download that was there.            *)
LEMMA CallsBegin ==
  ASSUME StoreInv, NEW D, calls' = calls \cup D,
         UNCHANGED <<archives, manifests, stranded>>,
         downloads' \in Nat, downloads <= downloads',
         doomed \subseteq doomed', \A r \in doomed' : r \in doomed \/ Settled(r),
         \A d \in D : CallShape(d) /\ ListsSettled(d) /\ PutsWhatIsLeft(d)' /\ SweepsWhatIsLeft(d)',
         \A d \in D : d.op = "download" => d.region > downloads,
         \A d, e \in D : d.op = "download" /\ e.op = "download" => d = e
  PROVE  StoreInv' /\ \A r : Settled(r) => Settled(r)'
<1>1. /\ downloads \in Nat /\ OneDownloadEach /\ RegionsKnown /\ ListedIsWhole /\ NothingInvisible
      /\ \A e \in calls : CallInv(e)
  BY DEF StoreInv, RegionsAreWhole
<1>2. \A e \in calls' : e.op = "download" => e.region > downloads \/ UnderWay("download", e.region)
  BY DEF UnderWay
<1>3. \A r : Settled(r) => Settled(r)'
  BY <1>1, <1>2, SettledStays
<1>4. ASSUME NEW e \in calls' PROVE (CallInv(e))'
  <2>1. CASE e \in D
    <3>1. CallShape(e) /\ ListsSettled(e) /\ (PutsWhatIsLeft(e))' /\ (SweepsWhatIsLeft(e))'
      BY <2>1
    <3>2. (CallShape(e))' /\ (ListsSettled(e))'
      BY <1>3, <3>1 DEF ListsSettled, CallShape
    <3>3. QED
      BY <3>1, <3>2 DEF CallInv
  <2>2. CASE e \in calls
    <3>1. CallShape(e) /\ PutsWhatIsLeft(e) /\ SweepsWhatIsLeft(e) /\ ListsSettled(e)
      BY <1>1, <2>2 DEF CallInv
    <3>2. (CallShape(e))' /\ (ListsSettled(e))'
      BY <1>3, <3>1 DEF ListsSettled, CallShape
    <3>3. (PutsWhatIsLeft(e))'
      BY <1>1, <3>1 DEF PutsWhatIsLeft, Stored, ArchivesOf
    <3>4. (SweepsWhatIsLeft(e))'
      BY <3>1 DEF SweepsWhatIsLeft, ArchivesOf
    <3>5. QED
      BY <3>1, <3>2, <3>3, <3>4 DEF CallInv
  <2>3. QED
    BY <1>4, <2>1, <2>2
<1>5. OneDownloadEach'
  <2>1. \A e \in calls : e.op = "download" => e.region <= downloads /\ e.region \in Nat
    BY <1>1 DEF CallInv, PutsWhatIsLeft
  <2>2. QED
    BY <1>1, <2>1 DEF OneDownloadEach
<1>6. RegionsKnown'
  <2>1. \A a \in archives : a.region \in 1..downloads'
    BY <1>1 DEF RegionsKnown
  <2>2. (\A m \in manifests : Settled(m.region)) /\ \A r \in doomed' : Settled(r)
    BY <1>1 DEF RegionsKnown
  <2>3. QED
    BY <1>3, <2>1, <2>2 DEF RegionsKnown
<1>7. ListedIsWhole'
  BY <1>1 DEF ListedIsWhole, ArchivesOf
<1>8. NothingInvisible'
  BY <1>1 DEF NothingInvisible, Listed, UnderWay
<1>9. QED
  BY <1>3, <1>4, <1>5, <1>6, <1>7, <1>8 DEF StoreInv, RegionsAreWhole

LEMMA DownloadKeeps ==
  ASSUME StoreInv, NEW tag, Download(tag)
  PROVE  StoreInv' /\ \A r : Settled(r) => Settled(r)'
<1>1. downloads \in Nat /\ RegionsKnown
  BY DEF StoreInv
<1>2. PICK sources \in SUBSET Sources :
        calls' = calls \cup {Call("download", downloads + 1, sources,
                                  IF sources = {} THEN "manifest" ELSE "archives", sources, tag)}
  BY DEF Download
<1>3. PICK d : d = Call("download", downloads + 1, sources,
                        IF sources = {} THEN "manifest" ELSE "archives", sources, tag)
  OBVIOUS
<1>4. /\ DOMAIN d = CallFields /\ d.op = "download" /\ d.region = downloads + 1
      /\ d.sources = sources /\ d.todo = sources /\ d.result = {}
      /\ d.at = IF sources = {} THEN "manifest" ELSE "archives"
  BY <1>3 DEF Call, CallFields
<1>5. /\ downloads' = downloads + 1
      /\ archives' = archives /\ manifests' = manifests /\ stranded' = stranded /\ doomed' = doomed
  BY DEF Download
<1>6. (Stored(downloads + 1))' = {}
  BY <1>1, <1>5 DEF Stored, ArchivesOf, RegionsKnown
<1>7. CallShape(d) /\ ListsSettled(d) /\ (SweepsWhatIsLeft(d))'
  BY <1>4 DEF CallShape, ListsSettled, SweepsWhatIsLeft
<1>8. (PutsWhatIsLeft(d))'
  <2>1. d.region \in 1..downloads'
    BY <1>1, <1>4, <1>5
  <2>2. (Stored(d.region))' = {}
    <3>1. \A a \in archives : a.region # d.region
      BY <1>1, <1>4 DEF RegionsKnown
    <3>2. QED
      BY <1>5, <3>1 DEF Stored, ArchivesOf
  <2>3. d.at = "archives" => {} = d.sources \ d.todo /\ d.todo \subseteq d.sources
    BY <1>4
  <2>4. d.at = "manifest" => {} = d.sources
    BY <1>4
  <2>5. QED
    BY <2>1, <2>2, <2>3, <2>4 DEF PutsWhatIsLeft
<1> DEFINE D == {d}
<1>9. calls' = calls \cup D
  BY <1>2, <1>3
<1>10. \A e \in D : CallShape(e) /\ ListsSettled(e) /\ PutsWhatIsLeft(e)' /\ SweepsWhatIsLeft(e)'
  BY <1>7, <1>8, Zenon
<1>11. /\ \A e \in D : e.op = "download" => e.region > downloads
       /\ \A e, f \in D : e.op = "download" /\ f.op = "download" => e = f
  BY <1>1, <1>4
<1> HIDE DEF D
<1>12. QED
  BY <1>1, <1>5, <1>9, <1>10, <1>11, CallsBegin

(* Only a region whose download is over can be asked to be deleted.        *)
LEMMA DeleteKeeps ==
  ASSUME StoreInv, NEW region, Settled(region), NEW tag, Delete(region, tag)
  PROVE  StoreInv' /\ \A r : Settled(r) => Settled(r)'
<1>1. downloads \in Nat
  BY DEF StoreInv
<1>2. PICK d : d = Call("delete", region, {}, "sweep", {}, tag)
  OBVIOUS
<1>3. /\ DOMAIN d = CallFields /\ d.op = "delete" /\ d.region = region
      /\ d.at = "sweep" /\ d.todo = {} /\ d.result = {}
  BY <1>2 DEF Call, CallFields
<1>4. /\ downloads' = downloads /\ doomed' = doomed \cup {region}
      /\ archives' = archives /\ manifests' = manifests /\ stranded' = stranded
  BY DEF Delete
<1>5. CallShape(d) /\ ListsSettled(d) /\ (PutsWhatIsLeft(d))' /\ (SweepsWhatIsLeft(d))'
  BY <1>3, <1>4 DEF CallShape, ListsSettled, PutsWhatIsLeft, SweepsWhatIsLeft
<1> DEFINE D == {d}
<1>6. calls' = calls \cup D
  BY <1>2 DEF Delete, DeleteFrom
<1>7. \A e \in D : CallShape(e) /\ ListsSettled(e) /\ PutsWhatIsLeft(e)' /\ SweepsWhatIsLeft(e)'
  BY <1>5, Zenon
<1>8. \A e \in D : e.op # "download"
  BY <1>3
<1> HIDE DEF D
<1>9. QED
  BY <1>1, <1>4, <1>6, <1>7, <1>8, CallsBegin

LEMMA ListBegins ==
  ASSUME StoreInv, NEW tag, calls' = calls \cup {ListCall(tag)},
         UNCHANGED <<archives, manifests, downloads, stranded, doomed>>
  PROVE  StoreInv' /\ \A r : Settled(r) => Settled(r)'
<1>1. downloads \in Nat
  BY DEF StoreInv
<1>2. PICK d : d = ListCall(tag)
  OBVIOUS
<1>3. CallInv(d) /\ d.op = "list"
  BY <1>2, FreshList
<1>4. CallShape(d) /\ ListsSettled(d) /\ (PutsWhatIsLeft(d))' /\ (SweepsWhatIsLeft(d))'
  BY <1>3, CallInvStays
<1> DEFINE D == {d}
<1>5. calls' = calls \cup D
  BY <1>2
<1>6. \A e \in D : CallShape(e) /\ ListsSettled(e) /\ PutsWhatIsLeft(e)' /\ SweepsWhatIsLeft(e)'
  BY <1>4, Zenon
<1>7. \A e \in D : e.op # "download"
  BY <1>3
<1> HIDE DEF D
<1>8. QED
  BY <1>1, <1>5, <1>6, <1>7, CallsBegin

(* One more archive of a download's own region.                            *)
LEMMA PutArchiveKeeps ==
  ASSUME StoreInv, NEW c \in calls, PutArchive(c)
  PROVE  StoreInv' /\ \A r : Settled(r) => Settled(r)'
<1>1. /\ downloads \in Nat /\ OneDownloadEach /\ RegionsKnown /\ ListedIsWhole /\ NothingInvisible
      /\ \A e \in calls : CallInv(e)
  BY DEF StoreInv, RegionsAreWhole
<1>2. CallShape(c) /\ PutsWhatIsLeft(c) /\ SweepsWhatIsLeft(c) /\ ListsSettled(c)
  BY <1>1 DEF CallInv
<1>3. c.op = "download" /\ c.at = "archives"
  BY <1>2 DEF PutArchive, CallShape
<1>4. PICK s \in c.todo :
        /\ archives' = archives \cup {[region |-> c.region, source |-> s]}
        /\ Move(c, IF c.todo = {s} THEN "manifest" ELSE "archives", c.todo \ {s})
  BY DEF PutArchive
<1>5. manifests' = manifests /\ downloads' = downloads /\ stranded' = stranded /\ doomed' = doomed
  BY DEF PutArchive
<1>6. PICK d : d = [c EXCEPT !.at = IF c.todo = {s} THEN "manifest" ELSE "archives",
                             !.todo = c.todo \ {s}]
  OBVIOUS
<1>7. /\ DOMAIN d = CallFields /\ d.op = "download" /\ d.region = c.region
      /\ d.sources = c.sources /\ d.todo = c.todo \ {s} /\ d.result = c.result
      /\ d.at = IF c.todo = {s} THEN "manifest" ELSE "archives"
  BY <1>2, <1>3, <1>6 DEF CallShape, CallFields
<1>8. calls' = (calls \ {c}) \cup {d}
  BY <1>4, <1>6 DEF Move
<1>9. \A e \in calls' : e.op = "download" => UnderWay("download", e.region)
  BY <1>3, <1>7, <1>8 DEF UnderWay
<1>10. \A r : Settled(r) => Settled(r)' /\ r # c.region
  BY <1>1, <1>3, <1>5, <1>9 DEF Settled, UnderWay
<1>11. \A r : r # c.region => ArchivesOf(r)' = ArchivesOf(r) /\ Stored(r)' = Stored(r)
  BY <1>4 DEF ArchivesOf, Stored
<1>12. (Stored(c.region))' = Stored(c.region) \cup {s}
  <2> DEFINE a == [region |-> c.region, source |-> s]
  <2>1. a.region = c.region /\ a.source = s
    OBVIOUS
  <2>2. archives' = archives \cup {a}
    BY <1>4
  <2> HIDE DEF a
  <2>3. (ArchivesOf(c.region))' = ArchivesOf(c.region) \cup {a}
    BY <2>1, <2>2 DEF ArchivesOf
  <2>4. QED
    BY <2>1, <2>3 DEF Stored
<1>13. (CallInv(d))'
  <2>1. (PutsWhatIsLeft(d))'
    <3>1. Stored(c.region) = c.sources \ c.todo /\ c.todo \subseteq c.sources /\ c.region \in 1..downloads
      BY <1>2, <1>3 DEF PutsWhatIsLeft
    <3>2. c.sources = (c.sources \ c.todo) \cup c.todo
      BY <3>1
    <3>3. (Stored(c.region))' = c.sources \ d.todo
      BY <1>7, <1>12, <3>1
    <3>4. d.at = "manifest" => c.sources \ d.todo = c.sources
      BY <1>7
    <3>5. QED
      BY <1>5, <1>7, <3>1, <3>3, <3>4 DEF PutsWhatIsLeft
  <2>2. QED
    BY <1>7, <2>1 DEF CallInv, CallShape, SweepsWhatIsLeft, ListsSettled
<1>14. ASSUME NEW e \in calls \ {c} PROVE (CallInv(e))'
  <2>1. CallShape(e) /\ PutsWhatIsLeft(e) /\ SweepsWhatIsLeft(e) /\ ListsSettled(e)
    BY <1>1, <1>14 DEF CallInv
  <2>2. e.op = "download" => e.region # c.region
    BY <1>1, <1>3, <1>14 DEF OneDownloadEach
  <2>3. e.op = "delete" => e.region # c.region
    BY <1>1, <1>10, <2>1 DEF SweepsWhatIsLeft, RegionsKnown
  <2>4. (PutsWhatIsLeft(e))'
    BY <1>5, <1>11, <2>1, <2>2 DEF PutsWhatIsLeft
  <2>5. (SweepsWhatIsLeft(e))'
    <3>1. e.at \in {"removing", "unlist"} => e.region # c.region
      BY <2>1, <2>2, <2>3 DEF CallShape
    <3>2. QED
      BY <1>5, <1>11, <2>1, <3>1 DEF SweepsWhatIsLeft
  <2>6. (ListsSettled(e))' /\ (CallShape(e))'
    BY <1>10, <2>1 DEF ListsSettled, CallShape
  <2>7. QED
    BY <2>4, <2>5, <2>6 DEF CallInv
<1>15. OneDownloadEach'
  BY <1>1, <1>3, <1>7, <1>8 DEF OneDownloadEach
<1>16. RegionsKnown'
  <2>1. c.region \in 1..downloads
    BY <1>2, <1>3 DEF PutsWhatIsLeft
  <2>2. QED
    BY <1>1, <1>4, <1>5, <1>10, <2>1 DEF RegionsKnown
<1>17. ListedIsWhole'
  <2>1. \A m \in manifests : m.region # c.region
    BY <1>1, <1>10 DEF RegionsKnown
  <2>2. QED
    BY <1>1, <1>5, <1>11, <2>1 DEF ListedIsWhole
<1>18. NothingInvisible'
  <2>1. \A r : UnderWay("download", r) => UnderWay("download", r)'
    BY <1>3, <1>7, <1>8 DEF UnderWay
  <2>2. (UnderWay("download", c.region))'
    BY <1>7, <1>8 DEF UnderWay
  <2>3. QED
    BY <1>1, <1>4, <1>5, <2>1, <2>2 DEF NothingInvisible, Listed
<1>19. QED
  BY <1>1, <1>5, <1>8, <1>10, <1>13, <1>14, <1>15, <1>16, <1>17, <1>18
    DEF StoreInv, RegionsAreWhole

(* The download resolves, and is over.                                     *)
LEMMA PutManifestKeeps ==
  ASSUME StoreInv, NEW c \in calls, NEW more, PutManifest(c, more),
         \A d \in more : CallInv(d) /\ d.op = "list"
  PROVE  StoreInv' /\ \A r : Settled(r) => Settled(r)'
<1>1. /\ downloads \in Nat /\ OneDownloadEach /\ RegionsKnown /\ ListedIsWhole /\ NothingInvisible
      /\ \A e \in calls : CallInv(e)
  BY DEF StoreInv, RegionsAreWhole
<1>2. CallShape(c) /\ PutsWhatIsLeft(c)
  BY <1>1 DEF CallInv
<1>3. /\ c.op = "download" /\ c.at = "manifest"
      /\ Stored(c.region) = c.sources /\ c.region \in 1..downloads
  BY <1>2 DEF PutManifest, CallShape, PutsWhatIsLeft
<1>4. PICK m : m = [region |-> c.region, sources |-> c.sources]
  OBVIOUS
<1>5. m.region = c.region /\ m.sources = c.sources /\ manifests' = manifests \cup {m}
  BY <1>4 DEF PutManifest
<1>6. /\ archives' = archives /\ downloads' = downloads /\ stranded' = stranded
      /\ doomed' = doomed /\ calls' = (calls \ {c}) \cup more
  BY DEF PutManifest, Settle
<1>7. \A e \in calls' : e.op = "download" => UnderWay("download", e.region)
  BY <1>6 DEF UnderWay
<1>8. \A r : Settled(r) => Settled(r)'
  BY <1>6, <1>7 DEF Settled, UnderWay
<1>9. (Settled(c.region))'
  BY <1>1, <1>3, <1>6 DEF Settled, UnderWay, OneDownloadEach
<1>10. ASSUME NEW e \in calls' PROVE (CallInv(e))'
  <2>1. CallInv(e)
    BY <1>1, <1>6, <1>10
  <2>2. (PutsWhatIsLeft(e))' /\ (SweepsWhatIsLeft(e))'
    BY <1>6, <2>1 DEF CallInv, PutsWhatIsLeft, SweepsWhatIsLeft, Stored, ArchivesOf
  <2>3. (ListsSettled(e))' /\ (CallShape(e))'
    BY <1>8, <2>1 DEF CallInv, ListsSettled, CallShape
  <2>4. QED
    BY <2>2, <2>3 DEF CallInv
<1>11. OneDownloadEach'
  BY <1>1, <1>6 DEF OneDownloadEach
<1>12. RegionsKnown'
  BY <1>1, <1>5, <1>6, <1>8, <1>9 DEF RegionsKnown
<1>13. ListedIsWhole'
  <2>1. \A n \in manifests : n.region \notin doomed => n.sources = Stored(n.region)
    BY <1>1 DEF ListedIsWhole, Stored
  <2>2. m.sources = Stored(m.region)
    BY <1>3, <1>5
  <2>3. QED
    BY <1>5, <1>6, <2>1, <2>2 DEF ListedIsWhole, Stored, ArchivesOf
<1>14. NothingInvisible'
  <2>1. SUFFICES ASSUME NEW a \in archives
                 PROVE  \/ \E n \in manifests' : n.region = a.region
                        \/ a.region \in stranded
                        \/ \E e \in calls' : e.op = "download" /\ e.region = a.region
    BY <1>6 DEF NothingInvisible, Listed, UnderWay
  <2>2. \/ \E n \in manifests : n.region = a.region
        \/ a.region \in stranded
        \/ \E e \in calls : e.op = "download" /\ e.region = a.region
    BY <1>1 DEF NothingInvisible, Listed, UnderWay
  <2>3. QED
    BY <1>5, <1>6, <2>2
<1>15. QED
  BY <1>1, <1>6, <1>8, <1>10, <1>11, <1>12, <1>13, <1>14 DEF StoreInv, RegionsAreWhole

(* The deletion resolves: nothing of its region is left.                   *)
LEMMA RemoveManifestKeeps ==
  ASSUME StoreInv, NEW c \in calls, NEW more, RemoveManifest(c, more),
         \A d \in more : CallInv(d) /\ d.op = "list"
  PROVE  StoreInv' /\ \A r : Settled(r) => Settled(r)'
<1>1. /\ downloads \in Nat /\ OneDownloadEach /\ RegionsKnown /\ ListedIsWhole /\ NothingInvisible
      /\ \A e \in calls : CallInv(e)
  BY DEF StoreInv, RegionsAreWhole
<1>2. CallShape(c) /\ SweepsWhatIsLeft(c)
  BY <1>1 DEF CallInv
<1>3. c.op = "delete" /\ c.at = "unlist" /\ ArchivesOf(c.region) = {}
  BY <1>2 DEF RemoveManifest, CallShape, SweepsWhatIsLeft
<1>4. /\ archives' = archives /\ downloads' = downloads /\ stranded' = stranded
      /\ doomed' = doomed /\ calls' = (calls \ {c}) \cup more
      /\ manifests' = {m \in manifests : m.region # c.region}
  BY DEF RemoveManifest, Settle
<1>5. \A r : UnderWay("download", r) <=> UnderWay("download", r)'
  BY <1>3, <1>4 DEF UnderWay
<1>6. \A r : Settled(r) => Settled(r)'
  BY <1>4, <1>5 DEF Settled
<1>7. ASSUME NEW e \in calls' PROVE (CallInv(e))'
  <2>1. CallInv(e)
    BY <1>1, <1>4, <1>7
  <2>2. (PutsWhatIsLeft(e))' /\ (SweepsWhatIsLeft(e))'
    BY <1>4, <2>1 DEF CallInv, PutsWhatIsLeft, SweepsWhatIsLeft, Stored, ArchivesOf
  <2>3. (ListsSettled(e))' /\ (CallShape(e))'
    BY <1>6, <2>1 DEF CallInv, ListsSettled, CallShape
  <2>4. QED
    BY <2>2, <2>3 DEF CallInv
<1>8. OneDownloadEach'
  BY <1>1, <1>4 DEF OneDownloadEach
<1>9. RegionsKnown'
  BY <1>1, <1>4, <1>6 DEF RegionsKnown
<1>10. ListedIsWhole'
  BY <1>1, <1>4 DEF ListedIsWhole, ArchivesOf
<1>11. NothingInvisible'
  <2>1. SUFFICES ASSUME NEW a \in archives
                 PROVE  \/ \E n \in manifests : n.region # c.region /\ n.region = a.region
                        \/ a.region \in stranded \/ UnderWay("download", a.region)
    BY <1>4, <1>5 DEF NothingInvisible, Listed
  <2>2. a.region # c.region
    BY <1>3 DEF ArchivesOf
  <2>3. QED
    BY <1>1, <2>2 DEF NothingInvisible, Listed
<1>12. QED
  BY <1>1, <1>4, <1>6, <1>7, <1>8, <1>9, <1>10, <1>11 DEF StoreInv, RegionsAreWhole

(* No call is left; the downloads that were are stranded.                  *)
LEMMA ReloadKeeps ==
  ASSUME StoreInv, StoreReload
  PROVE  StoreInv'
<1>1. /\ downloads \in Nat /\ RegionsKnown /\ ListedIsWhole /\ NothingInvisible
  BY DEF StoreInv, RegionsAreWhole
<1>2. /\ calls' = {} /\ archives' = archives /\ manifests' = manifests
      /\ downloads' = downloads /\ doomed' = doomed
      /\ stranded' = stranded \cup {c.region : c \in {d \in calls : d.op = "download"}}
  BY DEF StoreReload
<1>3. \A r : Settled(r) => Settled(r)'
  BY <1>2 DEF Settled, UnderWay
<1>4. RegionsKnown'
  BY <1>1, <1>2, <1>3 DEF RegionsKnown
<1>5. ListedIsWhole'
  BY <1>1, <1>2 DEF ListedIsWhole, ArchivesOf
<1>6. NothingInvisible'
  <2>1. \A r : UnderWay("download", r) => r \in stranded'
    BY <1>2 DEF UnderWay
  <2>2. QED
    BY <1>1, <1>2, <2>1 DEF NothingInvisible, Listed
<1>7. QED
  BY <1>1, <1>2, <1>4, <1>5, <1>6 DEF StoreInv, RegionsAreWhole, OneDownloadEach

-----------------------------------------------------------------------------
(* The hook over the store.                                                *)

LEMMA RegionsStart == RegionsInit => RegionsInv
BY DEF RegionsInit, StoreInit, Mounted, RegionsInv, StoreInv, OneDownloadEach, RegionsKnown,
       RegionsAreWhole, ListedIsWhole, NothingInvisible

LEMMA StoreRests ==
  ASSUME StoreInv, UNCHANGED regionVars
  PROVE  StoreInv' /\ \A r : Settled(r) => Settled(r)'
<1>1. /\ archives' = archives /\ manifests' = manifests /\ calls' = calls
      /\ downloads' = downloads /\ stranded' = stranded /\ doomed' = doomed
  BY DEF regionVars
<1>2. \A r : Settled(r) <=> Settled(r)'
  BY <1>1 DEF Settled, UnderWay
<1>3. ASSUME NEW e \in calls PROVE (CallInv(e))'
  <2>1. CallInv(e)
    BY <1>3 DEF StoreInv
  <2>2. CallShape(e) /\ ListsSettled(e) /\ (PutsWhatIsLeft(e))' /\ (SweepsWhatIsLeft(e))'
    BY <1>1, <2>1, CallInvStays
  <2>3. (CallShape(e))' /\ (ListsSettled(e))'
    BY <1>2, <2>2 DEF CallShape, ListsSettled
  <2>4. QED
    BY <2>2, <2>3 DEF CallInv
<1>4. OneDownloadEach' /\ RegionsKnown'
  BY <1>1, <1>2 DEF StoreInv, OneDownloadEach, RegionsKnown
<1>5. RegionsAreWhole'
  BY <1>1 DEF StoreInv, RegionsAreWhole, ListedIsWhole, NothingInvisible, Listed, UnderWay,
              ArchivesOf
<1>6. QED
  BY <1>1, <1>2, <1>3, <1>4, <1>5 DEF StoreInv

LEMMA StoreStepKeeps == ASSUME RegionsInv, StoreStep PROVE RegionsInv'
<1>1. StoreInv /\ \A r \in shown.regions : Settled(r)
  BY DEF RegionsInv
<1>2. shown' = shown
  BY DEF StoreStep, hookVars
<1>3. PICK c \in calls :
        \/ PutArchive(c) \/ DownloadFails(c)
        \/ ListArchives(c) \/ RemoveArchive(c) \/ SweepFails(c) \/ UnlistFails(c)
        \/ ListKeys(c) \/ ReadManifest(c)
  BY DEF StoreStep
<1>4. StoreInv' /\ \A r : Settled(r) => Settled(r)'
  BY <1>1, <1>3, PutArchiveKeeps, FailKeeps, ListArchivesKeeps, RemoveArchiveKeeps,
     SweepFailKeeps, UnlistFailKeeps, ListKeysKeeps, ReadManifestKeeps
<1>5. QED
  BY <1>1, <1>2, <1>4 DEF RegionsInv

(* What a list publishes is what it was given of the store.                *)
LEMMA PublishKeeps ==
  ASSUME RegionsInv, NEW tag, NEW from, NEW regions, Publish(tag, from, regions),
         StoreInv', \A r : Settled(r) => Settled(r)', \A r \in regions : Settled(r)
  PROVE  RegionsInv'
<1>1. shown' = shown \/ shown' = [store |-> from, regions |-> regions]
  BY DEF Publish
<1>2. shown'.regions = shown.regions \/ shown'.regions = regions
  BY <1>1
<1>3. QED
  BY <1>2 DEF RegionsInv

LEMMA AnswersKeep ==
  ASSUME RegionsInv,
         OtherAnswers \/ \E c \in calls : MainAnswers(c) \/ MainFails(c)
  PROVE  RegionsInv'
<1>1. StoreInv /\ \A r \in shown.regions : Settled(r)
  BY DEF RegionsInv
<1>2. ASSUME NEW c \in calls, MainAnswers(c) PROVE RegionsInv'
  <2>1. ListResolves(c) /\ Publish(c.tag, "main", c.result)
    BY <1>2 DEF MainAnswers
  <2>2. \A r \in c.result : Settled(r)
    <3>1. c.op = "list" /\ ListsSettled(c)
      BY <1>1, <2>1 DEF StoreInv, CallInv, CallShape, ListResolves
    <3>2. QED
      BY <3>1 DEF ListsSettled
  <2>3. StoreInv' /\ \A r : Settled(r) => Settled(r)'
    BY <1>1, <2>1, ListEndKeeps
  <2>4. QED
    BY <2>1, <2>2, <2>3, PublishKeeps
<1>3. ASSUME NEW c \in calls, MainFails(c) PROVE RegionsInv'
  <2>1. StoreInv' /\ \A r : Settled(r) => Settled(r)'
    BY <1>1, <1>3, ListEndKeeps DEF MainFails
  <2>2. shown' = shown
    BY <1>3 DEF MainFails, LoadFailed
  <2>3. QED
    BY <1>1, <2>1, <2>2 DEF RegionsInv
<1>4. UNCHANGED regionVars => StoreInv' /\ \A r : Settled(r) => Settled(r)'
  BY <1>1, StoreRests
<1>5. ASSUME OtherAnswers PROVE RegionsInv'
  <2>1. PICK tag \in elsewhere : Publish(tag, "other", {}) \/ LoadFailed(tag)
    BY <1>5 DEF OtherAnswers
  <2>2. StoreInv' /\ \A r : Settled(r) => Settled(r)'
    BY <1>4, <1>5 DEF OtherAnswers
  <2>3. CASE Publish(tag, "other", {})
    BY <2>2, <2>3, PublishKeeps
  <2>4. CASE LoadFailed(tag)
    BY <1>1, <2>2, <2>4 DEF LoadFailed, RegionsInv
  <2>5. QED
    BY <2>1, <2>3, <2>4
<1>6. QED
  BY <1>2, <1>3, <1>5

(* download() and remove() begin; a region that is removed was shown.      *)
LEMMA ChangesBeginKeep ==
  ASSUME RegionsInv, HookDownloads \/ HookRemoves
  PROVE  RegionsInv'
<1>1. StoreInv /\ \A r \in shown.regions : Settled(r)
  BY DEF RegionsInv
<1>2. shown' = shown
  BY DEF HookDownloads, HookRemoves, hookVars
<1>3. CASE HookDownloads
  <2>1. StoreInv' /\ \A r : Settled(r) => Settled(r)'
    BY <1>1, <1>3, DownloadKeeps DEF HookDownloads
  <2>2. QED
    BY <1>1, <1>2, <2>1 DEF RegionsInv
<1>4. CASE HookRemoves
  <2>1. PICK r \in shown.regions : Delete(r, MutationTag)
    BY <1>4 DEF HookRemoves
  <2>2. StoreInv' /\ \A q : Settled(q) => Settled(q)'
    BY <1>1, <2>1, DeleteKeeps
  <2>3. QED
    BY <1>1, <1>2, <2>2 DEF RegionsInv
<1>5. QED
  BY <1>3, <1>4

LEMMA ChangesEndKeep ==
  ASSUME RegionsInv, NEW c \in calls, MutationResolves(c)
  PROVE  RegionsInv'
<1>1. StoreInv /\ \A r \in shown.regions : Settled(r)
  BY DEF RegionsInv
<1>2. shown' = shown
  BY DEF MutationResolves
<1>3. PICK more : /\ more = {} \/ more = {ListCall(LoadTag(c.tag.late))}
                  /\ PutManifest(c, more) \/ RemoveManifest(c, more)
  BY DEF MutationResolves
<1>4. \A d \in more : CallInv(d) /\ d.op = "list"
  <2>1. CallInv(ListCall(LoadTag(c.tag.late))) /\ ListCall(LoadTag(c.tag.late)).op = "list"
    BY FreshList
  <2>2. QED
    BY <1>3, <2>1
<1>5. StoreInv' /\ \A r : Settled(r) => Settled(r)'
  BY <1>1, <1>3, <1>4, PutManifestKeeps, RemoveManifestKeeps
<1>6. QED
  BY <1>1, <1>2, <1>5 DEF RegionsInv

LEMMA RendersKeep ==
  ASSUME RegionsInv, RenderStore \/ EffectRuns \/ UNCHANGED regionsVars
  PROVE  RegionsInv'
<1>1. StoreInv /\ \A r \in shown.regions : Settled(r)
  BY DEF RegionsInv
<1>2. shown' = shown
  BY DEF RenderStore, EffectRuns, regionsVars, hookVars
<1>3. \/ UNCHANGED regionVars
      \/ /\ calls' = calls \cup {ListCall(LoadTag(FALSE))}
         /\ UNCHANGED <<archives, manifests, downloads, stranded, doomed>>
  BY DEF RenderStore, EffectRuns, regionsVars, regionVars
<1>4. StoreInv' /\ \A r : Settled(r) => Settled(r)'
  BY <1>1, <1>3, StoreRests, ListBegins
<1>5. QED
  BY <1>1, <1>2, <1>4 DEF RegionsInv

LEMMA ReloadsKeep == ASSUME RegionsInv, Reload PROVE RegionsInv'
<1>1. StoreInv'
  BY ReloadKeeps DEF Reload, RegionsInv
<1>2. shown' = [store |-> "main", regions |-> {}]
  BY DEF Reload, Mounted
<1>3. QED
  BY <1>1, <1>2 DEF RegionsInv

LEMMA RegionsKeep == RegionsInv /\ [RegionsNext]_regionsVars => RegionsInv'
<1> SUFFICES ASSUME RegionsInv, [RegionsNext]_regionsVars PROVE RegionsInv'
  OBVIOUS
<1>1. CASE RenderStore \/ EffectRuns \/ UNCHANGED regionsVars
  BY <1>1, RendersKeep
<1>2. CASE OtherAnswers \/ \E c \in calls : MainAnswers(c) \/ MainFails(c)
  BY <1>2, AnswersKeep
<1>3. CASE HookDownloads \/ HookRemoves
  BY <1>3, ChangesBeginKeep
<1>4. CASE \E c \in calls : MutationResolves(c)
  BY <1>4, ChangesEndKeep
<1>5. CASE StoreStep
  BY <1>5, StoreStepKeeps
<1>6. CASE Reload
  BY <1>6, ReloadsKeep
<1>7. QED
  BY <1>1, <1>2, <1>3, <1>4, <1>5, <1>6 DEF RegionsNext

-----------------------------------------------------------------------------
(* Theorems.                                                               *)

(* A region that is listed and that nobody asked to delete has all its     *)
(* archives, and no archive is left over but of a download under way, or   *)
(* cut short, or whose rollback failed.                                    *)
THEOREM RegionsStayWhole == RegionsSpec => []RegionsAreWhole
<1>1. RegionsInit => RegionsInv
  BY RegionsStart
<1>2. RegionsInv /\ [RegionsNext]_regionsVars => RegionsInv'
  BY RegionsKeep
<1>3. RegionsInv => RegionsAreWhole
  BY DEF RegionsInv, StoreInv
<1> QED
  BY <1>1, <1>2, <1>3, PTL DEF RegionsSpec

(* Only the deletion of its region takes a manifest away.                  *)
LEMMA OnlyDeletionUnlists ==
  ASSUME RegionsInv, [RegionsNext]_regionsVars
  PROVE  \/ manifests \subseteq manifests'
         \/ \E c \in calls : \E more : RemoveManifest(c, more)
<1>1. ASSUME NEW c \in calls, MutationResolves(c)
      PROVE  \E more : PutManifest(c, more) \/ RemoveManifest(c, more)
  BY <1>1 DEF MutationResolves
<1>2. ASSUME NEW c \in calls, NEW more, PutManifest(c, more) PROVE manifests \subseteq manifests'
  BY <1>2 DEF PutManifest
<1>3. CASE \E c \in calls : MutationResolves(c)
  BY <1>1, <1>2, <1>3
<1>4. CASE StoreStep
  BY <1>4 DEF StoreStep, PutArchive, DownloadFails, ListArchives, RemoveArchive, SweepFails,
              UnlistFails, ListKeys, ReadManifest
<1>5. CASE \/ RenderStore \/ EffectRuns \/ OtherAnswers \/ HookDownloads \/ HookRemoves \/ Reload
           \/ \E c \in calls : MainAnswers(c) \/ MainFails(c)
           \/ UNCHANGED regionsVars
  BY <1>5 DEF RenderStore, EffectRuns, OtherAnswers, HookDownloads, Download, HookRemoves, Delete,
              Reload, StoreReload, MainAnswers, ListResolves, MainFails, ListFails,
              regionsVars, regionVars
<1>6. QED
  BY <1>3, <1>4, <1>5 DEF RegionsNext

(* A region leaves the list only when none of its archives is left.        *)
LEMMA RegionsLeaveLast == RegionsSpec => UnlistedLast
<1>1. RegionsInit => RegionsInv
  BY RegionsStart
<1>2. RegionsInv /\ [RegionsNext]_regionsVars => RegionsInv'
  BY RegionsKeep
<1>3. RegionsInv /\ [RegionsNext]_regionsVars =>
        [\A m \in manifests : m \notin manifests' => ArchivesOf(m.region) = {}]_regionVars
  <2>1. SUFFICES ASSUME RegionsInv, [RegionsNext]_regionsVars,
                        NEW m \in manifests, m \notin manifests'
                 PROVE  ArchivesOf(m.region) = {}
    OBVIOUS
  <2>2. PICK c \in calls : \E more : RemoveManifest(c, more)
    BY <2>1, OnlyDeletionUnlists
  <2>3. c.at = "unlist" /\ m.region = c.region
    BY <2>1, <2>2 DEF RemoveManifest
  <2>4. SweepsWhatIsLeft(c)
    BY <2>1 DEF RegionsInv, StoreInv, CallInv
  <2>5. QED
    BY <2>3, <2>4 DEF SweepsWhatIsLeft
<1> QED
  BY <1>1, <1>2, <1>3, PTL DEF RegionsSpec, UnlistedLast

-----------------------------------------------------------------------------
(* What is published.                                                      *)

(* The store rendered may be published, or will be asked by the effect.    *)
Rendered(st) == store = st \/ effectDue

(* The newest list, and the lists a change of this context will ask for,   *)
(* are of the store rendered, callbacks of an earlier render excepted.     *)
TagInv(c) ==
  /\ DOMAIN c = CallFields
  /\ c.at \in {"keys", "reading"} =>
       /\ c.tag.number \in Nat /\ c.tag.number <= issued
       /\ c.tag.number = issued /\ ~c.tag.late => Rendered("main")
  /\ c.at \notin {"keys", "reading"} =>
       /\ c.tag.context \in Nat /\ c.tag.context <= context
       /\ c.tag.context = context /\ ~c.tag.late => Rendered("main")

TagsInv ==
  /\ issued \in Nat /\ context \in Nat /\ store \in {"main", "other"}
  /\ \A c \in calls : TagInv(c)
  /\ \A tag \in elsewhere :
       tag.number \in Nat /\ tag.number <= issued /\ (tag.number = issued => Rendered("other"))

LEMMA TagsStart == RegionsInit => TagsInv
BY DEF RegionsInit, StoreInit, Mounted, TagsInv

(* A call goes on as another: its tag is the same, and it is a list if it  *)
(* was one.                                                                *)
GoesOn(c, d) ==
  /\ DOMAIN d = CallFields /\ d.tag = c.tag
  /\ d.at \in {"keys", "reading"} <=> c.at \in {"keys", "reading"}

LEMMA MoveGoesOn ==
  ASSUME NEW c \in calls, DOMAIN c = CallFields, NEW at, NEW todo, Move(c, at, todo),
         at \in {"keys", "reading"} <=> c.at \in {"keys", "reading"}
  PROVE  \A d \in calls' : d \in calls \/ GoesOn(c, d)
<1>1. PICK e : e = [c EXCEPT !.at = at, !.todo = todo]
  OBVIOUS
<1>2. GoesOn(c, e)
  BY <1>1 DEF GoesOn, CallFields
<1>3. QED
  BY <1>1, <1>2 DEF Move

LEMMA SweepGoesOn ==
  ASSUME NEW c \in calls, CallShape(c), c.at \in {"sweep", "removing"}, NEW keys, SweepTo(c, keys)
  PROVE  \A d \in calls' : d \in calls \/ GoesOn(c, d)
<1>1. c.op \in {"download", "delete"} /\ DOMAIN c = CallFields
  BY DEF CallShape
<1>2. CASE keys # {}
  <2>1. Move(c, "removing", keys)
    BY <1>2 DEF SweepTo
  <2>2. QED
    BY <1>1, <2>1, MoveGoesOn
<1>3. CASE keys = {} /\ c.op = "delete"
  <2>1. Move(c, "unlist", {})
    BY <1>3 DEF SweepTo
  <2>2. QED
    BY <1>1, <2>1, MoveGoesOn
<1>4. CASE keys = {} /\ c.op = "download"
  BY <1>4 DEF SweepTo, Settle
<1>5. QED
  BY <1>1, <1>2, <1>3, <1>4

LEMMA StoreStepGoesOn ==
  ASSUME RegionsInv, StoreStep
  PROVE  \E c \in calls : \A d \in calls' : d \in calls \/ GoesOn(c, d)
<1>1. \A c \in calls : CallShape(c) /\ DOMAIN c = CallFields
  BY DEF RegionsInv, StoreInv, CallInv, CallShape
<1>2. PICK c \in calls :
        \/ PutArchive(c) \/ DownloadFails(c)
        \/ ListArchives(c) \/ RemoveArchive(c) \/ SweepFails(c) \/ UnlistFails(c)
        \/ ListKeys(c) \/ ReadManifest(c)
  BY DEF StoreStep
<1> SUFFICES \A d \in calls' : d \in calls \/ GoesOn(c, d)
  OBVIOUS
<1>3. CASE PutArchive(c)
  <2>1. PICK s, at : /\ at \in {"manifest", "archives"} /\ Move(c, at, c.todo \ {s})
    BY <1>3 DEF PutArchive
  <2>2. c.at = "archives"
    BY <1>3 DEF PutArchive
  <2>3. QED
    BY <1>1, <2>1, <2>2, MoveGoesOn
<1>4. CASE DownloadFails(c)
  <2>1. Move(c, "sweep", {}) /\ c.at \notin {"keys", "reading"}
    BY <1>4 DEF DownloadFails, Rollback
  <2>2. QED
    BY <1>1, <2>1, MoveGoesOn
<1>5. CASE ListArchives(c)
  BY <1>1, <1>5, SweepGoesOn DEF ListArchives
<1>6. CASE RemoveArchive(c)
  BY <1>1, <1>6, SweepGoesOn DEF RemoveArchive
<1>7. CASE SweepFails(c) \/ UnlistFails(c)
  BY <1>7 DEF SweepFails, UnlistFails, Settle
<1>8. CASE ListKeys(c)
  BY <1>1, <1>8, MoveGoesOn DEF ListKeys
<1>9. CASE ReadManifest(c)
  <2>1. PICK r \in c.todo :
          calls' = (calls \ {c}) \cup
            {[c EXCEPT !.todo = @ \ {r}, !.result = IF r \in Listed THEN @ \cup {r} ELSE @]}
    BY <1>9 DEF ReadManifest
  <2>2. PICK e : e = [c EXCEPT !.todo = @ \ {r}, !.result = IF r \in Listed THEN @ \cup {r} ELSE @]
    OBVIOUS
  <2>3. GoesOn(c, e)
    BY <1>1, <2>2 DEF GoesOn, CallFields
  <2>4. QED
    BY <2>1, <2>2, <2>3
<1>10. QED
  BY <1>2, <1>3, <1>4, <1>5, <1>6, <1>7, <1>8, <1>9

(* Nothing new is asked, and the store rendered stays the one rendered.    *)
LEMMA TagsStand ==
  ASSUME TagsInv, UNCHANGED <<context, issued>>, elsewhere' \subseteq elsewhere,
         store' \in {"main", "other"},
         \A st : Rendered(st) => Rendered(st)',
         \A d \in calls' : d \in calls \/ \E c \in calls : GoesOn(c, d)
  PROVE  TagsInv'
<1>1. ASSUME NEW d \in calls' PROVE (TagInv(d))'
  <2>1. TagInv(d)
    BY <1>1 DEF TagsInv, TagInv, GoesOn
  <2>2. QED
    BY <2>1 DEF TagInv
<1>2. QED
  BY <1>1 DEF TagsInv

(* A list is asked of the store rendered, or for a callback of an earlier  *)
(* render.                                                                 *)
LEMMA ListIsTagged ==
  ASSUME TagsInv, NEW late, NEW d, d = ListCall(LoadTag(late)),
         issued' = issued + 1, late \/ Rendered("main")'
  PROVE  (TagInv(d))'
<1>1. DOMAIN d = CallFields /\ d.at = "keys" /\ d.tag = LoadTag(late)
  BY DEF ListCall, Call, CallFields
<1>2. d.tag.number = issued' /\ d.tag.late = late
  BY <1>1 DEF LoadTag
<1>3. issued' \in Nat
  BY DEF TagsInv
<1>4. QED
  BY <1>1, <1>2, <1>3 DEF TagInv

(* A newer list makes the others old.                                      *)
LEMMA TagsAge ==
  ASSUME TagsInv, issued' = issued + 1, context' = context,
         \A st : Rendered(st) => Rendered(st)', NEW c \in calls
  PROVE  (TagInv(c))'
<1>1. TagInv(c) /\ issued \in Nat
  BY DEF TagsInv
<1>2. QED
  BY <1>1 DEF TagInv

LEMMA RendersKeepTags ==
  ASSUME TagsInv, RenderStore \/ EffectRuns
  PROVE  TagsInv'
<1>1. CASE RenderStore
  <2>1. /\ calls' = calls /\ elsewhere' = elsewhere /\ context' = context /\ issued' = issued
        /\ effectDue' = TRUE /\ store' \in {"main", "other"}
    BY <1>1 DEF RenderStore, regionVars
  <2>2. \A st : Rendered(st)'
    BY <2>1 DEF Rendered
  <2>3. QED
    BY <2>1, <2>2, TagsStand
<1>2. CASE EffectRuns
  <2>1. /\ context' = context + 1 /\ issued' = issued + 1 /\ store' = store
        /\ issued \in Nat /\ context \in Nat /\ store \in {"main", "other"}
    BY <1>2 DEF EffectRuns, Issued, TagsInv
  <2>2. ASSUME NEW c \in calls PROVE (TagInv(c))'
    <3>1. TagInv(c)
      BY <2>2 DEF TagsInv
    <3>2. QED
      BY <2>1, <3>1 DEF TagInv
  <2>3. \A tag \in elsewhere : tag.number \in Nat /\ tag.number < issued'
    BY <2>1 DEF TagsInv
  <2>4. CASE store = "main"
    <3>1. calls' = calls \cup {ListCall(LoadTag(FALSE))} /\ elsewhere' = elsewhere
      BY <1>2, <2>4 DEF EffectRuns
    <3>2. (Rendered("main"))'
      BY <2>1, <2>4 DEF Rendered
    <3>3. PICK d : d = ListCall(LoadTag(FALSE))
      OBVIOUS
    <3>4. (TagInv(d))'
      BY <2>1, <3>2, <3>3, ListIsTagged
    <3>5. \A c \in calls' : TagInv(c)'
      BY <2>2, <3>1, <3>3, <3>4
    <3>6. \A tag \in elsewhere' :
            tag.number \in Nat /\ tag.number <= issued' /\ (tag.number = issued' => Rendered("other")')
      BY <2>1, <2>3, <3>1
    <3>7. issued' \in Nat /\ context' \in Nat /\ store' \in {"main", "other"}
      BY <2>1
    <3>8. QED
      BY <3>5, <3>6, <3>7 DEF TagsInv
  <2>5. CASE store = "other"
    <3>1. calls' = calls /\ elsewhere' = elsewhere \cup {LoadTag(FALSE)}
      BY <1>2, <2>5 DEF EffectRuns, regionVars
    <3>2. PICK d : d = LoadTag(FALSE)
      OBVIOUS
    <3>3. \A tag \in elsewhere' :
            tag.number \in Nat /\ tag.number <= issued' /\ (tag.number = issued' => Rendered("other")')
      <4>1. d.number = issued' /\ issued' \in Nat
        BY <2>1, <3>2 DEF LoadTag
      <4>2. (Rendered("other"))'
        BY <2>1, <2>5 DEF Rendered
      <4>3. \A tag \in elsewhere' : tag \in elsewhere \/ tag = d
        BY <3>1, <3>2
      <4>4. QED
        BY <2>3, <4>1, <4>2, <4>3
    <3>4. \A c \in calls' : TagInv(c)'
      BY <2>2, <3>1
    <3>5. issued' \in Nat /\ context' \in Nat /\ store' \in {"main", "other"}
      BY <2>1
    <3>6. QED
      BY <3>3, <3>4, <3>5 DEF TagsInv
  <2>6. QED
    BY <2>1, <2>4, <2>5
<1>3. QED
  BY <1>1, <1>2

(* A change that begins knows the context it begins in.                    *)
LEMMA ChangesBeginTagged ==
  ASSUME TagsInv, HookDownloads \/ HookRemoves
  PROVE  TagsInv'
<1>1. /\ store' = store /\ effectDue' = effectDue /\ context' = context /\ issued' = issued
      /\ elsewhere' = elsewhere
  BY DEF HookDownloads, HookRemoves, hookVars
<1>2. PICK op, region, sources, at, todo :
        /\ calls' = calls \cup {Call(op, region, sources, at, todo, MutationTag)}
        /\ at \notin {"keys", "reading"}
  BY DEF HookDownloads, Download, HookRemoves, Delete, DeleteFrom
<1>3. PICK d : d = Call(op, region, sources, at, todo, MutationTag)
  OBVIOUS
<1>4. DOMAIN d = CallFields /\ d.at = at /\ d.tag = MutationTag
  BY <1>3 DEF Call, CallFields
<1>5. d.tag.context = context /\ (~d.tag.late => store = "main")
  <2>1. MutationTag.context = context /\ MutationTag.late = (store # "main")
    BY DEF MutationTag
  <2>2. QED
    BY <1>4, <2>1
<1>6. context \in Nat /\ issued \in Nat
  BY DEF TagsInv
<1>7. (TagInv(d))'
  BY <1>1, <1>2, <1>4, <1>5, <1>6 DEF TagInv, Rendered
<1>8. ASSUME NEW c \in calls PROVE (TagInv(c))'
  <2>1. TagInv(c)
    BY <1>8 DEF TagsInv
  <2>2. QED
    BY <1>1, <2>1 DEF TagInv, Rendered
<1>9. \A c \in calls' : TagInv(c)'
  BY <1>2, <1>3, <1>7, <1>8
<1>10. \A tag \in elsewhere' :
         tag.number \in Nat /\ tag.number <= issued' /\ (tag.number = issued' => Rendered("other")')
  BY <1>1 DEF TagsInv, Rendered
<1>11. QED
  BY <1>1, <1>9, <1>10 DEF TagsInv

(* A change that ends in its context asks for a list of what is rendered.  *)
LEMMA ChangesEndTagged ==
  ASSUME TagsInv, NEW c \in calls, MutationResolves(c)
  PROVE  TagsInv'
<1>1. /\ store' = store /\ effectDue' = effectDue /\ context' = context /\ elsewhere' = elsewhere
      /\ store \in {"main", "other"} /\ issued \in Nat /\ context \in Nat
  BY DEF MutationResolves, TagsInv
<1>2. \A st : Rendered(st) => Rendered(st)'
  BY <1>1 DEF Rendered
<1>3. CASE SameContext(c.tag)
  <2>1. /\ calls' = (calls \ {c}) \cup {ListCall(LoadTag(c.tag.late))}
        /\ c.at \in {"manifest", "unlist"} /\ issued' = issued + 1
    BY <1>3 DEF MutationResolves, PutManifest, RemoveManifest, Settle, Issued
  <2>2. c.tag.late \/ Rendered("main")
    BY <1>3, <2>1 DEF TagsInv, TagInv, SameContext
  <2>3. PICK d : d = ListCall(LoadTag(c.tag.late))
    OBVIOUS
  <2>4. (TagInv(d))'
    BY <1>2, <2>1, <2>2, <2>3, ListIsTagged
  <2>5. \A e \in calls : TagInv(e)'
    BY <1>1, <1>2, <2>1, TagsAge
  <2>6. \A e \in calls' : TagInv(e)'
    BY <2>1, <2>3, <2>4, <2>5
  <2>7. \A tag \in elsewhere : tag.number \in Nat /\ tag.number < issued'
    BY <1>1, <2>1 DEF TagsInv
  <2>8. QED
    BY <1>1, <2>1, <2>6, <2>7 DEF TagsInv
<1>4. CASE ~SameContext(c.tag)
  <2>1. calls' \subseteq calls /\ issued' = issued
    BY <1>4 DEF MutationResolves, PutManifest, RemoveManifest, Settle
  <2>2. QED
    BY <1>1, <1>2, <2>1, TagsStand
<1>5. QED
  BY <1>3, <1>4

LEMMA TagsKeep == RegionsInv /\ TagsInv /\ [RegionsNext]_regionsVars => TagsInv'
<1> SUFFICES ASSUME RegionsInv, TagsInv, [RegionsNext]_regionsVars PROVE TagsInv'
  OBVIOUS
<1>a. store \in {"main", "other"}
  BY DEF TagsInv
<1>1. CASE RenderStore \/ EffectRuns
  BY <1>1, RendersKeepTags
<1>2. CASE HookDownloads \/ HookRemoves
  BY <1>2, ChangesBeginTagged
<1>3. CASE \E c \in calls : MutationResolves(c)
  BY <1>3, ChangesEndTagged
<1>4. CASE OtherAnswers \/ (\E c \in calls : MainAnswers(c) \/ MainFails(c)) \/ UNCHANGED regionsVars
  <2>1. /\ store' = store /\ effectDue' = effectDue /\ context' = context /\ issued' = issued
        /\ elsewhere' \subseteq elsewhere /\ calls' \subseteq calls
    BY <1>4 DEF OtherAnswers, MainAnswers, MainFails, Publish, LoadFailed, ListResolves, ListFails,
                Settle, regionsVars, regionVars, hookVars
  <2>2. \A st : Rendered(st) => Rendered(st)'
    BY <2>1 DEF Rendered
  <2>3. QED
    BY <1>a, <2>1, <2>2, TagsStand
<1>5. CASE StoreStep
  <2>1. /\ store' = store /\ effectDue' = effectDue /\ context' = context /\ issued' = issued
        /\ elsewhere' = elsewhere
    BY <1>5 DEF StoreStep, hookVars
  <2>2. \A st : Rendered(st) => Rendered(st)'
    BY <2>1 DEF Rendered
  <2>3. \A d \in calls' : d \in calls \/ \E c \in calls : GoesOn(c, d)
    BY <1>5, StoreStepGoesOn
  <2>4. QED
    BY <1>a, <2>1, <2>2, <2>3, TagsStand
<1>6. CASE Reload
  BY <1>6 DEF Reload, StoreReload, Mounted, TagsInv
<1>7. QED
  BY <1>1, <1>2, <1>3, <1>4, <1>5, <1>6 DEF RegionsNext

(* What a step publishes is the list of the store rendered.                *)
LEMMA PublishedIsRendered ==
  ASSUME RegionsInv, TagsInv, [RegionsNext]_regionsVars, shown' # shown, context' # 0
  PROVE  \/ shown'.store = store \/ effectDue
         \/ \E c \in calls : c \notin calls' /\ c.tag.late
<1>1. CASE OtherAnswers
  <2>1. PICK tag \in elsewhere : Publish(tag, "other", {})
    BY <1>1 DEF OtherAnswers, LoadFailed
  <2>2. tag.number = issued /\ shown'.store = "other"
    BY <2>1 DEF Publish, Newest
  <2>3. QED
    BY <2>2 DEF TagsInv, Rendered
<1>2. ASSUME NEW c \in calls, MainAnswers(c)
      PROVE  \/ shown'.store = store \/ effectDue
             \/ \E e \in calls : e \notin calls' /\ e.tag.late
  <2>1. /\ c.tag.number = issued /\ shown'.store = "main"
        /\ calls' = calls \ {c} /\ c.at = "reading"
    BY <1>2 DEF MainAnswers, Publish, Newest, ListResolves, Settle
  <2>2. c.tag.late \/ Rendered("main")
    BY <2>1 DEF TagsInv, TagInv
  <2>3. QED
    BY <2>1, <2>2 DEF Rendered
<1>3. CASE \/ RenderStore \/ EffectRuns \/ HookDownloads \/ HookRemoves \/ StoreStep \/ Reload
           \/ (\E c \in calls : MainFails(c) \/ MutationResolves(c)) \/ UNCHANGED regionsVars
  BY <1>3 DEF RenderStore, EffectRuns, HookDownloads, HookRemoves, StoreStep, Reload, Mounted,
              MainFails, LoadFailed, MutationResolves, regionsVars, hookVars
<1>4. QED
  BY <1>1, <1>2, <1>3 DEF RegionsNext

(* A region leaves the store's list after its archives, and no list is     *)
(* published but of the store that is rendered.                            *)
THEOREM RegionsChangeAsTheyShould == RegionsSpec => RegionsChangeInOrder
<1>1. RegionsInit => RegionsInv /\ TagsInv
  BY RegionsStart, TagsStart
<1>2. RegionsInv /\ TagsInv /\ [RegionsNext]_regionsVars => (RegionsInv /\ TagsInv)'
  BY RegionsKeep, TagsKeep
<1>3. RegionsInv /\ TagsInv /\ [RegionsNext]_regionsVars =>
        [shown' # shown /\ context' # 0 =>
           \/ shown'.store = store \/ effectDue
           \/ \E c \in calls : c \notin calls' /\ c.tag.late]_regionsVars
  BY PublishedIsRendered
<1>4. RegionsSpec => PublishesRenderedStore
  BY <1>1, <1>2, <1>3, PTL DEF RegionsSpec, PublishesRenderedStore
<1> QED
  BY <1>4, RegionsLeaveLast, PTL DEF RegionsChangeInOrder

-----------------------------------------------------------------------------
(* What a list tells, and the screen with it.                              *)

Lists == {"keys", "reading"}

IsNewest(c) == c.at \in Lists /\ c.tag.number = issued

(* The newest list tells all the store lists and no more, of what it has   *)
(* read and has still to read, unless a change landed since.               *)
ReadInv ==
  \A c \in calls :
    /\ c.at = "keys" => c.result = {}
    /\ c.at = "reading" /\ IsNewest(c) /\ ~owed =>
         c.result \subseteq Listed /\ Listed \subseteq c.result \cup c.todo

(* The screen shows what the store lists, or the newest list is under way. *)
ShownInv ==
  store = "main" /\ ~effectDue /\ ~owed /\ ~unread =>
    shown = [store |-> "main", regions |-> Listed] \/ \E c \in calls : IsNewest(c)

(* With the same newest list and the same regions, calls that read nothing *)
(* more tell what they told.                                               *)
LEMMA ReadStands ==
  ASSUME ReadInv, UNCHANGED <<manifests, issued>>, owed' = owed,
         \A d \in calls' : d \in calls \/ d.at \notin Lists
  PROVE  ReadInv'
<1>1. Listed' = Listed
  BY DEF Listed
<1>2. ASSUME NEW d \in calls'
      PROVE  /\ d.at = "keys" => d.result = {}
             /\ d.at = "reading" /\ IsNewest(d)' /\ ~owed' =>
                  d.result \subseteq Listed' /\ Listed' \subseteq d.result \cup d.todo
  BY <1>1, <1>2 DEF ReadInv, IsNewest, Lists
<1>3. QED
  BY <1>2 DEF ReadInv

(* Another list is asked for: those before it are no longer the newest.    *)
LEMMA ReadAges ==
  ASSUME TagsInv, ReadInv, issued' = issued + 1, NEW late,
         calls' \subseteq calls \cup {ListCall(LoadTag(late))}
  PROVE  ReadInv'
<1>1. PICK e : e = ListCall(LoadTag(late))
  OBVIOUS
<1>2. e.at = "keys" /\ e.result = {}
  BY <1>1, NewCall DEF ListCall
<1>3. ASSUME NEW d \in calls'
      PROVE  (d.at = "keys" => d.result = {}) /\ ~(d.at = "reading" /\ IsNewest(d)')
  <2>1. CASE d \in calls
    <3>1. d.at = "reading" => d.tag.number \in Nat /\ d.tag.number <= issued
      BY <2>1 DEF TagsInv, TagInv
    <3>2. issued \in Nat
      BY DEF TagsInv
    <3>3. QED
      BY <2>1, <3>1, <3>2 DEF ReadInv, IsNewest
  <2>2. CASE d = e
    BY <1>2, <2>2
  <2>3. QED
    BY <1>1, <2>1, <2>2
<1>4. QED
  BY <1>3 DEF ReadInv

(* A step of the store that is no step of a list makes no list.            *)
LEMMA MoveIsAt ==
  ASSUME NEW c, DOMAIN c = CallFields, NEW at, NEW todo, Move(c, at, todo)
  PROVE  \A d \in calls' : d \in calls \/ d.at = at
<1>1. PICK e : e = [c EXCEPT !.at = at, !.todo = todo]
  OBVIOUS
<1>2. e.at = at
  BY <1>1 DEF CallFields
<1>3. QED
  BY <1>1, <1>2 DEF Move

LEMMA SweepMakesNoList ==
  ASSUME NEW c, CallShape(c), c.at \in {"sweep", "removing"}, NEW keys, SweepTo(c, keys)
  PROVE  /\ \A d \in calls' : d \in calls \/ d.at \notin Lists
         /\ calls \ {c} \subseteq calls'
<1>1. c.op \in {"download", "delete"} /\ DOMAIN c = CallFields
  BY DEF CallShape
<1>2. CASE keys # {}
  <2>1. Move(c, "removing", keys)
    BY <1>2 DEF SweepTo
  <2>2. \A d \in calls' : d \in calls \/ d.at = "removing"
    BY <1>1, <2>1, MoveIsAt
  <2>3. QED
    BY <2>1, <2>2 DEF Move, Lists
<1>3. CASE keys = {} /\ c.op = "delete"
  <2>1. Move(c, "unlist", {})
    BY <1>3 DEF SweepTo
  <2>2. \A d \in calls' : d \in calls \/ d.at = "unlist"
    BY <1>1, <2>1, MoveIsAt
  <2>3. QED
    BY <2>1, <2>2 DEF Move, Lists
<1>4. CASE keys = {} /\ c.op = "download"
  BY <1>4 DEF SweepTo, Settle
<1>5. QED
  BY <1>1, <1>2, <1>3, <1>4

LEMMA OthersMakeNoList ==
  ASSUME NEW c \in calls, CallShape(c),
         \/ PutArchive(c) \/ DownloadFails(c)
         \/ ListArchives(c) \/ RemoveArchive(c) \/ SweepFails(c) \/ UnlistFails(c)
  PROVE  (\A d \in calls' : d \in calls \/ d.at \notin Lists) /\ c.at \notin Lists
<1>1. DOMAIN c = CallFields
  BY DEF CallShape
<1>2. c.at \notin Lists
  BY DEF PutArchive, DownloadFails, ListArchives, RemoveArchive, SweepFails, UnlistFails, Lists
<1>3. CASE PutArchive(c)
  <2>1. PICK s, at : at \in {"manifest", "archives"} /\ Move(c, at, c.todo \ {s})
    BY <1>3 DEF PutArchive
  <2>2. QED
    BY <1>1, <1>2, <2>1, MoveIsAt DEF Lists
<1>4. CASE DownloadFails(c)
  BY <1>1, <1>2, <1>4, MoveIsAt DEF DownloadFails, Rollback, Lists
<1>5. CASE ListArchives(c) \/ RemoveArchive(c)
  BY <1>2, <1>5, SweepMakesNoList DEF ListArchives, RemoveArchive
<1>6. CASE SweepFails(c) \/ UnlistFails(c)
  BY <1>2, <1>6 DEF SweepFails, UnlistFails, Settle
<1>7. QED
  BY <1>3, <1>4, <1>5, <1>6

LEMMA StoreKeepsRead ==
  ASSUME RegionsInv, ReadInv, StoreStep
  PROVE  ReadInv'
<1>1. \A c \in calls : CallShape(c) /\ DOMAIN c = CallFields
  BY DEF RegionsInv, StoreInv, CallInv, CallShape
<1>2. /\ UNCHANGED <<manifests, issued>> /\ owed' = owed
  BY DEF StoreStep, hookVars, PutArchive, DownloadFails, ListArchives, RemoveArchive, SweepFails,
         UnlistFails, ListKeys, ReadManifest
<1>3. PICK c \in calls :
        \/ PutArchive(c) \/ DownloadFails(c)
        \/ ListArchives(c) \/ RemoveArchive(c) \/ SweepFails(c) \/ UnlistFails(c)
        \/ ListKeys(c) \/ ReadManifest(c)
  BY DEF StoreStep
<1>4. CASE \/ PutArchive(c) \/ DownloadFails(c)
           \/ ListArchives(c) \/ RemoveArchive(c) \/ SweepFails(c) \/ UnlistFails(c)
  <2>1. \A d \in calls' : d \in calls \/ d.at \notin Lists
    BY <1>1, <1>4, OthersMakeNoList
  <2>2. QED
    BY <1>2, <2>1, ReadStands
<1>5. Listed' = Listed
  BY <1>2 DEF Listed
<1>6. ASSUME NEW e, calls' = (calls \ {c}) \cup {e}, e.at = "reading",
             IsNewest(e)' /\ ~owed' =>
               e.result \subseteq Listed /\ Listed \subseteq e.result \cup e.todo
      PROVE  ReadInv'
  <2>1. ASSUME NEW d \in calls'
        PROVE  /\ d.at = "keys" => d.result = {}
               /\ d.at = "reading" /\ IsNewest(d)' /\ ~owed' =>
                    d.result \subseteq Listed' /\ Listed' \subseteq d.result \cup d.todo
    <3>1. CASE d = e
      BY <1>5, <1>6, <3>1
    <3>2. CASE d \in calls
      BY <1>2, <1>5, <3>2 DEF ReadInv, IsNewest
    <3>3. QED
      BY <1>6, <2>1, <3>1, <3>2
  <2>2. QED
    BY <2>1 DEF ReadInv
<1>7. CASE ListKeys(c)
  <2>1. c.at = "keys" /\ Move(c, "reading", Listed)
    BY <1>7 DEF ListKeys
  <2>2. PICK e : e = [c EXCEPT !.at = "reading", !.todo = Listed]
    OBVIOUS
  <2>3. e.at = "reading" /\ e.todo = Listed /\ e.result = c.result
    BY <1>1, <2>2 DEF CallFields
  <2>4. c.result = {}
    BY <2>1 DEF ReadInv
  <2>5. calls' = (calls \ {c}) \cup {e}
    BY <2>1, <2>2 DEF Move
  <2>6. e.result \subseteq Listed /\ Listed \subseteq e.result \cup e.todo
    BY <2>3, <2>4
  <2>7. QED
    BY <1>6, <2>3, <2>5, <2>6
<1>8. CASE ReadManifest(c)
  <2>0. c.at = "reading"
    BY <1>8 DEF ReadManifest
  <2>1. PICK r \in c.todo : calls' = (calls \ {c}) \cup
          {[c EXCEPT !.todo = @ \ {r}, !.result = IF r \in Listed THEN @ \cup {r} ELSE @]}
    BY <1>8 DEF ReadManifest
  <2>2. PICK e : e = [c EXCEPT !.todo = @ \ {r}, !.result = IF r \in Listed THEN @ \cup {r} ELSE @]
    OBVIOUS
  <2>3. /\ e.at = "reading" /\ e.tag = c.tag /\ e.todo = c.todo \ {r}
        /\ e.result = IF r \in Listed THEN c.result \cup {r} ELSE c.result
    BY <1>1, <2>0, <2>2 DEF CallFields
  <2>4. ASSUME IsNewest(e)', ~owed'
        PROVE  e.result \subseteq Listed /\ Listed \subseteq e.result \cup e.todo
    <3>1. c.result \subseteq Listed /\ Listed \subseteq c.result \cup c.todo
      BY <1>2, <2>0, <2>3, <2>4 DEF ReadInv, IsNewest
    <3>2. QED
      BY <2>3, <3>1
  <2>5. calls' = (calls \ {c}) \cup {e}
    BY <2>1, <2>2
  <2>6. QED
    BY <1>6, <2>3, <2>4, <2>5
<1>9. QED
  BY <1>3, <1>4, <1>7, <1>8

LEMMA RegionReadKeeps ==
  ASSUME RegionsInv, TagsInv, ReadInv, [RegionsNext]_regionsVars
  PROVE  ReadInv'
<1>1. CASE EffectRuns
  <2>1. issued' = issued + 1 /\ calls' \subseteq calls \cup {ListCall(LoadTag(FALSE))}
    BY <1>1 DEF EffectRuns, Issued, regionVars
  <2>2. QED
    BY <2>1, ReadAges
<1>2. ASSUME NEW c \in calls, MutationResolves(c) PROVE ReadInv'
  <2>1. CASE SameContext(c.tag)
    <3>1. issued' = issued + 1 /\ calls' \subseteq calls \cup {ListCall(LoadTag(c.tag.late))}
      BY <1>2, <2>1 DEF MutationResolves, PutManifest, RemoveManifest, Settle, Issued
    <3>2. QED
      BY <3>1, ReadAges
  <2>2. CASE ~SameContext(c.tag)
    <3>1. calls' \subseteq calls /\ owed'
      BY <1>2, <2>2 DEF MutationResolves, PutManifest, RemoveManifest, Settle
    <3>2. QED
      BY <3>1 DEF ReadInv
  <2>3. QED
    BY <2>1, <2>2
<1>3. CASE StoreStep
  BY <1>3, StoreKeepsRead
<1>4. CASE Reload
  BY <1>4 DEF Reload, StoreReload, ReadInv
<1>5. CASE HookDownloads \/ HookRemoves
  <2>1. PICK op, region, sources, at, todo :
          /\ calls' = calls \cup {Call(op, region, sources, at, todo, MutationTag)}
          /\ at \notin Lists
    BY <1>5 DEF HookDownloads, Download, HookRemoves, Delete, DeleteFrom, Lists
  <2>2. PICK e : e = Call(op, region, sources, at, todo, MutationTag)
    OBVIOUS
  <2>3. e.at = at
    BY <2>2, NewCall
  <2>4. UNCHANGED <<manifests, issued>> /\ owed' = owed
    BY <1>5 DEF HookDownloads, Download, HookRemoves, Delete, hookVars
  <2>5. \A d \in calls' : d \in calls \/ d.at \notin Lists
    BY <2>1, <2>2, <2>3
  <2>6. QED
    BY <2>4, <2>5, ReadStands
<1>6. CASE \/ RenderStore \/ OtherAnswers \/ UNCHANGED regionsVars
           \/ \E c \in calls : MainAnswers(c) \/ MainFails(c)
  <2>1. calls' \subseteq calls /\ UNCHANGED <<manifests, issued>> /\ owed' = owed
    BY <1>6 DEF RenderStore, OtherAnswers, MainAnswers, MainFails, ListResolves, ListFails, Settle,
                Publish, LoadFailed, regionsVars, regionVars, hookVars
  <2>2. QED
    BY <2>1, ReadStands
<1>7. QED
  BY <1>1, <1>2, <1>3, <1>4, <1>5, <1>6 DEF RegionsNext

(* A step of the store leaves each list under way, or moves it on.         *)
LEMMA StoreKeepsLists ==
  ASSUME RegionsInv, StoreStep, NEW c \in calls, c.at \in Lists
  PROVE  \E d \in calls' : d.at \in Lists /\ d.tag = c.tag
<1>1. \A e \in calls : CallShape(e) /\ DOMAIN e = CallFields
  BY DEF RegionsInv, StoreInv, CallInv, CallShape
<1>2. PICK b \in calls :
        \/ PutArchive(b) \/ DownloadFails(b)
        \/ ListArchives(b) \/ RemoveArchive(b) \/ SweepFails(b) \/ UnlistFails(b)
        \/ ListKeys(b) \/ ReadManifest(b)
  BY DEF StoreStep
<1>3. calls \ {b} \subseteq calls'
  <2>1. CASE ListArchives(b) \/ RemoveArchive(b)
    BY <1>1, <2>1, SweepMakesNoList DEF ListArchives, RemoveArchive
  <2>2. CASE PutArchive(b) \/ DownloadFails(b) \/ ListKeys(b)
    BY <2>2 DEF PutArchive, DownloadFails, Rollback, ListKeys, Move
  <2>3. CASE SweepFails(b) \/ UnlistFails(b) \/ ReadManifest(b)
    BY <2>3 DEF SweepFails, UnlistFails, ReadManifest, Settle
  <2>4. QED
    BY <1>2, <2>1, <2>2, <2>3
<1>4. CASE c # b
  BY <1>3, <1>4
<1>5. CASE c = b /\ ListKeys(b)
  <2>1. PICK e : e = [c EXCEPT !.at = "reading", !.todo = Listed]
    OBVIOUS
  <2>2. e.at = "reading" /\ e.tag = c.tag
    BY <1>1, <2>1 DEF CallFields
  <2>3. e \in calls'
    BY <1>5, <2>1 DEF ListKeys, Move
  <2>4. QED
    BY <2>2, <2>3 DEF Lists
<1>6. CASE c = b /\ ReadManifest(b)
  <2>1. PICK r \in c.todo : calls' = (calls \ {c}) \cup
          {[c EXCEPT !.todo = @ \ {r}, !.result = IF r \in Listed THEN @ \cup {r} ELSE @]}
    BY <1>6 DEF ReadManifest
  <2>2. PICK e : e = [c EXCEPT !.todo = @ \ {r}, !.result = IF r \in Listed THEN @ \cup {r} ELSE @]
    OBVIOUS
  <2>3. e.at = c.at /\ e.tag = c.tag
    BY <1>1, <2>2 DEF CallFields
  <2>4. e \in calls'
    BY <2>1, <2>2
  <2>5. QED
    BY <2>3, <2>4
<1>7. QED
  BY <1>1, <1>2, <1>4, <1>5, <1>6, OthersMakeNoList

(* The newest list is still under way and the store lists what it did.     *)
LEMMA ShownStands ==
  ASSUME ShownInv, UNCHANGED <<shown, manifests, issued>>,
         store' = "main" /\ ~effectDue' /\ ~owed' /\ ~unread' =>
           store = "main" /\ ~effectDue /\ ~owed /\ ~unread,
         \A c \in calls : IsNewest(c) => \E d \in calls' : d.at \in Lists /\ d.tag = c.tag
  PROVE  ShownInv'
<1>1. Listed' = Listed
  BY DEF Listed
<1>2. (\E c \in calls : IsNewest(c)) => (\E d \in calls' : IsNewest(d)')
  BY DEF IsNewest
<1>3. QED
  BY <1>1, <1>2 DEF ShownInv

(* A list asked for is the newest.                                         *)
LEMMA ShownIsListed ==
  ASSUME issued' = issued + 1, NEW late, ListCall(LoadTag(late)) \in calls'
  PROVE  ShownInv'
<1>1. PICK e : e = ListCall(LoadTag(late))
  OBVIOUS
<1>2. e.at = "keys" /\ e.tag = LoadTag(late)
  BY <1>1 DEF ListCall, Call
<1>3. e.tag.number = issued'
  BY <1>2 DEF LoadTag
<1>4. IsNewest(e)' /\ e \in calls'
  BY <1>1, <1>2, <1>3 DEF IsNewest, Lists
<1>5. QED
  BY <1>4 DEF ShownInv

LEMMA ShownKeeps ==
  ASSUME RegionsInv, TagsInv, ReadInv, ShownInv, [RegionsNext]_regionsVars
  PROVE  ShownInv'
<1>1. CASE RenderStore \/ Reload
  BY <1>1 DEF RenderStore, Reload, Mounted, ShownInv
<1>2. CASE EffectRuns
  <2>1. issued' = issued + 1 /\ store' = store
    BY <1>2 DEF EffectRuns, Issued
  <2>2. CASE store = "main"
    <3>1. ListCall(LoadTag(FALSE)) \in calls'
      BY <1>2, <2>2 DEF EffectRuns
    <3>2. QED
      BY <2>1, <3>1, ShownIsListed
  <2>3. CASE store # "main"
    BY <2>1, <2>3 DEF ShownInv
  <2>4. QED
    BY <2>2, <2>3
<1>3. CASE OtherAnswers
  <2>1. PICK tag \in elsewhere : Publish(tag, "other", {}) \/ LoadFailed(tag)
    BY <1>3 DEF OtherAnswers
  <2>2. UNCHANGED <<manifests, calls>>
    BY <1>3 DEF OtherAnswers, regionVars
  <2>3. UNCHANGED <<store, issued>> /\ effectDue' = effectDue /\ owed' = owed
    BY <2>1 DEF Publish, LoadFailed
  <2>4. tag.number = issued => store # "main" \/ effectDue
    BY DEF TagsInv, Rendered
  <2>5. CASE Publish(tag, "other", {}) /\ Newest(tag)
    BY <2>3, <2>4, <2>5 DEF Newest, ShownInv
  <2>6. CASE Publish(tag, "other", {}) /\ ~Newest(tag)
    <3>1. shown' = shown /\ unread' = unread
      BY <2>6 DEF Publish
    <3>2. QED
      BY <2>2, <2>3, <3>1, ShownStands DEF IsNewest
  <2>7. CASE LoadFailed(tag)
    <3>1. shown' = shown /\ (~unread' => ~unread)
      BY <2>7 DEF LoadFailed
    <3>2. QED
      BY <2>2, <2>3, <3>1, ShownStands DEF IsNewest
  <2>8. QED
    BY <2>1, <2>5, <2>6, <2>7
<1>4. CASE HookDownloads \/ HookRemoves
  <2>1. /\ calls \subseteq calls'
        /\ UNCHANGED <<manifests, shown, store, issued>>
        /\ effectDue' = effectDue /\ owed' = owed /\ unread' = unread
    BY <1>4 DEF HookDownloads, Download, HookRemoves, Delete, hookVars
  <2>2. QED
    BY <2>1, ShownStands DEF IsNewest
<1>5. ASSUME NEW c \in calls, MainAnswers(c) PROVE ShownInv'
  <2>1. /\ c.at = "reading" /\ c.todo = {} /\ calls' = calls \ {c}
        /\ UNCHANGED <<manifests, store, issued>> /\ effectDue' = effectDue /\ owed' = owed
    BY <1>5 DEF MainAnswers, ListResolves, Settle, Publish
  <2>2. Listed' = Listed
    BY <2>1 DEF Listed
  <2>3. CASE Newest(c.tag)
    <3>1. shown' = [store |-> "main", regions |-> c.result]
      BY <1>5, <2>3 DEF MainAnswers, Publish
    <3>2. ~owed => c.result = Listed
      BY <2>1, <2>3 DEF ReadInv, IsNewest, Newest, Lists
    <3>3. QED
      BY <2>1, <2>2, <3>1, <3>2 DEF ShownInv
  <2>4. CASE ~Newest(c.tag)
    <3>1. shown' = shown /\ unread' = unread
      BY <1>5, <2>4 DEF MainAnswers, Publish
    <3>2. \A b \in calls : IsNewest(b) => b \in calls'
      BY <2>1, <2>4 DEF IsNewest, Newest
    <3>3. QED
      BY <2>1, <3>1, <3>2, ShownStands DEF IsNewest
  <2>5. QED
    BY <2>3, <2>4
<1>6. ASSUME NEW c \in calls, MainFails(c) PROVE ShownInv'
  <2>1. /\ calls' = calls \ {c} /\ shown' = shown
        /\ UNCHANGED <<manifests, store, issued>> /\ effectDue' = effectDue /\ owed' = owed
    BY <1>6 DEF MainFails, ListFails, Settle, LoadFailed
  <2>2. CASE Newest(c.tag)
    <3>1. unread'
      BY <1>6, <2>2 DEF MainFails, LoadFailed
    <3>2. QED
      BY <3>1 DEF ShownInv
  <2>3. CASE ~Newest(c.tag)
    <3>1. ~unread' => ~unread
      BY <1>6 DEF MainFails, LoadFailed
    <3>2. \A b \in calls : IsNewest(b) => b \in calls'
      BY <2>1, <2>3 DEF IsNewest, Newest
    <3>3. QED
      BY <2>1, <3>1, <3>2, ShownStands DEF IsNewest
  <2>4. QED
    BY <2>2, <2>3
<1>7. ASSUME NEW c \in calls, MutationResolves(c) PROVE ShownInv'
  <2>1. CASE SameContext(c.tag)
    <3>1. issued' = issued + 1 /\ ListCall(LoadTag(c.tag.late)) \in calls'
      BY <1>7, <2>1 DEF MutationResolves, PutManifest, RemoveManifest, Settle, Issued
    <3>2. QED
      BY <3>1, ShownIsListed
  <2>2. CASE ~SameContext(c.tag)
    <3>1. owed'
      BY <1>7, <2>2 DEF MutationResolves
    <3>2. QED
      BY <3>1 DEF ShownInv
  <2>3. QED
    BY <2>1, <2>2
<1>8. CASE StoreStep
  <2>1. /\ UNCHANGED <<manifests, shown, store, issued>>
        /\ effectDue' = effectDue /\ owed' = owed /\ unread' = unread
    BY <1>8 DEF StoreStep, hookVars, PutArchive, DownloadFails, ListArchives, RemoveArchive,
                SweepFails, UnlistFails, ListKeys, ReadManifest
  <2>2. \A c \in calls : IsNewest(c) => \E d \in calls' : d.at \in Lists /\ d.tag = c.tag
    BY <1>8, StoreKeepsLists DEF IsNewest
  <2>3. QED
    BY <2>1, <2>2, ShownStands
<1>9. CASE UNCHANGED regionsVars
  <2>1. /\ UNCHANGED <<calls, manifests, shown, store, issued>>
        /\ effectDue' = effectDue /\ owed' = owed /\ unread' = unread
    BY <1>9 DEF regionsVars, regionVars, hookVars
  <2>2. QED
    BY <2>1, ShownStands DEF IsNewest
<1>10. QED
  BY <1>1, <1>2, <1>3, <1>4, <1>5, <1>6, <1>7, <1>8, <1>9 DEF RegionsNext

(* The screen of a hook at rest shows what the store lists, whatever was   *)
(* downloaded, removed and listed before, in whatever order it answered.   *)
THEOREM RegionsAreFresh == RegionsSpec => []FreshWhenQuiet
<1>1. RegionsInit => RegionsInv /\ TagsInv /\ ReadInv /\ ShownInv
  BY RegionsStart, TagsStart DEF RegionsInit, StoreInit, Mounted, ReadInv, ShownInv
<1>2. RegionsInv /\ TagsInv /\ ReadInv /\ ShownInv /\ [RegionsNext]_regionsVars
        => (RegionsInv /\ TagsInv /\ ReadInv /\ ShownInv)'
  BY RegionsKeep, TagsKeep, RegionReadKeeps, ShownKeeps
<1>3. ShownInv => FreshWhenQuiet
  BY DEF ShownInv, FreshWhenQuiet
<1> QED
  BY <1>1, <1>2, <1>3, PTL DEF RegionsSpec
=============================================================================
