------------------------------- MODULE EventLog -------------------------------
(***************************************************************************)
(* The event log (packages/core/src/event-log.ts) over the IndexedDB       *)
(* adapter.  add and remove are one call of the adapter; update reads the  *)
(* event in one call and saves it in another.                              *)
(***************************************************************************)
EXTENDS IdbStorage

VARIABLES
  named,    \* event ids newId has returned
  updating  \* callers whose saveEvent is the second half of an update

logVars == <<vars, named, updating>>

LogInit == Init /\ named = {} /\ updating = {}

(* add: a new id, and saveEvent.                                           *)
Add(c) ==
  \E e \in EventRow :
    /\ e.id \notin named
    /\ e.media \subseteq minted
    /\ Request(c, "saveEvent", e)
    /\ named' = named \cup {e.id}
    /\ UNCHANGED <<minted, updating>>

(* No open transaction that writes events keeps a read of them waiting.    *)
EventsReadable ==
  \A d \in Clients : call[d].phase = "open" => "events" \notin Scope[call[d].op]

(* update: getEvent finds the event, and saveEvent is called; when it does *)
(* not, EventNotFoundError is thrown and nothing changes.                  *)
Update(c) ==
  \E e \in EventRow :
    /\ EventsReadable
    /\ WithId(events, e.id) # {}
    /\ e.media \subseteq minted
    /\ Request(c, "saveEvent", e)
    /\ updating' = updating \cup {c}
    /\ UNCHANGED <<minted, named>>

Remove(c) ==
  \E id \in named :
    /\ Request(c, "deleteEvent", id)
    /\ UNCHANGED <<minted, named, updating>>

LogNext ==
  \E c \in Clients :
    \/ Add(c) \/ Update(c) \/ Remove(c)
    \/ RequestPutBlob(c) /\ UNCHANGED <<named, updating>>
    \/ RequestTrack(c) /\ UNCHANGED <<named, updating>>
    \/ Begin(c) /\ UNCHANGED <<named, updating>>
    \/ (Commit(c) \/ Abort(c)) /\ updating' = updating \ {c} /\ UNCHANGED named

LogSpec == LogInit /\ [][LogNext]_logVars

(* update: "rejects if it is not there - a silent insert would hide a      *)
(* bug": what it saves replaces an event the store holds.                  *)
UpdateNeverInserts ==
  [][\A c \in updating : CommitSaveEvent(c) => WithId(events, call[c].on.id) # {}]_logVars
=============================================================================
