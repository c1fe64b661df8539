------------------------------ MODULE DemoLoop ------------------------------
(***************************************************************************)
(* The demo's trip loop, apps/demo/src/app/loop.tsx, and the drawing flow  *)
(* it mounts, authoring.tsx: a trip is recorded or drawn, events are put   *)
(* on it through a composer, and finishing it binds them to its id and     *)
(* opens it for review.  The handlers are async and take the lists, ids    *)
(* and context of the render that made them; React renders between any two *)
(* of their steps.                                                         *)
(*                                                                         *)
(* The recorder, the draft, the composer and the event log are modules of  *)
(* their own: here a call of theirs succeeds or fails.  A trip is the      *)
(* number of its recording or of its drawing; trip 0 was stored before.    *)
(***************************************************************************)
EXTENDS Integers, FiniteSets

CONSTANTS MaxRecordings,  \* bound: recordings started
          MaxDrawings,    \* bound: drawings begun
          MaxEvents,      \* bound: events handed over
          MaxOpenings,    \* bound: trips opened from the list
          MaxHandlers     \* bound: handlers under way at once

ASSUME DemoLoopAssumption ==
  {MaxRecordings, MaxDrawings, MaxEvents, MaxOpenings, MaxHandlers} \subseteq Nat

VARIABLES
  recording,   \* the hook's status is recording or paused
  recordings,  \* recordings started; the newest is the trip recorded
  handlers,    \* the async handlers under way
  reviewing,   \* the trip under review, or NoTrip
  authoring,
  drawings,    \* drawings begun; the newest is mounted if authoring
  pinned,      \* flows whose pinAt is set
  sealed,      \* flows whose composer has handed its event over
  writesOpen,
  writtenIds,  \* [flow -> ids]: sessionIds and pendingIds
  stored,      \* events in the store: [id, trip]
  shownEvents, \* [flow -> events]: the list of its event log
  eventsDue,   \* flows whose log is reading a context it was just given
  counts,      \* [events, openings]
  belongs,     \* [id -> trip]: of the events whose save was reported
  finished,    \* trips that were finished and put up for review
  disturbed    \* trips another handler came across, see below

loopVars == <<recording, recordings, handlers, reviewing, authoring, drawings, pinned, sealed,
              writesOpen, writtenIds, stored, shownEvents, eventsDue, counts, belongs, finished, disturbed>>

NoTrip == -1
Flows == {"loop", "author"}
Recorded == recordings
Drawn == MaxRecordings + drawings
TripOf(f) == IF f = "loop" THEN Recorded ELSE Drawn

LoopInit ==
  /\ recording = FALSE /\ recordings = 0
  /\ handlers = {}
  /\ reviewing = NoTrip
  /\ authoring = FALSE /\ drawings = 0
  /\ pinned = {} /\ sealed = {}
  /\ writesOpen = 0
  /\ writtenIds = [f \in Flows |-> {}]
  /\ stored = {}
  /\ shownEvents = [f \in Flows |-> {}]
  /\ eventsDue = {"loop"}
  /\ counts = [events |-> 0, openings |-> 0]
  /\ belongs = <<>>
  /\ finished = {} /\ disturbed = {}

-----------------------------------------------------------------------------
(* What is rendered.                                                       *)

composable == recording /\ reviewing = NoTrip

ComposerShown(f) == f \in pinned /\ IF f = "loop" THEN composable ELSE authoring

MapTakesPins(f) == IF f = "loop" THEN composable /\ ~authoring ELSE authoring

(* Mutated: neither a composer nor a write holds the trip back.            *)
FinalizableAtOnce == recording

finalizable == recording /\ "loop" \notin pinned /\ writesOpen = 0

reviewEvents == {e \in shownEvents["loop"] : reviewing # NoTrip /\ e.trip = reviewing}

(* What a list of a context holds.                                         *)
EventsOf(trip) == IF trip = NoTrip THEN stored ELSE {e \in stored : e.trip = trip}

(* A handler may begin.                                                    *)
Free == Cardinality(handlers) < MaxHandlers

Of(kind) == {h \in handlers : h.kind = kind}

(* The drawing a handler was begun in is still mounted: what a handler of  *)
(* one that is not sets is lost.                                           *)
StillMounted(h) == h.flow = "loop" \/ (authoring /\ h.trip = Drawn)

(* Review another trip, or none: the loop's log is given another context.  *)
Review(trip) ==
  /\ reviewing' = trip
  /\ eventsDue' = IF trip = reviewing THEN eventsDue ELSE eventsDue \cup {"loop"}

(* A recording that a review, or a drawing, is put in front of.            *)
Crossed == IF recording THEN {Recorded} ELSE {}

-----------------------------------------------------------------------------
(* Recording.  pause and resume keep everything here.                      *)

Start ==
  /\ ~recording /\ recordings < MaxRecordings
  /\ Free /\ Of("start") = {}
  /\ handlers' = handlers \cup {[kind |-> "start", flow |-> "loop"]}
  /\ authoring' = FALSE
  /\ pinned' = pinned \ {"author"}
  /\ Review(NoTrip)
  /\ writtenIds' = [writtenIds EXCEPT !["loop"] = {}]
  /\ UNCHANGED <<recording, recordings, drawings, writesOpen, stored, shownEvents,
                 counts, belongs, finished, disturbed>>

StartSettles(h) ==
  /\ h.kind = "start"
  /\ handlers' = handlers \ {h}
  /\ \/ recording' = TRUE /\ recordings' = recordings + 1
     \/ UNCHANGED <<recording, recordings>>
  /\ UNCHANGED <<reviewing, authoring, drawings, pinned, writesOpen, writtenIds, stored, shownEvents,
                 eventsDue, counts, belongs, finished, disturbed>>

(* stop and the drawing's save: finish the trip, bind the events that the  *)
(* render's list and ids name, put the trip up for review.                 *)
FinishTrip(f) ==
  /\ IF f = "loop" THEN finalizable
                   ELSE authoring /\ {h \in Of("finish") : h.flow = f /\ StillMounted(h)} = {}
  /\ Free
  /\ handlers' = handlers \cup
       {[kind |-> "finish", flow |-> f, trip |-> TripOf(f), stage |-> "finishing", context |-> reviewing,
         left |-> {e \in shownEvents[f] : e.id \in writtenIds[f]}]}
  /\ disturbed' = IF f = "author" /\ \E h \in Of("save") : h.flow = f
                    THEN disturbed \cup {TripOf(f)} ELSE disturbed
  /\ UNCHANGED <<recording, recordings, reviewing, authoring, drawings, pinned, writesOpen, writtenIds,
                 stored, shownEvents, eventsDue, counts, belongs, finished>>

TripFinished(h) ==
  /\ h.kind = "finish" /\ h.stage = "finishing"
  /\ handlers' = (handlers \ {h}) \cup {[h EXCEPT !.stage = "binding"]}
  /\ recording' = (recording /\ h.trip # Recorded)
  /\ UNCHANGED <<recordings, reviewing, authoring, drawings, pinned, writesOpen, writtenIds, stored,
                 shownEvents, eventsDue, counts, belongs, finished, disturbed>>

(* updateEvent stores the copy of the render's list under the trip's id    *)
(* and lists again what that render's context holds.                       *)
BindEvent(h, e) ==
  /\ h.kind = "finish" /\ h.stage = "binding" /\ e \in h.left
  /\ handlers' = (handlers \ {h}) \cup {[h EXCEPT !.left = @ \ {e}]}
  /\ stored' = {s \in stored : s.id # e.id} \cup {[e EXCEPT !.trip = h.trip]}
  /\ shownEvents' = IF StillMounted(h) THEN [shownEvents EXCEPT ![h.flow] = IF h.flow = "loop" THEN EventsOf(h.context)' ELSE stored']
                                  ELSE shownEvents
  /\ UNCHANGED <<recording, recordings, reviewing, authoring, drawings, pinned, writesOpen, writtenIds,
                 eventsDue, counts, belongs, finished, disturbed>>

BoundAll(h) == h.stage = "binding" /\ h.left = {}

(* stop's last lines; for a drawing, onSaved and the loop's authored().    *)
ReviewFinished(h) ==
  /\ h.kind = "finish" /\ BoundAll(h)
  /\ handlers' = handlers \ {h}
  /\ Review(h.trip)
  /\ finished' = finished \cup {h.trip}
  /\ IF h.flow = "loop"
       THEN UNCHANGED <<authoring, pinned, writtenIds>>
       ELSE /\ authoring' = FALSE
            /\ pinned' = pinned \ {"author"}
            /\ writtenIds' = [writtenIds EXCEPT !["loop"] = {}]
  /\ disturbed' = disturbed \cup Crossed
  /\ UNCHANGED <<recording, recordings, drawings, writesOpen, stored, shownEvents, counts, belongs>>

(* Any step of it is rejected: a drawing stays open to be saved again.     *)
FinishFails(h) ==
  /\ h.kind = "finish"
  /\ handlers' = handlers \ {h}
  /\ UNCHANGED <<recording, recordings, reviewing, authoring, drawings, pinned, writesOpen, writtenIds,
                 stored, shownEvents, eventsDue, counts, belongs, finished, disturbed>>

-----------------------------------------------------------------------------
(* Events: a tap opens a composer, which hands its event over once.        *)

Pin(f) ==
  /\ MapTakesPins(f)
  /\ pinned' = pinned \cup {f}
  /\ UNCHANGED <<recording, recordings, handlers, reviewing, authoring, drawings, writesOpen, writtenIds,
                 stored, shownEvents, eventsDue, counts, belongs, finished, disturbed>>

CancelPin(f) ==
  /\ ComposerShown(f) /\ f \notin sealed
  /\ pinned' = pinned \ {f}
  /\ UNCHANGED <<recording, recordings, handlers, reviewing, authoring, drawings, writesOpen, writtenIds,
                 stored, shownEvents, eventsDue, counts, belongs, finished, disturbed>>

HandOver(f) ==
  /\ ComposerShown(f) /\ f \notin sealed
  /\ Free /\ counts.events < MaxEvents
  /\ counts' = [counts EXCEPT !.events = @ + 1]
  /\ handlers' = handlers \cup
       {[kind |-> "save", flow |-> f, trip |-> TripOf(f), stage |-> "adding", id |-> counts.events + 1,
         context |-> reviewing]}
  /\ writesOpen' = IF f = "loop" THEN writesOpen + 1 ELSE writesOpen
  /\ disturbed' = IF \E h \in Of("finish") : h.flow = f THEN disturbed \cup {TripOf(f)} ELSE disturbed
  /\ UNCHANGED <<recording, recordings, reviewing, authoring, drawings, pinned, writtenIds, stored,
                 shownEvents, eventsDue, belongs, finished>>

EventAdded(h) ==
  /\ h.kind = "save" /\ h.stage = "adding"
  /\ handlers' = (handlers \ {h}) \cup {[h EXCEPT !.stage = "listing"]}
  /\ stored' = stored \cup {[id |-> h.id, trip |-> NoTrip]}
  /\ UNCHANGED <<recording, recordings, reviewing, authoring, drawings, pinned, writesOpen, writtenIds,
                 shownEvents, eventsDue, counts, belongs, finished, disturbed>>

(* The finally clause, which closes the composition and the write.         *)
Settled(h) ==
  /\ handlers' = handlers \ {h}
  /\ pinned' = IF StillMounted(h) THEN pinned \ {h.flow} ELSE pinned
  /\ writesOpen' = IF h.flow = "loop" THEN writesOpen - 1 ELSE writesOpen

(* What the list of its flow holds once addEvent has listed again, which   *)
(* it leaves to the next context if there is one by then; a context left   *)
(* and come back to is listed anew anyway.                                 *)
Relisted(h) ==
  IF h.flow = "author" THEN stored
  ELSE IF h.context = reviewing THEN EventsOf(reviewing) ELSE shownEvents["loop"]

SaveSettles(h) ==
  /\ h.kind = "save" /\ h.stage = "listing"
  /\ Settled(h)
  /\ belongs' = [i \in DOMAIN belongs \cup {h.id} |-> IF i = h.id THEN h.trip ELSE belongs[i]]
  /\ IF StillMounted(h)
       THEN /\ writtenIds' = [writtenIds EXCEPT ![h.flow] = @ \cup {h.id}]
            /\ shownEvents' = [shownEvents EXCEPT ![h.flow] = Relisted(h)]
       ELSE UNCHANGED <<writtenIds, shownEvents>>
  /\ UNCHANGED <<recording, recordings, reviewing, authoring, drawings, stored, eventsDue, counts,
                 finished, disturbed>>

(* The add or the list is rejected: the event's photos are given back, one *)
(* more call, and then the same clause runs.                               *)
SaveFails(h) ==
  /\ h.kind = "save" /\ h.stage \in {"adding", "listing"}
  /\ handlers' = (handlers \ {h}) \cup {[h EXCEPT !.stage = "releasing"]}
  /\ UNCHANGED <<recording, recordings, reviewing, authoring, drawings, pinned, writesOpen, writtenIds, stored,
                 shownEvents, eventsDue, counts, belongs, finished, disturbed>>

MediaReleased(h) ==
  /\ h.kind = "save" /\ h.stage = "releasing"
  /\ Settled(h)
  /\ UNCHANGED <<recording, recordings, reviewing, authoring, drawings, writtenIds, stored, shownEvents,
                 eventsDue, counts, belongs, finished, disturbed>>

-----------------------------------------------------------------------------
(* Drawing a trip, and opening one from the list.                          *)

AuthorStart ==
  /\ ~recording /\ ~authoring /\ drawings < MaxDrawings
  /\ authoring' = TRUE
  /\ drawings' = drawings + 1
  /\ reviewing' = NoTrip
  /\ writtenIds' = [writtenIds EXCEPT !["author"] = {}]
  /\ shownEvents' = [shownEvents EXCEPT !["author"] = {}]
  /\ eventsDue' = eventsDue \cup {"author"} \cup IF reviewing = NoTrip THEN {} ELSE {"loop"}
  /\ UNCHANGED <<recording, recordings, handlers, pinned, writesOpen, stored, counts, belongs, finished, disturbed>>

AuthorCancel ==
  /\ authoring
  /\ authoring' = FALSE
  /\ pinned' = pinned \ {"author"}
  /\ UNCHANGED <<recording, recordings, handlers, reviewing, drawings, writesOpen, writtenIds, stored,
                 shownEvents, eventsDue, counts, belongs, finished, disturbed>>

OpenTrip(t) ==
  /\ t \in finished \cup {0}
  /\ Free /\ counts.openings < MaxOpenings
  /\ counts' = [counts EXCEPT !.openings = @ + 1]
  /\ handlers' = handlers \cup {[kind |-> "open", flow |-> "loop", trip |-> t]}
  /\ UNCHANGED <<recording, recordings, reviewing, authoring, drawings, pinned, writesOpen, writtenIds,
                 stored, shownEvents, eventsDue, belongs, finished, disturbed>>

TripOpened(h) ==
  /\ h.kind = "open"
  /\ handlers' = handlers \ {h}
  /\ writtenIds' = [writtenIds EXCEPT !["loop"] = {}]
  /\ Review(h.trip)
  /\ disturbed' = disturbed \cup Crossed
  /\ UNCHANGED <<recording, recordings, authoring, drawings, pinned, writesOpen, stored, shownEvents,
                 counts, belongs, finished>>

(* It is no longer stored, or cannot be read.                              *)
TripNotOpened(h) ==
  /\ h.kind = "open"
  /\ handlers' = handlers \ {h}
  /\ UNCHANGED <<recording, recordings, reviewing, authoring, drawings, pinned, writesOpen, writtenIds, stored,
                 shownEvents, eventsDue, counts, belongs, finished, disturbed>>

(* The list a new context asked for, which may fail and leave the old one. *)
EventsListed(f) ==
  /\ f \in eventsDue
  /\ eventsDue' = eventsDue \ {f}
  /\ \/ shownEvents' = [shownEvents EXCEPT ![f] = IF f = "loop" THEN EventsOf(reviewing) ELSE stored]
     \/ UNCHANGED shownEvents
  /\ UNCHANGED <<recording, recordings, handlers, reviewing, authoring, drawings, pinned, writesOpen,
                 writtenIds, stored, counts, belongs, finished, disturbed>>

-----------------------------------------------------------------------------
(* A composer that is not rendered is unmounted, with its seal.            *)
StillSealed(flows) == {f \in flows : ComposerShown(f)'}

LoopNext ==
  \/ \E f \in Flows : HandOver(f) /\ sealed' = StillSealed(sealed \cup {f})
  \/ /\ \/ Start \/ AuthorStart \/ AuthorCancel
        \/ \E f \in Flows : FinishTrip(f) \/ Pin(f) \/ CancelPin(f) \/ EventsListed(f)
        \/ \E t \in finished \cup {0} : OpenTrip(t)
        \/ \E h \in handlers :
             \/ StartSettles(h) \/ TripFinished(h) \/ ReviewFinished(h) \/ FinishFails(h)
             \/ EventAdded(h) \/ SaveSettles(h) \/ SaveFails(h) \/ MediaReleased(h)
             \/ TripOpened(h) \/ TripNotOpened(h)
             \/ h.kind = "finish" /\ \E e \in h.left : BindEvent(h, e)
     /\ sealed' = StillSealed(sealed)

LoopSpec == LoopInit /\ [][LoopNext]_loopVars

-----------------------------------------------------------------------------
(* Properties.                                                             *)

(* stop, save and the drawing's save: an event the loop reported as saved  *)
(* is bound to the trip it was put on by the time that trip is up for      *)
(* review.  Exempt is a trip with an event handed over while its finish    *)
(* was under way or, in a drawing, finished while its event was written,   *)
(* and one recorded behind a review.                                       *)
EventsFollowTheirTrip ==
  \A i \in DOMAIN belongs :
    belongs[i] \in finished \ disturbed => [id |-> i, trip |-> belongs[i]] \in stored

(* reviewEvents against a list that lags its context or is of another one: *)
(* the review shows, and its export holds, events bound to its trip only.  *)
ReviewIsOfItsTrip == reviewEvents \subseteq EventsOf(reviewing)

LoopKeepsEvents == EventsFollowTheirTrip /\ ReviewIsOfItsTrip

(* save's comment: a recording with nothing under way can be finished, or  *)
(* the composer that holds it back is on the screen to be finished first.  *)
RecordingHasAnExit ==
  recording /\ handlers = {} => finalizable \/ ComposerShown("loop")
=============================================================================
