------------------------------ MODULE MapMarks ------------------------------
(***************************************************************************)
(* What packages/maplibre draws of a track, its events, a draft and the    *)
(* live position (controller.ts and marks/): lines written into the        *)
(* engine's two sources, and marks that are elements of the page, which a  *)
(* keyboard user may be focused on while the next render comes.            *)
(*                                                                         *)
(* A consumer's presentation answers with a style, with nothing (no mark), *)
(* is absent (the engine's own style), or throws; a style that takes one   *)
(* of the renderer's classes throws as well.  Ids of events and of laps    *)
(* are unique.  A line is the style its segments were given.               *)
(***************************************************************************)
EXTENDS Naturals, Sequences

CONSTANTS Tracks,         \* [id, from, to, laps]
          EventLists,     \* sequences of [id, at]
          Presentations,  \* what each of a consumer's callbacks answers
          Spots,          \* where a live position may be
          MaxDraftPoints,
          Absent, Suppressed, Thrown, Nowhere

VARIABLES requested,     \* the snapshots, and the presentation
          render,    \* what was prepared from them at the call
          lines,     \* what the engine's sources hold
          placed,    \* the marks on the map, by key
          attached,  \* how many elements of each key the map holds
          focus,     \* the key of the mark that has the focus
          life       \* "waiting", "loaded", "destroyed"

markVars == <<requested, render, lines, placed, attached, focus, life>>

RendererClass == "maplibregl-marker"
WrapperClass == "mapatlas-marker"

Plain == [start |-> Absent, finish |-> Absent, lap |-> Absent, marker |-> Absent,
          trackLine |-> Absent]

(* The engine's own marks stand on their place; the live dot is centred.   *)
builtInMark(kind) ==
  [anchor |-> IF kind = "live" THEN "center" ELSE "bottom",
   classes |-> {"mapatlas-mark", kind}, says |-> kind]

(* snapshotMarkerStyle refuses the renderer's classes by throwing.         *)
Throws(answer) ==
  \/ answer = Thrown
  \/ answer \notin {Absent, Suppressed, Thrown} /\ RendererClass \in answer.classes

-----------------------------------------------------------------------------
(* Translation at the call, from the snapshots.                            *)

Mark(key, kind, at, answer) ==
  [key |-> key, at |-> at, style |-> IF answer = Absent THEN builtInMark(kind) ELSE answer]

Shown(key, kind, at, answer) ==
  IF answer = Suppressed THEN << >> ELSE <<Mark(key, kind, at, answer)>>

lapMarks(track, p) ==
  IF p.lap = Suppressed THEN << >>
  ELSE [i \in DOMAIN track.laps |->
          Mark(<<"lap", track.id, track.laps[i].id>>, "lap", track.laps[i].at, p.lap)]

trackMarks(track, p) ==
  IF track = Nowhere THEN << >>
  ELSE Shown(<<"start", track.id>>, "start", track.from, p.start)
         \o Shown(<<"finish", track.id>>, "finish", track.to, p.finish)
         \o lapMarks(track, p)

eventMarks(events, p) ==
  [i \in DOMAIN events |-> Mark(<<"event", events[i].id>>, "event", events[i].at, p.marker)]

liveMarks(at) == IF at = Nowhere THEN << >> ELSE <<Mark(<<"live">>, "live", at, Absent)>>

styledTrackLines(track, p) == IF track = Nowhere THEN << >> ELSE <<track.id, p.trackLine>>

(* One point is a vertex and no line.                                      *)
draftFeatures(n) == [vertices |-> n, line |-> n > 1]

(* The callbacks that a track, or events, make the engine call.            *)
TrackThrows(track, p) ==
  /\ track # Nowhere
  /\ \/ p.trackLine = Thrown \/ Throws(p.start) \/ Throws(p.finish)
     \/ track.laps # << >> /\ Throws(p.lap)

EventsThrow(events, p) == events # << >> /\ Throws(p.marker)

-----------------------------------------------------------------------------
(* One element.  The renderer puts its class on when the marker is made.   *)

createMarkerElement(mark) ==
  [anchor |-> mark.style.anchor, classes |-> {RendererClass}, owned |-> {},
   says |-> "", at |-> Nowhere]

(* Only the classes that it put there are taken away.                      *)
Reclassed(element, owned) == (element.classes \ (element.owned \ owned)) \cup owned

applyMarkerStyle(element, style) ==
  LET owned == {WrapperClass} \cup style.classes
  IN [element EXCEPT !.classes = Reclassed(element, owned), !.owned = owned, !.says = style.says]

Refreshed(element, mark) == [applyMarkerStyle(element, mark.style) EXCEPT !.at = mark.at]

(* An element leaves the map, and takes the focus with it.                 *)
Fewer(counts, keys) == [k \in DOMAIN counts |-> IF k \in keys THEN counts[k] - 1 ELSE counts[k]]

Unfocused(key, keys) == IF key \in keys THEN Nowhere ELSE key

With(elements, key, element) ==
  [k \in DOMAIN elements \cup {key} |-> IF k = key THEN element ELSE elements[k]]

(* d holds the marks that were there and are not yet looked at, those that *)
(* are placed, the map's elements and the focus.                           *)
LookedAt(d, key) == [d EXCEPT !.old = [k \in DOMAIN @ \ {key} |-> @[k]]]

Dropped(d, key) ==
  [d EXCEPT !.attached = Fewer(@, {key}), !.focus = Unfocused(@, {key})]

Anew(d, mark) ==
  [d EXCEPT !.attached[mark.key] = @ + 1,
            !.next = With(@, mark.key, Refreshed(createMarkerElement(mark), mark))]

(* The renderer fixes an anchor when the marker is made.                   *)
Reuses(element, mark) == element.anchor = mark.style.anchor

place(d, mark) ==
  IF mark.key \notin DOMAIN d.old THEN Anew(d, mark)
  ELSE LET existing == d.old[mark.key]
       IN IF Reuses(existing, mark)
          THEN [LookedAt(d, mark.key) EXCEPT !.next = With(@, mark.key, Refreshed(existing, mark))]
          ELSE Anew(Dropped(LookedAt(d, mark.key), mark.key), mark)

Marks(r) == r.trackMarks \o r.eventMarks \o liveMarks(r.live)

(* Every mark is looked at in order.                                       *)
Placing(begun, marks) ==
  LET looked[i \in 0..Len(marks)] == IF i = 0 THEN begun ELSE place(looked[i - 1], marks[i])
  IN looked[Len(marks)]

(* Lines first, then the marks, then what was not looked at goes.          *)
applyRender(r) ==
  LET begun == [old |-> placed, next |-> << >>, attached |-> attached, focus |-> focus]
      done == Placing(begun, Marks(r))
  IN /\ lines' = [track |-> r.track, draft |-> r.draft]
     /\ placed' = done.next
     /\ attached' = Fewer(done.attached, DOMAIN done.old)
     /\ focus' = Unfocused(done.focus, DOMAIN done.old)

(* prepareRender: kept, and applied if the map can take it.                *)
prepareRender(r) ==
  /\ render' = r
  /\ IF life = "loaded" THEN applyRender(r) ELSE UNCHANGED <<lines, placed, attached, focus>>
  /\ UNCHANGED life

-----------------------------------------------------------------------------
KeysOf(tracks, lists) ==
  {<<"live">>}
    \cup (UNION {{<<"start", t.id>>, <<"finish", t.id>>}
                  \cup {<<"lap", t.id, t.laps[i].id>> : i \in DOMAIN t.laps} : t \in tracks})
    \cup (UNION {{<<"event", events[i].id>> : i \in DOMAIN events} : events \in lists})

Unique(list) ==
  /\ list \in Seq({list[i] : i \in DOMAIN list})
  /\ \A i, j \in DOMAIN list : list[i].id = list[j].id => i = j

(* A mark of an event cannot be suppressed.                                *)
ASSUME MapMarksAssumption ==
  /\ \A track \in Tracks : Unique(track.laps)
  /\ \A events \in EventLists : Unique(events)
  /\ \A p \in Presentations : p.marker # Suppressed
  /\ Absent # Suppressed /\ Absent # Thrown /\ Suppressed # Thrown
  /\ Nowhere \notin Tracks /\ Nowhere \notin KeysOf(Tracks, EventLists)

EmptyRender == [track |-> << >>, draft |-> draftFeatures(0),
                trackMarks |-> << >>, eventMarks |-> << >>, live |-> Nowhere]

MarksInit ==
  /\ \E p \in Presentations \cup {Plain} :
       requested = [track |-> Nowhere, events |-> << >>, draft |-> 0, presentation |-> p]
  /\ render = EmptyRender /\ lines = [track |-> << >>, draft |-> draftFeatures(0)]
  /\ placed = << >> /\ attached = [k \in KeysOf(Tracks, EventLists) |-> 0]
  /\ focus = Nowhere /\ life = "waiting"

(* A callback that throws leaves everything as it was.                     *)
renderTrack(track) ==
  /\ life # "destroyed" /\ ~TrackThrows(track, requested.presentation)
  /\ requested' = [requested EXCEPT !.track = track]
  /\ prepareRender([render EXCEPT !.track = styledTrackLines(track, requested.presentation),
                                  !.trackMarks = trackMarks(track, requested.presentation)])

renderEvents(events) ==
  /\ life # "destroyed" /\ ~EventsThrow(events, requested.presentation)
  /\ requested' = [requested EXCEPT !.events = events]
  /\ prepareRender([render EXCEPT !.eventMarks = eventMarks(events, requested.presentation)])

(* All of it is translated again before any of it is kept.                 *)
setPresentation(p) ==
  /\ life # "destroyed" /\ ~TrackThrows(requested.track, p) /\ ~EventsThrow(requested.events, p)
  /\ requested' = [requested EXCEPT !.presentation = p]
  /\ prepareRender([render EXCEPT !.track = styledTrackLines(requested.track, p),
                                  !.trackMarks = trackMarks(requested.track, p),
                                  !.eventMarks = eventMarks(requested.events, p)])

renderDraft(n) ==
  /\ life # "destroyed"
  /\ requested' = [requested EXCEPT !.draft = n]
  /\ prepareRender([render EXCEPT !.draft = draftFeatures(n)])

showLivePosition(at) ==
  /\ life # "destroyed"
  /\ prepareRender([render EXCEPT !.live = at]) /\ UNCHANGED requested

(* The style loads, or the stack of sources is replaced.                   *)
MarksReapplied ==
  /\ life # "destroyed" /\ life' = "loaded"
  /\ applyRender(render)
  /\ UNCHANGED <<requested, render>>

(* Someone moves the focus to a mark, or away from the marks.              *)
FocusMoves(key) ==
  /\ key = Nowhere \/ key \in DOMAIN placed
  /\ focus' = key
  /\ UNCHANGED <<requested, render, lines, placed, attached, life>>

(* Marks are elements outside the map, and are taken away one by one.      *)
DestroyMarks ==
  /\ life # "destroyed" /\ life' = "destroyed"
  /\ attached' = Fewer(attached, DOMAIN placed)
  /\ placed' = << >> /\ focus' = Unfocused(focus, DOMAIN placed)
  /\ UNCHANGED <<requested, render, lines>>

MarksNext ==
  \/ \E track \in Tracks \cup {Nowhere} : renderTrack(track)
  \/ \E events \in EventLists : renderEvents(events)
  \/ \E p \in Presentations \cup {Plain} : setPresentation(p)
  \/ \E n \in 0..MaxDraftPoints : renderDraft(n)
  \/ \E at \in Spots \cup {Nowhere} : showLivePosition(at)
  \/ MarksReapplied
  \/ \E key \in DOMAIN placed \cup {Nowhere} : FocusMoves(key)
  \/ DestroyMarks

MarksSpec == MarksInit /\ [][MarksNext]_markVars

-----------------------------------------------------------------------------
(* What a track, its events and a presentation ask for, said once: where   *)
(* each mark stands and how it looks.                                      *)
StyleAsked(kind, answer) == IF answer = Absent THEN builtInMark(kind) ELSE answer

MarksAsked ==
  LET p == requested.presentation
      t == requested.track
      ends == IF t = Nowhere THEN {}
              ELSE {<<<<"start", t.id>>, "start", t.from, p.start>>,
                    <<<<"finish", t.id>>, "finish", t.to, p.finish>>}
      laps == IF t = Nowhere THEN {}
              ELSE {<<<<"lap", t.id, t.laps[i].id>>, "lap", t.laps[i].at, p.lap>> : i \in DOMAIN t.laps}
      list == requested.events
      events == {<<<<"event", list[i].id>>, "event", list[i].at, p.marker>> : i \in DOMAIN list}
      live == IF render.live = Nowhere THEN {} ELSE {<<<<"live">>, "live", render.live, Absent>>}
  IN {m \in ends \cup laps \cup events \cup live : m[4] # Suppressed}

(* Whatever was rendered, presented and moved before, and whatever call a  *)
(* consumer's callback refused, a loaded map holds one element for every   *)
(* mark that its last accepted requests ask for and no other; each stands  *)
(* where they say with the classes they say, and with the renderer's own.  *)
(* The sources hold the lines of the same requests.  A destroyed           *)
(* controller leaves no element behind.                                    *)
MarksAreAsked ==
  /\ life = "loaded" =>
       /\ DOMAIN placed = {m[1] : m \in MarksAsked}
       /\ \A m \in MarksAsked :
            LET element == placed[m[1]]
                style == StyleAsked(m[2], m[4])
            IN /\ element.at = m[3] /\ element.anchor = style.anchor /\ element.says = style.says
               /\ element.classes = {RendererClass, WrapperClass} \cup style.classes
       /\ lines = [track |-> IF requested.track = Nowhere THEN << >>
                             ELSE <<requested.track.id, requested.presentation.trackLine>>,
                   draft |-> draftFeatures(requested.draft)]
  /\ \A k \in DOMAIN attached : attached[k] = IF k \in DOMAIN placed THEN 1 ELSE 0

(* "Reuse keeps focus": a mark that has the focus keeps it through every   *)
(* render that still asks for it with the anchor it has; only a render     *)
(* that drops it or anchors it elsewhere takes the focus away.             *)
StillAsked(key) ==
  \E m \in MarksAsked' : m[1] = key /\ StyleAsked(m[2], m[4]).anchor = placed[key].anchor

FocusStays ==
  [][ /\ focus # Nowhere /\ StillAsked(focus)
      /\ life' = "loaded" /\ (render' # render \/ life' # life)
      => focus' = focus ]_markVars
=============================================================================
