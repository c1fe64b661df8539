----------------------------- MODULE MapDrawing -----------------------------
(***************************************************************************)
(* A draw-mode session of packages/maplibre/src/controller/draw-mode.ts:   *)
(* the gesture in flight, the map's panning it borrows while a vertex is   *)
(* dragged, and what a press, a move, a release, a cancellation and a      *)
(* click make of them.  The keyboard layer shares no state with the        *)
(* gesture: see DrawKeyboard.                                              *)
(*                                                                         *)
(* And a host that edits a draft by drawing: the handlers it gives draw    *)
(* mode edit the draft, its own controls do too, and it renders the draft  *)
(* into the map some time later.  A place on the map is the index of the   *)
(* vertex painted there, or Empty.  `painted` is how many vertices the map *)
(* shows; hit tests answer from it, so an index may be stale when it is    *)
(* used.                                                                   *)
(***************************************************************************)
EXTENDS Draft

CONSTANTS NoGesture,      \* model value
          MaxSessions,    \* bound: sessions ever entered
          MaxFingers      \* bound: pointers down at once

(* The placeholder is no gesture.                                          *)
ASSUME GestureAssumption == NoGesture \notin [index : Nat, moved : BOOLEAN]

Empty == 0

VARIABLES
  session,              \* number of the live session, 0 for none
  entered,              \* sessions ever entered
  gesture,              \* NoGesture or [index, moved]
  panningWasEnabled,    \* "null", or what panning was before it was borrowed
  pan,                  \* the map's dragPan
  panSet,               \* what the map's owner last set dragPan to
  fingers,              \* pointers down
  click,                \* the renderer's: "none", "down" for a press that may
                        \* become a click, "due" once it is released
  pressed               \* the session whose vertex the last press was on, or 0

drawVars ==
  <<session, entered, gesture, panningWasEnabled, pan, panSet, fingers, click, pressed>>

Panning == {"enabled", "disabled"}

DrawInit ==
  /\ session = 0 /\ entered = 0
  /\ gesture = NoGesture
  /\ panningWasEnabled = "null"
  /\ pan \in Panning /\ panSet = pan
  /\ fingers = 0
  /\ click = "none"
  /\ pressed = 0

Borrowed == panningWasEnabled # "null"

(* releaseDrag: given back as found, and a no-op with nothing borrowed.    *)
ReleaseDrag ==
  /\ pan' = IF panningWasEnabled = "enabled" THEN "enabled" ELSE pan
  /\ panningWasEnabled' = "null"

-----------------------------------------------------------------------------
(* startDrawMode, and the exit it returns.                                 *)

Enter ==
  /\ session = 0 /\ entered < MaxSessions
  /\ entered' = entered + 1
  /\ session' = entered'
  /\ gesture' = NoGesture
  /\ UNCHANGED <<panningWasEnabled, pan, panSet, fingers, click, pressed>>

Exit ==
  /\ session # 0
  /\ session' = 0
  /\ gesture' = NoGesture
  /\ ReleaseDrag
  /\ UNCHANGED <<entered, panSet, fingers, click, pressed>>

-----------------------------------------------------------------------------
(* The listeners of a session.                                             *)

(* Mutated: a press on empty map returns before the drag is released.      *)
OnStartTestsFirst(at) ==
  IF at = Empty
    THEN gesture' = NoGesture /\ UNCHANGED <<panningWasEnabled, pan>>
    ELSE /\ gesture' = [index |-> at, moved |-> FALSE]
         /\ panningWasEnabled' = IF panningWasEnabled = "enabled" THEN "enabled" ELSE pan
         /\ pan' = "disabled"

(* onStart: the last gesture is dropped and its drag released before the   *)
(* hit test; a press on a vertex borrows panning as it then is.            *)
OnStart(at) ==
  IF at = Empty
    THEN gesture' = NoGesture /\ ReleaseDrag
    ELSE /\ gesture' = [index |-> at, moved |-> FALSE]
         /\ panningWasEnabled' = IF panningWasEnabled = "enabled" THEN "enabled" ELSE pan
         /\ pan' = "disabled"

(* Mutated: the gesture is cleared with the drag.                          *)
OnEndForgets == ReleaseDrag /\ gesture' = NoGesture

(* onEnd: the drag is released, the gesture waits for a click.             *)
OnEnd == ReleaseDrag /\ UNCHANGED gesture

(* The map's pointer events.  A click follows a press that was the only    *)
(* one, was released and was not taken away; it may also never come, after *)
(* a press that travelled.                                                 *)
Press(at) ==
  /\ fingers < MaxFingers
  /\ fingers' = fingers + 1
  /\ click' = IF fingers = 0 THEN "down" ELSE "none"
  /\ IF session # 0
       THEN OnStart(at) /\ pressed' = IF at = Empty THEN 0 ELSE session
       ELSE pressed' = 0 /\ UNCHANGED <<gesture, panningWasEnabled, pan>>
  /\ UNCHANGED <<session, entered, panSet>>

(* mouseup and touchend reach the document's listener while a drag is on.  *)
Release ==
  /\ fingers > 0
  /\ fingers' = fingers - 1
  /\ click' = IF click = "down" THEN "due" ELSE click
  /\ IF Borrowed THEN OnEnd ELSE UNCHANGED <<gesture, panningWasEnabled, pan>>
  /\ UNCHANGED <<session, entered, panSet, pressed>>

(* touchcancel: the platform takes every touch away.                       *)
Cancel ==
  /\ fingers > 0
  /\ fingers' = 0
  /\ click' = "none"
  /\ IF Borrowed THEN OnEnd ELSE UNCHANGED <<gesture, panningWasEnabled, pan>>
  /\ UNCHANGED <<session, entered, panSet, pressed>>

(* onMove, up to the handler; a handler that throws ends the drag.         *)
MoveBegins ==
  /\ Borrowed
  /\ gesture # NoGesture
  /\ gesture' = [gesture EXCEPT !.moved = TRUE]
  /\ UNCHANGED <<session, entered, panSet, fingers, click, pressed>>

(* activateVertex at a place: the vertex whose click handler runs, if any, *)
(* and whether the click was taken.                                        *)
Clicked(at) ==
  IF gesture = NoGesture THEN {at} \ {Empty}
  ELSE IF gesture.moved THEN {} ELSE {gesture.index}

Taken(at) == gesture # NoGesture \/ at # Empty

(* A click of the renderer's, up to the handlers.                          *)
ClickBegins ==
  /\ session # 0
  /\ click = "due"
  /\ click' = "none"
  /\ gesture' = NoGesture
  /\ UNCHANGED <<session, entered, panningWasEnabled, pan, panSet, fingers, pressed>>

(* The map's owner turns panning on or off outside a drag.                 *)
SetPan ==
  /\ ~Borrowed
  /\ pan' \in Panning \ {pan}
  /\ panSet' = pan'
  /\ UNCHANGED <<session, entered, gesture, panningWasEnabled, fingers, click, pressed>>

-----------------------------------------------------------------------------
(* The host.                                                               *)

CONSTANTS Seeds    \* drafts a session of editing may start from

(* A draft is its vertices, breaks and laps, and nothing more; no vertex   *)
(* is in it twice, a break has vertices on both sides, and a lap spans     *)
(* some.                                                                   *)
IsDraft(draft) ==
  /\ draft = [points |-> draft.points, breaks |-> draft.breaks, laps |-> draft.laps]
  /\ draft.points \in Seq(VertexNames)
  /\ \A i, j \in DOMAIN draft.points : draft.points[i] = draft.points[j] => i = j
  /\ draft.breaks \in Seq(2..Len(draft.points))
  /\ \A i, j \in DOMAIN draft.breaks : i < j => draft.breaks[i] <= draft.breaks[j]
  /\ draft.laps \in Seq([id : Nat, startIndex : Nat, endIndex : Nat])
  /\ LapRanges(draft.points, draft.laps)

ASSUME SeedsAssumption == \A draft \in Seeds : IsDraft(draft)

VARIABLES painted

vars == <<draftVars, drawVars, painted>>

Init ==
  /\ DraftInit(Seeds)
  /\ DrawInit
  /\ painted = Len(current.points)

Places == 0..painted

-----------------------------------------------------------------------------
(* Handlers.                                                               *)

(* onVertexMove: draft.moveAt, which throws for an index that has gone.    *)
Drag ==
  /\ MoveBegins
  /\ \/ MoveAt(gesture.index) /\ UNCHANGED <<panningWasEnabled, pan>>
     \/ /\ gesture.index \notin DOMAIN current.points
        /\ ReleaseDrag
        /\ UNCHANGED draftVars
  /\ UNCHANGED painted

(* onVertexClick: ignored, or draft.removeAt, which may throw.             *)
OnVertexClick(indices) ==
  \/ UNCHANGED draftVars
  \/ \E index \in indices : RemoveAt(index)

(* onClick, then onVertexAdd: draft.append where no vertex took the click. *)
ClickMap ==
  \E at \in Places :
    /\ ClickBegins
    /\ IF Taken(at) THEN OnVertexClick(Clicked(at)) ELSE AppendVertex
    /\ UNCHANGED painted

(* An event mark's activation asks the session first, and never adds.      *)
ClickMark ==
  \E at \in Places :
    /\ ClickBegins
    /\ OnVertexClick(IF Taken(at) THEN Clicked(at) ELSE {})
    /\ UNCHANGED painted

-----------------------------------------------------------------------------
(* renderDraft, of the draft as it is when the host gets to it.            *)
HostRenders ==
  /\ painted # Len(current.points)
  /\ painted' = Len(current.points)
  /\ UNCHANGED <<draftVars, drawVars>>

(* Edits from the host's own controls.                                     *)
HostEdits ==
  /\ \/ \E index \in 1..(Len(current.points) + 1) : InsertAt(index) \/ RemoveAt(index) \/ BreakAt(index)
     \/ Undo \/ Redo
  /\ UNCHANGED <<drawVars, painted>>

Pointer ==
  /\ (\E at \in Places : Press(at)) \/ Release \/ Cancel \/ Enter \/ Exit \/ SetPan
  /\ UNCHANGED <<draftVars, painted>>

Next == Pointer \/ Drag \/ ClickMap \/ ClickMark \/ HostRenders \/ HostEdits

Spec == Init /\ [][Next]_vars

-----------------------------------------------------------------------------
(* Properties.                                                             *)

(* releaseDrag, onStart, onEnd, exit: panning is off on the engine's       *)
(* account only while a live session drags a vertex under a pointer that   *)
(* is down; at any other time it is what the map's owner set it to, after  *)
(* second touches, cancellations, throwing handlers and exits mid-drag.    *)
PanGivenBack ==
  IF Borrowed
    THEN /\ session # 0 /\ gesture # NoGesture /\ fingers > 0
         /\ pan = "disabled" /\ panningWasEnabled = panSet
    ELSE pan = panSet

(* onEnd and activateVertex: a click whose press went down on a vertex, in *)
(* this session, is about that vertex.  However it drifted, whatever was   *)
(* edited or rendered meanwhile, it never adds a vertex.                   *)
PressedVertexNeverAdds ==
  [][(ClickMap \/ ClickMark) /\ pressed = session
       => Vertices(current') \subseteq Vertices(current)]_vars
=============================================================================
