---------------------------- MODULE DrawKeyboard ----------------------------
(***************************************************************************)
(* The keyboard layer of a draw-mode session of                            *)
(* packages/maplibre/src/controller/draw-mode.ts: one focusable element    *)
(* per vertex of the draft, one of them the layer's tab stop, and one at   *)
(* most grabbed, which the arrow keys then move.  The host renders its     *)
(* draft when it likes, from within the handler of a move too.             *)
(*                                                                         *)
(* Vertices are numbered from one and stand on a line.  Keys go to the     *)
(* element that has the focus, and a vertex is grabbed by its keys only.   *)
(***************************************************************************)
EXTENDS Integers, Sequences

CONSTANTS MaxVertices, MaxPlace    \* bounds

ASSUME DrawKeyboardAssumption == {MaxVertices, MaxPlace} \subseteq Nat

VARIABLES keyboard    \* of the session, or what is left without one

(* No vertex; the group that holds them.                                   *)
NoVertex == 0
Group == -1

HostDrafts == UNION {[1..n -> 1..MaxPlace] : n \in 0..MaxVertices}

NoLayer == [on |-> FALSE, points |-> << >>, markers |-> << >>, grabbed |-> NoVertex,
            saysGrabbed |-> {}, roving |-> 1, stops |-> {}, focus |-> NoVertex]

VertexElements(k) == DOMAIN k.markers

-----------------------------------------------------------------------------
setGrabbed(k, i) ==
  [k EXCEPT !.grabbed = i, !.saysGrabbed = (@ \ {k.grabbed}) \cup ({i} \ {NoVertex})]

toggleGrab(k, i) == setGrabbed(k, IF k.grabbed = i THEN NoVertex ELSE i)

syncTabStops(k) == [k EXCEPT !.stops = ({k.roving} \cap VertexElements(k)) \cup (@ \cap {Group})]

(* A grab does not outlast the focus of its vertex.                        *)
Blurred(k) ==
  LET left == [k EXCEPT !.focus = NoVertex]
  IN IF k.grabbed # NoVertex /\ k.grabbed = k.focus THEN setGrabbed(left, NoVertex) ELSE left

Focused(k, i) ==
  IF k.focus = i THEN k
  ELSE syncTabStops([Blurred(k) EXCEPT !.focus = i, !.roving = i])

(* The index wraps at either end.                                          *)
focusVertex(k, i) ==
  LET n == Len(k.markers)
      to == IF i < 1 THEN n ELSE IF i > n THEN 1 ELSE i
  IN Focused(syncTabStops([k EXCEPT !.roving = to]), to)

-----------------------------------------------------------------------------
(* The elements of a render: those that stay are updated, new ones come    *)
(* as tab stops, and one that goes takes the focus with it.                *)
Rebuilt(k, points) ==
  LET now == DOMAIN points
  IN [k EXCEPT !.points = points, !.markers = points,
               !.saysGrabbed = @ \cap now,
               !.stops = (@ \cap (now \cup {Group})) \cup (now \ VertexElements(k)),
               !.focus = IF @ > Len(points) THEN NoVertex ELSE @]

Least(i, j) == IF i < j THEN i ELSE j

(* With nothing left to focus the group takes it, and gives it back.       *)
Emptied(k, hadFocus) ==
  [k EXCEPT !.stops = {Group}, !.roving = 1, !.focus = IF hadFocus THEN Group ELSE @]

(* Mutated: the focus stays where the removed element left it.             *)
RefilledUnfocused(k, focus) ==
  syncTabStops([k EXCEPT !.stops = @ \ {Group},
                         !.roving = Least(IF focus > NoVertex THEN focus ELSE @, Len(k.markers))])

Refilled(k, focus) ==
  LET stops == syncTabStops([k EXCEPT !.stops = @ \ {Group},
                 !.roving = Least(IF focus > NoVertex THEN focus ELSE @, Len(k.markers))])
  IN IF focus > Len(k.markers) \/ focus = Group THEN Focused(stops, stops.roving) ELSE stops

(* A changed number of vertices cancels the grab first.                    *)
reconcileDraft(k, points) ==
  LET calm == IF Len(points) # Len(k.points) THEN setGrabbed(k, NoVertex) ELSE k
      built == Rebuilt(calm, points)
  IN IF points = << >> THEN Emptied(built, k.focus > NoVertex) ELSE Refilled(built, k.focus)

-----------------------------------------------------------------------------
KeyboardInit == keyboard = NoLayer

(* startDrawMode, whose group is no tab stop of its own.                   *)
EnterKeyboard(points) ==
  /\ ~keyboard.on
  /\ keyboard' = reconcileDraft([NoLayer EXCEPT !.on = TRUE], points)

HostRendersVertices(points) == keyboard.on /\ keyboard' = reconcileDraft(keyboard, points)

(* Someone tabs into the keyboard, moves about in it by a reader's own    *)
(* commands, or leaves it.                                                 *)
FocusComes(i) ==
  /\ keyboard.on
  /\ IF i = Group
     THEN Group \in keyboard.stops /\ keyboard' = [keyboard EXCEPT !.focus = Group]
     ELSE i \in VertexElements(keyboard) /\ keyboard' = Focused(keyboard, i)

FocusGoes == keyboard.focus # NoVertex /\ keyboard' = Blurred(keyboard)

(* Enter or Space; Escape.                                                 *)
GrabKey ==
  /\ keyboard.focus \in VertexElements(keyboard)
  /\ keyboard' = toggleGrab(keyboard, keyboard.focus)

EscapeKey ==
  /\ keyboard.grabbed # NoVertex /\ keyboard.grabbed = keyboard.focus
  /\ keyboard' = setGrabbed(keyboard, NoVertex)

(* Left or right on a vertex that is not grabbed.                          *)
ArrowMovesFocus(delta) ==
  /\ keyboard.focus \in VertexElements(keyboard) /\ keyboard.grabbed # keyboard.focus
  /\ keyboard' = focusVertex(keyboard, keyboard.focus + delta)

(* The vertex as reported, unless the host has rendered meanwhile.         *)
MovedTo(k, i, to) == [k EXCEPT !.points[i] = to, !.markers[i] = to]

(* An arrow on the grabbed vertex: the host's handler of the move returns, *)
(* renders some draft at once, or throws, having rendered or not.          *)
ArrowMovesVertex(delta) ==
  LET i == keyboard.focus
      to == keyboard.points[i] + delta
  IN /\ i \in VertexElements(keyboard) /\ keyboard.grabbed = i
     /\ to \in 1..MaxPlace
     /\ \/ keyboard' = MovedTo(keyboard, i, to)
        \/ keyboard' = setGrabbed(keyboard, NoVertex)
        \/ \E points \in HostDrafts :
             \/ keyboard' = reconcileDraft(keyboard, points)
             \/ keyboard' = setGrabbed(reconcileDraft(keyboard, points), NoVertex)

ExitKeyboard == keyboard.on /\ keyboard' = NoLayer

KeyboardNext ==
  \/ \E points \in HostDrafts : EnterKeyboard(points) \/ HostRendersVertices(points)
  \/ \E i \in 1..MaxVertices \cup {Group} : FocusComes(i)
  \/ FocusGoes
  \/ GrabKey
  \/ EscapeKey
  \/ \E delta \in {-1, 1} : ArrowMovesFocus(delta) \/ ArrowMovesVertex(delta)
  \/ ExitKeyboard

KeyboardSpec == KeyboardInit /\ [][KeyboardNext]_keyboard

-----------------------------------------------------------------------------
(* One tab stop; a grab that is where the focus is, and said of no other   *)
(* vertex; markers where the draft has them.                               *)
LayerSound(k) ==
  /\ k.stops = IF k.markers = << >> THEN {Group} ELSE {k.roving}
  /\ k.grabbed # NoVertex => k.grabbed = k.focus /\ k.grabbed \in VertexElements(k)
  /\ k.saysGrabbed = {k.grabbed} \ {NoVertex}
  /\ k.focus \in VertexElements(k) => k.roving = k.focus
  /\ k.markers = k.points

(* Whatever the host renders, and whenever, a keyboard user is not thrown  *)
(* out of the layer: the focus stays on its vertex, or on the last one, or *)
(* on the group of none; nobody goes on moving a vertex whose index may    *)
(* mean another; and the layer keeps one way in and one grabbed vertex at  *)
(* most, the one that has the focus.                                       *)
KeyboardKeepsItsPlace ==
  [][ /\ keyboard'.on => LayerSound(keyboard')
      /\ keyboard.on /\ keyboard'.on /\ Len(keyboard'.points) # Len(keyboard.points)
           => /\ keyboard'.grabbed = NoVertex
              /\ keyboard.focus # NoVertex =>
                   keyboard'.focus = IF keyboard'.points = << >> THEN Group
                                  ELSE IF keyboard.focus = Group THEN keyboard'.roving
                                  ELSE Least(keyboard.focus, Len(keyboard'.points)) ]_keyboard
=============================================================================
