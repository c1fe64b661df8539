---------------------------- MODULE MapContentProofs ----------------------------
(***************************************************************************)
(* What the controller keeps on the map: the keyboard's focus stays where  *)
(* it is through every render; the marks on the map are those asked for;   *)
(* and the renderer holds the stack of sources asked for, between its      *)
(* style's layers and the controller's own.                                *)
(***************************************************************************)
EXTENDS MCMap, SequenceTheorems, WellFoundedInduction, TLAPS

(* A set of naturals that is not empty has a least: the loops of this code *)
(* are unrolled through the least number of rounds that would fail.        *)
LEMMA LeastNatural ==
  ASSUME NEW T \in SUBSET Nat, T # {}
  PROVE  \E x \in T : \A y \in T : x <= y
<1> DEFINE Below == {p \in Nat \X Nat : p[1] < p[2]}
<1>1. IsWellFoundedOn(Below, Nat)
  BY NatLessThanWellFounded, Zenon DEF OpToRel
<1> HIDE DEF Below
<1>2. PICK x \in T : \A y \in T : ~(<<y, x>> \in Below)
  BY <1>1, WFMin
<1>3. \A y \in T : ~(y < x)
  BY <1>2 DEF Below
<1>4. QED
  BY <1>3

-----------------------------------------------------------------------------
(* The keyboard layer of draw mode.                                        *)

(* The layer of a session: what it draws, who is grabbed and who is        *)
(* focused are vertices or none, and one vertex can always be entered at.  *)
Layers ==
  [on : {TRUE}, points : Seq(Int), markers : Seq(Int), grabbed : Nat,
   saysGrabbed : SUBSET Nat, roving : Nat \ {0}, stops : SUBSET Int, focus : Int]

(* Vertices of the layer, and the focus may be on one, on the group of     *)
(* none, or elsewhere.                                                     *)
LayerTypes(k) ==
  /\ k \in Layers
  /\ k.markers # << >> => k.roving \in 1..Len(k.markers)
  /\ k.focus \in {NoVertex} \cup 1..Len(k.markers) \cup IF k.markers = << >> THEN {Group} ELSE {}

KeyboardInv == keyboard.on => LayerTypes(keyboard) /\ LayerSound(keyboard)

(* Elements are numbered like the vertices they stand for.                 *)
LEMMA ElementsAre ==
  ASSUME NEW k, k.markers \in Seq(Int)
  PROVE  VertexElements(k) = 1..Len(k.markers) /\ Len(k.markers) \in Nat
BY DEF VertexElements

(* What a host renders is a sequence of places.                            *)
LEMMA HostDraftsAre ==
  ASSUME NEW points \in HostDrafts
  PROVE  points \in Seq(Int) /\ DOMAIN points = 1..Len(points) /\ Len(points) \in Nat
         /\ (points = << >> <=> Len(points) = 0)
<1>1. PICK n \in 0..MaxVertices : points \in [1..n -> 1..MaxPlace]
  BY DEF HostDrafts
<1>2. n \in Nat /\ 1..MaxPlace \subseteq Int
  BY DrawKeyboardAssumption
<1>3. points \in [1..n -> Int]
  BY <1>1, <1>2
<1> QED
  BY <1>2, <1>3

(* The kinds of the fields of a layer.                                     *)
LEMMA LayerFields ==
  ASSUME NEW k, k \in Layers
  PROVE  /\ k.markers \in Seq(Int) /\ Len(k.markers) \in Nat
         /\ k.points \in Seq(Int) /\ Len(k.points) \in Nat
         /\ k.focus \in Int /\ k.grabbed \in Nat /\ k.roving \in Nat \ {0}
         /\ k.stops \in SUBSET Int /\ k.saysGrabbed \in SUBSET Nat
BY DEF Layers

(* setGrabbed, toggleGrab and a blur: only what is grabbed changes.        *)
LEMMA SetGrabbedIs ==
  ASSUME NEW k, k \in Layers, NEW i \in Nat
  PROVE  LET d == setGrabbed(k, i)
         IN  /\ d \in Layers
             /\ d.grabbed = i /\ d.saysGrabbed = (k.saysGrabbed \ {k.grabbed}) \cup ({i} \ {NoVertex})
             /\ d.points = k.points /\ d.markers = k.markers /\ d.roving = k.roving
             /\ d.stops = k.stops /\ d.focus = k.focus
BY DEF setGrabbed, Layers, NoVertex

(* A layer stays one when its focus, its way in or its tab stops change.   *)
LEMMA Refocused ==
  ASSUME NEW k, k \in Layers, NEW i \in Int
  PROVE  LET d == [k EXCEPT !.focus = i]
         IN  /\ d \in Layers /\ d.focus = i
             /\ d.points = k.points /\ d.markers = k.markers /\ d.roving = k.roving
             /\ d.stops = k.stops /\ d.grabbed = k.grabbed /\ d.saysGrabbed = k.saysGrabbed
BY DEF Layers

LEMMA Roving ==
  ASSUME NEW k, k \in Layers, NEW i \in Nat \ {0}
  PROVE  LET d == [k EXCEPT !.roving = i]
         IN  /\ d \in Layers /\ d.roving = i
             /\ d.points = k.points /\ d.markers = k.markers /\ d.focus = k.focus
             /\ d.stops = k.stops /\ d.grabbed = k.grabbed /\ d.saysGrabbed = k.saysGrabbed
BY DEF Layers

LEMMA Stopping ==
  ASSUME NEW k, k \in Layers, NEW stops \in SUBSET Int
  PROVE  LET d == [k EXCEPT !.stops = stops]
         IN  /\ d \in Layers /\ d.stops = stops
             /\ d.points = k.points /\ d.markers = k.markers /\ d.focus = k.focus
             /\ d.roving = k.roving /\ d.grabbed = k.grabbed /\ d.saysGrabbed = k.saysGrabbed
BY DEF Layers

LEMMA BlurredIs ==
  ASSUME NEW k, k \in Layers
  PROVE  LET d == Blurred(k)
         IN  /\ d \in Layers
             /\ d.focus = NoVertex
             /\ d.points = k.points /\ d.markers = k.markers /\ d.roving = k.roving
             /\ d.stops = k.stops
             /\ k.grabbed \in {NoVertex, k.focus} => d.grabbed = NoVertex
             /\ k.grabbed \in {NoVertex, k.focus} /\ k.saysGrabbed = {k.grabbed} \ {NoVertex} => d.saysGrabbed = {}
<1> DEFINE left == [k EXCEPT !.focus = NoVertex]
<1>1. left \in Layers /\ left.focus = NoVertex /\ left.points = k.points /\ left.markers = k.markers
      /\ left.roving = k.roving /\ left.stops = k.stops /\ left.grabbed = k.grabbed
      /\ left.saysGrabbed = k.saysGrabbed
  BY Refocused DEF NoVertex
<1>2. Blurred(k) = IF k.grabbed # NoVertex /\ k.grabbed = k.focus THEN setGrabbed(left, NoVertex) ELSE left
  BY DEF Blurred
<1> HIDE DEF left
<1>3. NoVertex \in Nat
  BY DEF NoVertex
<1>4. CASE k.grabbed # NoVertex /\ k.grabbed = k.focus
  <2>1. Blurred(k) = setGrabbed(left, NoVertex)
    BY <1>2, <1>4
  <2>2. QED
    BY <1>1, <1>3, <2>1, SetGrabbedIs
<1>5. CASE ~(k.grabbed # NoVertex /\ k.grabbed = k.focus)
  <2>1. Blurred(k) = left
    BY <1>2, <1>5
  <2>2. QED
    BY <1>1, <1>5, <2>1
<1> QED
  BY <1>4, <1>5

(* syncTabStops: the roving vertex is the only one left.                   *)
LEMMA SyncedIs ==
  ASSUME NEW k, k \in Layers
  PROVE  LET d == syncTabStops(k)
         IN  /\ d \in Layers
             /\ d.stops = ({k.roving} \cap 1..Len(k.markers)) \cup (k.stops \cap {Group})
             /\ d.points = k.points /\ d.markers = k.markers /\ d.roving = k.roving
             /\ d.grabbed = k.grabbed /\ d.saysGrabbed = k.saysGrabbed /\ d.focus = k.focus
<1>1. k.markers \in Seq(Int) /\ k.roving \in Nat
  BY DEF Layers
<1>2. VertexElements(k) = 1..Len(k.markers)
  BY <1>1, ElementsAre
<1>3. ({k.roving} \cap 1..Len(k.markers)) \cup (k.stops \cap {Group}) \in SUBSET Int
  BY <1>1 DEF Group
<1> QED
  BY <1>2, <1>3 DEF syncTabStops, Layers

(* A focus that comes to a vertex makes it the way in, and lets go of      *)
(* whatever was grabbed.                                                   *)
LEMMA FocusedIs ==
  ASSUME NEW k, k \in Layers, k.grabbed \in {NoVertex, k.focus},
         k.saysGrabbed = {k.grabbed} \ {NoVertex}, Group \notin k.stops, k.markers = k.points,
         NEW i \in 1..Len(k.markers), k.focus = i => k.roving = i /\ k.stops = {k.roving}
  PROVE  LET d == Focused(k, i)
         IN  /\ LayerTypes(d) /\ LayerSound(d) /\ d.focus = i
             /\ d.points = k.points /\ d.markers = k.markers
             /\ d.grabbed \in {k.grabbed, NoVertex}
<1>1. /\ k \in Layers /\ k.markers \in Seq(Int) /\ Len(k.markers) \in Nat /\ i \in Nat /\ i # NoVertex
      /\ k.markers # << >> /\ i # Group
  <2>1. k \in Layers /\ k.markers \in Seq(Int) /\ Len(k.markers) \in Nat
    BY LayerFields
  <2>2. i \in Nat /\ i # NoVertex /\ i # Group /\ Len(k.markers) # 0
    BY <2>1 DEF NoVertex, Group
  <2>3. QED
    BY <2>1, <2>2
<1>2. CASE k.focus = i
  <2>1. Focused(k, i) = k
    BY <1>2 DEF Focused
  <2>2. LayerSound(k)
    BY <1>1, <1>2, ElementsAre DEF LayerSound
  <2>3. LayerTypes(k)
    BY <1>1, <1>2 DEF LayerTypes
  <2>4. QED
    BY <1>2, <2>1, <2>2, <2>3
<1>3. CASE k.focus # i
  <2> DEFINE b == Blurred(k)
             c == [b EXCEPT !.focus = i, !.roving = i]
             d == syncTabStops(c)
  <2>1. b \in Layers /\ b.points = k.points /\ b.markers = k.markers /\ b.stops = k.stops
        /\ b.grabbed = NoVertex /\ b.saysGrabbed = {}
    BY <1>1, BlurredIs
  <2>2. Focused(k, i) = d
    BY <1>3 DEF Focused
  <2> HIDE DEF b
  <2>3. c \in Layers /\ c.points = k.points /\ c.markers = k.markers /\ c.stops = k.stops
        /\ c.grabbed = NoVertex /\ c.saysGrabbed = {} /\ c.focus = i /\ c.roving = i
    <3> DEFINE f == [b EXCEPT !.focus = i]
    <3>1. f \in Layers /\ f.points = b.points /\ f.markers = b.markers /\ f.stops = b.stops
          /\ f.grabbed = b.grabbed /\ f.saysGrabbed = b.saysGrabbed /\ f.focus = i
      BY <1>1, <2>1, Refocused
    <3>2. c = [f EXCEPT !.roving = i]
      OBVIOUS
    <3> HIDE DEF f, c
    <3>3. QED
      BY <1>1, <2>1, <3>1, <3>2, Roving
  <2> HIDE DEF c
  <2>4. d \in Layers /\ d.points = k.points /\ d.markers = k.markers /\ d.stops = {i}
        /\ d.grabbed = NoVertex /\ d.saysGrabbed = {} /\ d.focus = i /\ d.roving = i
    BY <1>1, <2>3, SyncedIs
  <2> HIDE DEF d
  <2>5. LayerSound(d)
    BY <1>1, <2>4, ElementsAre DEF LayerSound
  <2>6. LayerTypes(d)
    BY <1>1, <2>4 DEF LayerTypes
  <2>7. QED
    BY <2>2, <2>4, <2>5, <2>6
<1> QED
  BY <1>2, <1>3

(* The elements of a render.                                               *)
LEMMA RebuiltIs ==
  ASSUME NEW k, k \in Layers, NEW points, points \in Seq(Int), DOMAIN points = 1..Len(points)
  PROVE  LET d == Rebuilt(k, points)
         IN  /\ d \in Layers /\ d.points = points /\ d.markers = points
             /\ d.saysGrabbed = k.saysGrabbed \cap 1..Len(points)
             /\ d.focus = IF k.focus > Len(points) THEN NoVertex ELSE k.focus
             /\ d.grabbed = k.grabbed /\ d.roving = k.roving
<1> DEFINE stops == (k.stops \cap (DOMAIN points \cup {Group})) \cup (DOMAIN points \ VertexElements(k))
           at == IF k.focus > Len(points) THEN NoVertex ELSE k.focus
           says == k.saysGrabbed \cap DOMAIN points
           a == [k EXCEPT !.points = points, !.markers = points]
           d == [a EXCEPT !.saysGrabbed = says, !.stops = stops, !.focus = at]
<1>1. stops \in SUBSET Int /\ at \in Int /\ says \in SUBSET Nat
  <2>1. k.stops \in SUBSET Int /\ k.focus \in Int /\ k.saysGrabbed \in SUBSET Nat
    BY DEF Layers
  <2>2. 1..Len(points) \subseteq Int
    OBVIOUS
  <2>3. QED
    BY <2>1, <2>2 DEF NoVertex, Group
<1>2. a \in Layers /\ a.points = points /\ a.markers = points /\ a.grabbed = k.grabbed
      /\ a.roving = k.roving
  BY DEF Layers
<1>3. Rebuilt(k, points) = [k EXCEPT !.points = points, !.markers = points, !.saysGrabbed = says,
                                    !.stops = stops, !.focus = at]
  BY DEF Rebuilt
<1> HIDE DEF stops, at, says
<1>4. Rebuilt(k, points) = d
  BY <1>3
<1> HIDE DEF a
<1>5. d \in Layers /\ d.points = a.points /\ d.markers = a.markers /\ d.grabbed = a.grabbed
      /\ d.roving = a.roving /\ d.saysGrabbed = says /\ d.focus = at
  BY <1>1, <1>2 DEF Layers
<1> HIDE DEF d
<1>6. QED
  BY <1>2, <1>4, <1>5 DEF at, says

(* Of a layer that is about to be rendered, all but its tab stops is       *)
(* sound; one that a session begins with is.                               *)
Ready(k) ==
  /\ k \in Layers
  /\ k.focus \in {NoVertex} \cup 1..Len(k.points) \cup IF k.points = << >> THEN {Group} ELSE {}
  /\ k.grabbed # NoVertex => k.grabbed = k.focus /\ k.grabbed \in 1..Len(k.points)
  /\ k.saysGrabbed = {k.grabbed} \ {NoVertex}
  /\ k.focus \in 1..Len(k.points) => k.roving = k.focus

LEMMA SoundIsReady == ASSUME NEW k, LayerTypes(k), LayerSound(k) PROVE Ready(k)
<1>1. k \in Layers /\ k.markers = k.points /\ VertexElements(k) = 1..Len(k.points)
  <2>1. k \in Layers /\ k.markers = k.points
    BY DEF LayerTypes, LayerSound
  <2>2. k.markers \in Seq(Int)
    BY <2>1 DEF Layers
  <2>3. QED
    BY <2>1, <2>2, ElementsAre
<1>2. QED
  BY <1>1 DEF LayerTypes, LayerSound, Ready

(* A grab does not outlast a change of the number of vertices.             *)
LEMMA CalmIs ==
  ASSUME NEW k, Ready(k), NEW points
  PROVE  LET c == IF Len(points) # Len(k.points) THEN setGrabbed(k, NoVertex) ELSE k
         IN  /\ Ready(c) /\ c.points = k.points /\ c.focus = k.focus /\ c.roving = k.roving
             /\ Len(points) # Len(k.points) => c.grabbed = NoVertex
<1> DEFINE s == setGrabbed(k, NoVertex)
<1>1. k \in Layers /\ NoVertex \in Nat
  BY DEF Ready, NoVertex
<1>2. /\ s \in Layers /\ s.grabbed = NoVertex /\ s.points = k.points /\ s.focus = k.focus
      /\ s.saysGrabbed = (k.saysGrabbed \ {k.grabbed}) \cup ({NoVertex} \ {NoVertex})
      /\ s.roving = k.roving
  BY <1>1, SetGrabbedIs
<1> HIDE DEF s
<1>3. Ready(s)
  BY <1>2 DEF Ready
<1> QED
  BY <1>2, <1>3 DEF s

(* What a render leaves: see KeyboardKeepsItsPlace.                        *)
RenderedAs(k, points, d) ==
  /\ LayerTypes(d) /\ LayerSound(d) /\ d.points = points
  /\ Len(points) # Len(k.points) =>
       /\ d.grabbed = NoVertex
       /\ k.focus # NoVertex => d.focus = IF points = << >> THEN Group
                                         ELSE IF k.focus = Group THEN d.roving
                                         ELSE Least(k.focus, Len(points))
  /\ Len(points) = Len(k.points) => d.grabbed = k.grabbed

(* A render of no vertices: the group takes the focus.                     *)
LEMMA EmptiedIs ==
  ASSUME NEW k, Ready(k), NEW built, built \in Layers, built.points = << >>, built.markers = << >>,
         built.grabbed = NoVertex, built.saysGrabbed = {},
         built.focus = IF k.focus > 0 THEN NoVertex ELSE k.focus,
         Len(k.points) = 0 => k.grabbed = NoVertex
  PROVE  RenderedAs(k, << >>, Emptied(built, k.focus > NoVertex))
<1> DEFINE at == IF k.focus > NoVertex THEN Group ELSE built.focus
           d == [built EXCEPT !.stops = {Group}, !.roving = 1, !.focus = at]
<1>1. k.focus \in Int /\ k.points \in Seq(Int) /\ Len(k.points) \in Nat
  <2>1. k \in Layers
    BY DEF Ready
  <2>2. QED
    BY <2>1 DEF Layers
<1>2. k.focus = NoVertex \/ k.focus > 0 \/ k.focus = Group
  BY <1>1 DEF Ready, NoVertex
<1>3. at \in {NoVertex, Group} /\ (k.focus # NoVertex => at = Group)
  BY <1>1, <1>2 DEF NoVertex, Group
<1>4. Emptied(built, k.focus > NoVertex) = d
  BY DEF Emptied
<1> HIDE DEF at
<1>5. d \in Layers /\ d.points = << >> /\ d.markers = << >> /\ d.stops = {Group} /\ d.focus = at
      /\ d.grabbed = NoVertex /\ d.saysGrabbed = {}
  <2> DEFINE a == [built EXCEPT !.stops = {Group}]
             b == [a EXCEPT !.roving = 1]
  <2>1. a \in Layers /\ a.stops = {Group} /\ a.points = << >> /\ a.markers = << >>
        /\ a.grabbed = NoVertex /\ a.saysGrabbed = {}
    <3>1. {Group} \in SUBSET Int
      BY DEF Group
    <3>2. QED
      BY <3>1, Stopping
  <2> HIDE DEF a
  <2>2. b \in Layers /\ b.stops = {Group} /\ b.points = << >> /\ b.markers = << >>
        /\ b.grabbed = NoVertex /\ b.saysGrabbed = {}
    <3>1. 1 \in Nat \ {0}
      OBVIOUS
    <3>2. QED
      BY <2>1, <3>1, Roving, ZenonT(30)
  <2>3. d = [b EXCEPT !.focus = at]
    BY DEF d, b, a
  <2> HIDE DEF b
  <2>4. at \in Int
    BY <1>3 DEF NoVertex, Group
  <2>5. QED
    BY <2>2, <2>3, <2>4, Refocused
<1> HIDE DEF d
<1>6. LayerTypes(d)
  BY <1>3, <1>5 DEF LayerTypes
<1>7. VertexElements(d) = {} /\ NoVertex \notin VertexElements(d) /\ Group \notin VertexElements(d)
  BY <1>5 DEF VertexElements
<1>8. LayerSound(d)
  BY <1>3, <1>5, <1>7 DEF LayerSound
<1>9. QED
  BY <1>3, <1>4, <1>5, <1>6, <1>8 DEF RenderedAs

(* A render of some: the focus stays on its vertex or the last one.        *)
LEMMA RefilledIs ==
  ASSUME NEW k, Ready(k), NEW points, points \in Seq(Int), Len(points) \in Nat \ {0},
         NEW built, built \in Layers, built.points = points, built.markers = points,
         Len(points) # Len(k.points) => built.grabbed = NoVertex,
         Len(points) = Len(k.points) => built.grabbed = k.grabbed,
         built.saysGrabbed = {built.grabbed} \ {NoVertex},
         built.focus = IF k.focus > Len(points) THEN NoVertex ELSE k.focus,
         built.roving = k.roving
  PROVE  RenderedAs(k, points, Refilled(built, k.focus))
<1> DEFINE n == Len(points)
           from == IF k.focus > NoVertex THEN k.focus ELSE built.roving
           to == Least(from, n)
           r == [built EXCEPT !.stops = @ \ {Group}, !.roving = to]
           s == syncTabStops(r)
<1>1. /\ k \in Layers /\ k.focus \in Int /\ k.points \in Seq(Int) /\ Len(k.points) \in Nat
      /\ k.roving \in Nat \ {0} /\ k.grabbed \in Nat
      /\ k.focus \in {NoVertex, Group} \cup 1..Len(k.points)
      /\ k.focus = Group => Len(k.points) = 0
  <2>1. k \in Layers
    BY DEF Ready
  <2>2. k.focus \in Int /\ k.points \in Seq(Int) /\ k.roving \in Nat \ {0} /\ k.grabbed \in Nat
    BY <2>1 DEF Layers
  <2>3. QED
    BY <2>1, <2>2 DEF Ready, NoVertex, Group
<1>2. /\ to \in 1..n /\ n \in Nat /\ n # 0
      /\ k.focus \in 1..n => to = k.focus
      /\ k.focus > n => to = n
      /\ k.focus > 0 => to = Least(k.focus, n)
  BY <1>1 DEF Least, NoVertex
<1> HIDE DEF to
<1>3. /\ r \in Layers /\ r.points = points /\ r.markers = points /\ r.grabbed = built.grabbed
      /\ r.saysGrabbed = built.saysGrabbed /\ r.focus = built.focus /\ r.roving = to
      /\ r.stops = built.stops \ {Group}
  <2> DEFINE left == built.stops \ {Group}
             a == [built EXCEPT !.stops = left]
  <2>1. left \in SUBSET Int
    BY DEF Layers
  <2>2. r = [a EXCEPT !.roving = to]
    OBVIOUS
  <2> HIDE DEF left
  <2>3. a \in Layers /\ a.stops = left /\ a.points = points /\ a.markers = points
        /\ a.grabbed = built.grabbed /\ a.saysGrabbed = built.saysGrabbed /\ a.focus = built.focus
    BY <2>1, Stopping, ZenonT(30)
  <2> HIDE DEF a, r
  <2>4. to \in Nat \ {0}
    BY <1>2
  <2>5. QED
    BY <2>2, <2>3, <2>4, Roving DEF left
<1>4. /\ s \in Layers /\ s.points = points /\ s.markers = points /\ s.grabbed = built.grabbed
      /\ s.saysGrabbed = built.saysGrabbed /\ s.focus = built.focus /\ s.roving = to
      /\ s.stops = {to}
  <2>1. /\ s \in Layers /\ s.points = r.points /\ s.markers = r.markers /\ s.grabbed = r.grabbed
        /\ s.saysGrabbed = r.saysGrabbed /\ s.focus = r.focus /\ s.roving = r.roving
        /\ s.stops = ({r.roving} \cap 1..Len(r.markers)) \cup (r.stops \cap {Group})
    BY <1>3, SyncedIs
  <2> HIDE DEF s
  <2>2. QED
    BY <1>2, <1>3, <2>1
<1>5. Refilled(built, k.focus) =
        IF k.focus > Len(points) \/ k.focus = Group THEN Focused(s, s.roving) ELSE s
  BY DEF Refilled, r, to
<1> HIDE DEF s
<1>6. CASE k.focus > n \/ k.focus = Group
  <2> DEFINE d == Focused(s, to)
  <2>1. n # Len(k.points) /\ built.grabbed = NoVertex /\ built.saysGrabbed = {}
    BY <1>1, <1>2, <1>6 DEF Group, NoVertex
  <2>2. s.focus # to
    BY <1>1, <1>2, <1>4, <1>6 DEF Group, NoVertex
  <2>3. Group \notin s.stops
    BY <1>2, <1>4 DEF Group
  <2>4. LayerTypes(d) /\ LayerSound(d) /\ d.focus = to /\ d.points = points
        /\ d.markers = points /\ d.grabbed = NoVertex
    BY <1>2, <1>4, <2>1, <2>2, <2>3, FocusedIs
  <2> HIDE DEF d
  <2>5. d.roving = to
    <3>1. to \in VertexElements(d)
      BY <1>2, <2>4, ElementsAre
    <3>2. QED
      BY <2>4, <3>1 DEF LayerSound
  <2>6. Refilled(built, k.focus) = d
    BY <1>4, <1>5, <1>6 DEF d
  <2>7. points # << >>
    BY <1>2
  <2>8. k.focus = Group \/ to = Least(k.focus, n)
    BY <1>1, <1>2, <1>6
  <2>9. QED
    BY <2>1, <2>4, <2>5, <2>6, <2>7, <2>8 DEF RenderedAs
<1>7. CASE ~(k.focus > n \/ k.focus = Group)
  <2>1. Refilled(built, k.focus) = s
    BY <1>5, <1>7
  <2>2. k.focus \in {NoVertex} \cup 1..n /\ s.focus = k.focus
    BY <1>1, <1>2, <1>4, <1>7 DEF NoVertex
  <2>3. s.grabbed # NoVertex => s.grabbed = s.focus /\ s.grabbed \in 1..n
    BY <1>1, <1>2, <1>4, <2>2 DEF Ready
  <2>4. points # << >> /\ VertexElements(s) = 1..n
    BY <1>2, <1>4, ElementsAre
  <2>5. LayerSound(s)
    BY <1>2, <1>4, <2>2, <2>3, <2>4 DEF LayerSound
  <2>6. LayerTypes(s)
    BY <1>2, <1>4, <2>2, <2>4 DEF LayerTypes
  <2>7. k.focus # NoVertex => k.focus = Least(k.focus, n)
    BY <1>1, <1>2, <2>2 DEF Least
  <2>8. NoVertex # Group
    BY DEF NoVertex, Group
  <2>9. QED
    BY <1>4, <1>7, <2>1, <2>2, <2>4, <2>5, <2>6, <2>7, <2>8 DEF RenderedAs
<1> QED
  BY <1>6, <1>7

(* Any render, of a layer or of one that a session begins with.            *)
LEMMA ReconciledIs ==
  ASSUME NEW k, Ready(k), NEW points, points \in Seq(Int), DOMAIN points = 1..Len(points),
         Len(points) \in Nat, points = << >> <=> Len(points) = 0
  PROVE  RenderedAs(k, points, reconcileDraft(k, points))
<1> DEFINE calm == IF Len(points) # Len(k.points) THEN setGrabbed(k, NoVertex) ELSE k
           built == Rebuilt(calm, points)
<1>1. Ready(calm) /\ calm.points = k.points /\ calm.focus = k.focus /\ calm.roving = k.roving
      /\ (Len(points) # Len(k.points) => calm.grabbed = NoVertex)
  BY CalmIs
<1>2. Len(points) = Len(k.points) => calm.grabbed = k.grabbed
  OBVIOUS
<1>3. reconcileDraft(k, points) =
        IF points = << >> THEN Emptied(built, k.focus > NoVertex) ELSE Refilled(built, k.focus)
  BY DEF reconcileDraft
<1> HIDE DEF calm
<1>4. calm \in Layers
  BY <1>1 DEF Ready
<1>5. /\ built \in Layers /\ built.points = points /\ built.markers = points
      /\ built.saysGrabbed = calm.saysGrabbed \cap 1..Len(points)
      /\ built.focus = IF calm.focus > Len(points) THEN NoVertex ELSE calm.focus
      /\ built.grabbed = calm.grabbed /\ built.roving = calm.roving
  BY <1>4, RebuiltIs
<1> HIDE DEF built
<1>6. /\ calm.saysGrabbed = {calm.grabbed} \ {NoVertex}
      /\ calm.grabbed # NoVertex => calm.grabbed \in 1..Len(k.points)
  BY <1>1 DEF Ready
<1>7. calm.grabbed # NoVertex => calm.grabbed \in 1..Len(points)
  BY <1>1, <1>6
<1>8. built.saysGrabbed = {built.grabbed} \ {NoVertex}
  BY <1>5, <1>6, <1>7
<1>9. CASE points = << >>
  <2>1. built.grabbed = NoVertex
    BY <1>5, <1>7, <1>9
  <2>2. Len(k.points) = 0 => k.grabbed = NoVertex
    BY DEF Ready
  <2>3. built.focus = IF k.focus > 0 THEN NoVertex ELSE k.focus
    BY <1>1, <1>5, <1>9
  <2>4. QED
    BY <1>3, <1>5, <1>8, <1>9, <2>1, <2>2, <2>3, EmptiedIs
<1>10. CASE points # << >>
  <2>1. Len(points) \in Nat \ {0}
    BY <1>10
  <2>2. built.focus = IF k.focus > Len(points) THEN NoVertex ELSE k.focus
    BY <1>1, <1>5
  <2>3. RenderedAs(k, points, Refilled(built, k.focus))
    BY <1>1, <1>2, <1>5, <1>8, <2>1, <2>2, RefilledIs
  <2>4. QED
    BY <1>3, <1>10, <2>3
<1> QED
  BY <1>9, <1>10

(* The promise of a step from one layer to the next.                       *)
KeepsPlace(k, d) ==
  Len(d.points) # Len(k.points) =>
    /\ d.grabbed = NoVertex
    /\ k.focus # NoVertex => d.focus = IF d.points = << >> THEN Group
                                      ELSE IF k.focus = Group THEN d.roving
                                      ELSE Least(k.focus, Len(d.points))

Sound(k, d) == LayerTypes(d) /\ LayerSound(d) /\ KeepsPlace(k, d)

(* So a render keeps the place of whoever works by keyboard.               *)
LEMMA RenderKeepsPlace ==
  ASSUME NEW k, Ready(k), NEW points \in HostDrafts
  PROVE  Sound(k, reconcileDraft(k, points))
<1>1. RenderedAs(k, points, reconcileDraft(k, points))
  BY HostDraftsAre, ReconciledIs
<1>2. QED
  BY <1>1 DEF RenderedAs, Sound, KeepsPlace

(* Grabbing the vertex with the focus, or letting go.                      *)
LEMMA GrabbingKeepsPlace ==
  ASSUME NEW k, LayerTypes(k), LayerSound(k), NEW i \in {NoVertex, k.focus}, i \in VertexElements(k) \cup {NoVertex}
  PROVE  Sound(k, setGrabbed(k, i))
<1> DEFINE d == setGrabbed(k, i)
<1>1. k \in Layers
  BY DEF LayerTypes
<1>2. VertexElements(k) = 1..Len(k.markers) /\ Len(k.markers) \in Nat
  BY <1>1, LayerFields, ElementsAre
<1>3. i \in Nat
  BY <1>2 DEF NoVertex
<1>4. /\ d \in Layers
      /\ d.grabbed = i /\ d.saysGrabbed = (k.saysGrabbed \ {k.grabbed}) \cup ({i} \ {NoVertex})
      /\ d.points = k.points /\ d.markers = k.markers /\ d.roving = k.roving
      /\ d.stops = k.stops /\ d.focus = k.focus
  BY <1>1, <1>3, SetGrabbedIs
<1> HIDE DEF d
<1>5. LayerTypes(d)
  BY <1>4 DEF LayerTypes
<1>6. VertexElements(d) = VertexElements(k)
  BY <1>4 DEF VertexElements
<1>7. d.saysGrabbed = {i} \ {NoVertex}
  BY <1>4 DEF LayerSound
<1>8. LayerSound(d)
  BY <1>4, <1>6, <1>7 DEF LayerSound
<1>9. QED
  BY <1>4, <1>5, <1>8 DEF Sound, KeepsPlace, d

(* A focus that comes to a vertex.                                         *)
LEMMA FocusingKeepsPlace ==
  ASSUME NEW k, LayerTypes(k), LayerSound(k), NEW i \in VertexElements(k)
  PROVE  Sound(k, Focused(k, i))
<1>1. k \in Layers
  BY DEF LayerTypes
<1>2. VertexElements(k) = 1..Len(k.markers) /\ Len(k.markers) \in Nat
  BY <1>1, LayerFields, ElementsAre
<1>3. i \in 1..Len(k.markers) /\ k.markers # << >>
  BY <1>2
<1>4. Group \notin k.stops
  BY <1>1, <1>3, LayerFields DEF LayerSound, Group
<1>5. k.focus = i => k.roving = i /\ k.stops = {k.roving}
  BY <1>2, <1>3 DEF LayerSound
<1>6. k.grabbed \in {NoVertex, k.focus} /\ k.saysGrabbed = {k.grabbed} \ {NoVertex} /\ k.markers = k.points
  BY DEF LayerSound
<1> DEFINE d == Focused(k, i)
<1>7. LayerTypes(d) /\ LayerSound(d) /\ d.points = k.points
  BY <1>1, <1>3, <1>4, <1>5, <1>6, FocusedIs
<1>8. QED
  BY <1>7 DEF Sound, KeepsPlace

(* A focus that leaves.                                                    *)
LEMMA BlurringKeepsPlace ==
  ASSUME NEW k, LayerTypes(k), LayerSound(k)
  PROVE  Sound(k, Blurred(k))
<1> DEFINE d == Blurred(k)
<1>1. k \in Layers
  BY DEF LayerTypes
<1>2. /\ d \in Layers /\ d.focus = NoVertex
      /\ d.points = k.points /\ d.markers = k.markers /\ d.roving = k.roving
      /\ d.stops = k.stops /\ d.grabbed = NoVertex /\ d.saysGrabbed = {}
  BY <1>1, BlurredIs DEF LayerSound
<1> HIDE DEF d
<1>3. LayerTypes(d)
  BY <1>2 DEF LayerTypes
<1>4. NoVertex \notin VertexElements(d)
  BY <1>2, LayerFields, ElementsAre DEF NoVertex
<1>5. LayerSound(d)
  BY <1>2, <1>4 DEF LayerSound
<1>6. QED
  BY <1>2, <1>3, <1>5 DEF Sound, KeepsPlace, d

(* An arrow moves the focus to a vertex, wherever it wraps.                *)
LEMMA ArrowFocusKeepsPlace ==
  ASSUME NEW k, LayerTypes(k), LayerSound(k), k.focus \in VertexElements(k),
         k.grabbed # k.focus, NEW delta \in {-1, 1}
  PROVE  Sound(k, focusVertex(k, k.focus + delta))
<1> DEFINE n == Len(k.markers)
           i == k.focus + delta
           to == IF i < 1 THEN n ELSE IF i > n THEN 1 ELSE i
           r == [k EXCEPT !.roving = to]
           s == syncTabStops(r)
           d == Focused(s, to)
<1>1. k \in Layers
  BY DEF LayerTypes
<1>2. VertexElements(k) = 1..n /\ n \in Nat /\ k.focus \in 1..n /\ k.markers # << >>
  BY <1>1, LayerFields, ElementsAre
<1>3. to \in 1..n /\ to \in Nat \ {0}
  BY <1>2
<1>4. focusVertex(k, k.focus + delta) = d
  BY DEF focusVertex
<1> HIDE DEF to
<1>5. /\ r \in Layers /\ r.roving = to /\ r.points = k.points /\ r.markers = k.markers
      /\ r.focus = k.focus /\ r.stops = k.stops /\ r.grabbed = k.grabbed
      /\ r.saysGrabbed = k.saysGrabbed
  BY <1>1, <1>3, Roving
<1> HIDE DEF r
<1>6. /\ s \in Layers /\ s.points = r.points /\ s.markers = r.markers /\ s.roving = r.roving
      /\ s.grabbed = r.grabbed /\ s.saysGrabbed = r.saysGrabbed /\ s.focus = r.focus
      /\ s.stops = ({r.roving} \cap 1..Len(r.markers)) \cup (r.stops \cap {Group})
  BY <1>5, SyncedIs
<1> HIDE DEF s
<1>7. k.grabbed = NoVertex /\ k.saysGrabbed = {} /\ k.markers = k.points /\ k.stops = {k.roving}
  BY <1>2 DEF LayerSound
<1>8. s.stops = {to} /\ Group \notin s.stops
  BY <1>1, <1>3, <1>5, <1>6, <1>7, LayerFields DEF Group
<1>9. LayerTypes(d) /\ LayerSound(d) /\ d.points = k.points
  BY <1>3, <1>5, <1>6, <1>7, <1>8, FocusedIs
<1>10. QED
  BY <1>4, <1>9 DEF Sound, KeepsPlace

(* An arrow on the grabbed vertex, the host's handler done.                *)
LEMMA MovedKeepsPlace ==
  ASSUME NEW k, LayerTypes(k), LayerSound(k), NEW i \in VertexElements(k), NEW to \in Int
  PROVE  Sound(k, MovedTo(k, i, to))
<1> DEFINE moved == [k.points EXCEPT ![i] = to]
           d == [k EXCEPT !.points = moved, !.markers = moved]
<1>1. k \in Layers
  BY DEF LayerTypes
<1>2. k.markers = k.points
  BY DEF LayerSound
<1>3. moved \in Seq(Int) /\ Len(moved) = Len(k.points)
  BY <1>1, <1>2, LayerFields, ElementsAre
<1>4. MovedTo(k, i, to) = d
  BY <1>2 DEF MovedTo
<1>5. (moved = << >>) <=> (k.points = << >>)
  BY <1>1, <1>3, LayerFields
<1> HIDE DEF moved
<1>6. /\ d \in Layers /\ d.points = moved /\ d.markers = moved /\ d.roving = k.roving
      /\ d.stops = k.stops /\ d.grabbed = k.grabbed /\ d.saysGrabbed = k.saysGrabbed
      /\ d.focus = k.focus
  BY <1>1, <1>3 DEF Layers
<1> HIDE DEF d
<1>7. LayerTypes(d)
  BY <1>2, <1>3, <1>5, <1>6 DEF LayerTypes
<1>8. VertexElements(d) = VertexElements(k)
  BY <1>1, <1>2, <1>3, <1>6, LayerFields, ElementsAre
<1>9. LayerSound(d)
  BY <1>2, <1>5, <1>6, <1>8 DEF LayerSound
<1>10. QED
  BY <1>3, <1>4, <1>6, <1>7, <1>9 DEF Sound, KeepsPlace

(* The handler threw after it had rendered: the grab is let go.            *)
LEMMA LetGoKeepsPlace ==
  ASSUME NEW k, NEW d, Sound(k, d)
  PROVE  Sound(k, setGrabbed(d, NoVertex))
<1>1. LayerTypes(d) /\ LayerSound(d)
  BY DEF Sound
<1>2. d \in Layers /\ NoVertex \in Nat
  BY <1>1 DEF LayerTypes, NoVertex
<1> DEFINE e == setGrabbed(d, NoVertex)
<1>3. Sound(d, e)
  BY <1>1, GrabbingKeepsPlace
<1>4. e.points = d.points /\ e.grabbed = NoVertex /\ e.focus = d.focus /\ e.roving = d.roving
  BY <1>2, SetGrabbedIs
<1> HIDE DEF e
<1>5. KeepsPlace(k, e)
  BY <1>4 DEF Sound, KeepsPlace
<1>6. QED
  BY <1>3, <1>5 DEF Sound, e

(* startDrawMode begins with a layer that is ready to be rendered.         *)
LEMMA BlankIsReady == Ready([NoLayer EXCEPT !.on = TRUE])
<1> DEFINE k == [NoLayer EXCEPT !.on = TRUE]
           Unlit == [on : {FALSE}, points : Seq(Int), markers : Seq(Int), grabbed : Nat,
                     saysGrabbed : SUBSET Nat, roving : Nat \ {0}, stops : SUBSET Int, focus : Int]
<1>1. << >> \in Seq(Int) /\ {} \in SUBSET Nat /\ {} \in SUBSET Int
  OBVIOUS
<1>2. NoLayer \in Unlit
  BY <1>1 DEF NoLayer, NoVertex
<1>3. /\ NoLayer.focus = 0 /\ NoLayer.grabbed = 0 /\ NoLayer.points = << >>
      /\ NoLayer.saysGrabbed = {}
  BY DEF NoLayer, NoVertex
<1>4. k \in Layers /\ k.focus = NoLayer.focus /\ k.grabbed = NoLayer.grabbed
      /\ k.points = NoLayer.points /\ k.saysGrabbed = NoLayer.saysGrabbed
  BY <1>2 DEF Layers
<1> HIDE DEF k
<1>5. Ready(k)
  BY <1>3, <1>4 DEF Ready, NoVertex
<1>6. QED
  BY <1>5 DEF k

(* Without a session there is no layer.                                    *)
LEMMA NotOn == ~NoLayer.on
BY DEF NoLayer

Held(k, d) ==
  /\ d.on => LayerTypes(d) /\ LayerSound(d)
  /\ k.on /\ d.on => KeepsPlace(k, d)

LEMMA SoundHolds == ASSUME NEW k, NEW d, Sound(k, d) PROVE Held(k, d)
BY DEF Sound, Held

(* A vertex has the focus or is grabbed only in a layer.                   *)
LEMMA NoneWithoutLayer ==
  NoLayer.focus = NoVertex /\ NoLayer.grabbed = NoVertex /\ VertexElements(NoLayer) = {}
BY DEF NoLayer, VertexElements

LayerOrNone == keyboard = NoLayer \/ keyboard.on

(* One case per event of the host and of the keyboard.                     *)
LEMMA KeyboardHolds ==
  ASSUME KeyboardInv, LayerOrNone, KeyboardNext
  PROVE  Held(keyboard, keyboard') /\ LayerOrNone'
<1> DEFINE k == keyboard
<1>1. keyboard.on => k \in Layers /\ LayerTypes(k) /\ LayerSound(k) /\ Ready(k)
  BY SoundIsReady DEF KeyboardInv, LayerTypes
<1>2. \A i \in VertexElements(keyboard) : i # NoVertex
  BY <1>1, LayerFields, ElementsAre, NoneWithoutLayer DEF LayerOrNone, NoVertex
<1>3. ASSUME NEW d, Sound(k, d), k' = d PROVE Held(k, k') /\ LayerOrNone'
  <2>1. d \in Layers
    BY <1>3 DEF Sound, LayerTypes
  <2>2. d.on
    BY <2>1 DEF Layers
  <2>3. QED
    BY <1>3, <2>2, SoundHolds DEF LayerOrNone
<1>4. ASSUME NEW points \in HostDrafts, EnterKeyboard(points) PROVE Held(k, k') /\ LayerOrNone'
  <2> DEFINE blank == [NoLayer EXCEPT !.on = TRUE]
  <2>1. ~keyboard.on /\ Sound(blank, keyboard')
    BY <1>4, BlankIsReady, RenderKeepsPlace DEF EnterKeyboard
  <2>2. keyboard' \in Layers
    BY <2>1 DEF Sound, LayerTypes
  <2>3. QED
    BY <2>1, <2>2 DEF Held, Sound, LayerOrNone, Layers
<1>5. ASSUME NEW points \in HostDrafts, HostRendersVertices(points) PROVE Held(k, k') /\ LayerOrNone'
  BY <1>1, <1>3, <1>5, RenderKeepsPlace DEF HostRendersVertices
<1>6. ASSUME NEW i \in 1..MaxVertices \cup {Group}, FocusComes(i) PROVE Held(k, k') /\ LayerOrNone'
  <2>1. CASE i = Group
    <3> DEFINE d == [keyboard EXCEPT !.focus = Group]
    <3>1. keyboard.on /\ Group \in k.stops /\ keyboard' = d
      BY <1>6, <2>1 DEF FocusComes
    <3>2. k.markers = << >> /\ k.stops = {Group}
      BY <1>1, <3>1, LayerFields DEF LayerSound, Group
    <3>3. VertexElements(k) = {}
      BY <3>2 DEF VertexElements
    <3>4. /\ d \in Layers /\ d.focus = Group /\ d.points = k.points /\ d.markers = k.markers
          /\ d.roving = k.roving /\ d.stops = k.stops /\ d.grabbed = k.grabbed
          /\ d.saysGrabbed = k.saysGrabbed
      BY <1>1, <3>1, Refocused DEF Group
    <3> HIDE DEF d
    <3>5. k.grabbed = NoVertex /\ VertexElements(d) = {}
      BY <1>1, <3>1, <3>3, <3>4 DEF LayerSound, VertexElements
    <3>6. LayerSound(d)
      BY <1>1, <3>1, <3>2, <3>4, <3>5 DEF LayerSound
    <3>7. LayerTypes(d)
      BY <3>2, <3>4 DEF LayerTypes
    <3>8. Sound(k, d)
      BY <3>4, <3>6, <3>7 DEF Sound, KeepsPlace
    <3>9. QED
      BY <1>3, <3>1, <3>8
  <2>2. CASE i # Group
    <3>1. keyboard.on /\ i \in VertexElements(k) /\ keyboard' = Focused(k, i)
      BY <1>6, <2>2 DEF FocusComes
    <3>2. QED
      BY <1>1, <1>3, <3>1, FocusingKeepsPlace
  <2> QED
    BY <2>1, <2>2
<1>7. ASSUME FocusGoes PROVE Held(k, k') /\ LayerOrNone'
  <2>1. keyboard.on /\ keyboard' = Blurred(k)
    BY <1>7, NoneWithoutLayer DEF FocusGoes, LayerOrNone
  <2>2. QED
    BY <1>1, <1>3, <2>1, BlurringKeepsPlace
<1>8. ASSUME GrabKey PROVE Held(k, k') /\ LayerOrNone'
  <2>1. keyboard.on /\ k.focus \in VertexElements(k)
    BY <1>8, NoneWithoutLayer DEF GrabKey, LayerOrNone
  <2>2. PICK i \in {NoVertex, k.focus} : keyboard' = setGrabbed(k, i)
    BY <1>8 DEF GrabKey, toggleGrab
  <2>3. Sound(k, setGrabbed(k, i))
    BY <1>1, <2>1, GrabbingKeepsPlace
  <2>4. QED
    BY <1>3, <2>2, <2>3
<1>9. ASSUME EscapeKey PROVE Held(k, k') /\ LayerOrNone'
  <2>1. keyboard.on /\ keyboard' = setGrabbed(k, NoVertex)
    BY <1>9, NoneWithoutLayer DEF EscapeKey, LayerOrNone
  <2>2. Sound(k, setGrabbed(k, NoVertex))
    BY <1>1, <2>1, GrabbingKeepsPlace
  <2>3. QED
    BY <1>3, <2>1, <2>2
<1>10. ASSUME NEW delta \in {-1, 1}, ArrowMovesFocus(delta) PROVE Held(k, k') /\ LayerOrNone'
  <2>1. /\ keyboard.on /\ k.focus \in VertexElements(k) /\ k.grabbed # k.focus
        /\ keyboard' = focusVertex(k, k.focus + delta)
    BY <1>10, NoneWithoutLayer DEF ArrowMovesFocus, LayerOrNone
  <2>2. Sound(k, focusVertex(k, k.focus + delta))
    BY <1>1, <2>1, ArrowFocusKeepsPlace
  <2>3. QED
    BY <1>3, <2>1, <2>2
<1>11. ASSUME NEW delta \in {-1, 1}, ArrowMovesVertex(delta) PROVE Held(k, k') /\ LayerOrNone'
  <2> DEFINE i == k.focus
             to == k.points[i] + delta
  <2>1. /\ i \in VertexElements(k) /\ to \in 1..MaxPlace
        /\ \/ keyboard' = MovedTo(k, i, to)
           \/ keyboard' = setGrabbed(k, NoVertex)
           \/ \E points \in HostDrafts :
                \/ keyboard' = reconcileDraft(k, points)
                \/ keyboard' = setGrabbed(reconcileDraft(k, points), NoVertex)
    BY <1>11 DEF ArrowMovesVertex
  <2>2. keyboard.on /\ to \in Int
    BY <2>1, NoneWithoutLayer DEF LayerOrNone
  <2> HIDE DEF to
  <2>3. Sound(k, MovedTo(k, i, to))
    BY <1>1, <2>1, <2>2, MovedKeepsPlace
  <2>4. Sound(k, setGrabbed(k, NoVertex))
    BY <1>1, <2>2, GrabbingKeepsPlace
  <2>5. \A points \in HostDrafts : /\ Sound(k, reconcileDraft(k, points))
                                   /\ Sound(k, setGrabbed(reconcileDraft(k, points), NoVertex))
    BY <1>1, <2>2, RenderKeepsPlace, LetGoKeepsPlace
  <2>6. QED
    BY <1>3, <2>1, <2>3, <2>4, <2>5
<1>12. ASSUME ExitKeyboard PROVE Held(k, k') /\ LayerOrNone'
  BY <1>12, NotOn DEF ExitKeyboard, Held, LayerOrNone
<1>13. QED
  BY <1>4, <1>5, <1>6, <1>7, <1>8, <1>9, <1>10, <1>11, <1>12 DEF KeyboardNext

(* reconcileDraft and the keys: whatever the host renders, from within the *)
(* handler of a move too, a keyboard user stays in the layer and on the    *)
(* vertex, or on the nearest that is left, and moves none it was not told  *)
(* of.                                                                     *)
THEOREM KeyboardUserStays == KeyboardSpec => KeyboardKeepsItsPlace
<1> DEFINE Inv == KeyboardInv /\ LayerOrNone
<1>1. KeyboardInit => Inv
  BY NotOn DEF KeyboardInit, KeyboardInv, LayerOrNone
<1>2. Inv /\ [KeyboardNext]_keyboard => Inv'
  <2>1. CASE UNCHANGED keyboard
    BY <2>1 DEF KeyboardInv, LayerOrNone
  <2>2. ASSUME Inv, KeyboardNext PROVE Inv'
    BY <2>2, KeyboardHolds DEF Held, KeyboardInv
  <2>3. QED
    BY <2>1, <2>2
<1>3. Inv /\ [KeyboardNext]_keyboard =>
        [/\ keyboard'.on => LayerSound(keyboard')
         /\ keyboard.on /\ keyboard'.on /\ Len(keyboard'.points) # Len(keyboard.points)
              => /\ keyboard'.grabbed = NoVertex
                 /\ keyboard.focus # NoVertex =>
                      keyboard'.focus = IF keyboard'.points = << >> THEN Group
                                     ELSE IF keyboard.focus = Group THEN keyboard'.roving
                                     ELSE Least(keyboard.focus, Len(keyboard'.points))]_keyboard
  BY KeyboardHolds DEF Held, KeepsPlace
<1> QED
  BY <1>1, <1>2, <1>3, PTL DEF KeyboardSpec, KeyboardKeepsItsPlace

-----------------------------------------------------------------------------
(***************************************************************************)
(* The marks of the map (MapMarks).                                        *)
(***************************************************************************)

(* The loop over the marks has a state after each of them: the recursive   *)
(* function of Placing exists, for a list of any length.                   *)
LoopTo(looked, begun, marks, n) ==
  looked = [i \in 0..n |-> IF i = 0 THEN begun ELSE place(looked[i - 1], marks[i])]

LEMMA LoopGoesOn ==
  ASSUME NEW begun, NEW marks, NEW n \in Nat
  PROVE  \E looked : LoopTo(looked, begun, marks, n)
<1> DEFINE Stuck == {m \in Nat : ~\E looked : LoopTo(looked, begun, marks, m)}
<1>1. SUFFICES ASSUME Stuck # {} PROVE FALSE
  OBVIOUS
<1>2. PICK m \in Stuck : \A k \in Stuck : m <= k
  BY <1>1, LeastNatural
<1>3. m \in Nat /\ \A k \in 0..(m - 1) : k \notin Stuck
  BY <1>2
<1>4. CASE m = 0
  <2>1. LoopTo([i \in 0..0 |-> begun], begun, marks, 0)
    BY DEF LoopTo
  <2>2. QED
    BY <1>2, <1>4, <2>1
<1>5. CASE m # 0
  <2>1. PICK looked : LoopTo(looked, begun, marks, m - 1)
    BY <1>3, <1>5
  <2> DEFINE longer == [i \in 0..m |-> IF i = m THEN place(looked[m - 1], marks[m]) ELSE looked[i]]
  <2>2. ASSUME NEW i \in 0..m
        PROVE  longer[i] = IF i = 0 THEN begun ELSE place(longer[i - 1], marks[i])
    <3>1. \A j \in 0..(m - 1) : looked[j] = IF j = 0 THEN begun ELSE place(looked[j - 1], marks[j])
      BY <2>1 DEF LoopTo
    <3>2. CASE i = m
      BY <1>3, <1>5, <3>2
    <3>3. CASE i # m
      BY <1>3, <1>5, <3>1, <3>3
    <3> QED
      BY <3>2, <3>3
  <2>3. longer = [i \in 0..m |-> IF i = 0 THEN begun ELSE place(longer[i - 1], marks[i])]
    <3> HIDE DEF longer
    <3>1. DOMAIN longer = 0..m /\ longer = [i \in 0..m |-> longer[i]]
      BY DEF longer
    <3>2. QED
      BY <2>2, <3>1, Zenon
  <2>4. LoopTo(longer, begun, marks, m)
    BY <2>3, Zenon DEF LoopTo
  <2>5. QED
    BY <1>2, <2>4
<1> QED
  BY <1>4, <1>5

LEMMA PlacingIs ==
  ASSUME NEW begun, NEW marks, Len(marks) \in Nat
  PROVE  \E looked : /\ looked[0] = begun
                     /\ \A i \in 1..Len(marks) : looked[i] = place(looked[i - 1], marks[i])
                     /\ Placing(begun, marks) = looked[Len(marks)]
<1> DEFINE f == CHOOSE looked : LoopTo(looked, begun, marks, Len(marks))
<1>1. LoopTo(f, begun, marks, Len(marks))
  BY LoopGoesOn
<1>2. Placing(begun, marks) = f[Len(marks)]
  BY DEF Placing, LoopTo
<1> HIDE DEF f
<1>3. \A i \in 0..Len(marks) : f[i] = IF i = 0 THEN begun ELSE place(f[i - 1], marks[i])
  BY <1>1 DEF LoopTo
<1>4. QED
  BY <1>2, <1>3

-----------------------------------------------------------------------------
(* One element.  Its classes are the renderer's and those put there.       *)
ElementFields == {"anchor", "classes", "owned", "says", "at"}

Element(e) ==
  /\ DOMAIN e = ElementFields
  /\ e.classes = {RendererClass} \cup e.owned /\ RendererClass \notin e.owned

Decent(look) == RendererClass \notin look.classes

Matches(e, mark) ==
  /\ Element(e)
  /\ e.at = mark.at /\ e.anchor = mark.style.anchor /\ e.says = mark.style.says
  /\ e.owned = {WrapperClass} \cup mark.style.classes

LEMMA RefreshedIs ==
  ASSUME NEW e, Element(e), NEW mark, Decent(mark.style), e.anchor = mark.style.anchor
  PROVE  Matches(Refreshed(e, mark), mark)
<1> DEFINE look == mark.style
           owned == {WrapperClass} \cup look.classes
           d == applyMarkerStyle(e, look)
           f == [d EXCEPT !.at = mark.at]
<1>1. RendererClass \notin owned
  BY DEF Decent, RendererClass, WrapperClass
<1>2. Reclassed(e, owned) = {RendererClass} \cup owned
  BY <1>1 DEF Element, Reclassed
<1> HIDE DEF owned
<1>3. /\ DOMAIN d = ElementFields /\ d.anchor = e.anchor /\ d.owned = owned
      /\ d.classes = {RendererClass} \cup owned /\ d.says = look.says
  BY <1>2 DEF applyMarkerStyle, Element, ElementFields, owned
<1> HIDE DEF d
<1>4. /\ DOMAIN f = ElementFields /\ f.anchor = d.anchor /\ f.owned = d.owned
      /\ f.classes = d.classes /\ f.says = d.says /\ f.at = mark.at
  BY <1>3 DEF ElementFields
<1>5. Refreshed(e, mark) = f
  BY DEF Refreshed, d
<1> HIDE DEF f
<1>6. QED
  BY <1>1, <1>3, <1>4, <1>5 DEF Matches, Element, owned

LEMMA CreatedIs ==
  ASSUME NEW mark
  PROVE  LET e == createMarkerElement(mark) IN Element(e) /\ e.anchor = mark.style.anchor
BY DEF createMarkerElement, Element, ElementFields

-----------------------------------------------------------------------------
(* The loop over the marks.                                                *)
AllKeys == KeysOf(Tracks, EventLists)

Keys(marks, i) == {marks[j].key : j \in 1..i}

Unlike(marks) == \A i, j \in 1..Len(marks) : marks[i].key = marks[j].key => i = j

Placeable(marks) ==
  /\ Len(marks) \in Nat
  /\ \A i \in 1..Len(marks) : marks[i].key \in AllKeys /\ Decent(marks[i].style)
  /\ Unlike(marks)

(* What is on the page between renders.                                    *)
PageInv ==
  /\ DOMAIN placed \subseteq AllKeys
  /\ \A k \in DOMAIN placed : Element(placed[k])
  /\ DOMAIN attached = AllKeys
  /\ \A k \in AllKeys : attached[k] = IF k \in DOMAIN placed THEN 1 ELSE 0
  /\ focus \in DOMAIN placed \cup {Nowhere}

PageFields == {"old", "next", "attached", "focus"}

(* The focus stays with an element that is used again.                     *)
Reused(marks, i) ==
  focus \in DOMAIN placed /\ \E j \in 1..i : marks[j].key = focus /\ Reuses(placed[focus], marks[j])

(* After i marks: which are left of the old, what the new ones are, and    *)
(* where the focus is.                                                     *)
Looked(marks, i, d) ==
  /\ DOMAIN d = PageFields
  /\ DOMAIN d.old = DOMAIN placed \ Keys(marks, i)
  /\ \A k \in DOMAIN d.old : d.old[k] = placed[k]
  /\ DOMAIN d.next = Keys(marks, i)
  /\ \A j \in 1..i : Matches(d.next[marks[j].key], marks[j])
  /\ DOMAIN d.attached = AllKeys
  /\ \A k \in AllKeys : d.attached[k] = IF k \in Keys(marks, i) \cup DOMAIN placed THEN 1 ELSE 0
  /\ d.focus \in {focus, Nowhere}
  /\ d.focus = focus \/ (focus \in Keys(marks, i) /\ ~Reused(marks, i))

LEMMA KeysGrow ==
  ASSUME NEW marks, Placeable(marks), NEW i \in 1..Len(marks)
  PROVE  /\ Keys(marks, i) = Keys(marks, i - 1) \cup {marks[i].key}
         /\ marks[i].key \notin Keys(marks, i - 1)
         /\ marks[i].key \in AllKeys
<1>1. Len(marks) \in Nat /\ 1..i = 1..(i - 1) \cup {i} /\ i \notin 1..(i - 1)
  BY DEF Placeable
<1>2. 1..i \subseteq 1..Len(marks)
  BY <1>1
<1>3. QED
  BY <1>1, <1>2 DEF Placeable, Unlike, Keys

(* The fields of the steps of place.                                       *)
LEMMA LookedAtIs ==
  ASSUME NEW d, DOMAIN d = PageFields, NEW key
  PROVE  LET e == LookedAt(d, key)
         IN  /\ DOMAIN e = PageFields /\ e.old = [k \in DOMAIN d.old \ {key} |-> d.old[k]]
             /\ e.next = d.next /\ e.attached = d.attached /\ e.focus = d.focus
BY DEF LookedAt, PageFields

LEMMA DroppedIs ==
  ASSUME NEW d, DOMAIN d = PageFields, NEW key
  PROVE  LET e == Dropped(d, key)
         IN  /\ DOMAIN e = PageFields /\ e.old = d.old /\ e.next = d.next
             /\ e.attached = Fewer(d.attached, {key}) /\ e.focus = Unfocused(d.focus, {key})
BY DEF Dropped, PageFields

LEMMA AnewIs ==
  ASSUME NEW d, DOMAIN d = PageFields, NEW mark, mark.key \in DOMAIN d.attached
  PROVE  LET e == Anew(d, mark)
         IN  /\ DOMAIN e = PageFields /\ e.old = d.old /\ e.focus = d.focus
             /\ DOMAIN e.attached = DOMAIN d.attached
             /\ \A k \in DOMAIN d.attached :
                  e.attached[k] = IF k = mark.key THEN d.attached[k] + 1 ELSE d.attached[k]
             /\ e.next = With(d.next, mark.key, Refreshed(createMarkerElement(mark), mark))
<1> DEFINE counts == [d.attached EXCEPT ![mark.key] = @ + 1]
           all == With(d.next, mark.key, Refreshed(createMarkerElement(mark), mark))
           e == [d EXCEPT !.attached = counts, !.next = all]
<1>1. Anew(d, mark) = e
  BY DEF Anew
<1>2. /\ DOMAIN counts = DOMAIN d.attached
      /\ \A k \in DOMAIN d.attached :
           counts[k] = IF k = mark.key THEN d.attached[k] + 1 ELSE d.attached[k]
  OBVIOUS
<1> HIDE DEF counts, all
<1>3. /\ DOMAIN e = PageFields /\ e.old = d.old /\ e.focus = d.focus
      /\ e.attached = counts /\ e.next = all
  BY DEF PageFields
<1> HIDE DEF e
<1>4. QED
  BY <1>1, <1>2, <1>3 DEF all

(* The new element joins those placed before.                              *)
LEMMA JoinedIs ==
  ASSUME NEW marks, Placeable(marks), NEW i \in 1..Len(marks), NEW next,
         DOMAIN next = Keys(marks, i - 1),
         \A j \in 1..(i - 1) : Matches(next[marks[j].key], marks[j]),
         NEW e, Matches(e, marks[i])
  PROVE  LET joined == With(next, marks[i].key, e)
         IN  /\ DOMAIN joined = Keys(marks, i)
             /\ \A j \in 1..i : Matches(joined[marks[j].key], marks[j])
<1> DEFINE joined == With(next, marks[i].key, e)
<1>1. /\ Keys(marks, i) = Keys(marks, i - 1) \cup {marks[i].key}
      /\ marks[i].key \notin Keys(marks, i - 1)
  BY KeysGrow
<1>2. DOMAIN joined = Keys(marks, i)
  BY <1>1 DEF With
<1>3. ASSUME NEW j \in 1..i PROVE Matches(joined[marks[j].key], marks[j])
  <2>1. CASE j = i
    BY <1>1, <2>1 DEF With
  <2>2. CASE j # i
    <3>1. j \in 1..(i - 1)
      BY <2>2 DEF Placeable
    <3>2. marks[j].key \in Keys(marks, i - 1)
      BY <3>1 DEF Keys
    <3>3. joined[marks[j].key] = next[marks[j].key]
      BY <1>1, <3>2 DEF With
    <3>4. QED
      BY <3>1, <3>3
  <2> QED
    BY <2>1, <2>2
<1>4. QED
  BY <1>2, <1>3

(* A mark met later is of no key met before.                               *)
LEMMA ReusedGrows ==
  ASSUME NEW marks, Placeable(marks), NEW i \in 1..Len(marks)
  PROVE  /\ Reused(marks, i - 1) => Reused(marks, i)
         /\ focus \in Keys(marks, i - 1) /\ Reused(marks, i) => Reused(marks, i - 1)
         /\ marks[i].key = focus /\ Reused(marks, i) => Reuses(placed[focus], marks[i])
<1>1. /\ Keys(marks, i) = Keys(marks, i - 1) \cup {marks[i].key}
      /\ marks[i].key \notin Keys(marks, i - 1)
  BY KeysGrow
<1>2. Len(marks) \in Nat /\ 1..i = 1..(i - 1) \cup {i}
  BY DEF Placeable
<1>3. \A j \in 1..(i - 1) : marks[j].key \in Keys(marks, i - 1)
  BY DEF Keys
<1>4. \A j \in 1..(i - 1) : marks[j].key # marks[i].key
  BY <1>1, <1>3
<1>5. QED
  BY <1>1, <1>2, <1>3, <1>4, Zenon DEF Reused

(* One mark is placed: anew, on the element it had, or anew in its stead.  *)
LEMMA PlaceLooks ==
  ASSUME MapMarksAssumption, PageInv, NEW marks, Placeable(marks), NEW i \in 1..Len(marks),
         NEW d, Looked(marks, i - 1, d)
  PROVE  Looked(marks, i, place(d, marks[i]))
<1> DEFINE mark == marks[i]
           key == mark.key
           fresh == createMarkerElement(mark)
<1>1. /\ Keys(marks, i) = Keys(marks, i - 1) \cup {key}
      /\ key \notin Keys(marks, i - 1) /\ key \in AllKeys
  BY KeysGrow
<1>2. /\ DOMAIN d = PageFields
      /\ DOMAIN d.old = DOMAIN placed \ Keys(marks, i - 1)
      /\ \A k \in DOMAIN d.old : d.old[k] = placed[k]
      /\ DOMAIN d.next = Keys(marks, i - 1)
      /\ \A j \in 1..(i - 1) : Matches(d.next[marks[j].key], marks[j])
      /\ DOMAIN d.attached = AllKeys
      /\ \A k \in AllKeys : d.attached[k] = IF k \in Keys(marks, i - 1) \cup DOMAIN placed THEN 1 ELSE 0
      /\ d.focus \in {focus, Nowhere}
      /\ d.focus = focus \/ (focus \in Keys(marks, i - 1) /\ ~Reused(marks, i - 1))
  BY DEF Looked
<1>3. Decent(mark.style)
  BY DEF Placeable
<1>4. Element(fresh) /\ fresh.anchor = mark.style.anchor
  BY CreatedIs
<1>5. Matches(Refreshed(fresh, mark), mark)
  <2> HIDE DEF fresh
  <2> QED BY <1>3, <1>4, RefreshedIs
<1>6. /\ focus \in Keys(marks, i - 1) /\ Reused(marks, i) => Reused(marks, i - 1)
      /\ key = focus /\ Reused(marks, i) => Reuses(placed[focus], mark)
  BY ReusedGrows
<1>7. key # Nowhere
  BY <1>1 DEF MapMarksAssumption, AllKeys
<1> HIDE DEF mark, fresh
<1>8. CASE key \notin DOMAIN d.old
  <2> DEFINE e == Anew(d, mark)
  <2>1. place(d, mark) = e
    BY <1>8 DEF place
  <2>2. /\ DOMAIN e = PageFields /\ e.old = d.old /\ e.focus = d.focus
        /\ DOMAIN e.attached = DOMAIN d.attached
        /\ \A k \in DOMAIN d.attached :
             e.attached[k] = IF k = key THEN d.attached[k] + 1 ELSE d.attached[k]
        /\ e.next = With(d.next, key, Refreshed(fresh, mark))
    BY <1>1, <1>2, AnewIs DEF fresh
  <2> HIDE DEF e
  <2>3. /\ DOMAIN e.next = Keys(marks, i)
        /\ \A j \in 1..i : Matches(e.next[marks[j].key], marks[j])
    <3> DEFINE made == Refreshed(fresh, mark)
    <3>1. e.next = With(d.next, key, made) /\ Matches(made, mark)
      BY <1>5, <2>2
    <3> HIDE DEF made
    <3> DEFINE joined == With(d.next, key, made)
    <3>2. /\ DOMAIN joined = Keys(marks, i)
          /\ \A j \in 1..i : Matches(joined[marks[j].key], marks[j])
      BY <1>2, <3>1, JoinedIs DEF mark
    <3> HIDE DEF joined
    <3> QED
      BY <3>1, <3>2 DEF joined
  <2>4. key \notin DOMAIN placed
    BY <1>1, <1>2, <1>8
  <2>5. \A k \in AllKeys : e.attached[k] = IF k \in Keys(marks, i) \cup DOMAIN placed THEN 1 ELSE 0
    BY <1>1, <1>2, <2>2, <2>4
  <2>6. DOMAIN e.old = DOMAIN placed \ Keys(marks, i)
    BY <1>1, <1>2, <2>2, <2>4
  <2>7. e.focus = focus \/ (focus \in Keys(marks, i) /\ ~Reused(marks, i))
    BY <1>1, <1>2, <1>6, <2>2
  <2>8. Looked(marks, i, e)
    BY <1>2, <2>2, <2>3, <2>5, <2>6, <2>7 DEF Looked
  <2>9. QED
    BY <2>1, <2>8 DEF mark
<1>9. CASE key \in DOMAIN d.old /\ Reuses(d.old[key], mark)
  <2> DEFINE had == d.old[key]
             rest == LookedAt(d, key)
             all == With(rest.next, key, Refreshed(had, mark))
             e == [rest EXCEPT !.next = all]
  <2>1. place(d, mark) = e
    BY <1>9, Zenon DEF place
  <2>2. /\ DOMAIN rest = PageFields /\ rest.old = [k \in DOMAIN d.old \ {key} |-> d.old[k]]
        /\ rest.next = d.next /\ rest.attached = d.attached /\ rest.focus = d.focus
    BY <1>2, LookedAtIs
  <2>3. Matches(Refreshed(had, mark), mark)
    <3>1. Element(had) /\ had.anchor = mark.style.anchor
      BY <1>2, <1>9 DEF PageInv, Reuses
    <3> HIDE DEF had
    <3> QED BY <1>3, <3>1, RefreshedIs
  <2> HIDE DEF rest, all, had
  <2>4. /\ DOMAIN e = PageFields /\ e.old = rest.old /\ e.attached = rest.attached
        /\ e.focus = rest.focus /\ e.next = all
    BY <2>2 DEF PageFields
  <2> HIDE DEF e
  <2>5. /\ DOMAIN all = Keys(marks, i)
        /\ \A j \in 1..i : Matches(all[marks[j].key], marks[j])
    BY <1>2, <2>2, <2>3, JoinedIs DEF mark, all
  <2>6. key \in DOMAIN placed
    BY <1>2, <1>9
  <2>7. \A k \in AllKeys : e.attached[k] = IF k \in Keys(marks, i) \cup DOMAIN placed THEN 1 ELSE 0
    BY <1>1, <1>2, <2>2, <2>4, <2>6
  <2>8. /\ DOMAIN e.old = DOMAIN placed \ Keys(marks, i)
        /\ \A k \in DOMAIN e.old : e.old[k] = placed[k]
    BY <1>1, <1>2, <2>2, <2>4
  <2>9. e.focus = focus \/ (focus \in Keys(marks, i) /\ ~Reused(marks, i))
    BY <1>1, <1>2, <1>6, <2>2, <2>4
  <2>10. Looked(marks, i, e)
    BY <1>2, <2>2, <2>4, <2>5, <2>7, <2>8, <2>9 DEF Looked
  <2>11. QED
    BY <2>1, <2>10 DEF mark
<1>10. CASE key \in DOMAIN d.old /\ ~Reuses(d.old[key], mark)
  <2> DEFINE rest == LookedAt(d, key)
             gone == Dropped(rest, key)
             e == Anew(gone, mark)
  <2>1. place(d, mark) = e
    BY <1>10, Zenon DEF place
  <2>2. /\ DOMAIN rest = PageFields /\ rest.old = [k \in DOMAIN d.old \ {key} |-> d.old[k]]
        /\ rest.next = d.next /\ rest.attached = d.attached /\ rest.focus = d.focus
    BY <1>2, LookedAtIs
  <2> HIDE DEF rest
  <2>3. /\ DOMAIN gone = PageFields /\ gone.old = rest.old /\ gone.next = rest.next
        /\ gone.attached = Fewer(rest.attached, {key}) /\ gone.focus = Unfocused(rest.focus, {key})
    <3>1. DOMAIN rest = PageFields
      BY <2>2
    <3> HIDE DEF key
    <3>2. QED
      BY <3>1, DroppedIs
  <2> HIDE DEF gone
  <2>4. /\ DOMAIN gone.attached = AllKeys
        /\ \A k \in AllKeys :
             gone.attached[k] = IF k = key THEN d.attached[k] - 1 ELSE d.attached[k]
    BY <1>2, <2>2, <2>3 DEF Fewer
  <2>5. /\ DOMAIN e = PageFields /\ e.old = gone.old /\ e.focus = gone.focus
        /\ DOMAIN e.attached = DOMAIN gone.attached
        /\ \A k \in DOMAIN gone.attached :
             e.attached[k] = IF k = key THEN gone.attached[k] + 1 ELSE gone.attached[k]
        /\ e.next = With(gone.next, key, Refreshed(fresh, mark))
    BY <1>1, <2>3, <2>4, AnewIs DEF fresh
  <2> HIDE DEF e
  <2>6. /\ DOMAIN e.next = Keys(marks, i)
        /\ \A j \in 1..i : Matches(e.next[marks[j].key], marks[j])
    <3> DEFINE made == Refreshed(fresh, mark)
    <3>1. e.next = With(d.next, key, made) /\ Matches(made, mark)
      BY <1>5, <2>2, <2>3, <2>5
    <3> HIDE DEF made
    <3> DEFINE joined == With(d.next, key, made)
    <3>2. /\ DOMAIN joined = Keys(marks, i)
          /\ \A j \in 1..i : Matches(joined[marks[j].key], marks[j])
      BY <1>2, <3>1, JoinedIs DEF mark
    <3> HIDE DEF joined
    <3> QED
      BY <3>1, <3>2 DEF joined
  <2>7. key \in DOMAIN placed
    BY <1>2, <1>10
  <2>8. \A k \in AllKeys : e.attached[k] = IF k \in Keys(marks, i) \cup DOMAIN placed THEN 1 ELSE 0
    BY <1>1, <1>2, <2>4, <2>5, <2>7
  <2>9. /\ DOMAIN e.old = DOMAIN placed \ Keys(marks, i)
        /\ \A k \in DOMAIN e.old : e.old[k] = placed[k]
    BY <1>1, <1>2, <2>2, <2>3, <2>5
  <2>10. /\ e.focus \in {focus, Nowhere}
         /\ e.focus = focus \/ (focus \in Keys(marks, i) /\ ~Reused(marks, i))
    <3>1. e.focus = IF d.focus = key THEN Nowhere ELSE d.focus
      BY <2>2, <2>3, <2>5 DEF Unfocused
    <3>2. CASE d.focus # key
      BY <1>1, <1>2, <1>6, <3>1, <3>2
    <3>3. CASE d.focus = key
      <4>1. focus = key
        BY <1>2, <1>7, <3>3
      <4>2. ~Reuses(placed[focus], mark)
        BY <1>2, <1>10, <4>1
      <4> QED
        BY <1>1, <1>6, <3>1, <3>3, <4>1, <4>2
    <3> QED
      BY <3>2, <3>3
  <2>11. Looked(marks, i, e)
    BY <1>2, <2>4, <2>5, <2>6, <2>8, <2>9, <2>10 DEF Looked
  <2>12. QED
    BY <2>1, <2>11 DEF mark
<1>11. QED
  BY <1>8, <1>9, <1>10

(* The whole loop.                                                         *)
LEMMA PlacingLooks ==
  ASSUME MapMarksAssumption, PageInv, NEW marks, Placeable(marks)
  PROVE  Looked(marks, Len(marks),
                Placing([old |-> placed, next |-> << >>, attached |-> attached, focus |-> focus], marks))
<1> DEFINE begun == [old |-> placed, next |-> << >>, attached |-> attached, focus |-> focus]
<1>1. Len(marks) \in Nat
  BY DEF Placeable
<1>2. Keys(marks, 0) = {} /\ 1..0 = {}
  BY DEF Keys
<1>3. Looked(marks, 0, begun)
  <2>1. /\ DOMAIN begun = PageFields /\ begun.old = placed /\ begun.next = << >>
        /\ begun.attached = attached /\ begun.focus = focus /\ DOMAIN << >> = {}
    BY DEF PageFields
  <2> HIDE DEF begun
  <2>2. /\ DOMAIN begun.old = DOMAIN placed \ Keys(marks, 0)
        /\ \A k \in DOMAIN begun.old : begun.old[k] = placed[k]
        /\ DOMAIN begun.next = Keys(marks, 0)
    BY <1>2, <2>1
  <2>3. /\ DOMAIN begun.attached = AllKeys
        /\ \A k \in AllKeys :
             begun.attached[k] = IF k \in Keys(marks, 0) \cup DOMAIN placed THEN 1 ELSE 0
    BY <1>2, <2>1 DEF PageInv
  <2>4. QED
    BY <1>2, <2>1, <2>2, <2>3 DEF Looked
<1> HIDE DEF begun
<1>4. PICK looked : /\ looked[0] = begun
                    /\ \A i \in 1..Len(marks) : looked[i] = place(looked[i - 1], marks[i])
                    /\ Placing(begun, marks) = looked[Len(marks)]
  BY <1>1, PlacingIs
<1> DEFINE Wrong == {i \in 0..Len(marks) : ~Looked(marks, i, looked[i])}
<1>5. ASSUME Wrong # {} PROVE FALSE
  <2>1. Wrong \in SUBSET Nat
    BY <1>1
  <2>2. PICK i \in Wrong : \A j \in Wrong : i <= j
    <3> HIDE DEF Wrong
    <3> QED BY <1>5, <2>1, LeastNatural
  <2>3. i \in 0..Len(marks) /\ ~Looked(marks, i, looked[i])
    BY <2>2
  <2>4. i # 0
    BY <1>3, <1>4, <2>3
  <2>5. i \in 1..Len(marks) /\ i - 1 \in 0..Len(marks) /\ ~(i <= i - 1)
    BY <1>1, <2>3, <2>4
  <2>6. i - 1 \notin Wrong
    BY <2>2, <2>5
  <2>7. Looked(marks, i - 1, looked[i - 1])
    BY <2>5, <2>6
  <2>8. Looked(marks, i, place(looked[i - 1], marks[i]))
    BY <2>5, <2>7, PlaceLooks
  <2>9. QED
    BY <1>4, <2>3, <2>5, <2>8
<1>6. Looked(marks, Len(marks), looked[Len(marks)])
  BY <1>1, <1>5
<1>7. QED
  BY <1>4, <1>6 DEF begun

(* What is on the page answers to a list of marks.                         *)
Filled(page, marks) ==
  /\ DOMAIN page = Keys(marks, Len(marks))
  /\ \A j \in 1..Len(marks) : Matches(page[marks[j].key], marks[j])

LEMMA RenderFills ==
  ASSUME MapMarksAssumption, PageInv, NEW r, Placeable(Marks(r)), applyRender(r)
  PROVE  /\ PageInv' /\ Filled(placed', Marks(r))
         /\ lines' = [track |-> r.track, draft |-> r.draft]
         /\ focus # Nowhere /\ Reused(Marks(r), Len(Marks(r))) => focus' = focus
<1> DEFINE marks == Marks(r)
           n == Len(marks)
           done == Placing([old |-> placed, next |-> << >>, attached |-> attached,
                            focus |-> focus], marks)
<1>1. /\ lines' = [track |-> r.track, draft |-> r.draft] /\ placed' = done.next
      /\ attached' = Fewer(done.attached, DOMAIN done.old)
      /\ focus' = Unfocused(done.focus, DOMAIN done.old)
  BY Zenon DEF applyRender
<1>2. Looked(marks, n, done)
  BY PlacingLooks
<1>3. n \in Nat /\ \A i \in 1..n : marks[i].key \in AllKeys
  BY DEF Placeable
<1> HIDE DEF marks, n, done
<1>4. /\ DOMAIN done.old = DOMAIN placed \ Keys(marks, n)
      /\ DOMAIN done.next = Keys(marks, n)
      /\ \A j \in 1..n : Matches(done.next[marks[j].key], marks[j])
      /\ DOMAIN done.attached = AllKeys
      /\ \A k \in AllKeys : done.attached[k] = IF k \in Keys(marks, n) \cup DOMAIN placed THEN 1 ELSE 0
      /\ done.focus \in {focus, Nowhere}
      /\ done.focus = focus \/ (focus \in Keys(marks, n) /\ ~Reused(marks, n))
  BY <1>2 DEF Looked
<1>5. DOMAIN placed' = Keys(marks, n) /\ Keys(marks, n) \subseteq AllKeys
  BY <1>1, <1>3, <1>4 DEF Keys
<1>6. \A k \in DOMAIN placed' : Element(placed'[k])
  <2>1. \A k \in Keys(marks, n) : \E j \in 1..n : k = marks[j].key
    BY DEF Keys
  <2>2. QED
    BY <1>1, <1>4, <1>5, <2>1 DEF Matches
<1>7. /\ DOMAIN attached' = AllKeys
      /\ \A k \in AllKeys : attached'[k] = IF k \in DOMAIN placed' THEN 1 ELSE 0
  BY <1>1, <1>4, <1>5 DEF Fewer
<1>8. focus' \in DOMAIN placed' \cup {Nowhere}
  BY <1>1, <1>4, <1>5 DEF PageInv, Unfocused
<1>9. PageInv'
  <2>1. AllKeys' = AllKeys
    BY DEF AllKeys, KeysOf
  <2>2. QED
    BY <1>5, <1>6, <1>7, <1>8, <2>1 DEF PageInv, Element
<1>10. ASSUME focus # Nowhere, Reused(marks, n)
       PROVE  focus' = focus
  <2>1. focus \in Keys(marks, n)
    BY <1>10 DEF Reused, Keys
  <2>2. QED
    BY <1>1, <1>4, <1>10, <2>1 DEF Unfocused
<1>11. Filled(placed', marks)
  BY <1>1, <1>4, <1>5 DEF Filled, n
<1>12. QED
  BY <1>1, <1>9, <1>10, <1>11 DEF marks, n

-----------------------------------------------------------------------------
(* The lists of marks.  A list has the marks of a set, each once.          *)
Lists(list, S) ==
  /\ list \in Seq(S) /\ S = {list[i] : i \in 1..Len(list)}
  /\ Unlike(list)

LEMMA ListsJoin ==
  ASSUME NEW a, NEW b, NEW S, NEW T, Lists(a, S), Lists(b, T),
         \A x \in S, y \in T : x.key # y.key
  PROVE  Lists(a \o b, S \cup T)
<1> DEFINE c == a \o b
<1>1. a \in Seq(S \cup T) /\ b \in Seq(S \cup T) /\ Len(a) \in Nat /\ Len(b) \in Nat
  BY DEF Lists
<1>2. /\ c \in Seq(S \cup T) /\ Len(c) = Len(a) + Len(b)
      /\ \A i \in 1..Len(a) + Len(b) : c[i] = IF i <= Len(a) THEN a[i] ELSE b[i - Len(a)]
  BY <1>1
<1> HIDE DEF c
<1>3. /\ \A i \in 1..Len(a) : i \in 1..Len(c) /\ c[i] = a[i]
      /\ \A i \in 1..Len(b) : i + Len(a) \in 1..Len(c) /\ c[i + Len(a)] = b[i]
  <2>1. ASSUME NEW i \in 1..Len(b)
        PROVE  i + Len(a) \in 1..Len(c) /\ c[i + Len(a)] = b[i]
    <3>1. /\ i + Len(a) \in 1..Len(a) + Len(b) /\ ~(i + Len(a) <= Len(a))
          /\ (i + Len(a)) - Len(a) = i
      BY <1>1
    <3>2. QED
      BY <1>2, <3>1
  <2>2. \A i \in 1..Len(a) : i \in 1..Len(c) /\ c[i] = a[i]
    BY <1>1, <1>2
  <2>3. QED
    BY <2>1, <2>2
<1>4. \A i \in 1..Len(c) :
        \/ i \in 1..Len(a) /\ c[i] = a[i] /\ c[i] \in S
        \/ i - Len(a) \in 1..Len(b) /\ c[i] = b[i - Len(a)] /\ c[i] \in T
  <2>1. \A i \in 1..Len(a) : a[i] \in S
    BY DEF Lists
  <2>2. \A i \in 1..Len(b) : b[i] \in T
    BY DEF Lists
  <2>3. QED
    BY <1>1, <1>2, <2>1, <2>2, SMTT(30)
<1>5. S \cup T = {c[i] : i \in 1..Len(c)}
  <2>1. \A x \in S : \E i \in 1..Len(a) : x = a[i]
    BY DEF Lists
  <2>2. \A x \in T : \E i \in 1..Len(b) : x = b[i]
    BY DEF Lists
  <2>3. \A x \in S \cup T : \E i \in 1..Len(c) : x = c[i]
    BY <1>3, <2>1, <2>2, SMTT(30)
  <2>4. \A i \in 1..Len(c) : c[i] \in S \cup T
    BY <1>4
  <2>5. QED
    BY <2>3, <2>4
<1>6. ASSUME NEW i \in 1..Len(c), NEW j \in 1..Len(c), c[i].key = c[j].key
      PROVE  i = j
  <2>1. CASE i \in 1..Len(a) /\ c[i] = a[i] /\ c[i] \in S
    <3>1. j \in 1..Len(a) /\ c[j] = a[j]
      BY <1>4, <1>6, <2>1
    <3>2. QED
      BY <1>6, <2>1, <3>1 DEF Lists, Unlike
  <2>2. CASE i - Len(a) \in 1..Len(b) /\ c[i] = b[i - Len(a)] /\ c[i] \in T
    <3>1. j - Len(a) \in 1..Len(b) /\ c[j] = b[j - Len(a)]
      BY <1>4, <1>6, <2>2
    <3>2. i - Len(a) = j - Len(a)
      BY <1>6, <2>2, <3>1 DEF Lists, Unlike
    <3>3. QED
      BY <1>1, <1>2, <3>2
  <2>3. QED
    BY <1>4, <2>1, <2>2
<1>7. Lists(c, S \cup T)
  BY <1>2, <1>5, <1>6 DEF Lists, Unlike
<1>8. QED
  BY <1>7 DEF c

LEMMA ListsOfOne ==
  ASSUME NEW x
  PROVE  Lists(<<x>>, {x})
BY DEF Lists, Unlike

LEMMA ListsOfNone == Lists(<< >>, {})
BY DEF Lists, Unlike

(* One mark of each element of a list with unique ids.                     *)
LEMMA ListsOfEach ==
  ASSUME NEW list, Unique(list), NEW marks, marks = [i \in DOMAIN list |-> marks[i]],
         \A i, j \in DOMAIN list : marks[i].key = marks[j].key => list[i].id = list[j].id
  PROVE  Lists(marks, {marks[i] : i \in DOMAIN list})
<1> DEFINE S == {marks[i] : i \in DOMAIN list}
<1>1. Len(list) \in Nat /\ DOMAIN list = 1..Len(list)
  BY DEF Unique
<1>2. \A i \in DOMAIN list : marks[i] \in S
  OBVIOUS
<1>3. marks \in [1..Len(list) -> S]
  BY <1>1, <1>2
<1>4. marks \in Seq(S) /\ Len(marks) = Len(list)
  BY <1>1, <1>3
<1>5. Unlike(marks)
  <2> HIDE DEF S
  <2>1. \A i, j \in 1..Len(marks) : i \in DOMAIN list /\ j \in DOMAIN list
    BY <1>1, <1>4
  <2>2. \A i, j \in DOMAIN list : list[i].id = list[j].id => i = j
    BY DEF Unique
  <2>3. \A i, j \in DOMAIN list : marks[i].key = marks[j].key => list[i].id = list[j].id
    OBVIOUS
  <2>4. QED
    BY <2>1, <2>2, <2>3, Zenon DEF Unlike
<1>6. QED
  BY <1>1, <1>4, <1>5 DEF Lists

-----------------------------------------------------------------------------
(* What is asked for, part by part, and the marks of it.                   *)
EndsAsked(t, p) == {<<<<"start", t.id>>, "start", t.from, p.start>>,
                    <<<<"finish", t.id>>, "finish", t.to, p.finish>>}

LapsAsked(t, p) ==
  {<<<<"lap", t.id, t.laps[i].id>>, "lap", t.laps[i].at, p.lap>> : i \in DOMAIN t.laps}

TrackAsked(t, p) == IF t = Nowhere THEN {} ELSE EndsAsked(t, p) \cup LapsAsked(t, p)

EventsAsked(list, p) ==
  {<<<<"event", list[i].id>>, "event", list[i].at, p.marker>> : i \in DOMAIN list}

LiveAsked(at) == IF at = Nowhere THEN {} ELSE {<<<<"live">>, "live", at, Absent>>}

MarkOf(m) == Mark(m[1], m[2], m[3], m[4])

MarksOf(S) == {MarkOf(m) : m \in {x \in S : x[4] # Suppressed}}

LEMMA MarksAskedIs ==
  LET p == requested.presentation
  IN  MarksAsked = {m \in TrackAsked(requested.track, p) \cup EventsAsked(requested.events, p)
                            \cup LiveAsked(render.live) : m[4] # Suppressed}
BY DEF MarksAsked, TrackAsked, EndsAsked, LapsAsked, EventsAsked, LiveAsked

LEMMA MarkIs ==
  ASSUME NEW key, NEW kind, NEW at, NEW answer
  PROVE  LET x == Mark(key, kind, at, answer)
         IN  x.key = key /\ x.at = at /\ x.style = StyleAsked(kind, answer)
BY DEF Mark, StyleAsked

LEMMA MarksOfUnion ==
  ASSUME NEW S, NEW T
  PROVE  MarksOf(S \cup T) = MarksOf(S) \cup MarksOf(T)
BY DEF MarksOf

LEMMA MarksOfOne ==
  ASSUME NEW key, NEW kind, NEW at, NEW answer
  PROVE  /\ answer = Suppressed => MarksOf({<<key, kind, at, answer>>}) = {}
         /\ answer # Suppressed
              => MarksOf({<<key, kind, at, answer>>}) = {Mark(key, kind, at, answer)}
<1> DEFINE m == <<key, kind, at, answer>>
<1>1. m[1] = key /\ m[2] = kind /\ m[3] = at /\ m[4] = answer
  OBVIOUS
<1>2. MarkOf(m) = Mark(key, kind, at, answer)
  BY <1>1, Zenon DEF MarkOf
<1> HIDE DEF m
<1>3. QED
  BY <1>1, <1>2 DEF MarksOf, m

LEMMA ShownLists ==
  ASSUME NEW key, NEW kind, NEW at, NEW answer
  PROVE  Lists(Shown(key, kind, at, answer), MarksOf({<<key, kind, at, answer>>}))
<1> DEFINE S == MarksOf({<<key, kind, at, answer>>})
           mark == Mark(key, kind, at, answer)
<1>1. /\ answer = Suppressed => S = {}
      /\ answer # Suppressed => S = {mark}
  BY MarksOfOne
<1>2. /\ answer = Suppressed => Shown(key, kind, at, answer) = << >>
      /\ answer # Suppressed => Shown(key, kind, at, answer) = <<mark>>
  BY DEF Shown
<1> HIDE DEF S, mark
<1>3. QED
  BY <1>1, <1>2, ListsOfOne, ListsOfNone DEF S

LEMMA LapsList ==
  ASSUME NEW t, Unique(t.laps), NEW p
  PROVE  Lists(lapMarks(t, p), MarksOf(LapsAsked(t, p)))
<1>1. CASE p.lap = Suppressed
  <2>1. MarksOf(LapsAsked(t, p)) = {}
    BY <1>1 DEF MarksOf, LapsAsked
  <2>2. lapMarks(t, p) = << >>
    BY <1>1 DEF lapMarks
  <2> QED
    BY <2>1, <2>2, ListsOfNone
<1>2. CASE p.lap # Suppressed
  <2> DEFINE all == [i \in DOMAIN t.laps |->
                       Mark(<<"lap", t.id, t.laps[i].id>>, "lap", t.laps[i].at, p.lap)]
  <2>1. lapMarks(t, p) = all
    BY <1>2 DEF lapMarks
  <2>2. \A i \in DOMAIN t.laps : all[i].key = <<"lap", t.id, t.laps[i].id>>
    BY MarkIs
  <2>3. \A i, j \in DOMAIN t.laps : all[i].key = all[j].key => t.laps[i].id = t.laps[j].id
    <3> HIDE DEF all
    <3> QED BY <2>2
  <2>4. {all[i] : i \in DOMAIN t.laps} = MarksOf(LapsAsked(t, p))
    <3>1. MarksOf(LapsAsked(t, p)) = {MarkOf(m) : m \in LapsAsked(t, p)}
      BY <1>2 DEF MarksOf, LapsAsked
    <3>2. \A i \in DOMAIN t.laps :
            all[i] = MarkOf(<<<<"lap", t.id, t.laps[i].id>>, "lap", t.laps[i].at, p.lap>>)
      BY DEF MarkOf
    <3> HIDE DEF all
    <3>3. QED
      BY <3>1, <3>2 DEF LapsAsked
  <2>5. all = [i \in DOMAIN t.laps |-> all[i]]
    OBVIOUS
  <2> HIDE DEF all
  <2>6. Lists(all, {all[i] : i \in DOMAIN t.laps})
    BY <2>3, <2>5, ListsOfEach
  <2>7. QED
    BY <2>1, <2>4, <2>6
<1>3. QED
  BY <1>1, <1>2

LEMMA EventsList ==
  ASSUME NEW list, Unique(list), NEW p, p.marker # Suppressed
  PROVE  Lists(eventMarks(list, p), MarksOf(EventsAsked(list, p)))
<1> DEFINE all == [i \in DOMAIN list |->
                     Mark(<<"event", list[i].id>>, "event", list[i].at, p.marker)]
<1>1. eventMarks(list, p) = all
  BY DEF eventMarks
<1>2. \A i \in DOMAIN list : all[i].key = <<"event", list[i].id>>
  BY MarkIs
<1>3. \A i, j \in DOMAIN list : all[i].key = all[j].key => list[i].id = list[j].id
  <2> HIDE DEF all
  <2> QED BY <1>2
<1>4. {all[i] : i \in DOMAIN list} = MarksOf(EventsAsked(list, p))
  <2>1. MarksOf(EventsAsked(list, p)) = {MarkOf(m) : m \in EventsAsked(list, p)}
    BY DEF MarksOf, EventsAsked
  <2>2. \A i \in DOMAIN list :
          all[i] = MarkOf(<<<<"event", list[i].id>>, "event", list[i].at, p.marker>>)
    BY DEF MarkOf
  <2> HIDE DEF all
  <2>3. QED
    BY <2>1, <2>2 DEF EventsAsked
<1>5. all = [i \in DOMAIN list |-> all[i]]
  OBVIOUS
<1> HIDE DEF all
<1>6. Lists(all, {all[i] : i \in DOMAIN list})
  BY <1>3, <1>5, ListsOfEach
<1>7. QED
  BY <1>1, <1>4, <1>6

LEMMA LiveList ==
  ASSUME MapMarksAssumption, NEW at
  PROVE  Lists(liveMarks(at), MarksOf(LiveAsked(at)))
<1>1. CASE at = Nowhere
  <2>1. MarksOf(LiveAsked(at)) = {} /\ liveMarks(at) = << >>
    BY <1>1 DEF LiveAsked, liveMarks, MarksOf
  <2> QED
    BY <2>1, ListsOfNone
<1>2. CASE at # Nowhere
  <2>1. MarksOf(LiveAsked(at)) = {Mark(<<"live">>, "live", at, Absent)}
    <3>1. LiveAsked(at) = {<<<<"live">>, "live", at, Absent>>} /\ Absent # Suppressed
      BY <1>2 DEF LiveAsked, MapMarksAssumption
    <3>2. Absent # Suppressed => MarksOf({<<<<"live">>, "live", at, Absent>>})
                                   = {Mark(<<"live">>, "live", at, Absent)}
      BY MarksOfOne
    <3>3. QED
      BY <3>1, <3>2
  <2>2. liveMarks(at) = <<Mark(<<"live">>, "live", at, Absent)>>
    BY <1>2 DEF liveMarks
  <2> QED
    BY <2>1, <2>2, ListsOfOne
<1>3. QED
  BY <1>1, <1>2

(* The first element of its key tells what a mark is of.                   *)
LEMMA KindsOf ==
  ASSUME NEW t, NEW list, NEW at, NEW p
  PROVE  /\ \A x \in MarksOf({<<<<"start", t.id>>, "start", t.from, p.start>>}) : x.key[1] = "start"
         /\ \A x \in MarksOf({<<<<"finish", t.id>>, "finish", t.to, p.finish>>}) : x.key[1] = "finish"
         /\ \A x \in MarksOf(LapsAsked(t, p)) : x.key[1] = "lap"
         /\ \A x \in MarksOf(EventsAsked(list, p)) : x.key[1] = "event"
         /\ \A x \in MarksOf(LiveAsked(at)) : x.key[1] = "live"
<1>1. ASSUME NEW S, NEW kind, \A m \in S : m[1][1] = kind
      PROVE  \A x \in MarksOf(S) : x.key[1] = kind
  <2>1. \A x \in MarksOf(S) : \E m \in S : x = MarkOf(m)
    BY DEF MarksOf
  <2>2. \A m \in S : MarkOf(m).key = m[1]
    BY MarkIs DEF MarkOf
  <2>3. QED
    BY <1>1, <2>1, <2>2
<1>2. \A m \in {<<<<"start", t.id>>, "start", t.from, p.start>>} : m[1][1] = "start"
  OBVIOUS
<1>3. \A m \in {<<<<"finish", t.id>>, "finish", t.to, p.finish>>} : m[1][1] = "finish"
  OBVIOUS
<1>4. \A m \in LapsAsked(t, p) : m[1][1] = "lap"
  BY DEF LapsAsked
<1>5. \A m \in EventsAsked(list, p) : m[1][1] = "event"
  BY DEF EventsAsked
<1>6. \A m \in LiveAsked(at) : m[1][1] = "live"
  BY DEF LiveAsked
<1>7. QED
  BY <1>1, <1>2, <1>3, <1>4, <1>5, <1>6

LEMMA TrackList ==
  ASSUME NEW t, t = Nowhere \/ Unique(t.laps), NEW p
  PROVE  /\ Lists(trackMarks(t, p), MarksOf(TrackAsked(t, p)))
         /\ \A x \in MarksOf(TrackAsked(t, p)) : x.key[1] \in {"start", "finish", "lap"}
<1>1. CASE t = Nowhere
  <2>1. MarksOf(TrackAsked(t, p)) = {} /\ trackMarks(t, p) = << >>
    BY <1>1 DEF TrackAsked, trackMarks, MarksOf
  <2> QED
    BY <2>1, ListsOfNone
<1>2. CASE t # Nowhere
  <2> DEFINE begin == <<<<"start", t.id>>, "start", t.from, p.start>>
             end == <<<<"finish", t.id>>, "finish", t.to, p.finish>>
             first == Shown(<<"start", t.id>>, "start", t.from, p.start)
             last == Shown(<<"finish", t.id>>, "finish", t.to, p.finish)
             some == lapMarks(t, p)
             S1 == MarksOf({begin})
             S2 == MarksOf({end})
             S3 == MarksOf(LapsAsked(t, p))
  <2>1. Lists(first, S1) /\ Lists(last, S2)
    BY ShownLists
  <2>2. Lists(some, S3)
    BY <1>2, LapsList
  <2>3. /\ \A x \in S1 : x.key[1] = "start"
        /\ \A x \in S2 : x.key[1] = "finish"
        /\ \A x \in S3 : x.key[1] = "lap"
    BY KindsOf
  <2>4. MarksOf(TrackAsked(t, p)) = (S1 \cup S2) \cup S3
    <3>1. TrackAsked(t, p) = ({begin} \cup {end}) \cup LapsAsked(t, p)
      BY <1>2 DEF TrackAsked, EndsAsked
    <3> HIDE DEF begin, end
    <3>2. /\ MarksOf({begin} \cup {end}) = MarksOf({begin}) \cup MarksOf({end})
          /\ MarksOf(({begin} \cup {end}) \cup LapsAsked(t, p))
               = MarksOf({begin} \cup {end}) \cup MarksOf(LapsAsked(t, p))
      BY MarksOfUnion
    <3>3. QED
      BY <3>1, <3>2
  <2>5. trackMarks(t, p) = (first \o last) \o some
    BY <1>2, Zenon DEF trackMarks
  <2> HIDE DEF first, last, some, S1, S2, S3
  <2>6. Lists(first \o last, S1 \cup S2)
    BY <2>1, <2>3, ListsJoin
  <2>7. Lists((first \o last) \o some, (S1 \cup S2) \cup S3)
    BY <2>2, <2>3, <2>6, ListsJoin
  <2>8. QED
    BY <2>3, <2>4, <2>5, <2>7
<1>3. QED
  BY <1>1, <1>2

-----------------------------------------------------------------------------
(* Requests, and the render that was translated from them.                 *)
AllAsked(req, at) ==
  (TrackAsked(req.track, req.presentation) \cup EventsAsked(req.events, req.presentation))
    \cup LiveAsked(at)

RequestFields == {"track", "events", "draft", "presentation"}

Accepted(req) ==
  /\ DOMAIN req = RequestFields
  /\ req.track \in Tracks \cup {Nowhere} /\ req.events \in EventLists \cup {<< >>}
  /\ req.presentation \in Presentations \cup {Plain}
  /\ ~TrackThrows(req.track, req.presentation) /\ ~EventsThrow(req.events, req.presentation)

RenderFields == {"track", "draft", "trackMarks", "eventMarks", "live"}

Translated(r, req) ==
  /\ DOMAIN r = RenderFields
  /\ r.track = styledTrackLines(req.track, req.presentation)
  /\ r.draft = draftFeatures(req.draft)
  /\ r.trackMarks = trackMarks(req.track, req.presentation)
  /\ r.eventMarks = eventMarks(req.events, req.presentation)

(* A mark that is asked for, and was not refused, can be placed.           *)
Fit(x) == x.key \in AllKeys /\ Decent(x.style)

BuiltIns == {"start", "finish", "lap", "event", "live"}

LEMMA StyleIsDecent ==
  ASSUME NEW kind \in BuiltIns, NEW answer, ~Throws(answer), answer # Suppressed
  PROVE  Decent(StyleAsked(kind, answer))
<1>1. CASE answer = Absent
  BY <1>1 DEF StyleAsked, builtInMark, Decent, RendererClass, BuiltIns
<1>2. CASE answer # Absent
  BY <1>2 DEF StyleAsked, Decent, Throws
<1>3. QED
  BY <1>1, <1>2

LEMMA MarksAreFit ==
  ASSUME NEW S,
         \A m \in S : /\ m[1] \in AllKeys /\ m[2] \in BuiltIns
                      /\ m[4] # Suppressed => ~Throws(m[4])
  PROVE  \A x \in MarksOf(S) : Fit(x)
<1>1. SUFFICES ASSUME NEW m \in S, m[4] # Suppressed
               PROVE  Fit(MarkOf(m))
  BY DEF MarksOf
<1>2. MarkOf(m).key = m[1] /\ MarkOf(m).style = StyleAsked(m[2], m[4])
  BY MarkIs DEF MarkOf
<1>3. Decent(StyleAsked(m[2], m[4]))
  BY <1>1, StyleIsDecent
<1>4. QED
  BY <1>2, <1>3 DEF Fit

LEMMA TrackKeys ==
  ASSUME NEW t \in Tracks
  PROVE  /\ <<"start", t.id>> \in AllKeys /\ <<"finish", t.id>> \in AllKeys
         /\ \A i \in DOMAIN t.laps : <<"lap", t.id, t.laps[i].id>> \in AllKeys
<1> DEFINE K(u) == {<<"start", u.id>>, <<"finish", u.id>>}
                     \cup {<<"lap", u.id, u.laps[i].id>> : i \in DOMAIN u.laps}
<1>1. UNION {K(u) : u \in Tracks} \subseteq AllKeys
  BY Zenon DEF AllKeys, KeysOf
<1>2. K(t) \in {K(u) : u \in Tracks}
  OBVIOUS
<1>3. K(t) \subseteq AllKeys
  <2> HIDE DEF K
  <2> QED BY <1>1, <1>2
<1>4. QED
  BY <1>3

LEMMA EventKeys ==
  ASSUME NEW list \in EventLists, NEW i \in DOMAIN list
  PROVE  <<"event", list[i].id>> \in AllKeys
<1> DEFINE K(l) == {<<"event", l[j].id>> : j \in DOMAIN l}
<1>1. UNION {K(l) : l \in EventLists} \subseteq AllKeys
  BY DEF AllKeys, KeysOf
<1>2. K(list) \in {K(l) : l \in EventLists}
  OBVIOUS
<1>3. K(list) \subseteq AllKeys
  <2> HIDE DEF K
  <2> QED BY <1>1, <1>2
<1>4. QED
  BY <1>3

LEMMA TrackIsFit ==
  ASSUME NEW t \in Tracks \cup {Nowhere}, NEW p, ~TrackThrows(t, p)
  PROVE  \A x \in MarksOf(TrackAsked(t, p)) : Fit(x)
<1>1. ASSUME NEW m \in TrackAsked(t, p)
      PROVE  m[1] \in AllKeys /\ m[2] \in BuiltIns /\ ~Throws(m[4])
  <2>1. t # Nowhere /\ t \in Tracks
    BY DEF TrackAsked
  <2>2. CASE m = <<<<"start", t.id>>, "start", t.from, p.start>>
    BY <2>1, <2>2, TrackKeys DEF BuiltIns, TrackThrows
  <2>3. CASE m = <<<<"finish", t.id>>, "finish", t.to, p.finish>>
    BY <2>1, <2>3, TrackKeys DEF BuiltIns, TrackThrows
  <2>4. ASSUME NEW i \in DOMAIN t.laps,
               m = <<<<"lap", t.id, t.laps[i].id>>, "lap", t.laps[i].at, p.lap>>
        PROVE  m[1] \in AllKeys /\ m[2] \in BuiltIns /\ ~Throws(m[4])
    <3>1. t.laps # << >>
      OBVIOUS
    <3>2. ~Throws(p.lap)
      BY <2>1, <3>1 DEF TrackThrows
    <3>3. <<"lap", t.id, t.laps[i].id>> \in AllKeys
      BY <2>1, TrackKeys
    <3>4. QED
      BY <2>4, <3>2, <3>3 DEF BuiltIns
  <2>5. QED
    BY <2>1, <2>2, <2>3, <2>4 DEF TrackAsked, EndsAsked, LapsAsked
<1>2. QED
  BY <1>1, MarksAreFit

LEMMA EventsAreFit ==
  ASSUME NEW list \in EventLists \cup {<< >>}, NEW p, ~EventsThrow(list, p)
  PROVE  \A x \in MarksOf(EventsAsked(list, p)) : Fit(x)
<1>1. ASSUME NEW m \in EventsAsked(list, p)
      PROVE  m[1] \in AllKeys /\ m[2] \in BuiltIns /\ ~Throws(m[4])
  <2>1. PICK i \in DOMAIN list : m = <<<<"event", list[i].id>>, "event", list[i].at, p.marker>>
    BY DEF EventsAsked
  <2>2. list # << >> /\ list \in EventLists
    BY <2>1
  <2>3. <<"event", list[i].id>> \in AllKeys
    BY <2>1, <2>2, EventKeys
  <2>4. QED
    BY <2>1, <2>2, <2>3 DEF EventsThrow, BuiltIns
<1>2. QED
  BY <1>1, MarksAreFit

LEMMA LiveIsFit ==
  ASSUME MapMarksAssumption, NEW at
  PROVE  \A x \in MarksOf(LiveAsked(at)) : Fit(x)
<1>1. \A m \in LiveAsked(at) : m[1] \in AllKeys /\ m[2] \in BuiltIns /\ ~Throws(m[4])
  BY DEF LiveAsked, AllKeys, KeysOf, BuiltIns, Throws, MapMarksAssumption
<1>2. QED
  BY <1>1, MarksAreFit

LEMMA RequestsAreUnique ==
  ASSUME MapMarksAssumption, NEW req, Accepted(req)
  PROVE  /\ req.track = Nowhere \/ Unique(req.track.laps)
         /\ Unique(req.events) /\ req.presentation.marker # Suppressed
<1>1. Unique(<< >>)
  BY DEF Unique
<1>2. Plain.marker # Suppressed
  BY DEF Plain, MapMarksAssumption
<1>3. QED
  BY <1>1, <1>2 DEF Accepted, MapMarksAssumption

(* The marks of a render are those of the requests, and can be placed.     *)
LEMMA RenderLists ==
  ASSUME MapMarksAssumption, NEW req, Accepted(req), NEW r, Translated(r, req)
  PROVE  Lists(Marks(r), MarksOf(AllAsked(req, r.live))) /\ Placeable(Marks(r))
<1> DEFINE t == req.track
           list == req.events
           p == req.presentation
           S1 == MarksOf(TrackAsked(t, p))
           S2 == MarksOf(EventsAsked(list, p))
           S3 == MarksOf(LiveAsked(r.live))
           l1 == r.trackMarks
           l2 == r.eventMarks
           l3 == liveMarks(r.live)
<1>1. /\ t \in Tracks \cup {Nowhere} /\ list \in EventLists \cup {<< >>}
      /\ ~TrackThrows(t, p) /\ ~EventsThrow(list, p)
      /\ t = Nowhere \/ Unique(t.laps)
      /\ Unique(list) /\ p.marker # Suppressed
      /\ l1 = trackMarks(t, p) /\ l2 = eventMarks(list, p)
  BY RequestsAreUnique DEF Accepted, Translated
<1> HIDE DEF t, list, p
<1>2. Lists(l1, S1) /\ \A x \in S1 : x.key[1] \in {"start", "finish", "lap"}
  BY <1>1, TrackList
<1>3. Lists(l2, S2) /\ \A x \in S2 : x.key[1] = "event"
  BY <1>1, EventsList, KindsOf
<1>4. Lists(l3, S3) /\ \A x \in S3 : x.key[1] = "live"
  BY LiveList, KindsOf
<1>5. \A x \in S1 \cup S2 \cup S3 : Fit(x)
  BY <1>1, TrackIsFit, EventsAreFit, LiveIsFit
<1>6. Marks(r) = (l1 \o l2) \o l3
  BY Zenon DEF Marks
<1>7. MarksOf(AllAsked(req, r.live)) = (S1 \cup S2) \cup S3
  <2>1. /\ MarksOf(TrackAsked(t, p) \cup EventsAsked(list, p)) = S1 \cup S2
        /\ MarksOf((TrackAsked(t, p) \cup EventsAsked(list, p)) \cup LiveAsked(r.live))
             = MarksOf(TrackAsked(t, p) \cup EventsAsked(list, p)) \cup S3
    BY MarksOfUnion
  <2>2. QED
    BY <2>1 DEF AllAsked, t, list, p
<1> HIDE DEF S1, S2, S3, l1, l2, l3
<1>8. Lists(l1 \o l2, S1 \cup S2)
  BY <1>2, <1>3, ListsJoin
<1>9. Lists((l1 \o l2) \o l3, (S1 \cup S2) \cup S3)
  BY <1>2, <1>3, <1>4, <1>8, ListsJoin
<1>10. Lists(Marks(r), MarksOf(AllAsked(req, r.live)))
  BY <1>6, <1>7, <1>9
<1>11. Placeable(Marks(r))
  <2>1. Len(Marks(r)) \in Nat /\ \A i \in 1..Len(Marks(r)) : Marks(r)[i] \in (S1 \cup S2) \cup S3
    BY <1>7, <1>10 DEF Lists
  <2>2. QED
    BY <1>5, <1>10, <2>1 DEF Placeable, Fit, Lists
<1>12. QED
  BY <1>10, <1>11

-----------------------------------------------------------------------------
(* Between calls the page answers to the last render, if the map could     *)
(* take it, and is empty before and after.                                 *)
MarksInv ==
  /\ Accepted(requested) /\ Translated(render, requested)
  /\ PageInv
  /\ life \in {"waiting", "loaded", "destroyed"}
  /\ life = "loaded" => /\ Filled(placed, Marks(render))
                        /\ lines = [track |-> render.track, draft |-> render.draft]
  /\ life # "loaded" => DOMAIN placed = {}

(* The keys and the marks of a filled page are those asked for.            *)
LEMMA FilledAnswers ==
  ASSUME NEW page, NEW list, NEW S, Lists(list, MarksOf(S)), Filled(page, list)
  PROVE  /\ DOMAIN page = {m[1] : m \in {x \in S : x[4] # Suppressed}}
         /\ \A m \in S : m[4] # Suppressed => Matches(page[m[1]], MarkOf(m))
<1>1. \A m : MarkOf(m).key = m[1]
  BY MarkIs DEF MarkOf
<1>2. \A m \in S : m[4] # Suppressed => \E j \in 1..Len(list) : list[j] = MarkOf(m)
  BY DEF Lists, MarksOf
<1>3. \A j \in 1..Len(list) : \E m \in S : m[4] # Suppressed /\ list[j] = MarkOf(m)
  BY DEF Lists, MarksOf
<1>4. \A m \in S : m[4] # Suppressed => Matches(page[m[1]], MarkOf(m))
  BY <1>1, <1>2 DEF Filled
<1>5. DOMAIN page = {list[j].key : j \in 1..Len(list)}
  BY DEF Filled, Keys
<1>6. \A k \in DOMAIN page : \E m \in S : m[4] # Suppressed /\ k = m[1]
  BY <1>1, <1>3, <1>5
<1>7. \A m \in S : m[4] # Suppressed => m[1] \in DOMAIN page
  BY <1>1, <1>2, <1>5
<1>8. QED
  BY <1>4, <1>6, <1>7

(* A render that is applied answers to the requests it comes with.         *)
LEMMA AppliedAnswers ==
  ASSUME MapMarksAssumption, MarksInv, NEW r, applyRender(r), render' = r, life' = "loaded",
         Accepted(requested'), Translated(r, requested')
  PROVE  /\ MarksInv'
         /\ focus # Nowhere /\ StillAsked(focus) => focus' = focus
<1>1. Lists(Marks(r), MarksOf(AllAsked(requested', r.live))) /\ Placeable(Marks(r))
  BY RenderLists
<1>2. /\ PageInv' /\ Filled(placed', Marks(r))
      /\ lines' = [track |-> r.track, draft |-> r.draft]
      /\ focus # Nowhere /\ Reused(Marks(r), Len(Marks(r))) => focus' = focus
  BY <1>1, RenderFills DEF MarksInv
<1>3. MarksInv'
  <2>1. Marks(render)' = Marks(r)
    BY DEF Marks, liveMarks, Mark, builtInMark
  <2>2. Accepted(requested)' = Accepted(requested')
    BY DEF Accepted, TrackThrows, EventsThrow, Throws, Plain
  <2>3. Translated(render, requested)' = Translated(render', requested')
    BY DEF Translated, styledTrackLines, trackMarks, eventMarks, lapMarks, draftFeatures,
           Shown, Mark, builtInMark
  <2>4. Filled(placed, Marks(render))' = Filled(placed', Marks(r))
    BY <2>1 DEF Filled
  <2>5. QED
    BY <1>2, <2>2, <2>3, <2>4 DEF MarksInv
<1>4. ASSUME focus # Nowhere, StillAsked(focus)
      PROVE  Reused(Marks(r), Len(Marks(r)))
  <2>1. PICK m \in MarksAsked' :
          m[1] = focus /\ StyleAsked(m[2], m[4]).anchor = placed[focus].anchor
    BY <1>4 DEF StillAsked
  <2>2. MarksAsked' = {x \in AllAsked(requested', r.live) : x[4] # Suppressed}
    BY DEF MarksAsked, AllAsked, TrackAsked, EndsAsked, LapsAsked, EventsAsked, LiveAsked
  <2>3. m \in AllAsked(requested', r.live) /\ m[4] # Suppressed
    BY <2>1, <2>2
  <2>4. PICK j \in 1..Len(Marks(r)) : Marks(r)[j] = MarkOf(m)
    BY <1>1, <2>3 DEF Lists, MarksOf
  <2>5. Marks(r)[j].key = focus /\ Marks(r)[j].style.anchor = placed[focus].anchor
    BY <2>1, <2>4, MarkIs DEF MarkOf
  <2>6. focus \in DOMAIN placed
    BY <1>4 DEF MarksInv, PageInv
  <2>7. QED
    BY <2>5, <2>6 DEF Reused, Reuses
<1>5. QED
  BY <1>2, <1>3, <1>4

(* A call that prepares a render keeps it, and applies it if it can.       *)
LEMMA PreparedAnswers ==
  ASSUME MapMarksAssumption, MarksInv, NEW r, prepareRender(r), life # "destroyed",
         Accepted(requested'), Translated(r, requested')
  PROVE  /\ MarksInv'
         /\ focus # Nowhere /\ StillAsked(focus) => focus' = focus
<1>1. render' = r /\ life' = life
  BY DEF prepareRender
<1>2. CASE life = "loaded"
  BY <1>1, <1>2, AppliedAnswers DEF prepareRender
<1>3. CASE life # "loaded"
  <2>1. UNCHANGED <<lines, placed, attached, focus>> /\ life' # "loaded"
    BY <1>1, <1>3 DEF prepareRender
  <2>2. Accepted(requested)' /\ Translated(render, requested)'
    BY <1>1 DEF Accepted, TrackThrows, EventsThrow, Throws, Plain, Translated, styledTrackLines,
                trackMarks, eventMarks, lapMarks, draftFeatures, Shown, Mark, builtInMark
  <2>3. PageInv'
    BY <2>1 DEF MarksInv, PageInv, AllKeys, KeysOf, Element
  <2>4. QED
    BY <1>1, <2>1, <2>2, <2>3 DEF MarksInv
<1>4. QED
  BY <1>2, <1>3

(* Each request is taken whole, or not at all.                             *)
LEMMA TrackIsTaken ==
  ASSUME MarksInv, NEW track \in Tracks \cup {Nowhere}, renderTrack(track)
  PROVE  \E r : prepareRender(r) /\ Accepted(requested') /\ Translated(r, requested')
<1> DEFINE p == requested.presentation
           line == styledTrackLines(track, p)
           list == trackMarks(track, p)
           r == [render EXCEPT !.track = line, !.trackMarks = list]
<1>1. /\ ~TrackThrows(track, p) /\ requested' = [requested EXCEPT !.track = track]
      /\ prepareRender(r)
  BY Zenon DEF renderTrack
<1>2. Accepted(requested) /\ Translated(render, requested)
  BY DEF MarksInv
<1>3. /\ DOMAIN requested' = RequestFields
      /\ requested'.track = track /\ requested'.events = requested.events
      /\ requested'.draft = requested.draft /\ requested'.presentation = p
  BY <1>1, <1>2 DEF Accepted, RequestFields
<1> HIDE DEF p, line, list
<1>4. /\ DOMAIN r = RenderFields
      /\ r.track = line /\ r.draft = render.draft /\ r.trackMarks = list
      /\ r.eventMarks = render.eventMarks
  BY <1>2 DEF Translated, RenderFields
<1> HIDE DEF r
<1>5. Accepted(requested')
  BY <1>1, <1>2, <1>3 DEF Accepted, p
<1>6. Translated(r, requested')
  BY <1>2, <1>3, <1>4 DEF Translated, line, list, p
<1>7. QED
  BY <1>1, <1>5, <1>6

LEMMA EventsAreTaken ==
  ASSUME MarksInv, NEW events \in EventLists, renderEvents(events)
  PROVE  \E r : prepareRender(r) /\ Accepted(requested') /\ Translated(r, requested')
<1> DEFINE p == requested.presentation
           list == eventMarks(events, p)
           r == [render EXCEPT !.eventMarks = list]
<1>1. /\ ~EventsThrow(events, p) /\ requested' = [requested EXCEPT !.events = events]
      /\ prepareRender(r)
  BY Zenon DEF renderEvents
<1>2. Accepted(requested) /\ Translated(render, requested)
  BY DEF MarksInv
<1>3. /\ DOMAIN requested' = RequestFields
      /\ requested'.track = requested.track /\ requested'.events = events
      /\ requested'.draft = requested.draft /\ requested'.presentation = p
  BY <1>1, <1>2 DEF Accepted, RequestFields
<1> HIDE DEF p, list
<1>4. /\ DOMAIN r = RenderFields
      /\ r.track = render.track /\ r.draft = render.draft
      /\ r.trackMarks = render.trackMarks /\ r.eventMarks = list
  BY <1>2 DEF Translated, RenderFields
<1> HIDE DEF r
<1>5. Accepted(requested')
  BY <1>1, <1>2, <1>3 DEF Accepted, p
<1>6. Translated(r, requested')
  BY <1>2, <1>3, <1>4 DEF Translated, list, p
<1>7. QED
  BY <1>1, <1>5, <1>6

LEMMA PresentationIsTaken ==
  ASSUME MarksInv, NEW p \in Presentations \cup {Plain}, setPresentation(p)
  PROVE  \E r : prepareRender(r) /\ Accepted(requested') /\ Translated(r, requested')
<1> DEFINE t == requested.track
           l == requested.events
           line == styledTrackLines(t, p)
           ends == trackMarks(t, p)
           list == eventMarks(l, p)
           r == [render EXCEPT !.track = line, !.trackMarks = ends, !.eventMarks = list]
<1>1. /\ ~TrackThrows(t, p) /\ ~EventsThrow(l, p)
      /\ requested' = [requested EXCEPT !.presentation = p]
      /\ prepareRender(r)
  BY Zenon DEF setPresentation
<1>2. Accepted(requested) /\ Translated(render, requested)
  BY DEF MarksInv
<1>3. /\ DOMAIN requested' = RequestFields
      /\ requested'.track = t /\ requested'.events = l
      /\ requested'.draft = requested.draft /\ requested'.presentation = p
  BY <1>1, <1>2 DEF Accepted, RequestFields
<1> HIDE DEF t, l, line, ends, list
<1>4. /\ DOMAIN r = RenderFields
      /\ r.track = line /\ r.draft = render.draft /\ r.trackMarks = ends
      /\ r.eventMarks = list
  BY <1>2 DEF Translated, RenderFields
<1> HIDE DEF r
<1>5. Accepted(requested')
  BY <1>1, <1>2, <1>3 DEF Accepted, t, l
<1>6. Translated(r, requested')
  BY <1>2, <1>3, <1>4 DEF Translated, line, ends, list
<1>7. QED
  BY <1>1, <1>5, <1>6

LEMMA DraftIsTaken ==
  ASSUME MarksInv, NEW n \in 0..MaxDraftPoints, renderDraft(n)
  PROVE  \E r : prepareRender(r) /\ Accepted(requested') /\ Translated(r, requested')
<1> DEFINE drawn == draftFeatures(n)
           r == [render EXCEPT !.draft = drawn]
<1>1. requested' = [requested EXCEPT !.draft = n] /\ prepareRender(r)
  BY Zenon DEF renderDraft
<1>2. Accepted(requested) /\ Translated(render, requested)
  BY DEF MarksInv
<1>3. /\ DOMAIN requested' = RequestFields
      /\ requested'.track = requested.track /\ requested'.events = requested.events
      /\ requested'.draft = n /\ requested'.presentation = requested.presentation
  BY <1>1, <1>2 DEF Accepted, RequestFields
<1> HIDE DEF drawn
<1>4. /\ DOMAIN r = RenderFields
      /\ r.track = render.track /\ r.draft = drawn /\ r.trackMarks = render.trackMarks
      /\ r.eventMarks = render.eventMarks
  BY <1>2 DEF Translated, RenderFields
<1> HIDE DEF r
<1>5. Accepted(requested')
  BY <1>2, <1>3 DEF Accepted
<1>6. Translated(r, requested')
  BY <1>2, <1>3, <1>4 DEF Translated, drawn
<1>7. QED
  BY <1>1, <1>5, <1>6

LEMMA LiveIsTaken ==
  ASSUME MarksInv, NEW at, showLivePosition(at)
  PROVE  \E r : prepareRender(r) /\ Accepted(requested') /\ Translated(r, requested')
<1> DEFINE r == [render EXCEPT !.live = at]
<1>1. requested' = requested /\ prepareRender(r)
  BY Zenon DEF showLivePosition
<1>2. Accepted(requested) /\ Translated(render, requested)
  BY DEF MarksInv
<1>3. /\ DOMAIN r = RenderFields
      /\ r.track = render.track /\ r.draft = render.draft /\ r.trackMarks = render.trackMarks
      /\ r.eventMarks = render.eventMarks
  BY <1>2 DEF Translated, RenderFields
<1> HIDE DEF r
<1>4. Accepted(requested') /\ Translated(r, requested')
  BY <1>1, <1>2, <1>3 DEF Accepted, Translated
<1>5. QED
  BY <1>1, <1>4

LEMMA MarksStart == MapMarksAssumption /\ MarksInit => MarksInv
<1>1. SUFFICES ASSUME MapMarksAssumption, MarksInit PROVE MarksInv
  OBVIOUS
<1>2. PICK p \in Presentations \cup {Plain} :
        requested = [track |-> Nowhere, events |-> << >>, draft |-> 0, presentation |-> p]
  BY <1>1 DEF MarksInit
<1>3. /\ DOMAIN requested = RequestFields /\ requested.track = Nowhere
      /\ requested.events = << >> /\ requested.draft = 0 /\ requested.presentation = p
  BY <1>2 DEF RequestFields
<1>4. Accepted(requested)
  BY <1>3 DEF Accepted, TrackThrows, EventsThrow
<1>5. Translated(render, requested)
  <2>1. /\ styledTrackLines(Nowhere, p) = << >> /\ trackMarks(Nowhere, p) = << >>
        /\ eventMarks(<< >>, p) = << >>
    BY DEF styledTrackLines, trackMarks, eventMarks
  <2>2. /\ DOMAIN render = RenderFields /\ render.track = << >> /\ render.draft = draftFeatures(0)
        /\ render.trackMarks = << >> /\ render.eventMarks = << >>
    BY <1>1 DEF MarksInit, EmptyRender, RenderFields
  <2>3. QED
    BY <1>3, <2>1, <2>2 DEF Translated
<1>6. PageInv /\ DOMAIN placed = {} /\ life = "waiting"
  BY <1>1 DEF MarksInit, PageInv, AllKeys
<1>7. QED
  BY <1>4, <1>5, <1>6 DEF MarksInv

(* What a step may do to the focus.                                        *)
FocusStep ==
  /\ focus # Nowhere /\ StillAsked(focus)
  /\ life' = "loaded" /\ (render' # render \/ life' # life)
  => focus' = focus

LEMMA TakenStays ==
  ASSUME Accepted(requested), Translated(render, requested), UNCHANGED <<requested, render>>
  PROVE  Accepted(requested)' /\ Translated(render, requested)'
BY DEF Accepted, TrackThrows, EventsThrow, Throws, Plain, Translated, styledTrackLines,
       trackMarks, eventMarks, lapMarks, draftFeatures, Shown, Mark, builtInMark

LEMMA MarksStay == render' = render => Marks(render)' = Marks(render)
BY DEF Marks, liveMarks, Mark, builtInMark

LEMMA MarksStep ==
  ASSUME MapMarksAssumption, MarksInv, [MarksNext]_markVars
  PROVE  MarksInv' /\ FocusStep
<1>1. ASSUME life # "destroyed",
             \E r : prepareRender(r) /\ Accepted(requested') /\ Translated(r, requested')
      PROVE  MarksInv' /\ FocusStep
  BY <1>1, PreparedAnswers DEF FocusStep
<1>2. ASSUME NEW track \in Tracks \cup {Nowhere}, renderTrack(track)
      PROVE  MarksInv' /\ FocusStep
  BY <1>1, <1>2, TrackIsTaken DEF renderTrack
<1>3. ASSUME NEW events \in EventLists, renderEvents(events)
      PROVE  MarksInv' /\ FocusStep
  BY <1>1, <1>3, EventsAreTaken DEF renderEvents
<1>4. ASSUME NEW p \in Presentations \cup {Plain}, setPresentation(p)
      PROVE  MarksInv' /\ FocusStep
  BY <1>1, <1>4, PresentationIsTaken DEF setPresentation
<1>5. ASSUME NEW n \in 0..MaxDraftPoints, renderDraft(n)
      PROVE  MarksInv' /\ FocusStep
  BY <1>1, <1>5, DraftIsTaken DEF renderDraft
<1>6. ASSUME NEW at \in Spots \cup {Nowhere}, showLivePosition(at)
      PROVE  MarksInv' /\ FocusStep
  BY <1>1, <1>6, LiveIsTaken DEF showLivePosition
<1>7. CASE MarksReapplied
  <2>1. /\ applyRender(render) /\ life' = "loaded" /\ render' = render
        /\ requested' = requested
    BY <1>7 DEF MarksReapplied
  <2>2. Accepted(requested') /\ Translated(render, requested')
    BY <2>1 DEF MarksInv
  <2>3. QED
    BY <2>1, <2>2, AppliedAnswers DEF FocusStep
<1>8. ASSUME NEW key \in DOMAIN placed \cup {Nowhere}, FocusMoves(key)
      PROVE  MarksInv' /\ FocusStep
  <2>1. UNCHANGED <<requested, render, lines, placed, attached, life>> /\ focus' = key
    BY <1>8 DEF FocusMoves
  <2>2. PageInv'
    BY <1>8, <2>1 DEF MarksInv, PageInv, AllKeys, KeysOf, Element
  <2>3. Accepted(requested)' /\ Translated(render, requested)' /\ Marks(render)' = Marks(render)
    BY <2>1, TakenStays, MarksStay DEF MarksInv
  <2>4. Filled(placed, Marks(render))' = Filled(placed, Marks(render))
    BY <2>1, <2>3 DEF Filled
  <2>5. QED
    BY <2>1, <2>2, <2>3, <2>4 DEF MarksInv, FocusStep
<1>9. CASE DestroyMarks
  <2>1. /\ life' = "destroyed" /\ life # "destroyed"
        /\ attached' = Fewer(attached, DOMAIN placed)
        /\ placed' = << >> /\ focus' = Unfocused(focus, DOMAIN placed)
        /\ UNCHANGED <<requested, render, lines>>
    BY <1>9 DEF DestroyMarks
  <2>2. DOMAIN placed' = {}
    BY <2>1
  <2>3. /\ DOMAIN attached' = AllKeys
        /\ \A k \in AllKeys : attached'[k] = 0
    BY <2>1 DEF MarksInv, PageInv, Fewer
  <2>4. focus' = Nowhere
    BY <2>1 DEF MarksInv, PageInv, Unfocused
  <2>5. PageInv'
    BY <2>2, <2>3, <2>4 DEF PageInv, AllKeys, KeysOf
  <2>6. Accepted(requested)' /\ Translated(render, requested)'
    BY <2>1, TakenStays DEF MarksInv
  <2>7. QED
    BY <2>1, <2>2, <2>5, <2>6 DEF MarksInv, FocusStep
<1>10. CASE UNCHANGED markVars
  <2>1. UNCHANGED <<requested, render, lines, placed, attached, focus, life>>
    BY <1>10 DEF markVars
  <2>2. PageInv'
    BY <2>1 DEF MarksInv, PageInv, AllKeys, KeysOf, Element
  <2>3. Accepted(requested)' /\ Translated(render, requested)' /\ Marks(render)' = Marks(render)
    BY <2>1, TakenStays, MarksStay DEF MarksInv
  <2>4. Filled(placed, Marks(render))' = Filled(placed, Marks(render))
    BY <2>1, <2>3 DEF Filled
  <2>5. QED
    BY <2>1, <2>2, <2>3, <2>4 DEF MarksInv, FocusStep
<1>11. QED
  BY <1>2, <1>3, <1>4, <1>5, <1>6, <1>7, <1>8, <1>9, <1>10 DEF MarksNext

LEMMA MarksAnswer == MapMarksAssumption /\ MarksInv => MarksAreAsked
<1>1. SUFFICES ASSUME MapMarksAssumption, MarksInv PROVE MarksAreAsked
  OBVIOUS
<1> DEFINE S == AllAsked(requested, render.live)
<1>2. MarksAsked = {m \in S : m[4] # Suppressed}
  BY DEF MarksAsked, AllAsked, TrackAsked, EndsAsked, LapsAsked, EventsAsked, LiveAsked
<1>3. \A k \in DOMAIN attached : attached[k] = IF k \in DOMAIN placed THEN 1 ELSE 0
  BY <1>1 DEF MarksInv, PageInv
<1>4. ASSUME life = "loaded"
      PROVE  /\ DOMAIN placed = {m[1] : m \in MarksAsked}
             /\ \A m \in MarksAsked : Matches(placed[m[1]], MarkOf(m))
  <2>1. Lists(Marks(render), MarksOf(S)) /\ Filled(placed, Marks(render))
    BY <1>1, <1>4, RenderLists DEF MarksInv
  <2> HIDE DEF S
  <2>2. /\ DOMAIN placed = {m[1] : m \in {x \in S : x[4] # Suppressed}}
        /\ \A m \in S : m[4] # Suppressed => Matches(placed[m[1]], MarkOf(m))
    BY <2>1, FilledAnswers
  <2>3. QED
    BY <1>2, <2>2
<1>5. ASSUME life = "loaded"
      PROVE  lines = [track |-> IF requested.track = Nowhere THEN << >>
                                ELSE <<requested.track.id, requested.presentation.trackLine>>,
                      draft |-> draftFeatures(requested.draft)]
  BY <1>1, <1>5 DEF MarksInv, Translated, styledTrackLines
<1>6. ASSUME life = "loaded", NEW m \in MarksAsked
      PROVE  LET element == placed[m[1]]
                 look == StyleAsked(m[2], m[4])
             IN  /\ element.at = m[3] /\ element.anchor = look.anchor
                 /\ element.says = look.says
                 /\ element.classes = {RendererClass, WrapperClass} \cup look.classes
  <2>1. Matches(placed[m[1]], MarkOf(m))
    BY <1>4, <1>6
  <2>2. MarkOf(m).at = m[3] /\ MarkOf(m).style = StyleAsked(m[2], m[4])
    BY MarkIs DEF MarkOf
  <2>3. QED
    BY <2>1, <2>2 DEF Matches, Element
<1>7. QED
  BY <1>3, <1>4, <1>5, <1>6 DEF MarksAreAsked

(* Whatever tracks, events, presentations, drafts and positions a host     *)
(* renders, and whatever callbacks throw, a loaded map holds one element   *)
(* for every mark its last accepted requests ask for, and no other, where  *)
(* and as they say.                                                        *)
THEOREM MarksAlwaysAsked == MarksSpec => []MarksAreAsked
<1>1. MarksInit => MarksInv
  BY MarksStart, MapMarksAssumption
<1>2. MarksInv /\ [MarksNext]_markVars => MarksInv'
  BY MarksStep, MapMarksAssumption
<1>3. MarksInv => MarksAreAsked
  BY MarksAnswer, MapMarksAssumption
<1>4. QED
  BY <1>1, <1>2, <1>3, PTL DEF MarksSpec

(* A mark keeps the focus through every render that still asks for it      *)
(* where its element can be used again.                                    *)
THEOREM FocusAlwaysStays == MarksSpec => FocusStays
<1>1. MarksInit => MarksInv
  BY MarksStart, MapMarksAssumption
<1>2. MarksInv /\ [MarksNext]_markVars => MarksInv' /\ FocusStep
  BY MarksStep, MapMarksAssumption
<1>3. QED
  BY <1>1, <1>2, PTL DEF MarksSpec, FocusStays, FocusStep

-----------------------------------------------------------------------------
(***************************************************************************)
(* The tile stack (TileStack).                                             *)
(***************************************************************************)

(* The loops.  Each recursive function exists, for a list of any length.   *)

EachTo(after, m, op, list, n) ==
  after = [i \in 0..n |-> IF i = 0 THEN m ELSE Do(after[i - 1], [op |-> op, of |-> list[i]])]

LEMMA ForEachGoesOn ==
  ASSUME NEW m, NEW op, NEW list, NEW n \in Nat
  PROVE  \E after : EachTo(after, m, op, list, n)
<1> DEFINE Stuck == {k \in Nat : ~\E after : EachTo(after, m, op, list, k)}
<1>1. SUFFICES ASSUME Stuck # {} PROVE FALSE
  OBVIOUS
<1>2. PICK k \in Stuck : \A j \in Stuck : k <= j
  BY <1>1, LeastNatural
<1>3. k \in Nat /\ \A j \in 0..(k - 1) : j \notin Stuck
  BY <1>2
<1>4. CASE k = 0
  <2>1. EachTo([i \in 0..0 |-> m], m, op, list, 0)
    BY DEF EachTo
  <2>2. QED
    BY <1>2, <1>4, <2>1
<1>5. CASE k # 0
  <2>1. PICK after : EachTo(after, m, op, list, k - 1)
    BY <1>3, <1>5
  <2> DEFINE longer == [i \in 0..k |-> IF i = k THEN Do(after[k - 1], [op |-> op, of |-> list[k]]) ELSE after[i]]
  <2>2. ASSUME NEW i \in 0..k
        PROVE  longer[i] = IF i = 0 THEN m ELSE Do(longer[i - 1], [op |-> op, of |-> list[i]])
    <3>1. \A j \in 0..(k - 1) : after[j] = IF j = 0 THEN m ELSE Do(after[j - 1], [op |-> op, of |-> list[j]])
      BY <2>1 DEF EachTo
    <3>2. CASE i = k
      BY <1>3, <1>5, <3>2
    <3>3. CASE i # k
      BY <1>3, <1>5, <3>1, <3>3
    <3> QED
      BY <3>2, <3>3
  <2>3. longer = [i \in 0..k |-> IF i = 0 THEN m ELSE Do(longer[i - 1], [op |-> op, of |-> list[i]])]
    <3> HIDE DEF longer
    <3>1. DOMAIN longer = 0..k /\ longer = [i \in 0..k |-> longer[i]]
      BY DEF longer
    <3>2. QED
      BY <2>2, <3>1, Zenon
  <2>4. EachTo(longer, m, op, list, k)
    BY <2>3, Zenon DEF EachTo
  <2>5. QED
    BY <1>2, <2>4
<1> QED
  BY <1>4, <1>5

Walked(after, m, op, list) ==
  /\ after[0] = m
  /\ \A i \in 0..(Len(list) - 1) : after[i + 1] = Do(after[i], [op |-> op, of |-> list[i + 1]])
  /\ ForEach(m, op, list) = after[Len(list)]

LEMMA ForEachIs ==
  ASSUME NEW m, NEW op, NEW list, Len(list) \in Nat
  PROVE  \E after : Walked(after, m, op, list)
<1> DEFINE f == CHOOSE after : EachTo(after, m, op, list, Len(list))
<1>1. EachTo(f, m, op, list, Len(list))
  BY ForEachGoesOn
<1>2. ForEach(m, op, list) = f[Len(list)]
  BY DEF ForEach, EachTo
<1> HIDE DEF f
<1>3. \A i \in 0..Len(list) : f[i] = IF i = 0 THEN m ELSE Do(f[i - 1], [op |-> op, of |-> list[i]])
  BY <1>1 DEF EachTo
<1>4. f[0] = m
  <2>1. 0 \in 0..Len(list)
    OBVIOUS
  <2>2. QED
    BY <1>3, <2>1
<1>5. ASSUME NEW i \in 0..(Len(list) - 1)
      PROVE  f[i + 1] = Do(f[i], [op |-> op, of |-> list[i + 1]])
  <2>1. i + 1 \in 0..Len(list) /\ i + 1 # 0 /\ i + 1 - 1 = i
    OBVIOUS
  <2>2. QED
    BY <1>3, <2>1
<1>6. QED
  BY <1>2, <1>4, <1>5 DEF Walked

InstallTo(after, m, built, n) ==
  after = [i \in 0..n |-> IF i = 0 THEN m ELSE InstallEntry(after[i - 1], built[i])]

LEMMA InstallGoesOn ==
  ASSUME NEW m, NEW built, NEW n \in Nat
  PROVE  \E after : InstallTo(after, m, built, n)
<1> DEFINE Stuck == {k \in Nat : ~\E after : InstallTo(after, m, built, k)}
<1>1. SUFFICES ASSUME Stuck # {} PROVE FALSE
  OBVIOUS
<1>2. PICK k \in Stuck : \A j \in Stuck : k <= j
  BY <1>1, LeastNatural
<1>3. k \in Nat /\ \A j \in 0..(k - 1) : j \notin Stuck
  BY <1>2
<1>4. CASE k = 0
  <2>1. InstallTo([i \in 0..0 |-> m], m, built, 0)
    BY DEF InstallTo
  <2>2. QED
    BY <1>2, <1>4, <2>1
<1>5. CASE k # 0
  <2>1. PICK after : InstallTo(after, m, built, k - 1)
    BY <1>3, <1>5
  <2> DEFINE longer == [i \in 0..k |-> IF i = k THEN InstallEntry(after[k - 1], built[k]) ELSE after[i]]
  <2>2. ASSUME NEW i \in 0..k
        PROVE  longer[i] = IF i = 0 THEN m ELSE InstallEntry(longer[i - 1], built[i])
    <3>1. \A j \in 0..(k - 1) : after[j] = IF j = 0 THEN m ELSE InstallEntry(after[j - 1], built[j])
      BY <2>1 DEF InstallTo
    <3>2. CASE i = k
      BY <1>3, <1>5, <3>2
    <3>3. CASE i # k
      BY <1>3, <1>5, <3>1, <3>3
    <3> QED
      BY <3>2, <3>3
  <2>3. longer = [i \in 0..k |-> IF i = 0 THEN m ELSE InstallEntry(longer[i - 1], built[i])]
    <3> HIDE DEF longer
    <3>1. DOMAIN longer = 0..k /\ longer = [i \in 0..k |-> longer[i]]
      BY DEF longer
    <3>2. QED
      BY <2>2, <3>1, Zenon
  <2>4. InstallTo(longer, m, built, k)
    BY <2>3, Zenon DEF InstallTo
  <2>5. QED
    BY <1>2, <2>4
<1> QED
  BY <1>4, <1>5

LEMMA InstallIs ==
  ASSUME NEW m, NEW built, Len(built) \in Nat
  PROVE  \E after : /\ after[0] = m
                    /\ \A i \in 0..(Len(built) - 1) : after[i + 1] = InstallEntry(after[i], built[i + 1])
                    /\ Install(m, built) = after[Len(built)]
<1> DEFINE f == CHOOSE after : InstallTo(after, m, built, Len(built))
<1>1. InstallTo(f, m, built, Len(built))
  BY InstallGoesOn
<1>2. Install(m, built) = f[Len(built)]
  BY DEF Install, InstallTo
<1> HIDE DEF f
<1>3. \A i \in 0..Len(built) : f[i] = IF i = 0 THEN m ELSE InstallEntry(f[i - 1], built[i])
  BY <1>1 DEF InstallTo
<1>4. f[0] = m
  <2>1. 0 \in 0..Len(built)
    OBVIOUS
  <2>2. QED
    BY <1>3, <2>1
<1>5. ASSUME NEW i \in 0..(Len(built) - 1) PROVE f[i + 1] = InstallEntry(f[i], built[i + 1])
  <2>1. i + 1 \in 0..Len(built) /\ i + 1 # 0 /\ i + 1 - 1 = i
    OBVIOUS
  <2>2. QED
    BY <1>3, <2>1
<1>6. QED
  BY <1>2, <1>4, <1>5

LaidTo(after, built, n) ==
  after = [i \in 0..n |-> IF i = 0 THEN << >> ELSE after[i - 1] \o built[i].layers]

LEMMA LayersGoesOn ==
  ASSUME NEW built, NEW n \in Nat
  PROVE  \E after : LaidTo(after, built, n)
<1> DEFINE Stuck == {k \in Nat : ~\E after : LaidTo(after, built, k)}
<1>1. SUFFICES ASSUME Stuck # {} PROVE FALSE
  OBVIOUS
<1>2. PICK k \in Stuck : \A j \in Stuck : k <= j
  BY <1>1, LeastNatural
<1>3. k \in Nat /\ \A j \in 0..(k - 1) : j \notin Stuck
  BY <1>2
<1>4. CASE k = 0
  <2>1. LaidTo([i \in 0..0 |-> << >>], built, 0)
    BY DEF LaidTo
  <2>2. QED
    BY <1>2, <1>4, <2>1
<1>5. CASE k # 0
  <2>1. PICK after : LaidTo(after, built, k - 1)
    BY <1>3, <1>5
  <2> DEFINE longer == [i \in 0..k |-> IF i = k THEN after[k - 1] \o built[k].layers ELSE after[i]]
  <2>2. ASSUME NEW i \in 0..k
        PROVE  longer[i] = IF i = 0 THEN << >> ELSE longer[i - 1] \o built[i].layers
    <3>1. \A j \in 0..(k - 1) : after[j] = IF j = 0 THEN << >> ELSE after[j - 1] \o built[j].layers
      BY <2>1 DEF LaidTo
    <3>2. CASE i = k
      BY <1>3, <1>5, <3>2
    <3>3. CASE i # k
      BY <1>3, <1>5, <3>1, <3>3
    <3> QED
      BY <3>2, <3>3
  <2>3. longer = [i \in 0..k |-> IF i = 0 THEN << >> ELSE longer[i - 1] \o built[i].layers]
    <3> HIDE DEF longer
    <3>1. DOMAIN longer = 0..k /\ longer = [i \in 0..k |-> longer[i]]
      BY DEF longer
    <3>2. QED
      BY <2>2, <3>1, Zenon
  <2>4. LaidTo(longer, built, k)
    BY <2>3, Zenon DEF LaidTo
  <2>5. QED
    BY <1>2, <2>4
<1> QED
  BY <1>4, <1>5

LEMMA LayersIs ==
  ASSUME NEW built, Len(built) \in Nat
  PROVE  \E after : /\ after[0] = << >>
                    /\ \A i \in 0..(Len(built) - 1) : after[i + 1] = after[i] \o built[i + 1].layers
                    /\ LayersOf(built) = after[Len(built)]
<1> DEFINE f == CHOOSE after : LaidTo(after, built, Len(built))
<1>1. LaidTo(f, built, Len(built))
  BY LayersGoesOn
<1>2. LayersOf(built) = f[Len(built)]
  BY DEF LayersOf, LaidTo
<1> HIDE DEF f
<1>3. \A i \in 0..Len(built) : f[i] = IF i = 0 THEN << >> ELSE f[i - 1] \o built[i].layers
  BY <1>1 DEF LaidTo
<1>4. f[0] = << >>
  <2>1. 0 \in 0..Len(built)
    OBVIOUS
  <2>2. QED
    BY <1>3, <2>1
<1>5. ASSUME NEW i \in 0..(Len(built) - 1) PROVE f[i + 1] = f[i] \o built[i + 1].layers
  <2>1. i + 1 \in 0..Len(built) /\ i + 1 # 0 /\ i + 1 - 1 = i
    OBVIOUS
  <2> DEFINE j == i + 1
  <2>2. j \in 0..Len(built) /\ j # 0 /\ j - 1 = i
    BY <2>1
  <2> HIDE DEF j
  <2>3. f[j] = f[j - 1] \o built[j].layers
    BY <1>3, <2>2, Zenon
  <2>4. f[j] = f[i] \o built[j].layers
    BY <2>2, <2>3, Zenon
  <2>5. QED
    BY <2>4 DEF j
<1>6. QED
  BY <1>2, <1>4, <1>5

-----------------------------------------------------------------------------
(* The renderer's operations, field by field.                              *)
MapFields == {"sources", "layers", "terrain", "ours", "installed", "refused"}

IsMap(m) == DOMAIN m = MapFields /\ m.refused \in BOOLEAN

LEMMA RefuseIs ==
  ASSUME NEW m, IsMap(m)
  PROVE  /\ IsMap(Refuse(m)) /\ Refuse(m).refused = TRUE
         /\ Refuse(m).installed = m.installed
BY DEF Refuse, IsMap, MapFields

(* A map that has refused a call of a loop is left alone.                  *)
LEMMA RefusedStays ==
  ASSUME NEW m, m.refused = TRUE
  PROVE  /\ \A id : addSource(m, id) = m /\ removeSource(m, id) = m /\ removeLayer(m, id) = m
         /\ \A layer, before : addLayer(m, layer, before) = m
         /\ \A terrain : setTerrain(m, terrain) = m
         /\ \A id : OwnSource(m, id) = m
         /\ \A layer : OwnLayer(m, layer) = m
BY DEF addSource, removeSource, removeLayer, addLayer, setTerrain, OwnSource, OwnLayer

LEMMA AddSourceIs ==
  ASSUME NEW m, IsMap(m), m.refused = FALSE, NEW id
  PROVE  LET e == addSource(m, id)
         IN  /\ IsMap(e)
             /\ id \in m.sources => e.refused = TRUE /\ e.installed = m.installed
             /\ id \notin m.sources =>
                  /\ e.refused = FALSE /\ e.sources = m.sources \cup {id} /\ e.layers = m.layers
                  /\ e.terrain = m.terrain /\ e.ours = m.ours /\ e.installed = m.installed
<1>1. CASE id \in m.sources
  BY <1>1, RefuseIs DEF addSource
<1>2. CASE id \notin m.sources
  <2> DEFINE more == m.sources \cup {id}
             e == [m EXCEPT !.sources = more]
  <2>1. addSource(m, id) = e
    BY <1>2 DEF addSource
  <2> HIDE DEF more
  <2>2. /\ IsMap(e) /\ e.refused = FALSE /\ e.sources = more /\ e.layers = m.layers
        /\ e.terrain = m.terrain /\ e.ours = m.ours /\ e.installed = m.installed
    BY DEF IsMap, MapFields
  <2> HIDE DEF e
  <2>3. QED
    BY <1>2, <2>1, <2>2 DEF more
<1>3. QED
  BY <1>1, <1>2

LEMMA RemoveSourceIs ==
  ASSUME NEW m, IsMap(m), m.refused = FALSE, NEW id, id \in m.sources, m.terrain # id,
         \A i \in DOMAIN m.layers : m.layers[i].source # id
  PROVE  LET e == removeSource(m, id)
         IN  /\ IsMap(e) /\ e.refused = FALSE /\ e.sources = m.sources \ {id}
             /\ e.layers = m.layers /\ e.terrain = m.terrain /\ e.ours = m.ours
             /\ e.installed = m.installed
<1> DEFINE less == m.sources \ {id}
           e == [m EXCEPT !.sources = less]
<1>1. removeSource(m, id) = e
  BY DEF removeSource
<1> HIDE DEF less
<1>2. /\ IsMap(e) /\ e.refused = FALSE /\ e.sources = less /\ e.layers = m.layers
      /\ e.terrain = m.terrain /\ e.ours = m.ours /\ e.installed = m.installed
  BY DEF IsMap, MapFields
<1> HIDE DEF e
<1>3. QED
  BY <1>1, <1>2 DEF less

(* The layers of a map, and their ids.                                     *)
LEMMA HasLayerIs ==
  ASSUME NEW m, NEW id
  PROVE  HasLayer(m, id) <=> id \in LayerIds(m.layers)
BY DEF HasLayer, LayerIds

LEMMA AddLayerIs ==
  ASSUME NEW m, IsMap(m), m.refused = FALSE, NEW layer, layer.source \in m.sources,
         NEW before, before = << >> \/ before \in LayerIds(m.layers)
  PROVE  LET e == addLayer(m, layer, before)
         IN  /\ IsMap(e)
             /\ layer.id \in LayerIds(m.layers) => e.refused = TRUE /\ e.installed = m.installed
             /\ layer.id \notin LayerIds(m.layers) =>
                  /\ e.refused = FALSE /\ e.sources = m.sources
                  /\ e.layers = Placed(m.layers, layer, before)
                  /\ e.terrain = m.terrain /\ e.ours = m.ours /\ e.installed = m.installed
<1>1. HasLayer(m, layer.id) <=> layer.id \in LayerIds(m.layers)
  BY HasLayerIs
<1>2. HasLayer(m, before) <=> before \in LayerIds(m.layers)
  BY HasLayerIs
<1>3. CASE layer.id \in LayerIds(m.layers)
  <2>1. addLayer(m, layer, before) = Refuse(m)
    BY <1>1, <1>3 DEF addLayer
  <2>2. QED
    BY <1>3, <2>1, RefuseIs
<1>4. CASE layer.id \notin LayerIds(m.layers)
  <2> DEFINE more == Placed(m.layers, layer, before)
             e == [m EXCEPT !.layers = more]
  <2>1. addLayer(m, layer, before) = e
    BY <1>1, <1>2, <1>4 DEF addLayer
  <2> HIDE DEF more
  <2>2. /\ IsMap(e) /\ e.refused = FALSE /\ e.sources = m.sources /\ e.layers = more
        /\ e.terrain = m.terrain /\ e.ours = m.ours /\ e.installed = m.installed
    BY DEF IsMap, MapFields
  <2> HIDE DEF e
  <2>3. QED
    BY <1>4, <2>1, <2>2 DEF more
<1>5. QED
  BY <1>3, <1>4

LEMMA RemoveLayerIs ==
  ASSUME NEW m, IsMap(m), m.refused = FALSE, NEW id, id \in LayerIds(m.layers)
  PROVE  LET e == removeLayer(m, id)
         IN  /\ IsMap(e) /\ e.refused = FALSE /\ e.sources = m.sources
             /\ e.layers = Without(m.layers, id)
             /\ e.terrain = m.terrain /\ e.ours = m.ours /\ e.installed = m.installed
<1>1. HasLayer(m, id)
  BY HasLayerIs
<1> DEFINE less == Without(m.layers, id)
           e == [m EXCEPT !.layers = less]
<1>2. removeLayer(m, id) = e
  BY <1>1 DEF removeLayer
<1> HIDE DEF less
<1>3. /\ IsMap(e) /\ e.refused = FALSE /\ e.sources = m.sources /\ e.layers = less
      /\ e.terrain = m.terrain /\ e.ours = m.ours /\ e.installed = m.installed
  BY DEF IsMap, MapFields
<1> HIDE DEF e
<1>4. QED
  BY <1>2, <1>3 DEF less

LEMMA SetTerrainIs ==
  ASSUME NEW m, IsMap(m), m.refused = FALSE, NEW terrain,
         terrain = NoTerrainAsked \/ terrain \in m.sources
  PROVE  LET e == setTerrain(m, terrain)
         IN  /\ IsMap(e) /\ e.refused = FALSE /\ e.sources = m.sources /\ e.layers = m.layers
             /\ e.terrain = terrain /\ e.ours = m.ours /\ e.installed = m.installed
<1> DEFINE e == [m EXCEPT !.terrain = terrain]
<1>1. setTerrain(m, terrain) = e
  BY DEF setTerrain
<1>2. /\ IsMap(e) /\ e.refused = FALSE /\ e.sources = m.sources /\ e.layers = m.layers
      /\ e.terrain = terrain /\ e.ours = m.ours /\ e.installed = m.installed
  BY DEF IsMap, MapFields
<1> HIDE DEF e
<1>3. QED
  BY <1>1, <1>2

(* Ours is what the engine put there.                                      *)
Counted(m, id) == [m EXCEPT !.ours = @ \cup {id}]

LEMMA CountsAsOurs ==
  ASSUME NEW m, IsMap(m), NEW id
  PROVE  LET e == Counted(m, id)
         IN  /\ IsMap(e) /\ e.refused = m.refused /\ e.sources = m.sources
             /\ e.layers = m.layers /\ e.terrain = m.terrain /\ e.ours = m.ours \cup {id}
             /\ e.installed = m.installed
<1> DEFINE more == m.ours \cup {id}
           e == [m EXCEPT !.ours = more]
<1> HIDE DEF more
<1>1. /\ IsMap(e) /\ e.refused = m.refused /\ e.sources = m.sources /\ e.layers = m.layers
      /\ e.terrain = m.terrain /\ e.ours = more /\ e.installed = m.installed
  BY DEF IsMap, MapFields
<1>2. QED
  BY <1>1 DEF more, Counted

LEMMA OwnSourceIs ==
  ASSUME NEW m, IsMap(m), m.refused = FALSE, NEW id, id \notin m.ours
  PROVE  LET e == OwnSource(m, id)
         IN  /\ IsMap(e)
             /\ id \in m.sources => e.refused = TRUE /\ e.installed = m.installed
             /\ id \notin m.sources =>
                  /\ e.refused = FALSE /\ e.sources = m.sources \cup {id} /\ e.layers = m.layers
                  /\ e.terrain = m.terrain /\ e.ours = m.ours \cup {id}
                  /\ e.installed = m.installed
<1> DEFINE a == addSource(m, id)
           e == Counted(a, id)
<1>1. OwnSource(m, id) = IF a.refused THEN a ELSE e
  BY DEF OwnSource, Counted
<1>2. /\ IsMap(a)
      /\ id \in m.sources => a.refused = TRUE /\ a.installed = m.installed
      /\ id \notin m.sources =>
           /\ a.refused = FALSE /\ a.sources = m.sources \cup {id} /\ a.layers = m.layers
           /\ a.terrain = m.terrain /\ a.ours = m.ours /\ a.installed = m.installed
  BY AddSourceIs
<1> HIDE DEF a
<1>3. /\ IsMap(e) /\ e.refused = a.refused /\ e.sources = a.sources /\ e.layers = a.layers
      /\ e.terrain = a.terrain /\ e.ours = a.ours \cup {id} /\ e.installed = a.installed
  <2>1. IsMap(a)
    BY <1>2
  <2>2. QED
    BY <2>1, CountsAsOurs
<1> HIDE DEF e
<1>4. QED
  BY <1>1, <1>2, <1>3

LEMMA OwnLayerIs ==
  ASSUME NEW m, IsMap(m), m.refused = FALSE, NEW layer, layer.id \notin m.ours,
         layer.source \in m.sources
  PROVE  LET e == OwnLayer(m, layer)
         IN  /\ IsMap(e)
             /\ layer.id \in LayerIds(m.layers) => e.refused = TRUE /\ e.installed = m.installed
             /\ layer.id \notin LayerIds(m.layers) =>
                  /\ e.refused = FALSE /\ e.sources = m.sources
                  /\ e.layers = Append(m.layers, layer)
                  /\ e.terrain = m.terrain /\ e.ours = m.ours \cup {layer.id}
                  /\ e.installed = m.installed
<1> DEFINE a == addLayer(m, layer, << >>)
           e == Counted(a, layer.id)
<1>1. OwnLayer(m, layer) = IF a.refused THEN a ELSE e
  BY DEF OwnLayer, Counted
<1>2. Placed(m.layers, layer, << >>) = Append(m.layers, layer)
  BY DEF Placed
<1>3. /\ IsMap(a)
      /\ layer.id \in LayerIds(m.layers) => a.refused = TRUE /\ a.installed = m.installed
      /\ layer.id \notin LayerIds(m.layers) =>
           /\ a.refused = FALSE /\ a.sources = m.sources /\ a.layers = Append(m.layers, layer)
           /\ a.terrain = m.terrain /\ a.ours = m.ours /\ a.installed = m.installed
  BY <1>2, AddLayerIs, ZenonT(30)
<1> HIDE DEF a
<1>4. /\ IsMap(e) /\ e.refused = a.refused /\ e.sources = a.sources /\ e.layers = a.layers
      /\ e.terrain = a.terrain /\ e.ours = a.ours \cup {layer.id} /\ e.installed = a.installed
  BY <1>3, CountsAsOurs
<1> HIDE DEF e
<1>5. QED
  BY <1>1, <1>3, <1>4, SMTT(30)

LEMMA DoIs ==
  ASSUME NEW m, NEW x
  PROVE  /\ Do(m, [op |-> "own source", of |-> x]) = OwnSource(m, x)
         /\ Do(m, [op |-> "own layer", of |-> x]) = OwnLayer(m, x)
         /\ Do(m, [op |-> "remove layer", of |-> x]) = removeLayer(m, x.id)
         /\ Do(m, [op |-> "remove source", of |-> x]) = removeSource(m, x.id)
         /\ Do(m, [op |-> "add layer", of |-> x]) = addLayer(m, x, EngineAnchor)
BY DEF Do

-----------------------------------------------------------------------------
(* What holds of 0, and of the next number, holds up to N.                 *)
LEMMA UpTo ==
  ASSUME NEW N \in Nat, NEW T, 0 \in T, \A k \in 0..(N - 1) : k \in T => k + 1 \in T
  PROVE  \A k \in 0..N : k \in T
<1> DEFINE Missing == {k \in Nat : k <= N /\ k \notin T}
<1>1. SUFFICES ASSUME Missing # {} PROVE FALSE
  OBVIOUS
<1>2. PICK k \in Missing : \A j \in Missing : k <= j
  BY <1>1, LeastNatural
<1>3. k # 0 /\ k - 1 \in 0..(N - 1) /\ k - 1 \in T
  BY <1>2
<1>4. QED
  BY <1>2, <1>3

(* Layers one over another.                                                *)
LEMMA JoinedIds ==
  ASSUME NEW S, NEW a \in Seq(S), NEW b \in Seq(S)
  PROVE  LayerIds(a \o b) = LayerIds(a) \cup LayerIds(b)
<1> DEFINE c == a \o b
<1>1. /\ c \in Seq(S) /\ Len(c) = Len(a) + Len(b)
      /\ \A i \in 1..Len(a) : c[i] = a[i]
      /\ \A i \in 1..Len(b) : c[Len(a) + i] = b[i]
      /\ \A i \in 1..Len(c) : i > Len(a) => c[i] = b[i - Len(a)]
  BY ConcatProperties
<1>2. DOMAIN c = 1..Len(c) /\ DOMAIN a = 1..Len(a) /\ DOMAIN b = 1..Len(b)
      /\ Len(a) \in Nat /\ Len(b) \in Nat
  BY <1>1
<1> HIDE DEF c
<1>3. ASSUME NEW i \in DOMAIN c PROVE c[i].id \in LayerIds(a) \cup LayerIds(b)
  <2>1. CASE i <= Len(a)
    BY <1>1, <1>2, <2>1 DEF LayerIds
  <2>2. CASE i > Len(a)
    <3>1. i - Len(a) \in DOMAIN b /\ c[i] = b[i - Len(a)]
      BY <1>1, <1>2, <2>2
    <3>2. QED
      BY <3>1 DEF LayerIds
  <2>3. QED
    BY <1>2, <2>1, <2>2
<1>4. ASSUME NEW i \in DOMAIN a PROVE a[i].id \in LayerIds(c)
  <2>1. i \in DOMAIN c /\ c[i] = a[i]
    BY <1>1, <1>2
  <2>2. QED
    BY <2>1 DEF LayerIds
<1>5. ASSUME NEW i \in DOMAIN b PROVE b[i].id \in LayerIds(c)
  <2>1. Len(a) + i \in DOMAIN c /\ c[Len(a) + i] = b[i]
    BY <1>1, <1>2
  <2>2. QED
    BY <2>1 DEF LayerIds
<1>6. LayerIds(c) = LayerIds(a) \cup LayerIds(b)
  BY <1>3, <1>4, <1>5 DEF LayerIds
<1>7. QED
  BY <1>6 DEF c

(* A layer is found by its id where no other has it.                       *)
LEMMA OnePlace ==
  ASSUME NEW layers, NEW at \in DOMAIN layers,
         \A i \in DOMAIN layers : layers[i].id = layers[at].id => i = at
  PROVE  PlaceOf(layers, layers[at].id) = at
BY DEF PlaceOf

(* What lies over what.                                                    *)
Over(a, b, c) == (a \o b) \o c

GoesUnder(a, b, c, layer, anchor) ==
  Placed(Over(a, b, c), layer, anchor) = Over(a, Append(b, layer), c)

(* One goes in under the first of the topmost part.                        *)
LEMMA PlacedUnder ==
  ASSUME NEW S, NEW a \in Seq(S), NEW b \in Seq(S), NEW c \in Seq(S), NEW layer \in S,
         c # << >>, NEW anchor, anchor # << >>, c[1].id = anchor,
         \A i \in DOMAIN c : c[i].id = anchor => i = 1,
         anchor \notin LayerIds(a), anchor \notin LayerIds(b)
  PROVE  GoesUnder(a, b, c, layer, anchor)
<1> DEFINE ab == a \o b
           all == ab \o c
           more == Append(b, layer)
           am == a \o more
           want == am \o c
<1>1. /\ ab \in Seq(S) /\ Len(ab) = Len(a) + Len(b)
      /\ \A i \in 1..(Len(a) + Len(b)) : ab[i] = IF i <= Len(a) THEN a[i] ELSE b[i - Len(a)]
  BY ConcatProperties
<1>2. more \in Seq(S) /\ Len(more) = Len(b) + 1 /\ more[Len(b) + 1] = layer
      /\ \A i \in 1..Len(b) : more[i] = b[i]
  BY AppendProperties
<1>3. Len(a) \in Nat /\ Len(b) \in Nat /\ Len(c) \in Nat /\ Len(c) > 0
      /\ DOMAIN a = 1..Len(a) /\ DOMAIN b = 1..Len(b) /\ DOMAIN c = 1..Len(c)
  BY EmptySeq
<1>4. /\ all \in Seq(S) /\ Len(all) = Len(ab) + Len(c)
      /\ \A i \in 1..(Len(ab) + Len(c)) : all[i] = IF i <= Len(ab) THEN ab[i] ELSE c[i - Len(ab)]
  <2> HIDE DEF ab
  <2>1. QED
    BY <1>1, ConcatProperties, ZenonT(30)
<1>5. /\ am \in Seq(S) /\ Len(am) = Len(a) + Len(more)
      /\ \A i \in 1..(Len(a) + Len(more)) : am[i] = IF i <= Len(a) THEN a[i] ELSE more[i - Len(a)]
  <2> HIDE DEF more
  <2>1. QED
    BY <1>2, ConcatProperties
<1>6. /\ want \in Seq(S) /\ Len(want) = Len(am) + Len(c)
      /\ \A i \in 1..(Len(am) + Len(c)) : want[i] = IF i <= Len(am) THEN am[i] ELSE c[i - Len(am)]
  <2> HIDE DEF am
  <2>1. QED
    BY <1>5, ConcatProperties, ZenonT(30)
<1> HIDE DEF ab, all, more, am, want
<1> DEFINE at == Len(ab) + 1
<1>7. at \in DOMAIN all /\ all[at].id = anchor
  <2>1. at \in 1..(Len(ab) + Len(c)) /\ ~(at <= Len(ab)) /\ at - Len(ab) = 1
    BY <1>1, <1>3
  <2>2. DOMAIN all = 1..(Len(ab) + Len(c))
    BY <1>4
  <2> HIDE DEF at
  <2>3. all[at] = c[1]
    BY <1>4, <2>1
  <2>4. QED
    BY <2>1, <2>2, <2>3
<1>8. ASSUME NEW i \in DOMAIN all, all[i].id = anchor PROVE i = at
  <2>1. i \in 1..(Len(ab) + Len(c))
    BY <1>4
  <2>2. CASE i <= Len(a)
    BY <1>1, <1>3, <1>4, <1>8, <2>1, <2>2 DEF LayerIds
  <2>3. CASE i > Len(a) /\ i <= Len(ab)
    <3>1. i - Len(a) \in DOMAIN b /\ all[i] = b[i - Len(a)]
      BY <1>1, <1>3, <1>4, <2>1, <2>3
    <3>2. QED
      BY <1>8, <3>1 DEF LayerIds
  <2>4. CASE i > Len(ab)
    <3>1. i - Len(ab) \in DOMAIN c /\ all[i] = c[i - Len(ab)]
      BY <1>1, <1>3, <1>4, <2>1, <2>4
    <3>2. i - Len(ab) = 1
      BY <1>8, <3>1
    <3>3. QED
      BY <1>1, <1>3, <2>1, <3>2
  <2>5. QED
    BY <1>1, <1>3, <2>1, <2>2, <2>3, <2>4
<1>9. PlaceOf(all, anchor) = at
  BY <1>7, <1>8, OnePlace
<1>10. Placed(all, layer, anchor)
         = [i \in 1..Len(all) + 1 |->
              IF i < at THEN all[i] ELSE IF i = at THEN layer ELSE all[i - 1]]
  BY <1>9 DEF Placed
<1> HIDE DEF at
<1>11. ASSUME NEW i \in 1..Len(all) + 1
       PROVE  want[i] = IF i < at THEN all[i] ELSE IF i = at THEN layer ELSE all[i - 1]
  <2>1. CASE i < at
    <3>1. i \in 1..(Len(ab) + Len(c)) /\ i <= Len(ab) /\ i <= Len(am)
      BY <1>1, <1>2, <1>3, <1>4, <1>5, <2>1 DEF at
    <3>2. all[i] = ab[i] /\ want[i] = am[i]
      BY <1>3, <1>4, <1>5, <1>6, <1>2, <1>1, <3>1
    <3>3. am[i] = IF i <= Len(a) THEN a[i] ELSE more[i - Len(a)]
      BY <1>1, <1>2, <1>3, <1>5, <3>1
    <3>4. ab[i] = IF i <= Len(a) THEN a[i] ELSE b[i - Len(a)]
      BY <1>1, <1>3, <3>1
    <3>5. i > Len(a) => more[i - Len(a)] = b[i - Len(a)]
      BY <1>1, <1>2, <1>3, <3>1
    <3>6. QED
      BY <2>1, <3>2, <3>3, <3>4, <3>5, <1>3 DEF at
  <2>2. CASE i = at
    BY <1>1, <1>2, <1>3, <1>4, <1>5, <1>6, <2>2 DEF at
  <2>3. CASE i > at
    <3>1. i \in 1..(Len(am) + Len(c)) /\ i > Len(am) /\ Len(am) = Len(ab) + 1
      BY <1>1, <1>2, <1>3, <1>4, <1>5, <2>3 DEF at
    <3>2. want[i] = c[i - Len(am)]
      BY <1>3, <1>1, <1>6, <3>1
    <3>3. all[i - 1] = c[i - 1 - Len(ab)]
      <4>1. i - 1 \in 1..(Len(ab) + Len(c)) /\ ~(i - 1 <= Len(ab))
        BY <1>1, <1>3, <3>1
      <4>2. QED
        BY <1>4, <4>1
    <3>4. i - 1 - Len(ab) = i - Len(am)
      BY <1>1, <1>3, <3>1
    <3>5. QED
      BY <1>1, <1>3, <2>3, <3>1, <3>2, <3>3, <3>4 DEF at
  <2>4. QED
    BY <1>1, <1>3, <2>1, <2>2, <2>3 DEF at
<1>12. DOMAIN want = 1..Len(all) + 1 /\ want = [i \in DOMAIN want |-> want[i]]
  BY <1>1, <1>2, <1>3, <1>4, <1>5, <1>6
<1>13. Placed(all, layer, anchor) = want
  BY <1>10, <1>11, <1>12
<1>14. QED
  BY <1>13 DEF all, ab, want, am, more, Over, GoesUnder

(* And the first of the middle part comes out.                             *)
LEMMA WithoutFirst ==
  ASSUME NEW S, NEW a \in Seq(S), NEW b \in Seq(S), NEW c \in Seq(S), b # << >>,
         \A i \in DOMAIN b : b[i].id = b[1].id => i = 1,
         b[1].id \notin LayerIds(a), b[1].id \notin LayerIds(c)
  PROVE  Without(Over(a, b, c), b[1].id) = Over(a, Tail(b), c)
<1> DEFINE ab == a \o b
           all == ab \o c
           less == Tail(b)
           al == a \o less
           want == al \o c
<1>1. /\ ab \in Seq(S) /\ Len(ab) = Len(a) + Len(b)
      /\ \A i \in 1..(Len(a) + Len(b)) : ab[i] = IF i <= Len(a) THEN a[i] ELSE b[i - Len(a)]
  BY ConcatProperties
<1>2. less \in Seq(S) /\ Len(less) = Len(b) - 1
      /\ \A i \in 1..(Len(b) - 1) : less[i] = b[i + 1]
  BY HeadTailProperties
<1>3. Len(a) \in Nat /\ Len(b) \in Nat /\ Len(c) \in Nat /\ Len(b) > 0
      /\ DOMAIN a = 1..Len(a) /\ DOMAIN b = 1..Len(b) /\ DOMAIN c = 1..Len(c)
  BY EmptySeq
<1>4. /\ all \in Seq(S) /\ Len(all) = Len(ab) + Len(c)
      /\ \A i \in 1..(Len(ab) + Len(c)) : all[i] = IF i <= Len(ab) THEN ab[i] ELSE c[i - Len(ab)]
  <2> HIDE DEF ab
  <2>1. QED
    BY <1>1, ConcatProperties, ZenonT(30)
<1>5. /\ al \in Seq(S) /\ Len(al) = Len(a) + Len(less)
      /\ \A i \in 1..(Len(a) + Len(less)) : al[i] = IF i <= Len(a) THEN a[i] ELSE less[i - Len(a)]
  <2> HIDE DEF less
  <2>1. QED
    BY <1>2, ConcatProperties
<1>6. /\ want \in Seq(S) /\ Len(want) = Len(al) + Len(c)
      /\ \A i \in 1..(Len(al) + Len(c)) : want[i] = IF i <= Len(al) THEN al[i] ELSE c[i - Len(al)]
  <2> HIDE DEF al
  <2>1. QED
    BY <1>5, ConcatProperties, ZenonT(30)
<1> HIDE DEF ab, all, less, al, want
<1> DEFINE at == Len(a) + 1
           id == b[1].id
<1>7. at \in DOMAIN all /\ all[at].id = id
  <2>1. at \in 1..(Len(a) + Len(b)) /\ ~(at <= Len(a)) /\ at - Len(a) = 1
    BY <1>3
  <2>2. ab[at] = b[at - Len(a)]
    BY <1>1, <2>1
  <2>3. all[at] = ab[at] /\ at \in DOMAIN all
    BY <1>1, <1>3, <1>4, <2>1
  <2>4. QED
    BY <2>1, <2>2, <2>3
<1>8. ASSUME NEW i \in DOMAIN all, all[i].id = id PROVE i = at
  <2>1. i \in 1..(Len(ab) + Len(c))
    BY <1>4
  <2>2. CASE i <= Len(a)
    BY <1>1, <1>3, <1>4, <1>8, <2>1, <2>2 DEF LayerIds
  <2>3. CASE i > Len(a) /\ i <= Len(ab)
    <3>1. i - Len(a) \in DOMAIN b /\ all[i] = b[i - Len(a)]
      BY <1>1, <1>3, <1>4, <2>1, <2>3
    <3>2. i - Len(a) = 1
      BY <1>8, <3>1
    <3>3. QED
      BY <1>3, <2>1, <3>2
  <2>4. CASE i > Len(ab)
    <3>1. i - Len(ab) \in DOMAIN c /\ all[i] = c[i - Len(ab)]
      BY <1>1, <1>3, <1>4, <2>1, <2>4
    <3>2. QED
      BY <1>8, <3>1 DEF LayerIds
  <2>5. QED
    BY <1>1, <1>3, <2>1, <2>2, <2>3, <2>4
<1>9. PlaceOf(all, id) = at
  BY <1>7, <1>8, OnePlace
<1>10. Without(all, id)
         = [i \in 1..Len(all) - 1 |-> IF i < at THEN all[i] ELSE all[i + 1]]
  BY <1>9 DEF Without
<1> HIDE DEF at, id
<1>11. ASSUME NEW i \in 1..Len(all) - 1
       PROVE  want[i] = IF i < at THEN all[i] ELSE all[i + 1]
  <2>1. CASE i < at
    <3>1. /\ i \in 1..Len(a) /\ i <= Len(al) /\ i <= Len(ab)
          /\ i \in 1..(Len(ab) + Len(c)) /\ i \in 1..(Len(al) + Len(c))
      BY <1>1, <1>2, <1>3, <1>4, <1>5, <2>1 DEF at
    <3>2. all[i] = a[i]
      BY <1>1, <1>3, <1>4, <3>1
    <3>3. want[i] = a[i]
      BY <1>2, <1>3, <1>5, <1>6, <3>1
    <3>4. QED
      BY <2>1, <3>2, <3>3
  <2>2. CASE i >= at
    <3>1. CASE i <= Len(al)
      <4>1. /\ i \in 1..(Len(a) + Len(less)) /\ i \in 1..(Len(al) + Len(c))
            /\ i + 1 \in 1..(Len(a) + Len(b)) /\ i + 1 \in 1..(Len(ab) + Len(c))
            /\ i - Len(a) \in 1..(Len(b) - 1)
        BY <1>1, <1>2, <1>3, <1>4, <1>5, <2>2, <3>1 DEF at
      <4>2. want[i] = less[i - Len(a)]
        <5>1. ~(i <= Len(a))
          BY <1>3, <2>2, <4>1 DEF at
        <5>2. QED
          BY <1>5, <1>6, <3>1, <4>1, <5>1
      <4>3. less[i - Len(a)] = b[i - Len(a) + 1]
        BY <1>2, <4>1
      <4>4. all[i + 1] = b[i + 1 - Len(a)]
        BY <1>1, <1>3, <1>4, <2>2, <4>1 DEF at
      <4>5. i - Len(a) + 1 = i + 1 - Len(a)
        BY <1>3
      <4>6. QED
        BY <1>3, <2>2, <4>2, <4>3, <4>4, <4>5 DEF at
    <3>2. CASE i > Len(al)
      <4>1. /\ i \in 1..(Len(al) + Len(c)) /\ i + 1 \in 1..(Len(ab) + Len(c))
            /\ i + 1 > Len(ab) /\ Len(ab) = Len(al) + 1
        BY <1>1, <1>2, <1>3, <1>4, <1>5, <3>2
      <4>2. want[i] = c[i - Len(al)]
        BY <1>3, <1>6, <3>2, <4>1, <1>5
      <4>3. all[i + 1] = c[i + 1 - Len(ab)]
        BY <1>1, <1>3, <1>4, <4>1
      <4>4. i + 1 - Len(ab) = i - Len(al)
        BY <1>1, <1>3, <1>2, <1>5, <4>1
      <4>5. ~(i < at)
        BY <1>3, <2>2 DEF at
      <4>6. QED
        BY <4>2, <4>3, <4>4, <4>5
    <3>3. QED
      BY <1>2, <1>3, <1>5, <3>1, <3>2
  <2>4. QED
    BY <1>1, <1>3, <2>1, <2>2 DEF at
<1>12. DOMAIN want = 1..Len(all) - 1 /\ want = [i \in DOMAIN want |-> want[i]]
  BY <1>1, <1>2, <1>3, <1>4, <1>5, <1>6
<1>13. Without(all, id) = want
  BY <1>10, <1>11, <1>12
<1>14. QED
  BY <1>13 DEF all, ab, want, al, less, id, Over

LEMMA OneMore ==
  ASSUME NEW S, NEW s \in Seq(S), NEW k \in 1..Len(s)
  PROVE  /\ SubSeq(s, 1, k - 1) \in Seq(S)
         /\ s[k] \in S
         /\ Append(SubSeq(s, 1, k - 1), s[k]) = SubSeq(s, 1, k)
<1>1. Len(s) \in Nat /\ \A i \in 1..Len(s) : s[i] \in S
  BY ElementOfSeq, LenProperties
<1>2. SubSeq(s, 1, k - 1) \in Seq(S)
  <2>1. 1 \in Int /\ k - 1 \in Int /\ \A i \in 1..(k - 1) : s[i] \in S
    BY <1>1
  <2>2. QED
    BY <2>1, SubSeqProperties
<1>3. SubSeq(s, 1, k) = SubSeq(s, 1, k - 1) \o <<s[k]>>
  <2>1. 1 \in 1..Len(s) /\ k \in 1..Len(s)
    BY <1>1
  <2>2. QED
    BY <2>1, SubSeqRecursiveSecond
<1>4. Append(SubSeq(s, 1, k - 1), s[k]) = SubSeq(s, 1, k - 1) \o <<s[k]>>
  BY <1>1, <1>2, AppendIsConcat
<1>5. QED
  BY <1>1, <1>2, <1>3, <1>4

LEMMA OneLess ==
  ASSUME NEW S, NEW s \in Seq(S), NEW k \in 1..Len(s)
  PROVE  /\ SubSeq(s, k, Len(s)) \in Seq(S)
         /\ SubSeq(s, k, Len(s)) # << >>
         /\ Tail(SubSeq(s, k, Len(s))) = SubSeq(s, k + 1, Len(s))
         /\ SubSeq(s, k, Len(s))[1] = s[k]
         /\ \A i \in DOMAIN SubSeq(s, k, Len(s)) :
              k + i - 1 \in 1..Len(s) /\ SubSeq(s, k, Len(s))[i] = s[k + i - 1]
<1>1. Len(s) \in Nat /\ \A i \in 1..Len(s) : s[i] \in S
  BY ElementOfSeq, LenProperties
<1> DEFINE n == Len(s)
           t == SubSeq(s, k, n)
<1>2. /\ t \in Seq(S) /\ Len(t) = n - k + 1
      /\ \A i \in 1..(n - k + 1) : t[i] = s[k + i - 1]
  <2>1. k \in Int /\ n \in Int /\ k <= n /\ \A i \in k..n : s[i] \in S
    BY <1>1
  <2> HIDE DEF n
  <2>2. QED
    BY <2>1, SubSeqProperties
<1>3. Tail(t) = SubSeq(s, k + 1, n)
  <2>1. k \in 1..n /\ n \in k..n
    BY <1>1
  <2>2. QED
    BY <2>1, HeadTailOfSubSeq
<1>4. DOMAIN t = 1..(n - k + 1)
  BY <1>2
<1> HIDE DEF t
<1>5. t # << >> /\ t[1] = s[k]
  <2>1. 1 \in 1..(n - k + 1) /\ k + 1 - 1 = k /\ n - k + 1 # 0
    BY <1>1
  <2>2. t[1] = s[k + 1 - 1]
    BY <1>2, <2>1
  <2>3. QED
    BY <1>2, <2>1, <2>2
<1>6. ASSUME NEW i \in DOMAIN t PROVE k + i - 1 \in 1..n /\ t[i] = s[k + i - 1]
  BY <1>1, <1>2, <1>4
<1>7. QED
  BY <1>2, <1>3, <1>5, <1>6 DEF t

-----------------------------------------------------------------------------
(* The engine's own sources and layers.                                    *)
OwnSources == {TrackSource, DraftSource}

LEMMA EngineIs ==
  ASSUME NEW S, \A i \in DOMAIN EngineLayers : EngineLayers[i] \in S
  PROVE  /\ EngineLayers \in Seq(S) /\ Len(EngineLayers) = 4 /\ EngineLayers # << >>
         /\ \A i \in 1..4 : EngineLayers[i].source \in OwnSources
         /\ \A i, j \in 1..4 : EngineLayers[i].id = EngineLayers[j].id => i = j
         /\ EngineAnchor # << >> /\ EngineLayers[1].id = EngineAnchor
<1>1. Len(EngineLayers) = 4 /\ DOMAIN EngineLayers = 1..4
  BY DEF EngineLayers
<1>2. EngineLayers \in Seq(S)
  BY DEF EngineLayers
<1>3. ASSUME NEW i \in 1..4 PROVE EngineLayers[i].source \in OwnSources
  BY DEF EngineLayers, OwnSources
<1>4. /\ EngineLayers[1].id = <<"mapatlas:track-line">>
      /\ EngineLayers[2].id = <<"mapatlas:track-line-dashed">>
      /\ EngineLayers[3].id = <<"mapatlas:draft-line">>
      /\ EngineLayers[4].id = <<"mapatlas:draft-vertex">>
  BY DEF EngineLayers
<1>5. ASSUME NEW i \in 1..4, NEW j \in 1..4, EngineLayers[i].id = EngineLayers[j].id
      PROVE  i = j
  <2>1. /\ <<"mapatlas:track-line">> # <<"mapatlas:track-line-dashed">>
        /\ <<"mapatlas:track-line">> # <<"mapatlas:draft-line">>
        /\ <<"mapatlas:track-line">> # <<"mapatlas:draft-vertex">>
        /\ <<"mapatlas:track-line-dashed">> # <<"mapatlas:draft-line">>
        /\ <<"mapatlas:track-line-dashed">> # <<"mapatlas:draft-vertex">>
        /\ <<"mapatlas:draft-line">> # <<"mapatlas:draft-vertex">>
    OBVIOUS
  <2>2. (i = 1 \/ i = 2 \/ i = 3 \/ i = 4) /\ (j = 1 \/ j = 2 \/ j = 3 \/ j = 4)
    OBVIOUS
  <2>3. QED
    BY <1>4, <1>5, <2>1, <2>2
<1>6. EngineAnchor # << >> /\ EngineLayers[1].id = EngineAnchor
  BY <1>4 DEF EngineAnchor
<1>7. EngineLayers # << >>
  BY <1>1
<1>8. QED
  BY <1>1, <1>2, <1>3, <1>5, <1>6, <1>7

AddsOver(a, b, x) == Append(a \o b, x) = a \o Append(b, x)

LEMMA AppendJoined ==
  ASSUME NEW S, NEW a \in Seq(S), NEW b \in Seq(S), NEW x \in S
  PROVE  AddsOver(a, b, x)
<1>1. a \o b \in Seq(S) /\ <<x>> \in Seq(S)
  BY ConcatProperties
<1>2. Append(a \o b, x) = (a \o b) \o <<x>>
  BY <1>1, AppendIsConcat
<1>3. Append(b, x) = b \o <<x>>
  BY AppendIsConcat
<1>4. (a \o b) \o <<x>> = a \o (b \o <<x>>)
  BY <1>1, ConcatAssociative
<1>5. QED
  BY <1>2, <1>3, <1>4 DEF AddsOver

LEMMA FirstIds ==
  ASSUME NEW S, NEW s \in Seq(S), NEW k \in 0..Len(s)
  PROVE  LayerIds(SubSeq(s, 1, k)) = {s[i].id : i \in 1..k}
<1>1. Len(s) \in Nat /\ \A i \in 1..Len(s) : s[i] \in S
  BY ElementOfSeq, LenProperties
<1> DEFINE t == SubSeq(s, 1, k)
<1>2. /\ t \in Seq(S) /\ Len(t) = IF 1 <= k THEN k - 1 + 1 ELSE 0
      /\ \A i \in 1..(k - 1 + 1) : t[i] = s[1 + i - 1]
  <2>1. 1 \in Int /\ k \in Int /\ \A i \in 1..k : s[i] \in S
    BY <1>1
  <2>2. QED
    BY <2>1, SubSeqProperties
<1> HIDE DEF t
<1>3. DOMAIN t = 1..k
  <2>1. Len(t) = k
    BY <1>1, <1>2
  <2>2. QED
    BY <1>2, <2>1, LenProperties
<1>4. ASSUME NEW i \in 1..k PROVE t[i] = s[i]
  <2>1. i \in 1..(k - 1 + 1) /\ 1 + i - 1 = i
    BY <1>1
  <2>2. QED
    BY <1>2, <2>1
<1>5. LayerIds(t) = {s[i].id : i \in 1..k}
  BY <1>3, <1>4 DEF LayerIds
<1>6. QED
  BY <1>5 DEF t

(* The map as the style left it, its terrain let go.                       *)
Bare(m, base) ==
  /\ IsMap(m) /\ m.refused = FALSE
  /\ m.sources = base.sources /\ m.layers = base.layers
  /\ m.terrain = NoTerrainAsked /\ m.ours = {} /\ m.installed = << >>

(* It with the engine's sources, and the first k of its layers.            *)
Owned(m, base, k) ==
  /\ IsMap(m) /\ m.refused = FALSE
  /\ m.sources = base.sources \cup OwnSources
  /\ m.layers = base.layers \o SubSeq(EngineLayers, 1, k)
  /\ m.terrain = NoTerrainAsked /\ m.installed = << >>
  /\ m.ours = OwnSources \cup {EngineLayers[i].id : i \in 1..k}
  /\ base.sources \cap OwnSources = {}
  /\ \A i \in 1..k : EngineLayers[i].id \notin LayerIds(base.layers)

(* The style has a name of the engine's.                                   *)
Usurps(base) ==
  base.sources \cap OwnSources # {} \/ LayerIds(base.layers) \cap LayerIds(EngineLayers) # {}

LEMMA SourcesOwned ==
  ASSUME NEW S, NEW m, NEW base, Bare(m, base), base.layers \in Seq(S)
  PROVE  LET e == ForEach(m, "own source", EngineSources)
         IN  (e.refused = TRUE /\ e.installed = << >> /\ Usurps(base)) \/ Owned(e, base, 0)
<1> DEFINE e == ForEach(m, "own source", EngineSources)
<1>1. Len(EngineSources) = 2 /\ EngineSources[1] = TrackSource /\ EngineSources[2] = DraftSource
  BY DEF EngineSources
<1>2. PICK after : /\ after[0] = m
                   /\ \A i \in 0..1 : after[i + 1] = Do(after[i], [op |-> "own source", of |-> EngineSources[i + 1]])
                   /\ e = after[2]
  <2>1. Len(EngineSources) \in Nat
    BY <1>1
  <2> HIDE DEF e
  <2> DEFINE call == "own source"
  <2> HIDE DEF call
  <2>2. PICK after : /\ after[0] = m
                     /\ \A i \in 0..(Len(EngineSources) - 1) :
                          after[i + 1] = Do(after[i], [op |-> call, of |-> EngineSources[i + 1]])
                     /\ ForEach(m, call, EngineSources) = after[Len(EngineSources)]
    <3>1. \E after : Walked(after, m, call, EngineSources)
      BY <2>1, ForEachIs
    <3>2. QED
      BY <3>1 DEF Walked
  <2>3. \A i \in 0..1 : after[i + 1] = Do(after[i], [op |-> call, of |-> EngineSources[i + 1]])
    BY <1>1, <2>2
  <2>4. e = after[2]
    BY <1>1, <2>2, Zenon DEF e, call
  <2>5. QED
    BY <2>2, <2>3, <2>4, Zenon DEF call
<1> HIDE DEF e
<1> DEFINE first == OwnSource(m, TrackSource)
<1>3. after[1] = first
  <2>1. 0 \in 0..1 /\ 0 + 1 = 1
    OBVIOUS
  <2>2. after[0 + 1] = Do(after[0], [op |-> "own source", of |-> EngineSources[0 + 1]])
    BY <1>2, <2>1, Zenon
  <2>3. after[1] = Do(m, [op |-> "own source", of |-> TrackSource])
    BY <1>1, <1>2, <2>1, <2>2
  <2>4. QED
    BY <2>3, DoIs, Zenon
<1>4. e = OwnSource(first, DraftSource)
  <2>1. 1 \in 0..1 /\ 1 + 1 = 2
    OBVIOUS
  <2>2. after[1 + 1] = Do(after[1], [op |-> "own source", of |-> EngineSources[1 + 1]])
    BY <1>2, <2>1, Zenon
  <2> HIDE DEF first
  <2>3. after[2] = Do(first, [op |-> "own source", of |-> DraftSource])
    BY <1>1, <1>3, <2>1, <2>2
  <2>4. QED
    BY <1>2, <2>3, DoIs, Zenon
<1>5. TrackSource # DraftSource
  BY DEF TrackSource, DraftSource
<1>6. /\ IsMap(first)
      /\ TrackSource \in m.sources => first.refused = TRUE /\ first.installed = m.installed
      /\ TrackSource \notin m.sources =>
           /\ first.refused = FALSE /\ first.sources = m.sources \cup {TrackSource}
           /\ first.layers = m.layers /\ first.terrain = m.terrain
           /\ first.ours = m.ours \cup {TrackSource} /\ first.installed = m.installed
  BY OwnSourceIs DEF Bare
<1> HIDE DEF first
<1>7. CASE TrackSource \in base.sources
  <2>1. first.refused = TRUE /\ first.installed = << >>
    BY <1>6, <1>7 DEF Bare
  <2>2. e = first
    BY <1>4, <2>1, RefusedStays
  <2>3. QED
    BY <1>7, <2>1, <2>2 DEF Usurps, OwnSources, e
<1>8. CASE TrackSource \notin base.sources
  <2>1. /\ IsMap(first) /\ first.refused = FALSE /\ first.sources = base.sources \cup {TrackSource}
        /\ first.layers = base.layers /\ first.terrain = NoTerrainAsked
        /\ first.ours = {TrackSource} /\ first.installed = << >>
    BY <1>6, <1>8 DEF Bare
  <2> DEFINE second == OwnSource(first, DraftSource)
  <2>2. /\ IsMap(second)
        /\ DraftSource \in first.sources =>
             second.refused = TRUE /\ second.installed = first.installed
        /\ DraftSource \notin first.sources =>
             /\ second.refused = FALSE /\ second.sources = first.sources \cup {DraftSource}
             /\ second.layers = first.layers /\ second.terrain = first.terrain
             /\ second.ours = first.ours \cup {DraftSource} /\ second.installed = first.installed
    BY <1>5, <2>1, OwnSourceIs
  <2> HIDE DEF second
  <2>3. e = second
    BY <1>4 DEF second
  <2>4. CASE DraftSource \in base.sources
    <3>1. second.refused = TRUE /\ second.installed = << >>
      BY <2>1, <2>2, <2>4
    <3>2. QED
      BY <2>3, <2>4, <3>1 DEF Usurps, OwnSources, e
  <2>5. CASE DraftSource \notin base.sources
    <3>1. /\ IsMap(second) /\ second.refused = FALSE
          /\ second.sources = base.sources \cup OwnSources
          /\ second.layers = base.layers /\ second.terrain = NoTerrainAsked
          /\ second.ours = OwnSources /\ second.installed = << >>
      BY <1>5, <2>1, <2>2, <2>5 DEF OwnSources
    <3>2. SubSeq(EngineLayers, 1, 0) = << >>
      BY SubSeqEmpty
    <3>3. second.layers = base.layers \o SubSeq(EngineLayers, 1, 0)
      BY <3>1, <3>2, ConcatEmptySeq
    <3>4. base.sources \cap OwnSources = {}
      BY <1>8, <2>5 DEF OwnSources
    <3>5. Owned(second, base, 0)
      BY <3>1, <3>3, <3>4 DEF Owned
    <3>6. QED
      BY <2>3, <3>5 DEF e
  <2>6. QED
    BY <2>4, <2>5
<1>9. QED
  BY <1>7, <1>8

LEMMA LayersOwned ==
  ASSUME NEW S, NEW m, NEW base, Owned(m, base, 0), base.layers \in Seq(S),
         \A i \in DOMAIN EngineLayers : EngineLayers[i] \in S
  PROVE  LET e == ForEach(m, "own layer", EngineLayers)
         IN  (e.refused = TRUE /\ e.installed = << >> /\ Usurps(base)) \/ Owned(e, base, 4)
<1> DEFINE e == ForEach(m, "own layer", EngineLayers)
<1>1. /\ EngineLayers \in Seq(S) /\ Len(EngineLayers) = 4 /\ DOMAIN EngineLayers = 1..4
      /\ \A i \in 1..4 : EngineLayers[i].source \in OwnSources
      /\ \A i, j \in 1..4 : EngineLayers[i].id = EngineLayers[j].id => i = j
  BY EngineIs, LenProperties
<1>2. PICK after : /\ after[0] = m
                   /\ \A i \in 0..3 : after[i + 1] = Do(after[i], [op |-> "own layer", of |-> EngineLayers[i + 1]])
                   /\ e = after[4]
  <2>1. Len(EngineLayers) \in Nat
    BY <1>1
  <2> HIDE DEF e
  <2> DEFINE call == "own layer"
  <2> HIDE DEF call
  <2>2. PICK after : /\ after[0] = m
                     /\ \A i \in 0..(Len(EngineLayers) - 1) :
                          after[i + 1] = Do(after[i], [op |-> call, of |-> EngineLayers[i + 1]])
                     /\ ForEach(m, call, EngineLayers) = after[Len(EngineLayers)]
    <3>1. \E after : Walked(after, m, call, EngineLayers)
      BY <2>1, ForEachIs
    <3>2. QED
      BY <3>1 DEF Walked
  <2>3. \A i \in 0..3 : after[i + 1] = Do(after[i], [op |-> call, of |-> EngineLayers[i + 1]])
    BY <1>1, <2>2
  <2>4. e = after[4]
    BY <1>1, <2>2, Zenon DEF e, call
  <2>5. QED
    BY <2>2, <2>3, <2>4, Zenon DEF call
<1> HIDE DEF e
<1>3. \A i \in 1..4 : EngineLayers[i].id \notin OwnSources
  <2>1. /\ EngineLayers[1].id = <<"mapatlas:track-line">>
        /\ EngineLayers[2].id = <<"mapatlas:track-line-dashed">>
        /\ EngineLayers[3].id = <<"mapatlas:draft-line">>
        /\ EngineLayers[4].id = <<"mapatlas:draft-vertex">>
    BY DEF EngineLayers
  <2>2. /\ <<"mapatlas:track-line">> \notin OwnSources
        /\ <<"mapatlas:track-line-dashed">> \notin OwnSources
        /\ <<"mapatlas:draft-line">> \notin OwnSources
        /\ <<"mapatlas:draft-vertex">> \notin OwnSources
    BY DEF OwnSources, TrackSource, DraftSource
  <2>3. \A i \in 1..4 : i = 1 \/ i = 2 \/ i = 3 \/ i = 4
    OBVIOUS
  <2>4. QED
    BY <2>1, <2>2, <2>3
<1> DEFINE Fine(k) == (after[k].refused = TRUE /\ after[k].installed = << >> /\ Usurps(base))
                     \/ Owned(after[k], base, k)
           T == {k \in 0..4 : Fine(k)}
<1>4. 0 \in T
  <2>1. Owned(after[0], base, 0)
    BY <1>2
  <2>2. 0 \in 0..4
    OBVIOUS
  <2>3. QED
    BY <2>1, <2>2
<1>5. ASSUME NEW k \in 0..3, k \in T PROVE k + 1 \in T
  <2> DEFINE d == after[k]
             layer == EngineLayers[k + 1]
             f == OwnLayer(d, layer)
  <2>1. k + 1 \in 1..4 /\ k + 1 - 1 = k
    OBVIOUS
  <2>2. after[k + 1] = f
    <3>2. after[k + 1] = Do(d, [op |-> "own layer", of |-> layer])
      BY <1>2
    <3>3. QED
      BY <3>2, DoIs, Zenon
  <2>3. Fine(k)
    BY <1>5
  <2>4. CASE d.refused = TRUE /\ d.installed = << >> /\ Usurps(base)
    <3>1. f = d
      BY <2>4, RefusedStays
    <3>2. Fine(k + 1)
      BY <2>2, <2>4, <3>1
    <3>3. QED
      BY <2>1, <3>2
  <2>5. CASE Owned(d, base, k)
    <3> HIDE DEF d
    <3> HIDE DEF layer
    <3>1. layer.id \notin d.ours
      <4>1. \A i \in 1..k : EngineLayers[i].id # EngineLayers[k + 1].id
        <5>1. \A i \in 1..k : i \in 1..4 /\ i # k + 1
          BY <2>1
        <5>2. QED
          BY <1>1, <2>1, <5>1
      <4>2. layer.id \notin OwnSources /\ layer.id \notin {EngineLayers[i].id : i \in 1..k}
        BY <1>3, <2>1, <4>1 DEF layer
      <4>3. QED
        BY <2>5, <4>2 DEF Owned
    <3>2. layer.source \in d.sources
      BY <1>1, <2>1, <2>5 DEF Owned, layer
    <3>3. /\ IsMap(f)
          /\ layer.id \in LayerIds(d.layers) => f.refused = TRUE /\ f.installed = d.installed
          /\ layer.id \notin LayerIds(d.layers) =>
               /\ f.refused = FALSE /\ f.sources = d.sources /\ f.layers = Append(d.layers, layer)
               /\ f.terrain = d.terrain /\ f.ours = d.ours \cup {layer.id}
               /\ f.installed = d.installed
      <4>1. IsMap(d) /\ d.refused = FALSE
        BY <2>5 DEF Owned
      <4>2. QED
        BY <3>1, <3>2, <4>1, OwnLayerIs
    <3>4. /\ SubSeq(EngineLayers, 1, k) \in Seq(S) /\ layer \in S
          /\ Append(SubSeq(EngineLayers, 1, k), layer) = SubSeq(EngineLayers, 1, k + 1)
      <4>1. k + 1 \in 1..Len(EngineLayers)
        BY <1>1
      <4>2. QED
        BY <1>1, <2>1, <4>1, OneMore DEF layer
    <3>5. LayerIds(SubSeq(EngineLayers, 1, k)) = {EngineLayers[i].id : i \in 1..k}
      <4>1. k \in 0..Len(EngineLayers)
        BY <1>1
      <4>2. EngineLayers \in Seq(S)
        BY <1>1
      <4>3. QED
        BY <4>1, <4>2, FirstIds
    <3>6. LayerIds(d.layers) = LayerIds(base.layers) \cup {EngineLayers[i].id : i \in 1..k}
      <4> DEFINE p == SubSeq(EngineLayers, 1, k)
                 all == base.layers \o p
      <4>1. d.layers = all
        BY <2>5 DEF Owned
      <4>2. LayerIds(all) = LayerIds(base.layers) \cup LayerIds(p)
        BY <3>4, JoinedIds, ZenonT(30)
      <4> HIDE DEF all, p
      <4>3. LayerIds(p) = {EngineLayers[i].id : i \in 1..k}
        BY <3>5 DEF p
      <4>4. QED
        BY <4>1, <4>2, <4>3
    <3>7. layer.id \notin {EngineLayers[i].id : i \in 1..k}
      <4>1. \A i \in 1..k : i \in 1..4 /\ i # k + 1
        BY <2>1
      <4>2. \A i \in 1..k : EngineLayers[i].id # EngineLayers[k + 1].id
        BY <1>1, <2>1, <4>1
      <4>3. QED
        BY <4>2 DEF layer
    <3> HIDE DEF f
    <3>8. CASE layer.id \in LayerIds(base.layers)
      <4>1. f.refused = TRUE /\ f.installed = << >>
        BY <2>5, <3>3, <3>6, <3>8 DEF Owned
      <4>2. layer.id \in LayerIds(EngineLayers)
        BY <1>1, <2>1 DEF LayerIds, layer
      <4>3. Usurps(base)
        BY <3>8, <4>2 DEF Usurps
      <4>4. Fine(k + 1)
        BY <2>2, <4>1, <4>3
      <4>5. QED
        BY <2>1, <4>4
    <3>9. CASE layer.id \notin LayerIds(base.layers)
      <4>1. layer.id \notin LayerIds(d.layers)
        BY <3>6, <3>7, <3>9
      <4>2. /\ IsMap(f) /\ f.refused = FALSE /\ f.sources = d.sources /\ f.layers = Append(d.layers, layer)
            /\ f.terrain = d.terrain /\ f.ours = d.ours \cup {layer.id} /\ f.installed = d.installed
        BY <3>3, <4>1
      <4>3. f.layers = base.layers \o SubSeq(EngineLayers, 1, k + 1)
        <5>1. d.layers = base.layers \o SubSeq(EngineLayers, 1, k)
          BY <2>5 DEF Owned
        <5>2. Append(base.layers \o SubSeq(EngineLayers, 1, k), layer)
                = base.layers \o Append(SubSeq(EngineLayers, 1, k), layer)
          <6> DEFINE p == SubSeq(EngineLayers, 1, k)
                     under == base.layers
          <6>1. under \in Seq(S) /\ p \in Seq(S) /\ layer \in S
            BY <3>4
          <6> HIDE DEF p, under
          <6>2. AddsOver(under, p, layer)
            BY <6>1, AppendJoined
          <6>3. QED
            BY <6>2 DEF p, under, AddsOver
        <5>3. QED
          BY <3>4, <4>2, <5>1, <5>2
      <4>4. {EngineLayers[i].id : i \in 1..(k + 1)} = {EngineLayers[i].id : i \in 1..k} \cup {layer.id}
        <5>1. 1..(k + 1) = 1..k \cup {k + 1}
          OBVIOUS
        <5>2. QED
          BY <5>1, Zenon DEF layer
      <4>5. f.ours = OwnSources \cup {EngineLayers[i].id : i \in 1..(k + 1)}
        BY <2>5, <4>2, <4>4 DEF Owned
      <4>6. \A i \in 1..(k + 1) : EngineLayers[i].id \notin LayerIds(base.layers)
        BY <2>5, <3>9 DEF Owned, layer
      <4>7. Owned(f, base, k + 1)
        BY <2>5, <4>2, <4>3, <4>5, <4>6 DEF Owned
      <4>8. Fine(k + 1)
        BY <2>2, <4>7
      <4>9. QED
        BY <2>1, <4>8
    <3>10. QED
      BY <3>8, <3>9
  <2>6. QED
    BY <2>3, <2>4, <2>5
<1> HIDE DEF T
<1>6. \A k \in 0..(4 - 1) : k \in T => k + 1 \in T
  BY <1>5
<1>7. 4 \in T
  BY <1>4, <1>6, UpTo
<1>8. QED
  BY <1>2, <1>7 DEF T, e

-----------------------------------------------------------------------------
(* The consumer's stack, between the style and the engine's layers.        *)
Whole(m, base, mid, ids, terrain, built) ==
  /\ IsMap(m) /\ m.refused = FALSE
  /\ m.sources = (base.sources \cup OwnSources) \cup ids
  /\ m.layers = Over(base.layers, mid, EngineLayers)
  /\ m.terrain = terrain /\ m.installed = built
  /\ m.ours = OwnSources \cup LayerIds(EngineLayers)

(* Layers that can lie over those of a style, under the engine's.          *)
Ground(S, base, layers) ==
  /\ \A i \in DOMAIN EngineLayers : EngineLayers[i] \in S
  /\ base.layers \in Seq(S) /\ layers \in Seq(S)
  /\ \A i, j \in DOMAIN layers : layers[i].id = layers[j].id => i = j
  /\ LayerIds(layers) \cap LayerIds(EngineLayers) = {}

(* The first k of them are there, and the style has none of their names.   *)
Stage(m, base, layers, k, ids, built) ==
  /\ Whole(m, base, SubSeq(layers, 1, k), ids, NoTerrainAsked, built)
  /\ ~Usurps(base)
  /\ base.sources \cap ids = {}
  /\ \A p \in 1..k : layers[p].id \notin LayerIds(base.layers)

(* The anchor is in the map wherever the engine's layers are.              *)
LEMMA OverIds ==
  ASSUME NEW S, NEW a \in Seq(S), NEW b \in Seq(S), NEW c \in Seq(S)
  PROVE  LayerIds(Over(a, b, c)) = (LayerIds(a) \cup LayerIds(b)) \cup LayerIds(c)
<1> DEFINE ab == a \o b
<1>1. ab \in Seq(S)
  BY ConcatProperties
<1>2. LayerIds(ab) = LayerIds(a) \cup LayerIds(b)
  BY JoinedIds
<1> HIDE DEF ab
<1>3. LayerIds(ab \o c) = LayerIds(ab) \cup LayerIds(c)
  BY <1>1, JoinedIds
<1>4. QED
  BY <1>2, <1>3 DEF Over, ab

LEMMA LayerAdded ==
  ASSUME NEW S, NEW m, NEW base, NEW layers, Ground(S, base, layers), NEW ids, NEW built,
         NEW k \in 0..(Len(layers) - 1), Stage(m, base, layers, k, ids, built),
         layers[k + 1].source \in ids
  PROVE  LET e == addLayer(m, layers[k + 1], EngineAnchor)
         IN  \/ e.refused = TRUE /\ LayerIds(base.layers) \cap LayerIds(layers) # {}
             \/ Stage(e, base, layers, k + 1, ids, built)
<1> DEFINE layer == layers[k + 1]
           e == addLayer(m, layer, EngineAnchor)
           p == SubSeq(layers, 1, k)
           under == base.layers
<1>1. /\ EngineLayers \in Seq(S) /\ DOMAIN EngineLayers = 1..4 /\ EngineLayers # << >>
      /\ \A i, j \in 1..4 : EngineLayers[i].id = EngineLayers[j].id => i = j
      /\ EngineAnchor # << >> /\ EngineLayers[1].id = EngineAnchor
  BY EngineIs, LenProperties DEF Ground
<1>2. under \in Seq(S) /\ layers \in Seq(S) /\ DOMAIN layers = 1..Len(layers) /\ Len(layers) \in Nat
  BY LenProperties DEF Ground
<1>3. p \in Seq(S) /\ layer \in S /\ Append(p, layer) = SubSeq(layers, 1, k + 1)
  <2>1. k + 1 \in 1..Len(layers) /\ k + 1 - 1 = k
    BY <1>2
  <2>2. QED
    BY <1>2, <2>1, OneMore
<1>4. LayerIds(p) = {layers[i].id : i \in 1..k}
  <2>1. k \in 0..Len(layers)
    BY <1>2
  <2>2. QED
    BY <1>2, <2>1, FirstIds
<1>5. layer.id \notin LayerIds(p)
  <2>1. k + 1 \in DOMAIN layers /\ \A i \in 1..k : i \in DOMAIN layers /\ i # k + 1
    BY <1>2
  <2>2. \A i \in 1..k : layers[i].id # layers[k + 1].id
    BY <2>1 DEF Ground
  <2>3. QED
    BY <1>4, <2>2
<1>6. layer.id \in LayerIds(layers)
  <2>1. k + 1 \in DOMAIN layers
    BY <1>2
  <2>2. QED
    BY <2>1 DEF LayerIds
<1>7. layer.id \notin LayerIds(EngineLayers)
  BY <1>6 DEF Ground
<1>8. EngineAnchor \in LayerIds(EngineLayers)
  <2>1. 1 \in DOMAIN EngineLayers
    BY <1>1
  <2>2. QED
    BY <1>1, <2>1 DEF LayerIds
<1>9. IsMap(m) /\ m.refused = FALSE /\ m.layers = Over(under, p, EngineLayers)
      /\ m.sources = (base.sources \cup OwnSources) \cup ids
      /\ m.terrain = NoTerrainAsked /\ m.installed = built
      /\ m.ours = OwnSources \cup LayerIds(EngineLayers)
  BY DEF Stage, Whole
<1>10. layer.source \in m.sources
  <2>1. layer.source \in ids
    OBVIOUS
  <2> HIDE DEF layer
  <2>2. QED
    BY <1>9, <2>1
<1> HIDE DEF p, under, layer
<1>11. LayerIds(m.layers) = (LayerIds(under) \cup LayerIds(p)) \cup LayerIds(EngineLayers)
  BY <1>1, <1>2, <1>3, <1>9, OverIds
<1>12. EngineAnchor \in LayerIds(m.layers)
  BY <1>8, <1>11
<1>13. /\ IsMap(e)
       /\ layer.id \in LayerIds(m.layers) => e.refused = TRUE /\ e.installed = m.installed
       /\ layer.id \notin LayerIds(m.layers) =>
            /\ e.refused = FALSE /\ e.sources = m.sources
            /\ e.layers = Placed(m.layers, layer, EngineAnchor)
            /\ e.terrain = m.terrain /\ e.ours = m.ours /\ e.installed = m.installed
  BY <1>9, <1>10, <1>12, AddLayerIs
<1> HIDE DEF e
<1>14. CASE layer.id \in LayerIds(under)
  <2>1. e.refused = TRUE
    BY <1>11, <1>13, <1>14
  <2>2. LayerIds(base.layers) \cap LayerIds(layers) # {}
    BY <1>6, <1>14 DEF under
  <2>3. QED
    BY <2>1, <2>2 DEF e, layer
<1>15. CASE layer.id \notin LayerIds(under)
  <2>1. layer.id \notin LayerIds(m.layers)
    BY <1>5, <1>7, <1>11, <1>15
  <2>2. /\ IsMap(e) /\ e.refused = FALSE /\ e.sources = m.sources
        /\ e.layers = Placed(m.layers, layer, EngineAnchor)
        /\ e.terrain = m.terrain /\ e.ours = m.ours /\ e.installed = m.installed
    BY <1>13, <2>1
  <2>3. EngineAnchor \notin LayerIds(under)
    BY <1>8 DEF Stage, Usurps, under
  <2>4. EngineAnchor \notin LayerIds(p)
    <3>1. ASSUME NEW i \in 1..k PROVE layers[i].id # EngineAnchor
      <4>1. i \in DOMAIN layers
        BY <1>2
      <4>2. layers[i].id \in LayerIds(layers)
        BY <4>1 DEF LayerIds
      <4>3. QED
        BY <1>8, <4>2 DEF Ground
    <3>2. QED
      BY <1>4, <3>1
  <2>5. \A i \in DOMAIN EngineLayers : EngineLayers[i].id = EngineAnchor => i = 1
    <3>1. 1 \in 1..4
      OBVIOUS
    <3>2. QED
      BY <1>1, <3>1
  <2>6. Placed(Over(under, p, EngineLayers), layer, EngineAnchor)
          = Over(under, Append(p, layer), EngineLayers)
    <3>1. /\ EngineLayers \in Seq(S) /\ under \in Seq(S) /\ p \in Seq(S) /\ layer \in S
          /\ EngineLayers # << >> /\ EngineAnchor # << >> /\ EngineLayers[1].id = EngineAnchor
      BY <1>1, <1>2, <1>3
    <3>2. GoesUnder(under, p, EngineLayers, layer, EngineAnchor)
      BY <2>3, <2>4, <2>5, <3>1, PlacedUnder
    <3>3. QED
      BY <3>2 DEF GoesUnder
  <2>7. e.layers = Over(base.layers, SubSeq(layers, 1, k + 1), EngineLayers)
    BY <1>3, <1>9, <2>2, <2>6 DEF under
  <2>8. Whole(e, base, SubSeq(layers, 1, k + 1), ids, NoTerrainAsked, built)
    BY <1>9, <2>2, <2>7 DEF Whole
  <2>9. \A q \in 1..(k + 1) : layers[q].id \notin LayerIds(base.layers)
    <3>1. \A q \in 1..(k + 1) : q \in 1..k \/ q = k + 1
      OBVIOUS
    <3>2. QED
      BY <1>15, <3>1 DEF Stage, under, layer
  <2>10. Stage(e, base, layers, k + 1, ids, built)
    BY <2>8, <2>9 DEF Stage
  <2>11. QED
    BY <2>10 DEF e, layer
<1>16. QED
  BY <1>14, <1>15

(* Where in the list of all layers each entry's own begin.                 *)
LEMMA LaidOut ==
  ASSUME NEW S, NEW built, Len(built) \in Nat, \A i \in 1..Len(built) : built[i].layers \in Seq(S)
  PROVE  /\ LayersOf(built) \in Seq(S)
         /\ \E from :
              /\ from[0] = 0
              /\ from[Len(built)] = Len(LayersOf(built))
              /\ \A i \in 0..(Len(built) - 1) :
                   /\ from[i] \in Nat
                   /\ from[i + 1] = from[i] + Len(built[i + 1].layers)
                   /\ from[i + 1] <= Len(LayersOf(built))
                   /\ \A j \in 1..Len(built[i + 1].layers) :
                        LayersOf(built)[from[i] + j] = built[i + 1].layers[j]
<1> DEFINE n == Len(built)
           L == LayersOf(built)
<1>1. PICK after : /\ after[0] = << >>
                   /\ \A i \in 0..(n - 1) : after[i + 1] = after[i] \o built[i + 1].layers
                   /\ L = after[n]
  BY LayersIs
<1>2. n \in Nat
  OBVIOUS
<1> HIDE DEF L
<1> DEFINE Seqs == {k \in 0..n : after[k] \in Seq(S)}
<1>3. \A k \in 0..n : k \in Seqs
  <2>1. 0 \in Seqs
    <3>1. 0 \in 0..n /\ << >> \in Seq(S)
      BY <1>2, EmptySeq
    <3>2. QED
      BY <1>1, <3>1
  <2>2. ASSUME NEW k \in 0..(n - 1), k \in Seqs PROVE k + 1 \in Seqs
    <3>1. k + 1 \in 1..n /\ k + 1 \in 0..n
      BY <1>2
    <3>2. built[k + 1].layers \in Seq(S)
      BY <3>1
    <3>3. after[k] \in Seq(S)
      BY <2>2
    <3>4. after[k] \o built[k + 1].layers \in Seq(S)
      BY <3>2, <3>3, ConcatProperties
    <3>5. after[k + 1] \in Seq(S)
      BY <1>1, <3>4
    <3>6. QED
      BY <3>1, <3>5
  <2> HIDE DEF Seqs, n
  <2>3. QED
    BY <1>2, <2>1, <2>2, UpTo
<1>4. \A k \in 0..n : after[k] \in Seq(S) /\ Len(after[k]) \in Nat
  BY <1>3
<1> HIDE DEF Seqs
<1>5. ASSUME NEW k \in 0..(n - 1)
      PROVE  /\ Len(after[k + 1]) = Len(after[k]) + Len(built[k + 1].layers)
             /\ Len(built[k + 1].layers) \in Nat
             /\ \A p \in 1..Len(after[k]) : after[k + 1][p] = after[k][p]
             /\ \A j \in 1..Len(built[k + 1].layers) :
                  after[k + 1][Len(after[k]) + j] = built[k + 1].layers[j]
  <2> DEFINE a == after[k]
             b == built[k + 1].layers
             c == a \o b
  <2>1. k \in 0..n /\ k + 1 \in 1..n
    BY <1>2
  <2>2. a \in Seq(S) /\ b \in Seq(S) /\ Len(a) \in Nat
    BY <1>4, <2>1
  <2>3. after[k + 1] = c
    BY <1>1
  <2> HIDE DEF a, b
  <2>4. /\ Len(b) \in Nat /\ Len(c) = Len(a) + Len(b)
        /\ \A i \in 1..(Len(a) + Len(b)) : c[i] = IF i <= Len(a) THEN a[i] ELSE b[i - Len(a)]
    BY <2>2, ConcatProperties
  <2> HIDE DEF c
  <2>5. ASSUME NEW p \in 1..Len(a) PROVE c[p] = a[p]
    <3>1. p \in 1..(Len(a) + Len(b)) /\ p <= Len(a)
      BY <2>2, <2>4
    <3>2. QED
      BY <2>4, <3>1
  <2>6. ASSUME NEW j \in 1..Len(b) PROVE c[Len(a) + j] = b[j]
    <3>1. Len(a) + j \in 1..(Len(a) + Len(b)) /\ ~(Len(a) + j <= Len(a)) /\ Len(a) + j - Len(a) = j
      BY <2>2, <2>4
    <3>2. QED
      BY <2>4, <3>1
  <2>7. QED
    BY <2>3, <2>4, <2>5, <2>6 DEF a, b
<1> DEFINE Prefix(i, k) == /\ Len(after[i]) <= Len(after[k])
                           /\ \A p \in 1..Len(after[i]) : after[k][p] = after[i][p]
           Prefixes == {k \in 0..n : \A i \in 0..k : Prefix(i, k)}
<1>6. \A k \in 0..n : k \in Prefixes
  <2>1. 0 \in Prefixes
    <3>1. 0 \in 0..n /\ \A i \in 0..0 : i = 0
      BY <1>2
    <3>2. Prefix(0, 0)
      BY <1>4, <3>1
    <3>3. QED
      BY <3>1, <3>2
  <2>2. ASSUME NEW k \in 0..(n - 1), k \in Prefixes PROVE k + 1 \in Prefixes
    <3>1. k + 1 \in 0..n /\ k \in 0..n
      BY <1>2
    <3>2. ASSUME NEW i \in 0..(k + 1) PROVE Prefix(i, k + 1)
      <4>1. CASE i = k + 1
        BY <1>4, <3>1, <4>1
      <4>2. CASE i # k + 1
        <5>1. i \in 0..k /\ i \in 0..n
          BY <3>1, <4>2
        <5>2. Prefix(i, k)
          BY <2>2, <5>1
        <5>3. Len(after[i]) <= Len(after[k + 1])
          <6>1. /\ Len(after[i]) \in Nat /\ Len(after[k]) \in Nat /\ Len(built[k + 1].layers) \in Nat
                /\ Len(after[k + 1]) = Len(after[k]) + Len(built[k + 1].layers)
            BY <1>4, <1>5, <3>1, <5>1
          <6>2. Len(after[i]) <= Len(after[k])
            BY <5>2
          <6> DEFINE x == Len(after[i])
                     y == Len(after[k])
                     z == Len(built[k + 1].layers)
                     w == Len(after[k + 1])
          <6>3. x \in Nat /\ y \in Nat /\ z \in Nat /\ w = y + z /\ x <= y
            BY <6>1, <6>2
          <6> HIDE DEF x, y, z, w
          <6>4. x <= w
            BY <6>3
          <6>5. QED
            BY <6>4 DEF x, w
        <5>4. ASSUME NEW p \in 1..Len(after[i]) PROVE after[k + 1][p] = after[i][p]
          <6>1. p \in 1..Len(after[k])
            BY <1>4, <3>1, <5>1, <5>2
          <6>2. after[k + 1][p] = after[k][p]
            BY <1>5, <6>1
          <6>3. QED
            BY <5>2, <6>2
        <5>5. QED
          BY <5>3, <5>4
      <4>3. QED
        BY <4>1, <4>2
    <3> HIDE DEF Prefix
    <3>3. QED
      BY <3>1, <3>2
  <2> HIDE DEF Prefixes, n
  <2>3. QED
    BY <1>2, <2>1, <2>2, UpTo
<1>7. ASSUME NEW i \in 0..n
      PROVE  Len(after[i]) <= Len(L) /\ \A p \in 1..Len(after[i]) : L[p] = after[i][p]
  <2>1. n \in 0..n
    BY <1>2
  <2>2. n \in Prefixes
    BY <1>6, <2>1
  <2>3. Prefix(i, n)
    <3> HIDE DEF Prefix
    <3>1. QED
      BY <2>2
  <2>4. QED
    BY <1>1, <2>3
<1> HIDE DEF Prefixes
<1> DEFINE from == [i \in 0..n |-> Len(after[i])]
<1>8. from[0] = 0 /\ from[n] = Len(L)
  <2>1. 0 \in 0..n /\ n \in 0..n
    BY <1>2
  <2>2. from[0] = Len(after[0]) /\ from[n] = Len(after[n])
    BY <2>1
  <2>3. Len(after[0]) = 0
    BY <1>1, EmptySeq
  <2>4. QED
    BY <1>1, <2>2, <2>3
<1>9. ASSUME NEW i \in 0..(n - 1)
      PROVE  /\ from[i] \in Nat
             /\ from[i + 1] = from[i] + Len(built[i + 1].layers)
             /\ from[i + 1] <= Len(L)
             /\ \A j \in 1..Len(built[i + 1].layers) : L[from[i] + j] = built[i + 1].layers[j]
  <2>1. i \in 0..n /\ i + 1 \in 0..n
    BY <1>2
  <2>2. from[i] = Len(after[i]) /\ from[i + 1] = Len(after[i + 1])
    BY <2>1
  <2> HIDE DEF from
  <2>3. ASSUME NEW j \in 1..Len(built[i + 1].layers)
        PROVE  L[from[i] + j] = built[i + 1].layers[j]
    <3>1. from[i] + j \in 1..Len(after[i + 1])
      <4>1. /\ Len(after[i]) \in Nat /\ Len(built[i + 1].layers) \in Nat
            /\ Len(after[i + 1]) = Len(after[i]) + Len(built[i + 1].layers)
        BY <1>4, <1>5, <2>1
      <4> DEFINE x == Len(after[i])
                 z == Len(built[i + 1].layers)
                 w == Len(after[i + 1])
      <4>2. x \in Nat /\ z \in Nat /\ w = x + z /\ from[i] = x /\ j \in 1..z
        BY <2>2, <4>1
      <4> HIDE DEF x, z, w
      <4>3. x + j \in 1..w
        BY <4>2
      <4>4. QED
        BY <4>2, <4>3 DEF w
    <3>2. L[from[i] + j] = after[i + 1][from[i] + j]
      BY <1>7, <2>1, <3>1
    <3>3. QED
      BY <1>5, <2>2, <3>2
  <2>4. QED
    BY <1>4, <1>5, <1>7, <2>1, <2>2, <2>3
<1>10. L \in Seq(S)
  BY <1>1, <1>2, <1>4
<1> HIDE DEF from
<1>11. \E g : /\ g[0] = 0
              /\ g[n] = Len(L)
              /\ \A i \in 0..(n - 1) :
                   /\ g[i] \in Nat
                   /\ g[i + 1] = g[i] + Len(built[i + 1].layers)
                   /\ g[i + 1] <= Len(L)
                   /\ \A j \in 1..Len(built[i + 1].layers) : L[g[i] + j] = built[i + 1].layers[j]
  BY <1>8, <1>9
<1>12. QED
  BY <1>10, <1>11 DEF L

(* An entry counts as installed.                                           *)
Kept(m, installed) == [m EXCEPT !.installed = installed]

LEMMA CountsAsInstalled ==
  ASSUME NEW m, IsMap(m), NEW installed
  PROVE  LET e == Kept(m, installed)
         IN  /\ IsMap(e) /\ e.refused = m.refused /\ e.sources = m.sources
             /\ e.layers = m.layers /\ e.terrain = m.terrain /\ e.ours = m.ours
             /\ e.installed = installed
<1> DEFINE e == [m EXCEPT !.installed = installed]
<1>1. /\ IsMap(e) /\ e.refused = m.refused /\ e.sources = m.sources /\ e.layers = m.layers
      /\ e.terrain = m.terrain /\ e.ours = m.ours /\ e.installed = installed
  BY DEF IsMap, MapFields
<1>2. QED
  BY <1>1 DEF Kept

LEMMA SourceAdded ==
  ASSUME NEW m, NEW base, NEW layers, NEW ids, NEW built, NEW k,
         Stage(m, base, layers, k, ids, built), NEW id, id \notin OwnSources, id \notin ids
  PROVE  LET e == addSource(m, id)
         IN  \/ e.refused = TRUE /\ id \in base.sources
             \/ Stage(e, base, layers, k, ids \cup {id}, built)
<1> DEFINE e == addSource(m, id)
           mid == SubSeq(layers, 1, k)
<1>1. Whole(m, base, mid, ids, NoTerrainAsked, built) /\ base.sources \cap ids = {}
  BY DEF Stage
<1> HIDE DEF mid
<1>2. IsMap(m) /\ m.refused = FALSE /\ m.sources = (base.sources \cup OwnSources) \cup ids
  BY <1>1 DEF Whole
<1>3. /\ IsMap(e)
      /\ id \in m.sources => e.refused = TRUE /\ e.installed = m.installed
      /\ id \notin m.sources =>
           /\ e.refused = FALSE /\ e.sources = m.sources \cup {id} /\ e.layers = m.layers
           /\ e.terrain = m.terrain /\ e.ours = m.ours /\ e.installed = m.installed
  BY <1>2, AddSourceIs
<1> HIDE DEF e
<1>4. CASE id \in base.sources
  BY <1>2, <1>3, <1>4 DEF e
<1>5. CASE id \notin base.sources
  <2>1. id \notin m.sources
    BY <1>2, <1>5
  <2>2. e.sources = (base.sources \cup OwnSources) \cup (ids \cup {id})
    BY <1>2, <1>3, <2>1
  <2>3. Whole(e, base, mid, ids \cup {id}, NoTerrainAsked, built)
    BY <1>1, <1>3, <2>1, <2>2 DEF Whole
  <2>4. base.sources \cap (ids \cup {id}) = {}
    BY <1>1, <1>5
  <2>5. Stage(e, base, layers, k, ids \cup {id}, built)
    BY <2>3, <2>4 DEF Stage, mid
  <2>6. QED
    BY <2>5 DEF e
<1>6. QED
  BY <1>4, <1>5

(* A stack's entry: its source, then its layers, each under the anchor.    *)
LEMMA EntryInstalled ==
  ASSUME NEW S, NEW m, NEW base, NEW layers, Ground(S, base, layers), NEW ids, NEW built,
         NEW entry, entry.layers \in Seq(S), NEW k \in Nat,
         k + Len(entry.layers) <= Len(layers),
         \A j \in 1..Len(entry.layers) :
            layers[k + j] = entry.layers[j] /\ entry.layers[j].source = entry.id,
         Stage(m, base, layers, k, ids, built), entry.id \notin OwnSources, entry.id \notin ids
  PROVE  LET e == InstallEntry(m, entry)
         IN  \/ /\ e.refused = TRUE
                /\ \/ entry.id \in base.sources
                   \/ LayerIds(base.layers) \cap LayerIds(layers) # {}
             \/ Stage(e, base, layers, k + Len(entry.layers), ids \cup {entry.id},
                      Append(built, entry))
<1> DEFINE n == Len(entry.layers)
           more == ids \cup {entry.id}
           first == addSource(m, entry.id)
           shown == ForEach(first, "add layer", entry.layers)
           e == InstallEntry(m, entry)
           Bad == \/ entry.id \in base.sources
                  \/ LayerIds(base.layers) \cap LayerIds(layers) # {}
<1>1. n \in Nat /\ Len(layers) \in Nat
  BY LenProperties DEF Ground
<1>2. \/ first.refused = TRUE /\ Bad
      \/ Stage(first, base, layers, k, more, built)
  BY SourceAdded
<1>3. e = IF shown.refused THEN shown ELSE Kept(shown, Append(shown.installed, entry))
  BY DEF InstallEntry, Kept
<1> HIDE DEF e, more, Bad
<1>4. PICK after : /\ after[0] = first
                   /\ \A i \in 0..(n - 1) : after[i + 1] = addLayer(after[i], entry.layers[i + 1], EngineAnchor)
                   /\ shown = after[n]
  <2> DEFINE call == "add layer"
  <2> DEFINE list == entry.layers
  <2>0. Len(list) \in Nat
    BY <1>1
  <2> HIDE DEF call, first, list
  <2>1. PICK after : /\ after[0] = first
                     /\ \A i \in 0..(Len(list) - 1) :
                          after[i + 1] = Do(after[i], [op |-> call, of |-> list[i + 1]])
                     /\ ForEach(first, call, list) = after[Len(list)]
    <3>1. \E after : Walked(after, first, call, list)
      BY <2>0, ForEachIs
    <3>2. QED
      BY <3>1 DEF Walked
  <2>2. ASSUME NEW i \in 0..(n - 1)
        PROVE  after[i + 1] = addLayer(after[i], entry.layers[i + 1], EngineAnchor)
    <3>1. after[i + 1] = Do(after[i], [op |-> "add layer", of |-> entry.layers[i + 1]])
      BY <2>1 DEF call, list
    <3>2. QED
      BY <3>1, DoIs, Zenon
  <2>3. QED
    BY <2>1, <2>2 DEF call, list
<1> HIDE DEF shown, first
<1> DEFINE Fine(i) == \/ after[i].refused = TRUE /\ Bad
                      \/ Stage(after[i], base, layers, k + i, more, built)
           Fines == {i \in 0..n : Fine(i)}
<1>5. 0 \in Fines
  <2>1. k + 0 = k /\ 0 \in 0..n
    BY <1>1
  <2>2. Fine(0)
    BY <1>2, <1>4, <2>1
  <2>3. QED
    BY <2>1, <2>2
<1>6. ASSUME NEW i \in 0..(n - 1), i \in Fines PROVE i + 1 \in Fines
  <2> DEFINE d == after[i]
             layer == entry.layers[i + 1]
             f == addLayer(d, layer, EngineAnchor)
  <2>1. i + 1 \in 0..n /\ i + 1 \in 1..n /\ k + (i + 1) = k + i + 1 /\ k + i \in 0..(Len(layers) - 1)
    BY <1>1
  <2>2. after[i + 1] = f
    BY <1>4
  <2>3. Fine(i)
    BY <1>6
  <2>4. CASE d.refused = TRUE /\ Bad
    <3>1. f = d
      <4> HIDE DEF d, layer
      <4>1. QED
        BY <2>4, RefusedStays
    <3>2. Fine(i + 1)
      BY <2>2, <2>4, <3>1
    <3>3. QED
      BY <2>1, <3>2
  <2>5. CASE Stage(d, base, layers, k + i, more, built)
    <3>1. layers[k + i + 1] = layer /\ layer.source = entry.id
      BY <2>1, SMTT(30)
    <3>2. entry.id \in more
      BY DEF more
    <3> HIDE DEF d, layer
    <3> DEFINE at == k + i
    <3>3. at \in 0..(Len(layers) - 1) /\ layers[at + 1] = layer /\ layers[at + 1].source \in more
      BY <2>1, <3>1, <3>2
    <3>4. Stage(d, base, layers, at, more, built)
      BY <2>5
    <3> HIDE DEF at
    <3>5. \/ f.refused = TRUE /\ LayerIds(base.layers) \cap LayerIds(layers) # {}
          \/ Stage(f, base, layers, at + 1, more, built)
      BY <3>3, <3>4, LayerAdded
    <3>6. Fine(i + 1)
      BY <2>1, <2>2, <3>5 DEF at, Bad
    <3>7. QED
      BY <2>1, <3>6
  <2>6. QED
    BY <2>3, <2>4, <2>5
<1>7. n \in Fines
  <2> HIDE DEF Fines, n
  <2>1. n \in 0..n
    BY <1>1
  <2>2. QED
    BY <1>1, <1>5, <1>6, <2>1, UpTo
<1>8. Fine(n)
  <2> HIDE DEF Fine
  <2>1. QED
    BY <1>7
<1>9. CASE shown.refused = TRUE /\ Bad
  <2>1. e = shown
    BY <1>3, <1>9
  <2>2. QED
    BY <1>9, <2>1 DEF e, Bad
<1>10. CASE Stage(shown, base, layers, k + n, more, built)
  <2> DEFINE mid == SubSeq(layers, 1, k + n)
  <2>1. Whole(shown, base, mid, more, NoTerrainAsked, built)
    BY <1>10 DEF Stage
  <2> HIDE DEF mid
  <2>2. IsMap(shown) /\ shown.refused = FALSE /\ shown.installed = built
    BY <2>1 DEF Whole
  <2> DEFINE all == Append(built, entry)
             g == Kept(shown, all)
  <2>3. e = g
    BY <1>3, <2>2
  <2> HIDE DEF all
  <2>4. /\ IsMap(g) /\ g.refused = shown.refused /\ g.sources = shown.sources
        /\ g.layers = shown.layers /\ g.terrain = shown.terrain /\ g.ours = shown.ours
        /\ g.installed = all
    BY <2>2, CountsAsInstalled
  <2> HIDE DEF g
  <2>5. Whole(g, base, mid, more, NoTerrainAsked, all)
    BY <2>1, <2>4 DEF Whole
  <2>6. Stage(g, base, layers, k + n, more, all)
    BY <1>10, <2>5 DEF Stage, mid
  <2>7. QED
    BY <2>3, <2>6 DEF all, e, more
<1>11. QED
  BY <1>4, <1>8, <1>9, <1>10

(* What an accepted stack comes to: entries of one source each, every      *)
(* layer of its entry's source, no id twice and none of the engine's.      *)
Fits(S, built) ==
  /\ built \in Seq({built[i] : i \in DOMAIN built})
  /\ \A i \in DOMAIN built :
       /\ built[i].layers \in Seq(S)
       /\ built[i].id \notin OwnSources /\ built[i].id # << >> /\ built[i].id # NoTerrainAsked
       /\ \A j \in 1..Len(built[i].layers) : built[i].layers[j].source = built[i].id
  /\ \A i, j \in DOMAIN built : built[i].id = built[j].id => i = j

IdsOf(built) == {built[i].id : i \in DOMAIN built}

Clashes(base, built) ==
  \/ base.sources \cap IdsOf(built) # {}
  \/ LayerIds(base.layers) \cap LayerIds(LayersOf(built)) # {}

LEMMA RefusedEntryStays ==
  ASSUME NEW m, m.refused = TRUE, NEW entry, Len(entry.layers) \in Nat
  PROVE  InstallEntry(m, entry) = m
<1> DEFINE call == "add layer"
           list == entry.layers
           shown == ForEach(m, call, list)
<1>1. addSource(m, entry.id) = m
  BY RefusedStays
<1>2. Len(list) \in Nat
  OBVIOUS
<1> HIDE DEF call, list
<1>3. PICK g : /\ g[0] = m
               /\ \A x \in 0..(Len(list) - 1) : g[x + 1] = Do(g[x], [op |-> call, of |-> list[x + 1]])
               /\ ForEach(m, call, list) = g[Len(list)]
  <2>1. \E g : Walked(g, m, call, list)
    BY <1>2, ForEachIs
  <2>2. QED
    BY <2>1 DEF Walked
<1> DEFINE Same == {x \in 0..Len(list) : g[x] = m}
<1>4. 0 \in Same
  BY <1>2, <1>3
<1>5. ASSUME NEW x \in 0..(Len(list) - 1), x \in Same PROVE x + 1 \in Same
  <2>1. g[x + 1] = Do(m, [op |-> "add layer", of |-> list[x + 1]])
    BY <1>3, <1>5 DEF call
  <2>2. g[x + 1] = addLayer(m, list[x + 1], EngineAnchor)
    BY <2>1, DoIs, Zenon
  <2>3. addLayer(m, list[x + 1], EngineAnchor) = m
    BY RefusedStays, ZenonT(30)
  <2>4. x + 1 \in 0..Len(list)
    BY <1>2
  <2>5. QED
    BY <2>2, <2>3, <2>4
<1> HIDE DEF Same
<1>6. Len(list) \in 0..Len(list)
  BY <1>2
<1>7. Len(list) \in Same
  BY <1>2, <1>4, <1>5, <1>6, UpTo
<1>8. shown = m
  BY <1>3, <1>7 DEF Same
<1> HIDE DEF shown
<1>9. InstallEntry(m, entry) = IF shown.refused THEN shown ELSE Kept(shown, Append(shown.installed, entry))
  BY <1>1 DEF InstallEntry, Kept, shown, call, list
<1>10. QED
  BY <1>8, <1>9

LEMMA StackInstalled ==
  ASSUME NEW S, NEW m, NEW base, NEW built, Fits(S, built), Ground(S, base, LayersOf(built)),
         Stage(m, base, LayersOf(built), 0, {}, << >>)
  PROVE  LET e == Install(m, built)
         IN  \/ e.refused = TRUE /\ Clashes(base, built)
             \/ Stage(e, base, LayersOf(built), Len(LayersOf(built)), IdsOf(built), built)
<1> DEFINE n == Len(built)
           L == LayersOf(built)
           e == Install(m, built)
           B == {built[i] : i \in DOMAIN built}
<1>1. n \in Nat /\ DOMAIN built = 1..n /\ built \in Seq(B)
  BY LenProperties DEF Fits
<1>2. PICK after : /\ after[0] = m
                   /\ \A i \in 0..(n - 1) : after[i + 1] = InstallEntry(after[i], built[i + 1])
                   /\ e = after[n]
  <2> HIDE DEF e
  <2>0. Len(built) \in Nat
    BY <1>1
  <2>1. PICK after : /\ after[0] = m
                     /\ \A i \in 0..(Len(built) - 1) : after[i + 1] = InstallEntry(after[i], built[i + 1])
                     /\ Install(m, built) = after[Len(built)]
    BY <2>0, InstallIs
  <2>2. QED
    BY <2>1 DEF e
<1>3. \A i \in 1..n : built[i].layers \in Seq(S)
  BY <1>1 DEF Fits
<1>4. PICK from :
        /\ from[0] = 0
        /\ from[n] = Len(L)
        /\ \A i \in 0..(n - 1) :
             /\ from[i] \in Nat
             /\ from[i + 1] = from[i] + Len(built[i + 1].layers)
             /\ from[i + 1] <= Len(L)
             /\ \A j \in 1..Len(built[i + 1].layers) : L[from[i] + j] = built[i + 1].layers[j]
  <2> HIDE DEF e
  <2>0. Len(built) \in Nat /\ \A i \in 1..Len(built) : built[i].layers \in Seq(S)
    BY <1>1, <1>3
  <2>1. PICK from :
              /\ from[0] = 0
              /\ from[Len(built)] = Len(LayersOf(built))
              /\ \A i \in 0..(Len(built) - 1) :
                   /\ from[i] \in Nat
                   /\ from[i + 1] = from[i] + Len(built[i + 1].layers)
                   /\ from[i + 1] <= Len(LayersOf(built))
                   /\ \A j \in 1..Len(built[i + 1].layers) :
                        LayersOf(built)[from[i] + j] = built[i + 1].layers[j]
    BY <2>0, LaidOut
  <2>2. QED
    BY <2>1
<1> DEFINE Some(i) == {built[q].id : q \in 1..i}
           Fine(i) == \/ after[i].refused = TRUE /\ Clashes(base, built)
                      \/ Stage(after[i], base, L, from[i], Some(i), SubSeq(built, 1, i))
           Fines == {i \in 0..n : Fine(i)}
<1> HIDE DEF L, e, B
<1>5. 0 \in Fines
  <2>1. Some(0) = {}
    OBVIOUS
  <2>2. SubSeq(built, 1, 0) = << >>
    BY SubSeqEmpty
  <2>3. Stage(after[0], base, L, from[0], Some(0), SubSeq(built, 1, 0))
    <3> HIDE DEF Some
    <3>1. QED
      BY <1>2, <1>4, <2>1, <2>2 DEF L
  <2>4. 0 \in 0..n
    BY <1>1
  <2>5. QED
    BY <2>3, <2>4
<1>6. ASSUME NEW i \in 0..(n - 1), i \in Fines PROVE i + 1 \in Fines
  <2> DEFINE d == after[i]
             entry == built[i + 1]
             f == InstallEntry(d, entry)
  <2>1. i + 1 \in 0..n /\ i + 1 \in 1..n /\ i + 1 \in DOMAIN built /\ i + 1 - 1 = i
    BY <1>1
  <2>2. after[i + 1] = f
    BY <1>2
  <2>3. Fine(i)
    BY <1>6
  <2>4. CASE d.refused = TRUE /\ Clashes(base, built)
    <3>1. f = d
      <4>1. Len(entry.layers) \in Nat
        BY <1>3, <2>1, LenProperties
      <4> HIDE DEF d, entry
      <4>2. QED
        BY <2>4, <4>1, RefusedEntryStays
    <3>2. Fine(i + 1)
      BY <2>2, <2>4, <3>1
    <3>3. QED
      BY <2>1, <3>2
  <2>5. CASE Stage(d, base, L, from[i], Some(i), SubSeq(built, 1, i))
    <3> DEFINE k == from[i]
               ids == Some(i)
               inst == SubSeq(built, 1, i)
    <3>1. /\ k \in Nat /\ k + Len(entry.layers) = from[i + 1] /\ k + Len(entry.layers) <= Len(L)
          /\ \A j \in 1..Len(entry.layers) : L[k + j] = entry.layers[j]
      BY <1>4
    <3>2. /\ entry.layers \in Seq(S) /\ entry.id \notin OwnSources
          /\ \A j \in 1..Len(entry.layers) : entry.layers[j].source = entry.id
      BY <2>1 DEF Fits
    <3>3. entry.id \notin ids
      <4>1. \A q \in 1..i : q \in DOMAIN built /\ q # i + 1
        BY <1>1
      <4>2. \A q \in 1..i : built[q].id # built[i + 1].id
        BY <2>1, <4>1 DEF Fits
      <4>3. QED
        BY <4>2
    <3>4. Some(i + 1) = ids \cup {entry.id}
      <4>1. 1..(i + 1) = 1..i \cup {i + 1}
        OBVIOUS
      <4>2. QED
        BY <4>1, Zenon
    <3>5. Append(inst, entry) = SubSeq(built, 1, i + 1)
      BY <1>1, <2>1, OneMore
    <3>6. Ground(S, base, L)
      BY DEF L
    <3>7. Stage(d, base, L, k, ids, inst)
      BY <2>5
    <3>8. entry.id \in base.sources => base.sources \cap IdsOf(built) # {}
      <4>1. entry.id \in IdsOf(built)
        BY <2>1 DEF IdsOf
      <4>2. QED
        BY <4>1
    <3> HIDE DEF d, entry, k, ids, inst, Some
    <3>9. \/ /\ f.refused = TRUE
             /\ entry.id \in base.sources \/ LayerIds(base.layers) \cap LayerIds(L) # {}
          \/ Stage(f, base, L, k + Len(entry.layers), ids \cup {entry.id}, Append(inst, entry))
      BY <3>1, <3>2, <3>3, <3>6, <3>7, EntryInstalled
    <3> HIDE DEF f
    <3>10. \/ f.refused = TRUE /\ Clashes(base, built)
           \/ Stage(f, base, L, from[i + 1], Some(i + 1), SubSeq(built, 1, i + 1))
      BY <3>1, <3>4, <3>5, <3>8, <3>9 DEF Clashes, L
    <3>11. Fine(i + 1)
      BY <2>2, <3>10
    <3>12. QED
      BY <2>1, <3>11
  <2>6. QED
    BY <2>3, <2>4, <2>5
<1>7. n \in Fines
  <2> HIDE DEF Fines, n
  <2>1. n \in 0..n
    BY <1>1
  <2>2. QED
    BY <1>1, <1>5, <1>6, <2>1, UpTo
<1>8. Fine(n)
  <2> HIDE DEF Fine
  <2>1. QED
    BY <1>7
<1>9. Some(n) = IdsOf(built)
  BY <1>1 DEF IdsOf
<1>10. SubSeq(built, 1, n) = built
  BY <1>1, SubSeqFull
<1> HIDE DEF Some
<1>11. QED
  BY <1>2, <1>4, <1>8, <1>9, <1>10 DEF L, e

(* Every layer of the stack goes, the lowest first.                        *)
LEMMA LayersRemoved ==
  ASSUME NEW S, NEW m, NEW base, NEW layers, Ground(S, base, layers), NEW ids, NEW built,
         Whole(m, base, layers, ids, NoTerrainAsked, built),
         LayerIds(base.layers) \cap LayerIds(layers) = {}
  PROVE  Whole(ForEach(m, "remove layer", layers), base, << >>, ids, NoTerrainAsked, built)
<1> DEFINE n == Len(layers)
           e == ForEach(m, "remove layer", layers)
<1>1. n \in Nat /\ DOMAIN layers = 1..n /\ layers \in Seq(S)
  BY LenProperties DEF Ground
<1>2. PICK after : /\ after[0] = m
                   /\ \A i \in 0..(n - 1) : after[i + 1] = removeLayer(after[i], layers[i + 1].id)
                   /\ e = after[n]
  <2> DEFINE call == "remove layer"
  <2>1. Len(layers) \in Nat
    BY <1>1
  <2> HIDE DEF call
  <2>2. PICK after : /\ after[0] = m
                     /\ \A i \in 0..(Len(layers) - 1) :
                          after[i + 1] = Do(after[i], [op |-> call, of |-> layers[i + 1]])
                     /\ ForEach(m, call, layers) = after[Len(layers)]
    <3>1. \E after : Walked(after, m, call, layers)
      BY <2>1, ForEachIs
    <3>2. QED
      BY <3>1 DEF Walked
  <2>3. ASSUME NEW i \in 0..(n - 1)
        PROVE  after[i + 1] = removeLayer(after[i], layers[i + 1].id)
    <3>1. after[i + 1] = Do(after[i], [op |-> "remove layer", of |-> layers[i + 1]])
      BY <2>2 DEF call
    <3>2. QED
      BY <3>1, DoIs, Zenon
  <2>4. QED
    BY <2>2, <2>3 DEF call
<1> HIDE DEF e
<1> DEFINE Left(i) == SubSeq(layers, i + 1, n)
           Fine(i) == Whole(after[i], base, Left(i), ids, NoTerrainAsked, built)
           Fines == {i \in 0..n : Fine(i)}
<1>3. 0 \in Fines
  <2>1. Left(0) = layers
    <3>1. 0 + 1 = 1
      OBVIOUS
    <3>2. SubSeq(layers, 1, n) = layers
      BY <1>1, SubSeqFull
    <3>3. QED
      BY <3>1, <3>2
  <2> HIDE DEF Left
  <2>2. Fine(0)
    BY <1>2, <2>1
  <2>3. 0 \in 0..n
    BY <1>1
  <2>4. QED
    BY <2>2, <2>3
<1>4. ASSUME NEW i \in 0..(n - 1), i \in Fines PROVE i + 1 \in Fines
  <2> DEFINE d == after[i]
             k == i + 1
             id == layers[k].id
             b == SubSeq(layers, k, n)
             f == removeLayer(d, id)
             under == base.layers
  <2>1. k \in 1..n /\ k \in 0..n /\ k \in DOMAIN layers
    BY <1>1
  <2>2. after[i + 1] = f
    BY <1>2
  <2>3. Whole(d, base, b, ids, NoTerrainAsked, built)
    BY <1>4
  <2> HIDE DEF d, id, b, under, k
  <2>4. /\ EngineLayers \in Seq(S) /\ under \in Seq(S)
    BY EngineIs DEF Ground, under
  <2>5. /\ b \in Seq(S) /\ b # << >> /\ Tail(b) = SubSeq(layers, k + 1, n) /\ b[1] = layers[k]
        /\ \A x \in DOMAIN b : k + x - 1 \in 1..n /\ b[x] = layers[k + x - 1]
    <3>1. layers \in Seq(S) /\ k \in 1..Len(layers)
      BY <1>1, <2>1
    <3>2. /\ SubSeq(layers, k, Len(layers)) \in Seq(S)
          /\ SubSeq(layers, k, Len(layers)) # << >>
          /\ Tail(SubSeq(layers, k, Len(layers))) = SubSeq(layers, k + 1, Len(layers))
          /\ SubSeq(layers, k, Len(layers))[1] = layers[k]
          /\ \A x \in DOMAIN SubSeq(layers, k, Len(layers)) :
               k + x - 1 \in 1..Len(layers) /\ SubSeq(layers, k, Len(layers))[x] = layers[k + x - 1]
      BY <3>1, OneLess
    <3>3. QED
      BY <3>2 DEF b
  <2>6. b[1].id = id
    BY <2>5 DEF id
  <2>7. id \in LayerIds(layers)
    BY <2>1 DEF LayerIds, id
  <2>8. id \notin LayerIds(under) /\ id \notin LayerIds(EngineLayers)
    BY <2>7 DEF Ground, under
  <2>9. DOMAIN b = 1..Len(b) /\ Len(b) \in Nat /\ 1 \in DOMAIN b
    BY <2>5, LenProperties, EmptySeq
  <2>10. ASSUME NEW x \in DOMAIN b, b[x].id = b[1].id PROVE x = 1
    <3>1. k + x - 1 \in DOMAIN layers /\ layers[k + x - 1].id = layers[k].id
      BY <1>1, <2>5, <2>10
    <3>2. k + x - 1 = k
      BY <2>1, <3>1 DEF Ground
    <3>3. QED
      BY <2>1, <2>9, <3>2
  <2>11. IsMap(d) /\ d.refused = FALSE /\ d.layers = Over(under, b, EngineLayers)
         /\ d.sources = (base.sources \cup OwnSources) \cup ids
         /\ d.terrain = NoTerrainAsked /\ d.installed = built
         /\ d.ours = OwnSources \cup LayerIds(EngineLayers)
    BY <2>3 DEF Whole, under
  <2>12. id \in LayerIds(d.layers)
    <3>1. id \in LayerIds(b)
      BY <2>6, <2>9 DEF LayerIds
    <3>2. QED
      BY <2>4, <2>5, <2>11, <3>1, OverIds
  <2>13. /\ IsMap(f) /\ f.refused = FALSE /\ f.sources = d.sources
         /\ f.layers = Without(d.layers, id)
         /\ f.terrain = d.terrain /\ f.ours = d.ours /\ f.installed = d.installed
    BY <2>11, <2>12, RemoveLayerIs
  <2> HIDE DEF f
  <2>14. Without(Over(under, b, EngineLayers), b[1].id) = Over(under, Tail(b), EngineLayers)
    <3>1. b \in Seq(S) /\ b # << >>
      BY <2>5
    <3>2. \A x \in DOMAIN b : b[x].id = b[1].id => x = 1
      BY <2>10
    <3>3. b[1].id \notin LayerIds(under) /\ b[1].id \notin LayerIds(EngineLayers)
      BY <2>6, <2>8
    <3>4. QED
      BY <2>4, <3>1, <3>2, <3>3, WithoutFirst
  <2> DEFINE rest == Tail(b)
  <2>15. f.layers = Over(base.layers, rest, EngineLayers)
    BY <2>6, <2>11, <2>13, <2>14 DEF under
  <2> HIDE DEF rest
  <2>16. Whole(f, base, rest, ids, NoTerrainAsked, built)
    BY <2>11, <2>13, <2>15 DEF Whole
  <2>17. Left(i + 1) = rest
    BY <2>5 DEF rest, k
  <2> HIDE DEF Left
  <2>18. Fine(i + 1)
    BY <2>2, <2>16, <2>17
  <2>19. QED
    BY <2>1, <2>18 DEF k
<1>5. n \in Fines
  <2> HIDE DEF Fines, n
  <2>1. n \in 0..n
    BY <1>1
  <2>2. QED
    BY <1>1, <1>3, <1>4, <2>1, UpTo
<1>6. Fine(n)
  <2> HIDE DEF Fine
  <2>1. QED
    BY <1>5
<1>7. Left(n) = << >>
  <2>1. n + 1 \in Int /\ n \in Int /\ n < n + 1
    BY <1>1
  <2> HIDE DEF n
  <2>2. QED
    BY <2>1, SubSeqEmpty
<1> HIDE DEF Left
<1>8. QED
  BY <1>2, <1>6, <1>7 DEF e

(* Then every source, none of them in use.                                 *)
LEMMA SourcesRemoved ==
  ASSUME NEW S, NEW m, NEW base, NEW built, Fits(S, built), base.layers \in Seq(S),
         \A i \in DOMAIN EngineLayers : EngineLayers[i] \in S, NEW installed,
         Whole(m, base, << >>, IdsOf(built), NoTerrainAsked, installed),
         base.sources \cap IdsOf(built) = {},
         \A i \in DOMAIN base.layers : base.layers[i].source \in base.sources \cup {<< >>}
  PROVE  Whole(ForEach(m, "remove source", built), base, << >>, {}, NoTerrainAsked, installed)
<1> DEFINE n == Len(built)
           e == ForEach(m, "remove source", built)
           under == base.layers
<1>1. n \in Nat /\ DOMAIN built = 1..n
  BY LenProperties DEF Fits
<1>2. PICK after : /\ after[0] = m
                   /\ \A i \in 0..(n - 1) : after[i + 1] = removeSource(after[i], built[i + 1].id)
                   /\ e = after[n]
  <2> DEFINE call == "remove source"
  <2>1. Len(built) \in Nat
    BY <1>1
  <2> HIDE DEF call
  <2>2. PICK after : /\ after[0] = m
                     /\ \A i \in 0..(Len(built) - 1) :
                          after[i + 1] = Do(after[i], [op |-> call, of |-> built[i + 1]])
                     /\ ForEach(m, call, built) = after[Len(built)]
    <3>1. \E after : Walked(after, m, call, built)
      BY <2>1, ForEachIs
    <3>2. QED
      BY <3>1 DEF Walked
  <2>3. ASSUME NEW i \in 0..(n - 1)
        PROVE  after[i + 1] = removeSource(after[i], built[i + 1].id)
    <3>1. after[i + 1] = Do(after[i], [op |-> "remove source", of |-> built[i + 1]])
      BY <2>2 DEF call
    <3>2. QED
      BY <3>1, DoIs, Zenon
  <2>4. QED
    BY <2>2, <2>3 DEF call
<1> HIDE DEF e
<1> DEFINE bare == Over(under, << >>, EngineLayers)
<1>3. ASSUME NEW i \in DOMAIN bare
      PROVE  bare[i].source \in (base.sources \cup {<< >>}) \cup OwnSources
  <2> DEFINE a == under \o << >>
             c == EngineLayers
  <2>1. a = under /\ under \in Seq(S) /\ DOMAIN under = 1..Len(under) /\ Len(under) \in Nat
    BY ConcatEmptySeq, LenProperties
  <2>2. c \in Seq(S) /\ Len(c) = 4 /\ \A j \in 1..4 : c[j].source \in OwnSources
    BY EngineIs
  <2>3. bare = under \o c
    BY <2>1 DEF Over
  <2> HIDE DEF bare, c, a, under
  <2>4. /\ bare \in Seq(S) /\ Len(bare) = Len(under) + Len(c)
        /\ \A j \in 1..(Len(under) + Len(c)) : bare[j] = IF j <= Len(under) THEN under[j] ELSE c[j - Len(under)]
    <3>1. under \in Seq(S) /\ c \in Seq(S)
      BY <2>1, <2>2
    <3>2. /\ under \o c \in Seq(S) /\ Len(under \o c) = Len(under) + Len(c)
          /\ \A j \in 1..(Len(under) + Len(c)) :
               (under \o c)[j] = IF j <= Len(under) THEN under[j] ELSE c[j - Len(under)]
      BY <3>1, ConcatProperties
    <3>3. QED
      BY <2>3, <3>2
  <2>5. i \in 1..(Len(under) + Len(c))
    BY <2>4, LenProperties
  <2>6. CASE i <= Len(under)
    <3>1. i \in DOMAIN under /\ bare[i] = under[i]
      BY <2>1, <2>2, <2>4, <2>5, <2>6
    <3>2. under[i].source \in base.sources \cup {<< >>}
      BY <3>1 DEF under
    <3>3. QED
      BY <3>1, <3>2
  <2>7. CASE ~(i <= Len(under))
    <3>1. i - Len(under) \in 1..4 /\ bare[i] = c[i - Len(under)]
      BY <2>1, <2>2, <2>4, <2>5, <2>7, SMTT(30)
    <3>2. QED
      BY <2>2, <3>1
  <2>8. QED
    BY <2>6, <2>7
<1> DEFINE Left(i) == {built[q].id : q \in (i + 1)..n}
           Fine(i) == Whole(after[i], base, << >>, Left(i), NoTerrainAsked, installed)
           Fines == {i \in 0..n : Fine(i)}
<1> HIDE DEF bare, under
<1>4. 0 \in Fines
  <2>1. Left(0) = IdsOf(built)
    <3>1. 0 + 1 = 1
      OBVIOUS
    <3>2. QED
      BY <1>1, <3>1 DEF IdsOf
  <2> HIDE DEF Left
  <2>2. Fine(0)
    BY <1>2, <2>1
  <2>3. 0 \in 0..n
    BY <1>1
  <2>4. QED
    BY <2>2, <2>3
<1>5. ASSUME NEW i \in 0..(n - 1), i \in Fines PROVE i + 1 \in Fines
  <2> DEFINE d == after[i]
             id == built[i + 1].id
             f == removeSource(d, id)
             ids == Left(i)
  <2>1. i + 1 \in 0..n /\ i + 1 \in DOMAIN built
    BY <1>1
  <2>2. after[i + 1] = f
    BY <1>2
  <2>3. Whole(d, base, << >>, ids, NoTerrainAsked, installed)
    BY <1>5
  <2>4. id \in ids
    <3>1. i + 1 \in (i + 1)..n
      BY <1>1
    <3>2. QED
      BY <3>1
  <2>5. id \in IdsOf(built)
    BY <2>1 DEF IdsOf
  <2>6. id \notin OwnSources /\ id # << >> /\ id # NoTerrainAsked
    BY <2>1 DEF Fits
  <2>7. Left(i + 1) = ids \ {id}
    <3>1. (i + 1)..n = {i + 1} \cup ((i + 1) + 1)..n
      BY <1>1
    <3>2. ASSUME NEW q \in ((i + 1) + 1)..n PROVE built[q].id # id
      <4>1. q \in DOMAIN built /\ q # i + 1
        BY <1>1
      <4>2. QED
        BY <2>1, <4>1 DEF Fits
    <3>3. ids = {id} \cup Left(i + 1)
      BY <3>1, Zenon
    <3>4. id \notin Left(i + 1)
      BY <3>2
    <3> HIDE DEF ids, Left
    <3>5. QED
      BY <3>3, <3>4
  <2> HIDE DEF d, id, ids, Left
  <2>8. IsMap(d) /\ d.refused = FALSE /\ d.layers = bare
        /\ d.sources = (base.sources \cup OwnSources) \cup ids
        /\ d.terrain = NoTerrainAsked /\ d.installed = installed
        /\ d.ours = OwnSources \cup LayerIds(EngineLayers)
    BY <2>3 DEF Whole, bare, under
  <2>9. id \notin base.sources
    BY <2>5
  <2>10. \A x \in DOMAIN d.layers : d.layers[x].source # id
    BY <1>3, <2>6, <2>8, <2>9
  <2>11. id \in d.sources /\ d.terrain # id
    BY <2>4, <2>6, <2>8
  <2>12. /\ IsMap(f) /\ f.refused = FALSE /\ f.sources = d.sources \ {id}
         /\ f.layers = d.layers /\ f.terrain = d.terrain /\ f.ours = d.ours
         /\ f.installed = d.installed
    BY <2>8, <2>10, <2>11, RemoveSourceIs
  <2> HIDE DEF f
  <2>13. f.sources = (base.sources \cup OwnSources) \cup (ids \ {id})
    BY <2>6, <2>8, <2>9, <2>12
  <2>14. Whole(f, base, << >>, Left(i + 1), NoTerrainAsked, installed)
    BY <2>7, <2>8, <2>12, <2>13 DEF Whole, bare, under
  <2>15. Fine(i + 1)
    BY <2>2, <2>14
  <2>16. QED
    BY <2>1, <2>15
<1>6. n \in Fines
  <2> HIDE DEF Fines, n
  <2>1. n \in 0..n
    BY <1>1
  <2>2. QED
    BY <1>1, <1>4, <1>5, <2>1, UpTo
<1>7. Fine(n)
  <2> HIDE DEF Fine
  <2>1. QED
    BY <1>6
<1>8. Left(n) = {}
  <2>1. (n + 1)..n = {}
    BY <1>1
  <2>2. QED
    BY <2>1
<1> HIDE DEF Left
<1>9. QED
  BY <1>2, <1>7, <1>8 DEF e

LEMMA StackUninstalled ==
  ASSUME NEW S, NEW m, NEW base, NEW built, Fits(S, built), Ground(S, base, LayersOf(built)),
         Whole(m, base, LayersOf(built), IdsOf(built), NoTerrainAsked, built),
         ~Clashes(base, built),
         \A i \in DOMAIN base.layers : base.layers[i].source \in base.sources \cup {<< >>}
  PROVE  Whole(Uninstall(m), base, << >>, {}, NoTerrainAsked, << >>)
<1> DEFINE L == LayersOf(built)
           ids == IdsOf(built)
           bare == ForEach(m, "remove layer", L)
           done == ForEach(bare, "remove source", built)
<1>1. LayerIds(base.layers) \cap LayerIds(L) = {} /\ base.sources \cap ids = {}
  BY DEF Clashes
<1>2. Whole(bare, base, << >>, ids, NoTerrainAsked, built)
  <2> HIDE DEF ids, L
  <2>1. Ground(S, base, L) /\ Whole(m, base, L, ids, NoTerrainAsked, built)
    BY DEF L, ids
  <2>2. QED
    BY <1>1, <2>1, LayersRemoved
<1> HIDE DEF bare
<1>3. base.layers \in Seq(S) /\ \A i \in DOMAIN EngineLayers : EngineLayers[i] \in S
  BY DEF Ground
<1>4. Whole(done, base, << >>, {}, NoTerrainAsked, built)
  BY <1>1, <1>2, <1>3, SourcesRemoved
<1> HIDE DEF done
<1>5. IsMap(done) /\ done.refused = FALSE
  BY <1>4 DEF Whole
<1>6. m.installed = built
  BY DEF Whole
<1> DEFINE none == << >>
           e == Kept(done, none)
<1>7. Uninstall(m) = e
  BY <1>5, <1>6 DEF Uninstall, Kept, done, bare
<1> HIDE DEF none
<1>8. /\ IsMap(e) /\ e.refused = done.refused /\ e.sources = done.sources
      /\ e.layers = done.layers /\ e.terrain = done.terrain /\ e.ours = done.ours
      /\ e.installed = none
  BY <1>5, CountsAsInstalled
<1> HIDE DEF e
<1>9. Whole(e, base, << >>, {}, NoTerrainAsked, none)
  BY <1>4, <1>8 DEF Whole
<1>10. QED
  BY <1>7, <1>9 DEF none

-----------------------------------------------------------------------------
(* What changes nothing.                                                   *)
LEMMA ForEachStays ==
  ASSUME NEW m, NEW op, NEW list, Len(list) \in Nat,
         \A i \in 1..Len(list) : Do(m, [op |-> op, of |-> list[i]]) = m
  PROVE  ForEach(m, op, list) = m
<1> DEFINE n == Len(list)
<1>1. PICK after : /\ after[0] = m
                   /\ \A i \in 0..(n - 1) : after[i + 1] = Do(after[i], [op |-> op, of |-> list[i + 1]])
                   /\ ForEach(m, op, list) = after[n]
  BY ForEachIs DEF Walked
<1> DEFINE Same == {i \in 0..n : after[i] = m}
<1>2. n \in Nat /\ 0 \in 0..n /\ n \in 0..n
  OBVIOUS
<1>3. 0 \in Same
  BY <1>1, <1>2
<1>4. ASSUME NEW i \in 0..(n - 1), i \in Same PROVE i + 1 \in Same
  <2>1. i + 1 \in 1..n /\ i + 1 \in 0..n
    BY <1>2
  <2>2. after[i + 1] = Do(m, [op |-> op, of |-> list[i + 1]])
    BY <1>1, <1>4
  <2>3. QED
    BY <2>1, <2>2
<1> HIDE DEF Same, n
<1>5. n \in Same
  BY <1>2, <1>3, <1>4, UpTo
<1>6. QED
  BY <1>1, <1>5 DEF Same

LEMMA NoneLaid == LayersOf(<< >>) = << >>
<1> DEFINE built == << >>
<1>1. Len(built) = 0
  OBVIOUS
<1> HIDE DEF built
<1>2. PICK after : after[0] = << >> /\ LayersOf(built) = after[Len(built)]
  <2>1. Len(built) \in Nat
    BY <1>1
  <2>2. QED
    BY <2>1, LayersIs
<1>3. LayersOf(built) = << >>
  BY <1>1, <1>2
<1>4. QED
  BY <1>3 DEF built

LEMMA UninstallStays ==
  ASSUME NEW m, m.refused = TRUE, m.installed = << >>
  PROVE  Uninstall(m) = m
<1> DEFINE none == << >>
<1>1. LayersOf(m.installed) = none /\ m.installed = none
  BY NoneLaid
<1>2. Len(none) = 0
  OBVIOUS
<1> HIDE DEF none
<1>3. \A i \in 1..Len(none) : FALSE
  BY <1>2
<1>4. Len(none) \in Nat
  BY <1>2
<1>5. ASSUME NEW op PROVE ForEach(m, op, none) = m
  BY <1>3, <1>4, ForEachStays
<1>6. ForEach(m, "remove layer", LayersOf(m.installed)) = m
  BY <1>1, <1>5
<1>7. ForEach(m, "remove source", m.installed) = m
  BY <1>1, <1>5
<1>8. QED
  BY <1>6, <1>7 DEF Uninstall

LEMMA InstallStays ==
  ASSUME NEW m, m.refused = TRUE, NEW built, Len(built) \in Nat,
         \A i \in 1..Len(built) : Len(built[i].layers) \in Nat
  PROVE  Install(m, built) = m
<1> DEFINE n == Len(built)
<1>1. PICK after : /\ after[0] = m
                   /\ \A i \in 0..(n - 1) : after[i + 1] = InstallEntry(after[i], built[i + 1])
                   /\ Install(m, built) = after[n]
  BY InstallIs
<1> DEFINE Same == {i \in 0..n : after[i] = m}
<1>2. n \in Nat /\ 0 \in 0..n /\ n \in 0..n
  OBVIOUS
<1>3. 0 \in Same
  BY <1>1, <1>2
<1>4. ASSUME NEW i \in 0..(n - 1), i \in Same PROVE i + 1 \in Same
  <2>1. i + 1 \in 1..n /\ i + 1 \in 0..n
    BY <1>2
  <2>2. after[i + 1] = InstallEntry(m, built[i + 1])
    BY <1>1, <1>4
  <2>3. InstallEntry(m, built[i + 1]) = m
    BY <2>1, RefusedEntryStays
  <2>4. QED
    BY <2>1, <2>2, <2>3
<1> HIDE DEF Same, n
<1>5. n \in Same
  BY <1>2, <1>3, <1>4, UpTo
<1>6. QED
  BY <1>1, <1>5 DEF Same

(* The engine's own are not put there twice.                               *)
LEMMA EngineStays ==
  ASSUME NEW m, m.ours = OwnSources \cup LayerIds(EngineLayers)
  PROVE  installEngineState(m) = m
<1>1. ForEach(m, "own source", EngineSources) = m
  <2> DEFINE call == "own source"
  <2>1. Len(EngineSources) = 2 /\ EngineSources[1] = TrackSource /\ EngineSources[2] = DraftSource
    BY DEF EngineSources
  <2>2. ASSUME NEW i \in 1..Len(EngineSources)
        PROVE  Do(m, [op |-> call, of |-> EngineSources[i]]) = m
    <3>1. i = 1 \/ i = 2
      BY <2>1
    <3>2. EngineSources[i] \in m.ours
      BY <2>1, <3>1 DEF OwnSources
    <3>3. OwnSource(m, EngineSources[i]) = m
      BY <3>2 DEF OwnSource
    <3>4. QED
      BY <3>3, DoIs, Zenon
  <2>3. Len(EngineSources) \in Nat
    BY <2>1
  <2> HIDE DEF call
  <2>4. ForEach(m, call, EngineSources) = m
    BY <2>2, <2>3, ForEachStays
  <2>5. QED
    BY <2>4 DEF call
<1>2. ForEach(m, "own layer", EngineLayers) = m
  <2> DEFINE call == "own layer"
  <2>1. Len(EngineLayers) = 4 /\ DOMAIN EngineLayers = 1..4
    BY DEF EngineLayers
  <2>2. ASSUME NEW i \in 1..Len(EngineLayers)
        PROVE  Do(m, [op |-> call, of |-> EngineLayers[i]]) = m
    <3>1. i \in DOMAIN EngineLayers
      BY <2>1
    <3>2. EngineLayers[i].id \in m.ours
      BY <3>1 DEF LayerIds
    <3>3. OwnLayer(m, EngineLayers[i]) = m
      BY <3>2 DEF OwnLayer
    <3>4. QED
      BY <3>3, DoIs, Zenon
  <2>3. Len(EngineLayers) \in Nat
    BY <2>1
  <2> HIDE DEF call
  <2>4. ForEach(m, call, EngineLayers) = m
    BY <2>2, <2>3, ForEachStays
  <2>5. QED
    BY <2>4 DEF call
<1>3. QED
  BY <1>1, <1>2 DEF installEngineState

-----------------------------------------------------------------------------
(* The steps of reconcile together.                                        *)
Drawn(m, base, stack, terrain) ==
  LET built == buildTileSources(stack)
  IN  /\ Whole(m, base, LayersOf(built), IdsOf(built), terrain, built)
      /\ ~Usurps(base) /\ ~Clashes(base, built)

(* What is drawn of a stack, with what is needed of it and of the style.   *)
Sturdy(base, stack) ==
  /\ \E S : /\ Fits(S, buildTileSources(stack))
            /\ Ground(S, base, LayersOf(buildTileSources(stack)))
  /\ \A i \in DOMAIN base.layers : base.layers[i].source \in base.sources \cup {<< >>}
  /\ IdsOf(buildTileSources(stack)) = SourceIdsOf(stack)

LEMMA CollidesIs ==
  ASSUME NEW base, NEW stack, Sturdy(base, stack)
  PROVE  Collides(base, stack) <=> Usurps(base) \/ Clashes(base, buildTileSources(stack))
<1>1. {EngineSources[i] : i \in DOMAIN EngineSources} = OwnSources
  <2>1. DOMAIN EngineSources = 1..2 /\ EngineSources[1] = TrackSource /\ EngineSources[2] = DraftSource
    BY DEF EngineSources
  <2>2. \A i \in 1..2 : i = 1 \/ i = 2
    OBVIOUS
  <2>3. 1 \in 1..2 /\ 2 \in 1..2
    OBVIOUS
  <2>4. QED
    BY <2>1, <2>2, <2>3 DEF OwnSources
<1>2. QED
  BY <1>1 DEF Sturdy, Collides, Usurps, Clashes

(* The stack goes in where there is none.                                  *)
LEMMA StackGoesIn ==
  ASSUME NEW m, NEW base, NEW stack, NEW terrain, Sturdy(base, stack),
         Whole(m, base, << >>, {}, NoTerrainAsked, << >>), ~Usurps(base),
         terrain = NoTerrainAsked \/ terrain \in SourceIdsOf(stack)
  PROVE  LET e == applyTerrain(Install(m, buildTileSources(stack)), terrain)
         IN  \/ e.refused = TRUE /\ Collides(base, stack)
             \/ Drawn(e, base, stack, terrain)
<1> DEFINE built == buildTileSources(stack)
           L == LayersOf(built)
           d == Install(m, built)
           e == applyTerrain(d, terrain)
<1>1. PICK S : Fits(S, built) /\ Ground(S, base, L)
  BY DEF Sturdy
<1>2. IdsOf(built) = SourceIdsOf(stack)
  BY DEF Sturdy
<1>3. Collides(base, stack) <=> Usurps(base) \/ Clashes(base, built)
  BY CollidesIs
<1> HIDE DEF built, e
<1>4. Stage(m, base, L, 0, {}, << >>)
  <2>1. SubSeq(L, 1, 0) = << >>
    BY SubSeqEmpty
  <2> HIDE DEF L
  <2>2. Whole(m, base, SubSeq(L, 1, 0), {}, NoTerrainAsked, << >>)
    BY <2>1
  <2>3. QED
    BY <2>2 DEF Stage
<1>5. \/ d.refused = TRUE /\ Clashes(base, built)
      \/ Stage(d, base, L, Len(L), IdsOf(built), built)
  BY <1>1, <1>4, StackInstalled
<1> HIDE DEF d
<1>6. CASE d.refused = TRUE /\ Clashes(base, built)
  <2>1. e = d
    BY <1>6, RefusedStays DEF e, applyTerrain
  <2>2. QED
    BY <1>3, <1>6, <2>1 DEF e, d, built
<1>7. CASE Stage(d, base, L, Len(L), IdsOf(built), built)
  <2>1. L \in Seq(S) /\ DOMAIN L = 1..Len(L)
    BY <1>1, LenProperties DEF Ground
  <2>2. SubSeq(L, 1, Len(L)) = L
    BY <2>1, SubSeqFull
  <2>3. LayerIds(base.layers) \cap LayerIds(L) = {}
    BY <1>7, <2>1 DEF Stage, LayerIds
  <2>4. base.sources \cap IdsOf(built) = {}
    BY <1>7 DEF Stage
  <2>5. ~Clashes(base, built)
    BY <2>3, <2>4 DEF Clashes
  <2> HIDE DEF L
  <2>6. Whole(d, base, L, IdsOf(built), NoTerrainAsked, built)
    BY <1>7, <2>2 DEF Stage
  <2>7. IsMap(d) /\ d.refused = FALSE /\ d.sources = (base.sources \cup OwnSources) \cup IdsOf(built)
    BY <2>6 DEF Whole
  <2>8. terrain = NoTerrainAsked \/ terrain \in d.sources
    BY <1>2, <2>7
  <2> DEFINE f == setTerrain(d, terrain)
  <2>9. /\ IsMap(f) /\ f.refused = FALSE /\ f.sources = d.sources /\ f.layers = d.layers
        /\ f.terrain = terrain /\ f.ours = d.ours /\ f.installed = d.installed
    BY <2>7, <2>8, SetTerrainIs
  <2>10. e = f
    BY DEF e, applyTerrain
  <2> HIDE DEF f
  <2>11. Whole(f, base, L, IdsOf(built), terrain, built)
    BY <2>6, <2>9 DEF Whole
  <2>12. Drawn(e, base, stack, terrain)
    BY <2>5, <2>10, <2>11 DEF Drawn, L, built
  <2>13. QED
    BY <2>12 DEF e, d, built
<1>8. QED
  BY <1>5, <1>6, <1>7

LEMMA TerrainReleased ==
  ASSUME NEW m, IsMap(m), m.refused = FALSE
  PROVE  LET e == ReleaseTerrain(m)
         IN  /\ IsMap(e) /\ e.refused = FALSE /\ e.sources = m.sources /\ e.layers = m.layers
             /\ e.terrain = NoTerrainAsked /\ e.ours = m.ours /\ e.installed = m.installed
<1> DEFINE none == NoTerrainAsked
           e == setTerrain(m, none)
<1>1. /\ IsMap(e) /\ e.refused = FALSE /\ e.sources = m.sources /\ e.layers = m.layers
      /\ e.terrain = none /\ e.ours = m.ours /\ e.installed = m.installed
  BY SetTerrainIs
<1>2. QED
  BY <1>1 DEF ReleaseTerrain

(* A stack takes the place of another.                                     *)
LEMMA StackReplaced ==
  ASSUME NEW m, NEW base, NEW old, NEW before, Drawn(m, base, old, before), Sturdy(base, old),
         NEW stack, NEW terrain, Sturdy(base, stack),
         terrain = NoTerrainAsked \/ terrain \in SourceIdsOf(stack)
  PROVE  LET e == reconcile(m, stack, terrain)
         IN  \/ e.refused = TRUE /\ Collides(base, stack)
             \/ Drawn(e, base, stack, terrain)
<1> DEFINE built == buildTileSources(old)
           L == LayersOf(built)
           a == ReleaseTerrain(m)
           d == Uninstall(a)
<1>1. PICK S : Fits(S, built) /\ Ground(S, base, L)
  BY DEF Sturdy
<1>2. /\ Whole(m, base, L, IdsOf(built), before, built)
      /\ ~Usurps(base) /\ ~Clashes(base, built)
  BY DEF Drawn
<1> HIDE DEF built
<1>3. IsMap(m) /\ m.refused = FALSE
  BY <1>2 DEF Whole
<1>4. /\ IsMap(a) /\ a.refused = FALSE /\ a.sources = m.sources /\ a.layers = m.layers
      /\ a.terrain = NoTerrainAsked /\ a.ours = m.ours /\ a.installed = m.installed
  BY <1>3, TerrainReleased
<1> HIDE DEF a
<1>5. Whole(a, base, L, IdsOf(built), NoTerrainAsked, built)
  <2> HIDE DEF L
  <2>1. QED
    BY <1>2, <1>4 DEF Whole
<1>6. installEngineState(a) = a
  <2>1. a.ours = OwnSources \cup LayerIds(EngineLayers)
    BY <1>5 DEF Whole
  <2>2. QED
    BY <2>1, EngineStays
<1>7. Whole(d, base, << >>, {}, NoTerrainAsked, << >>)
  <2>1. \A i \in DOMAIN base.layers : base.layers[i].source \in base.sources \cup {<< >>}
    BY DEF Sturdy
  <2>2. QED
    BY <1>1, <1>2, <1>5, <2>1, StackUninstalled
<1>8. reconcile(m, stack, terrain) = applyTerrain(Install(d, buildTileSources(stack)), terrain)
  BY <1>6 DEF reconcile, a
<1> HIDE DEF d
<1>9. QED
  BY <1>2, <1>7, <1>8, StackGoesIn

(* The first goes in when the style has loaded, after the engine's own.    *)
LEMMA StackPutIn ==
  ASSUME NEW m, NEW base, IsMap(m), m.refused = FALSE, m.sources = base.sources,
         m.layers = base.layers, m.ours = {}, m.installed = << >>,
         NEW stack, NEW terrain, Sturdy(base, stack),
         terrain = NoTerrainAsked \/ terrain \in SourceIdsOf(stack)
  PROVE  LET e == reconcile(m, stack, terrain)
         IN  \/ e.refused = TRUE /\ Collides(base, stack)
             \/ Drawn(e, base, stack, terrain)
<1> DEFINE built == buildTileSources(stack)
           L == LayersOf(built)
           a == ReleaseTerrain(m)
           b == ForEach(a, "own source", EngineSources)
           c == installEngineState(a)
           d == Uninstall(c)
           e == reconcile(m, stack, terrain)
<1>1. PICK S : Fits(S, built) /\ Ground(S, base, L)
  BY DEF Sturdy
<1>2. base.layers \in Seq(S) /\ \A i \in DOMAIN EngineLayers : EngineLayers[i] \in S
  BY <1>1 DEF Ground
<1> HIDE DEF L
<1>3. /\ IsMap(a) /\ a.refused = FALSE /\ a.sources = m.sources /\ a.layers = m.layers
      /\ a.terrain = NoTerrainAsked /\ a.ours = m.ours /\ a.installed = m.installed
  BY TerrainReleased
<1>4. e = applyTerrain(Install(d, built), terrain)
  BY DEF reconcile
<1>5. c = ForEach(b, "own layer", EngineLayers)
  BY DEF installEngineState
<1> HIDE DEF a, e
<1>6. Bare(a, base)
  BY <1>3 DEF Bare
<1>7. (b.refused = TRUE /\ b.installed = << >> /\ Usurps(base)) \/ Owned(b, base, 0)
  BY <1>2, <1>6, SourcesOwned
<1> HIDE DEF b
<1>8. (c.refused = TRUE /\ c.installed = << >> /\ Usurps(base)) \/ Owned(c, base, 4)
  <2>1. CASE b.refused = TRUE /\ b.installed = << >> /\ Usurps(base)
    <3>1. c = b
      <4> DEFINE call == "own layer"
      <4>1. Len(EngineLayers) \in Nat
        BY DEF EngineLayers
      <4>2. ASSUME NEW i \in 1..Len(EngineLayers)
            PROVE  Do(b, [op |-> call, of |-> EngineLayers[i]]) = b
        <5>1. OwnLayer(b, EngineLayers[i]) = b
          BY <2>1, RefusedStays
        <5>2. QED
          BY <5>1, DoIs, Zenon
      <4> HIDE DEF call
      <4>3. ForEach(b, call, EngineLayers) = b
        BY <4>1, <4>2, ForEachStays
      <4>4. QED
        BY <1>5, <4>3 DEF call
    <3>2. QED
      BY <2>1, <3>1
  <2>2. CASE Owned(b, base, 0)
    <3>1. (ForEach(b, "own layer", EngineLayers).refused = TRUE
             /\ ForEach(b, "own layer", EngineLayers).installed = << >> /\ Usurps(base))
          \/ Owned(ForEach(b, "own layer", EngineLayers), base, 4)
      BY <1>2, <2>2, LayersOwned
    <3>2. QED
      BY <1>5, <3>1
  <2>3. QED
    BY <1>7, <2>1, <2>2
<1> HIDE DEF c
<1>9. CASE c.refused = TRUE /\ c.installed = << >> /\ Usurps(base)
  <2>1. d = c
    BY <1>9, UninstallStays
  <2>2. Install(c, built) = c
    <3>1. Len(built) \in Nat /\ \A i \in 1..Len(built) : Len(built[i].layers) \in Nat
      BY <1>1, LenProperties DEF Fits
    <3> HIDE DEF built
    <3>2. QED
      BY <1>9, <3>1, InstallStays
  <2>3. e = c
    <3> HIDE DEF built, d
    <3>1. e = setTerrain(c, terrain)
      BY <1>4, <2>1, <2>2 DEF applyTerrain
    <3>2. QED
      BY <1>9, <3>1, RefusedStays
  <2>4. Collides(base, stack)
    BY <1>9, CollidesIs
  <2>5. QED
    BY <1>9, <2>3, <2>4 DEF e
<1>10. CASE Owned(c, base, 4)
  <2>1. /\ EngineLayers \in Seq(S) /\ Len(EngineLayers) = 4 /\ DOMAIN EngineLayers = 1..4
    BY <1>2, EngineIs, LenProperties
  <2>2. SubSeq(EngineLayers, 1, 4) = EngineLayers
    BY <2>1, SubSeqFull
  <2>3. base.layers \o << >> = base.layers
    BY <1>2, ConcatEmptySeq
  <2>4. Over(base.layers, << >>, EngineLayers) = base.layers \o EngineLayers
    BY <2>3 DEF Over
  <2>5. LayerIds(EngineLayers) = {EngineLayers[i].id : i \in 1..4}
    BY <2>1 DEF LayerIds
  <2>6. ~Usurps(base)
    BY <1>10, <2>5 DEF Owned, Usurps
  <2>7. Whole(c, base, << >>, {}, NoTerrainAsked, << >>)
    BY <1>10, <2>2, <2>4, <2>5 DEF Owned, Whole
  <2>8. Whole(d, base, << >>, {}, NoTerrainAsked, << >>)
    <3> DEFINE none == << >>
               f == Kept(c, none)
    <3>1. c.installed = none /\ IsMap(c) /\ c.refused = FALSE /\ LayersOf(none) = none /\ Len(none) = 0
      BY <1>10, NoneLaid DEF Owned
    <3> HIDE DEF none
    <3>2. ASSUME NEW op PROVE ForEach(c, op, none) = c
      <4>1. Len(none) \in Nat /\ \A i \in 1..Len(none) : FALSE
        BY <3>1
      <4>2. QED
        BY <4>1, ForEachStays
    <3>3. ForEach(c, "remove layer", LayersOf(c.installed)) = c /\ ForEach(c, "remove source", c.installed) = c
      BY <3>1, <3>2
    <3>4. d = f
      BY <3>1, <3>3 DEF Uninstall, Kept, none
    <3>5. /\ IsMap(f) /\ f.refused = c.refused /\ f.sources = c.sources
          /\ f.layers = c.layers /\ f.terrain = c.terrain /\ f.ours = c.ours
          /\ f.installed = none
      BY <3>1, CountsAsInstalled
    <3> HIDE DEF f
    <3>6. Whole(f, base, << >>, {}, NoTerrainAsked, << >>)
      BY <2>7, <3>5 DEF Whole, none
    <3>7. QED
      BY <3>4, <3>6
  <2> HIDE DEF d, built
  <2>9. QED
    BY <1>4, <2>6, <2>8, StackGoesIn DEF e, built
<1>11. QED
  BY <1>8, <1>9, <1>10

-----------------------------------------------------------------------------
(* What an accepted stack comes to.                                        *)
Elements(list) == {list[i] : i \in DOMAIN list}

(* The layers of one source, each with an id that starts as its own does.  *)
OfSource(list, id) ==
  /\ list \in Seq(Elements(list))
  /\ \A j \in DOMAIN list : list[j].source = id /\ list[j].id[1] = id[1]

LEMMA FirstPart ==
  ASSUME NEW A, NEW id \in Seq(A), id # << >>, NEW B, NEW t \in Seq(B)
  PROVE  (id \o t)[1] = id[1]
<1> DEFINE C == A \cup B
<1>1. A \subseteq C /\ B \subseteq C
  OBVIOUS
<1> HIDE DEF C
<1>2. id \in Seq(C) /\ t \in Seq(C)
  BY <1>1, SeqMonotonic
<1>3. Len(id) \in Nat /\ Len(id) # 0 /\ Len(t) \in Nat
  BY EmptySeq, LenProperties
<1>4. \A i \in 1..(Len(id) + Len(t)) : (id \o t)[i] = IF i <= Len(id) THEN id[i] ELSE t[i - Len(id)]
  BY <1>2, ConcatProperties
<1>5. 1 \in 1..(Len(id) + Len(t)) /\ 1 <= Len(id)
  BY <1>3
<1>6. QED
  BY <1>4, <1>5

LEMMA Two == ASSUME NEW x, NEW y PROVE <<x, y>> \in Seq({x, y})
OBVIOUS

LEMMA One == ASSUME NEW x PROVE <<x>> \in Seq({x}) /\ Len(<<x>>) = 1 /\ <<x>>[1] = x
OBVIOUS

LEMMA ListIsSeq ==
  ASSUME NEW n \in Nat, NEW list, DOMAIN list = 1..n, list = [i \in 1..n |-> list[i]]
  PROVE  list \in Seq(Elements(list)) /\ Len(list) = n
<1>1. list \in [1..n -> Elements(list)]
  <2>1. \A i \in 1..n : list[i] \in Elements(list)
    BY DEF Elements
  <2>2. QED
    BY <2>1
<1>2. list \in Seq(Elements(list))
  BY <1>1, IsASeq
<1>3. DOMAIN list = 1..Len(list) /\ Len(list) \in Nat
  BY <1>2, LenProperties
<1>4. Len(list) = n
  BY <1>3
<1>5. QED
  BY <1>2, <1>4

LEMMA ConsumerLayersAre ==
  ASSUME NEW source, source.id \in Seq(Elements(source.id)), source.id # << >>,
         source.styleLayers \in Seq(Elements(source.styleLayers)),
         \A j \in DOMAIN source.styleLayers :
            source.styleLayers[j].id \in Seq(Elements(source.styleLayers[j].id))
  PROVE  OfSource(consumerLayers(source), source.id)
<1> DEFINE given == source.styleLayers
           n == Len(given)
           list == consumerLayers(source)
           id == source.id
<1>1. n \in Nat /\ DOMAIN given = 1..n
  BY LenProperties
<1>2. list = [i \in 1..n |-> [id |-> id \o LocalId(given, i), source |-> id]]
  BY <1>1 DEF consumerLayers
<1> HIDE DEF list
<1>3. list \in Seq(Elements(list))
  <2>1. DOMAIN list = 1..n /\ list = [i \in 1..n |-> list[i]]
    BY <1>2
  <2> HIDE DEF n
  <2>2. QED
    BY <1>1, <2>1, ListIsSeq
<1>4. ASSUME NEW j \in DOMAIN list PROVE list[j].source = id /\ list[j].id[1] = id[1]
  <2>1. j \in 1..n
    BY <1>2
  <2> DEFINE t == LocalId(given, j)
  <2>2. list[j].source = id /\ list[j].id = id \o t
    BY <1>2, <2>1
  <2>3. \E B : t \in Seq(B)
    <3>1. CASE given[j].id = << >>
      <4>1. t = <<"layer", j - 1>>
        BY <3>1 DEF LocalId
      <4>2. t \in Seq({"layer", j - 1})
        BY <4>1, Two
      <4>3. QED
        BY <4>2
    <3>2. CASE given[j].id # << >>
      <4>1. t = given[j].id
        BY <3>2 DEF LocalId
      <4>2. given[j].id \in Seq(Elements(given[j].id))
        BY <1>1, <2>1
      <4>3. QED
        BY <4>1, <4>2
    <3>3. QED
      BY <3>1, <3>2
  <2> HIDE DEF t, id
  <2>4. PICK B : t \in Seq(B)
    BY <2>3
  <2>5. (id \o t)[1] = id[1]
    BY <2>4, FirstPart DEF id
  <2>6. QED
    BY <2>2, <2>5
<1>5. QED
  BY <1>3, <1>4 DEF OfSource, list

LEMMA LayersForAre ==
  ASSUME NEW source, NEW role, source.id \in Seq(Elements(source.id)), source.id # << >>,
         source.kind \in {"raster", "vector", "raster-dem"},
         source.styleLayers \in Seq(Elements(source.styleLayers)),
         \A j \in DOMAIN source.styleLayers :
            source.styleLayers[j].id \in Seq(Elements(source.styleLayers[j].id))
  PROVE  OfSource(layersFor(source, role), source.id)
<1> DEFINE id == source.id
<1>1. OfSource(consumerLayers(source), id)
  BY ConsumerLayersAre
<1>2. CASE source.kind = "raster"
  <2> DEFINE t == <<"raster">>
             layer == [id |-> id \o t, source |-> id]
             list == <<layer>>
  <2>1. layersFor(source, role) = list
    BY <1>2 DEF layersFor
  <2>2. layer.source = id /\ layer.id = id \o t
    OBVIOUS
  <2>3. t \in Seq({"raster"})
    BY One
  <2> HIDE DEF t, id
  <2>4. (id \o t)[1] = id[1]
    BY <2>3, FirstPart DEF id
  <2>5. layer.id[1] = id[1]
    BY <2>2, <2>4
  <2> HIDE DEF layer
  <2>6. list \in Seq({layer}) /\ Len(list) = 1 /\ list[1] = layer
    BY One
  <2> HIDE DEF list
  <2>7. DOMAIN list = 1..1
    BY <2>6, LenProperties
  <2>8. Elements(list) = {layer}
    BY <2>6, <2>7 DEF Elements
  <2>9. \A j \in DOMAIN list : list[j] = layer
    BY <2>6, <2>7
  <2>10. OfSource(list, id)
    BY <2>2, <2>5, <2>6, <2>8, <2>9 DEF OfSource
  <2>11. QED
    BY <2>1, <2>10 DEF id, list, layer, t
<1>3. CASE source.kind = "vector"
  <2>1. layersFor(source, role) = consumerLayers(source)
    BY <1>3 DEF layersFor
  <2>2. QED
    BY <1>1, <2>1
<1>4. CASE source.kind = "raster-dem"
  <2>1. layersFor(source, role) = IF role = "terrain" THEN << >> ELSE consumerLayers(source)
    BY <1>4 DEF layersFor
  <2>2. CASE role = "terrain"
    <3> DEFINE none == << >>
    <3>1. none \in Seq(Elements(none)) /\ Len(none) = 0
      BY EmptySeq
    <3> HIDE DEF none
    <3>2. DOMAIN none = {}
      BY <3>1, LenProperties
    <3>3. OfSource(none, id)
      BY <3>1, <3>2 DEF OfSource
    <3>4. QED
      BY <2>1, <2>2, <3>3 DEF none
  <2>3. CASE role # "terrain"
    BY <1>1, <2>1, <2>3
  <2>4. QED
    BY <2>2, <2>3
<1>5. QED
  BY <1>2, <1>3, <1>4

LEMMA StackIsSound ==
  ASSUME NEW stack \in Stacks, Accepts(stack), NEW base \in BaseStyles
  PROVE  Sturdy(base, stack)
<1> DEFINE n == Len(stack)
           built == buildTileSources(stack)
           L == LayersOf(built)
           All == UNION {Elements(built[i].layers) : i \in DOMAIN built}
           S0 == {x \in All : x.id[1] \notin Reserved}
           S == S0 \cup (Elements(EngineLayers) \cup Elements(base.layers))
<1>1. /\ n \in Nat /\ DOMAIN stack = 1..n
      /\ \A i \in 1..n :
           /\ stack[i].id \in Seq(Elements(stack[i].id)) /\ stack[i].id # << >>
           /\ stack[i].id # NoTerrainAsked
           /\ stack[i].kind \in {"raster", "vector", "raster-dem"}
           /\ stack[i].styleLayers \in Seq(Elements(stack[i].styleLayers))
           /\ \A j \in DOMAIN stack[i].styleLayers :
                stack[i].styleLayers[j].id \in Seq(Elements(stack[i].styleLayers[j].id))
  <2>1. Listed(stack)
    BY TileStackAssumption
  <2>2. n \in Nat /\ DOMAIN stack = 1..n
    BY <2>1, LenProperties DEF Listed
  <2>3. ASSUME NEW i \in 1..n
        PROVE  /\ Listed(stack[i].id) /\ stack[i].id # << >> /\ stack[i].id # NoTerrainAsked
               /\ stack[i].kind \in {"raster", "vector", "raster-dem"}
               /\ Listed(stack[i].styleLayers)
               /\ \A j \in DOMAIN stack[i].styleLayers : Listed(stack[i].styleLayers[j].id)
    BY <2>2, TileStackAssumption
  <2>4. \A list : Listed(list) <=> list \in Seq(Elements(list))
    BY DEF Listed, Elements
  <2>5. QED
    BY <2>2, <2>3, <2>4
<1>2. /\ base.layers \in Seq(Elements(base.layers))
      /\ \A i \in DOMAIN base.layers : base.layers[i].source \in base.sources \cup {<< >>}
  BY TileStackAssumption DEF Listed, Elements
<1>3. /\ \A i \in 1..n : stack[i].id[1] \notin Reserved
      /\ \A i, j \in 1..n : stack[i].id = stack[j].id => i = j
      /\ \A i, j \in DOMAIN L : L[i].id = L[j].id => i = j
  BY <1>1 DEF Accepts, isEngineId
<1>4. /\ DOMAIN built = 1..n /\ built = [i \in 1..n |-> built[i]]
      /\ \A i \in 1..n : built[i].id = stack[i].id
      /\ \A i \in 1..n : built[i].layers = layersFor(stack[i], resolveRole(stack[i], i))
  BY <1>1 DEF buildTileSources
<1> HIDE DEF built, L
<1>5. built \in Seq(Elements(built)) /\ Len(built) = n
  <2> HIDE DEF n
  <2>1. QED
    BY <1>1, <1>4, ListIsSeq
<1>6. ASSUME NEW i \in 1..n PROVE OfSource(built[i].layers, built[i].id)
  BY <1>1, <1>4, LayersForAre
<1>7. ASSUME NEW i \in 1..n PROVE built[i].layers \in Seq(S0)
  <2> DEFINE list == built[i].layers
  <2>1. list \in Seq(Elements(list)) /\ \A j \in DOMAIN list : list[j].id[1] = built[i].id[1]
    BY <1>6 DEF OfSource
  <2>2. built[i].id[1] \notin Reserved
    BY <1>3, <1>4
  <2>3. \A j \in DOMAIN list : list[j].id[1] \notin Reserved
    BY <2>1, <2>2
  <2>4. Elements(list) \subseteq All
    BY <1>4
  <2> HIDE DEF list, All
  <2>5. Elements(list) \subseteq S0
    BY <2>3, <2>4 DEF Elements
  <2> HIDE DEF S0
  <2>6. list \in Seq(S0)
    BY <2>1, <2>5, SeqMonotonic
  <2>7. QED
    BY <2>6 DEF list
<1> HIDE DEF All
<1>8. L \in Seq(S0)
  <2> HIDE DEF S0
  <2>1. Len(built) \in Nat /\ \A i \in 1..Len(built) : built[i].layers \in Seq(S0)
    BY <1>1, <1>5, <1>7
  <2>2. LayersOf(built) \in Seq(S0)
    BY <2>1, LaidOut
  <2>3. QED
    BY <2>2 DEF L
<1>9. \A p \in DOMAIN L : L[p].id[1] \notin Reserved
  <2>1. \A p \in DOMAIN L : L[p] \in S0
    BY <1>8, ElementOfSeq, LenProperties
  <2>2. QED
    BY <2>1
<1> HIDE DEF S0
<1>10. S0 \subseteq S /\ Elements(EngineLayers) \subseteq S /\ Elements(base.layers) \subseteq S
  OBVIOUS
<1> HIDE DEF S
<1>11. LayerIds(L) \cap LayerIds(EngineLayers) = {}
  <2>1. \A i \in DOMAIN EngineLayers : EngineLayers[i].id[1] \in Reserved
    BY TileStackAssumption DEF isEngineId
  <2>2. QED
    BY <1>9, <2>1 DEF LayerIds
<1>12. Ground(S, base, L)
  <2>1. L \in Seq(S) /\ base.layers \in Seq(S)
    BY <1>2, <1>8, <1>10, SeqMonotonic
  <2>2. \A i \in DOMAIN EngineLayers : EngineLayers[i] \in S
    BY <1>10 DEF Elements
  <2>3. QED
    BY <1>3, <1>11, <2>1, <2>2 DEF Ground
<1>13. Fits(S, built)
  <2>1. built \in Seq({built[i] : i \in DOMAIN built})
    BY <1>5 DEF Elements
  <2>2. ASSUME NEW i \in DOMAIN built
        PROVE  /\ built[i].layers \in Seq(S)
               /\ built[i].id \notin OwnSources /\ built[i].id # << >> /\ built[i].id # NoTerrainAsked
               /\ \A j \in 1..Len(built[i].layers) : built[i].layers[j].source = built[i].id
    <3>1. i \in 1..n
      BY <1>4
    <3>2. built[i].layers \in Seq(S0)
      BY <1>7, <3>1
    <3>3. built[i].layers \in Seq(S)
      BY <1>10, <3>2, SeqMonotonic
    <3>4. \A j \in 1..Len(built[i].layers) : built[i].layers[j].source = built[i].id
      BY <1>6, <3>1, <3>2, LenProperties DEF OfSource
    <3>5. built[i].id = stack[i].id
      BY <1>4, <3>1
    <3>6. TrackSource[1] \in Reserved /\ DraftSource[1] \in Reserved
      BY TileStackAssumption DEF isEngineId
    <3>7. built[i].id \notin OwnSources
      BY <1>3, <3>1, <3>5, <3>6 DEF OwnSources
    <3>8. QED
      BY <1>1, <3>1, <3>3, <3>4, <3>5, <3>7
  <2>3. \A i, j \in DOMAIN built : built[i].id = built[j].id => i = j
    BY <1>3, <1>4
  <2>4. QED
    BY <2>1, <2>2, <2>3 DEF Fits
<1>14. IdsOf(built) = SourceIdsOf(stack)
  BY <1>1, <1>4 DEF IdsOf, SourceIdsOf
<1>15. QED
  BY <1>2, <1>12, <1>13, <1>14 DEF Sturdy, built, L

-----------------------------------------------------------------------------
(* The stack is drawn.                                                     *)
Agreed ==
  /\ style \in BaseStyles
  /\ asked.stack \in Stacks /\ Accepts(asked.stack)
  /\ AcceptsTerrain(asked.terrain, asked.stack)

(* Before the style loads, the renderer has only what came with it.        *)
Waits ==
  /\ IsMap(view) /\ view.refused = FALSE
  /\ view.sources = style.sources /\ view.layers = style.layers
  /\ view.ours = {} /\ view.installed = << >>
  /\ refusal = << >>

(* Once it has, it has all of the stack, until a collision.                *)
StackStands ==
  /\ refusal = << >> => Drawn(view, style, asked.stack, asked.terrain)
  /\ refusal # << >> => Collides(style, refusal[1])
  /\ usesPmtiles(asked.stack) => protocols = 1

StackInv ==
  /\ phase \in {"none", "waiting", "loaded"}
  /\ phase # "none" => Agreed
  /\ phase = "none" => refusal = << >>
  /\ phase = "waiting" => Waits
  /\ phase = "loaded" => StackStands
  /\ DOMAIN asked = {"stack", "terrain"}
  /\ protocols \in {0, 1}

LEMMA RegisteredIs == \A made : Registered(made) = IF made = 0 THEN 1 ELSE made
BY DEF Registered

LEMMA TerrainIsOf ==
  ASSUME NEW terrain, NEW stack, AcceptsTerrain(terrain, stack)
  PROVE  terrain = NoTerrainAsked \/ terrain \in SourceIdsOf(stack)
BY DEF AcceptsTerrain, SourceIdsOf

LEMMA StackInitInv == StackInit => StackInv
BY DEF StackInit, StackInv, NoView

LEMMA CreateStackInv ==
  ASSUME StackInv, NEW base \in BaseStyles, NEW stack \in Stacks, NEW t, CreateStack(base, stack, t)
  PROVE  StackInv'
<1> DEFINE s == base.sources
           l == base.layers
           r == base.terrain
           m == [NoView EXCEPT !.sources = s, !.layers = l, !.terrain = r]
<1>1. /\ phase = "none" /\ phase' = "waiting" /\ style' = base /\ view' = m
      /\ asked' = [stack |-> stack, terrain |-> t]
      /\ Accepts(stack) /\ AcceptsTerrain(t, stack)
      /\ refusal' = refusal /\ protocols' = protocols
  BY DEF CreateStack
<1> HIDE DEF s, l, r
<1>2. /\ IsMap(m) /\ m.refused = FALSE /\ m.sources = s /\ m.layers = l
      /\ m.ours = {} /\ m.installed = << >>
  BY DEF NoView, IsMap, MapFields
<1> HIDE DEF m
<1>3. Waits'
  BY <1>1, <1>2 DEF Waits, StackInv, s, l
<1>4. Agreed'
  BY <1>1 DEF Agreed
<1>5. DOMAIN asked' = {"stack", "terrain"}
  BY <1>1
<1>6. QED
  BY <1>1, <1>3, <1>4, <1>5 DEF StackInv

(* What is left of a step once its map is known.                           *)
LEMMA StackReconciled ==
  ASSUME StackInv, NEW m, Shows(m), Agreed',
         \/ refusal # << >> /\ style' = style /\ phase = "loaded"
         \/ refusal = << >> /\ m.refused = TRUE /\ Collides(style', asked'.stack)
         \/ refusal = << >> /\ Drawn(m, style', asked'.stack, asked'.terrain),
         usesPmtiles(asked'.stack) => protocols' = 1
  PROVE  StackStands'
<1>1. view' = m /\ refusal' = IF m.refused /\ refusal = << >> THEN <<asked'.stack>> ELSE refusal
  BY DEF Shows
<1>2. CASE refusal # << >> /\ style' = style /\ phase = "loaded"
  <2>1. refusal' = refusal
    BY <1>1, <1>2
  <2>2. Collides(style, refusal[1])
    BY <1>2 DEF StackInv, StackStands
  <2>3. Collides(style', refusal'[1])
    BY <1>2, <2>1, <2>2
  <2>4. QED
    BY <1>2, <2>1, <2>3 DEF StackStands
<1>3. CASE refusal = << >> /\ m.refused = TRUE /\ Collides(style', asked'.stack)
  <2>1. refusal' = <<asked'.stack>>
    BY <1>1, <1>3
  <2>2. refusal' # << >> /\ refusal'[1] = asked'.stack
    BY <2>1
  <2>3. QED
    BY <1>3, <2>2 DEF StackStands
<1>4. CASE refusal = << >> /\ Drawn(m, style', asked'.stack, asked'.terrain)
  <2>1. m.refused = FALSE
    BY <1>4 DEF Drawn, Whole
  <2>2. refusal' = << >>
    BY <1>1, <1>4, <2>1
  <2>3. QED
    BY <1>1, <1>4, <2>2 DEF StackStands
<1>5. QED
  BY <1>2, <1>3, <1>4

LEMMA StackLoadsInv ==
  ASSUME StackInv, StackLoads
  PROVE  StackInv'
<1> DEFINE stack == asked.stack
           t == asked.terrain
           m == reconcile(view, stack, t)
<1>1. /\ phase = "waiting" /\ phase' = "loaded" /\ style' = style /\ asked' = asked
      /\ Shows(m)
      /\ protocols' = IF usesPmtiles(stack) THEN Registered(protocols) ELSE protocols
  BY DEF StackLoads
<1>2. Agreed /\ Waits
  BY <1>1 DEF StackInv
<1>3. Agreed'
  BY <1>1, <1>2 DEF Agreed
<1>4. protocols' \in {0, 1} /\ (usesPmtiles(stack) => protocols' = 1)
  BY <1>1, RegisteredIs DEF StackInv
<1>5. Sturdy(style, stack) /\ (t = NoTerrainAsked \/ t \in SourceIdsOf(stack))
  BY <1>2, StackIsSound, TerrainIsOf DEF Agreed
<1>6. (m.refused = TRUE /\ Collides(style, stack)) \/ Drawn(m, style, stack, t)
  <2> HIDE DEF stack, t
  <2>1. /\ IsMap(view) /\ view.refused = FALSE /\ view.sources = style.sources
        /\ view.layers = style.layers /\ view.ours = {} /\ view.installed = << >>
    BY <1>2 DEF Waits
  <2>2. QED
    BY <1>5, <2>1, StackPutIn
<1> HIDE DEF m
<1>7. StackStands'
  <2>1. refusal = << >>
    BY <1>2 DEF Waits
  <2>2. \/ refusal = << >> /\ m.refused = TRUE /\ Collides(style', asked'.stack)
        \/ refusal = << >> /\ Drawn(m, style', asked'.stack, asked'.terrain)
    BY <1>1, <1>6, <2>1
  <2>3. usesPmtiles(asked'.stack) => protocols' = 1
    BY <1>1, <1>4
  <2>4. QED
    BY <1>1, <1>3, <2>2, <2>3, StackReconciled
<1>8. QED
  BY <1>1, <1>3, <1>4, <1>7 DEF StackInv

(* Each call looks at the map afresh.                                      *)
LEMMA AfreshIs ==
  ASSUME NEW m, NEW base, NEW stack, NEW terrain, Drawn(m, base, stack, terrain)
  PROVE  Drawn(Afresh(m), base, stack, terrain)
<1> DEFINE built == buildTileSources(stack)
           L == LayersOf(built)
           ids == IdsOf(built)
           e == Afresh(m)
<1>1. Whole(m, base, L, ids, terrain, built) /\ ~Usurps(base) /\ ~Clashes(base, built)
  BY DEF Drawn
<1> HIDE DEF built, L, ids
<1>2. IsMap(m) /\ m.refused = FALSE
  BY <1>1 DEF Whole
<1>3. /\ IsMap(e) /\ e.refused = FALSE /\ e.sources = m.sources /\ e.layers = m.layers
      /\ e.terrain = m.terrain /\ e.ours = m.ours /\ e.installed = m.installed
  BY <1>2 DEF Afresh, IsMap, MapFields
<1> HIDE DEF e
<1>4. Whole(e, base, L, ids, terrain, built)
  BY <1>1, <1>3 DEF Whole
<1>5. QED
  BY <1>1, <1>4 DEF Drawn, built, L, ids, e

LEMMA SetStackInv ==
  ASSUME StackInv, NEW stack \in Stacks, SetStack(stack)
  PROVE  StackInv'
<1> DEFINE t == asked.terrain
           a == Afresh(view)
           m == reconcile(a, stack, t)
<1>1. /\ phase \in {"waiting", "loaded"} /\ phase' = phase /\ style' = style
      /\ Accepts(stack) /\ AcceptsTerrain(t, stack)
      /\ asked' = [asked EXCEPT !.stack = stack]
      /\ phase = "loaded" =>
           /\ Shows(m)
           /\ protocols' = IF usesPmtiles(stack) THEN Registered(protocols) ELSE protocols
      /\ phase # "loaded" => view' = view /\ refusal' = refusal /\ protocols' = protocols
  BY DEF SetStack
<1>2. asked'.stack = stack /\ asked'.terrain = t /\ DOMAIN asked' = {"stack", "terrain"}
  BY <1>1 DEF StackInv
<1>3. Agreed
  BY <1>1 DEF StackInv
<1>4. Agreed'
  BY <1>1, <1>2, <1>3 DEF Agreed
<1>5. CASE phase = "waiting"
  <2>1. Waits'
    BY <1>1, <1>5 DEF StackInv, Waits
  <2>2. QED
    BY <1>1, <1>2, <1>4, <1>5, <2>1 DEF StackInv
<1>6. CASE phase = "loaded"
  <2>1. protocols' \in {0, 1} /\ (usesPmtiles(stack) => protocols' = 1)
    BY <1>1, <1>6, RegisteredIs DEF StackInv
  <2>2. Shows(m)
    BY <1>1, <1>6
  <2>3. \/ refusal # << >>
        \/ refusal = << >> /\ m.refused = TRUE /\ Collides(style, stack)
        \/ refusal = << >> /\ Drawn(m, style, stack, t)
    <3>1. CASE refusal = << >>
      <4>1. Drawn(view, style, asked.stack, t)
        BY <1>6, <3>1 DEF StackInv, StackStands
      <4>2. Drawn(a, style, asked.stack, t)
        BY <4>1, AfreshIs
      <4>3. Sturdy(style, asked.stack) /\ Sturdy(style, stack)
        BY <1>1, <1>3, StackIsSound DEF Agreed
      <4>4. t = NoTerrainAsked \/ t \in SourceIdsOf(stack)
        BY <1>1, TerrainIsOf
      <4> HIDE DEF a, t
      <4>5. (m.refused = TRUE /\ Collides(style, stack)) \/ Drawn(m, style, stack, t)
        BY <4>2, <4>3, <4>4, StackReplaced
      <4>6. QED
        BY <3>1, <4>5
    <3>2. QED
      BY <3>1
  <2> HIDE DEF m
  <2>4. StackStands'
    <3>1. \/ refusal # << >> /\ style' = style /\ phase = "loaded"
          \/ refusal = << >> /\ m.refused = TRUE /\ Collides(style', asked'.stack)
          \/ refusal = << >> /\ Drawn(m, style', asked'.stack, asked'.terrain)
      BY <1>1, <1>2, <1>6, <2>3
    <3>2. usesPmtiles(asked'.stack) => protocols' = 1
      BY <1>2, <2>1
    <3>3. QED
      BY <1>4, <2>2, <3>1, <3>2, StackReconciled
  <2>5. QED
    BY <1>1, <1>2, <1>4, <1>6, <2>1, <2>4 DEF StackInv
<1>7. QED
  BY <1>1, <1>5, <1>6

LEMMA SetStackTerrainInv ==
  ASSUME StackInv, NEW t, SetStackTerrain(t)
  PROVE  StackInv'
<1> DEFINE stack == asked.stack
           a == Afresh(view)
           m == setTerrain(a, t)
<1>1. /\ phase \in {"waiting", "loaded"} /\ phase' = phase /\ style' = style
      /\ AcceptsTerrain(t, stack) /\ protocols' = protocols
      /\ asked' = [asked EXCEPT !.terrain = t]
      /\ phase = "loaded" => Shows(m)
      /\ phase # "loaded" => view' = view /\ refusal' = refusal
  BY DEF SetStackTerrain, applyTerrain
<1>2. asked'.stack = stack /\ asked'.terrain = t /\ DOMAIN asked' = {"stack", "terrain"}
  BY <1>1 DEF StackInv
<1>3. Agreed
  BY <1>1 DEF StackInv
<1>4. Agreed'
  BY <1>1, <1>2, <1>3 DEF Agreed
<1>5. CASE phase = "waiting"
  <2>1. Waits'
    BY <1>1, <1>5 DEF StackInv, Waits
  <2>2. QED
    BY <1>1, <1>2, <1>4, <1>5, <2>1 DEF StackInv
<1>6. CASE phase = "loaded"
  <2>1. protocols' \in {0, 1} /\ (usesPmtiles(stack) => protocols' = 1)
    BY <1>1, <1>6 DEF StackInv, StackStands
  <2>2. Shows(m)
    BY <1>1, <1>6
  <2>3. refusal # << >> \/ (refusal = << >> /\ Drawn(m, style, stack, t))
    <3>1. CASE refusal = << >>
      <4> DEFINE built == buildTileSources(stack)
                 L == LayersOf(built)
                 ids == IdsOf(built)
      <4>1. Drawn(view, style, stack, asked.terrain)
        BY <1>6, <3>1 DEF StackInv, StackStands
      <4>2. Drawn(a, style, stack, asked.terrain)
        BY <4>1, AfreshIs
      <4>3. /\ Whole(a, style, L, ids, asked.terrain, built)
            /\ ~Usurps(style) /\ ~Clashes(style, built)
        BY <4>2 DEF Drawn
      <4>4. ids = SourceIdsOf(stack)
        BY <1>3, StackIsSound DEF Agreed, Sturdy
      <4>5. t = NoTerrainAsked \/ t \in SourceIdsOf(stack)
        BY <1>1, TerrainIsOf
      <4> HIDE DEF a, built, L, ids
      <4>6. IsMap(a) /\ a.refused = FALSE /\ a.sources = (style.sources \cup OwnSources) \cup ids
        BY <4>3 DEF Whole
      <4>7. t = NoTerrainAsked \/ t \in a.sources
        BY <4>4, <4>5, <4>6
      <4>8. /\ IsMap(m) /\ m.refused = FALSE /\ m.sources = a.sources /\ m.layers = a.layers
            /\ m.terrain = t /\ m.ours = a.ours /\ m.installed = a.installed
        BY <4>6, <4>7, SetTerrainIs
      <4> HIDE DEF m
      <4>9. Whole(m, style, L, ids, t, built)
        BY <4>3, <4>8 DEF Whole
      <4>10. Drawn(m, style, stack, t)
        BY <4>3, <4>9 DEF Drawn, built, L, ids
      <4>11. QED
        BY <3>1, <4>10
    <3>2. QED
      BY <3>1
  <2> HIDE DEF m
  <2>4. StackStands'
    <3>1. \/ refusal # << >> /\ style' = style /\ phase = "loaded"
          \/ refusal = << >> /\ Drawn(m, style', asked'.stack, asked'.terrain)
      BY <1>1, <1>2, <1>6, <2>3
    <3>2. usesPmtiles(asked'.stack) => protocols' = 1
      BY <1>2, <2>1
    <3>3. QED
      BY <1>4, <2>2, <3>1, <3>2, StackReconciled
  <2>5. QED
    BY <1>1, <1>2, <1>4, <1>6, <2>1, <2>4 DEF StackInv
<1>7. QED
  BY <1>1, <1>5, <1>6

LEMMA OthersInv ==
  ASSUME StackInv, DestroyStack \/ AskRegistrar \/ UNCHANGED stackVars
  PROVE  StackInv'
<1>1. CASE DestroyStack
  BY <1>1 DEF DestroyStack, StackInv
<1>2. CASE AskRegistrar
  <2>1. /\ phase' = phase /\ style' = style /\ asked' = asked /\ view' = view
        /\ refusal' = refusal /\ protocols' = Registered(protocols)
    BY <1>2 DEF AskRegistrar
  <2>2. protocols' \in {0, 1} /\ (protocols = 1 => protocols' = 1)
    BY <2>1, RegisteredIs DEF StackInv
  <2>3. QED
    BY <2>1, <2>2 DEF StackInv, Agreed, Waits, StackStands
<1>3. CASE UNCHANGED stackVars
  BY <1>3 DEF stackVars, StackInv, Agreed, Waits, StackStands
<1>4. QED
  BY <1>1, <1>2, <1>3

LEMMA StackStays == StackInv /\ [StackNext]_stackVars => StackInv'
<1> SUFFICES ASSUME StackInv, [StackNext]_stackVars PROVE StackInv'
  OBVIOUS
<1>1. ASSUME NEW base \in BaseStyles, NEW stack \in Stacks, NEW t \in Terrains, CreateStack(base, stack, t)
      PROVE  StackInv'
  BY <1>1, CreateStackInv
<1>2. CASE StackLoads
  BY <1>2, StackLoadsInv
<1>3. ASSUME NEW stack \in Stacks, SetStack(stack) PROVE StackInv'
  BY <1>3, SetStackInv
<1>4. ASSUME NEW t \in Terrains, SetStackTerrain(t) PROVE StackInv'
  BY <1>4, SetStackTerrainInv
<1>5. CASE DestroyStack \/ AskRegistrar \/ UNCHANGED stackVars
  BY <1>5, OthersInv
<1>6. QED
  BY <1>1, <1>2, <1>3, <1>4, <1>5 DEF StackNext

Draws(m, base, stack, terrain) ==
  /\ m.layers = base.layers \o LayersOf(buildTileSources(stack)) \o EngineLayers
  /\ m.sources = base.sources \cup SourceIdsOf(stack) \cup {TrackSource, DraftSource}
  /\ m.terrain = terrain

LEMMA DrawnIsShown ==
  ASSUME NEW m, NEW base, NEW stack, NEW terrain, Drawn(m, base, stack, terrain), Sturdy(base, stack)
  PROVE  Draws(m, base, stack, terrain)
<1> DEFINE built == buildTileSources(stack)
           L == LayersOf(built)
           ids == IdsOf(built)
<1>1. Whole(m, base, L, ids, terrain, built) /\ ids = SourceIdsOf(stack)
  BY DEF Drawn, Sturdy
<1> HIDE DEF built, ids
<1>2. /\ m.layers = Over(base.layers, L, EngineLayers)
      /\ m.sources = (base.sources \cup OwnSources) \cup ids /\ m.terrain = terrain
  BY <1>1 DEF Whole
<1>3. m.sources = base.sources \cup SourceIdsOf(stack) \cup {TrackSource, DraftSource}
  BY <1>1, <1>2 DEF OwnSources
<1>4. m.layers = base.layers \o L \o EngineLayers
  BY <1>2 DEF Over
<1>5. QED
  BY <1>2, <1>3, <1>4 DEF built, Draws

LEMMA StackInvDrawn == StackInv => StackIsDrawn
<1> SUFFICES ASSUME StackInv PROVE StackIsDrawn
  OBVIOUS
<1>1. protocols <= 1
  BY DEF StackInv
<1>2. CASE phase = "loaded" /\ refusal # << >>
  BY <1>1, <1>2 DEF StackInv, StackStands, StackIsDrawn
<1>3. CASE phase = "loaded" /\ refusal = << >>
  <2>1. Drawn(view, style, asked.stack, asked.terrain) /\ Agreed
    BY <1>3 DEF StackInv, StackStands
  <2>2. Sturdy(style, asked.stack)
    BY <2>1, StackIsSound DEF Agreed
  <2>3. /\ view.layers = style.layers \o LayersOf(buildTileSources(asked.stack)) \o EngineLayers
        /\ view.sources = style.sources \cup SourceIdsOf(asked.stack) \cup {TrackSource, DraftSource}
        /\ view.terrain = asked.terrain
    <3>1. Draws(view, style, asked.stack, asked.terrain)
      BY <2>1, <2>2, DrawnIsShown
    <3>2. QED
      BY <3>1 DEF Draws
  <2>4. usesPmtiles(asked.stack) => protocols = 1
    BY <1>3 DEF StackInv, StackStands
  <2>5. QED
    BY <1>1, <1>3, <2>3, <2>4 DEF StackIsDrawn
<1>4. CASE phase # "loaded"
  BY <1>1, <1>4 DEF StackIsDrawn
<1>5. QED
  BY <1>2, <1>3, <1>4

(* Whatever styles load and whatever stacks and terrains a host asks for,   *)
(* until the renderer refuses a call a loaded map is the style's own        *)
(* layers, then those of the stack last asked for, then the track's and     *)
(* the draft's, with their sources and terrain; a refused call is one the   *)
(* style gives cause for; and the archive protocol is registered once.      *)
THEOREM StackAlwaysDrawn == StackSpec => []StackIsDrawn
<1>1. StackInit => StackInv
  BY StackInitInv
<1>2. StackInv /\ [StackNext]_stackVars => StackInv'
  BY StackStays
<1>3. StackInv => StackIsDrawn
  BY StackInvDrawn
<1>4. QED
  BY <1>1, <1>2, <1>3, PTL DEF StackSpec

-----------------------------------------------------------------------------
(***************************************************************************)
(* The parts side by side (MCMap): a behaviour of the whole is one of each *)
(* part, at rest or not.                                                   *)
(***************************************************************************)

LEMMA PartsRun == MapSpec => MarksSpec /\ KeyboardSpec /\ StackSpec
<1>1. MapInit => MarksInit /\ KeyboardInit /\ StackInit
  BY DEF MapInit, Rest, Parts, MarksRest, StackRests
<1>2. [MapNext]_mapVars => /\ [MarksNext]_markVars
                           /\ [KeyboardNext]_keyboard
                           /\ [StackNext]_stackVars
  BY DEF MapNext, mapVars, markVars, stackVars
<1>3. QED
  BY <1>1, <1>2, PTL DEF MapSpec, MarksSpec, KeyboardSpec, StackSpec

(* What the controller put into the renderer and the page is what it was   *)
(* last asked for: the stack of sources with its terrain, and the marks    *)
(* with their lines.                                                       *)
THEOREM MapIsAsAsked == MapSpec => []MapHoldsWhatWasAsked
BY PartsRun, StackAlwaysDrawn, MarksAlwaysAsked, PTL DEF MapHoldsWhatWasAsked

(* Whoever works on the map by keyboard keeps the focus through every      *)
(* render: on a mark that is still drawn, and on a vertex of the draft.    *)
THEOREM FocusIsKept == MapSpec => FocusKept
BY PartsRun, FocusAlwaysStays, KeyboardUserStays DEF FocusKept
================================================================================
