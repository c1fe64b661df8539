------------------------------- MODULE MapProofs -------------------------------
(***************************************************************************)
(* Drawing on the map, and the canvas over it: panning is given back and   *)
(* the history of edits stays within its limit, for any limit, any number  *)
(* of vertices, sessions and pointers and any draft an editing session     *)
(* starts from; a press on a vertex adds none; every draft keeps its       *)
(* segments and laps in order, and an edit keeps the company of the        *)
(* vertices it leaves; and the canvas over the map shows what its props    *)
(* say.  What the controller keeps on the map is in MapContentProofs.      *)
(***************************************************************************)
EXTENDS MCMap, SequenceTheorems, FiniteSetTheorems, WellFoundedInduction, TLAPS

-----------------------------------------------------------------------------
(* Panning.                                                                *)

DrawTypes ==
  /\ pan \in Panning /\ panSet \in Panning
  /\ panningWasEnabled \in Panning \cup {"null"}
  /\ entered \in Nat /\ session \in Nat /\ fingers \in Nat
  /\ gesture \in [index : Nat, moved : BOOLEAN] \cup {NoGesture}
  /\ click = "due" => fingers = 0
  /\ click = "down" => fingers = 1

PanInv == DrawTypes /\ PanGivenBack

(* A place of the map is an index or Empty, whatever is painted.           *)
LEMMA PlacesAreNaturals == Places \subseteq Nat
BY SMT DEF Places

(* releaseDrag: after it nothing is borrowed and the pan is as its owner   *)
(* left it.                                                                *)
LEMMA ReleaseGivesBack ==
  ASSUME PanInv, ReleaseDrag, UNCHANGED panSet
  PROVE  /\ panningWasEnabled' = "null"
         /\ pan' \in Panning /\ pan' = panSet'
BY DEF PanInv, DrawTypes, PanGivenBack, ReleaseDrag, Borrowed, Panning

(* startDrawMode begins with nothing borrowed.                             *)
LEMMA InitPan == Init => PanInv
BY DEF Init, DrawInit, PanInv, DrawTypes, PanGivenBack, Borrowed

(* One case per event of the pointer, of the session and of the owner.     *)
LEMMA PointerKeepsPan == ASSUME PanInv, Pointer PROVE PanInv'
<1>1. ASSUME NEW at \in Places, Press(at) PROVE PanInv'
  <2>1. at \in Nat
    BY <1>1, PlacesAreNaturals
  <2>2. CASE session = 0
    BY <1>1, <2>2 DEF Press, PanInv, DrawTypes, PanGivenBack, Borrowed
  <2>3. CASE session # 0 /\ at = Empty
    BY <1>1, <2>3, ReleaseGivesBack
    DEF Press, OnStart, PanInv, DrawTypes, PanGivenBack, Borrowed
  <2>4. CASE session # 0 /\ at # Empty
    <3>. DEFINE pressedOn == [index |-> at, moved |-> FALSE]
    <3>0. gesture' = pressedOn
      BY <1>1, <2>4 DEF Press, OnStart
    <3>1. gesture' \in [index : Nat, moved : BOOLEAN]
      <4>1. pressedOn \in [index : Nat, moved : BOOLEAN]
        BY <2>1
      <4> QED
        BY <3>0, <4>1
    <3>2. gesture' # NoGesture
      BY <3>1, GestureAssumption
    <3>3. panningWasEnabled' = panSet /\ pan' = "disabled"
      BY <1>1, <2>4 DEF Press, OnStart, PanInv, DrawTypes, PanGivenBack, Borrowed, Panning
    <3>4. fingers' > 0 /\ fingers' \in Nat /\ UNCHANGED <<session, entered, panSet>>
      BY <1>1 DEF Press, PanInv, DrawTypes
    <3>5. click' # "due" /\ (click' = "down" => fingers' = 1)
      BY <1>1 DEF Press, PanInv, DrawTypes
    <3> QED
      BY <2>4, <3>1, <3>2, <3>3, <3>4, <3>5 DEF PanInv, DrawTypes, PanGivenBack, Borrowed, Panning
  <2> QED
    BY <2>2, <2>3, <2>4
<1>2. CASE Release
  <2>1. fingers' \in Nat /\ UNCHANGED <<session, entered, panSet>>
    BY <1>2 DEF Release, PanInv, DrawTypes
  <2>2. CASE Borrowed
    BY <1>2, <2>1, <2>2, ReleaseGivesBack
    DEF Release, OnEnd, PanInv, DrawTypes, PanGivenBack, Borrowed
  <2>3. CASE ~Borrowed
    BY <1>2, <2>1, <2>3 DEF Release, PanInv, DrawTypes, PanGivenBack, Borrowed
  <2> QED
    BY <2>2, <2>3
<1>3. CASE Cancel
  <2>1. CASE Borrowed
    BY <1>3, <2>1, ReleaseGivesBack
    DEF Cancel, OnEnd, PanInv, DrawTypes, PanGivenBack, Borrowed
  <2>2. CASE ~Borrowed
    BY <1>3, <2>2 DEF Cancel, PanInv, DrawTypes, PanGivenBack, Borrowed
  <2> QED
    BY <2>1, <2>2
<1>4. CASE Enter
  BY <1>4 DEF Enter, PanInv, DrawTypes, PanGivenBack, Borrowed
<1>5. CASE Exit
  BY <1>5, ReleaseGivesBack DEF Exit, PanInv, DrawTypes, PanGivenBack, Borrowed
<1>6. CASE SetPan
  BY <1>6 DEF SetPan, PanInv, DrawTypes, PanGivenBack, Borrowed
<1> QED
  BY <1>1, <1>2, <1>3, <1>4, <1>5, <1>6 DEF Pointer

(* A drag marks its gesture as moved; a handler that throws releases it.   *)
LEMMA DragKeepsPan == ASSUME PanInv, Drag PROVE PanInv'
<1>1. gesture \in [index : Nat, moved : BOOLEAN] /\ UNCHANGED <<session, entered, panSet, fingers, click>>
  BY DEF Drag, MoveBegins, PanInv, DrawTypes
<1>2. gesture' \in [index : Nat, moved : BOOLEAN]
  BY <1>1 DEF Drag, MoveBegins
<1>3. gesture' # NoGesture
  BY <1>2, GestureAssumption
<1>4. CASE UNCHANGED <<panningWasEnabled, pan>>
  BY <1>1, <1>2, <1>3, <1>4 DEF PanInv, DrawTypes, PanGivenBack, Borrowed
<1>5. CASE ReleaseDrag
  BY <1>1, <1>2, <1>5, ReleaseGivesBack DEF PanInv, DrawTypes, PanGivenBack, Borrowed
<1> QED
  BY <1>4, <1>5 DEF Drag

(* A click comes when no pointer is down, so nothing is borrowed.          *)
LEMMA ClickKeepsPan == ASSUME PanInv, ClickBegins PROVE PanInv'
BY DEF ClickBegins, PanInv, DrawTypes, PanGivenBack, Borrowed

(* What draw mode does not take part in leaves it alone.                   *)
LEMMA OthersKeepPan == ASSUME PanInv, UNCHANGED drawVars PROVE PanInv'
BY DEF drawVars, PanInv, DrawTypes, PanGivenBack, Borrowed

(* However a drag ends (a release, a second touch, a cancellation, a       *)
(* handler that throws, an exit in the middle of it), panning is what the  *)
(* map's owner set it to whenever no live session is dragging a vertex.    *)
THEOREM PanAlwaysGivenBack == Spec => []PanGivenBack
<1>1. PanInv /\ [Next]_vars => PanInv'
  <2> SUFFICES ASSUME PanInv, [Next]_vars PROVE PanInv'
    OBVIOUS
  <2>1. CASE Pointer
    BY <2>1, PointerKeepsPan
  <2>2. CASE Drag
    BY <2>2, DragKeepsPan
  <2>3. CASE ClickMap \/ ClickMark
    BY <2>3, ClickKeepsPan DEF ClickMap, ClickMark
  <2>4. CASE HostRenders \/ HostEdits \/ UNCHANGED vars
    BY <2>4, OthersKeepPan DEF HostRenders, HostEdits, vars
  <2> QED
    BY <2>1, <2>2, <2>3, <2>4 DEF Next
<1>2. PanInv => PanGivenBack
  BY DEF PanInv
<1> QED
  BY InitPan, <1>1, <1>2, PTL DEF Spec

-----------------------------------------------------------------------------
(* History.                                                                *)

(* commit, undo and redo: a snapshot moves between the two stacks, and     *)
(* both together never outgrow the limit.                                  *)
HistoryBounded == Len(undoStack) + Len(redoStack) <= HistoryLimit

(* A stack, of whatever snapshots.                                         *)
Stack(s) == \E S : s \in Seq(S)

HistoryInv == Stack(undoStack) /\ Stack(redoStack) /\ HistoryBounded

(* What pushing does to a stack.                                           *)
LEMMA AppendStacks ==
  ASSUME NEW s, NEW snapshot, Stack(s)
  PROVE  /\ Stack(Append(s, snapshot))
         /\ Len(s) \in Nat /\ Len(Append(s, snapshot)) = Len(s) + 1
<1>1. PICK S : s \in Seq(S)
  BY DEF Stack
<1> DEFINE T == S \cup {snapshot}
<1>3. s \in Seq(T) /\ snapshot \in T
  BY <1>1
<1>4. Append(s, snapshot) \in Seq(T) /\ Len(Append(s, snapshot)) = Len(s) + 1
  BY <1>3
<1> QED
  BY <1>3, <1>4 DEF Stack

(* What popping does to a stack that is not empty.                         *)
LEMMA PopStacks ==
  ASSUME NEW s, Stack(s), s # << >>
  PROVE  /\ Stack(SubSeq(s, 1, Len(s) - 1)) /\ Stack(Tail(s))
         /\ Len(s) \in Nat \ {0}
         /\ Len(SubSeq(s, 1, Len(s) - 1)) = Len(s) - 1
         /\ Len(Tail(s)) = Len(s) - 1
<1>1. PICK S : s \in Seq(S)
  BY DEF Stack
<1>2. Len(s) \in Nat \ {0}
  BY <1>1
<1>3. Tail(s) \in Seq(S) /\ Len(Tail(s)) = Len(s) - 1
  BY <1>1, <1>2
<1>4. SubSeq(s, 1, Len(s) - 1) \in Seq(S) /\ Len(SubSeq(s, 1, Len(s) - 1)) = Len(s) - 1
  <2> DEFINE last == Len(s) - 1
  <2>1. last \in Nat /\ \A i \in 1..last : s[i] \in S
    BY <1>1, <1>2
  <2>2. /\ SubSeq(s, 1, last) \in Seq(S)
        /\ Len(SubSeq(s, 1, last)) = last
    <3> HIDE DEF last
    <3> QED
      BY <2>1, SubSeqProperties
  <2> QED
    BY <2>2, Zenon
<1> QED
  BY <1>2, <1>3, <1>4, Zenon DEF Stack

(* commit: the oldest snapshot goes when the stack is full.                *)
LEMMA CommitKeepsHistory ==
  ASSUME HistoryInv, NEW next, Commit(next)
  PROVE  HistoryInv'
<1> DEFINE longer == Append(undoStack, current)
<1>1. Stack(longer) /\ Len(undoStack) \in Nat /\ Len(longer) = Len(undoStack) + 1
  BY AppendStacks DEF HistoryInv
<1>2. Len(redoStack) \in Nat /\ HistoryLimit \in Nat \ {0}
  BY AppendStacks, DraftAssumption DEF HistoryInv
<1>3. Len(undoStack) <= HistoryLimit
  BY <1>1, <1>2 DEF HistoryInv, HistoryBounded
<1>4. redoStack' = << >> /\ Stack(<< >>) /\ Len(<< >>) = 0
  <2>1. << >> \in Seq({}) /\ Len(<< >>) = 0
    OBVIOUS
  <2> QED
    BY <2>1 DEF Commit, Stack
<1>5. Stack(undoStack') /\ Len(undoStack') <= HistoryLimit /\ Len(undoStack') \in Nat
  <2>1. CASE Len(longer) > HistoryLimit
    <3>1. undoStack' = Tail(longer)
      BY <2>1 DEF Commit, Pushed
    <3>2. longer # << >>
      BY <1>1, <1>4
    <3>3. Stack(Tail(longer)) /\ Len(Tail(longer)) = Len(longer) - 1
      BY <1>1, <3>2, PopStacks
    <3> QED
      BY <1>1, <1>3, <3>1, <3>3
  <2>2. CASE ~(Len(longer) > HistoryLimit)
    <3>1. undoStack' = longer
      BY <2>2 DEF Commit, Pushed
    <3> QED
      BY <1>1, <1>2, <2>2, <3>1
  <2> QED
    BY <2>1, <2>2
<1> QED
  BY <1>2, <1>4, <1>5 DEF HistoryInv, HistoryBounded

LEMMA UndoKeepsHistory == ASSUME HistoryInv, Undo PROVE HistoryInv'
<1>1. Stack(undoStack') /\ Len(undoStack) \in Nat \ {0} /\ Len(undoStack') = Len(undoStack) - 1
  BY PopStacks DEF Undo, HistoryInv
<1>2. Stack(redoStack') /\ Len(redoStack) \in Nat /\ Len(redoStack') = Len(redoStack) + 1
  BY AppendStacks DEF Undo, HistoryInv
<1> QED
  BY <1>1, <1>2, DraftAssumption DEF HistoryInv, HistoryBounded

LEMMA RedoKeepsHistory == ASSUME HistoryInv, Redo PROVE HistoryInv'
<1>1. Stack(redoStack') /\ Len(redoStack) \in Nat \ {0} /\ Len(redoStack') = Len(redoStack) - 1
  BY PopStacks DEF Redo, HistoryInv
<1>2. Stack(undoStack') /\ Len(undoStack) \in Nat /\ Len(undoStack') = Len(undoStack) + 1
  BY AppendStacks DEF Redo, HistoryInv
<1> QED
  BY <1>1, <1>2, DraftAssumption DEF HistoryInv, HistoryBounded

LEMMA SameHistory == ASSUME HistoryInv, UNCHANGED draftVars PROVE HistoryInv'
BY DEF draftVars, HistoryInv, HistoryBounded, Stack

(* Every edit commits; all else leaves the draft alone.                    *)
LEMMA NextKeepsHistory == ASSUME HistoryInv, [Next]_vars PROVE HistoryInv'
<1>1. CASE Pointer \/ HostRenders \/ UNCHANGED vars
  BY <1>1, SameHistory DEF Pointer, HostRenders, vars
<1>2. ASSUME NEW index, InsertAt(index) \/ RemoveAt(index) \/ BreakAt(index) \/ MoveAt(index)
      PROVE  HistoryInv'
  BY <1>2, CommitKeepsHistory DEF InsertAt, RemoveAt, BreakAt, MoveAt
<1>3. CASE AppendVertex
  BY <1>3, CommitKeepsHistory DEF AppendVertex
<1>4. CASE Drag
  BY <1>4, <1>2, SameHistory DEF Drag
<1>5. CASE ClickMap \/ ClickMark
  BY <1>5, <1>2, <1>3, SameHistory DEF ClickMap, ClickMark, OnVertexClick
<1>6. CASE HostEdits
  BY <1>6, <1>2, UndoKeepsHistory, RedoKeepsHistory DEF HostEdits
<1> QED
  BY <1>1, <1>4, <1>5, <1>6 DEF Next

(* No sequence of edits, undos and redos makes the two stacks hold more    *)
(* snapshots than the limit.                                               *)
THEOREM HistoryStaysBounded == Spec => []HistoryBounded
<1>1. Init => HistoryInv
  <2>1. << >> \in Seq({}) /\ Len(<< >>) = 0
    OBVIOUS
  <2> QED
    BY <2>1, DraftAssumption DEF Init, DraftInit, HistoryInv, HistoryBounded, Stack
<1>2. HistoryInv /\ [Next]_vars => HistoryInv'
  BY NextKeepsHistory
<1>3. HistoryInv => HistoryBounded
  BY DEF HistoryInv
<1> QED
  BY <1>1, <1>2, <1>3, PTL DEF Spec

-----------------------------------------------------------------------------
(* The draft.                                                              *)

(* The places picked, in order. *)
Order(p, places) ==
  /\ p \in [1..Cardinality(places) -> places]
  /\ \A i, j \in 1..Cardinality(places) : i < j => p[i] < p[j]
  /\ \A x \in places : \E k \in 1..Cardinality(places) : p[k] = x

LEMMA PickedInOrder ==
  ASSUME NEW n \in Nat, NEW places \in SUBSET (1..n)
  PROVE  /\ Cardinality(places) \in Nat
         /\ \E p : Order(p, places) /\ \A s : Picked(s, places) = [k \in 1..Cardinality(places) |-> s[p[k]]]
<1> DEFINE before(x) == {j \in places : j < x}
           size == Cardinality(places)
           rank == [x \in places |-> Cardinality(before(x))]
<1>0. \A x \in places : x \in Int
  OBVIOUS
<1>1. IsFiniteSet(places) /\ size \in Nat
  <2>1. IsFiniteSet(1..n)
    BY FS_Interval
  <2> QED BY <2>1, FS_Subset, FS_CardinalityType
<1>2. ASSUME NEW x \in places
      PROVE  IsFiniteSet(before(x)) /\ Cardinality(before(x)) \in 0..(size - 1)
  <2>1. before(x) \in SUBSET places /\ before(x) # places
    OBVIOUS
  <2>2. IsFiniteSet(before(x)) /\ Cardinality(before(x)) <= size /\ Cardinality(before(x)) # size
    BY <2>1, <1>1, FS_Subset
  <2>3. Cardinality(before(x)) \in Nat
    BY <2>2, FS_CardinalityType
  <2> QED BY <2>2, <2>3, <1>1
<1>3. ASSUME NEW x \in places, NEW y \in places, x < y
      PROVE  rank[x] < rank[y]
  <2>1. before(x) \in SUBSET before(y) /\ before(x) # before(y)
    <3>1. x \in Int /\ y \in Int /\ \A j \in places : j \in Int
      OBVIOUS
    <3>2. \A j \in before(x) : j \in before(y)
      BY <3>1, <1>3
    <3>3. x \in before(y) /\ x \notin before(x)
      BY <3>1, <1>3
    <3> HIDE DEF before
    <3> QED BY <3>2, <3>3
  <2>2. Cardinality(before(x)) <= Cardinality(before(y)) /\ Cardinality(before(x)) # Cardinality(before(y))
    BY <2>1, <1>2, FS_Subset
  <2> QED BY <2>2, <1>2
<1>4. rank \in [places -> 0..(size - 1)]
  BY <1>2
<1>5. rank \in Surjection(places, 0..(size - 1))
  <2>1. \A x, y \in places : rank[x] = rank[y] => x = y
    <3>1. \A x \in places : rank[x] \in Int
      BY <1>4
    <3>2. \A x \in places : x \in Int
      OBVIOUS
    <3> HIDE DEF rank
    <3> QED BY <3>1, <3>2, <1>3
  <2> HIDE DEF rank
  <2>2. rank \in Injection(places, 0..(size - 1))
    BY <2>1, <1>4 DEF Injection, IsInjective
  <2>3. IsFiniteSet(0..(size - 1)) /\ Cardinality(0..(size - 1)) = size
    BY <1>1, FS_Interval, SMTT(30)
  <2> QED BY <2>2, <2>3, FS_Injection
<1> DEFINE p == [k \in 1..size |-> CHOOSE i \in places : Cardinality(before(i)) = k - 1]
<1>6. ASSUME NEW k \in 1..size PROVE p[k] \in places /\ rank[p[k]] = k - 1
  <2>1. \E i \in places : rank[i] = k - 1
    <3>1. k - 1 \in 0..(size - 1)
      BY <1>1
    <3> HIDE DEF rank
    <3> QED BY <3>1, <1>5 DEF Surjection
  <2>2. \E i \in places : Cardinality(before(i)) = k - 1
    BY <2>1
  <2> QED BY <2>2
<1>7. \A s : Picked(s, places) = [k \in 1..size |-> s[p[k]]]
  BY DEF Picked
<1>8. p \in [1..size -> places]
  BY <1>6
<1> HIDE DEF rank, p
<1>9. \A i, j \in 1..size : i < j => p[i] < p[j]
  <2> SUFFICES ASSUME NEW i \in 1..size, NEW j \in 1..size, i < j, ~(p[i] < p[j]) PROVE FALSE
    OBVIOUS
  <2>1. p[i] \in places /\ p[j] \in places /\ p[i] \in Int /\ p[j] \in Int
    BY <1>0, <1>6
  <2>4. rank[p[i]] < rank[p[j]]
    <3>1. rank[p[i]] = i - 1 /\ rank[p[j]] = j - 1
      BY <1>6
    <3> QED BY <3>1
  <2>2. p[j] < p[i] \/ p[j] = p[i]
    BY <2>1
  <2>3. rank[p[i]] \in Int /\ rank[p[j]] \in Int
    BY <1>6
  <2> QED BY <2>1, <2>2, <2>3, <2>4, <1>3
<1>10. ASSUME NEW x \in places PROVE \E k \in 1..size : p[k] = x
  <2>1. rank[x] + 1 \in 1..size
    BY <1>4, <1>1
  <2>2. p[rank[x] + 1] \in places /\ rank[p[rank[x] + 1]] = rank[x] /\ rank[x] \in Int
    BY <2>1, <1>6, <1>4
  <2>3. p[rank[x] + 1] = x
    <3> DEFINE y == p[rank[x] + 1]
    <3>1. y \in places /\ rank[y] = rank[x] /\ rank[x] \in Int
      BY <2>2
    <3>3. y \in Int /\ x \in Int
      BY <3>1, <1>0
    <3> HIDE DEF y
    <3>2. ~(x < y) /\ ~(y < x)
      BY <3>1, <1>3
    <3> QED BY <3>1, <3>2, <3>3 DEF y
  <2> QED BY <2>1, <2>3
<1>11. Order(p, places)
  BY <1>8, <1>9, <1>10 DEF Order
<1> QED BY <1>1, <1>7, <1>11

LEMMA LeastNatural ==
  ASSUME NEW T \in SUBSET Nat, T # {}
  PROVE  \E x \in T : \A y \in T : x <= y
<1> DEFINE Below == {p \in Nat \X Nat : p[1] < p[2]}
<1>1. IsWellFoundedOn(Below, Nat)
  BY NatLessThanWellFounded, Zenon DEF OpToRel
<1> HIDE DEF Below
<1>2. PICK x \in T : \A y \in T : ~(<<y, x>> \in Below)
  BY <1>1, WFMin
<1>3. \A y \in T : ~(y < x)
  BY <1>2 DEF Below
<1>4. QED
  BY <1>3

(* What is picked of a sequence is some of its elements, in their order p. *)
PickedBy(p, S, s, places) ==
  /\ Order(p, places) /\ Cardinality(places) \in Nat
  /\ Picked(s, places) \in Seq(S) /\ Len(Picked(s, places)) = Cardinality(places)
  /\ \A k \in 1..Cardinality(places) : p[k] \in places /\ Picked(s, places)[k] = s[p[k]]

LEMMA PickedOf ==
  ASSUME NEW S, NEW s \in Seq(S), NEW places \in SUBSET (1..Len(s))
  PROVE  \E p : PickedBy(p, S, s, places)
<1> DEFINE size == Cardinality(places)
           picked == Picked(s, places)
<1>1. Len(s) \in Nat
  OBVIOUS
<1>2. /\ size \in Nat
      /\ \E p : Order(p, places) /\ \A t : Picked(t, places) = [k \in 1..size |-> t[p[k]]]
  BY <1>1, PickedInOrder
<1>3. PICK p : Order(p, places) /\ \A t : Picked(t, places) = [k \in 1..size |-> t[p[k]]]
  BY <1>2
<1>4. \A k \in 1..size : p[k] \in places
  BY <1>3 DEF Order
<1>5. picked = [k \in 1..size |-> s[p[k]]]
  BY <1>3
<1> HIDE DEF picked
<1>6. DOMAIN picked = 1..size /\ \A k \in 1..size : picked[k] = s[p[k]]
  BY <1>5, Zenon
<1>7. \A k \in 1..size : s[p[k]] \in S
  <2>1. \A x \in places : x \in 1..Len(s) /\ s[x] \in S
    OBVIOUS
  <2> QED BY <2>1, <1>4
<1> HIDE DEF size
<1>8. picked \in Seq(S) /\ Len(picked) = size
  BY <1>2, <1>5, <1>7
<1> QED BY <1>2, <1>3, <1>4, <1>6, <1>8 DEF picked, size, PickedBy

(* Where the spans of a draft meet.                                        *)
Bounds(draft) == <<1>> \o draft.breaks \o <<Len(draft.points) + 1>>

LEMMA BoundsAre ==
  ASSUME NEW draft, IsDraft(draft)
  PROVE  LET n == Len(draft.breaks)
             last == Len(draft.points) + 1
         IN /\ n \in Nat /\ last \in Nat /\ last >= 1
            /\ Bounds(draft) \in Seq(1..last) /\ Len(Bounds(draft)) = n + 2
            /\ Bounds(draft)[1] = 1 /\ Bounds(draft)[n + 2] = last
            /\ \A i \in 1..n : Bounds(draft)[i + 1] = draft.breaks[i] /\ draft.breaks[i] \in 2..(last - 1)
            /\ \A i, j \in 1..(n + 2) : i <= j => Bounds(draft)[i] <= Bounds(draft)[j]
<1> DEFINE n == Len(draft.breaks)
           last == Len(draft.points) + 1
           b == Bounds(draft)
<1>1. /\ n \in Nat /\ last \in Nat /\ last >= 1
      /\ draft.breaks \in Seq(2..(last - 1)) /\ DOMAIN draft.breaks = 1..n
      /\ \A i \in 1..n : draft.breaks[i] \in 2..(last - 1)
      /\ \A i, j \in 1..n : i < j => draft.breaks[i] <= draft.breaks[j]
  BY DEF IsDraft
<1>2. <<1>> \in Seq(1..last) /\ draft.breaks \in Seq(1..last) /\ <<last>> \in Seq(1..last)
  BY <1>1
<1> HIDE DEF last, n
<1> DEFINE c == <<1>> \o draft.breaks
<1>3. /\ c \in Seq(1..last) /\ Len(c) = n + 1 /\ c[1] = 1
      /\ \A i \in 1..n : c[i + 1] = draft.breaks[i]
  <2>1. /\ c \in Seq(1..last) /\ Len(c) = Len(<<1>>) + Len(draft.breaks)
        /\ \A i \in 1..(Len(<<1>>) + Len(draft.breaks)) :
             c[i] = IF i <= Len(<<1>>) THEN <<1>>[i] ELSE draft.breaks[i - Len(<<1>>)]
    BY <1>2, ConcatProperties
  <2>2. Len(<<1>>) = 1 /\ <<1>>[1] = 1 /\ Len(draft.breaks) = n
    BY DEF n
  <2>3. c \in Seq(1..last) /\ Len(c) = n + 1 /\ c[1] = 1
    BY <2>1, <2>2, <1>1
  <2>4. ASSUME NEW i \in 1..n PROVE c[i + 1] = draft.breaks[i]
    <3>1. i + 1 \in 1..(Len(<<1>>) + Len(draft.breaks)) /\ ~(i + 1 <= Len(<<1>>)) /\ i + 1 - Len(<<1>>) = i
      BY <2>2, <1>1
    <3> HIDE DEF c
    <3> QED BY <2>1, <3>1
  <2> QED BY <2>3, <2>4
<1> HIDE DEF c
<1>4. /\ b \in Seq(1..last) /\ Len(b) = n + 2 /\ b[n + 2] = last
      /\ \A i \in 1..(n + 1) : b[i] = c[i]
  <2>1. b = c \o <<last>>
    BY DEF Bounds, c, last
  <2>2. /\ c \o <<last>> \in Seq(1..last) /\ Len(c \o <<last>>) = Len(c) + Len(<<last>>)
        /\ \A i \in 1..(Len(c) + Len(<<last>>)) :
             (c \o <<last>>)[i] = IF i <= Len(c) THEN c[i] ELSE <<last>>[i - Len(c)]
    BY <1>2, <1>3, ConcatProperties
  <2>3. Len(<<last>>) = 1 /\ <<last>>[1] = last
    OBVIOUS
  <2> DEFINE d == c \o <<last>>
  <2>4. d \in Seq(1..last) /\ Len(d) = n + 2
    BY <2>2, <2>3, <1>1, <1>3
  <2>5. d[n + 2] = last
    <3>1. n + 2 \in 1..(Len(c) + Len(<<last>>)) /\ ~(n + 2 <= Len(c)) /\ n + 2 - Len(c) = 1
      BY <2>3, <1>1, <1>3
    <3> HIDE DEF d
    <3> QED BY <2>2, <2>3, <3>1 DEF d
  <2>6. ASSUME NEW i \in 1..(n + 1) PROVE d[i] = c[i]
    <3>1. i \in 1..(Len(c) + Len(<<last>>)) /\ i <= Len(c)
      BY <2>3, <1>1, <1>3
    <3> HIDE DEF d
    <3> QED BY <2>2, <3>1 DEF d
  <2> HIDE DEF b
  <2> QED BY <2>1, <2>4, <2>5, <2>6
<1> HIDE DEF b
<1>5. b[1] = 1 /\ \A i \in 1..n : b[i + 1] = draft.breaks[i]
  BY <1>1, <1>3, <1>4, SMTT(30)
<1>6. ASSUME NEW i \in 1..(n + 2), NEW j \in 1..(n + 2), i <= j PROVE b[i] <= b[j]
  <2>1. \A k \in 1..(n + 2) : b[k] \in 1..last
    BY <1>4, <1>1, ElementOfSeq
  <2>2. i \in Int /\ j \in Int /\ b[i] \in Int /\ b[j] \in Int /\ 1 <= b[j] /\ b[i] <= last
    BY <2>1, <1>1
  <2>3. CASE i = 1 \/ j = n + 2 \/ i = j
    BY <2>2, <2>3, <1>4, <1>5
  <2>4. CASE i > 1 /\ j < n + 2 /\ i < j
    <3>1. i - 1 \in 1..n /\ j - 1 \in 1..n /\ i - 1 < j - 1 /\ i = (i - 1) + 1 /\ j = (j - 1) + 1
      BY <2>4, <1>1
    <3>2. b[i] = draft.breaks[i - 1] /\ b[j] = draft.breaks[j - 1]
      BY <3>1, <1>5
    <3> QED BY <3>1, <3>2, <1>1
  <2>5. i = 1 \/ j = n + 2 \/ i = j \/ (i > 1 /\ j < n + 2 /\ i < j)
    BY <2>2, <1>6, <1>1
  <2> QED BY <2>3, <2>4, <2>5
<1> QED BY <1>1, <1>4, <1>5, <1>6 DEF n, last, b

LEMMA SpansAre ==
  ASSUME NEW draft, IsDraft(draft)
  PROVE  LET n == Len(draft.breaks)
         IN /\ Spans(draft) \in Seq([startIndex : Int, endIndex : Int])
            /\ Len(Spans(draft)) = n + 1 /\ DOMAIN Spans(draft) = 1..(n + 1)
            /\ \A i \in 1..(n + 1) :
                 /\ Spans(draft)[i].startIndex = Bounds(draft)[i]
                 /\ Spans(draft)[i].endIndex = Bounds(draft)[i + 1] - 1
<1> DEFINE n == Len(draft.breaks)
           b == Bounds(draft)
           span(i) == [startIndex |-> b[i], endIndex |-> b[i + 1] - 1]
           spans == [i \in 1..(n + 1) |-> span(i)]
<1>1. /\ n \in Nat /\ b \in Seq(1..(Len(draft.points) + 1)) /\ Len(b) = n + 2
      /\ Len(draft.points) + 1 \in Nat
  BY BoundsAre
<1>2. \A i \in 1..(n + 2) : b[i] \in Int
  <2>1. \A i \in 1..(n + 2) : b[i] \in 1..(Len(draft.points) + 1)
    BY <1>1, ElementOfSeq
  <2> QED BY <2>1, <1>1
<1>3. Len(b) - 1 = n + 1
  BY <1>1
<1>4. Spans(draft) = spans
  BY <1>3 DEF Spans, Bounds
<1> HIDE DEF b
<1>5. \A i \in 1..(n + 1) : span(i) \in [startIndex : Int, endIndex : Int]
  BY <1>1, <1>2, SMTT(30)
<1>6. \A i \in 1..(n + 1) : span(i).startIndex = b[i] /\ span(i).endIndex = b[i + 1] - 1
  OBVIOUS
<1> HIDE DEF span, n
<1>7. DOMAIN spans = 1..(n + 1) /\ \A i \in 1..(n + 1) : spans[i] = span(i)
  BY Zenon
<1>8. spans \in Seq([startIndex : Int, endIndex : Int]) /\ Len(spans) = n + 1
  BY <1>1, <1>5
<1> HIDE DEF spans
<1> QED BY <1>4, <1>6, <1>7, <1>8 DEF n, b

(* Some stretches of places, one after the other.                          *)
Ordered(r, count) ==
  /\ r \in Seq([startIndex : Int, endIndex : Int]) /\ Len(r) \in Nat
  /\ \A k \in 1..Len(r) : /\ r[k].startIndex \in Int /\ r[k].endIndex \in Int
                          /\ 1 <= r[k].startIndex /\ r[k].startIndex <= r[k].endIndex
                          /\ r[k].endIndex <= count
  /\ \A i, j \in 1..Len(r) : i < j => r[i].endIndex < r[j].startIndex

Within(x, range) == range.startIndex <= x /\ x <= range.endIndex

(* segmentRanges: one after the other, from break to break, and none of    *)
(* the vertices is left out.                                               *)
LEMMA RangesHold ==
  ASSUME NEW draft, IsDraft(draft), draft.points # << >>
  PROVE  LET r == Ranges(draft)
             breaks == draft.breaks
             count == Len(draft.points)
         IN /\ Ordered(r, count)
            /\ \A x \in 1..count : \E k \in 1..Len(r) : Within(x, r[k])
            /\ \A k \in 1..Len(r) :
                 /\ r[k].startIndex = 1 \/ \E i \in 1..Len(breaks) : breaks[i] = r[k].startIndex
                 /\ r[k].endIndex = count \/ \E i \in 1..Len(breaks) : breaks[i] = r[k].endIndex + 1
                 /\ \A i \in 1..Len(breaks) : breaks[i] <= r[k].startIndex \/ r[k].endIndex < breaks[i]
<1> DEFINE n == Len(draft.breaks)
           count == Len(draft.points)
           b == Bounds(draft)
           spans == Spans(draft)
           places == {i \in DOMAIN spans : spans[i].endIndex >= spans[i].startIndex}
           size == Cardinality(places)
           r == Ranges(draft)
<1>1. /\ n \in Nat /\ count \in Nat /\ b \in Seq(1..(count + 1)) /\ Len(b) = n + 2
      /\ b[1] = 1 /\ b[n + 2] = count + 1
      /\ \A i \in 1..n : b[i + 1] = draft.breaks[i]
      /\ \A i, j \in 1..(n + 2) : i <= j => b[i] <= b[j]
  <2>1. count \in Nat
    BY DEF IsDraft
  <2> QED BY <2>1, BoundsAre
<1>2. \A i \in 1..(n + 2) : b[i] \in Int /\ 1 <= b[i] /\ b[i] <= count + 1
  <2>1. \A i \in 1..(n + 2) : b[i] \in 1..(count + 1)
    BY <1>1, ElementOfSeq
  <2> QED BY <2>1, <1>1
<1>3. /\ spans \in Seq([startIndex : Int, endIndex : Int])
      /\ Len(spans) = n + 1 /\ DOMAIN spans = 1..(n + 1)
      /\ \A i \in 1..(n + 1) : spans[i].startIndex = b[i] /\ spans[i].endIndex = b[i + 1] - 1
  BY SpansAre
<1>4. r = Picked(spans, places)
  BY DEF Ranges
<1> HIDE DEF spans, b, n, count
<1>5. places \in SUBSET (1..Len(spans))
  BY <1>3
<1>6. \A i \in 1..(n + 1) : i \in places <=> b[i] < b[i + 1]
  <2> TAKE i \in 1..(n + 1)
  <2>1. b[i] \in Int /\ b[i + 1] \in Int
    BY <1>1, <1>2
  <2> QED BY <1>3, <2>1
<1> HIDE DEF places
<1>7. PICK p : /\ Order(p, places) /\ size \in Nat
               /\ Picked(spans, places) \in Seq([startIndex : Int, endIndex : Int])
               /\ Len(Picked(spans, places)) = size
               /\ \A k \in 1..size : p[k] \in places /\ Picked(spans, places)[k] = spans[p[k]]
  <2> DEFINE S == [startIndex : Int, endIndex : Int]
  <2>2. spans \in Seq(S) /\ places \in SUBSET (1..Len(spans))
    BY <1>3, <1>5
  <2> HIDE DEF S
  <2>3. \E p : PickedBy(p, S, spans, places)
    BY <2>2, PickedOf
  <2> QED BY <2>3 DEF S, size, PickedBy
<1> HIDE DEF places, size, r
<1>8. /\ r \in Seq([startIndex : Int, endIndex : Int]) /\ Len(r) = size /\ size \in Nat
      /\ \A k \in 1..size : /\ p[k] \in 1..(n + 1) /\ p[k] \in places
                            /\ r[k].startIndex = b[p[k]] /\ r[k].endIndex = b[p[k] + 1] - 1
  BY <1>3, <1>4, <1>5, <1>7
<1>9. \A k \in 1..size : /\ p[k] \in Int /\ 1 <= p[k] /\ p[k] <= n + 1
                         /\ p[k] + 1 \in 1..(n + 2) /\ p[k] \in 1..(n + 2)
                         /\ b[p[k]] \in Int /\ b[p[k] + 1] \in Int
                         /\ 1 <= b[p[k]] /\ b[p[k]] < b[p[k] + 1] /\ b[p[k] + 1] <= count + 1
  <2> TAKE k \in 1..size
  <2>1. p[k] \in 1..(n + 1) /\ p[k] \in places
    BY <1>8
  <2>2. p[k] \in Int /\ p[k] + 1 \in 1..(n + 2) /\ p[k] \in 1..(n + 2)
    BY <2>1, <1>1, SMTT(30)
  <2> QED BY <2>1, <2>2, <1>1, <1>2, <1>6
<1>10. ASSUME NEW i \in 1..size, NEW j \in 1..size, i < j PROVE r[i].endIndex < r[j].startIndex
  <2>1. p[i] < p[j]
    BY <1>7, <1>10 DEF Order, size
  <2>2. b[p[i] + 1] <= b[p[j]]
    <3>1. p[i] + 1 <= p[j] /\ p[i] + 1 \in 1..(n + 2) /\ p[j] \in 1..(n + 2)
      BY <2>1, <1>9
    <3> QED BY <3>1, <1>1
  <2>3. /\ b[p[i] + 1] \in Int /\ b[p[j]] \in Int
        /\ r[i].endIndex = b[p[i] + 1] - 1 /\ r[j].startIndex = b[p[j]]
    BY <1>8, <1>9
  <2> QED BY <2>2, <2>3
<1>11. Ordered(r, count)
  <2>1. \A k \in 1..size : /\ r[k].startIndex \in Int /\ r[k].endIndex \in Int
                           /\ 1 <= r[k].startIndex /\ r[k].startIndex <= r[k].endIndex
                           /\ r[k].endIndex <= count
    <3> TAKE k \in 1..size
    <3>1. /\ b[p[k]] \in Int /\ b[p[k] + 1] \in Int
          /\ 1 <= b[p[k]] /\ b[p[k]] < b[p[k] + 1] /\ b[p[k] + 1] <= count + 1
          /\ r[k].startIndex = b[p[k]] /\ r[k].endIndex = b[p[k] + 1] - 1
      BY <1>8, <1>9
    <3> QED BY <3>1, <1>1
  <2> QED BY <2>1, <1>8, <1>10 DEF Ordered
<1>12. ASSUME NEW x \in 1..count PROVE \E k \in 1..size : Within(x, r[k])
  <2> DEFINE T == {i \in 1..(n + 2) : b[i] > x}
  <2>1. T \in SUBSET Nat /\ n + 2 \in T
    <3>1. n + 2 \in 1..(n + 2) /\ b[n + 2] > x /\ \A i \in 1..(n + 2) : i \in Nat
      BY <1>1
    <3> QED BY <3>1
  <2>2. PICK m \in T : \A y \in T : m <= y
    <3>1. T # {}
      BY <2>1
    <3> HIDE DEF T
    <3> QED BY <2>1, <3>1, LeastNatural
  <2>3. m \in 1..(n + 2) /\ b[m] > x
    OBVIOUS
  <2>4. m # 1
    BY <2>3, <1>1
  <2>5. m - 1 \in 1..(n + 1) /\ m - 1 \in 1..(n + 2) /\ (m - 1) + 1 = m /\ ~(m <= m - 1)
    BY <2>3, <2>4, <1>1
  <2>6. b[m - 1] <= x
    <3>1. m - 1 \notin T
      BY <2>2, <2>5
    <3>2. ~(b[m - 1] > x)
      BY <3>1, <2>5
    <3>3. b[m - 1] \in Int /\ x \in Int
      BY <2>5, <1>1, <1>2
    <3> QED BY <3>2, <3>3
  <2>7. b[m - 1] < b[m] /\ b[m - 1] \in Int /\ b[m] \in Int /\ x \in Int
    BY <2>3, <2>5, <2>6, <1>1, <1>2
  <2>8. m - 1 \in places
    BY <2>5, <2>7, <1>6
  <2>9. PICK k \in 1..size : p[k] = m - 1
    BY <2>8, <1>7 DEF Order, size
  <2>10. r[k].startIndex = b[m - 1] /\ r[k].endIndex = b[m] - 1
    BY <2>5, <2>9, <1>8
  <2> QED BY <2>3, <2>6, <2>7, <2>10 DEF Within
<1>13. ASSUME NEW k \in 1..size
       PROVE  /\ r[k].startIndex = 1 \/ \E i \in 1..n : draft.breaks[i] = r[k].startIndex
              /\ r[k].endIndex = count \/ \E i \in 1..n : draft.breaks[i] = r[k].endIndex + 1
              /\ \A i \in 1..n : draft.breaks[i] <= r[k].startIndex \/ r[k].endIndex < draft.breaks[i]
  <2>1. r[k].startIndex = 1 \/ \E i \in 1..n : draft.breaks[i] = r[k].startIndex
    <3>1. CASE p[k] = 1
      BY <3>1, <1>1, <1>8
    <3>2. CASE p[k] # 1
      <4>1. p[k] - 1 \in 1..n /\ (p[k] - 1) + 1 = p[k]
        <5>1. p[k] \in Int /\ 1 <= p[k] /\ p[k] <= n + 1
          BY <1>9
        <5> QED BY <3>2, <5>1, <1>1, SMTT(30)
      <4>2. b[(p[k] - 1) + 1] = draft.breaks[p[k] - 1]
        BY <4>1, <1>1
      <4>3. draft.breaks[p[k] - 1] = r[k].startIndex
        BY <4>1, <4>2, <1>8
      <4> QED BY <4>1, <4>3
    <3> QED BY <3>1, <3>2
  <2>2. r[k].endIndex = count \/ \E i \in 1..n : draft.breaks[i] = r[k].endIndex + 1
    <3>1. CASE p[k] = n + 1
      <4>1. p[k] + 1 = n + 2
        BY <3>1, <1>1
      <4>2. r[k].endIndex = b[n + 2] - 1
        BY <4>1, <1>8
      <4> QED BY <4>2, <1>1
    <3>2. CASE p[k] # n + 1
      <4>1. p[k] \in 1..n
        BY <3>2, <1>1, <1>9
      <4>2. b[p[k] + 1] = draft.breaks[p[k]] /\ b[p[k] + 1] \in Int
        BY <4>1, <1>1, <1>9
      <4>3. draft.breaks[p[k]] = r[k].endIndex + 1
        <5>1. r[k].endIndex = b[p[k] + 1] - 1
          BY <1>8
        <5> QED BY <4>2, <5>1
      <4> QED BY <4>1, <4>3
    <3> QED BY <3>1, <3>2
  <2>3. ASSUME NEW i \in 1..n
        PROVE  draft.breaks[i] <= r[k].startIndex \/ r[k].endIndex < draft.breaks[i]
    <3>1. draft.breaks[i] = b[i + 1] /\ i + 1 \in 1..(n + 2) /\ i + 1 \in Int
      BY <1>1
    <3>2. CASE i + 1 <= p[k]
      <4>1. b[i + 1] <= b[p[k]]
        BY <3>1, <3>2, <1>1, <1>9
      <4> QED BY <3>1, <4>1, <1>8
    <3>3. CASE ~(i + 1 <= p[k])
      <4>1. p[k] + 1 <= i + 1
        BY <3>1, <3>3, <1>9
      <4>2. b[p[k] + 1] <= b[i + 1]
        BY <3>1, <4>1, <1>1, <1>9
      <4>3. b[p[k] + 1] \in Int /\ b[i + 1] \in Int
        BY <3>1, <1>2, <1>9
      <4> QED BY <3>1, <4>2, <4>3, <1>8, SMTT(30)
    <3> QED BY <3>2, <3>3
  <2> QED BY <2>1, <2>2, <2>3
<1> QED BY <1>8, <1>11, <1>12, <1>13 DEF r, n, count

(* What finalizeTrack asks of the segments.                                *)
LEMMA RangesCover ==
  ASSUME NEW draft, IsDraft(draft)
  PROVE  SegmentRanges(draft.points, Ranges(draft)) /\ SegmentsCoverPoints(draft.points, Ranges(draft))
<1> DEFINE r == Ranges(draft)
           count == Len(draft.points)
<1>1. CASE draft.points = << >>
  <2>1. r = << >> /\ Len(<< >>) = 0
    BY <1>1 DEF Ranges
  <2> QED BY <1>1, <2>1 DEF SegmentRanges, SegmentsCoverPoints
<1>2. CASE draft.points # << >>
  <2>1. Ordered(r, count) /\ \A x \in 1..count : \E k \in 1..Len(r) : Within(x, r[k])
    BY <1>2, RangesHold
  <2>2. count \in Nat \ {0}
    BY <1>2, EmptySeq DEF IsDraft
  <2> HIDE DEF r, count
  <2>3. Len(r) \in Nat /\ r \in Seq([startIndex : Int, endIndex : Int])
    BY <2>1 DEF Ordered
  <2>4. \A k \in 1..Len(r) : /\ r[k].startIndex \in Int /\ r[k].endIndex \in Int
                             /\ 1 <= r[k].startIndex /\ r[k].startIndex <= r[k].endIndex
                             /\ r[k].endIndex <= count
    BY <2>1 DEF Ordered
  <2>5. \A i, j \in 1..Len(r) : i < j => r[i].endIndex < r[j].startIndex
    BY <2>1 DEF Ordered
  <2>6. SegmentRanges(draft.points, r)
    <3>1. ASSUME NEW i \in 1..Len(r), i > 1 PROVE r[i].startIndex > r[i - 1].endIndex
      <4>1. i - 1 \in 1..Len(r) /\ i - 1 < i
        BY <2>3, <3>1
      <4> QED BY <4>1, <2>4, <2>5
    <3> QED BY <2>4, <3>1 DEF SegmentRanges, count
  <2>7. PICK first \in 1..Len(r) : Within(1, r[first])
    BY <2>1, <2>2
  <2>8. r # << >> /\ 1 \in 1..Len(r) /\ Len(r) \in 1..Len(r)
    <3>1. 1 \in 1..Len(r) /\ Len(r) \in 1..Len(r) /\ Len(r) # 0
      BY <2>3, <2>7
    <3> QED BY <3>1, EmptySeq
  <2>9. r[1].startIndex = 1
    <3>1. first = 1 \/ 1 < first
      OBVIOUS
    <3>2. ~(1 < first)
      BY <2>4, <2>5, <2>7, <2>8 DEF Within
    <3> QED BY <3>1, <3>2, <2>4, <2>7, <2>8 DEF Within
  <2>10. r[Len(r)].endIndex = count
    <3>1. PICK l \in 1..Len(r) : Within(count, r[l])
      BY <2>1, <2>2
    <3>2. l = Len(r) \/ l < Len(r)
      BY <2>3
    <3>3. ~(l < Len(r))
      BY <2>2, <2>4, <2>5, <2>8, <3>1 DEF Within
    <3> QED BY <3>1, <3>2, <3>3, <2>2, <2>4, <2>8 DEF Within
  <2>11. ASSUME NEW i \in 2..Len(r) PROVE r[i].startIndex = r[i - 1].endIndex + 1
    <3> DEFINE x == r[i - 1].endIndex + 1
    <3>1. i \in 1..Len(r) /\ i - 1 \in 1..Len(r) /\ i - 1 < i
      BY <2>3
    <3>2. r[i - 1].endIndex < r[i].startIndex
      BY <3>1, <2>5
    <3>3. x \in 1..count /\ x <= r[i].startIndex /\ x \in Int /\ r[i].startIndex \in Int
      BY <3>1, <3>2, <2>2, <2>4, SMTT(30)
    <3>4. PICK j \in 1..Len(r) : Within(x, r[j])
      BY <3>3, <2>1
    <3>5. j > i - 1
      <4>1. ~(j < i - 1) /\ j # i - 1
        <5>1. ~(r[j].endIndex < r[i - 1].startIndex)
          BY <3>1, <3>4, <2>4 DEF Within
        <5>2. j # i - 1
          BY <3>1, <3>4, <2>4 DEF Within
        <5> QED BY <5>1, <5>2, <3>1, <2>5
      <4> QED BY <4>1, <3>1
    <3>6. ~(i < j)
      BY <3>1, <3>3, <3>4, <2>4, <2>5, SMTT(30) DEF Within
    <3>7. i = j
      BY <3>1, <3>5, <3>6
    <3> QED BY <3>3, <3>4, <3>7 DEF Within
  <2> QED BY <2>6, <2>8, <2>9, <2>10, <2>11 DEF SegmentsCoverPoints, r, count
<1> QED BY <1>1, <1>2
(* The vertices before a place, and those from one on.                     *)
LEMMA PointsBefore ==
  ASSUME NEW ps \in Seq(VertexNames), NEW index \in 1..(Len(ps) + 1)
  PROVE  /\ SubSeq(ps, 1, index - 1) \in Seq(VertexNames)
         /\ Len(SubSeq(ps, 1, index - 1)) = index - 1
         /\ \A i \in 1..(index - 1) : SubSeq(ps, 1, index - 1)[i] = ps[i]
<1> DEFINE last == index - 1
<1>1. last \in Nat /\ last <= Len(ps) /\ Len(ps) \in Nat
  OBVIOUS
<1> HIDE DEF last
<1>2. \A i \in 1..last : ps[i] \in VertexNames
  BY <1>1
<1>3. /\ SubSeq(ps, 1, last) \in Seq(VertexNames)
      /\ Len(SubSeq(ps, 1, last)) = IF 1 <= last THEN last - 1 + 1 ELSE 0
      /\ \A i \in 1..(last - 1 + 1) : SubSeq(ps, 1, last)[i] = ps[1 + i - 1]
  BY <1>1, <1>2, SubSeqProperties
<1>4. /\ Len(SubSeq(ps, 1, last)) = last
      /\ \A i \in 1..last : SubSeq(ps, 1, last)[i] = ps[i]
  BY <1>1, <1>3
<1> QED BY <1>3, <1>4 DEF last

LEMMA PointsFrom ==
  ASSUME NEW ps \in Seq(VertexNames), NEW index \in 1..(Len(ps) + 1)
  PROVE  /\ SubSeq(ps, index, Len(ps)) \in Seq(VertexNames)
         /\ Len(SubSeq(ps, index, Len(ps))) = Len(ps) - index + 1
         /\ \A i \in 1..(Len(ps) - index + 1) :
              SubSeq(ps, index, Len(ps))[i] = ps[index + i - 1]
<1>1. index \in Int /\ Len(ps) \in Nat /\ index >= 1 /\ index <= Len(ps) + 1
  OBVIOUS
<1>2. \A i \in index..Len(ps) : ps[i] \in VertexNames
  BY <1>1
<1>3. /\ SubSeq(ps, index, Len(ps)) \in Seq(VertexNames)
      /\ Len(SubSeq(ps, index, Len(ps))) = IF index <= Len(ps) THEN Len(ps) - index + 1 ELSE 0
      /\ \A i \in 1..(Len(ps) - index + 1) :
           SubSeq(ps, index, Len(ps))[i] = ps[index + i - 1]
  BY <1>1, <1>2, SubSeqProperties
<1> QED BY <1>1, <1>3


After(spot, i) == IF i >= spot THEN i + 1 ELSE i

(* insertAt: a vertex at its place, those from there on moved by one.      *)
LEMMA InsertedPoints ==
  ASSUME NEW ps \in Seq(VertexNames), NEW index \in 1..(Len(ps) + 1), NEW vertex \in VertexNames
  PROVE  LET longer == SubSeq(ps, 1, index - 1) \o <<vertex>> \o SubSeq(ps, index, Len(ps))
         IN /\ longer \in Seq(VertexNames) /\ Len(longer) = Len(ps) + 1
            /\ longer[index] = vertex
            /\ \A i \in 1..Len(ps) : longer[After(index, i)] = ps[i]
<1> DEFINE before == SubSeq(ps, 1, index - 1)
           after == SubSeq(ps, index, Len(ps))
           mid == before \o <<vertex>>
           longer == mid \o after
<1>1. index \in Int /\ Len(ps) \in Nat /\ index >= 1 /\ index <= Len(ps) + 1
  OBVIOUS
<1>2. /\ before \in Seq(VertexNames) /\ Len(before) = index - 1
      /\ \A i \in 1..(index - 1) : before[i] = ps[i]
  BY PointsBefore
<1>3. /\ after \in Seq(VertexNames) /\ Len(after) = Len(ps) - index + 1
      /\ \A i \in 1..(Len(ps) - index + 1) : after[i] = ps[index + i - 1]
  BY PointsFrom
<1>4. <<vertex>> \in Seq(VertexNames) /\ Len(<<vertex>>) = 1 /\ <<vertex>>[1] = vertex
  OBVIOUS
<1> HIDE DEF before, after
<1>5. /\ mid \in Seq(VertexNames) /\ Len(mid) = Len(before) + Len(<<vertex>>)
      /\ \A i \in 1..(Len(before) + Len(<<vertex>>)) :
           mid[i] = IF i <= Len(before) THEN before[i] ELSE <<vertex>>[i - Len(before)]
  BY <1>2, <1>4, ConcatProperties
<1> HIDE DEF mid
<1>6. Len(mid) = index /\ mid[index] = vertex /\ \A i \in 1..(index - 1) : mid[i] = ps[i]
  <2>1. index \in 1..(Len(before) + Len(<<vertex>>)) /\ ~(index <= Len(before)) /\ index - Len(before) = 1
    BY <1>1, <1>2, <1>4
  <2>2. Len(mid) = index
    BY <1>1, <1>2, <1>4, <1>5
  <2>3. mid[index] = vertex
    <3>1. mid[index] = <<vertex>>[index - Len(before)]
      BY <2>1, <1>5
    <3> QED BY <2>1, <3>1, <1>4
  <2>4. ASSUME NEW i \in 1..(index - 1) PROVE mid[i] = ps[i]
    <3>1. i \in 1..(Len(before) + Len(<<vertex>>)) /\ i <= Len(before)
      BY <1>1, <1>2, <1>4
    <3> QED BY <3>1, <1>2, <1>5
  <2> QED BY <2>2, <2>3, <2>4
<1>7. /\ longer \in Seq(VertexNames) /\ Len(longer) = Len(mid) + Len(after)
      /\ \A i \in 1..(Len(mid) + Len(after)) :
           longer[i] = IF i <= Len(mid) THEN mid[i] ELSE after[i - Len(mid)]
  <2>1. mid \in Seq(VertexNames) /\ after \in Seq(VertexNames)
    BY <1>3, <1>5
  <2> QED BY <2>1, ConcatProperties
<1> HIDE DEF longer
<1>8. longer \in Seq(VertexNames) /\ Len(longer) = Len(ps) + 1 /\ longer[index] = vertex
  <2>1. index \in 1..(Len(mid) + Len(after)) /\ index <= Len(mid)
    BY <1>1, <1>3, <1>6
  <2> QED BY <2>1, <1>1, <1>3, <1>6, <1>7
<1>9. ASSUME NEW i \in 1..Len(ps) PROVE longer[After(index, i)] = ps[i]
  <2>1. CASE i >= index
    <3>1. /\ i + 1 \in 1..(Len(mid) + Len(after)) /\ ~(i + 1 <= Len(mid))
          /\ i + 1 - Len(mid) \in 1..(Len(ps) - index + 1) /\ index + (i + 1 - Len(mid)) - 1 = i
      BY <2>1, <1>1, <1>3, <1>6
    <3>2. longer[i + 1] = after[i + 1 - Len(mid)]
      <4> DEFINE x == i + 1
      <4>1. x \in 1..(Len(mid) + Len(after)) /\ ~(x <= Len(mid))
        BY <3>1
      <4> HIDE DEF x
      <4>2. longer[x] = after[x - Len(mid)]
        BY <4>1, <1>7
      <4>3. x - Len(mid) = i + 1 - Len(mid)
        BY <1>6, <1>1 DEF x
      <4> QED BY <4>2, <4>3 DEF x
    <3>3. after[i + 1 - Len(mid)] = ps[index + (i + 1 - Len(mid)) - 1]
      BY <3>1, <1>3
    <3> QED BY <2>1, <3>1, <3>2, <3>3 DEF After
  <2>2. CASE ~(i >= index)
    <3>1. i \in 1..(Len(mid) + Len(after)) /\ i <= Len(mid) /\ i \in 1..(index - 1)
      BY <2>2, <1>1, <1>3, <1>6
    <3>2. longer[i] = mid[i] /\ mid[i] = ps[i]
      BY <3>1, <1>6, <1>7
    <3> QED BY <2>2, <3>2 DEF After
  <2> QED BY <2>1, <2>2
<1> QED BY <1>8, <1>9 DEF longer, mid, before, after

(* removeAt: those after it moved back by one.                             *)
LEMMA RemovedPoints ==
  ASSUME NEW ps \in Seq(VertexNames), NEW index \in 1..Len(ps)
  PROVE  LET rest == SubSeq(ps, 1, index - 1) \o SubSeq(ps, index + 1, Len(ps))
         IN /\ rest \in Seq(VertexNames) /\ Len(rest) = Len(ps) - 1
            /\ \A i \in 1..(Len(ps) - 1) : rest[i] = ps[After(index, i)]
<1> DEFINE before == SubSeq(ps, 1, index - 1)
           after == SubSeq(ps, index + 1, Len(ps))
           rest == before \o after
<1>1. /\ index \in Int /\ Len(ps) \in Nat /\ index >= 1 /\ index <= Len(ps)
      /\ index \in 1..(Len(ps) + 1) /\ index + 1 \in 1..(Len(ps) + 1)
  OBVIOUS
<1>2. /\ before \in Seq(VertexNames) /\ Len(before) = index - 1
      /\ \A i \in 1..(index - 1) : before[i] = ps[i]
  BY <1>1, PointsBefore
<1>3. /\ after \in Seq(VertexNames) /\ Len(after) = Len(ps) - (index + 1) + 1
      /\ \A i \in 1..(Len(ps) - (index + 1) + 1) : after[i] = ps[(index + 1) + i - 1]
  BY <1>1, PointsFrom
<1> HIDE DEF before, after
<1>4. /\ rest \in Seq(VertexNames) /\ Len(rest) = Len(before) + Len(after)
      /\ \A i \in 1..(Len(before) + Len(after)) :
           rest[i] = IF i <= Len(before) THEN before[i] ELSE after[i - Len(before)]
  BY <1>2, <1>3, ConcatProperties
<1> HIDE DEF rest
<1>5. Len(rest) = Len(ps) - 1
  BY <1>1, <1>2, <1>3, <1>4
<1>6. ASSUME NEW i \in 1..(Len(ps) - 1) PROVE rest[i] = ps[After(index, i)]
  <2>0. i \in 1..(Len(before) + Len(after)) /\ i \in Int
    BY <1>1, <1>2, <1>3
  <2>1. CASE i >= index
    <3>1. /\ ~(i <= Len(before)) /\ i - Len(before) \in 1..(Len(ps) - (index + 1) + 1)
          /\ (index + 1) + (i - Len(before)) - 1 = i + 1
      BY <2>0, <2>1, <1>1, <1>2, <1>3
    <3>2. rest[i] = after[i - Len(before)]
      BY <2>0, <3>1, <1>4
    <3>3. after[i - Len(before)] = ps[(index + 1) + (i - Len(before)) - 1]
      BY <3>1, <1>3
    <3> QED BY <2>1, <3>1, <3>2, <3>3 DEF After
  <2>2. CASE ~(i >= index)
    <3>1. i <= Len(before) /\ i \in 1..(index - 1)
      BY <2>0, <2>2, <1>1, <1>2
    <3>2. rest[i] = before[i] /\ before[i] = ps[i]
      BY <2>0, <3>1, <1>2, <1>4
    <3> QED BY <2>2, <3>2 DEF After
  <2> QED BY <2>1, <2>2
<1> QED BY <1>4, <1>5, <1>6 DEF rest, before, after

Lap == [id : Nat, startIndex : Nat, endIndex : Nat]

(* All the laps that span vertices of a draft, and no others.              *)
LapsKept(kept, laps, count) ==
  /\ \A k \in 1..Len(kept) : \E x \in 1..Len(laps) : kept[k] = laps[x]
  /\ \A x \in 1..Len(laps) :
       /\ laps[x].startIndex >= 1 /\ laps[x].endIndex <= count
       /\ laps[x].endIndex >= laps[x].startIndex
       => \E k \in 1..Len(kept) : kept[k] = laps[x]

(* shiftLaps: the laps it leaves span vertices the draft has.              *)
LEMMA SpanningLaps ==
  ASSUME NEW laps \in Seq(Lap), NEW points, NEW count, Len(points) = count
  PROVE  /\ Spanning(laps, count) \in Seq(Lap) /\ LapRanges(points, Spanning(laps, count))
         /\ LapsKept(Spanning(laps, count), laps, count)
<1> DEFINE places == {i \in DOMAIN laps : /\ laps[i].startIndex >= 1
                                          /\ laps[i].endIndex >= laps[i].startIndex
                                          /\ laps[i].endIndex <= count}
           kept == Picked(laps, places)
<1>1. places \in SUBSET (1..Len(laps))
  OBVIOUS
<1>2. \A x \in places : /\ laps[x].startIndex >= 1 /\ laps[x].endIndex <= count
                        /\ laps[x].startIndex <= laps[x].endIndex
  <2>1. \A x \in places : laps[x] \in Lap
    OBVIOUS
  <2>2. \A x \in places : laps[x].startIndex \in Int /\ laps[x].endIndex \in Int
    BY <2>1 DEF Lap
  <2> QED BY <2>2
<1>3. Spanning(laps, count) = kept
  BY DEF Spanning
<1> HIDE DEF places
<1>4. PICK p : /\ kept \in Seq(Lap) /\ Len(kept) = Cardinality(places) /\ Order(p, places)
               /\ \A k \in 1..Cardinality(places) : p[k] \in places /\ kept[k] = laps[p[k]]
  <2>1. \E p : PickedBy(p, Lap, laps, places)
    BY <1>1, PickedOf
  <2>2. QED
    BY <2>1 DEF PickedBy
<1> HIDE DEF kept
<1>5. kept \in Seq(Lap) /\ LapRanges(points, kept)
  BY <1>2, <1>4 DEF LapRanges
<1>6. \A k \in 1..Len(kept) : \E x \in 1..Len(laps) : kept[k] = laps[x]
  BY <1>1, <1>4
<1>7. \A x \in places : \E k \in 1..Len(kept) : kept[k] = laps[x]
  BY <1>4 DEF Order
<1>8. \A x \in 1..Len(laps) :
         /\ laps[x].startIndex >= 1 /\ laps[x].endIndex <= count
         /\ laps[x].endIndex >= laps[x].startIndex
         => x \in places
  BY DEF places
<1> QED BY <1>3, <1>5, <1>6, <1>7, <1>8 DEF LapsKept

(* Sorted breaks, each with vertices on both sides.                        *)
Breaks(breaks, count) ==
  /\ breaks \in Seq(2..count) /\ Len(breaks) \in Nat
  /\ \A i \in 1..Len(breaks) : breaks[i] \in Int /\ 2 <= breaks[i] /\ breaks[i] <= count
  /\ \A i, j \in 1..Len(breaks) : i < j => breaks[i] <= breaks[j]

LEMMA BreaksOf ==
  ASSUME NEW breaks, NEW count \in Nat, NEW m \in Nat,
         DOMAIN breaks = 1..m, breaks = [i \in 1..m |-> breaks[i]],
         \A i \in 1..m : breaks[i] \in Int /\ 2 <= breaks[i] /\ breaks[i] <= count,
         \A i, j \in 1..m : i < j => breaks[i] <= breaks[j]
  PROVE  Breaks(breaks, count) /\ Len(breaks) = m
<1>1. \A i \in 1..m : breaks[i] \in 2..count
  OBVIOUS
<1>2. breaks \in Seq(2..count) /\ Len(breaks) = m
  BY <1>1
<1> QED BY <1>2 DEF Breaks

(* The breaks that are kept, as they were.                                 *)
LEMMA KeptBreaks ==
  ASSUME NEW breaks \in Seq(Int), NEW count \in Nat, NEW places \in SUBSET (1..Len(breaks)),
         \A x \in places : 2 <= breaks[x] /\ breaks[x] <= count,
         \A i, j \in 1..Len(breaks) : i < j => breaks[i] <= breaks[j]
  PROVE  /\ Breaks(Picked(breaks, places), count)
         /\ \A k \in 1..Len(Picked(breaks, places)) :
              \E x \in places : Picked(breaks, places)[k] = breaks[x]
         /\ \A x \in places : \E k \in 1..Len(Picked(breaks, places)) :
              Picked(breaks, places)[k] = breaks[x]
<1> DEFINE kept == Picked(breaks, places)
           size == Cardinality(places)
<1>1. PICK p : /\ Order(p, places) /\ size \in Nat
               /\ kept \in Seq(Int) /\ Len(kept) = size
               /\ \A k \in 1..size : p[k] \in places /\ kept[k] = breaks[p[k]]
  <2>1. \E p : PickedBy(p, Int, breaks, places)
    BY PickedOf
  <2>2. QED
    BY <2>1 DEF PickedBy
<1>2. \A x \in places : x \in 1..Len(breaks) /\ x \in Int /\ breaks[x] \in Int
  OBVIOUS
<1> HIDE DEF kept
<1>3. \A k \in 1..size : /\ kept[k] \in Int /\ 2 <= kept[k] /\ kept[k] <= count
                         /\ p[k] \in places /\ kept[k] = breaks[p[k]]
  BY <1>1, <1>2
<1>4. ASSUME NEW i \in 1..size, NEW j \in 1..size, i < j PROVE kept[i] <= kept[j]
  <2>1. p[i] < p[j]
    BY <1>1, <1>4 DEF Order, size
  <2>2. p[i] \in 1..Len(breaks) /\ p[j] \in 1..Len(breaks)
    BY <1>2, <1>3
  <2>3. breaks[p[i]] <= breaks[p[j]]
    BY <2>1, <2>2
  <2> QED BY <2>3, <1>3
<1>5. DOMAIN kept = 1..size /\ kept = [i \in 1..size |-> kept[i]]
  BY <1>1
<1>6. \A x \in places : \E k \in 1..size : kept[k] = breaks[x]
  BY <1>1, <1>3, SMTT(30) DEF Order, size
<1> HIDE DEF size
<1>7. Breaks(kept, count) /\ Len(kept) = size
  BY <1>1, <1>3, <1>4, <1>5, BreaksOf
<1> QED BY <1>3, <1>6, <1>7 DEF kept

(* A draft is made of vertices, of sorted breaks and of laps.              *)
LEMMA DraftRecord ==
  ASSUME NEW ps \in Seq(VertexNames), NEW breaks, NEW laps \in Seq(Lap),
         \A i, j \in 1..Len(ps) : ps[i] = ps[j] => i = j,
         Breaks(breaks, Len(ps)), LapRanges(ps, laps)
  PROVE  IsDraft([points |-> ps, breaks |-> breaks, laps |-> laps])
<1> DEFINE draft == [points |-> ps, breaks |-> breaks, laps |-> laps]
<1>1. /\ draft.points = ps /\ draft.breaks = breaks /\ draft.laps = laps
      /\ draft = [points |-> draft.points, breaks |-> draft.breaks, laps |-> draft.laps]
  OBVIOUS
<1> HIDE DEF draft
<1>2. DOMAIN ps = 1..Len(ps) /\ breaks \in Seq(2..Len(ps)) /\ DOMAIN breaks = 1..Len(breaks)
  BY DEF Breaks
<1>3. /\ \A i, j \in DOMAIN ps : ps[i] = ps[j] => i = j
      /\ \A i, j \in DOMAIN breaks : i < j => breaks[i] <= breaks[j]
  BY <1>2 DEF Breaks
<1>4. IsDraft(draft)
  BY <1>1, <1>2, <1>3 DEF IsDraft, Lap
<1> QED BY <1>4 DEF draft

LEMMA DraftParts ==
  ASSUME NEW draft, IsDraft(draft)
  PROVE  /\ draft.points \in Seq(VertexNames) /\ Len(draft.points) \in Nat
         /\ DOMAIN draft.points = 1..Len(draft.points)
         /\ \A i, j \in 1..Len(draft.points) : draft.points[i] = draft.points[j] => i = j
         /\ Breaks(draft.breaks, Len(draft.points)) /\ DOMAIN draft.breaks = 1..Len(draft.breaks)
         /\ draft.laps \in Seq(Lap) /\ LapRanges(draft.points, draft.laps)
         /\ draft = [points |-> draft.points, breaks |-> draft.breaks, laps |-> draft.laps]
<1>1. /\ draft.points \in Seq(VertexNames) /\ Len(draft.points) \in Nat
      /\ DOMAIN draft.points = 1..Len(draft.points)
      /\ draft.laps \in Seq(Lap) /\ LapRanges(draft.points, draft.laps)
  BY DEF IsDraft, Lap
<1>2. Breaks(draft.breaks, Len(draft.points)) /\ DOMAIN draft.breaks = 1..Len(draft.breaks)
  BY DEF IsDraft, Breaks
<1>3. \A i, j \in 1..Len(draft.points) : draft.points[i] = draft.points[j] => i = j
  BY <1>1 DEF IsDraft
<1> QED BY <1>1, <1>2, <1>3 DEF IsDraft

(* What an edit that adds or removes one vertex has to do with the draft   *)
(* before it: one of the two, the larger, has a vertex at a place the      *)
(* other has not, and the rest is the same, with its breaks and laps.      *)
Apart(draft, i, j) ==
  \E k \in 1..Len(draft.breaks) :
     (i < draft.breaks[k] /\ draft.breaks[k] <= j) \/ (j < draft.breaks[k] /\ draft.breaks[k] <= i)

InLap(draft, id, i) ==
  \E k \in 1..Len(draft.laps) : draft.laps[k].id = id /\ Within(i, draft.laps[k])

Embeds(small, large, spot) ==
  /\ spot \in 1..Len(large.points) /\ Len(large.points) = Len(small.points) + 1
  /\ \A i \in 1..Len(small.points) : large.points[After(spot, i)] = small.points[i]
  /\ \A i, j \in 1..Len(small.points) :
       Apart(small, i, j) <=> Apart(large, After(spot, i), After(spot, j))
  /\ \A id : \A i \in 1..Len(small.points) : InLap(small, id, i) <=> InLap(large, id, After(spot, i))

(* insertAt.                                                               *)
LEMMA InsertedIsDraft ==
  ASSUME IsDraft(current), NEW index \in 1..(Len(current.points) + 1), NEW vertex \in NewVertices
  PROVE  IsDraft(Inserted(index, vertex)) /\ Embeds(current, Inserted(index, vertex), index)
<1> DEFINE ps == current.points
           n == Len(ps)
           longer == SubSeq(ps, 1, index - 1) \o <<vertex>> \o SubSeq(ps, index, Len(ps))
           bs == current.breaks
           breaks == [k \in DOMAIN bs |-> IF bs[k] >= index THEN bs[k] + 1 ELSE bs[k]]
           lap(k) == [current.laps[k] EXCEPT !.startIndex = IF @ >= index THEN @ + 1 ELSE @,
                                             !.endIndex = IF @ >= index THEN @ + 1 ELSE @]
           laps == [k \in DOMAIN current.laps |-> lap(k)]
           next == Inserted(index, vertex)
<1>1. next = [points |-> longer, breaks |-> breaks, laps |-> Spanning(laps, Len(longer))]
  BY DEF Inserted, Shifted
<1>2. /\ ps \in Seq(VertexNames) /\ n \in Nat /\ DOMAIN ps = 1..n
      /\ \A i, j \in 1..n : ps[i] = ps[j] => i = j
      /\ Breaks(bs, n) /\ DOMAIN bs = 1..Len(bs)
      /\ current.laps \in Seq(Lap) /\ LapRanges(ps, current.laps)
  BY DraftParts
<1>3. vertex \in VertexNames /\ \A i \in 1..n : ps[i] # vertex
  BY <1>2 DEF NewVertices, Vertices
<1>4. /\ longer \in Seq(VertexNames) /\ Len(longer) = n + 1 /\ longer[index] = vertex
      /\ \A i \in 1..n : longer[After(index, i)] = ps[i]
  <2>1. ps \in Seq(VertexNames) /\ index \in 1..(Len(ps) + 1) /\ vertex \in VertexNames
    BY <1>2, <1>3
  <2> HIDE DEF ps
  <2>2. /\ longer \in Seq(VertexNames) /\ Len(longer) = Len(ps) + 1 /\ longer[index] = vertex
        /\ \A i \in 1..Len(ps) : longer[After(index, i)] = ps[i]
    BY <2>1, InsertedPoints, ZenonT(30)
  <2> HIDE DEF longer
  <2> QED BY <2>2
<1>5. index \in Int /\ 1 <= index /\ index <= n + 1
  BY <1>2
<1> HIDE DEF longer, ps, n
<1>6. ASSUME NEW i \in 1..(n + 1), NEW j \in 1..(n + 1), longer[i] = longer[j] PROVE i = j
  <2> DEFINE from(k) == IF k > index THEN k - 1 ELSE k
  <2>1. \A k \in 1..(n + 1) : k # index => from(k) \in 1..n /\ After(index, from(k)) = k
    BY <1>2, <1>5 DEF After
  <2>2. \A k \in 1..(n + 1) : k # index => longer[k] = ps[from(k)] /\ longer[k] # vertex
    <3> HIDE DEF from
    <3> QED BY <2>1, <1>3, <1>4
  <2>3. CASE i # index /\ j # index
    <3>1. from(i) = from(j)
      <4> HIDE DEF from
      <4> QED BY <2>1, <2>2, <2>3, <1>2, <1>6
    <3> QED BY <2>3, <3>1, <1>2, <1>5
  <2>4. CASE i = index \/ j = index
    <3> HIDE DEF from
    <3> QED BY <2>2, <2>4, <1>4, <1>6
  <2> QED BY <2>3, <2>4
<1>7. /\ Breaks(breaks, n + 1) /\ Len(breaks) = Len(bs)
      /\ \A k \in 1..Len(bs) : bs[k] \in Int /\ breaks[k] = After(index, bs[k])
  <2> DEFINE m == Len(bs)
  <2>1. /\ m \in Nat /\ \A k \in 1..m : bs[k] \in Int /\ 2 <= bs[k] /\ bs[k] <= n
        /\ \A i, j \in 1..m : i < j => bs[i] <= bs[j]
    BY <1>2 DEF Breaks
  <2>2. DOMAIN breaks = 1..m /\ breaks = [k \in 1..m |-> breaks[k]]
    BY <1>2
  <2> HIDE DEF m
  <2>3. \A k \in 1..m : breaks[k] = After(index, bs[k])
    BY <2>2, <1>2 DEF After, m
  <2> HIDE DEF breaks
  <2>4. \A k \in 1..m : breaks[k] \in Int /\ 2 <= breaks[k] /\ breaks[k] <= n + 1
    <3> TAKE k \in 1..m
    <3>1. /\ bs[k] \in Int /\ 2 <= bs[k] /\ bs[k] <= n
          /\ breaks[k] = IF bs[k] >= index THEN bs[k] + 1 ELSE bs[k]
      BY <2>1, <2>3 DEF After
    <3> HIDE DEF bs
    <3> QED BY <3>1, <1>2, <1>5
  <2>5. ASSUME NEW i \in 1..m, NEW j \in 1..m, i < j PROVE breaks[i] <= breaks[j]
    <3>1. bs[i] \in Int /\ bs[j] \in Int /\ bs[i] <= bs[j]
      BY <2>1, <2>5
    <3>2. breaks[i] = After(index, bs[i]) /\ breaks[j] = After(index, bs[j])
      BY <2>3
    <3> QED BY <3>1, <3>2, <1>5 DEF After
  <2>6. Breaks(breaks, n + 1) /\ Len(breaks) = m
    <3>1. n + 1 \in Nat /\ m \in Nat
      BY <1>2, <2>1
    <3>2. \A i, j \in 1..m : i < j => breaks[i] <= breaks[j]
      BY <2>5
    <3> QED BY <3>1, <3>2, <2>2, <2>4, BreaksOf
  <2> QED BY <2>1, <2>3, <2>6 DEF m
<1>8. /\ laps \in Seq(Lap) /\ Len(laps) = Len(current.laps) /\ Len(laps) \in Nat
      /\ \A k \in 1..Len(laps) : /\ current.laps[k] \in Lap /\ laps[k].id = current.laps[k].id
                                 /\ laps[k].startIndex = After(index, current.laps[k].startIndex)
                                 /\ laps[k].endIndex = After(index, current.laps[k].endIndex)
  <2> DEFINE m == Len(current.laps)
  <2>1. m \in Nat /\ DOMAIN current.laps = 1..m /\ \A k \in 1..m : current.laps[k] \in Lap
    BY <1>2
  <2>2. \A k \in 1..m : /\ lap(k) \in Lap /\ lap(k).id = current.laps[k].id
                        /\ lap(k).startIndex = After(index, current.laps[k].startIndex)
                        /\ lap(k).endIndex = After(index, current.laps[k].endIndex)
    <3> TAKE k \in 1..m
    <3> DEFINE old == current.laps[k]
               start == IF old.startIndex >= index THEN old.startIndex + 1 ELSE old.startIndex
               end == IF old.endIndex >= index THEN old.endIndex + 1 ELSE old.endIndex
    <3>1. old \in Lap
      BY <2>1
    <3>2. lap(k) = [old EXCEPT !.startIndex = start, !.endIndex = end]
      OBVIOUS
    <3> HIDE DEF old
    <3>3. start \in Nat /\ end \in Nat
      BY <3>1, <1>5 DEF Lap
    <3>4. start = After(index, old.startIndex) /\ end = After(index, old.endIndex)
      BY DEF After
    <3> HIDE DEF start, end
    <3>5. /\ [old EXCEPT !.startIndex = start, !.endIndex = end] \in Lap
          /\ [old EXCEPT !.startIndex = start, !.endIndex = end].id = old.id
          /\ [old EXCEPT !.startIndex = start, !.endIndex = end].startIndex = start
          /\ [old EXCEPT !.startIndex = start, !.endIndex = end].endIndex = end
      BY <3>1, <3>3 DEF Lap
    <3> HIDE DEF lap
    <3> QED BY <3>2, <3>4, <3>5 DEF old
  <2> HIDE DEF lap
  <2>3. laps = [k \in 1..m |-> lap(k)] /\ DOMAIN laps = 1..m /\ \A k \in 1..m : laps[k] = lap(k)
    BY <2>1
  <2> HIDE DEF m
  <2>4. laps \in Seq(Lap) /\ Len(laps) = m
    BY <2>1, <2>2, <2>3
  <2> HIDE DEF laps
  <2>5. ASSUME NEW k \in 1..m
        PROVE  /\ current.laps[k] \in Lap /\ laps[k].id = current.laps[k].id
               /\ laps[k].startIndex = After(index, current.laps[k].startIndex)
               /\ laps[k].endIndex = After(index, current.laps[k].endIndex)
    <3>1. laps[k] = lap(k)
      BY <2>3
    <3> QED BY <2>1, <2>2, <3>1
  <2> QED BY <2>1, <2>4, <2>5 DEF m
<1>9. next = [points |-> longer, breaks |-> breaks, laps |-> Spanning(laps, n + 1)]
  <2> HIDE DEF breaks, laps
  <2> QED BY <1>1, <1>4
<1> HIDE DEF breaks, laps, next, lap, bs
<1>10. /\ Spanning(laps, n + 1) \in Seq(Lap) /\ LapRanges(longer, Spanning(laps, n + 1))
       /\ LapsKept(Spanning(laps, n + 1), laps, n + 1)
  <2>1. laps \in Seq(Lap) /\ Len(longer) = n + 1
    BY <1>4, <1>8
  <2> QED BY <2>1, SpanningLaps
<1>11. /\ next.points = longer /\ next.breaks = breaks /\ next.laps = Spanning(laps, n + 1)
       /\ IsDraft(next)
  <2>1. next.points = longer /\ next.breaks = breaks /\ next.laps = Spanning(laps, n + 1)
    BY <1>9
  <2>2. IsDraft([points |-> longer, breaks |-> breaks, laps |-> Spanning(laps, n + 1)])
    BY <1>4, <1>6, <1>7, <1>10, DraftRecord
  <2> QED BY <1>9, <2>1, <2>2
<1>12. ASSUME NEW i \in 1..n, NEW j \in 1..n
       PROVE  Apart(current, i, j) <=> Apart(next, After(index, i), After(index, j))
  <2>1. \A k \in 1..Len(bs) :
          /\ bs[k] \in Int
          /\ i < bs[k] <=> After(index, i) < breaks[k]
          /\ bs[k] <= j <=> breaks[k] <= After(index, j)
          /\ j < bs[k] <=> After(index, j) < breaks[k]
          /\ bs[k] <= i <=> breaks[k] <= After(index, i)
    <3> TAKE k \in 1..Len(bs)
    <3>1. bs[k] \in Int /\ breaks[k] = After(index, bs[k]) /\ i \in Int /\ j \in Int
      BY <1>2, <1>7
    <3> QED BY <3>1, <1>5 DEF After
  <2> QED BY <2>1, <1>7, <1>11 DEF Apart, bs
<1>13. ASSUME NEW id, NEW i \in 1..n PROVE InLap(current, id, i) <=> InLap(next, id, After(index, i))
  <2>1. ASSUME NEW k \in 1..Len(laps)
        PROVE  /\ laps[k].id = current.laps[k].id
               /\ Within(i, current.laps[k]) <=> Within(After(index, i), laps[k])
               /\ laps[k].startIndex >= 1 /\ laps[k].endIndex <= n + 1
               /\ laps[k].endIndex >= laps[k].startIndex
    <3>1. /\ current.laps[k].startIndex \in Int /\ current.laps[k].endIndex \in Int /\ i \in Int
          /\ laps[k].id = current.laps[k].id
          /\ laps[k].startIndex = After(index, current.laps[k].startIndex)
          /\ laps[k].endIndex = After(index, current.laps[k].endIndex)
      <4>1. current.laps[k] \in Lap /\ i \in Int
        BY <1>2, <1>8
      <4>2. current.laps[k].startIndex \in Int /\ current.laps[k].endIndex \in Int
        BY <4>1 DEF Lap
      <4> QED BY <4>1, <4>2, <1>8
    <3>2. /\ current.laps[k].startIndex >= 1 /\ current.laps[k].endIndex <= n
          /\ current.laps[k].startIndex <= current.laps[k].endIndex
      BY <1>2, <1>8 DEF LapRanges, ps, n
    <3> DEFINE s == current.laps[k].startIndex
               e == current.laps[k].endIndex
    <3>3. /\ s \in Int /\ e \in Int /\ i \in Int /\ n \in Int /\ index \in Int
          /\ s >= 1 /\ e <= n /\ s <= e
      BY <3>1, <3>2, <1>2, <1>5
    <3> HIDE DEF s, e
    <3>4. /\ s <= i /\ i <= e <=> After(index, s) <= After(index, i) /\ After(index, i) <= After(index, e)
          /\ After(index, s) >= 1 /\ After(index, e) <= n + 1 /\ After(index, e) >= After(index, s)
      BY <3>3 DEF After
    <3> QED BY <3>1, <3>4 DEF Within, s, e
  <2>2. ASSUME InLap(current, id, i) PROVE InLap(next, id, After(index, i))
    <3>1. PICK k \in 1..Len(laps) : current.laps[k].id = id /\ Within(i, current.laps[k])
      BY <2>2, <1>8 DEF InLap
    <3>2. PICK l \in 1..Len(next.laps) : next.laps[l] = laps[k]
      BY <2>1, <1>10, <1>11 DEF LapsKept
    <3> QED BY <2>1, <3>1, <3>2 DEF InLap
  <2>3. ASSUME InLap(next, id, After(index, i)) PROVE InLap(current, id, i)
    <3>1. PICK l \in 1..Len(next.laps) : next.laps[l].id = id /\ Within(After(index, i), next.laps[l])
      BY <2>3 DEF InLap
    <3>2. PICK k \in 1..Len(laps) : next.laps[l] = laps[k]
      BY <1>10, <1>11 DEF LapsKept
    <3> QED BY <2>1, <3>1, <3>2, <1>8 DEF InLap
  <2> QED BY <2>2, <2>3
<1>14. Embeds(current, next, index)
  <2>1. index \in 1..Len(next.points) /\ Len(next.points) = Len(current.points) + 1
    BY <1>2, <1>4, <1>5, <1>11 DEF n, ps
  <2> QED BY <2>1, <1>4, <1>11, <1>12, <1>13 DEF Embeds, n, ps
<1> QED BY <1>11, <1>14 DEF next

(* append.                                                                 *)
LEMMA AppendedIsDraft ==
  ASSUME IsDraft(current), NEW vertex \in NewVertices
  PROVE  LET next == [current EXCEPT !.points = Append(@, vertex)]
         IN IsDraft(next) /\ Embeds(current, next, Len(current.points) + 1)
<1> DEFINE ps == current.points
           n == Len(ps)
           longer == Append(ps, vertex)
           bs == current.breaks
           next == [current EXCEPT !.points = Append(@, vertex)]
<1>1. /\ ps \in Seq(VertexNames) /\ n \in Nat /\ DOMAIN ps = 1..n
      /\ \A i, j \in 1..n : ps[i] = ps[j] => i = j
      /\ Breaks(bs, n) /\ DOMAIN bs = 1..Len(bs)
      /\ current.laps \in Seq(Lap) /\ LapRanges(ps, current.laps)
      /\ current = [points |-> ps, breaks |-> bs, laps |-> current.laps]
  BY DraftParts
<1>2. vertex \in VertexNames /\ \A i \in 1..n : ps[i] # vertex
  BY <1>1 DEF NewVertices, Vertices
<1>3. /\ longer \in Seq(VertexNames) /\ Len(longer) = n + 1 /\ longer[n + 1] = vertex
      /\ \A i \in 1..n : longer[i] = ps[i]
  <2> HIDE DEF ps
  <2> QED BY <1>1, <1>2
<1>4. next = [points |-> longer, breaks |-> bs, laps |-> current.laps]
  <2> DEFINE laps == current.laps
             record == [points |-> ps, breaks |-> bs, laps |-> laps]
  <2>1. next = [current EXCEPT !.points = longer] /\ current = record
    BY <1>1
  <2>2. next = [record EXCEPT !.points = longer]
    BY <2>1
  <2> HIDE DEF longer, ps, bs, laps, next
  <2> QED BY <2>2 DEF laps
<1> HIDE DEF longer, bs, next
<1>5. Breaks(bs, n + 1)
  <2>1. /\ bs \in Seq(2..n) /\ Len(bs) \in Nat
        /\ \A i \in 1..Len(bs) : bs[i] \in Int /\ 2 <= bs[i] /\ bs[i] <= n
        /\ \A i, j \in 1..Len(bs) : i < j => bs[i] <= bs[j]
    BY <1>1 DEF Breaks
  <2> HIDE DEF n
  <2>2. bs = [k \in 1..Len(bs) |-> bs[k]]
    BY <2>1
  <2>3. \A i \in 1..Len(bs) : bs[i] <= n + 1
    BY <2>1, <1>1
  <2>4. n + 1 \in Nat
    BY <1>1
  <2> QED BY <1>1, <2>1, <2>2, <2>3, <2>4, BreaksOf
<1>6. \A i, j \in 1..(n + 1) : longer[i] = longer[j] => i = j
  <2> TAKE i, j \in 1..(n + 1)
  <2>1. i \in 1..n \/ i = n + 1
    BY <1>1
  <2>2. j \in 1..n \/ j = n + 1
    BY <1>1
  <2> QED BY <2>1, <2>2, <1>1, <1>2, <1>3
<1>7. LapRanges(longer, current.laps)
  <2>1. \A i \in 1..Len(current.laps) : current.laps[i].endIndex \in Int
    <3>1. \A i \in 1..Len(current.laps) : current.laps[i] \in Lap
      BY <1>1
    <3> QED BY <3>1 DEF Lap
  <2> QED BY <2>1, <1>1, <1>3 DEF LapRanges, n
<1>8. IsDraft(next) /\ next.points = longer /\ next.breaks = bs /\ next.laps = current.laps
  <2>1. IsDraft([points |-> longer, breaks |-> bs, laps |-> current.laps])
    BY <1>1, <1>3, <1>5, <1>6, <1>7, DraftRecord
  <2> QED BY <1>4, <2>1
<1>9. \A i \in 1..n : After(n + 1, i) = i
  BY <1>1 DEF After
<1>10. Embeds(current, next, n + 1)
  <2>1. n + 1 \in 1..Len(next.points) /\ Len(next.points) = Len(current.points) + 1
    BY <1>1, <1>3, <1>8 DEF n, ps
  <2>2. \A i, j \in 1..n : Apart(current, i, j) <=> Apart(next, After(n + 1, i), After(n + 1, j))
    BY <1>8, <1>9 DEF Apart, bs
  <2>3. \A id : \A i \in 1..n : InLap(current, id, i) <=> InLap(next, id, After(n + 1, i))
    BY <1>8, <1>9 DEF InLap
  <2> QED BY <2>1, <2>2, <2>3, <1>3, <1>8, <1>9 DEF Embeds, n, ps
<1> QED BY <1>8, <1>10 DEF next, n, ps

(* breakAt.                                                                *)
LEMMA BrokenIsDraft ==
  ASSUME IsDraft(current), NEW index \in 2..Len(current.points)
  PROVE  IsDraft([current EXCEPT !.breaks = Broken(index)])
<1> DEFINE bs == current.breaks
           n == Len(current.points)
           below == {i \in DOMAIN bs : bs[i] < index}
           above == {i \in DOMAIN bs : bs[i] > index}
           low == Picked(bs, below)
           high == Picked(bs, above)
           mid == low \o <<index>>
           breaks == mid \o high
<1>1. /\ Breaks(bs, n) /\ DOMAIN bs = 1..Len(bs) /\ n \in Nat
      /\ current.points \in Seq(VertexNames)
      /\ \A i, j \in 1..n : current.points[i] = current.points[j] => i = j
      /\ current.laps \in Seq(Lap) /\ LapRanges(current.points, current.laps)
      /\ current = [points |-> current.points, breaks |-> bs, laps |-> current.laps]
  BY DraftParts
<1>2. index \in Int /\ 2 <= index /\ index <= n
  BY <1>1
<1> HIDE DEF n
<1>3. /\ bs \in Seq(Int) /\ below \in SUBSET (1..Len(bs)) /\ above \in SUBSET (1..Len(bs))
      /\ \A x \in 1..Len(bs) : bs[x] \in Int /\ 2 <= bs[x] /\ bs[x] <= n
      /\ \A i, j \in 1..Len(bs) : i < j => bs[i] <= bs[j]
      /\ \A x \in below : 2 <= bs[x] /\ bs[x] <= n /\ bs[x] < index
      /\ \A x \in above : 2 <= bs[x] /\ bs[x] <= n /\ index < bs[x]
  <2>1. /\ bs \in Seq(2..n)
        /\ \A x \in 1..Len(bs) : bs[x] \in Int /\ 2 <= bs[x] /\ bs[x] <= n
        /\ \A i, j \in 1..Len(bs) : i < j => bs[i] <= bs[j]
    BY <1>1 DEF Breaks
  <2>2. bs \in Seq(Int)
    BY <2>1, <1>1
  <2> QED BY <2>1, <2>2, <1>1, <1>2
<1>4. /\ Broken(index) = breaks
      /\ [current EXCEPT !.breaks = Broken(index)] =
           [points |-> current.points, breaks |-> breaks, laps |-> current.laps]
  <2>1. Broken(index) = breaks
    BY DEF Broken
  <2> DEFINE ps == current.points
             laps == current.laps
  <2>2. current = [points |-> ps, breaks |-> bs, laps |-> laps]
    BY <1>1
  <2> HIDE DEF breaks, ps, laps, bs
  <2>3. [current EXCEPT !.breaks = Broken(index)] = [points |-> ps, breaks |-> breaks, laps |-> laps]
    BY <2>1, <2>2
  <2> QED BY <2>1, <2>3 DEF ps, laps
<1> HIDE DEF below, above, bs
<1>5. /\ Breaks(low, n) /\ \A k \in 1..Len(low) : \E x \in below : low[k] = bs[x]
      /\ Breaks(high, n) /\ \A k \in 1..Len(high) : \E x \in above : high[k] = bs[x]
  <2>1. Breaks(low, n) /\ \A k \in 1..Len(low) : \E x \in below : low[k] = bs[x]
    BY <1>1, <1>3, KeptBreaks, ZenonT(30)
  <2>2. Breaks(high, n) /\ \A k \in 1..Len(high) : \E x \in above : high[k] = bs[x]
    BY <1>1, <1>3, KeptBreaks, ZenonT(30)
  <2> QED BY <2>1, <2>2
<1> HIDE DEF low, high
<1>6. /\ low \in Seq(2..n) /\ Len(low) \in Nat /\ high \in Seq(2..n) /\ Len(high) \in Nat
      /\ <<index>> \in Seq(2..n) /\ Len(<<index>>) = 1 /\ <<index>>[1] = index
      /\ \A k \in 1..Len(low) : low[k] \in Int /\ 2 <= low[k] /\ low[k] < index
      /\ \A k \in 1..Len(high) : high[k] \in Int /\ index < high[k] /\ high[k] <= n
      /\ \A i, j \in 1..Len(low) : i < j => low[i] <= low[j]
      /\ \A i, j \in 1..Len(high) : i < j => high[i] <= high[j]
  <2>1. <<index>> \in Seq(2..n) /\ Len(<<index>>) = 1 /\ <<index>>[1] = index
    BY <1>1, <1>2
  <2>2. /\ low \in Seq(2..n) /\ Len(low) \in Nat /\ high \in Seq(2..n) /\ Len(high) \in Nat
        /\ \A i, j \in 1..Len(low) : i < j => low[i] <= low[j]
        /\ \A i, j \in 1..Len(high) : i < j => high[i] <= high[j]
        /\ \A k \in 1..Len(low) : low[k] \in Int /\ 2 <= low[k]
        /\ \A k \in 1..Len(high) : high[k] \in Int /\ high[k] <= n
    BY <1>5 DEF Breaks
  <2>3. \A k \in 1..Len(low) : low[k] < index
    BY <1>3, <1>5
  <2>4. \A k \in 1..Len(high) : index < high[k]
    BY <1>3, <1>5
  <2> QED BY <2>1, <2>2, <2>3, <2>4
<1> DEFINE l == Len(low)
           h == Len(high)
<1>7. /\ mid \in Seq(2..n) /\ Len(mid) = l + 1 /\ mid[l + 1] = index
      /\ \A k \in 1..l : mid[k] = low[k]
  <2>1. /\ mid \in Seq(2..n) /\ Len(mid) = Len(low) + Len(<<index>>)
        /\ \A i \in 1..(Len(low) + Len(<<index>>)) :
             mid[i] = IF i <= Len(low) THEN low[i] ELSE <<index>>[i - Len(low)]
    BY <1>6, ConcatProperties
  <2> HIDE DEF mid
  <2>2. l + 1 \in 1..(Len(low) + Len(<<index>>)) /\ ~(l + 1 <= Len(low)) /\ l + 1 - Len(low) = 1
    BY <1>6
  <2>3. \A k \in 1..l : k \in 1..(Len(low) + Len(<<index>>)) /\ k <= Len(low)
    BY <1>6
  <2> QED BY <2>1, <2>2, <2>3, <1>6
<1> HIDE DEF mid
<1>8. /\ breaks \in Seq(2..n) /\ Len(breaks) = l + 1 + h
      /\ \A k \in 1..(l + 1) : breaks[k] = mid[k]
      /\ \A k \in 1..h : breaks[l + 1 + k] = high[k]
  <2>0. mid \in Seq(2..n) /\ high \in Seq(2..n)
    BY <1>6, <1>7
  <2>1. /\ breaks \in Seq(2..n) /\ Len(breaks) = Len(mid) + Len(high)
        /\ \A i \in 1..(Len(mid) + Len(high)) :
             breaks[i] = IF i <= Len(mid) THEN mid[i] ELSE high[i - Len(mid)]
    BY <2>0, ConcatProperties
  <2> HIDE DEF breaks
  <2>2. Len(breaks) = l + 1 + h /\ Len(mid) = l + 1 /\ l \in Nat /\ h \in Nat /\ Len(high) = h
    BY <2>1, <1>6, <1>7
  <2> HIDE DEF l, h
  <2>3. \A k \in 1..(l + 1) : k \in 1..(Len(mid) + Len(high)) /\ k <= Len(mid)
    BY <2>2
  <2>4. \A k \in 1..h : /\ l + 1 + k \in 1..(Len(mid) + Len(high)) /\ ~(l + 1 + k <= Len(mid))
                        /\ (l + 1 + k) - Len(mid) = k
    BY <2>2
  <2>5. \A k \in 1..(l + 1) : breaks[k] = mid[k]
    BY <2>1, <2>3
  <2>6. \A k \in 1..h : breaks[l + 1 + k] = high[k]
    <3> TAKE k \in 1..h
    <3>1. /\ l + 1 + k \in 1..(Len(mid) + Len(high)) /\ ~(l + 1 + k <= Len(mid))
          /\ (l + 1 + k) - Len(mid) = k
      BY <2>4
    <3> DEFINE x == l + 1 + k
    <3>2. x \in 1..(Len(mid) + Len(high)) /\ ~(x <= Len(mid)) /\ x - Len(mid) = k
      BY <3>1, Zenon
    <3> HIDE DEF x
    <3>3. breaks[x] = high[x - Len(mid)]
      BY <2>1, <3>2
    <3> QED BY <3>2, <3>3 DEF x
  <2> QED BY <2>1, <2>2, <2>5, <2>6
<1> HIDE DEF breaks
<1>9. l \in Nat /\ h \in Nat
  BY <1>6
<1>10. ASSUME NEW k \in 1..(l + 1 + h)
       PROVE  \/ k \in 1..l /\ breaks[k] = low[k]
              \/ k = l + 1 /\ breaks[k] = index
              \/ k - (l + 1) \in 1..h /\ breaks[k] = high[k - (l + 1)]
  <2>1. CASE k <= l
    <3>1. k \in 1..l /\ k \in 1..(l + 1)
      BY <2>1, <1>9
    <3> QED BY <3>1, <1>7, <1>8
  <2>2. CASE k = l + 1
    <3>1. l + 1 \in 1..(l + 1)
      BY <1>9
    <3> QED BY <2>2, <3>1, <1>7, <1>8
  <2>3. CASE k > l + 1
    <3>1. k - (l + 1) \in 1..h /\ l + 1 + (k - (l + 1)) = k
      BY <2>3, <1>9
    <3>2. breaks[l + 1 + (k - (l + 1))] = high[k - (l + 1)]
      BY <3>1, <1>8
    <3> QED BY <3>1, <3>2
  <2> HIDE DEF l, h
  <2> QED BY <2>1, <2>2, <2>3, <1>9
<1>11. \A k \in 1..(l + 1 + h) : breaks[k] \in Int /\ 2 <= breaks[k] /\ breaks[k] <= n
  <2>1. \A k \in 1..(l + 1 + h) : breaks[k] \in 2..n
    <3> QED BY <1>8, ElementOfSeq
  <2> QED BY <2>1, <1>1
<1>12. ASSUME NEW i \in 1..(l + 1 + h), NEW j \in 1..(l + 1 + h), i < j PROVE breaks[i] <= breaks[j]
  <2>1. i \in Int /\ j \in Int
    OBVIOUS
  <2>2. CASE j \in 1..l /\ breaks[j] = low[j]
    <3>1. i \in 1..l /\ ~(i = l + 1) /\ ~(i - (l + 1) \in 1..h)
      BY <2>1, <2>2, <1>9, <1>12
    <3> QED BY <2>2, <3>1, <1>6, <1>10, <1>12
  <2>3. CASE j = l + 1 /\ breaks[j] = index
    <3>1. i \in 1..l /\ ~(i = l + 1) /\ ~(i - (l + 1) \in 1..h)
      BY <2>1, <2>3, <1>9, <1>12
    <3> QED BY <2>3, <3>1, <1>2, <1>6, <1>10, SMTT(30)
  <2>4. CASE j - (l + 1) \in 1..h /\ breaks[j] = high[j - (l + 1)]
    <3>1. high[j - (l + 1)] \in Int /\ index < high[j - (l + 1)]
      BY <2>4, <1>6
    <3>2. CASE i \in 1..l /\ breaks[i] = low[i]
      <4>1. low[i] \in Int /\ low[i] < index
        BY <3>2, <1>6
      <4> QED BY <2>4, <3>1, <3>2, <4>1, <1>2
    <3>3. CASE i = l + 1 /\ breaks[i] = index
      BY <2>4, <3>1, <3>3, <1>2
    <3>4. CASE i - (l + 1) \in 1..h /\ breaks[i] = high[i - (l + 1)]
      <4>1. i - (l + 1) < j - (l + 1)
        BY <2>1, <1>9, <1>12
      <4> QED BY <2>4, <3>4, <4>1, <1>6
    <3> QED BY <3>2, <3>3, <3>4, <1>10
  <2> QED BY <2>2, <2>3, <2>4, <1>10
<1>13. Breaks(breaks, n)
  <2> DEFINE m == l + 1 + h
  <2>1. m \in Nat /\ DOMAIN breaks = 1..m /\ breaks = [k \in 1..m |-> breaks[k]]
    BY <1>8, <1>9
  <2> HIDE DEF m
  <2> QED BY <2>1, <1>1, <1>11, <1>12, BreaksOf DEF m
<1> QED
  BY <1>1, <1>4, <1>13, DraftRecord DEF n

(* removeAt.                                                               *)
LEMMA RemovedIsDraft ==
  ASSUME IsDraft(current), NEW index \in DOMAIN current.points
  PROVE  IsDraft(Removed(index)) /\ Embeds(Removed(index), current, index)
<1> DEFINE ps == current.points
           n == Len(ps)
           count == Len(ps) - 1
           rest == SubSeq(ps, 1, index - 1) \o SubSeq(ps, index + 1, Len(ps))
           bs == current.breaks
           moved == [k \in DOMAIN bs |-> IF bs[k] > index THEN bs[k] - 1 ELSE bs[k]]
           places == {k \in DOMAIN moved : Separates(moved[k], count)}
           breaks == Picked(moved, places)
           lap(k) == [current.laps[k] EXCEPT !.startIndex = IF @ > index THEN @ - 1 ELSE @,
                                             !.endIndex = IF @ >= index THEN @ - 1 ELSE @]
           laps == [k \in DOMAIN current.laps |-> lap(k)]
           next == Removed(index)
<1>1. next = [points |-> SubSeq(ps, 1, index - 1) \o SubSeq(ps, index + 1, count + 1),
              breaks |-> breaks, laps |-> Spanning(laps, count)]
  BY DEF Removed, Shifted, BreakAfterRemoval
<1>2. /\ ps \in Seq(VertexNames) /\ n \in Nat /\ DOMAIN ps = 1..n
      /\ \A i, j \in 1..n : ps[i] = ps[j] => i = j
      /\ Breaks(bs, n) /\ DOMAIN bs = 1..Len(bs)
      /\ current.laps \in Seq(Lap) /\ LapRanges(ps, current.laps)
  BY DraftParts
<1>3. /\ index \in 1..n /\ index \in Int /\ 1 <= index /\ index <= n
      /\ count \in Nat /\ count + 1 = n /\ n = Len(ps)
  BY <1>2
<1>4. /\ rest \in Seq(VertexNames) /\ Len(rest) = count
      /\ \A i \in 1..count : rest[i] = ps[After(index, i)]
  <2>1. ps \in Seq(VertexNames) /\ index \in 1..Len(ps)
    BY <1>2, <1>3
  <2> HIDE DEF ps
  <2> QED BY <2>1, RemovedPoints
<1>5. next = [points |-> rest, breaks |-> breaks, laps |-> Spanning(laps, count)]
  <2>1. count + 1 = Len(ps)
    BY <1>3
  <2> HIDE DEF count, breaks, laps
  <2> QED BY <1>1, <2>1
<1> HIDE DEF rest, next, n, count
<1>6. /\ Len(bs) \in Nat /\ \A k \in 1..Len(bs) : bs[k] \in Int /\ 2 <= bs[k] /\ bs[k] <= n
      /\ \A i, j \in 1..Len(bs) : i < j => bs[i] <= bs[j]
  BY <1>2 DEF Breaks
<1>7. /\ moved \in Seq(Int) /\ Len(moved) = Len(bs)
      /\ \A k \in 1..Len(bs) : /\ moved[k] \in Int /\ 1 <= moved[k] /\ moved[k] <= n
                               /\ moved[k] = IF bs[k] > index THEN bs[k] - 1 ELSE bs[k]
      /\ \A i, j \in 1..Len(bs) : i < j => moved[i] <= moved[j]
  <2> DEFINE m == Len(bs)
  <2>1. DOMAIN moved = 1..m /\ \A k \in 1..m : moved[k] = IF bs[k] > index THEN bs[k] - 1 ELSE bs[k]
    BY <1>2
  <2>2. moved = [k \in 1..m |-> moved[k]] /\ m \in Nat
    BY <1>2, <1>6
  <2> HIDE DEF moved
  <2>3. \A k \in 1..m : moved[k] \in Int /\ 1 <= moved[k] /\ moved[k] <= n
    <3> TAKE k \in 1..m
    <3>1. bs[k] \in Int /\ 2 <= bs[k] /\ bs[k] <= n
      BY <1>6
    <3>2. moved[k] = IF bs[k] > index THEN bs[k] - 1 ELSE bs[k]
      BY <2>1
    <3> QED BY <3>1, <3>2, <1>3
  <2>4. ASSUME NEW i \in 1..m, NEW j \in 1..m, i < j PROVE moved[i] <= moved[j]
    <3>1. bs[i] \in Int /\ bs[j] \in Int /\ bs[i] <= bs[j]
      BY <2>4, <1>6
    <3>2. /\ moved[i] = IF bs[i] > index THEN bs[i] - 1 ELSE bs[i]
          /\ moved[j] = IF bs[j] > index THEN bs[j] - 1 ELSE bs[j]
      BY <2>1
    <3> QED BY <3>1, <3>2, <1>3
  <2> HIDE DEF m
  <2>5. moved \in Seq(Int) /\ Len(moved) = m
    BY <2>2, <2>3
  <2> QED BY <2>1, <2>3, <2>4, <2>5 DEF m
<1>8. /\ places \in SUBSET (1..Len(moved))
      /\ \A x \in 1..Len(bs) : x \in places <=> 1 < moved[x] /\ moved[x] <= count
  BY <1>7 DEF Separates
<1> HIDE DEF moved, places
<1>9. /\ Breaks(breaks, count)
      /\ \A k \in 1..Len(breaks) : \E x \in places : breaks[k] = moved[x]
      /\ \A x \in places : \E k \in 1..Len(breaks) : breaks[k] = moved[x]
  <2>1. \A x \in places : 2 <= moved[x] /\ moved[x] <= count
    <3> TAKE x \in places
    <3>1. x \in 1..Len(bs) /\ moved[x] \in Int
      BY <1>7, <1>8
    <3> QED BY <3>1, <1>8
  <2>2. \A i, j \in 1..Len(moved) : i < j => moved[i] <= moved[j]
    BY <1>7
  <2> QED BY <2>1, <2>2, <1>3, <1>7, <1>8, KeptBreaks
<1> HIDE DEF breaks
<1>10. /\ laps \in Seq(Lap) /\ Len(laps) = Len(current.laps) /\ Len(laps) \in Nat
       /\ \A k \in 1..Len(laps) :
            /\ current.laps[k] \in Lap /\ laps[k].id = current.laps[k].id
            /\ laps[k].startIndex = IF current.laps[k].startIndex > index
                                      THEN current.laps[k].startIndex - 1 ELSE current.laps[k].startIndex
            /\ laps[k].endIndex = IF current.laps[k].endIndex >= index
                                    THEN current.laps[k].endIndex - 1 ELSE current.laps[k].endIndex
  <2> DEFINE m == Len(current.laps)
             start(k) == IF current.laps[k].startIndex > index
                           THEN current.laps[k].startIndex - 1 ELSE current.laps[k].startIndex
             end(k) == IF current.laps[k].endIndex >= index
                         THEN current.laps[k].endIndex - 1 ELSE current.laps[k].endIndex
  <2>1. m \in Nat /\ DOMAIN current.laps = 1..m /\ \A k \in 1..m : current.laps[k] \in Lap
    BY <1>2
  <2>2. ASSUME NEW k \in 1..m
        PROVE  /\ lap(k) \in Lap /\ lap(k).id = current.laps[k].id
               /\ lap(k).startIndex = start(k) /\ lap(k).endIndex = end(k)
    <3> DEFINE old == current.laps[k]
               s == start(k)
               e == end(k)
    <3>1. old \in Lap
      BY <2>1
    <3>2. lap(k) = [old EXCEPT !.startIndex = s, !.endIndex = e]
      OBVIOUS
    <3>3. s \in Nat /\ e \in Nat
      <4>1. old.startIndex \in Nat /\ old.endIndex \in Nat
        BY <3>1 DEF Lap
      <4> HIDE DEF old
      <4> QED BY <4>1, <1>3 DEF old
    <3> HIDE DEF old, s, e, lap, start, end
    <3>5. /\ [old EXCEPT !.startIndex = s, !.endIndex = e] \in Lap
          /\ [old EXCEPT !.startIndex = s, !.endIndex = e].id = old.id
          /\ [old EXCEPT !.startIndex = s, !.endIndex = e].startIndex = s
          /\ [old EXCEPT !.startIndex = s, !.endIndex = e].endIndex = e
      BY <3>1, <3>3 DEF Lap
    <3> QED BY <3>2, <3>5 DEF old, s, e
  <2> HIDE DEF lap
  <2>3. laps = [k \in 1..m |-> lap(k)] /\ DOMAIN laps = 1..m /\ \A k \in 1..m : laps[k] = lap(k)
    BY <2>1
  <2> HIDE DEF m, start, end
  <2>4. laps \in Seq(Lap) /\ Len(laps) = m
    BY <2>1, <2>2, <2>3
  <2> HIDE DEF laps
  <2>5. ASSUME NEW k \in 1..m
        PROVE  /\ current.laps[k] \in Lap /\ laps[k].id = current.laps[k].id
               /\ laps[k].startIndex = start(k) /\ laps[k].endIndex = end(k)
    <3>1. laps[k] = lap(k)
      BY <2>3
    <3> QED BY <2>1, <2>2, <3>1
  <2> QED BY <2>1, <2>4, <2>5 DEF m, start, end
<1> HIDE DEF laps, lap
<1>11. /\ Spanning(laps, count) \in Seq(Lap) /\ LapRanges(rest, Spanning(laps, count))
       /\ LapsKept(Spanning(laps, count), laps, count)
  <2>1. laps \in Seq(Lap) /\ Len(rest) = count
    BY <1>4, <1>10
  <2> QED BY <2>1, SpanningLaps
<1>12. ASSUME NEW i \in 1..count, NEW j \in 1..count, rest[i] = rest[j] PROVE i = j
  <2>1. After(index, i) \in 1..n /\ After(index, j) \in 1..n
    BY <1>3 DEF After
  <2>2. After(index, i) = After(index, j)
    BY <2>1, <1>2, <1>4, <1>12
  <2> QED BY <2>2, <1>3 DEF After
<1>13. /\ next.points = rest /\ next.breaks = breaks /\ next.laps = Spanning(laps, count)
       /\ IsDraft(next)
  <2>1. next.points = rest /\ next.breaks = breaks /\ next.laps = Spanning(laps, count)
    BY <1>5
  <2>2. IsDraft([points |-> rest, breaks |-> breaks, laps |-> Spanning(laps, count)])
    BY <1>4, <1>9, <1>11, <1>12, DraftRecord
  <2> QED BY <1>5, <2>1, <2>2
<1>14. ASSUME NEW i \in 1..count, NEW j \in 1..count
       PROVE  Apart(next, i, j) <=> Apart(current, After(index, i), After(index, j))
  <2>1. ASSUME NEW k \in 1..Len(bs)
        PROVE  /\ i < moved[k] <=> After(index, i) < bs[k]
               /\ moved[k] <= j <=> bs[k] <= After(index, j)
               /\ j < moved[k] <=> After(index, j) < bs[k]
               /\ moved[k] <= i <=> bs[k] <= After(index, i)
               /\ i < moved[k] /\ moved[k] <= j => k \in places
               /\ j < moved[k] /\ moved[k] <= i => k \in places
    <3>1. /\ bs[k] \in Int /\ moved[k] \in Int /\ i \in Int /\ j \in Int
          /\ moved[k] = IF bs[k] > index THEN bs[k] - 1 ELSE bs[k]
          /\ k \in places <=> 1 < moved[k] /\ moved[k] <= count
          /\ 1 <= i /\ i <= count /\ 1 <= j /\ j <= count
      BY <1>3, <1>6, <1>7, <1>8
    <3> DEFINE b == bs[k]
               m == moved[k]
    <3>2. /\ b \in Int /\ m \in Int /\ i \in Int /\ j \in Int
          /\ m = IF b > index THEN b - 1 ELSE b
          /\ k \in places <=> 1 < m /\ m <= count
          /\ 1 <= i /\ i <= count /\ 1 <= j /\ j <= count
      BY <3>1
    <3> HIDE DEF b, m
    <3>3. /\ i < m <=> After(index, i) < b
          /\ m <= i <=> b <= After(index, i)
      BY <3>2, <1>3 DEF After
    <3>4. /\ j < m <=> After(index, j) < b
          /\ m <= j <=> b <= After(index, j)
      BY <3>2, <1>3 DEF After
    <3>5. (i < m /\ m <= j => k \in places) /\ (j < m /\ m <= i => k \in places)
      BY <3>2, <1>3
    <3> QED BY <3>3, <3>4, <3>5 DEF b, m
  <2>2. ASSUME Apart(next, i, j) PROVE Apart(current, After(index, i), After(index, j))
    <3>1. PICK l \in 1..Len(breaks) : (i < breaks[l] /\ breaks[l] <= j) \/ (j < breaks[l] /\ breaks[l] <= i)
      BY <2>2, <1>13 DEF Apart
    <3>2. PICK k \in places : breaks[l] = moved[k]
      BY <1>9
    <3>3. k \in 1..Len(bs)
      BY <1>7, <1>8
    <3> QED BY <2>1, <3>1, <3>2, <3>3 DEF Apart, bs
  <2>3. ASSUME Apart(current, After(index, i), After(index, j)) PROVE Apart(next, i, j)
    <3>1. PICK k \in 1..Len(bs) : \/ After(index, i) < bs[k] /\ bs[k] <= After(index, j)
                                  \/ After(index, j) < bs[k] /\ bs[k] <= After(index, i)
      BY <2>3 DEF Apart, bs
    <3>2. (i < moved[k] /\ moved[k] <= j) \/ (j < moved[k] /\ moved[k] <= i)
      BY <2>1, <3>1
    <3>3. PICK l \in 1..Len(breaks) : breaks[l] = moved[k]
      BY <2>1, <3>2, <1>9
    <3> QED BY <3>2, <3>3, <1>13 DEF Apart
  <2> QED BY <2>2, <2>3
<1>15. ASSUME NEW id, NEW i \in 1..count PROVE InLap(next, id, i) <=> InLap(current, id, After(index, i))
  <2>1. ASSUME NEW k \in 1..Len(laps)
        PROVE  /\ laps[k].id = current.laps[k].id
               /\ Within(After(index, i), current.laps[k]) <=> Within(i, laps[k])
               /\ Within(i, laps[k]) => /\ laps[k].startIndex >= 1 /\ laps[k].endIndex <= count
                                        /\ laps[k].endIndex >= laps[k].startIndex
    <3> DEFINE s == current.laps[k].startIndex
               e == current.laps[k].endIndex
               t == laps[k].startIndex
               f == laps[k].endIndex
    <3>1. current.laps[k] \in Lap /\ i \in Int /\ 1 <= i /\ i <= count
      BY <1>3, <1>10
    <3>2. s \in Int /\ e \in Int
      BY <3>1 DEF Lap
    <3>3. s >= 1 /\ e <= n /\ s <= e
      BY <1>2, <1>10 DEF LapRanges, n
    <3>4. /\ laps[k].id = current.laps[k].id
          /\ t = IF s > index THEN s - 1 ELSE s
          /\ f = IF e >= index THEN e - 1 ELSE e
      BY <1>10
    <3> HIDE DEF s, e, t, f
    <3>5. /\ s <= After(index, i) /\ After(index, i) <= e <=> t <= i /\ i <= f
          /\ t >= 1 /\ f <= count /\ (t <= i /\ i <= f => f >= t)
      BY <3>1, <3>2, <3>3, <3>4, <1>3, SMTT(30) DEF After
    <3> QED BY <3>4, <3>5 DEF Within, s, e, t, f
  <2>2. ASSUME InLap(next, id, i) PROVE InLap(current, id, After(index, i))
    <3>1. PICK l \in 1..Len(next.laps) : next.laps[l].id = id /\ Within(i, next.laps[l])
      BY <2>2 DEF InLap
    <3>2. PICK k \in 1..Len(laps) : next.laps[l] = laps[k]
      BY <1>11, <1>13 DEF LapsKept
    <3> QED BY <2>1, <3>1, <3>2, <1>10 DEF InLap
  <2>3. ASSUME InLap(current, id, After(index, i)) PROVE InLap(next, id, i)
    <3>1. PICK k \in 1..Len(laps) : current.laps[k].id = id /\ Within(After(index, i), current.laps[k])
      BY <2>3, <1>10 DEF InLap
    <3>2. laps[k].id = id /\ Within(i, laps[k])
      BY <2>1, <3>1
    <3>3. PICK l \in 1..Len(next.laps) : next.laps[l] = laps[k]
      BY <2>1, <3>2, <1>11, <1>13 DEF LapsKept
    <3> QED BY <3>2, <3>3 DEF InLap
  <2> QED BY <2>2, <2>3
<1>16. Embeds(next, current, index)
  <2>1. Len(next.points) = count /\ Len(current.points) = n
    BY <1>4, <1>13 DEF n
  <2>2. index \in 1..Len(current.points) /\ Len(current.points) = Len(next.points) + 1
    BY <2>1, <1>3
  <2> QED BY <2>1, <2>2, <1>4, <1>13, <1>14, <1>15 DEF Embeds
<1> QED BY <1>13, <1>16 DEF next

(* The vertices no break parts from one.                                   *)
Company(draft, i) == {draft.points[j] : j \in {k \in 1..Len(draft.points) : ~Apart(draft, i, k)}}

(* segmentRanges: a segment is what no break parts.                        *)
LEMMA TogetherIs ==
  ASSUME NEW draft, IsDraft(draft)
  PROVE  Together(draft) = {Company(draft, i) : i \in 1..Len(draft.points)}
<1> DEFINE r == Ranges(draft)
           count == Len(draft.points)
<1>1. CASE draft.points = << >>
  <2>1. r = << >> /\ DOMAIN r = {} /\ count = 0
    BY <1>1 DEF Ranges
  <2> HIDE DEF r
  <2>2. Together(draft) = {Between(draft, r[i]) : i \in DOMAIN r}
    BY DEF Together, r
  <2> QED BY <2>1, <2>2
<1>2. CASE draft.points # << >>
  <2>1. /\ Ordered(r, count)
        /\ \A x \in 1..count : \E k \in 1..Len(r) : Within(x, r[k])
        /\ \A k \in 1..Len(r) :
             /\ r[k].startIndex = 1 \/ \E i \in 1..Len(draft.breaks) : draft.breaks[i] = r[k].startIndex
             /\ r[k].endIndex = count \/ \E i \in 1..Len(draft.breaks) : draft.breaks[i] = r[k].endIndex + 1
             /\ \A i \in 1..Len(draft.breaks) :
                  draft.breaks[i] <= r[k].startIndex \/ r[k].endIndex < draft.breaks[i]
    BY <1>2, RangesHold
  <2>2. count \in Nat /\ \A i \in 1..Len(draft.breaks) : draft.breaks[i] \in Int
    BY DraftParts DEF Breaks
  <2>3. Together(draft) = {Between(draft, r[k]) : k \in 1..Len(r)}
    <3>1. DOMAIN r = 1..Len(r)
      BY <2>1 DEF Ordered
    <3> QED BY <3>1 DEF Together
  <2> HIDE DEF r, count
  <2>4. \A k \in 1..Len(r) : /\ r[k].startIndex \in Int /\ r[k].endIndex \in Int
                             /\ 1 <= r[k].startIndex /\ r[k].startIndex <= r[k].endIndex
                             /\ r[k].endIndex <= count
    BY <2>1 DEF Ordered
  <2>5. ASSUME NEW k \in 1..Len(r), NEW i \in 1..count, Within(i, r[k])
        PROVE  Company(draft, i) = Between(draft, r[k])
    <3> DEFINE first == r[k].startIndex
               last == r[k].endIndex
    <3>1. /\ first \in Int /\ last \in Int /\ 1 <= first /\ last <= count
          /\ i \in Int /\ first <= i /\ i <= last
      BY <2>2, <2>4, <2>5 DEF Within
    <3>2. /\ first = 1 \/ \E m \in 1..Len(draft.breaks) : draft.breaks[m] = first
          /\ last = count \/ \E m \in 1..Len(draft.breaks) : draft.breaks[m] = last + 1
          /\ \A m \in 1..Len(draft.breaks) : draft.breaks[m] <= first \/ last < draft.breaks[m]
      BY <2>1
    <3>3. Between(draft, r[k]) = {draft.points[j] : j \in first..last}
      BY DEF Between
    <3> HIDE DEF first, last
    <3>4. ASSUME NEW j \in 1..count PROVE j \in first..last <=> ~Apart(draft, i, j)
      <4>1. CASE j \in first..last
        <5>1. ASSUME NEW m \in 1..Len(draft.breaks)
              PROVE  /\ ~(i < draft.breaks[m] /\ draft.breaks[m] <= j)
                     /\ ~(j < draft.breaks[m] /\ draft.breaks[m] <= i)
          <6>1. draft.breaks[m] \in Int /\ (draft.breaks[m] <= first \/ last < draft.breaks[m])
            BY <2>2, <3>2
          <6> QED BY <4>1, <6>1, <3>1
        <5> QED BY <4>1, <5>1 DEF Apart
      <4>2. CASE j < first
        <5>1. first # 1
          BY <4>2, <3>1
        <5>2. PICK m \in 1..Len(draft.breaks) : draft.breaks[m] = first
          BY <5>1, <3>2
        <5>3. j < draft.breaks[m] /\ draft.breaks[m] <= i
          BY <4>2, <5>2, <3>1
        <5> QED BY <4>2, <5>3, <3>1 DEF Apart
      <4>3. CASE j > last
        <5>1. last # count
          BY <4>3, <3>1, <2>2
        <5>2. PICK m \in 1..Len(draft.breaks) : draft.breaks[m] = last + 1
          BY <5>1, <3>2
        <5>3. i < draft.breaks[m] /\ draft.breaks[m] <= j
          BY <4>3, <5>2, <3>1
        <5> QED BY <4>3, <5>3, <3>1 DEF Apart
      <4> QED BY <4>1, <4>2, <4>3, <3>1
    <3>5. {l \in 1..count : ~Apart(draft, i, l)} = first..last
      <4>1. \A l \in first..last : l \in 1..count
        BY <3>1, <2>2
      <4> QED BY <3>4, <4>1
    <3> QED BY <3>3, <3>5 DEF Company, count
  <2>6. ASSUME NEW k \in 1..Len(r)
        PROVE  \E i \in 1..count : Between(draft, r[k]) = Company(draft, i)
    <3>1. r[k].startIndex \in 1..count /\ Within(r[k].startIndex, r[k])
      BY <2>2, <2>4 DEF Within
    <3> QED BY <3>1, <2>5
  <2>7. ASSUME NEW i \in 1..count PROVE \E k \in 1..Len(r) : Company(draft, i) = Between(draft, r[k])
    BY <2>1, <2>5
  <2> QED BY <2>3, <2>6, <2>7 DEF count
<1> QED BY <1>1, <1>2

LEMMA SameCompany ==
  ASSUME NEW draft, IsDraft(draft), NEW i \in 1..Len(draft.points), NEW j \in 1..Len(draft.points),
         ~Apart(draft, i, j)
  PROVE  Company(draft, i) = Company(draft, j)
<1>1. /\ Len(draft.points) \in Nat
      /\ \A m \in 1..Len(draft.breaks) : draft.breaks[m] \in Int
  BY DraftParts DEF Breaks
<1>2. ASSUME NEW k \in 1..Len(draft.points) PROVE Apart(draft, i, k) <=> Apart(draft, j, k)
  <2>1. ASSUME NEW m \in 1..Len(draft.breaks)
        PROVE  /\ i < draft.breaks[m] <=> j < draft.breaks[m]
               /\ draft.breaks[m] <= i <=> draft.breaks[m] <= j
    <3>1. draft.breaks[m] \in Int /\ i \in Int /\ j \in Int
      BY <1>1
    <3>2. /\ ~(i < draft.breaks[m] /\ draft.breaks[m] <= j)
          /\ ~(j < draft.breaks[m] /\ draft.breaks[m] <= i)
      BY DEF Apart
    <3> QED BY <3>1, <3>2
  <2> QED BY <2>1 DEF Apart
<1> QED BY <1>2 DEF Company

(* The members of a lap, by their places.                                  *)
LEMMA LapMembersAre ==
  ASSUME NEW draft, IsDraft(draft), NEW id
  PROVE  LapMembers(draft, id) = {draft.points[i] : i \in {k \in 1..Len(draft.points) : InLap(draft, id, k)}}
<1> DEFINE count == Len(draft.points)
           laps == draft.laps
<1>1. count \in Nat /\ laps \in Seq(Lap) /\ LapRanges(draft.points, laps) /\ DOMAIN laps = 1..Len(laps)
  BY DraftParts
<1>2. \A k \in 1..Len(laps) : /\ laps[k].startIndex \in Int /\ laps[k].endIndex \in Int
                              /\ 1 <= laps[k].startIndex /\ laps[k].endIndex <= count
  <2>1. \A k \in 1..Len(laps) : laps[k] \in Lap
    BY <1>1
  <2> QED BY <2>1, <1>1, SMTT(30) DEF Lap, LapRanges
<1>3. \A v : v \in LapMembers(draft, id) <=>
         \E k \in 1..Len(laps) : /\ laps[k].id = id
                                 /\ \E i \in laps[k].startIndex..laps[k].endIndex : v = draft.points[i]
  <2> HIDE DEF laps
  <2>1. LapMembers(draft, id) = UNION {Between(draft, laps[i]) : i \in {j \in 1..Len(laps) : laps[j].id = id}}
    BY <1>1 DEF LapMembers, laps
  <2>2. \A k \in 1..Len(laps) : Between(draft, laps[k]) =
           {draft.points[i] : i \in laps[k].startIndex..laps[k].endIndex}
    BY DEF Between
  <2>3. \A v : v \in LapMembers(draft, id) <=>
          \E k \in 1..Len(laps) : laps[k].id = id /\ v \in Between(draft, laps[k])
    BY <2>1, Zenon
  <2>4. \A k \in 1..Len(laps) : \A v : v \in Between(draft, laps[k]) <=>
           \E i \in laps[k].startIndex..laps[k].endIndex : v = draft.points[i]
    BY <2>2, Zenon
  <2> TAKE v
  <2>5. ASSUME v \in LapMembers(draft, id)
        PROVE  \E k \in 1..Len(laps) : /\ laps[k].id = id
                                       /\ \E i \in laps[k].startIndex..laps[k].endIndex : v = draft.points[i]
    <3>1. PICK k \in 1..Len(laps) : laps[k].id = id /\ v \in Between(draft, laps[k])
      BY <2>3, <2>5
    <3>2. \E i \in laps[k].startIndex..laps[k].endIndex : v = draft.points[i]
      BY <2>4, <3>1
    <3> QED BY <3>1, <3>2
  <2>6. ASSUME NEW k \in 1..Len(laps), laps[k].id = id,
               \E i \in laps[k].startIndex..laps[k].endIndex : v = draft.points[i]
        PROVE  v \in LapMembers(draft, id)
    <3>1. v \in Between(draft, laps[k])
      BY <2>4, <2>6
    <3> QED BY <2>3, <2>6, <3>1
  <2> QED BY <2>5, <2>6
<1>4. \A k \in 1..Len(laps) : \A i : i \in laps[k].startIndex..laps[k].endIndex
                                       <=> i \in 1..count /\ Within(i, laps[k])
  <2> TAKE k \in 1..Len(laps)
  <2> HIDE DEF laps, count
  <2> DEFINE s == laps[k].startIndex
             e == laps[k].endIndex
  <2>1. s \in Int /\ e \in Int /\ 1 <= s /\ e <= count /\ count \in Nat
    BY <1>1, <1>2
  <2> HIDE DEF s, e
  <2>2. \A i : i \in s..e <=> i \in 1..count /\ s <= i /\ i <= e
    BY <2>1
  <2> QED BY <2>2 DEF s, e, Within
<1> HIDE DEF laps, count
<1>5. \A v : v \in LapMembers(draft, id) <=> \E i \in 1..count : InLap(draft, id, i) /\ v = draft.points[i]
  <2> TAKE v
  <2>1. ASSUME v \in LapMembers(draft, id)
        PROVE  \E i \in 1..count : InLap(draft, id, i) /\ v = draft.points[i]
    <3>1. PICK k \in 1..Len(laps) : /\ laps[k].id = id
                                    /\ \E i \in laps[k].startIndex..laps[k].endIndex : v = draft.points[i]
      BY <2>1, <1>3
    <3>2. PICK i \in laps[k].startIndex..laps[k].endIndex : v = draft.points[i]
      BY <3>1
    <3>3. i \in 1..count /\ Within(i, laps[k])
      BY <1>4
    <3> QED BY <3>1, <3>2, <3>3 DEF InLap, laps
  <2>2. ASSUME NEW i \in 1..count, InLap(draft, id, i), v = draft.points[i] PROVE v \in LapMembers(draft, id)
    <3>1. PICK k \in 1..Len(laps) : laps[k].id = id /\ Within(i, laps[k])
      BY <2>2 DEF InLap, laps
    <3>2. i \in laps[k].startIndex..laps[k].endIndex
      BY <3>1, <1>4
    <3> QED BY <2>2, <3>1, <3>2, <1>3
  <2> QED BY <2>1, <2>2
<1> QED BY <1>5 DEF count

(* What a vertex more or less leaves: the company of the other vertices.   *)
KeptIn(draft, both) == {s \cap both : s \in Together(draft)} \ {{}}

LEMMA EmbeddingKeeps ==
  ASSUME NEW small, NEW large, NEW spot, IsDraft(small), IsDraft(large), Embeds(small, large, spot)
  PROVE  /\ Vertices(small) \cap Vertices(large) = Vertices(small)
         /\ KeptIn(small, Vertices(small)) = KeptIn(large, Vertices(small))
         /\ \A id : LapMembers(small, id) \cap Vertices(small) = LapMembers(large, id) \cap Vertices(small)
<1> DEFINE n == Len(small.points)
           both == Vertices(small)
           at(i) == After(spot, i)
<1>1. /\ n \in Nat /\ Len(large.points) = n + 1 /\ spot \in 1..(n + 1)
      /\ both = {small.points[i] : i \in 1..n}
      /\ Vertices(large) = {large.points[m] : m \in 1..(n + 1)}
      /\ \A l, m \in 1..(n + 1) : large.points[l] = large.points[m] => l = m
  <2>1. n \in Nat /\ Len(large.points) = n + 1 /\ spot \in 1..(n + 1)
    BY DraftParts DEF Embeds
  <2>2. DOMAIN small.points = 1..n /\ DOMAIN large.points = 1..(n + 1)
    BY <2>1, DraftParts
  <2>3. \A l, m \in 1..(n + 1) : large.points[l] = large.points[m] => l = m
    BY <2>1, DraftParts
  <2> QED BY <2>1, <2>2, <2>3 DEF Vertices
<1> HIDE DEF n, both
<1>2. \A i \in 1..n : /\ at(i) \in 1..(n + 1) /\ large.points[at(i)] = small.points[i]
                      /\ small.points[i] \in both
  <2>1. \A i \in 1..n : at(i) \in 1..(n + 1)
    BY <1>1 DEF After
  <2> QED BY <2>1, <1>1 DEF Embeds, n
<1>3. ASSUME NEW m \in 1..(n + 1), large.points[m] \in both PROVE \E i \in 1..n : m = at(i)
  <2> HIDE DEF at
  <2>1. PICK i \in 1..n : large.points[m] = small.points[i]
    BY <1>1, <1>3
  <2>2. at(i) \in 1..(n + 1) /\ large.points[at(i)] = large.points[m]
    BY <2>1, <1>2
  <2> QED BY <2>2, <1>1
<1>4. /\ \A i, j \in 1..n : Apart(small, i, j) <=> Apart(large, at(i), at(j))
      /\ \A id : \A i \in 1..n : InLap(small, id, i) <=> InLap(large, id, at(i))
  BY DEF Embeds, n
<1> HIDE DEF at
<1>5. \A i : Company(small, i) = {small.points[j] : j \in {k \in 1..n : ~Apart(small, i, k)}}
  BY DEF Company, n
<1>6. \A m : Company(large, m) = {large.points[l] : l \in {k \in 1..(n + 1) : ~Apart(large, m, k)}}
  BY <1>1 DEF Company
<1>7. ASSUME NEW i \in 1..n
      PROVE  /\ Company(small, i) \cap both = Company(large, at(i)) \cap both
             /\ Company(small, i) \cap both # {}
  <2>1. ASSUME NEW v \in Company(small, i) \cap both PROVE v \in Company(large, at(i))
    <3>1. PICK j \in 1..n : ~Apart(small, i, j) /\ v = small.points[j]
      BY <1>5
    <3>2. at(j) \in 1..(n + 1) /\ v = large.points[at(j)] /\ ~Apart(large, at(i), at(j))
      BY <3>1, <1>2, <1>4
    <3> QED BY <3>2, <1>6
  <2>2. ASSUME NEW v \in Company(large, at(i)) \cap both PROVE v \in Company(small, i)
    <3>1. PICK m \in 1..(n + 1) : ~Apart(large, at(i), m) /\ v = large.points[m]
      BY <1>6
    <3>2. PICK j \in 1..n : m = at(j)
      BY <3>1, <1>3
    <3>3. ~Apart(small, i, j) /\ v = small.points[j]
      BY <3>1, <3>2, <1>2, <1>4
    <3> QED BY <3>3, <1>5
  <2>3. small.points[i] \in Company(small, i) \cap both
    <3>1. ~Apart(small, i, i)
      <4>1. \A k \in 1..Len(small.breaks) : small.breaks[k] \in Int
        BY DraftParts DEF Breaks
      <4>2. i \in Int
        BY <1>1
      <4> QED BY <4>1, <4>2 DEF Apart
    <3> QED BY <3>1, <1>2, <1>5
  <2> QED BY <2>1, <2>2, <2>3
<1>8. /\ Together(small) = {Company(small, i) : i \in 1..n}
      /\ Together(large) = {Company(large, m) : m \in 1..(n + 1)}
  BY <1>1, TogetherIs DEF n
<1>9. ASSUME NEW s \in KeptIn(small, both) PROVE s \in KeptIn(large, both)
  <2>1. PICK i \in 1..n : s = Company(small, i) \cap both
    BY <1>8 DEF KeptIn
  <2>2. s = Company(large, at(i)) \cap both /\ s # {} /\ at(i) \in 1..(n + 1)
    BY <2>1, <1>2, <1>7
  <2> QED BY <2>2, <1>8 DEF KeptIn
<1>10. ASSUME NEW s \in KeptIn(large, both) PROVE s \in KeptIn(small, both)
  <2>1. PICK m \in 1..(n + 1) : s = Company(large, m) \cap both /\ s # {}
    BY <1>8 DEF KeptIn
  <2>2. PICK l \in 1..(n + 1) : large.points[l] \in both /\ ~Apart(large, m, l)
    BY <2>1, <1>6
  <2>3. PICK i \in 1..n : l = at(i)
    BY <2>2, <1>3
  <2>4. Company(large, m) = Company(large, at(i))
    BY <2>2, <2>3, <1>1, SameCompany
  <2>5. s = Company(small, i) \cap both
    BY <2>1, <2>4, <1>7
  <2> QED BY <2>1, <2>5, <1>8 DEF KeptIn
<1>11. ASSUME NEW id PROVE LapMembers(small, id) \cap both = LapMembers(large, id) \cap both
  <2>1. /\ LapMembers(small, id) = {small.points[i] : i \in {k \in 1..n : InLap(small, id, k)}}
        /\ LapMembers(large, id) = {large.points[m] : m \in {k \in 1..(n + 1) : InLap(large, id, k)}}
    BY <1>1, LapMembersAre DEF n
  <2>2. ASSUME NEW v \in LapMembers(small, id) \cap both PROVE v \in LapMembers(large, id)
    <3>1. PICK i \in 1..n : InLap(small, id, i) /\ v = small.points[i]
      BY <2>1
    <3>2. at(i) \in 1..(n + 1) /\ InLap(large, id, at(i)) /\ v = large.points[at(i)]
      BY <3>1, <1>2, <1>4
    <3> QED BY <3>2, <2>1
  <2>3. ASSUME NEW v \in LapMembers(large, id) \cap both PROVE v \in LapMembers(small, id)
    <3>1. PICK m \in 1..(n + 1) : InLap(large, id, m) /\ v = large.points[m]
      BY <2>1
    <3>2. PICK i \in 1..n : m = at(i)
      BY <3>1, <1>3
    <3>3. InLap(small, id, i) /\ v = small.points[i]
      BY <3>1, <3>2, <1>2, <1>4
    <3> QED BY <3>3, <2>1
  <2> QED BY <2>2, <2>3
<1>12. both \cap Vertices(large) = both
  <2>1. ASSUME NEW v \in both PROVE v \in Vertices(large)
    <3>1. PICK i \in 1..n : v = small.points[i]
      BY <1>1
    <3>2. at(i) \in 1..(n + 1) /\ v = large.points[at(i)]
      BY <3>1, <1>2
    <3> QED BY <3>2, <1>1
  <2> QED BY <2>1
<1> QED BY <1>9, <1>10, <1>11, <1>12 DEF both

(* createTrackDraft: a draft that begins as a track with valid segments    *)
(* and laps is what the editing assumes of those it starts from.           *)
LEMMA SeededIsDraft ==
  ASSUME NEW points \in Seq(VertexNames), \A i, j \in DOMAIN points : points[i] = points[j] => i = j,
         NEW segments \in Seq([startIndex : Nat, endIndex : Nat]), SegmentRanges(points, segments),
         NEW laps \in Seq(Lap), LapRanges(points, laps)
  PROVE  IsDraft(Seeded(segments, laps, points))
<1> DEFINE n == Len(segments)
           start(i) == segments[i].startIndex
           breaks == [i \in 1..(n - 1) |-> segments[i + 1].startIndex]
<1>1. n \in Nat /\ Len(points) \in Nat /\ DOMAIN points = 1..Len(points)
  OBVIOUS
<1>2. \A i \in 1..n : /\ start(i) \in Int /\ segments[i].endIndex \in Int
                      /\ 1 <= start(i) /\ start(i) <= segments[i].endIndex
                      /\ segments[i].endIndex <= Len(points)
                      /\ i > 1 => start(i) > segments[i - 1].endIndex
  <2>1. \A i \in 1..n : segments[i] \in [startIndex : Nat, endIndex : Nat]
    BY ElementOfSeq
  <2>2. \A i \in 1..n : start(i) \in Int /\ segments[i].endIndex \in Int
    BY <2>1
  <2> QED BY <2>2 DEF SegmentRanges
<1> HIDE DEF start, n
<1>3. \A i \in 1..n : i > 1 => i - 1 \in 1..n /\ start(i) > start(i - 1)
  <2> TAKE i \in 1..n
  <2> HAVE i > 1
  <2>1. i - 1 \in 1..n
    BY <1>1
  <2> DEFINE last == segments[i - 1].endIndex
  <2>2. start(i - 1) <= last /\ start(i - 1) \in Int /\ last \in Int
    BY <2>1, <1>2
  <2>3. start(i) > last /\ start(i) \in Int
    BY <1>2
  <2> HIDE DEF last
  <2> QED BY <2>1, <2>2, <2>3
<1>4. ASSUME NEW i \in 1..n, NEW j \in 1..n, i < j PROVE start(i) <= start(j)
  <2> DEFINE T == {k \in 1..n : i < k /\ ~(start(i) <= start(k))}
  <2> SUFFICES ASSUME j \in T PROVE FALSE
    BY <1>4
  <2>1. T \in SUBSET Nat /\ T # {}
    <3>1. \A k \in 1..n : k \in Nat
      BY <1>1
    <3>2. \A k \in T : k \in Nat
      BY <3>1
    <3> HIDE DEF T
    <3> QED BY <3>2
  <2> HIDE DEF T
  <2>2. PICK m \in T : \A y \in T : m <= y
    BY <2>1, LeastNatural
  <2>3. m \in 1..n /\ i < m /\ ~(start(i) <= start(m)) /\ m - 1 \in 1..n /\ start(m) > start(m - 1)
    <3>1. m \in 1..n /\ i < m /\ ~(start(i) <= start(m))
      BY DEF T
    <3>2. m > 1
      BY <3>1, <1>1
    <3> QED BY <3>1, <3>2, <1>3
  <2>4. m - 1 = i \/ m - 1 \notin T
    BY <2>2, <2>3, <1>1
  <2>5. start(i) <= start(m - 1)
    <3>1. CASE m - 1 = i
      BY <3>1, <1>2
    <3>2. CASE m - 1 # i
      <4>1. i < m - 1
        BY <2>3, <3>2, <1>1
      <4> QED BY <2>3, <2>4, <3>2, <4>1 DEF T
    <3> QED BY <3>1, <3>2
  <2> QED BY <2>3, <2>5, <1>2
<1>5. /\ DOMAIN breaks = 1..(n - 1)
      /\ \A i \in 1..(n - 1) : breaks[i] = start(i + 1) /\ i \in 1..n /\ i + 1 \in 1..n
  BY <1>1 DEF start
<1>6. Breaks(breaks, Len(points))
  <2> DEFINE m == IF n = 0 THEN 0 ELSE n - 1
  <2>1. m \in Nat /\ 1..m = 1..(n - 1)
    BY <1>1
  <2>2. DOMAIN breaks = 1..m /\ breaks = [i \in 1..m |-> breaks[i]]
    BY <2>1, <1>5
  <2> HIDE DEF breaks, m
  <2>3. \A i \in 1..m : breaks[i] \in Int /\ 2 <= breaks[i] /\ breaks[i] <= Len(points)
    <3> TAKE i \in 1..m
    <3>1. i \in 1..n /\ i + 1 \in 1..n /\ breaks[i] = start(i + 1)
      BY <2>1, <1>5
    <3>2. i + 1 > 1 /\ (i + 1) - 1 = i
      BY <3>1, <1>1
    <3>3. start(i + 1) > start(i)
      BY <3>1, <3>2, <1>3
    <3>4. /\ start(i) \in Int /\ 1 <= start(i)
          /\ start(i + 1) \in Int /\ start(i + 1) <= segments[i + 1].endIndex
          /\ segments[i + 1].endIndex \in Int /\ segments[i + 1].endIndex <= Len(points)
      BY <3>1, <1>2
    <3> DEFINE x == start(i)
               y == start(i + 1)
               e == segments[i + 1].endIndex
    <3>5. x \in Int /\ y \in Int /\ e \in Int /\ 1 <= x /\ x < y /\ y <= e /\ e <= Len(points)
      BY <3>3, <3>4, Zenon
    <3>6. breaks[i] = y
      BY <3>1
    <3> HIDE DEF x, y, e
    <3> QED BY <3>5, <3>6, <1>1
  <2>4. ASSUME NEW i \in 1..m, NEW j \in 1..m, i < j PROVE breaks[i] <= breaks[j]
    <3>1. /\ i + 1 \in 1..n /\ j + 1 \in 1..n /\ i + 1 < j + 1
          /\ breaks[i] = start(i + 1) /\ breaks[j] = start(j + 1)
      <4>1. i \in 1..(n - 1) /\ j \in 1..(n - 1) /\ i \in Int /\ j \in Int
        BY <2>1, <1>1
      <4>2. i + 1 < j + 1
        BY <2>4, <4>1
      <4> QED BY <4>1, <4>2, <1>5
    <3> QED BY <3>1, <1>4
  <2> QED BY <2>1, <2>2, <2>3, <2>4, <1>1, BreaksOf
<1>7. IsDraft([points |-> points, breaks |-> breaks, laps |-> laps])
  BY <1>1, <1>6, DraftRecord
<1> QED BY <1>7 DEF Seeded, n

(* The draft and every snapshot of it are drafts.                          *)
Drafts(s) == Stack(s) /\ \A i \in 1..Len(s) : IsDraft(s[i])

DraftsInv == IsDraft(current) /\ Drafts(undoStack) /\ Drafts(redoStack)

(* Appending to a stack, and taking from either end.                       *)
LEMMA DraftPushed ==
  ASSUME NEW s, NEW draft, Drafts(s), IsDraft(draft)
  PROVE  Drafts(Append(s, draft))
<1>1. PICK S : s \in Seq(S)
  BY DEF Drafts, Stack
<1>2. /\ Len(s) \in Nat /\ Len(Append(s, draft)) = Len(s) + 1
      /\ \A i \in 1..Len(s) : Append(s, draft)[i] = s[i]
      /\ Append(s, draft)[Len(s) + 1] = draft
  <2> DEFINE T == S \cup {draft}
  <2>1. s \in Seq(T) /\ draft \in T
    BY <1>1
  <2> HIDE DEF T
  <2> QED BY <2>1
<1>3. ASSUME NEW i \in 1..Len(Append(s, draft)) PROVE IsDraft(Append(s, draft)[i])
  <2>1. CASE i \in 1..Len(s)
    BY <1>2, <2>1 DEF Drafts
  <2>2. CASE i = Len(s) + 1
    BY <1>2, <2>2
  <2> QED BY <1>2, <2>1, <2>2
<1> QED BY <1>3, AppendStacks DEF Drafts

LEMMA DraftDropped ==
  ASSUME NEW s, Drafts(s), s # << >>
  PROVE  /\ Drafts(Tail(s)) /\ IsDraft(s[Len(s)])
         /\ Drafts(SubSeq(s, 1, Len(s) - 1))
<1>1. PICK S : s \in Seq(S)
  BY DEF Drafts, Stack
<1>2. /\ Stack(SubSeq(s, 1, Len(s) - 1)) /\ Stack(Tail(s))
      /\ Len(s) \in Nat \ {0}
      /\ Len(SubSeq(s, 1, Len(s) - 1)) = Len(s) - 1
      /\ Len(Tail(s)) = Len(s) - 1
  BY PopStacks DEF Drafts
<1>3. \A i \in 1..(Len(s) - 1) : Tail(s)[i] = s[i + 1]
  BY <1>1, <1>2
<1>4. \A i \in 1..(Len(s) - 1) : SubSeq(s, 1, Len(s) - 1)[i] = s[i]
  <2> DEFINE last == Len(s) - 1
  <2>1. last \in Nat /\ \A i \in 1..last : s[i] \in S
    BY <1>1, <1>2
  <2>2. \A i \in 1..(last - 1 + 1) : SubSeq(s, 1, last)[i] = s[1 + i - 1]
    <3> HIDE DEF last
    <3> QED BY <2>1, SubSeqProperties
  <2>3. \A i \in 1..last : SubSeq(s, 1, last)[i] = s[i]
    <3> HIDE DEF last
    <3> QED BY <2>1, <2>2
  <2> QED BY <2>3
<1>5. Drafts(Tail(s))
  <2>1. ASSUME NEW i \in 1..(Len(s) - 1) PROVE IsDraft(Tail(s)[i])
    <3>1. i + 1 \in 1..Len(s)
      BY <1>2
    <3> QED BY <1>3, <3>1 DEF Drafts
  <2> QED BY <1>2, <2>1 DEF Drafts
<1>6. Drafts(SubSeq(s, 1, Len(s) - 1))
  <2>1. ASSUME NEW i \in 1..(Len(s) - 1) PROVE IsDraft(SubSeq(s, 1, Len(s) - 1)[i])
    <3>1. i \in 1..Len(s)
      BY <1>2
    <3> QED BY <1>4, <3>1 DEF Drafts
  <2> QED BY <1>2, <2>1 DEF Drafts
<1>7. IsDraft(s[Len(s)])
  BY <1>2 DEF Drafts
<1> QED BY <1>5, <1>6, <1>7

LEMMA NoDrafts == Drafts(<< >>)
<1>1. << >> \in Seq({}) /\ Len(<< >>) = 0
  OBVIOUS
<1> QED BY <1>1 DEF Drafts, Stack

LEMMA CommitKeepsDrafts ==
  ASSUME DraftsInv, NEW next, IsDraft(next), Commit(next)
  PROVE  DraftsInv'
<1> DEFINE longer == Append(undoStack, current)
<1>1. Drafts(longer)
  BY DraftPushed DEF DraftsInv
<1>2. longer # << >>
  <2>1. Len(longer) = Len(undoStack) + 1 /\ Len(undoStack) \in Nat
    BY AppendStacks DEF DraftsInv, Drafts
  <2>2. Len(<< >>) = 0
    OBVIOUS
  <2> HIDE DEF longer
  <2> QED BY <2>1, <2>2
<1>3. undoStack' \in {longer, Tail(longer)} /\ redoStack' = << >> /\ current' = next
  BY DEF Commit, Pushed
<1> HIDE DEF longer
<1>4. Drafts(Tail(longer))
  BY <1>1, <1>2, DraftDropped
<1> QED BY <1>1, <1>3, <1>4, NoDrafts DEF DraftsInv

(* Every edit makes a draft of a draft.                                    *)
LEMMA NextKeepsDrafts == ASSUME DraftsInv, [Next]_vars PROVE DraftsInv'
<1>1. CASE UNCHANGED draftVars
  BY <1>1 DEF draftVars, DraftsInv, Drafts, Stack
<1>2. ASSUME NEW index, InsertAt(index) PROVE DraftsInv'
  BY <1>2, InsertedIsDraft, CommitKeepsDrafts DEF InsertAt, DraftsInv
<1>3. ASSUME NEW index, RemoveAt(index) PROVE DraftsInv'
  BY <1>3, RemovedIsDraft, CommitKeepsDrafts DEF RemoveAt, DraftsInv
<1>4. ASSUME NEW index, BreakAt(index) PROVE DraftsInv'
  <2>1. IsDraft([current EXCEPT !.breaks = Broken(index)])
    BY <1>4, BrokenIsDraft DEF BreakAt, DraftsInv
  <2> QED BY <1>4, <2>1, CommitKeepsDrafts DEF BreakAt
<1>5. ASSUME NEW index, MoveAt(index) PROVE DraftsInv'
  BY <1>5, CommitKeepsDrafts DEF MoveAt, DraftsInv
<1>6. CASE AppendVertex
  <2>1. PICK vertex \in NewVertices : Commit([current EXCEPT !.points = Append(@, vertex)])
    BY <1>6 DEF AppendVertex
  <2>2. IsDraft([current EXCEPT !.points = Append(@, vertex)])
    BY AppendedIsDraft DEF DraftsInv
  <2> QED BY <2>1, <2>2, CommitKeepsDrafts
<1>7. CASE Undo
  <2>1. Drafts(undoStack') /\ IsDraft(current')
    BY <1>7, DraftDropped DEF Undo, DraftsInv
  <2>2. Drafts(redoStack')
    BY <1>7, DraftPushed DEF Undo, DraftsInv
  <2> QED BY <2>1, <2>2 DEF DraftsInv
<1>8. CASE Redo
  <2>1. Drafts(redoStack') /\ IsDraft(current')
    BY <1>8, DraftDropped DEF Redo, DraftsInv
  <2>2. Drafts(undoStack')
    BY <1>8, DraftPushed DEF Redo, DraftsInv
  <2> QED BY <2>1, <2>2 DEF DraftsInv
<1>9. CASE Pointer \/ HostRenders \/ UNCHANGED vars
  BY <1>1, <1>9 DEF Pointer, HostRenders, vars
<1>10. CASE Drag
  BY <1>1, <1>5, <1>10 DEF Drag
<1>11. CASE ClickMap \/ ClickMark
  BY <1>1, <1>3, <1>6, <1>11 DEF ClickMap, ClickMark, OnVertexClick
<1>12. CASE HostEdits
  BY <1>2, <1>3, <1>4, <1>7, <1>8, <1>12 DEF HostEdits
<1> QED BY <1>9, <1>10, <1>11, <1>12 DEF Next

LEMMA InitDrafts == Init => DraftsInv
BY SeedsAssumption, NoDrafts DEF Init, DraftInit, DraftsInv

(* Whatever edits, undos and redos led to a draft, of any size: its        *)
(* segments are in bounds, in order and cover its vertices, and its laps   *)
(* lie within them, so that only its times can keep it from promotion.     *)
THEOREM DraftsArePromotable == Spec => []PromotionNeedsOnlyTimes
<1>1. DraftsInv => PromotionNeedsOnlyTimes
  BY RangesCover DEF DraftsInv, IsDraft, PromotionNeedsOnlyTimes
<1>2. DraftsInv /\ [Next]_vars => DraftsInv'
  BY NextKeepsDrafts
<1> QED BY <1>1, <1>2, InitDrafts, PTL DEF Spec

(* An edit that adds a vertex or removes one, wherever: the other vertices *)
(* keep the company they had, in segments and in laps.                     *)
THEOREM CompanyIsKept == Spec => SpansKept
<1> DEFINE both == Vertices(current) \cap Vertices(current')
           edits == (\E i \in 1..(Len(current.points) + 1) : InsertAt(i) \/ RemoveAt(i)) \/ AppendVertex
           same == /\ KeptIn(current, both) = KeptIn(current', both)
                   /\ \A id : LapMembers(current, id) \cap both = LapMembers(current', id) \cap both
<1>1. ASSUME DraftsInv, NEW next, NEW spot, current' = next, IsDraft(next),
             Embeds(current, next, spot) \/ Embeds(next, current, spot)
      PROVE  same
  <2>1. both = Vertices(current) \cap Vertices(next)
    BY <1>1 DEF Vertices
  <2>2. KeptIn(current', both) = KeptIn(next, both)
    BY <1>1 DEF KeptIn, Together, Ranges, Spans, Between
  <2>3. \A id : LapMembers(current', id) = LapMembers(next, id)
    BY <1>1 DEF LapMembers, Between
  <2>4. IsDraft(current)
    BY <1>1 DEF DraftsInv
  <2>5. CASE Embeds(current, next, spot)
    <3>1. both = Vertices(current)
      BY <1>1, <2>1, <2>4, <2>5, EmbeddingKeeps
    <3> HIDE DEF both
    <3> QED BY <1>1, <2>2, <2>3, <2>4, <2>5, <3>1, EmbeddingKeeps
  <2>6. CASE Embeds(next, current, spot)
    <3>1. both = Vertices(next)
      BY <1>1, <2>1, <2>4, <2>6, EmbeddingKeeps
    <3> HIDE DEF both
    <3> QED BY <1>1, <2>2, <2>3, <2>4, <2>6, <3>1, EmbeddingKeeps
  <2> QED BY <1>1, <2>5, <2>6
<1>2. ASSUME DraftsInv, edits PROVE same
  <2> HIDE DEF same
  <2>0. IsDraft(current)
    BY <1>2 DEF DraftsInv
  <2>1. ASSUME NEW i, InsertAt(i) PROVE same
    <3>1. PICK vertex \in NewVertices : current' = Inserted(i, vertex)
      BY <2>1 DEF InsertAt, Commit
    <3>2. IsDraft(Inserted(i, vertex)) /\ Embeds(current, Inserted(i, vertex), i)
      BY <2>0, <2>1, InsertedIsDraft DEF InsertAt
    <3> QED BY <1>1, <1>2, <3>1, <3>2
  <2>2. ASSUME NEW i, RemoveAt(i) PROVE same
    <3>1. current' = Removed(i) /\ IsDraft(Removed(i)) /\ Embeds(Removed(i), current, i)
      BY <2>0, <2>2, RemovedIsDraft DEF RemoveAt, Commit
    <3> QED BY <1>1, <1>2, <3>1
  <2>3. CASE AppendVertex
    <3>1. PICK vertex \in NewVertices : current' = [current EXCEPT !.points = Append(@, vertex)]
      BY <2>3 DEF AppendVertex, Commit
    <3> DEFINE next == [current EXCEPT !.points = Append(@, vertex)]
    <3>2. IsDraft(next) /\ Embeds(current, next, Len(current.points) + 1) /\ current' = next
      BY <2>0, <3>1, AppendedIsDraft
    <3> HIDE DEF next
    <3> QED BY <1>1, <1>2, <3>2
  <2> QED BY <1>2, <2>1, <2>2, <2>3
<1>3. DraftsInv /\ [Next]_vars =>
        [edits => LET kept(draft) == {s \cap both : s \in Together(draft)} \ {{}}
                  IN /\ kept(current) = kept(current')
                     /\ \A i \in DOMAIN current.laps :
                          LET id == current.laps[i].id
                          IN LapMembers(current, id) \cap both = LapMembers(current', id) \cap both]_draftVars
  BY <1>2 DEF KeptIn
<1>4. DraftsInv /\ [Next]_vars => DraftsInv'
  BY NextKeepsDrafts
<1> QED BY <1>3, <1>4, InitDrafts, PTL DEF Spec, SpansKept

-----------------------------------------------------------------------------
(* A press on a vertex.                                                    *)

(* While a click may come of a press on a vertex of the live session, the  *)
(* gesture of that press is there to take it.                              *)
PressInv ==
  /\ session <= entered /\ pressed \in Nat /\ pressed <= entered
  /\ session # 0 /\ pressed = session /\ click # "none" => gesture # NoGesture

LEMMA NextKeepsPress == ASSUME PanInv, PressInv, [Next]_vars PROVE PressInv'
<1> USE DEF PanInv, DrawTypes
<1>1. ASSUME NEW at \in Places, Press(at) PROVE PressInv'
  <2>1. UNCHANGED <<session, entered>>
    BY <1>1 DEF Press
  <2>2. CASE session = 0
    BY <1>1, <2>1, <2>2 DEF Press, PressInv
  <2>3. CASE session # 0 /\ at = Empty
    BY <1>1, <2>1, <2>3 DEF Press, PressInv
  <2>4. CASE session # 0 /\ at # Empty
    <3>1. gesture' = [index |-> at, moved |-> FALSE] /\ pressed' = session
      BY <1>1, <2>4 DEF Press, OnStart
    <3>2. [index |-> at, moved |-> FALSE] \in [index : Nat, moved : BOOLEAN]
      BY PlacesAreNaturals
    <3>3. gesture' # NoGesture
      BY <3>1, <3>2, GestureAssumption
    <3> QED BY <2>1, <3>1, <3>3 DEF PressInv
  <2> QED BY <2>2, <2>3, <2>4
<1>2. CASE Release
  <2>1. UNCHANGED <<session, entered, pressed, gesture>>
    BY <1>2 DEF Release, OnEnd
  <2>2. click' # "none" => click # "none"
    BY <1>2 DEF Release
  <2> QED BY <2>1, <2>2 DEF PressInv
<1>3. CASE Cancel
  BY <1>3 DEF Cancel, PressInv
<1>4. CASE Enter
  BY <1>4 DEF Enter, PressInv
<1>5. CASE Exit
  BY <1>5 DEF Exit, PressInv
<1>6. CASE SetPan
  BY <1>6 DEF SetPan, PressInv
<1>7. CASE Drag
  <2>1. gesture \in [index : Nat, moved : BOOLEAN] /\ gesture' = [gesture EXCEPT !.moved = TRUE]
        /\ UNCHANGED <<session, entered, pressed>>
    BY <1>7 DEF Drag, MoveBegins
  <2>2. gesture' \in [index : Nat, moved : BOOLEAN]
    BY <2>1
  <2>3. gesture' # NoGesture
    BY <2>2, GestureAssumption
  <2> QED BY <2>1, <2>3 DEF PressInv
<1>8. CASE ClickMap \/ ClickMark
  BY <1>8 DEF ClickMap, ClickMark, ClickBegins, PressInv
<1>9. CASE HostRenders \/ HostEdits \/ UNCHANGED vars
  BY <1>9 DEF HostRenders, HostEdits, vars, drawVars, PressInv
<1> QED BY <1>1, <1>2, <1>3, <1>4, <1>5, <1>6, <1>7, <1>8, <1>9 DEF Next, Pointer

(* A press on a vertex of the live session never ends in a vertex more:    *)
(* its gesture is still there when the click comes, so the click is taken, *)
(* and all it may do is remove one.                                        *)
THEOREM PressNeverAdds == Spec => PressedVertexNeverAdds
<1>1. ASSUME DraftsInv, PressInv, [Next]_vars, ClickMap \/ ClickMark, pressed = session
      PROVE  Vertices(current') \subseteq Vertices(current)
  <2>1. gesture # NoGesture
    BY <1>1 DEF ClickMap, ClickMark, ClickBegins, PressInv
  <2>2. ASSUME NEW index, RemoveAt(index)
        PROVE  Vertices(current') \subseteq Vertices(current)
    <3>1. /\ index \in DOMAIN current.points /\ current' = Removed(index) /\ IsDraft(current)
          /\ IsDraft(Removed(index)) /\ Embeds(Removed(index), current, index)
      BY <1>1, <2>2, RemovedIsDraft DEF RemoveAt, Commit, DraftsInv
    <3>2. Vertices(Removed(index)) \cap Vertices(current) = Vertices(Removed(index))
      BY <3>1, EmbeddingKeeps
    <3>3. Vertices(current') = Vertices(Removed(index))
      BY <3>1 DEF Vertices
    <3> QED BY <3>2, <3>3
  <2>3. CASE UNCHANGED draftVars
    BY <2>3 DEF draftVars, Vertices
  <2> QED BY <1>1, <2>1, <2>2, <2>3 DEF ClickMap, ClickMark, OnVertexClick, Taken
<1>2. Init => DraftsInv /\ PressInv
  BY SeedsAssumption, NoDrafts DEF Init, DraftInit, DrawInit, DraftsInv, PressInv
<1>3. PanInv /\ [Next]_vars => PanInv'
  <2> SUFFICES ASSUME PanInv, [Next]_vars PROVE PanInv'
    OBVIOUS
  <2> QED BY PointerKeepsPan, DragKeepsPan, ClickKeepsPan, OthersKeepPan
          DEF Next, ClickMap, ClickMark, HostRenders, HostEdits, vars
<1>4. DraftsInv /\ [Next]_vars => DraftsInv'
  BY NextKeepsDrafts
<1>5. PanInv /\ PressInv /\ [Next]_vars => PressInv'
  BY NextKeepsPress
<1>6. DraftsInv /\ PressInv /\ [Next]_vars =>
        [(ClickMap \/ ClickMark) /\ pressed = session
           => Vertices(current') \subseteq Vertices(current)]_vars
  BY <1>1
<1> QED BY <1>2, <1>3, <1>4, <1>5, <1>6, InitPan, PTL DEF Spec, PressedVertexNeverAdds

-----------------------------------------------------------------------------
(* The canvas.                                                             *)

Controllers == [wanted : Pictures, map : Pictures, loaded : BOOLEAN, destroyed : BOOLEAN,
                active : SUBSET Interactions]

(* What a loaded map shows is what was asked for.                          *)
ShowsWanted(c) == c.loaded => c.map = c.wanted

(* The parts of a controller that showing a picture leaves alone.          *)
SameOtherwise(c, d) == d.loaded = c.loaded /\ d.destroyed = c.destroyed /\ d.active = c.active

LEMMA ReconcileShows ==
  ASSUME NEW c \in Controllers
  PROVE  /\ Reconcile(c) \in Controllers /\ Reconcile(c).wanted = c.wanted
         /\ Reconcile(c).map = c.wanted /\ SameOtherwise(c, Reconcile(c))
<1> DEFINE a == [c EXCEPT !.map.sources = c.wanted.sources]
           b == ApplyTerrain(a)
           w == c.wanted
<1>1. w \in Pictures /\ c.map \in Pictures
  BY DEF Controllers
<1>2. /\ a \in Controllers /\ a.wanted = w /\ SameOtherwise(c, a)
      /\ a.map \in Pictures /\ a.map.sources = w.sources
  BY <1>1 DEF Controllers, Pictures, SameOtherwise
<1> HIDE DEF a
<1>3. /\ b \in Controllers /\ b.wanted = w /\ SameOtherwise(c, b)
      /\ b.map \in Pictures /\ b.map.sources = w.sources /\ b.map.terrain = w.terrain
  BY <1>1, <1>2 DEF ApplyTerrain, Controllers, Pictures, SameOtherwise
<1> HIDE DEF b
<1>4. /\ ApplyRender(b) \in Controllers /\ ApplyRender(b).wanted = w /\ SameOtherwise(c, ApplyRender(b))
      /\ ApplyRender(b).map \in Pictures /\ ApplyRender(b).map.sources = w.sources
      /\ ApplyRender(b).map.terrain = w.terrain /\ ApplyRender(b).map.drawn = w.drawn
  BY <1>1, <1>3 DEF ApplyRender, Controllers, Pictures, SameOtherwise
<1>5. ApplyRender(b).map = w
  BY <1>1, <1>4 DEF Pictures
<1>6. Reconcile(c) = ApplyRender(b)
  BY DEF Reconcile, b, a
<1>7. QED
  BY <1>4, <1>5, <1>6

(* A stack of sources is shown whole, whatever the map showed before.      *)
LEMMA SetSourcesShows ==
  ASSUME NEW c \in Controllers, NEW sources \in SUBSET SourceIds
  PROVE  LET d == SetSources(c, sources)
         IN  d \in Controllers /\ d.wanted.sources = sources /\ ShowsWanted(d) /\ SameOtherwise(c, d)
<1> DEFINE a == [c EXCEPT !.wanted.sources = sources]
<1>1. /\ a \in Controllers /\ a.wanted.sources = sources /\ SameOtherwise(c, a)
  BY DEF Controllers, Pictures, SameOtherwise
<1>2. SetSources(c, sources) = IF c.loaded THEN Reconcile(a) ELSE a
  BY DEF SetSources
<1> HIDE DEF a
<1>3. /\ Reconcile(a) \in Controllers /\ Reconcile(a).wanted = a.wanted
      /\ Reconcile(a).map = a.wanted /\ SameOtherwise(a, Reconcile(a))
  BY <1>1, ReconcileShows
<1>4. QED
  BY <1>1, <1>2, <1>3 DEF ShowsWanted, SameOtherwise

LEMMA SetTerrainShows ==
  ASSUME NEW c \in Controllers, NEW terrain \in SourceIds \cup {NoTerrain}, ShowsWanted(c)
  PROVE  LET d == SetTerrain(c, terrain)
         IN  /\ d \in Controllers /\ d.wanted.sources = c.wanted.sources
             /\ d.wanted.terrain = terrain /\ ShowsWanted(d) /\ SameOtherwise(c, d)
<1> DEFINE a == [c EXCEPT !.wanted.terrain = terrain]
           b == ApplyTerrain(a)
<1>1. /\ a \in Controllers /\ SameOtherwise(c, a) /\ a.map = c.map
      /\ a.wanted \in Pictures /\ a.map \in Pictures
      /\ a.wanted.sources = c.wanted.sources /\ a.wanted.terrain = terrain
      /\ a.wanted.drawn = c.wanted.drawn
  BY DEF Controllers, Pictures, SameOtherwise
<1>2. SetTerrain(c, terrain) = IF c.loaded THEN b ELSE a
  BY DEF SetTerrain
<1> HIDE DEF a
<1>3. /\ b \in Controllers /\ SameOtherwise(a, b) /\ b.wanted = a.wanted
      /\ b.map.sources = a.map.sources /\ b.map.terrain = terrain /\ b.map.drawn = a.map.drawn
  BY <1>1 DEF ApplyTerrain, Controllers, Pictures, SameOtherwise
<1> HIDE DEF b
<1>4. c.loaded => b.map = b.wanted
  <2>1. b.map \in Pictures /\ b.wanted \in Pictures
    BY <1>3 DEF Controllers
  <2>2. QED
    BY <1>1, <1>3, <2>1 DEF Pictures, ShowsWanted
<1>5. QED
  BY <1>1, <1>2, <1>3, <1>4 DEF ShowsWanted, SameOtherwise

LEMMA RenderDrawingShows ==
  ASSUME NEW c \in Controllers, NEW drawing \in Drawings \cup {Nothing}, ShowsWanted(c)
  PROVE  LET d == RenderDrawing(c, drawing)
         IN  /\ d \in Controllers /\ d.wanted.sources = c.wanted.sources
             /\ d.wanted.terrain = c.wanted.terrain /\ d.wanted.drawn = drawing
             /\ ShowsWanted(d) /\ SameOtherwise(c, d)
<1> DEFINE a == [c EXCEPT !.wanted.drawn = drawing]
           b == ApplyRender(a)
<1>1. /\ a \in Controllers /\ SameOtherwise(c, a) /\ a.map = c.map
      /\ a.wanted \in Pictures /\ a.map \in Pictures
      /\ a.wanted.sources = c.wanted.sources /\ a.wanted.terrain = c.wanted.terrain
      /\ a.wanted.drawn = drawing
  BY DEF Controllers, Pictures, SameOtherwise
<1>2. RenderDrawing(c, drawing) = IF c.loaded THEN b ELSE a
  BY DEF RenderDrawing
<1> HIDE DEF a
<1>3. /\ b \in Controllers /\ SameOtherwise(a, b) /\ b.wanted = a.wanted
      /\ b.map.sources = a.map.sources /\ b.map.terrain = a.map.terrain /\ b.map.drawn = drawing
  BY <1>1 DEF ApplyRender, Controllers, Pictures, SameOtherwise
<1> HIDE DEF b
<1>4. c.loaded => b.map = b.wanted
  <2>1. b.map \in Pictures /\ b.wanted \in Pictures
    BY <1>3 DEF Controllers
  <2>2. QED
    BY <1>1, <1>3, <2>1 DEF Pictures, ShowsWanted
<1>5. QED
  BY <1>1, <1>2, <1>3, <1>4 DEF ShowsWanted, SameOtherwise

(* The state effects: a controller that was shown anything wants the       *)
(* picture after them, and shows it if its style has loaded.               *)
LEMMA ApplyStateShows ==
  ASSUME NEW c \in Controllers, NEW p \in Pictures
  PROVE  LET d == ApplyState(c, p)
         IN  d \in Controllers /\ d.wanted = p /\ ShowsWanted(d) /\ SameOtherwise(c, d)
<1> DEFINE a == SetSources(c, p.sources)
           b == SetTerrain(a, p.terrain)
           d == RenderDrawing(b, p.drawn)
<1>1. /\ p.sources \in SUBSET SourceIds /\ p.terrain \in SourceIds \cup {NoTerrain}
      /\ p.drawn \in Drawings \cup {Nothing}
  BY DEF Pictures
<1>2. a \in Controllers /\ a.wanted.sources = p.sources /\ ShowsWanted(a) /\ SameOtherwise(c, a)
  BY <1>1, SetSourcesShows
<1> HIDE DEF a
<1>3. /\ b \in Controllers /\ b.wanted.sources = p.sources /\ b.wanted.terrain = p.terrain
      /\ ShowsWanted(b) /\ SameOtherwise(a, b)
  BY <1>1, <1>2, SetTerrainShows
<1> HIDE DEF b
<1>4. /\ d \in Controllers /\ d.wanted.sources = p.sources /\ d.wanted.terrain = p.terrain
      /\ d.wanted.drawn = p.drawn /\ ShowsWanted(d) /\ SameOtherwise(b, d)
  BY <1>1, <1>3, RenderDrawingShows
<1>5. ApplyState(c, p) = d
  BY DEF ApplyState, d, b, a
<1> HIDE DEF d
<1>6. d.wanted = p
  <2>1. d.wanted \in Pictures
    BY <1>4 DEF Controllers
  <2>2. QED
    BY <1>4, <2>1 DEF Pictures
<1>7. QED
  BY <1>2, <1>3, <1>4, <1>5, <1>6 DEF SameOtherwise

LEMMA BuildShows ==
  ASSUME NEW p, p.picture \in Pictures, p.present \in SUBSET Interactions
  PROVE  LET d == Build(p)
         IN  /\ d \in Controllers /\ d.wanted = p.picture /\ ShowsWanted(d)
             /\ ~d.destroyed /\ d.active = p.present
<1> DEFINE c == CreateController(p.picture)
           a == ApplyState(c, p.picture)
<1>1. EmptyMap \in Pictures
  BY DEF EmptyMap, Pictures
<1>2. c \in Controllers /\ c.destroyed = FALSE /\ c.active = {}
  <2>1. [p.picture EXCEPT !.drawn = Nothing] \in Pictures
    BY DEF Pictures
  <2>2. QED
    BY <1>1, <2>1 DEF CreateController, Controllers
<1> HIDE DEF c
<1>3. a \in Controllers /\ a.wanted = p.picture /\ ShowsWanted(a) /\ SameOtherwise(c, a)
  BY <1>2, ApplyStateShows
<1>4. Build(p) = [a EXCEPT !.active = a.active \cup p.present]
  BY DEF Build, EnterMode, a, c
<1> HIDE DEF a
<1>5. QED
  BY <1>2, <1>3, <1>4 DEF Controllers, ShowsWanted, SameOtherwise
(* The effects of a render that has not run leave the session as it was;   *)
(* what they last ran for is live in it.                                   *)
CanvasTypes ==
  /\ mounted \in BOOLEAN /\ due \in BOOLEAN
  /\ props.style \in Nat \ {0} /\ props.picture \in Pictures
  /\ props.present \in SUBSET Interactions
  /\ sessions \in Seq(Controllers) /\ sessionRef \in 0..Len(sessions)

CanvasInv ==
  /\ CanvasTypes
  /\ OneLiveController
  /\ mounted /\ ran.style # 0 =>
       sessionRef # 0 /\ ran.present \subseteq sessions[sessionRef].active
  /\ mounted /\ ran.style = 0 => sessionRef = 0 /\ due
  /\ mounted /\ ~due =>
       /\ ran.style = props.style /\ ran.present = props.present
       /\ sessions[sessionRef].wanted = props.picture
       /\ ShowsWanted(sessions[sessionRef])

(* The construction effect's cleanup: nothing of the old session is left.  *)
LEMMA TornDown ==
  ASSUME CanvasTypes, OneLiveController
  PROVE  /\ TearDown(sessions) \in Seq(Controllers) /\ Len(TearDown(sessions)) = Len(sessions)
         /\ \A n \in 1..Len(sessions) :
              /\ TearDown(sessions)[n].destroyed /\ TearDown(sessions)[n].active = {}
              /\ TearDown(sessions)[n].map = EmptyMap
<1>1. sessions \in Seq(Controllers) /\ DOMAIN sessions = 1..Len(sessions)
  BY DEF CanvasTypes
<1>2. \A n \in 1..Len(sessions) : n # sessionRef =>
        sessions[n].destroyed /\ sessions[n].active = {} /\ sessions[n].map = EmptyMap
  BY <1>1 DEF OneLiveController
<1>3. CASE sessionRef = 0
  BY <1>1, <1>2, <1>3 DEF TearDown
<1>4. CASE sessionRef # 0
  <2> DEFINE gone == Destroy(sessions[sessionRef])
  <2>1. /\ gone \in Controllers /\ gone.destroyed = TRUE /\ gone.active = {}
        /\ gone.map = EmptyMap
    BY DEF Destroy, Controllers, Pictures, EmptyMap
  <2>2. TearDown(sessions) = [sessions EXCEPT ![sessionRef] = gone]
    BY <1>4 DEF TearDown
  <2>3. sessionRef \in 1..Len(sessions)
    BY <1>4 DEF CanvasTypes
  <2> HIDE DEF gone
  <2>4. QED
    BY <1>1, <1>2, <2>1, <2>2, <2>3
<1>5. QED
  BY <1>3, <1>4

(* A new session shows the props whole, and is the only one that lives.    *)
LEMMA RecreateShows ==
  ASSUME CanvasTypes, OneLiveController, Recreate, UNCHANGED props
  PROVE  /\ sessions' \in Seq(Controllers)
         /\ sessionRef' = Len(sessions') /\ sessionRef' # 0
         /\ sessions'[sessionRef'].wanted = props.picture /\ ShowsWanted(sessions'[sessionRef'])
         /\ sessions'[sessionRef'].active = props.present
         /\ OneLiveController'
<1> DEFINE torn == TearDown(sessions)
           new == Build(props)
<1>1. /\ torn \in Seq(Controllers) /\ Len(torn) = Len(sessions)
      /\ \A n \in 1..Len(sessions) :
           torn[n].destroyed /\ torn[n].active = {} /\ torn[n].map = EmptyMap
  BY TornDown
<1>2. /\ new \in Controllers /\ new.wanted = props.picture /\ ShowsWanted(new)
      /\ ~new.destroyed /\ new.active = props.present
  BY BuildShows DEF CanvasTypes
<1>3. sessions' = Append(torn, new) /\ sessionRef' = Len(sessions) + 1
  BY DEF Recreate
<1> HIDE DEF torn, new
<1>4. /\ sessions' \in Seq(Controllers) /\ sessionRef' = Len(sessions') /\ sessionRef' # 0
      /\ sessions'[sessionRef'] = new
      /\ \A n \in 1..Len(sessions) : sessions'[n] = torn[n]
      /\ DOMAIN sessions' = 1..(Len(sessions) + 1)
  BY <1>1, <1>2, <1>3 DEF CanvasTypes
<1>5. \A n \in 1..(Len(sessions) + 1) : n = Len(sessions) + 1 \/ n \in 1..Len(sessions)
  BY DEF CanvasTypes
<1>6. OneLiveController'
  BY <1>1, <1>2, <1>3, <1>4, <1>5 DEF OneLiveController
<1>7. QED
  BY <1>2, <1>4, <1>6

(* The effects of a render that keeps its style leave the session wanting  *)
(* the props, showing them, and with everything the props say present.     *)
LEMMA ReconciledShows ==
  ASSUME CanvasTypes, sessionRef # 0, ran.present \subseteq sessions[sessionRef].active
  PROVE  LET d == Reconciled(ChangedPresence)
         IN  /\ d \in Controllers /\ d.wanted = props.picture /\ ShowsWanted(d)
             /\ d.destroyed = sessions[sessionRef].destroyed /\ props.present \subseteq d.active
<1> DEFINE c == sessions[sessionRef]
           released == Released(sessionRef, ChangedPresence)
           left == LeaveMode(c, released)
           a == ApplyState(left, props.picture)
           joining == ChangedPresence \cap props.present
<1>1. c \in Controllers
  BY DEF CanvasTypes
<1>2. released \subseteq ChangedPresence
  BY DEF Released
<1>3. left \in Controllers /\ left.destroyed = c.destroyed /\ left.active = c.active \ released
  BY <1>1 DEF LeaveMode, Controllers
<1> HIDE DEF left
<1>4. a \in Controllers /\ a.wanted = props.picture /\ ShowsWanted(a) /\ SameOtherwise(left, a)
  BY <1>3, ApplyStateShows DEF CanvasTypes
<1>5. Reconciled(ChangedPresence) = [a EXCEPT !.active = a.active \cup joining]
  BY DEF Reconciled, EnterMode, a, left
<1> HIDE DEF a, released
<1>6. \A i \in props.present : i \in joining \/ (i \in c.active /\ i \notin released)
  <2>1. ASSUME NEW i \in props.present, i \notin joining
        PROVE  i \in ran.present /\ i \notin ChangedPresence
    BY <2>1 DEF ChangedPresence, CanvasTypes
  <2>2. \A i \in ran.present : i \in c.active
    OBVIOUS
  <2> HIDE DEF joining
  <2>3. ASSUME NEW i \in props.present, i \notin joining PROVE i \in c.active /\ i \notin released
    <3>1. i \in ran.present /\ i \notin ChangedPresence
      BY <2>1, <2>3
    <3>2. QED
      BY <1>2, <2>2, <3>1
  <2>4. QED
    BY <2>3
<1>7. joining \subseteq Interactions
  BY DEF CanvasTypes
<1> HIDE DEF joining
<1>8. QED
  BY <1>3, <1>4, <1>5, <1>6, <1>7 DEF Controllers, ShowsWanted, SameOtherwise

LEMMA InitCanvas == CanvasInit => CanvasInv
<1> SUFFICES ASSUME CanvasInit PROVE CanvasInv
  OBVIOUS
<1>1. PICK picture \in Consistent, present \in SUBSET Interactions :
        props = [style |-> 1, picture |-> picture, present |-> present]
  BY DEF CanvasInit
<1>2. /\ mounted = TRUE /\ due = TRUE /\ ran.style = 0
      /\ sessions = << >> /\ sessionRef = 0
  BY DEF CanvasInit
<1>3. CanvasTypes
  BY <1>1, <1>2 DEF CanvasTypes, Consistent
<1>4. OneLiveController
  BY <1>2 DEF OneLiveController
<1>5. QED
  BY <1>2, <1>3, <1>4 DEF CanvasInv

(* One case per step of the component, of React and of the renderer.       *)
LEMMA CanvasStep ==
  ASSUME CanvasInv, [CanvasNext]_canvasVars
  PROVE  CanvasInv'
<1>1. CanvasTypes /\ OneLiveController
  BY DEF CanvasInv
<1>2. ASSUME Recreate, mounted, mounted' = mounted, due' = FALSE, UNCHANGED props,
             ran'.style = props.style, ran'.present = props.present
      PROVE  CanvasInv'
  <2>1. /\ sessions' \in Seq(Controllers)
        /\ sessionRef' = Len(sessions') /\ sessionRef' # 0
        /\ sessions'[sessionRef'].wanted = props.picture /\ ShowsWanted(sessions'[sessionRef'])
        /\ sessions'[sessionRef'].active = props.present
        /\ OneLiveController'
    BY <1>1, <1>2, RecreateShows
  <2>2. sessionRef' \in 0..Len(sessions')
    BY <2>1
  <2>3. CanvasTypes'
    BY <1>1, <1>2, <2>1, <2>2 DEF CanvasTypes
  <2>4. ran'.style # 0
    BY <1>1, <1>2 DEF CanvasTypes
  <2>5. QED
    BY <1>2, <2>1, <2>3, <2>4 DEF CanvasInv, ShowsWanted
<1>3. CASE EffectsRecreate
  <2>1. ran' = [style |-> props.style, present |-> props.present]
    BY <1>3 DEF EffectsRecreate
  <2>2. ran'.style = props.style /\ ran'.present = props.present
    BY <2>1
  <2>3. Recreate /\ mounted /\ mounted' = mounted /\ due' = FALSE /\ UNCHANGED props
    BY <1>3 DEF EffectsRecreate
  <2>4. QED
    BY <1>2, <2>2, <2>3
<1>4. CASE StrictEffects
  <2>1. /\ Recreate /\ mounted /\ ~due /\ mounted' = mounted /\ due' = due
        /\ UNCHANGED props /\ ran' = ran
    BY <1>4 DEF StrictEffects
  <2>2. ran'.style = props.style /\ ran'.present = props.present
    BY <2>1 DEF CanvasInv
  <2>3. due' = FALSE
    BY <1>1, <2>1 DEF CanvasTypes
  <2>4. QED
    BY <1>2, <2>1, <2>2, <2>3
<1>5. CASE EffectsReconcile
  <2> DEFINE d == Reconciled(ChangedPresence)
  <2>1. /\ mounted /\ mounted' = mounted /\ due' = FALSE
        /\ UNCHANGED <<props, sessionRef>>
        /\ ran' = [style |-> props.style, present |-> props.present]
        /\ sessions' = [sessions EXCEPT ![sessionRef] = d]
        /\ props.style = ran.style
    BY <1>5 DEF EffectsReconcile
  <2>2. /\ ran.style # 0 /\ sessionRef \in 1..Len(sessions) /\ sessions \in Seq(Controllers)
        /\ ran.present \subseteq sessions[sessionRef].active
    BY <2>1 DEF CanvasInv, CanvasTypes
  <2>3. /\ d \in Controllers /\ d.wanted = props.picture /\ ShowsWanted(d)
        /\ d.destroyed = sessions[sessionRef].destroyed /\ props.present \subseteq d.active
    BY <1>1, <2>2, ReconciledShows
  <2> HIDE DEF d
  <2>4. /\ sessions' \in Seq(Controllers) /\ Len(sessions') = Len(sessions)
        /\ DOMAIN sessions' = DOMAIN sessions
        /\ sessions'[sessionRef] = d
        /\ \A n \in DOMAIN sessions : n # sessionRef => sessions'[n] = sessions[n]
    BY <2>1, <2>2, <2>3
  <2>5. OneLiveController'
    BY <1>1, <2>1, <2>2, <2>3, <2>4 DEF OneLiveController
  <2>6. CanvasTypes'
    BY <1>1, <2>1, <2>4 DEF CanvasTypes
  <2>7. ran'.style = props.style /\ ran'.present = props.present
    BY <2>1
  <2>8. QED
    BY <2>1, <2>2, <2>3, <2>4, <2>5, <2>6, <2>7 DEF CanvasInv, ShowsWanted
<1>6. CASE EffectsThrow \/ Unmount
  <2>1. Gone
    BY <1>6 DEF EffectsThrow, Unmount
  <2>2. /\ mounted' = FALSE /\ due' = FALSE /\ sessionRef' = 0 /\ UNCHANGED <<props, ran>>
        /\ sessions' = TearDown(sessions)
    BY <2>1 DEF Gone
  <2>3. /\ sessions' \in Seq(Controllers) /\ Len(sessions') = Len(sessions)
        /\ \A n \in 1..Len(sessions) :
             sessions'[n].destroyed /\ sessions'[n].active = {} /\ sessions'[n].map = EmptyMap
    BY <1>1, <2>2, TornDown
  <2>4. OneLiveController'
    BY <2>2, <2>3 DEF OneLiveController
  <2>5. sessionRef' \in 0..Len(sessions')
    BY <2>2, <2>3
  <2>6. CanvasTypes'
    BY <1>1, <2>2, <2>3, <2>5 DEF CanvasTypes
  <2>7. QED
    BY <2>2, <2>4, <2>6 DEF CanvasInv
<1>7. CASE Render
  <2>1. PICK look \in {props.style, props.style + 1}, picture \in Consistent,
             present \in SUBSET Interactions :
          props' = [style |-> look, picture |-> picture, present |-> present]
    BY <1>7 DEF Render
  <2>2. props'.style \in Nat \ {0} /\ props'.picture \in Pictures /\ props'.present \in SUBSET Interactions
    BY <1>1, <2>1 DEF CanvasTypes, Consistent
  <2>3. /\ mounted /\ ~due /\ due' = TRUE
        /\ UNCHANGED <<mounted, ran, sessions, sessionRef>>
    BY <1>7 DEF Render
  <2>4. CanvasTypes' /\ OneLiveController'
    BY <1>1, <2>2, <2>3 DEF CanvasTypes, OneLiveController
  <2>5. QED
    BY <2>3, <2>4 DEF CanvasInv
<1>8. CASE StyleLoads
  <2>1. PICK n \in DOMAIN sessions :
          /\ ~sessions[n].destroyed
          /\ sessions' = [sessions EXCEPT ![n] = OnLoad(sessions[n])]
          /\ UNCHANGED <<mounted, props, ran, due, sessionRef>>
    BY <1>8 DEF StyleLoads
  <2>2. n \in 1..Len(sessions) /\ sessions[n] \in Controllers /\ sessions \in Seq(Controllers)
    BY <1>1 DEF CanvasTypes
  <2>3. n = sessionRef
    BY <1>1, <2>1 DEF OneLiveController
  <2> DEFINE c == [sessions[n] EXCEPT !.loaded = TRUE]
             d == OnLoad(sessions[n])
  <2>4. /\ c \in Controllers /\ c.wanted = sessions[n].wanted
        /\ c.destroyed = sessions[n].destroyed /\ c.active = sessions[n].active
    BY <2>2 DEF Controllers
  <2>5. d = Reconcile(c)
    BY DEF OnLoad
  <2> HIDE DEF c, d
  <2>6. /\ d \in Controllers /\ d.wanted = sessions[n].wanted /\ d.map = d.wanted
        /\ d.destroyed = sessions[n].destroyed /\ d.active = sessions[n].active
    BY <2>4, <2>5, ReconcileShows DEF SameOtherwise
  <2>7. sessions' = [sessions EXCEPT ![n] = d]
    BY <2>1 DEF d
  <2>8. /\ sessions' \in Seq(Controllers) /\ Len(sessions') = Len(sessions)
        /\ DOMAIN sessions' = DOMAIN sessions /\ sessions'[n] = d
        /\ \A m \in DOMAIN sessions : m # n => sessions'[m] = sessions[m]
    BY <2>2, <2>6, <2>7
  <2>9. OneLiveController'
    BY <1>1, <2>1, <2>3, <2>6, <2>8 DEF OneLiveController
  <2>10. CanvasTypes'
    BY <1>1, <2>1, <2>8 DEF CanvasTypes
  <2>11. QED
    BY <2>1, <2>3, <2>6, <2>8, <2>9, <2>10 DEF CanvasInv, ShowsWanted
<1>9. CASE UNCHANGED canvasVars
  BY <1>9 DEF canvasVars, CanvasInv, CanvasTypes, OneLiveController, ShowsWanted
<1>10. QED
  BY <1>3, <1>4, <1>5, <1>6, <1>7, <1>8, <1>9 DEF CanvasNext

(* For any number of controllers, any sources, drawings and kinds of       *)
(* listener: through every order of renders, effects, StrictMode's second  *)
(* run and styles that load, the canvas holds one live controller, nothing *)
(* is left of the others, and once its effects have run that controller    *)
(* wants, shows and listens to what its props say.                         *)
THEOREM CanvasAlwaysFollowsProps ==
  CanvasSpec => []CanvasFollowsProps
<1>1. CanvasInv => CanvasFollowsProps
  <2> SUFFICES ASSUME CanvasInv PROVE CanvasFollowsProps
    OBVIOUS
  <2>1. OneLiveController
    BY DEF CanvasInv
  <2>2. ASSUME Quiet
        PROVE  LET c == sessions[sessionRef]
               IN /\ c.wanted = props.picture
                  /\ c.loaded => c.map = props.picture
                  /\ props.present \subseteq c.active
    BY <2>2 DEF Quiet, CanvasInv, CanvasTypes, ShowsWanted
  <2>3. QED
    BY <2>1, <2>2 DEF CanvasFollowsProps, ShowsProps
<1>2. CanvasInv /\ [CanvasNext]_canvasVars => CanvasInv'
  BY CanvasStep
<1>3. QED
  BY <1>1, <1>2, InitCanvas, PTL DEF CanvasSpec
=============================================================================
