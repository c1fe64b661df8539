-------------------------------- MODULE Draft --------------------------------
(***************************************************************************)
(* The draft of packages/core/src/draft.ts: vertices with the breaks and   *)
(* the laps that index them, edits, and a bounded history of snapshots.    *)
(*                                                                         *)
(* A vertex is a name no other vertex of the draft has: where it lies, its *)
(* time and its channels change by edits that leave every index alone.     *)
(* Indices are 1-based; a break is the index of the vertex that begins a   *)
(* segment.  Once the vertex between two breaks is removed, `breaks` holds *)
(* their index twice, and goes on doing so.                                *)
(***************************************************************************)
EXTENDS TrackData, Sequencing

CONSTANTS HistoryLimit,
          VertexNames,   \* names of vertices; bound: how many a draft has
          MaxBreaks      \* bound: breaks kept, duplicates included

ASSUME DraftAssumption == HistoryLimit \in Nat \ {0}

VARIABLES
  current,    \* [points, breaks, laps]
  undoStack, redoStack

draftVars == <<current, undoStack, redoStack>>

(* createTrackDraft(from): the breaks are where later segments begin.      *)
Seeded(segments, laps, points) ==
  [points |-> points,
   breaks |-> [i \in 1..(Len(segments) - 1) |-> segments[i + 1].startIndex],
   laps |-> laps]

Blank == [points |-> << >>, breaks |-> << >>, laps |-> << >>]

DraftInit(beginnings) ==
  /\ current \in beginnings
  /\ undoStack = << >> /\ redoStack = << >>

Vertices(draft) == {draft.points[i] : i \in DOMAIN draft.points}

NewVertices == VertexNames \ Vertices(current)

-----------------------------------------------------------------------------
(* commit: the one path of every edit.                                     *)

Pushed(stack, state) ==
  LET longer == Append(stack, state)
  IN IF Len(longer) > HistoryLimit THEN Tail(longer) ELSE longer

Commit(next) ==
  /\ undoStack' = Pushed(undoStack, current)
  /\ redoStack' = << >>
  /\ current' = next

(* shiftLaps: a lap that no longer describes a span is dropped.            *)
Spanning(laps, count) ==
  Picked(laps, {i \in DOMAIN laps : /\ laps[i].startIndex >= 1
                                    /\ laps[i].endIndex >= laps[i].startIndex
                                    /\ laps[i].endIndex <= count})

Shifted(sequence, Shift(_)) == [i \in DOMAIN sequence |-> Shift(sequence[i])]

Inserted(index, vertex) ==
  LET after(i) == IF i >= index THEN i + 1 ELSE i
      move(lap) == [lap EXCEPT !.startIndex = after(@), !.endIndex = after(@)]
      points == SubSeq(current.points, 1, index - 1) \o <<vertex>>
                  \o SubSeq(current.points, index, Len(current.points))
  IN [points |-> points,
      breaks |-> Shifted(current.breaks, after),
      laps |-> Spanning(Shifted(current.laps, move), Len(points))]

(* Mutated: a break at the removed vertex moves to the one before it.      *)
BreakAfterRemovalLeft(b, index) == IF b >= index THEN b - 1 ELSE b

(* A break at the removed vertex stays: the next vertex begins its segment.*)
BreakAfterRemoval(b, index) == IF b > index THEN b - 1 ELSE b

Separates(b, count) == b > 1 /\ b <= count

Removed(index) ==
  LET count == Len(current.points) - 1
      before(b) == BreakAfterRemoval(b, index)
      breaks == Shifted(current.breaks, before)
      move(lap) == [lap EXCEPT !.startIndex = IF @ > index THEN @ - 1 ELSE @,
                               !.endIndex = IF @ >= index THEN @ - 1 ELSE @]
  IN [points |-> SubSeq(current.points, 1, index - 1)
                   \o SubSeq(current.points, index + 1, count + 1),
      breaks |-> Picked(breaks, {i \in DOMAIN breaks : Separates(breaks[i], count)}),
      laps |-> Spanning(Shifted(current.laps, move), count)]

Broken(index) ==
  LET breaks == current.breaks
  IN Picked(breaks, {i \in DOMAIN breaks : breaks[i] < index}) \o <<index>>
       \o Picked(breaks, {i \in DOMAIN breaks : breaks[i] > index})

-----------------------------------------------------------------------------
(* Edits.  One that is rejected throws before anything has changed.        *)

AppendVertex ==
  \E vertex \in NewVertices : Commit([current EXCEPT !.points = Append(@, vertex)])

InsertAt(index) ==
  /\ index \in 1..(Len(current.points) + 1)
  /\ \E vertex \in NewVertices : Commit(Inserted(index, vertex))

RemoveAt(index) ==
  /\ index \in DOMAIN current.points
  /\ Commit(Removed(index))

BreakAt(index) ==
  /\ index \in 2..Len(current.points)
  /\ \A i \in DOMAIN current.breaks : current.breaks[i] # index
  /\ Len(current.breaks) < MaxBreaks
  /\ Commit([current EXCEPT !.breaks = Broken(index)])

(* moveAt, setTimeAt and interpolateTimes.                                 *)
MoveAt(index) ==
  /\ index \in DOMAIN current.points
  /\ Commit(current)

Undo ==
  /\ undoStack # << >>
  /\ current' = undoStack[Len(undoStack)]
  /\ undoStack' = SubSeq(undoStack, 1, Len(undoStack) - 1)
  /\ redoStack' = Append(redoStack, current)

Redo ==
  /\ redoStack # << >>
  /\ current' = redoStack[Len(redoStack)]
  /\ redoStack' = SubSeq(redoStack, 1, Len(redoStack) - 1)
  /\ undoStack' = Append(undoStack, current)

-----------------------------------------------------------------------------
(* toTrack, as far as it is about structure.                               *)

Spans(draft) ==
  LET bounds == <<1>> \o draft.breaks \o <<Len(draft.points) + 1>>
  IN [i \in 1..(Len(bounds) - 1) |->
        [startIndex |-> bounds[i], endIndex |-> bounds[i + 1] - 1]]

(* Mutated: a range between two equal breaks is kept.                      *)
RangesWithEmpty(draft) == IF draft.points = << >> THEN << >> ELSE Spans(draft)

(* segmentRanges: an empty range between two breaks is skipped.            *)
Ranges(draft) ==
  IF draft.points = << >> THEN << >>
  ELSE LET spans == Spans(draft)
       IN Picked(spans, {i \in DOMAIN spans : spans[i].endIndex >= spans[i].startIndex})

-----------------------------------------------------------------------------
(* Properties.                                                             *)

(* toTrack: whatever edits led to a draft, finalizeTrack can refuse it     *)
(* only for its times: the segments it is promoted with cover every vertex *)
(* once and in order, and its laps lie within them.                        *)
PromotionNeedsOnlyTimes ==
  /\ SegmentRanges(current.points, Ranges(current))
  /\ SegmentsCoverPoints(current.points, Ranges(current))
  /\ LapRanges(current.points, current.laps)

(* Which vertices lie between two indices.                                 *)
Between(draft, range) == {draft.points[i] : i \in range.startIndex..range.endIndex}

Together(draft) ==
  LET ranges == Ranges(draft) IN {Between(draft, ranges[i]) : i \in DOMAIN ranges}

LapMembers(draft, id) ==
  UNION {Between(draft, draft.laps[i]) : i \in {j \in DOMAIN draft.laps : draft.laps[j].id = id}}

(* insertAt, append and removeAt: an edit that adds or removes a vertex    *)
(* leaves every other vertex in the company it was in: no segment loses,   *)
(* gains or is cut by another one's vertex, and a lap keeps its own.       *)
SpansKept ==
  [][(\E i \in 1..(Len(current.points) + 1) : InsertAt(i) \/ RemoveAt(i)) \/ AppendVertex =>
       LET both == Vertices(current) \cap Vertices(current')
           kept(draft) == {s \cap both : s \in Together(draft)} \ {{}}
       IN /\ kept(current) = kept(current')
          /\ \A i \in DOMAIN current.laps :
               LET id == current.laps[i].id
               IN LapMembers(current, id) \cap both = LapMembers(current', id) \cap both]_draftVars
=============================================================================
