--------------------------- MODULE TrackDraftHook ---------------------------
(***************************************************************************)
(* The draft hook of packages/react/src/use-track-draft.ts: the draft of a *)
(* component, rebuilt when the id of the track it edits changes, and the   *)
(* id its saves go under.  Of a draft only the id it was seeded with is    *)
(* kept; what its edits do is Draft's.  The store's answer to a save       *)
(* changes nothing here: it may come at any time, be a rejection of a      *)
(* write that landed, or never come.                                       *)
(***************************************************************************)
EXTENDS Naturals, Sequences

CONSTANTS MaxDrafts,  \* bound: drafts built
          MaxSaves    \* bound: saves begun

ASSUME TrackDraftHookAssumption == {MaxDrafts, MaxSaves} \subseteq Nat

(* Ids are numbers: 1 is a trip stored before, and finalizeTrack mints the *)
(* next number no trip has.                                                *)
NoId == 0

VARIABLES
  seeds,      \* of every draft built, the id it was seeded with, or NoId
  draftDue,   \* the newest draft's effect has not run
  adoptedId,  \* the ref
  astray,     \* ghost: a save that stands apart put that id there
  ids,        \* ids there are
  saves       \* sequence of [draft, id, apart]; apart is a ghost

savesVars == <<seeds, draftDue, adoptedId, astray, ids, saves>>

DraftHookInit ==
  /\ seeds \in {<<NoId>>, <<1>>}
  /\ draftDue = TRUE
  /\ adoptedId = NoId
  /\ astray = FALSE
  /\ ids = 1
  /\ saves = << >>

(* A render with another from.id; with the same one the draft is kept.     *)
(* React runs the effects of a render before it renders again.             *)
RenderFrom ==
  /\ ~draftDue
  /\ Len(seeds) < MaxDrafts
  /\ \E seed \in 0..ids : seed # seeds[Len(seeds)] /\ seeds' = Append(seeds, seed)
  /\ draftDue' = TRUE
  /\ UNCHANGED <<adoptedId, astray, ids, saves>>

IdForgotten == NoId

DraftEffect ==
  /\ draftDue
  /\ draftDue' = FALSE
  /\ adoptedId' = IdForgotten
  /\ astray' = FALSE
  /\ UNCHANGED <<seeds, ids, saves>>

(* toTrack: the id given, the seed, or a new one.                          *)
TrackId(d) ==
  IF adoptedId # NoId THEN adoptedId ELSE IF seeds[d] # NoId THEN seeds[d] ELSE ids + 1

(* Mutated: the id of a write that is still to be answered is not adopted. *)
AdoptedWhenStored(id) == adoptedId

Adopted(id) == id

(* A save stands apart when it is of an earlier draft, by a callback kept  *)
(* from an earlier render; when it comes between a render and its effect,  *)
(* where the ref still has the id of the draft before; and when it reads   *)
(* the id a save of these kinds has put there.                             *)
StandsApart(d) ==
  \/ d # Len(seeds)
  \/ draftDue
  \/ adoptedId # NoId /\ astray

(* A save of a draft every point of which has a time.                      *)
SaveDraft(d) ==
  /\ Len(saves) < MaxSaves
  /\ LET id == TrackId(d)
     IN /\ ids' = IF id > ids THEN id ELSE ids
        /\ adoptedId' = Adopted(id)
        /\ astray' = IF adoptedId = NoId THEN StandsApart(d) ELSE astray
        /\ saves' = Append(saves, [draft |-> d, id |-> id, apart |-> StandsApart(d)])
  /\ UNCHANGED <<seeds, draftDue>>

DraftHookNext ==
  \/ RenderFrom \/ DraftEffect
  \/ \E d \in DOMAIN seeds : SaveDraft(d)

DraftHookSpec == DraftHookInit /\ [][DraftHookNext]_savesVars

-----------------------------------------------------------------------------
(* Properties.                                                             *)

(* "Adopted before saveTrack is awaited": however its writes end, the      *)
(* saves of one draft go under one id, which is its seed's when it has     *)
(* one, and no draft takes a trip from another.  Saves that stand apart    *)
(* are excepted: they may go under another draft's id.                     *)
OneTripPerDraft ==
  \A n \in DOMAIN saves : ~saves[n].apart =>
    /\ seeds[saves[n].draft] # NoId => saves[n].id = seeds[saves[n].draft]
    /\ \A m \in 1..(n - 1) : ~saves[m].apart =>
         /\ saves[m].draft = saves[n].draft => saves[m].id = saves[n].id
         /\ saves[m].draft # saves[n].draft /\ saves[m].id = saves[n].id =>
              seeds[saves[n].draft] = saves[n].id
=============================================================================
