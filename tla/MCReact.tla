------------------------------- MODULE MCReact -------------------------------
(***************************************************************************)
(* The bindings of packages/react that keep state across awaits, checked   *)
(* side by side: a behaviour is of one of them, and the others stay at     *)
(* rest.  The files a user may choose are interchangeable.                 *)
(***************************************************************************)
EXTENDS TrackRecorderHook, EventComposer, ReviewPhotos, TrackDraftHook, ListHook, TLC

VARIABLE part

reactVars == <<part, vars, composerVars, photoVars, savesVars, listVars>>

FileSymmetry == Permutations(Files)

IsPart(p, atRest) == part = p \/ atRest

ReactInit ==
  /\ part \in {"recorder", "composer", "photos", "draft", "list"}
  /\ Init
  /\ ComposerInit /\ IsPart("composer", view.analyzer = None)
  /\ PhotosInit /\ IsPart("photos", asked.keys = {} /\ asked.store = "trips")
  /\ DraftHookInit /\ IsPart("draft", seeds = <<NoId>>)
  /\ ListInit /\ IsPart("list", bound = "trips")

ReactNext ==
  /\ UNCHANGED part
  /\ \/ /\ part = "recorder" /\ Next
        /\ UNCHANGED <<composerVars, photoVars, savesVars, listVars>>
     \/ /\ part = "composer" /\ ComposerNext
        /\ UNCHANGED <<vars, photoVars, savesVars, listVars>>
     \/ /\ part = "photos" /\ PhotosNext
        /\ UNCHANGED <<vars, composerVars, savesVars, listVars>>
     \/ /\ part = "draft" /\ DraftHookNext
        /\ UNCHANGED <<vars, composerVars, photoVars, listVars>>
     \/ /\ part = "list" /\ ListNext
        /\ UNCHANGED <<vars, composerVars, photoVars, savesVars>>

ReactSpec == ReactInit /\ [][ReactNext]_reactVars
=============================================================================
