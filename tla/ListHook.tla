------------------------------- MODULE ListHook -------------------------------
(***************************************************************************)
(* The list hooks of packages/react/src: use-track-list.ts, whose context  *)
(* is a store, and use-event-log.ts, whose context is a store and a trip.  *)
(* Either lists what its context holds when it is given one, on refresh    *)
(* (use-track-list only) and after every change made through it, and only  *)
(* use-track-list says that it is loading.                                 *)
(*                                                                         *)
(* What a context holds is the number of changes it has seen.  A call that *)
(* was made by a callback of an earlier render, which knows that render's  *)
(* context, is "late".                                                     *)
(***************************************************************************)
EXTENDS Naturals, FiniteSets

CONSTANTS Contexts,
          MaxContexts,  \* bound: renders with another context
          MaxChanges,   \* bound: changes begun
          MaxLists      \* bound: lists asked for

ASSUME ListHookAssumption == {MaxContexts, MaxChanges, MaxLists} \subseteq Nat

VARIABLES
  bound,       \* the context last rendered
  listDue,     \* its effect has not run
  contextRef,  \* context.current
  issuedRef,   \* issued.current
  loading,
  listed,      \* what is shown: [context, holds]
  holds,       \* [context -> what it holds]
  lists,       \* lists under way: [number, context, late, read]
  edits,       \* changes under way: [number, context, at, late]
  unseen,      \* the newest list failed, or an earlier render's callback asked for it
  unlisted,    \* a change landed that no list was issued after
  spent        \* [renders, edits]

listVars == <<bound, listDue, contextRef, issuedRef, loading, listed, holds,
              lists, edits, unseen, unlisted, spent>>

NotRead == 99
Nobody == [context |-> "none", holds |-> 0]

ListInit ==
  /\ bound \in Contexts
  /\ listDue = TRUE
  /\ contextRef = 0 /\ issuedRef = 0
  /\ loading = TRUE
  /\ listed = Nobody
  /\ holds = [c \in Contexts |-> 0]
  /\ lists = {} /\ edits = {}
  /\ unseen = FALSE /\ unlisted = FALSE
  /\ spent = [renders |-> 0, edits |-> 0]

(* The contexts a callback was ever rendered with.                         *)
Known == IF spent.renders = 0 THEN {bound} ELSE Contexts

RenderContext ==
  /\ ~listDue
  /\ spent.renders < MaxContexts
  /\ bound' \in Contexts \ {bound}
  /\ listDue' = TRUE
  /\ spent' = [spent EXCEPT !.renders = @ + 1]
  /\ UNCHANGED <<contextRef, issuedRef, loading, listed, holds, lists, edits, unseen, unlisted>>

-----------------------------------------------------------------------------
(* load().                                                                 *)

Load(c, late) ==
  /\ issuedRef < MaxLists
  /\ issuedRef' = issuedRef + 1
  /\ loading' = TRUE
  /\ unlisted' = FALSE
  /\ lists' = lists \cup {[number |-> issuedRef + 1, context |-> c, late |-> late, read |-> NotRead]}

ListEffect ==
  /\ listDue
  /\ listDue' = FALSE
  /\ contextRef' = contextRef + 1
  /\ Load(bound, FALSE)
  /\ UNCHANGED <<bound, listed, holds, edits, unseen, spent>>

Refresh(c) ==
  /\ ~listDue
  /\ Load(c, c # bound)
  /\ UNCHANGED <<bound, listDue, contextRef, listed, holds, edits, unseen, spent>>

ReadList(l) ==
  /\ l.read = NotRead
  /\ lists' = (lists \ {l}) \cup {[l EXCEPT !.read = holds[l.context]]}
  /\ UNCHANGED <<bound, listDue, contextRef, issuedRef, loading, listed, holds, edits, unseen, unlisted, spent>>

(* Mutated: whichever list is answered ends the loading.                   *)
AnyList(l) == TRUE

NewestList(l) == l.number = issuedRef

ListAnswers(l) ==
  /\ l.read # NotRead
  /\ lists' = lists \ {l}
  /\ IF NewestList(l)
       THEN listed' = [context |-> l.context, holds |-> l.read] /\ loading' = FALSE /\ unseen' = l.late
       ELSE UNCHANGED <<listed, loading, unseen>>
  /\ UNCHANGED <<bound, listDue, contextRef, issuedRef, holds, edits, unlisted, spent>>

(* A list that fails leaves what is shown.                                 *)
ListRejects(l) ==
  /\ lists' = lists \ {l}
  /\ IF NewestList(l) THEN loading' = FALSE /\ unseen' = TRUE ELSE UNCHANGED <<loading, unseen>>
  /\ UNCHANGED <<bound, listDue, contextRef, issuedRef, listed, holds, edits, unlisted, spent>>

-----------------------------------------------------------------------------
(* remove(), addEvent(), updateEvent() and deleteEvent().                  *)

BeginEdit(c) ==
  /\ ~listDue
  /\ spent.edits < MaxChanges
  /\ spent' = [spent EXCEPT !.edits = @ + 1]
  /\ edits' = edits \cup {[number |-> spent.edits, context |-> c, at |-> contextRef, late |-> c # bound]}
  /\ UNCHANGED <<bound, listDue, contextRef, issuedRef, loading, listed, holds, lists, unseen, unlisted>>

StillCurrent(e) == contextRef = e.at

EditLands(e) ==
  /\ edits' = edits \ {e}
  /\ holds' = [holds EXCEPT ![e.context] = @ + 1]
  /\ IF StillCurrent(e)
       THEN Load(e.context, e.late)
       ELSE unlisted' = TRUE /\ UNCHANGED <<issuedRef, loading, lists>>
  /\ UNCHANGED <<bound, listDue, contextRef, listed, unseen, spent>>

EditRejects(e) ==
  /\ edits' = edits \ {e}
  /\ UNCHANGED <<bound, listDue, contextRef, issuedRef, loading, listed, holds, lists, unseen, unlisted, spent>>

ListNext ==
  \/ RenderContext \/ ListEffect
  \/ \E c \in Known : Refresh(c) \/ BeginEdit(c)
  \/ \E l \in lists : ReadList(l) \/ ListAnswers(l) \/ ListRejects(l)
  \/ \E e \in edits : EditLands(e) \/ EditRejects(e)

ListSpec == ListInit /\ [][ListNext]_listVars

-----------------------------------------------------------------------------
(* Properties.                                                             *)

(* load and its two guards: with nothing under way, what is shown is what  *)
(* the rendered context holds, unless the newest list failed or was asked  *)
(* for by a callback of an earlier render, or a change landed in another   *)
(* context than it was begun in; and "loading" lasts exactly as long as    *)
(* the list is under way whose answer will be shown.                       *)
ListIsFresh ==
  ~listDue =>
    /\ loading <=> \E l \in lists : l.number = issuedRef
    /\ lists = {} /\ edits = {} /\ ~unseen /\ ~unlisted =>
         listed = [context |-> bound, holds |-> holds[bound]]
=============================================================================
