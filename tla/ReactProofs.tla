------------------------------ MODULE ReactProofs ------------------------------
(***************************************************************************)
(* What the bindings that keep state across awaits owe their users, for    *)
(* any number of renders, calls, answers and changes: a list shown is the  *)
(* newest there is of the context rendered, a photo is of the review that  *)
(* shows it, a drawing is stored as one trip, a composition ends once and  *)
(* tells of the photo it holds, and the recorder hook listens to the       *)
(* recorder it holds.                                                      *)
(***************************************************************************)
EXTENDS TrackRecorderHook, EventComposer, ReviewPhotos, TrackDraftHook, ListHook,
        WellFoundedInduction, SequenceTheorems, TLAPS

-----------------------------------------------------------------------------
(* The lists of trips and of events.                                       *)

ListFields == {"number", "context", "late", "read"}

(* A context rendered now, or one that an effect will list anew.           *)
Bound(c) == c = bound \/ listDue

(* The newest list is of the context rendered, unless a callback of an     *)
(* earlier render asked for it, and what it read is what there is, unless  *)
(* a change landed that no list was asked for after.                       *)
ListInv(l) ==
  /\ DOMAIN l = ListFields
  /\ l.number \in 1..issuedRef /\ l.context \in Contexts
  /\ l.number = issuedRef /\ ~l.late => Bound(l.context)
  /\ l.number = issuedRef /\ l.read # NotRead /\ ~unlisted => l.read = holds[l.context]

(* So is the one a change of this context will ask for.                    *)
EditInv(e) ==
  /\ e.context \in Contexts
  /\ e.at \in Nat /\ e.at <= contextRef
  /\ e.at = contextRef /\ ~e.late => Bound(e.context)

NewestUnderWay == \E l \in lists : l.number = issuedRef

ListingInv ==
  /\ issuedRef \in Nat /\ contextRef \in Nat /\ bound \in Contexts
  /\ loading \in BOOLEAN
  /\ DOMAIN holds = Contexts
  /\ \A l \in lists : ListInv(l)
  /\ \A l, k \in lists : l.number = k.number => l = k
  /\ \A e \in edits : EditInv(e)
  /\ ~listDue => issuedRef # 0
  /\ issuedRef # 0 => (loading <=> NewestUnderWay)
  /\ issuedRef # 0 /\ ~NewestUnderWay /\ ~unseen /\ ~unlisted =>
       \E c \in Contexts : Bound(c) /\ listed = [context |-> c, holds |-> holds[c]]

LEMMA ListStart == ListInit => ListingInv
BY DEF ListInit, ListingInv

(* load() asks for a list of the context rendered, or late: it is the      *)
(* newest.                                                                 *)
LEMMA LoadKeeps ==
  ASSUME ListingInv, NEW c \in Contexts, NEW late, Load(c, late),
         late \/ Bound(c)', contextRef' \in Nat, contextRef <= contextRef', bound' \in Contexts,
         DOMAIN holds' = Contexts,
         \A e \in edits' : EditInv(e)'
  PROVE  ListingInv'
<1>1. /\ issuedRef \in Nat /\ contextRef \in Nat
      /\ \A l \in lists :
           DOMAIN l = ListFields /\ l.number \in 1..issuedRef /\ l.context \in Contexts
      /\ \A l, k \in lists : l.number = k.number => l = k
  BY DEF ListingInv, ListInv
<1>2. PICK d : d = [number |-> issuedRef + 1, context |-> c, late |-> late, read |-> NotRead]
  OBVIOUS
<1>3. /\ DOMAIN d = ListFields /\ d.number = issuedRef + 1 /\ d.context = c
      /\ d.late = late /\ d.read = NotRead
  BY <1>2 DEF ListFields
<1>4. issuedRef' = issuedRef + 1 /\ loading' = TRUE /\ lists' = lists \cup {d}
  BY <1>2 DEF Load
<1>5. (ListInv(d))'
  BY <1>1, <1>3, <1>4 DEF ListInv
<1>6. ASSUME NEW l \in lists PROVE (ListInv(l))'
  BY <1>1, <1>4, <1>6 DEF ListInv
<1>7. \A l \in lists' : ListInv(l)'
  BY <1>4, <1>5, <1>6
<1>8. \A l, k \in lists' : l.number = k.number => l = k
  BY <1>1, <1>3, <1>4
<1>9. NewestUnderWay'
  BY <1>3, <1>4 DEF NewestUnderWay
<1>10. issuedRef' \in Nat /\ issuedRef' # 0
  BY <1>1, <1>4
<1>11. QED
  BY <1>4, <1>7, <1>8, <1>9, <1>10 DEF ListingInv

(* A list that ends leaves the others.                                     *)
LEMMA ListEndsKeeps ==
  ASSUME ListingInv, NEW l \in lists, ListAnswers(l) \/ ListRejects(l)
  PROVE  ListingInv'
<1>1. /\ bound' = bound /\ listDue' = listDue /\ contextRef' = contextRef /\ issuedRef' = issuedRef
      /\ holds' = holds /\ edits' = edits /\ unlisted' = unlisted /\ lists' = lists \ {l}
  BY DEF ListAnswers, ListRejects
<1>2. /\ issuedRef \in Nat /\ contextRef \in Nat /\ bound \in Contexts /\ DOMAIN holds = Contexts
      /\ loading \in BOOLEAN
      /\ \A k \in lists : ListInv(k)
      /\ \A k, m \in lists : k.number = m.number => k = m
      /\ \A e \in edits : EditInv(e)
      /\ ~listDue => issuedRef # 0
      /\ issuedRef # 0 => (loading <=> NewestUnderWay)
      /\ issuedRef # 0 /\ ~NewestUnderWay /\ ~unseen /\ ~unlisted =>
           \E c \in Contexts : Bound(c) /\ listed = [context |-> c, holds |-> holds[c]]
  BY DEF ListingInv
<1>3. ListInv(l) /\ issuedRef # 0
  BY <1>2 DEF ListInv
<1>4. \A k \in lists' : ListInv(k)'
  BY <1>1, <1>2 DEF ListInv, Bound
<1>5. \A e \in edits' : EditInv(e)'
  BY <1>1, <1>2 DEF EditInv, Bound
<1>6. CASE l.number = issuedRef
  <2>1. ~NewestUnderWay'
    BY <1>1, <1>2, <1>6 DEF NewestUnderWay
  <2>2. loading' = FALSE
    BY <1>6 DEF ListAnswers, ListRejects, NewestList
  <2>3. ~unseen' /\ ~unlisted' =>
          \E c \in Contexts : Bound(c)' /\ listed' = [context |-> c, holds |-> holds'[c]]
    <3>1. SUFFICES ASSUME ~unseen', ~unlisted'
                   PROVE  \E c \in Contexts : Bound(c)' /\ listed' = [context |-> c, holds |-> holds'[c]]
      OBVIOUS
    <3>2. /\ listed' = [context |-> l.context, holds |-> l.read] /\ unseen' = l.late
          /\ l.read # NotRead
      BY <1>6, <3>1 DEF ListAnswers, ListRejects, NewestList
    <3>3. Bound(l.context) /\ l.read = holds[l.context] /\ l.context \in Contexts
      BY <1>1, <1>3, <1>6, <3>1, <3>2 DEF ListInv
    <3>4. QED
      BY <1>1, <3>2, <3>3 DEF Bound
  <2>4. QED
    BY <1>1, <1>2, <1>4, <1>5, <2>1, <2>2, <2>3 DEF ListingInv
<1>7. CASE l.number # issuedRef
  <2>1. /\ NewestUnderWay' <=> NewestUnderWay
        /\ loading' = loading /\ listed' = listed /\ unseen' = unseen
    BY <1>1, <1>7 DEF NewestUnderWay, ListAnswers, ListRejects, NewestList
  <2>2. \A c : Bound(c)' <=> Bound(c)
    BY <1>1 DEF Bound
  <2>3. QED
    BY <1>1, <1>2, <1>4, <1>5, <2>1, <2>2 DEF ListingInv
<1>8. QED
  BY <1>6, <1>7

(* A list reads what its context holds.                                    *)
LEMMA ReadKeeps ==
  ASSUME ListingInv, NEW l \in lists, ReadList(l)
  PROVE  ListingInv'
<1>1. /\ bound' = bound /\ listDue' = listDue /\ contextRef' = contextRef /\ issuedRef' = issuedRef
      /\ holds' = holds /\ edits' = edits /\ unlisted' = unlisted /\ unseen' = unseen
      /\ loading' = loading /\ listed' = listed
  BY DEF ReadList
<1>2. /\ \A k \in lists : ListInv(k)
      /\ \A k, m \in lists : k.number = m.number => k = m
      /\ \A e \in edits : EditInv(e)
  BY DEF ListingInv
<1>3. PICK d : d = [l EXCEPT !.read = holds[l.context]]
  OBVIOUS
<1>4. /\ DOMAIN d = ListFields /\ d.number = l.number /\ d.context = l.context
      /\ d.late = l.late /\ d.read = holds[l.context]
  BY <1>2, <1>3 DEF ListInv, ListFields
<1>5. lists' = (lists \ {l}) \cup {d}
  BY <1>3 DEF ReadList
<1>6. \A k \in lists' : ListInv(k)'
  <2>1. (ListInv(d))'
    BY <1>1, <1>2, <1>4 DEF ListInv, Bound
  <2>2. \A k \in lists : ListInv(k)'
    BY <1>1, <1>2 DEF ListInv, Bound
  <2>3. QED
    BY <1>5, <2>1, <2>2
<1>7. \A k, m \in lists' : k.number = m.number => k = m
  BY <1>2, <1>4, <1>5
<1>8. NewestUnderWay' <=> NewestUnderWay
  BY <1>1, <1>4, <1>5 DEF NewestUnderWay
<1>9. \A e \in edits' : EditInv(e)'
  BY <1>1, <1>2 DEF EditInv, Bound
<1>10. \A c : Bound(c)' <=> Bound(c)
  BY <1>1 DEF Bound
<1>11. QED
  BY <1>1, <1>6, <1>7, <1>8, <1>9, <1>10 DEF ListingInv

(* A change of the context that is still rendered asks for a list; another *)
(* leaves what is shown behind.                                            *)
LEMMA LandsKeeps ==
  ASSUME ListingInv, NEW e \in edits, EditLands(e)
  PROVE  ListingInv'
<1>1. /\ bound' = bound /\ listDue' = listDue /\ contextRef' = contextRef
      /\ listed' = listed /\ unseen' = unseen /\ edits' = edits \ {e}
      /\ holds' = [holds EXCEPT ![e.context] = @ + 1]
  BY DEF EditLands
<1>2. /\ bound \in Contexts /\ contextRef \in Nat /\ DOMAIN holds = Contexts
      /\ \A k \in lists : ListInv(k)
      /\ \A k, m \in lists : k.number = m.number => k = m
      /\ \A f \in edits : EditInv(f)
  BY DEF ListingInv
<1>3. \A f \in edits' : EditInv(f)'
  BY <1>1, <1>2 DEF EditInv, Bound
<1>4. DOMAIN holds' = Contexts
  BY <1>1, <1>2
<1>5. CASE StillCurrent(e)
  <2>1. Load(e.context, e.late)
    BY <1>5 DEF EditLands
  <2>2. e.context \in Contexts /\ (e.late \/ (Bound(e.context))')
    BY <1>1, <1>2, <1>5 DEF EditInv, StillCurrent, Bound
  <2>3. QED
    BY <1>1, <1>2, <1>3, <1>4, <2>1, <2>2, LoadKeeps
<1>6. CASE ~StillCurrent(e)
  <2>1. unlisted' = TRUE /\ issuedRef' = issuedRef /\ loading' = loading /\ lists' = lists
    BY <1>6 DEF EditLands
  <2>2. \A k \in lists' : ListInv(k)'
    BY <1>1, <1>2, <2>1 DEF ListInv, Bound
  <2>3. NewestUnderWay' <=> NewestUnderWay
    BY <2>1 DEF NewestUnderWay
  <2>4. QED
    BY <1>1, <1>2, <1>3, <1>4, <2>1, <2>2, <2>3 DEF ListingInv
<1>7. QED
  BY <1>5, <1>6

(* A change begins in the context of the callback that makes it.           *)
LEMMA EditsKeep ==
  ASSUME ListingInv,
         (\E c \in Known : BeginEdit(c)) \/ \E e \in edits : EditRejects(e)
  PROVE  ListingInv'
<1>1. /\ bound' = bound /\ listDue' = listDue /\ contextRef' = contextRef /\ issuedRef' = issuedRef
      /\ loading' = loading /\ listed' = listed /\ holds' = holds /\ lists' = lists
      /\ unseen' = unseen /\ unlisted' = unlisted
  BY DEF BeginEdit, EditRejects
<1>2. \A c : Bound(c)' <=> Bound(c)
  BY <1>1 DEF Bound
<1>3. bound \in Contexts /\ contextRef \in Nat /\ \A e \in edits : EditInv(e)
  BY DEF ListingInv
<1>4. \A e \in edits' : e \in edits \/ EditInv(e)
  <2>1. CASE \E e \in edits : EditRejects(e)
    BY <2>1 DEF EditRejects
  <2>2. CASE \E c \in Known : BeginEdit(c)
    <3>1. PICK c \in Contexts : BeginEdit(c)
      BY <1>3, <2>2 DEF Known
    <3>2. PICK d : d = [number |-> spent.edits, context |-> c, at |-> contextRef, late |-> c # bound]
      OBVIOUS
    <3>3. d.context = c /\ d.at = contextRef /\ d.late = (c # bound)
      BY <3>2
    <3>4. ~d.late => d.context = bound
      BY <3>3
    <3>5. EditInv(d)
      <4>1. d.context \in Contexts /\ d.at \in Nat /\ d.at <= contextRef
        BY <1>3, <3>3
      <4>2. d.late \/ Bound(d.context)
        BY <3>4 DEF Bound
      <4>3. QED
        BY <4>1, <4>2, <3>4 DEF EditInv, Bound
    <3>6. QED
      BY <3>1, <3>2, <3>5 DEF BeginEdit
  <2>3. QED
    BY <2>1, <2>2
<1>5. \A e \in edits' : EditInv(e)'
  BY <1>1, <1>2, <1>3, <1>4 DEF EditInv
<1>6. \A l \in lists : ListInv(l)'
  BY <1>1, <1>2 DEF ListingInv, ListInv
<1>7. NewestUnderWay' <=> NewestUnderWay
  BY <1>1 DEF NewestUnderWay
<1>8. QED
  BY <1>1, <1>2, <1>5, <1>6, <1>7 DEF ListingInv

(* Another context is listed by its effect, and until then all is open.    *)
LEMMA ContextsKeep ==
  ASSUME ListingInv, RenderContext \/ ListEffect \/ \E c \in Known : Refresh(c)
  PROVE  ListingInv'
<1>1. /\ bound \in Contexts /\ contextRef \in Nat /\ DOMAIN holds = Contexts
      /\ \A l \in lists : ListInv(l)
      /\ \A e \in edits : EditInv(e)
  BY DEF ListingInv
<1>2. CASE RenderContext
  <2>1. /\ bound' \in Contexts /\ listDue' = TRUE /\ contextRef' = contextRef
        /\ issuedRef' = issuedRef /\ loading' = loading /\ listed' = listed /\ holds' = holds
        /\ lists' = lists /\ edits' = edits /\ unseen' = unseen /\ unlisted' = unlisted
    BY <1>2 DEF RenderContext
  <2>2. \A c : Bound(c)'
    BY <2>1 DEF Bound
  <2>3. (\A l \in lists : ListInv(l)') /\ \A e \in edits : EditInv(e)'
    BY <1>1, <2>1, <2>2 DEF ListInv, EditInv
  <2>4. NewestUnderWay' <=> NewestUnderWay
    BY <2>1 DEF NewestUnderWay
  <2>5. QED
    BY <2>1, <2>2, <2>3, <2>4 DEF ListingInv
<1>3. CASE ListEffect
  <2>1. /\ Load(bound, FALSE) /\ bound' = bound /\ listDue' = FALSE
        /\ contextRef' = contextRef + 1 /\ holds' = holds /\ edits' = edits
    BY <1>3 DEF ListEffect
  <2>2. (Bound(bound))' /\ \A e \in edits : EditInv(e)'
    BY <1>1, <2>1 DEF EditInv, Bound
  <2>3. Bound(bound)'
    BY <2>1 DEF Bound
  <2>4. PICK c \in Contexts : c = bound
    BY <1>1
  <2>5. Load(c, FALSE) /\ (FALSE \/ (Bound(c))')
    BY <2>1, <2>4 DEF Bound
  <2>6. contextRef' \in Nat /\ contextRef <= contextRef' /\ bound' \in Contexts
    BY <1>1, <2>1
  <2>7. QED
    BY <1>1, <2>1, <2>2, <2>5, <2>6, LoadKeeps
<1>4. CASE \E c \in Known : Refresh(c)
  <2>1. PICK c \in Contexts : Refresh(c)
    BY <1>1, <1>4 DEF Known
  <2>2. /\ bound' = bound /\ listDue' = listDue /\ contextRef' = contextRef
        /\ holds' = holds /\ edits' = edits
    BY <2>1 DEF Refresh
  <2>3. PICK late : late = (c # bound)
    OBVIOUS
  <2>4. Load(c, late)
    BY <2>1, <2>3 DEF Refresh
  <2>5. late \/ (Bound(c))'
    BY <2>2, <2>3 DEF Bound
  <2>6. \A e \in edits' : EditInv(e)'
    BY <1>1, <2>2 DEF EditInv, Bound
  <2>7. QED
    BY <1>1, <2>2, <2>4, <2>5, <2>6, LoadKeeps
<1>5. QED
  BY <1>2, <1>3, <1>4

LEMMA ListsKeep == ListingInv /\ [ListNext]_listVars => ListingInv'
<1> SUFFICES ASSUME ListingInv, [ListNext]_listVars PROVE ListingInv'
  OBVIOUS
<1>1. CASE RenderContext \/ ListEffect \/ \E c \in Known : Refresh(c)
  BY <1>1, ContextsKeep
<1>2. CASE (\E c \in Known : BeginEdit(c)) \/ \E e \in edits : EditRejects(e)
  BY <1>2, EditsKeep
<1>3. CASE \E l \in lists : ReadList(l) \/ ListAnswers(l) \/ ListRejects(l)
  BY <1>3, ReadKeeps, ListEndsKeeps
<1>4. CASE \E e \in edits : EditLands(e)
  BY <1>4, LandsKeeps
<1>5. CASE UNCHANGED listVars
  <2>1. /\ bound' = bound /\ listDue' = listDue /\ contextRef' = contextRef
        /\ issuedRef' = issuedRef /\ loading' = loading /\ listed' = listed /\ holds' = holds
        /\ lists' = lists /\ edits' = edits /\ unseen' = unseen /\ unlisted' = unlisted
    BY <1>5 DEF listVars
  <2>2. QED
    BY <2>1 DEF ListingInv, ListInv, EditInv, Bound, NewestUnderWay
<1>6. QED
  BY <1>1, <1>2, <1>3, <1>4, <1>5 DEF ListNext

(* The list of trips or of events on show is what the rendered context     *)
(* holds once nothing is under way, and "loading" is told as long as its   *)
(* list is.                                                                *)
THEOREM ListsAreFresh == ListSpec => []ListIsFresh
<1>1. ListInit => ListingInv
  BY ListStart
<1>2. ListingInv /\ [ListNext]_listVars => ListingInv'
  BY ListsKeep
<1>3. ListingInv => ListIsFresh
  <2>1. SUFFICES ASSUME ListingInv, ~listDue PROVE ListIsFresh
    BY DEF ListIsFresh
  <2>2. loading <=> NewestUnderWay
    BY <2>1 DEF ListingInv
  <2>3. ASSUME lists = {}, ~unseen, ~unlisted
        PROVE  listed = [context |-> bound, holds |-> holds[bound]]
    <3>1. ~NewestUnderWay
      BY <2>3 DEF NewestUnderWay
    <3>2. PICK c \in Contexts : Bound(c) /\ listed = [context |-> c, holds |-> holds[c]]
      BY <2>1, <2>3, <3>1 DEF ListingInv
    <3>3. QED
      BY <2>1, <3>2 DEF Bound
  <2>4. QED
    BY <2>2, <2>3 DEF ListIsFresh, NewestUnderWay
<1> QED
  BY <1>1, <1>2, <1>3, PTL DEF ListSpec

-----------------------------------------------------------------------------
(* The photos of a review.                                                 *)

LEMMA LeastKey ==
  ASSUME NEW T \in SUBSET Nat, T # {}
  PROVE  \E x \in T : \A y \in T : x <= y
<1> DEFINE Below == {p \in Nat \X Nat : p[1] < p[2]}
<1>1. IsWellFoundedOn(Below, Nat)
  BY NatLessThanWellFounded, Zenon DEF OpToRel
<1> HIDE DEF Below
<1>2. PICK x \in T : \A y \in T : ~(<<y, x>> \in Below)
  BY <1>1, WFMin
<1>3. \A y \in T : ~(y < x)
  BY <1>2 DEF Below
<1>4. QED
  BY <1>3

LEMMA OnlyKeeps ==
  ASSUME NEW f, NEW keys
  PROVE  /\ DOMAIN Only(f, keys) = DOMAIN f \cap keys
         /\ \A k \in DOMAIN f \cap keys : Only(f, keys)[k] = f[k]
         /\ Answers(Only(f, keys)) \subseteq Answers(f)
BY DEF Only, Answers

LoopFields == {"run", "store", "keys", "reading"}

(* A run that reads on reads the first key there is beyond the last.       *)
LEMMA ReadsOn ==
  ASSUME NEW loop, DOMAIN loop = LoopFields, loop.keys \subseteq PhotoKeys,
         NEW last \in Nat, NEW cached
  PROVE  /\ \A m \in Reading(loop, last, cached) :
              /\ DOMAIN m = LoopFields
              /\ m.run = loop.run /\ m.store = loop.store /\ m.keys = loop.keys
              /\ m.reading \in m.keys /\ m.reading \notin cached
         /\ \A m, n \in Reading(loop, last, cached) : m = n
         /\ \A k \in loop.keys \ cached : k > last =>
              \E m \in Reading(loop, last, cached) : m.reading <= k
<1> DEFINE left == {k \in loop.keys \ cached : k > last}
           next == NextKey(loop.keys, last, cached)
<1>1. left \subseteq Nat /\ 0 \notin left
  BY ReviewPhotosAssumption
<1>2. CASE left = {}
  <2>1. next = 0
    BY <1>2 DEF NextKey
  <2>2. Reading(loop, last, cached) = {}
    BY <2>1 DEF Reading
  <2>3. QED
    BY <1>2, <2>2
<1>3. CASE left # {}
  <2>1. \E x \in left : \A y \in left : x <= y
    BY <1>1, <1>3, LeastKey
  <2>2. next = Min(left)
    BY <1>3 DEF NextKey
  <2>3. next \in left /\ \A y \in left : next <= y
    <3> HIDE DEF left, next
    <3>1. QED
      BY <2>1, <2>2 DEF Min
  <2>4. next # 0
    BY <1>1, <2>3
  <2>5. PICK e : e = [loop EXCEPT !.reading = next]
    OBVIOUS
  <2>6. Reading(loop, last, cached) = {e}
    BY <2>4, <2>5 DEF Reading
  <2>7. /\ DOMAIN e = LoopFields /\ e.reading = next
        /\ e.run = loop.run /\ e.store = loop.store /\ e.keys = loop.keys
    <3> HIDE DEF next
    <3>1. QED
      BY <2>5 DEF LoopFields
  <2>8. next \in loop.keys /\ next \notin cached
    BY <2>3
  <2>9. \A k \in loop.keys \ cached : k > last => next <= k
    BY <2>3
  <2>10. QED
    BY <2>6, <2>7, <2>8, <2>9
<1>4. QED
  BY <1>2, <1>3

(* Runs are numbered, and only the last that was begun may be live.        *)
RunsInv ==
  /\ asked.keys \subseteq PhotoKeys
  /\ DOMAIN made = {"renders", "runs", "urls"} /\ made.runs \in Nat
  /\ liveRun \in Nat /\ liveRun <= made.runs
  /\ \A l \in loops :
       /\ DOMAIN l = LoopFields
       /\ l.run \in Nat /\ l.run >= 1 /\ l.run <= made.runs
       /\ l.keys \subseteq PhotoKeys /\ l.reading \in l.keys
  /\ \A l, m \in loops : l.run = m.run => l = m

(* What is held and shown was answered by the store the caches belong to,  *)
(* for its key; what the live run reads is not held.                       *)
CachesInv ==
  /\ unrevoked = Answers(urls)
  /\ DOMAIN urls \subseteq DOMAIN resolved
  /\ \A k \in DOMAIN resolved :
       /\ resolved[k].store = cacheOwner /\ resolved[k].key = k
       /\ resolved[k].number # 0 => k \in DOMAIN urls /\ urls[k] = resolved[k]
  /\ \A l \in loops : LiveLoop(l) => l.store = cacheOwner /\ l.reading \notin DOMAIN urls
  /\ ~photosLive => liveRun = 0 /\ DOMAIN resolved = {}

(* After its effect, a render has its own keys, shown or being read.       *)
AskedInv ==
  photosLive /\ ~photosDue =>
    /\ cacheOwner = asked.store
    /\ DOMAIN resolved \subseteq asked.keys
    /\ \A l \in loops : LiveLoop(l) => l.keys = asked.keys
    /\ \A k \in asked.keys : k \notin DOMAIN resolved =>
         broken \/ \E l \in loops : LiveLoop(l) /\ l.reading <= k

PhotosInv == RunsInv /\ CachesInv /\ AskedInv

LEMMA PhotosStart == PhotosInit => PhotosInv
<1> SUFFICES ASSUME PhotosInit PROVE PhotosInv
  OBVIOUS
<1>1. /\ loops = {} /\ liveRun = 0 /\ unrevoked = {} /\ photosDue /\ photosLive
      /\ asked.keys \subseteq PhotoKeys /\ made.runs = 0
      /\ DOMAIN made = {"renders", "runs", "urls"}
      /\ DOMAIN urls = {} /\ DOMAIN resolved = {}
  BY DEF PhotosInit
<1>2. Answers(urls) = {}
  BY <1>1 DEF Answers
<1>3. QED
  BY <1>1, <1>2 DEF PhotosInv, RunsInv, CachesInv, AskedInv

(* A run that is not live ends, or the live one does and it is known.      *)
LEMMA RunEnds ==
  ASSUME PhotosInv, NEW loop \in loops, loops' = loops \ {loop},
         UNCHANGED <<asked, photosDue, photosLive, cacheOwner, urls, resolved, liveRun, unrevoked,
                     made>>,
         broken \/ LiveLoop(loop) => broken'
  PROVE  PhotosInv'
<1>1. RunsInv'
  BY DEF PhotosInv, RunsInv
<1>2. CachesInv'
  BY DEF PhotosInv, CachesInv, LiveLoop
<1>3. AskedInv'
  BY DEF PhotosInv, AskedInv, LiveLoop
<1>4. QED
  BY <1>1, <1>2, <1>3 DEF PhotosInv

(* The live run goes on to its next key.                                   *)
LEMMA RunGoesOn ==
  ASSUME PhotosInv, NEW loop \in loops, LiveLoop(loop),
         loops' = (loops \ {loop}) \cup Reading(loop, loop.reading, DOMAIN urls'),
         UNCHANGED <<asked, photosDue, photosLive, cacheOwner, liveRun, broken>>,
         made'.runs = made.runs, DOMAIN made' = DOMAIN made,
         DOMAIN resolved' = DOMAIN resolved \cup {loop.reading},
         DOMAIN urls' \subseteq DOMAIN resolved',
         unrevoked' = Answers(urls'),
         \A k \in DOMAIN resolved' :
           /\ resolved'[k].store = cacheOwner /\ resolved'[k].key = k
           /\ resolved'[k].number # 0 => k \in DOMAIN urls' /\ urls'[k] = resolved'[k]
  PROVE  PhotosInv'
<1> DEFINE more == Reading(loop, loop.reading, DOMAIN urls')
<1>1. /\ DOMAIN loop = LoopFields /\ loop.keys \subseteq PhotoKeys /\ loop.reading \in loop.keys
      /\ loop.run = liveRun /\ loop.run \in Nat /\ loop.run >= 1 /\ loop.run <= made.runs
      /\ loop.store = cacheOwner /\ loop.reading \in Nat
  BY ReviewPhotosAssumption DEF PhotosInv, RunsInv, CachesInv, LiveLoop
<1>2. /\ \A m \in more : /\ DOMAIN m = LoopFields
                         /\ m.run = loop.run /\ m.store = loop.store /\ m.keys = loop.keys
                         /\ m.reading \in m.keys /\ m.reading \notin DOMAIN urls'
      /\ \A m, n \in more : m = n
      /\ \A k \in loop.keys \ DOMAIN urls' : k > loop.reading => \E m \in more : m.reading <= k
  BY <1>1, ReadsOn
<1> HIDE DEF more
<1>3. loops' = (loops \ {loop}) \cup more
  BY DEF more
<1>4. \A l \in loops \ {loop} : l.run # liveRun
  BY <1>1 DEF PhotosInv, RunsInv
<1>5. RunsInv'
  <2>1. ASSUME NEW l \in loops'
        PROVE  /\ DOMAIN l = LoopFields
               /\ l.run \in Nat /\ l.run >= 1 /\ l.run <= made'.runs
               /\ l.keys \subseteq PhotoKeys /\ l.reading \in l.keys
    BY <1>1, <1>2, <1>3 DEF PhotosInv, RunsInv
  <2>2. \A l, m \in loops' : l.run = m.run => l = m
    BY <1>1, <1>2, <1>3, <1>4 DEF PhotosInv, RunsInv
  <2>3. QED
    BY <2>1, <2>2 DEF PhotosInv, RunsInv
<1>6. photosLive
  BY <1>1 DEF PhotosInv, CachesInv
<1>7. CachesInv'
  <2>1. \A l \in loops' : LiveLoop(l)' => l.store = cacheOwner' /\ l.reading \notin DOMAIN urls'
    BY <1>1, <1>2, <1>3, <1>4 DEF LiveLoop
  <2>2. QED
    BY <1>6, <2>1 DEF CachesInv
<1>8. ASSUME photosLive', ~photosDue'
      PROVE  /\ cacheOwner' = asked'.store
             /\ DOMAIN resolved' \subseteq asked'.keys
             /\ \A l \in loops' : LiveLoop(l)' => l.keys = asked'.keys
             /\ \A k \in asked'.keys : k \notin DOMAIN resolved' =>
                  broken' \/ \E l \in loops' : LiveLoop(l)' /\ l.reading <= k
  <2>1. /\ cacheOwner = asked.store /\ DOMAIN resolved \subseteq asked.keys
        /\ loop.keys = asked.keys /\ asked.keys \subseteq Nat
        /\ \A k \in asked.keys : k \notin DOMAIN resolved =>
             broken \/ \E l \in loops : LiveLoop(l) /\ l.reading <= k
    BY <1>8, ReviewPhotosAssumption DEF PhotosInv, AskedInv, RunsInv
  <2>2. \A l \in loops' : LiveLoop(l)' => l.keys = asked'.keys
    BY <1>2, <1>3, <1>4, <2>1 DEF LiveLoop
  <2>3. ASSUME NEW k \in asked.keys, k \notin DOMAIN resolved', ~broken
        PROVE  \E l \in loops' : LiveLoop(l)' /\ l.reading <= k
    <3>1. PICK l \in loops : LiveLoop(l) /\ l.reading <= k
      BY <2>1, <2>3
    <3>2. l = loop
      BY <1>4, <3>1 DEF LiveLoop
    <3>3. k \in Nat /\ k > loop.reading
      BY <1>1, <2>1, <2>3, <3>1, <3>2
    <3>4. k \in loop.keys \ DOMAIN urls'
      BY <2>1, <2>3
    <3>5. PICK m \in more : m.reading <= k
      BY <1>2, <3>3, <3>4
    <3>6. QED
      BY <1>1, <1>2, <1>3, <3>5 DEF LiveLoop
  <2>4. QED
    BY <1>1, <2>1, <2>2, <2>3
<1>9. AskedInv'
  BY <1>8 DEF AskedInv
<1>10. QED
  BY <1>5, <1>7, <1>9 DEF PhotosInv

LEMMA AnswerKeeps ==
  ASSUME PhotosInv, NEW loop \in loops, BlobAnswers(loop)
  PROVE  PhotosInv'
<1> DEFINE key == loop.reading
           absent == [number |-> 0, store |-> loop.store, key |-> key]
           url == [number |-> made.urls + 1, store |-> loop.store, key |-> key]
<1>1. UNCHANGED <<asked, photosDue, photosLive, cacheOwner, liveRun, broken>>
  BY DEF BlobAnswers
<1>2. CASE ~LiveLoop(loop)
  <2>1. loops' = loops \ {loop} /\ UNCHANGED <<urls, resolved, unrevoked, made>>
    BY <1>2 DEF BlobAnswers
  <2>2. QED
    BY <1>1, <1>2, <2>1, RunEnds
<1>3. CASE LiveLoop(loop)
  <2>1. loop.store = cacheOwner /\ key \notin DOMAIN urls /\ photosLive
    BY <1>3 DEF PhotosInv, CachesInv, RunsInv, LiveLoop
  <2>2. /\ unrevoked = Answers(urls) /\ DOMAIN urls \subseteq DOMAIN resolved
        /\ \A k \in DOMAIN resolved :
             /\ resolved[k].store = cacheOwner /\ resolved[k].key = k
             /\ resolved[k].number # 0 => k \in DOMAIN urls /\ urls[k] = resolved[k]
    BY DEF PhotosInv, CachesInv
  <2>3. CASE /\ resolved' = With(resolved, key, absent)
             /\ loops' = (loops \ {loop}) \cup Reading(loop, key, DOMAIN urls)
             /\ UNCHANGED <<urls, unrevoked, made>>
    <3>1. PICK answer : answer = absent
      OBVIOUS
    <3>2. answer.number = 0 /\ answer.store = cacheOwner /\ answer.key = key
      BY <2>1, <3>1
    <3>3. /\ DOMAIN resolved' = DOMAIN resolved \cup {key} /\ resolved'[key] = answer
          /\ \A k \in DOMAIN resolved \ {key} : resolved'[k] = resolved[k]
      <4>1. resolved' = With(resolved, key, answer)
        BY <2>3, <3>1
      <4>2. QED
        BY <4>1 DEF With
    <3>4. \A k \in DOMAIN resolved' :
            /\ resolved'[k].store = cacheOwner /\ resolved'[k].key = k
            /\ resolved'[k].number # 0 => k \in DOMAIN urls' /\ urls'[k] = resolved'[k]
      BY <2>2, <2>3, <3>2, <3>3
    <3>5. loops' = (loops \ {loop}) \cup Reading(loop, loop.reading, DOMAIN urls')
      BY <2>3
    <3>6. made'.runs = made.runs /\ DOMAIN made' = DOMAIN made /\ unrevoked' = Answers(urls')
          /\ DOMAIN urls' \subseteq DOMAIN resolved'
      BY <2>2, <2>3, <3>3
    <3>7. QED
      BY <1>1, <1>3, <3>3, <3>4, <3>5, <3>6, RunGoesOn
  <2>4. CASE /\ made' = [made EXCEPT !.urls = @ + 1]
             /\ unrevoked' = unrevoked \cup {url}
             /\ urls' = With(urls, key, url)
             /\ resolved' = IF photosLive THEN With(resolved, key, url) ELSE resolved
             /\ loops' = (loops \ {loop}) \cup Reading(loop, key, DOMAIN urls')
    <3>1. PICK answer : answer = url
      OBVIOUS
    <3>2. answer.store = cacheOwner /\ answer.key = key
      BY <2>1, <3>1
    <3>3. /\ DOMAIN resolved' = DOMAIN resolved \cup {key} /\ resolved'[key] = answer
          /\ \A k \in DOMAIN resolved \ {key} : resolved'[k] = resolved[k]
      <4>1. resolved' = With(resolved, key, answer)
        BY <2>1, <2>4, <3>1
      <4>2. QED
        BY <4>1 DEF With
    <3>4. /\ DOMAIN urls' = DOMAIN urls \cup {key} /\ urls'[key] = answer
          /\ \A k \in DOMAIN urls \ {key} : urls'[k] = urls[k]
          /\ Answers(urls') = Answers(urls) \cup {answer}
      <4>1. urls' = With(urls, key, answer)
        BY <2>4, <3>1
      <4>2. key \notin DOMAIN urls
        BY <2>1
      <4>3. QED
        BY <4>1, <4>2 DEF With, Answers
    <3>5. \A k \in DOMAIN resolved' :
            /\ resolved'[k].store = cacheOwner /\ resolved'[k].key = k
            /\ resolved'[k].number # 0 => k \in DOMAIN urls' /\ urls'[k] = resolved'[k]
      BY <2>2, <3>2, <3>3, <3>4
    <3>6. made'.runs = made.runs /\ DOMAIN made' = DOMAIN made
      BY <2>4 DEF PhotosInv, RunsInv
    <3>7. unrevoked' = Answers(urls') /\ DOMAIN urls' \subseteq DOMAIN resolved'
      BY <2>2, <2>4, <3>1, <3>3, <3>4
    <3>8. loops' = (loops \ {loop}) \cup Reading(loop, loop.reading, DOMAIN urls')
      BY <2>4
    <3>9. QED
      BY <1>1, <1>3, <3>3, <3>5, <3>6, <3>7, <3>8, RunGoesOn
  <2>5. QED
    BY <1>3, <2>3, <2>4 DEF BlobAnswers
<1>4. QED
  BY <1>2, <1>3

(* The effect: what another store answered goes, and what is not asked.    *)
LEMMA EffectKeepsPhotos ==
  ASSUME PhotosInv, ResolveEffect
  PROVE  PhotosInv'
<1> DEFINE keep == IF SameOwner THEN asked.keys ELSE {}
           fresh == [run |-> made.runs + 1, store |-> asked.store, keys |-> asked.keys, reading |-> 0]
           more == Reading(fresh, 0, DOMAIN urls')
<1>1. /\ urls' = Only(urls, keep) /\ resolved' = Only(resolved, keep)
      /\ cacheOwner' = asked.store /\ liveRun' = made.runs + 1
      /\ unrevoked' = unrevoked \ (Answers(urls) \ Answers(urls'))
      /\ made' = [made EXCEPT !.runs = @ + 1]
      /\ loops' = loops \cup more
      /\ asked' = asked /\ photosLive' = photosLive /\ photosLive
  BY DEF ResolveEffect
<1>2. /\ made.runs \in Nat /\ made'.runs = made.runs + 1 /\ DOMAIN made' = DOMAIN made
      /\ asked.keys \subseteq PhotoKeys
  BY <1>1 DEF PhotosInv, RunsInv
<1>3. PICK loop : loop = fresh
  OBVIOUS
<1>4. DOMAIN loop = LoopFields /\ loop.run = made.runs + 1 /\ loop.store = asked.store
      /\ loop.keys = asked.keys
  BY <1>3 DEF LoopFields
<1>5. /\ \A m \in more : /\ DOMAIN m = LoopFields
                         /\ m.run = made.runs + 1 /\ m.store = asked.store /\ m.keys = asked.keys
                         /\ m.reading \in asked.keys /\ m.reading \notin DOMAIN urls'
      /\ \A m, n \in more : m = n
      /\ \A k \in asked.keys \ DOMAIN urls' : k > 0 => \E m \in more : m.reading <= k
  BY <1>2, <1>3, <1>4, ReadsOn
<1>6. /\ DOMAIN urls' = DOMAIN urls \cap keep /\ DOMAIN resolved' = DOMAIN resolved \cap keep
      /\ \A k \in DOMAIN urls' : urls'[k] = urls[k]
      /\ \A k \in DOMAIN resolved' : resolved'[k] = resolved[k]
      /\ Answers(urls') \subseteq Answers(urls)
  BY <1>1, OnlyKeeps, ZenonT(30)
<1> HIDE DEF fresh, more
<1>7. RunsInv'
  <2>1. ASSUME NEW l \in loops'
        PROVE  /\ DOMAIN l = LoopFields
               /\ l.run \in Nat /\ l.run >= 1 /\ l.run <= made'.runs
               /\ l.keys \subseteq PhotoKeys /\ l.reading \in l.keys
    BY <1>1, <1>2, <1>5 DEF PhotosInv, RunsInv
  <2>2. \A l \in loops : l.run \in Nat /\ l.run <= made.runs
    BY DEF PhotosInv, RunsInv
  <2>3. \A l, m \in loops' : l.run = m.run => l = m
    BY <1>1, <1>2, <1>5, <2>2 DEF PhotosInv, RunsInv
  <2>4. liveRun' \in Nat /\ liveRun' <= made'.runs
    BY <1>1, <1>2
  <2>5. QED
    BY <1>1, <1>2, <2>1, <2>3, <2>4 DEF PhotosInv, RunsInv
<1>8. \A l \in loops' : LiveLoop(l)' => l \in more
  <2>1. \A l \in loops : l.run \in Nat /\ l.run <= made.runs
    BY DEF PhotosInv, RunsInv
  <2>2. QED
    BY <1>1, <1>2, <2>1 DEF LiveLoop
<1>9. CachesInv'
  <2>1. unrevoked' = Answers(urls')
    BY <1>1, <1>6 DEF PhotosInv, CachesInv
  <2>2. DOMAIN urls' \subseteq DOMAIN resolved'
    BY <1>6 DEF PhotosInv, CachesInv
  <2>3. DOMAIN resolved' # {} => cacheOwner = asked.store
    BY <1>6 DEF SameOwner
  <2>4. ASSUME NEW k \in DOMAIN resolved'
        PROVE  /\ resolved'[k].store = cacheOwner' /\ resolved'[k].key = k
               /\ resolved'[k].number # 0 => k \in DOMAIN urls' /\ urls'[k] = resolved'[k]
    <3>1. /\ k \in DOMAIN resolved /\ k \in keep /\ resolved'[k] = resolved[k]
          /\ cacheOwner' = cacheOwner
      BY <1>1, <1>6, <2>3, <2>4
    <3>2. /\ resolved[k].store = cacheOwner /\ resolved[k].key = k
          /\ resolved[k].number # 0 => k \in DOMAIN urls /\ urls[k] = resolved[k]
      BY <3>1 DEF PhotosInv, CachesInv
    <3>3. QED
      BY <1>6, <3>1, <3>2
  <2>5. \A l \in loops' : LiveLoop(l)' => l.store = cacheOwner' /\ l.reading \notin DOMAIN urls'
    BY <1>1, <1>5, <1>8
  <2>6. QED
    BY <1>1, <2>1, <2>2, <2>4, <2>5 DEF CachesInv
<1>10. AskedInv'
  <2>1. DOMAIN resolved' \subseteq asked.keys
    BY <1>6
  <2>2. ASSUME NEW k \in asked.keys, k \notin DOMAIN resolved'
        PROVE  \E l \in loops' : LiveLoop(l)' /\ l.reading <= k
    <3>1. k \notin DOMAIN urls' /\ k \in Nat /\ k > 0
      <4>1. DOMAIN urls' \subseteq DOMAIN resolved'
        BY <1>9 DEF CachesInv
      <4>2. k \in PhotoKeys /\ PhotoKeys \subseteq Nat \ {0}
        BY <1>2, ReviewPhotosAssumption
      <4>3. QED
        BY <2>2, <4>1, <4>2
    <3>2. PICK m \in more : m.reading <= k
      BY <1>5, <3>1
    <3>3. QED
      BY <1>1, <1>5, <3>2 DEF LiveLoop
  <2>3. \A l \in loops' : LiveLoop(l)' => l.keys = asked'.keys
    BY <1>1, <1>5, <1>8
  <2>4. QED
    BY <1>1, <2>1, <2>2, <2>3 DEF AskedInv
<1>11. QED
  BY <1>7, <1>9, <1>10 DEF PhotosInv

LEMMA PhotosKeep == PhotosInv /\ [PhotosNext]_photoVars => PhotosInv'
<1> SUFFICES ASSUME PhotosInv, [PhotosNext]_photoVars PROVE PhotosInv'
  OBVIOUS
<1>1. CASE RenderReview
  <2>1. /\ asked'.keys \subseteq PhotoKeys /\ photosDue'
        /\ made'.runs = made.runs /\ DOMAIN made' = DOMAIN made
        /\ UNCHANGED <<photosLive, cacheOwner, urls, resolved, loops, liveRun, broken, unrevoked>>
    BY <1>1 DEF RenderReview, PhotosInv, RunsInv
  <2>2. RunsInv'
    BY <2>1 DEF PhotosInv, RunsInv
  <2>3. CachesInv' /\ AskedInv'
    BY <2>1 DEF PhotosInv, CachesInv, AskedInv, LiveLoop
  <2>4. QED
    BY <2>2, <2>3 DEF PhotosInv
<1>2. CASE ResolveEffect
  BY <1>2, EffectKeepsPhotos
<1>3. CASE UnmountReview
  <2>1. /\ ~photosLive' /\ liveRun' = 0 /\ unrevoked' = {}
        /\ DOMAIN urls' = {} /\ DOMAIN resolved' = {} /\ UNCHANGED <<asked, loops, made>>
    BY <1>3 DEF UnmountReview, PhotosInv, CachesInv
  <2>2. Answers(urls') = {}
    BY <2>1 DEF Answers
  <2>3. RunsInv'
    BY <2>1 DEF PhotosInv, RunsInv
  <2>4. \A l \in loops' : ~LiveLoop(l)'
    BY <2>1 DEF PhotosInv, RunsInv, LiveLoop
  <2>5. CachesInv' /\ AskedInv'
    BY <2>1, <2>2, <2>4 DEF CachesInv, AskedInv
  <2>6. QED
    BY <2>3, <2>5 DEF PhotosInv
<1>4. ASSUME NEW loop \in loops, BlobAnswers(loop) PROVE PhotosInv'
  BY <1>4, AnswerKeeps
<1>5. ASSUME NEW loop \in loops, BlobFails(loop) PROVE PhotosInv'
  BY <1>5, RunEnds DEF BlobFails
<1>6. CASE UNCHANGED photoVars
  <2>1. RunsInv'
    BY <1>6 DEF photoVars, PhotosInv, RunsInv
  <2>2. CachesInv' /\ AskedInv'
    BY <1>6 DEF photoVars, PhotosInv, CachesInv, AskedInv, LiveLoop
  <2>3. QED
    BY <2>1, <2>2 DEF PhotosInv
<1>7. QED
  BY <1>1, <1>2, <1>3, <1>4, <1>5, <1>6 DEF PhotosNext

(* What a review shows of its photos is of the store and the keys it was   *)
(* last rendered with, a photo is loading only while its run reads on, and *)
(* no URL outlives what holds it, whatever order the blobs come in.        *)
THEOREM PhotosAreOfTheirReview == PhotosSpec => []PhotosAreCurrent
<1>1. ASSUME PhotosInv PROVE PhotosAreCurrent
  <2>1. unrevoked = Answers(urls) /\ (~photosLive => unrevoked = {})
    BY <1>1 DEF PhotosInv, CachesInv, Answers
  <2>2. ASSUME photosLive, ~photosDue, NEW k \in DOMAIN resolved
        PROVE  /\ k \in asked.keys
               /\ resolved[k].store = asked.store /\ resolved[k].key = k
               /\ ShownAs(k) = "image" => resolved[k] \in unrevoked
    BY <1>1, <2>2 DEF PhotosInv, CachesInv, AskedInv, ShownAs, Answers
  <2>3. ASSUME photosLive, ~photosDue, NEW k \in asked.keys, ShownAs(k) = "loading"
        PROVE  broken \/ \E loop \in loops : LiveLoop(loop) /\ loop.reading <= k
    BY <1>1, <2>3 DEF PhotosInv, AskedInv, ShownAs
  <2>4. QED
    BY <2>1, <2>2, <2>3 DEF PhotosAreCurrent
<1>2. PhotosInv => PhotosAreCurrent
  BY <1>1
<1> QED
  BY <1>2, PhotosStart, PhotosKeep, PTL DEF PhotosSpec

-----------------------------------------------------------------------------
(* The saves of the draft hook.                                            *)

Saves == [draft : Nat, id : Nat, apart : BOOLEAN]

SavesTypes ==
  /\ seeds \in Seq(Nat) /\ Len(seeds) >= 1
  /\ draftDue \in BOOLEAN /\ astray \in BOOLEAN
  /\ adoptedId \in Nat /\ ids \in Nat
  /\ saves \in Seq(Saves)

(* Every id is one there is, and a save is of a draft there was.           *)
IdsKnown ==
  /\ \A d \in 1..Len(seeds) : seeds[d] <= ids
  /\ adoptedId <= ids
  /\ \A n \in 1..Len(saves) :
       /\ saves[n].id >= 1 /\ saves[n].id <= ids
       /\ saves[n].draft >= 1 /\ saves[n].draft <= Len(seeds)

(* Saves that do not stand apart are of drafts in the order of the drafts. *)
SavedInOrder ==
  \A m, n \in 1..Len(saves) :
    m < n /\ ~saves[m].apart /\ ~saves[n].apart => saves[m].draft <= saves[n].draft

(* A save of the newest draft that does not stand apart.                   *)
OwnSave(n) == ~saves[n].apart /\ saves[n].draft = Len(seeds)

(* There is none before the draft's effect, nor while the ref is empty;    *)
(* and an id in the ref is theirs, unless a save that stands apart put it  *)
(* there.                                                                  *)
Adoption ==
  /\ draftDue \/ adoptedId = NoId => \A n \in 1..Len(saves) : ~OwnSave(n)
  /\ ~draftDue /\ adoptedId # NoId /\ ~astray =>
       /\ \E n \in 1..Len(saves) : OwnSave(n)
       /\ \A n \in 1..Len(saves) : OwnSave(n) => saves[n].id = adoptedId

SavesInv == SavesTypes /\ IdsKnown /\ SavedInOrder /\ Adoption /\ OneTripPerDraft

LEMMA SavesElements ==
  ASSUME SavesTypes
  PROVE  /\ DOMAIN saves = 1..Len(saves) /\ Len(saves) \in Nat
         /\ \A n \in 1..Len(saves) :
              /\ saves[n] \in Saves /\ saves[n].draft \in Nat /\ saves[n].id \in Nat
              /\ saves[n].apart \in BOOLEAN
         /\ Len(seeds) \in Nat /\ \A d \in 1..Len(seeds) : seeds[d] \in Nat
<1>1. saves \in Seq(Saves) /\ seeds \in Seq(Nat)
  BY DEF SavesTypes
<1>2. \A n \in 1..Len(saves) : saves[n] \in Saves
  BY <1>1
<1>3. \A s \in Saves : s.draft \in Nat /\ s.id \in Nat /\ s.apart \in BOOLEAN
  BY DEF Saves
<1>4. QED
  BY <1>1, <1>2, <1>3

LEMMA SavesStart == DraftHookInit => SavesInv
<1> SUFFICES ASSUME DraftHookInit PROVE SavesInv
  OBVIOUS
<1>1. /\ seeds \in Seq(Nat) /\ Len(seeds) = 1 /\ seeds[1] \in {0, 1}
      /\ draftDue = TRUE /\ adoptedId = 0 /\ astray = FALSE /\ ids = 1 /\ saves = << >>
  <2>1. draftDue = TRUE /\ adoptedId = 0 /\ astray = FALSE /\ ids = 1 /\ saves = << >>
    BY DEF DraftHookInit, NoId
  <2>2. seeds = <<0>> \/ seeds = <<1>>
    BY DEF DraftHookInit, NoId
  <2>3. CASE seeds = <<0>>
    BY <2>1, <2>3
  <2>4. CASE seeds = <<1>>
    BY <2>1, <2>4
  <2>5. QED
    BY <2>2, <2>3, <2>4
<1>2. saves \in Seq(Saves) /\ Len(saves) = 0
  BY <1>1
<1>a. SavesTypes
  <2>1. astray \in BOOLEAN /\ draftDue \in BOOLEAN
    BY <1>1, Zenon
  <2>2. QED
    BY <1>1, <1>2, <2>1 DEF SavesTypes
<1>3. SavesTypes /\ IdsKnown
  BY <1>1, <1>2, <1>a DEF IdsKnown
<1>4. SavedInOrder /\ Adoption /\ OneTripPerDraft
  BY <1>1, <1>2 DEF SavedInOrder, Adoption, OneTripPerDraft
<1>5. QED
  BY <1>3, <1>4 DEF SavesInv

LEMMA RenderKeepsSaves == ASSUME SavesInv, RenderFrom PROVE SavesInv'
<1> USE DEF SavesInv
<1>1. PICK seed \in 0..ids : seeds' = Append(seeds, seed)
  BY DEF RenderFrom
<1>2. /\ draftDue' = TRUE /\ adoptedId' = adoptedId /\ astray' = astray
      /\ ids' = ids /\ saves' = saves
  BY DEF RenderFrom
<1>3. /\ seeds' \in Seq(Nat) /\ Len(seeds') = Len(seeds) + 1
      /\ \A d \in 1..Len(seeds) : seeds'[d] = seeds[d]
      /\ seeds'[Len(seeds) + 1] = seed
  BY <1>1 DEF SavesTypes
<1>4. SavesTypes'
  BY <1>2, <1>3 DEF SavesTypes
<1>a. Len(seeds) \in Nat /\ \A n \in 1..Len(saves) : saves[n].draft \in Nat
  BY SavesElements
<1>b. IdsKnown
  OBVIOUS
<1>5. IdsKnown'
  <2>1. \A d \in 1..Len(seeds') : seeds'[d] <= ids
    <3>1. SUFFICES ASSUME NEW d \in 1..(Len(seeds) + 1) PROVE seeds'[d] <= ids
      BY <1>3
    <3>2. CASE d \in 1..Len(seeds)
      BY <1>3, <1>b, <3>2 DEF IdsKnown
    <3>3. CASE d = Len(seeds) + 1
      BY <1>3, <3>3
    <3>4. QED
      BY <1>a, <3>2, <3>3
  <2>2. \A n \in 1..Len(saves) : saves[n].draft <= Len(seeds')
    BY <1>3, <1>a, <1>b DEF IdsKnown
  <2>3. adoptedId <= ids /\ \A n \in 1..Len(saves) :
           /\ saves[n].id >= 1 /\ saves[n].id <= ids
           /\ saves[n].draft >= 1
    BY <1>b DEF IdsKnown
  <2>4. QED
    BY <1>2, <2>1, <2>2, <2>3 DEF IdsKnown
<1>6. SavedInOrder'
  BY <1>2, Zenon DEF SavesInv, SavedInOrder
<1>7. Adoption'
  <2>1. \A n \in 1..Len(saves) : saves[n].draft # Len(seeds')
    BY <1>3, <1>a, <1>b DEF IdsKnown
  <2>2. QED
    BY <1>2, <2>1, Zenon DEF Adoption, OwnSave
<1>8. OneTripPerDraft'
  <2>1. \A n \in 1..Len(saves) : seeds'[saves[n].draft] = seeds[saves[n].draft]
    <3>1. \A n \in 1..Len(saves) : saves[n].draft \in 1..Len(seeds)
      BY <1>a, <1>b DEF IdsKnown
    <3>2. QED
      BY <1>3, <3>1
  <2>2. DOMAIN saves = 1..Len(saves)
    BY DEF SavesTypes
  <2>3. QED
    BY <1>2, <2>1, <2>2, Zenon DEF OneTripPerDraft
<1>9. QED
  BY <1>4, <1>5, <1>6, <1>7, <1>8

LEMMA EffectKeepsSaves == ASSUME SavesInv, DraftEffect PROVE SavesInv'
<1>1. /\ draftDue = TRUE /\ draftDue' = FALSE /\ adoptedId' = 0 /\ astray' = FALSE
      /\ seeds' = seeds /\ ids' = ids /\ saves' = saves
  BY DEF DraftEffect, IdForgotten, NoId, SavesInv, SavesTypes
<1>b. SavesTypes'
  <2>1. astray' \in BOOLEAN /\ draftDue' \in BOOLEAN
    BY <1>1, Zenon
  <2>2. QED
    BY <1>1, <2>1 DEF SavesInv, SavesTypes
<1>c. SavesTypes /\ IdsKnown
  BY DEF SavesInv
<1>2. SavesTypes' /\ IdsKnown'
  BY <1>1, <1>b, <1>c DEF SavesTypes, IdsKnown
<1>a. SavedInOrder'
  BY <1>1, Zenon DEF SavesInv, SavedInOrder
<1>3. OneTripPerDraft'
  BY <1>1, Zenon DEF SavesInv, OneTripPerDraft
<1>4. Adoption'
  BY <1>1 DEF SavesInv, Adoption, OwnSave, NoId
<1>5. QED
  BY <1>2, <1>a, <1>3, <1>4 DEF SavesInv

(* The draft saved is d, under the id, after the saves there were.         *)
SavedAs(d, id) ==
  /\ d \in 1..Len(seeds) /\ id \in Nat /\ id >= 1
  /\ seeds' = seeds /\ draftDue' = draftDue
  /\ adoptedId' = id /\ ids' \in Nat /\ ids <= ids' /\ id <= ids'
  /\ saves' \in Seq(Saves) /\ Len(saves') = Len(saves) + 1
  /\ \A n \in 1..Len(saves) : saves'[n] = saves[n]
  /\ LET s == saves'[Len(saves) + 1]
     IN /\ s.draft = d /\ s.id = id /\ s.apart = StandsApart(d)
        /\ astray' = IF adoptedId = 0 THEN s.apart ELSE astray

LEMMA SaveAppends ==
  ASSUME SavesInv, NEW d \in DOMAIN seeds, SaveDraft(d)
  PROVE  /\ SavedAs(d, TrackId(d))
         /\ adoptedId # 0 => TrackId(d) = adoptedId
         /\ adoptedId = 0 /\ seeds[d] # 0 => TrackId(d) = seeds[d]
         /\ adoptedId = 0 /\ seeds[d] = 0 => TrackId(d) = ids + 1
<1> DEFINE id == TrackId(d)
           stands == StandsApart(d)
           s == [draft |-> d, id |-> id, apart |-> stands]
<1>1. SavesTypes /\ IdsKnown
  BY DEF SavesInv
<1>2. /\ saves \in Seq(Saves) /\ Len(saves) \in Nat /\ DOMAIN saves = 1..Len(saves)
      /\ seeds \in Seq(Nat) /\ Len(seeds) \in Nat /\ DOMAIN seeds = 1..Len(seeds)
      /\ seeds[d] \in Nat /\ ids \in Nat /\ adoptedId \in Nat
  BY <1>1, SavesElements DEF SavesTypes
<1>3. /\ id \in Nat /\ id >= 1
      /\ adoptedId # 0 => id = adoptedId
      /\ adoptedId = 0 /\ seeds[d] # 0 => id = seeds[d]
      /\ adoptedId = 0 /\ seeds[d] = 0 => id = ids + 1
  BY <1>2 DEF TrackId, NoId
<1>4. /\ seeds' = seeds /\ draftDue' = draftDue
      /\ adoptedId' = id /\ ids' = (IF id > ids THEN id ELSE ids)
      /\ astray' = (IF adoptedId = 0 THEN stands ELSE astray)
      /\ saves' = Append(saves, s)
  BY Zenon DEF SaveDraft, Adopted, NoId
<1>5. ids' \in Nat /\ ids <= ids' /\ id <= ids'
  BY <1>2, <1>3, <1>4
<1>6. stands \in BOOLEAN
  BY Zenon DEF StandsApart
<1> HIDE DEF stands, id
<1>7. s \in Saves /\ s.draft = d /\ s.id = id /\ s.apart = stands
  BY <1>2, <1>3, <1>6 DEF Saves
<1> HIDE DEF s
<1>8. /\ saves' \in Seq(Saves) /\ Len(saves') = Len(saves) + 1
      /\ \A n \in 1..Len(saves) : saves'[n] = saves[n]
      /\ saves'[Len(saves) + 1] = s
  BY <1>2, <1>4, <1>7
<1>9. SavedAs(d, id)
  BY <1>2, <1>3, <1>4, <1>5, <1>7, <1>8 DEF SavedAs, stands
<1>10. QED
  BY <1>3, <1>9 DEF id

(* What a new save that does not stand apart promises: its id is its       *)
(* seed's, or the one the saves of its draft went under, or one no trip    *)
(* had.                                                                    *)
LEMMA NewSaveIsOneTrip ==
  ASSUME SavesInv, NEW d \in DOMAIN seeds, SaveDraft(d), ~StandsApart(d)
  PROVE  /\ seeds[d] # 0 => TrackId(d) = seeds[d]
         /\ \A m \in 1..Len(saves) : ~saves[m].apart =>
              /\ saves[m].draft = d => saves[m].id = TrackId(d)
              /\ saves[m].draft # d /\ saves[m].id = TrackId(d) => seeds[d] = TrackId(d)
<1> DEFINE id == TrackId(d)
<1>1. /\ adoptedId # 0 => id = adoptedId
      /\ adoptedId = 0 /\ seeds[d] # 0 => id = seeds[d]
      /\ adoptedId = 0 /\ seeds[d] = 0 => id = ids + 1
  BY SaveAppends
<1> HIDE DEF id
<1>2. d = Len(seeds) /\ ~draftDue /\ (adoptedId # 0 => ~astray)
  BY Zenon DEF StandsApart, NoId
<1>3. SavesTypes /\ IdsKnown /\ SavedInOrder /\ Adoption /\ OneTripPerDraft
  BY DEF SavesInv
<1>4. /\ DOMAIN saves = 1..Len(saves) /\ Len(saves) \in Nat /\ Len(seeds) \in Nat
      /\ \A n \in 1..Len(saves) : /\ saves[n].draft \in Nat /\ saves[n].id \in Nat
                                  /\ saves[n].apart \in BOOLEAN
      /\ adoptedId \in Nat /\ ids \in Nat /\ seeds[d] \in Nat
  BY <1>2, <1>3, SavesElements DEF SavesTypes
<1>5. \A m \in 1..Len(saves) : ~saves[m].apart => (saves[m].draft = d <=> OwnSave(m))
  BY <1>2 DEF OwnSave
<1>6. CASE adoptedId = 0
  <2>1. \A m \in 1..Len(saves) : ~OwnSave(m)
    BY <1>3, <1>6 DEF Adoption, NoId
  <2>2. \A m \in 1..Len(saves) : saves[m].id <= ids
    BY <1>3 DEF IdsKnown
  <2>3. QED
    BY <1>1, <1>4, <1>5, <1>6, <2>1, <2>2 DEF id
<1>7. CASE adoptedId # 0
  <2>1. id = adoptedId /\ \A n \in 1..Len(saves) : OwnSave(n) => saves[n].id = id
    BY <1>1, <1>2, <1>3, <1>7 DEF Adoption, NoId
  <2>2. PICK k \in 1..Len(saves) : OwnSave(k)
    BY <1>2, <1>3, <1>7 DEF Adoption, NoId
  <2>3. ~saves[k].apart /\ saves[k].draft = d /\ saves[k].id = id
    BY <1>2, <2>1, <2>2 DEF OwnSave
  <2>4. seeds[d] # 0 => id = seeds[d]
    BY <1>3, <1>4, <2>3 DEF OneTripPerDraft, NoId
  <2>5. ASSUME NEW m \in 1..Len(saves), ~saves[m].apart,
               saves[m].draft # d, saves[m].id = id
        PROVE  seeds[d] = id
    <3>1. CASE m < k
      <4>1. m \in 1..(k - 1)
        BY <1>4, <3>1
      <4>2. QED
        BY <1>3, <1>4, <2>3, <2>5, <4>1 DEF OneTripPerDraft
    <3>2. ~(k <= m)
      <4> SUFFICES ASSUME k <= m PROVE FALSE
        OBVIOUS
      <4>1. saves[k].draft <= saves[m].draft
        BY <1>3, <1>4, <2>3, <2>5 DEF SavedInOrder
      <4>2. saves[m].draft <= Len(seeds)
        BY <1>3 DEF IdsKnown
      <4>3. QED
        BY <1>2, <1>4, <2>3, <2>5, <4>1, <4>2
    <3>3. QED
      BY <1>4, <3>1, <3>2
  <2>6. QED
    BY <1>5, <2>1, <2>4, <2>5 DEF id
<1>8. QED
  BY <1>6, <1>7

LEMMA SaveKeepsSaves ==
  ASSUME SavesInv, NEW d \in DOMAIN seeds, SaveDraft(d)
  PROVE  SavesInv'
<1> DEFINE id == TrackId(d)
           new == Len(saves) + 1
<1>1. SavedAs(d, id) /\ (adoptedId # 0 => id = adoptedId)
  BY SaveAppends
<1>2. ~StandsApart(d) =>
        /\ seeds[d] # 0 => id = seeds[d]
        /\ \A m \in 1..Len(saves) : ~saves[m].apart =>
             /\ saves[m].draft = d => saves[m].id = id
             /\ saves[m].draft # d /\ saves[m].id = id => seeds[d] = id
  BY NewSaveIsOneTrip
<1> HIDE DEF id
<1>3. SavesTypes /\ IdsKnown /\ SavedInOrder /\ Adoption /\ OneTripPerDraft
  BY DEF SavesInv
<1>4. /\ DOMAIN saves = 1..Len(saves) /\ Len(saves) \in Nat /\ Len(seeds) \in Nat
      /\ \A n \in 1..Len(saves) : /\ saves[n].draft \in Nat /\ saves[n].id \in Nat
                                  /\ saves[n].apart \in BOOLEAN
      /\ seeds \in Seq(Nat) /\ \A c \in 1..Len(seeds) : seeds[c] \in Nat
      /\ astray \in BOOLEAN /\ draftDue \in BOOLEAN
  BY <1>3, SavesElements DEF SavesTypes
<1>5. /\ DOMAIN saves' = 1..new /\ Len(saves') = new
      /\ \A n \in 1..new : n = new \/ n \in 1..Len(saves)
      /\ \A n \in 1..Len(saves) : saves'[n] = saves[n]
      /\ saves'[new].draft = d /\ saves'[new].id = id
      /\ saves'[new].apart = StandsApart(d) /\ saves'[new].apart \in BOOLEAN
      /\ seeds' = seeds /\ draftDue' = draftDue /\ adoptedId' = id
      /\ astray' = IF adoptedId = 0 THEN saves'[new].apart ELSE astray
      /\ id \in Nat /\ id >= 1 /\ id <= ids' /\ ids <= ids' /\ ids' \in Nat /\ ids \in Nat
      /\ d \in 1..Len(seeds)
  <2>1. saves' \in Seq(Saves) /\ Len(saves') = new
    BY <1>1 DEF SavedAs
  <2>2. saves'[new] \in Saves
    BY <1>4, <2>1
  <2>3. saves'[new].apart \in BOOLEAN
    BY <2>2 DEF Saves
  <2>4. QED
    BY <1>1, <1>3, <1>4, <2>1, <2>3 DEF SavedAs, SavesTypes
<1>6. saves' \in Seq(Saves)
  BY <1>1 DEF SavedAs
<1>7. SavesTypes'
  <2>1. astray' \in BOOLEAN
    BY <1>4, <1>5
  <2>2. QED
    BY <1>3, <1>4, <1>5, <1>6, <2>1 DEF SavesTypes
<1> HIDE DEF new
<1>8. IdsKnown'
  <2>1. \A c \in 1..Len(seeds) : seeds[c] <= ids'
    BY <1>3, <1>4, <1>5 DEF IdsKnown
  <2>2. \A n \in 1..Len(saves) :
           /\ saves[n].id >= 1 /\ saves[n].id <= ids'
           /\ saves[n].draft >= 1 /\ saves[n].draft <= Len(seeds)
    BY <1>3, <1>4, <1>5 DEF IdsKnown
  <2>3. SUFFICES ASSUME NEW n \in 1..new
                 PROVE  /\ saves'[n].id >= 1 /\ saves'[n].id <= ids'
                        /\ saves'[n].draft >= 1 /\ saves'[n].draft <= Len(seeds)
    BY <1>5, <2>1 DEF IdsKnown
  <2>4. CASE n = new
    BY <1>5, <2>4
  <2>5. CASE n \in 1..Len(saves)
    BY <1>5, <2>2, <2>5
  <2>6. QED
    BY <1>5, <2>4, <2>5
<1>9. SavedInOrder'
  <2>1. \A n \in 1..Len(saves) : saves[n].draft <= Len(seeds)
    BY <1>3 DEF IdsKnown
  <2>2. SUFFICES ASSUME NEW m \in 1..new, NEW n \in 1..new,
                        m < n, ~saves'[m].apart, ~saves'[n].apart
                 PROVE  saves'[m].draft <= saves'[n].draft
    BY <1>5 DEF SavedInOrder
  <2>3. m \in 1..Len(saves)
    BY <1>4, <1>5, <2>2 DEF new
  <2>4. CASE n = new
    <3>1. d = Len(seeds)
      BY <1>5, <2>2, <2>4, Zenon DEF StandsApart
    <3>2. QED
      BY <1>5, <2>1, <2>3, <2>4, <3>1
  <2>5. CASE n \in 1..Len(saves)
    BY <1>3, <1>5, <2>2, <2>3, <2>5 DEF SavedInOrder
  <2>6. QED
    BY <1>5, <2>4, <2>5
<1>10. Adoption'
  <2> DEFINE Own(n) == ~saves'[n].apart /\ saves'[n].draft = Len(seeds)
  <2>1. \A n \in 1..Len(saves) : Own(n) <=> OwnSave(n)
    BY <1>5 DEF OwnSave
  <2>2. Own(new) => d = Len(seeds) /\ ~draftDue /\ (adoptedId # 0 => ~astray)
    <3>1. Own(new) => ~StandsApart(d)
      BY <1>5
    <3>2. QED
      BY <3>1, Zenon DEF StandsApart, NoId
  <2>3. ASSUME draftDue, NEW n \in 1..new PROVE ~Own(n)
    <3>1. CASE n = new
      BY <2>2, <2>3, <3>1
    <3>2. CASE n \in 1..Len(saves)
      BY <1>3, <2>1, <2>3, <3>2 DEF Adoption
    <3>3. QED
      BY <1>5, <3>1, <3>2
  <2>4. ASSUME ~draftDue, ~astray'
        PROVE  /\ \E n \in 1..new : Own(n)
               /\ \A n \in 1..new : Own(n) => saves'[n].id = id
    <3>1. CASE adoptedId = 0
      <4>1. ~saves'[new].apart
        BY <1>5, <2>4, <3>1
      <4>2. Own(new)
        BY <1>5, <4>1, Zenon DEF StandsApart
      <4>3. \A n \in 1..Len(saves) : ~Own(n)
        BY <1>3, <2>1, <3>1 DEF Adoption, NoId
      <4>4. new \in 1..new
        BY <1>4 DEF new
      <4> HIDE DEF Own
      <4>5. QED
        BY <1>5, <4>2, <4>3, <4>4
    <3>2. CASE adoptedId # 0
      <4>1. id = adoptedId /\ ~astray
        BY <1>1, <1>5, <2>4, <3>2
      <4>2. /\ \E n \in 1..Len(saves) : OwnSave(n)
            /\ \A n \in 1..Len(saves) : OwnSave(n) => saves[n].id = id
        BY <1>3, <2>4, <3>2, <4>1 DEF Adoption, NoId
      <4>3. \A n \in 1..Len(saves) : n \in 1..new
        BY <1>4 DEF new
      <4>4. \E n \in 1..new : Own(n)
        BY <2>1, <4>2, <4>3
      <4>5. \A n \in 1..new : Own(n) => saves'[n].id = id
        BY <1>5, <2>1, <4>2
      <4>6. QED
        BY <4>4, <4>5
    <3>3. QED
      BY <3>1, <3>2
  <2>5. adoptedId' # 0 /\ draftDue' = draftDue /\ adoptedId' = id /\ seeds' = seeds /\ Len(saves') = new
    BY <1>5
  <2> HIDE DEF Own
  <2>6. \A n \in 1..new : (OwnSave(n))' <=> Own(n)
    BY <2>5 DEF OwnSave, Own
  <2>7. QED
    BY <2>3, <2>4, <2>5, <2>6, Zenon DEF Adoption, NoId
<1>11. OneTripPerDraft'
  <2>1. SUFFICES ASSUME NEW n \in 1..new, ~saves'[n].apart
                 PROVE  /\ seeds[saves'[n].draft] # 0 => saves'[n].id = seeds[saves'[n].draft]
                        /\ \A m \in 1..(n - 1) : ~saves'[m].apart =>
                             /\ saves'[m].draft = saves'[n].draft => saves'[m].id = saves'[n].id
                             /\ saves'[m].draft # saves'[n].draft /\ saves'[m].id = saves'[n].id =>
                                  seeds[saves'[n].draft] = saves'[n].id
    BY <1>5, Zenon DEF OneTripPerDraft, NoId
  <2>2. \A m \in 1..(n - 1) : m \in 1..Len(saves)
    BY <1>4, <1>5 DEF new
  <2>3. CASE n = new
    <3>1. ~StandsApart(d)
      BY <1>5, <2>1, <2>3
    <3>2. QED
      BY <1>2, <1>5, <2>1, <2>2, <2>3, <3>1
  <2>4. CASE n \in 1..Len(saves)
    BY <1>3, <1>4, <1>5, <2>1, <2>2, <2>4, Zenon DEF OneTripPerDraft, NoId
  <2>5. QED
    BY <1>5, <2>3, <2>4
<1>12. QED
  BY <1>7, <1>8, <1>9, <1>10, <1>11 DEF SavesInv

LEMMA HookKeepsSaves == SavesInv /\ [DraftHookNext]_savesVars => SavesInv'
<1> SUFFICES ASSUME SavesInv, [DraftHookNext]_savesVars PROVE SavesInv'
  OBVIOUS
<1>1. CASE RenderFrom
  BY <1>1, RenderKeepsSaves
<1>2. CASE DraftEffect
  BY <1>2, EffectKeepsSaves
<1>3. ASSUME NEW d \in DOMAIN seeds, SaveDraft(d) PROVE SavesInv'
  BY <1>3, SaveKeepsSaves
<1>4. CASE UNCHANGED savesVars
  <2>1. /\ seeds' = seeds /\ draftDue' = draftDue /\ adoptedId' = adoptedId
        /\ astray' = astray /\ ids' = ids /\ saves' = saves
    BY <1>4 DEF savesVars
  <2>2. SavesTypes' /\ IdsKnown' /\ SavedInOrder' /\ Adoption'
    BY <2>1 DEF SavesInv, SavesTypes, IdsKnown, SavedInOrder, Adoption, OwnSave
  <2>3. OneTripPerDraft'
    BY <2>1, Zenon DEF SavesInv, OneTripPerDraft
  <2>4. QED
    BY <2>2, <2>3 DEF SavesInv
<1>5. QED
  BY <1>1, <1>2, <1>3, <1>4 DEF DraftHookNext

(* For any number of drafts and of saves, however they end: the saves of a *)
(* drawing are of one trip, and no drawing is saved over another's, but    *)
(* for saves that stand apart: by a callback of an earlier draft, before   *)
(* the effect that empties the ref, or under the id one of these left.     *)
THEOREM ADrawingIsOneTrip == DraftHookSpec => []OneTripPerDraft
<1>1. DraftHookInit => SavesInv
  BY SavesStart
<1>2. SavesInv /\ [DraftHookNext]_savesVars => SavesInv'
  BY HookKeepsSaves
<1>3. SavesInv => OneTripPerDraft
  BY DEF SavesInv
<1> QED
  BY <1>1, <1>2, <1>3, PTL DEF DraftHookSpec

-----------------------------------------------------------------------------
(* The composer.                                                           *)

FormFields ==
  {"photo", "analysis", "failed", "analyzing", "disclosure", "busy", "notice"}

(* All that a form tells of a photo it tells of the one it shows.          *)
FormInv(s) ==
  /\ DOMAIN s = FormFields
  /\ s.photo \in Files \cup {None}
  /\ s.analyzing \in BOOLEAN /\ s.busy \in BOOLEAN
  /\ s.analysis # None => DOMAIN s.analysis = {"file", "confirmed"} /\ s.analysis.file = s.photo
  /\ s.failed # None => s.failed = s.photo
  /\ s.disclosure # None => /\ s.disclosure.number \in 1..opened
                            /\ s.disclosure.file = s.photo
                            /\ s.disclosure.source \in Analyzers

FormsInv ==
  /\ opened \in Nat
  /\ FormInv(state) /\ FormInv(view.shown)
  /\ DOMAIN view = {"shown", "consumer", "analyzer"}
  /\ view.consumer \in Nat /\ view.analyzer \in Analyzers \cup {None}
  /\ ~live => state = Blank /\ authorized = None /\ awaited = 0
  /\ writing \in BOOLEAN /\ live \in BOOLEAN /\ handled \in BOOLEAN

(* What a user acts on and what a disclosure may send is the photo held.   *)
PhotoInv == ~handled \/ authorized # None => view.shown.photo = state.photo

(* The analysis that is wanted is of the photo held.                       *)
RequestsInv ==
  /\ sent \in Seq([source : Analyzers, disclosure : Nat])
  /\ awaited \in Nat
  /\ \A p \in pending : p.call \in 1..Len(sent) /\ (p.call = awaited => p.file = state.photo)
  /\ \A p, q \in pending : p.call = q.call => p = q
  /\ state.analyzing => \E p \in pending : p.call = awaited

Unspent(disclosure) ==
  disclosure # None => \A n \in 1..Len(sent) : sent[n].disclosure # disclosure.number

(* A panel that can be accepted was not accepted before.                   *)
DisclosureInv ==
  /\ \A n \in 1..Len(sent) : sent[n].disclosure <= opened
  /\ Unspent(state.disclosure)
  /\ ~handled \/ authorized # None => Unspent(view.shown.disclosure)

Statuses == {"asked", "rejected", "handed", "deleting", "deleted", "unclean"}

WriteRecords ==
  [status : Statuses, consumer : Nat, file : Files \cup {None}, kept : Files \cup {None}]

(* Only a rejected write is followed by another, and one that landed ended *)
(* the composition, if the form had not gone before.                       *)
AttemptsInv ==
  /\ writes \in Seq(WriteRecords)
  /\ \A w \in 1..Len(writes) : w < Len(writes) => writes[w].status = "rejected"
  /\ \A w \in 1..Len(writes) : writes[w].kept \in {None, writes[w].file}
  /\ writing => /\ writes # << >> /\ writes[Len(writes)].status = "asked"
                /\ attempt = writes[Len(writes)].consumer
  /\ \A w \in 1..Len(writes) : writes[w].status = "asked" => writing
  /\ \A w \in 1..Len(writes) :
       writes[w].status \notin {"asked", "rejected"} => outcome # "open" \/ ~live
  /\ authorized # None => AcceptsWork
  /\ live => (state.busy <=> \E w \in 1..Len(writes) : writes[w].status \in {"asked", "deleting"})
  /\ outcome = "open" => told = << >>

ComposerInv == FormsInv /\ PhotoInv /\ RequestsInv /\ DisclosureInv /\ AttemptsInv

(* The branches of the handlers, one formula each.                         *)

RequestOfView == [number |-> opened + 1, source |-> view.analyzer, file |-> view.shown.photo]

AsksFirst ==
  /\ opened' = opened + 1 /\ authorized' = RequestOfView
  /\ state' = [state EXCEPT !.disclosure = RequestOfView]
  /\ UNCHANGED <<awaited, sent, pending>>

AsksAtOnce ==
  /\ view.analyzer \notin Remote
  /\ awaited' = Len(sent) + 1
  /\ sent' = Append(sent, [source |-> view.analyzer, disclosure |-> 0])
  /\ pending' = pending \cup {[call |-> Len(sent) + 1, file |-> view.shown.photo]}
  /\ state' = [state EXCEPT !.analyzing = TRUE, !.analysis = None, !.failed = None]
  /\ UNCHANGED <<authorized, opened>>

LEMMA RequestSteps ==
  ASSUME RequestAnalysis
  PROVE  /\ live /\ ~handled /\ handled' = TRUE
         /\ view.shown.photo # None /\ view.analyzer # None
         /\ outcome = "open" /\ ~writing
         /\ UNCHANGED <<outcome, writing, attempt, live, view, writes, told>>
         /\ AsksFirst \/ AsksAtOnce
<1>1. /\ live /\ ~handled /\ handled' = TRUE
      /\ view.shown.photo # None /\ view.analyzer # None
      /\ outcome = "open" /\ ~writing
      /\ UNCHANGED <<outcome, writing, attempt, live, view, writes, told>>
  BY DEF RequestAnalysis, Activation, AnalysisControls, AcceptsWork
<1>2. CASE Discloses(view.analyzer)
  <2>1. AsksFirst
    BY <1>2, Zenon DEF RequestAnalysis, AsksFirst, RequestOfView
  <2>2. QED
    BY <1>1, <2>1
<1>3. CASE ~Discloses(view.analyzer)
  <2>1. AsksAtOnce
    BY <1>3, Zenon DEF RequestAnalysis, RunAnalysis, AsksAtOnce, Discloses
  <2>2. QED
    BY <1>1, <2>1
<1>4. QED
  BY <1>2, <1>3

AnswerWanted(p) ==
  \/ state' = [[state EXCEPT !.analyzing = FALSE]
                 EXCEPT !.analysis = [file |-> p.file, confirmed |-> FALSE]]
  \/ state' = [[state EXCEPT !.analyzing = FALSE] EXCEPT !.failed = p.file]

LEMMA AnswerSteps ==
  ASSUME AnalysisAnswers
  PROVE  /\ UNCHANGED <<outcome, writing, attempt, live, awaited, authorized, view, handled,
                        opened, writes, sent, told>>
         /\ \E p \in pending :
              /\ pending' = pending \ {p}
              /\ \/ state' = state /\ ~(live /\ p.call = awaited)
                 \/ live /\ p.call = awaited /\ AnswerWanted(p)
<1>1. UNCHANGED <<outcome, writing, attempt, live, awaited, authorized, view, handled,
                  opened, writes, sent, told>>
  BY DEF AnalysisAnswers, refs
<1>2. \E p \in pending :
        /\ pending' = pending \ {p}
        /\ \/ state' = state /\ ~(live /\ p.call = awaited)
           \/ live /\ p.call = awaited /\ AnswerWanted(p)
  BY Zenon DEF AnalysisAnswers, Wanted, AnswerWanted
<1>3. QED
  BY <1>1, <1>2

HandsOverAtOnce ==
  /\ view.shown.photo = None
  /\ outcome' = "saved"
  /\ state' = EndAnalysis(state)
  /\ told' = Append(told, [what |-> "save", consumer |-> view.consumer, write |-> 0])
  /\ UNCHANGED <<writing, attempt, writes>>

WritesFirst ==
  /\ view.shown.photo # None
  /\ attempt' = view.consumer
  /\ writing' = TRUE
  /\ state' = [EndAnalysis(state) EXCEPT !.busy = TRUE, !.notice = None]
  /\ writes' = Append(writes, [status |-> "asked", consumer |-> view.consumer,
                               file |-> view.shown.photo, kept |-> Kept])
  /\ UNCHANGED <<outcome, told>>

LEMMA SaveSteps ==
  ASSUME Save
  PROVE  /\ live /\ ~handled /\ handled' = TRUE
         /\ outcome = "open" /\ ~writing
         /\ awaited' = 0 /\ authorized' = None
         /\ UNCHANGED <<live, view, opened, sent, pending>>
         /\ HandsOverAtOnce \/ WritesFirst
<1>1. /\ live /\ ~handled /\ handled' = TRUE
      /\ outcome = "open" /\ ~writing
      /\ awaited' = 0 /\ authorized' = None
      /\ UNCHANGED <<live, view, opened, sent, pending>>
  BY DEF Save, Activation, MaySave, Invalidated
<1>2. CASE view.shown.photo = None
  <2>1. HandsOverAtOnce
    BY <1>2, Zenon DEF Save, HandsOverAtOnce, Tell
  <2>2. QED
    BY <1>1, <2>1
<1>3. CASE view.shown.photo # None
  <2>1. WritesFirst
    BY <1>3, Zenon DEF Save, WritesFirst
  <2>2. QED
    BY <1>1, <2>1
<1>4. QED
  BY <1>2, <1>3

(* A form that is still there is idle again, with some notice.             *)
IdleAgain ==
  \/ live /\ \E notice : state' = [state EXCEPT !.busy = FALSE, !.notice = notice]
  \/ live /\ state' = [state EXCEPT !.busy = FALSE]
  \/ ~live /\ state' = state

LEMMA IdleForm ==
  ASSUME FormInv(state), IdleAgain, opened' = opened
  PROVE  /\ FormInv(state)'
         /\ state'.photo = state.photo /\ state'.disclosure = state.disclosure
         /\ state'.analyzing = state.analyzing
         /\ live => state'.busy = FALSE
         /\ ~live => state' = state
<1> USE DEF FormInv, FormFields
<1>1. CASE live /\ \E notice : state' = [state EXCEPT !.busy = FALSE, !.notice = notice]
  BY <1>1
<1>2. CASE live /\ state' = [state EXCEPT !.busy = FALSE]
  BY <1>2
<1>3. CASE ~live /\ state' = state
  BY <1>3
<1>4. QED
  BY <1>1, <1>2, <1>3 DEF IdleAgain

LEMMA FailSteps ==
  ASSUME NEW w \in DOMAIN writes, WriteFails(w)
  PROVE  /\ writes[w].status = "asked"
         /\ writes' = [writes EXCEPT ![w] = [writes[w] EXCEPT !.status = "rejected"]]
         /\ writing' = FALSE /\ attempt' = None
         /\ UNCHANGED <<outcome, live, awaited, authorized, view, handled, opened, sent,
                        pending, told>>
         /\ IdleAgain
<1>1. IdleAgain
  BY Zenon DEF WriteFails, Set, IdleAgain
<1>2. QED
  BY <1>1 DEF WriteFails

Handed(w) ==
  /\ outcome = "open" /\ live
  /\ outcome' = "saved"
  /\ state' = [state EXCEPT !.busy = FALSE]
  /\ writes' = [writes EXCEPT ![w] = [writes[w] EXCEPT !.status = "handed"]]
  /\ told' = Append(told, [what |-> "save", consumer |-> writes[w].consumer, write |-> w])

LeftBehind(w) ==
  /\ ~(outcome = "open" /\ live)
  /\ writes' = [writes EXCEPT ![w] = [writes[w] EXCEPT !.status = "deleting"]]
  /\ UNCHANGED <<outcome, state, told>>

LEMMA LandSteps ==
  ASSUME NEW w \in DOMAIN writes, WriteLands(w)
  PROVE  /\ writes[w].status = "asked"
         /\ writing' = FALSE
         /\ UNCHANGED <<attempt, live, awaited, authorized, view, handled, opened, sent, pending>>
         /\ Handed(w) \/ LeftBehind(w)
<1>1. Handed(w) \/ LeftBehind(w)
  BY Zenon DEF WriteLands, HandsOver, Handed, LeftBehind, Tell
<1>2. QED
  BY <1>1 DEF WriteLands

LEMMA CleanupSteps ==
  ASSUME NEW w \in DOMAIN writes, CleanupAnswers(w)
  PROVE  /\ writes[w].status = "deleting"
         /\ \E s \in {"deleted", "unclean"} :
              writes' = [writes EXCEPT ![w] = [writes[w] EXCEPT !.status = s]]
         /\ UNCHANGED <<outcome, writing, attempt, live, awaited, authorized, view, handled,
                        opened, sent, pending, told>>
         /\ IdleAgain
<1>1. IdleAgain
  BY Zenon DEF CleanupAnswers, Set, AfterFailedCleanup, IdleAgain
<1>2. \E s \in {"deleted", "unclean"} :
        writes' = [writes EXCEPT ![w] = [writes[w] EXCEPT !.status = s]]
  BY Zenon DEF CleanupAnswers
<1>3. QED
  BY <1>1, <1>2 DEF CleanupAnswers, refs

(* Of the form, an answer of the store changes what it says of the Save.   *)
LEMMA StoreAnswersForm ==
  ASSUME FormsInv, StoreAnswers
  PROVE  /\ UNCHANGED <<live, awaited, authorized, view, handled, opened, sent, pending>>
         /\ writing' \in BOOLEAN
         /\ FormInv(state)' /\ (~live => state' = state)
         /\ state'.photo = state.photo /\ state'.disclosure = state.disclosure
         /\ state'.analyzing = state.analyzing
<1>1. PICK w \in DOMAIN writes : WriteFails(w) \/ WriteLands(w) \/ CleanupAnswers(w)
  BY DEF StoreAnswers
<1>2. /\ UNCHANGED <<live, awaited, authorized, view, handled, opened, sent, pending>>
      /\ writing' \in BOOLEAN
  <2>1. CASE WriteFails(w)
    BY <2>1 DEF WriteFails
  <2>2. CASE WriteLands(w)
    BY <2>2 DEF WriteLands
  <2>3. CASE CleanupAnswers(w)
    BY <2>3 DEF CleanupAnswers, refs, FormsInv
  <2>4. QED
    BY <1>1, <2>1, <2>2, <2>3
<1>3. IdleAgain \/ state' = state
  <2>1. CASE WriteFails(w)
    BY <2>1, FailSteps
  <2>2. CASE WriteLands(w)
    <3>1. Handed(w) \/ LeftBehind(w)
      BY <2>2, LandSteps
    <3>2. QED
      BY <3>1, Zenon DEF Handed, LeftBehind, IdleAgain
  <2>3. CASE CleanupAnswers(w)
    BY <2>3, CleanupSteps
  <2>4. QED
    BY <1>1, <2>1, <2>2, <2>3
<1>4. CASE state' = state
  BY <1>2, <1>4 DEF FormsInv, FormInv
<1>5. CASE IdleAgain
  BY <1>2, <1>5, IdleForm DEF FormsInv
<1>6. QED
  BY <1>3, <1>4, <1>5

(* A request is of the photo the form will hold, and the newest.           *)
LEMMA Requested ==
  ASSUME RequestsInv, NEW source \in Analyzers, NEW disclosure \in Nat,
         awaited' = Len(sent) + 1,
         sent' = Append(sent, [source |-> source, disclosure |-> disclosure]),
         pending' = pending \cup {[call |-> Len(sent) + 1, file |-> state'.photo]}
  PROVE  RequestsInv'
<1> USE DEF RequestsInv
<1>1. Len(sent) \in Nat /\ Len(sent') = Len(sent) + 1
  OBVIOUS
<1>2. sent' \in Seq([source : Analyzers, disclosure : Nat])
  OBVIOUS
<1>3. \A p \in pending' : p \in pending \/ p = [call |-> Len(sent) + 1, file |-> state'.photo]
  OBVIOUS
<1>4. \A p \in pending : p.call \in 1..Len(sent)
  OBVIOUS
<1>5. \A p \in pending' : p.call \in 1..Len(sent') /\ (p.call = awaited' => p.file = state'.photo)
  BY <1>1, <1>3, <1>4
<1>6. \A p, q \in pending' : p.call = q.call => p = q
  BY <1>1, <1>3, <1>4
<1>7. \E p \in pending' : p.call = awaited'
  <2>1. [call |-> Len(sent) + 1, file |-> state'.photo] \in pending'
    OBVIOUS
  <2>2. QED
    BY <2>1
<1>8. awaited' \in Nat
  BY <1>1
<1>9. QED
  BY <1>2, <1>5, <1>6, <1>7, <1>8

LEMMA FormsKeep ==
  ASSUME FormsInv, PhotoInv, RequestsInv, [ComposerNext]_composerVars
  PROVE  FormsInv'
<1> USE EventComposerAssumption DEF FormsInv, FormInv, FormFields, PhotoInv, RequestsInv
<1>1. CASE ChoosePhoto
  BY <1>1 DEF ChoosePhoto, Activation, DropAnalysis, EndAnalysis, Invalidated
<1>2. CASE RemovePhoto
  BY <1>2 DEF RemovePhoto, Activation, DropAnalysis, EndAnalysis, Invalidated
<1>3. CASE RequestAnalysis
  <2>1. CASE AsksFirst
    BY <1>3, <2>1, RequestSteps DEF AsksFirst, RequestOfView
  <2>2. CASE AsksAtOnce
    BY <1>3, <2>2, RequestSteps DEF AsksAtOnce
  <2>3. QED
    BY <1>3, <2>1, <2>2, RequestSteps
<1>4. CASE AcceptDisclosure
  BY <1>4 DEF AcceptDisclosure, DisclosurePanel, AnalysisControls, AcceptsWork, Spend, RunAnalysis
<1>5. CASE DeclineDisclosure
  BY <1>5 DEF DeclineDisclosure, Activation, DisclosurePanel, AnalysisControls
<1>6. CASE KeepSuggestions
  BY <1>6 DEF KeepSuggestions, Activation, SuggestionsOffered, AnalysisControls, refs
<1>7. CASE AnalysisAnswers
  <2>1. PICK p \in pending :
          /\ pending' = pending \ {p}
          /\ \/ state' = state /\ ~(live /\ p.call = awaited)
             \/ live /\ p.call = awaited /\ AnswerWanted(p)
    BY <1>7, AnswerSteps, Zenon
  <2>2. CASE state' = state /\ ~(live /\ p.call = awaited)
    BY <1>7, <2>1, <2>2, AnswerSteps
  <2>3. UNCHANGED <<outcome, writing, attempt, live, awaited, authorized, view, handled,
                    opened, writes, sent, told>>
    BY <1>7, AnswerSteps
  <2>4. CASE live /\ p.call = awaited /\ state' = [[state EXCEPT !.analyzing = FALSE]
                        EXCEPT !.analysis = [file |-> p.file, confirmed |-> FALSE]]
    BY <2>1, <2>3, <2>4
  <2>5. CASE live /\ p.call = awaited
               /\ state' = [[state EXCEPT !.analyzing = FALSE] EXCEPT !.failed = p.file]
    BY <2>1, <2>3, <2>5
  <2>6. QED
    BY <2>1, <2>2, <2>4, <2>5, Zenon DEF AnswerWanted
<1>8. CASE Save
  <2>1. CASE HandsOverAtOnce
    BY <1>8, <2>1, SaveSteps DEF HandsOverAtOnce, EndAnalysis
  <2>2. CASE WritesFirst
    BY <1>8, <2>2, SaveSteps DEF WritesFirst, EndAnalysis, Kept
  <2>3. QED
    BY <1>8, <2>1, <2>2, SaveSteps
<1>9. CASE Cancel
  BY <1>9 DEF Cancel, Activation, Invalidated, EndAnalysis, Tell
<1>10. CASE Commit
  BY <1>10 DEF Commit, refs
<1>11. CASE ParentRenders
  BY <1>11 DEF ParentRenders, refs, Rendered
<1>12. CASE AnalyzerEffect
  BY <1>12 DEF AnalyzerEffect, EndAnalysis
<1>13. CASE UnmountComposer
  BY <1>13 DEF UnmountComposer, Rendered, Blank
<1>14. CASE StoreAnswers
  BY <1>14, StoreAnswersForm
<1>15. CASE UNCHANGED composerVars
  BY <1>15 DEF composerVars, refs
<1>16. QED
  BY <1>1, <1>2, <1>3, <1>4, <1>5, <1>6, <1>7, <1>8, <1>9, <1>10, <1>11, <1>12, <1>13, <1>14, <1>15 DEF ComposerNext

LEMMA PhotoKeeps ==
  ASSUME FormsInv, PhotoInv, [ComposerNext]_composerVars
  PROVE  PhotoInv'
<1> USE EventComposerAssumption DEF FormsInv, FormInv, FormFields, PhotoInv
<1>1. CASE ChoosePhoto
  BY <1>1 DEF ChoosePhoto, Activation, DropAnalysis, EndAnalysis, Invalidated
<1>2. CASE RemovePhoto
  BY <1>2 DEF RemovePhoto, Activation, DropAnalysis, EndAnalysis, Invalidated
<1>3. CASE RequestAnalysis
  <2>1. CASE AsksFirst
    BY <1>3, <2>1, RequestSteps DEF AsksFirst, RequestOfView
  <2>2. CASE AsksAtOnce
    BY <1>3, <2>2, RequestSteps DEF AsksAtOnce
  <2>3. QED
    BY <1>3, <2>1, <2>2, RequestSteps
<1>4. CASE AcceptDisclosure
  BY <1>4 DEF AcceptDisclosure, DisclosurePanel, AnalysisControls, AcceptsWork, Spend, RunAnalysis
<1>5. CASE DeclineDisclosure
  BY <1>5 DEF DeclineDisclosure, Activation, DisclosurePanel, AnalysisControls
<1>6. CASE KeepSuggestions
  BY <1>6 DEF KeepSuggestions, Activation, SuggestionsOffered, AnalysisControls, refs
<1>7. CASE AnalysisAnswers
  <2>1. PICK p \in pending :
          /\ pending' = pending \ {p}
          /\ \/ state' = state /\ ~(live /\ p.call = awaited)
             \/ live /\ p.call = awaited /\ AnswerWanted(p)
    BY <1>7, AnswerSteps, Zenon
  <2>2. CASE state' = state /\ ~(live /\ p.call = awaited)
    BY <1>7, <2>1, <2>2, AnswerSteps
  <2>3. UNCHANGED <<outcome, writing, attempt, live, awaited, authorized, view, handled,
                    opened, writes, sent, told>>
    BY <1>7, AnswerSteps
  <2>4. CASE live /\ p.call = awaited /\ state' = [[state EXCEPT !.analyzing = FALSE]
                        EXCEPT !.analysis = [file |-> p.file, confirmed |-> FALSE]]
    BY <2>1, <2>3, <2>4
  <2>5. CASE live /\ p.call = awaited
               /\ state' = [[state EXCEPT !.analyzing = FALSE] EXCEPT !.failed = p.file]
    BY <2>1, <2>3, <2>5
  <2>6. QED
    BY <2>1, <2>2, <2>4, <2>5, Zenon DEF AnswerWanted
<1>8. CASE Save
  <2>1. CASE HandsOverAtOnce
    BY <1>8, <2>1, SaveSteps DEF HandsOverAtOnce, EndAnalysis
  <2>2. CASE WritesFirst
    BY <1>8, <2>2, SaveSteps DEF WritesFirst, EndAnalysis, Kept
  <2>3. QED
    BY <1>8, <2>1, <2>2, SaveSteps
<1>9. CASE Cancel
  BY <1>9 DEF Cancel, Activation, Invalidated, EndAnalysis, Tell
<1>10. CASE Commit
  BY <1>10 DEF Commit, refs
<1>11. CASE ParentRenders
  BY <1>11 DEF ParentRenders, refs, Rendered
<1>12. CASE AnalyzerEffect
  BY <1>12 DEF AnalyzerEffect, EndAnalysis
<1>13. CASE UnmountComposer
  BY <1>13 DEF UnmountComposer, Rendered, Blank
<1>14. CASE StoreAnswers
  BY <1>14, StoreAnswersForm
<1>15. CASE UNCHANGED composerVars
  BY <1>15 DEF composerVars, refs
<1>16. QED
  BY <1>1, <1>2, <1>3, <1>4, <1>5, <1>6, <1>7, <1>8, <1>9, <1>10, <1>11, <1>12, <1>13, <1>14, <1>15 DEF ComposerNext

LEMMA RequestsKeep ==
  ASSUME FormsInv, PhotoInv, RequestsInv, [ComposerNext]_composerVars
  PROVE  RequestsInv'
<1> USE EventComposerAssumption DEF FormsInv, FormInv, FormFields, PhotoInv, RequestsInv
<1>1. CASE ChoosePhoto
  BY <1>1 DEF ChoosePhoto, Activation, DropAnalysis, EndAnalysis, Invalidated
<1>2. CASE RemovePhoto
  BY <1>2 DEF RemovePhoto, Activation, DropAnalysis, EndAnalysis, Invalidated
<1>3. CASE RequestAnalysis
  <2>1. CASE AsksFirst
    BY <1>3, <2>1, RequestSteps DEF AsksFirst, RequestOfView
  <2>2. CASE AsksAtOnce
    <3>1. /\ view.analyzer \in Analyzers /\ view.shown.photo = state.photo /\ state'.photo = state.photo
      BY <1>3, <2>2, RequestSteps DEF AsksAtOnce
    <3>2. /\ awaited' = Len(sent) + 1
          /\ sent' = Append(sent, [source |-> view.analyzer, disclosure |-> 0])
          /\ pending' = pending \cup {[call |-> Len(sent) + 1, file |-> state'.photo]}
      BY <2>2, <3>1 DEF AsksAtOnce
    <3>3. QED
      BY <3>1, <3>2, Requested
  <2>3. QED
    BY <1>3, <2>1, <2>2, RequestSteps
<1>4. CASE AcceptDisclosure
  <2> DEFINE request == view.shown.disclosure
  <2>1. /\ request.source \in Analyzers /\ request.number \in Nat
        /\ request.file = state.photo /\ state'.photo = state.photo
    BY <1>4 DEF AcceptDisclosure, DisclosurePanel, Spend, RunAnalysis
  <2>2. /\ awaited' = Len(sent) + 1
        /\ sent' = Append(sent, [source |-> request.source, disclosure |-> request.number])
        /\ pending' = pending \cup {[call |-> Len(sent) + 1, file |-> request.file]}
    BY <1>4 DEF AcceptDisclosure, RunAnalysis
  <2> HIDE DEF request
  <2>3. QED
    BY <2>1, <2>2, Requested
<1>5. CASE DeclineDisclosure
  BY <1>5 DEF DeclineDisclosure, Activation, DisclosurePanel, AnalysisControls
<1>6. CASE KeepSuggestions
  BY <1>6 DEF KeepSuggestions, Activation, SuggestionsOffered, AnalysisControls, refs
<1>7. CASE AnalysisAnswers
  <2>1. PICK p \in pending :
          /\ pending' = pending \ {p}
          /\ \/ state' = state /\ ~(live /\ p.call = awaited)
             \/ live /\ p.call = awaited /\ AnswerWanted(p)
    BY <1>7, AnswerSteps, Zenon
  <2>2. CASE state' = state /\ ~(live /\ p.call = awaited)
    BY <1>7, <2>1, <2>2, AnswerSteps
  <2>3. UNCHANGED <<outcome, writing, attempt, live, awaited, authorized, view, handled,
                    opened, writes, sent, told>>
    BY <1>7, AnswerSteps
  <2>4. CASE live /\ p.call = awaited /\ state' = [[state EXCEPT !.analyzing = FALSE]
                        EXCEPT !.analysis = [file |-> p.file, confirmed |-> FALSE]]
    BY <2>1, <2>3, <2>4
  <2>5. CASE live /\ p.call = awaited
               /\ state' = [[state EXCEPT !.analyzing = FALSE] EXCEPT !.failed = p.file]
    BY <2>1, <2>3, <2>5
  <2>6. QED
    BY <2>1, <2>2, <2>4, <2>5, Zenon DEF AnswerWanted
<1>8. CASE Save
  <2>1. CASE HandsOverAtOnce
    BY <1>8, <2>1, SaveSteps DEF HandsOverAtOnce, EndAnalysis
  <2>2. CASE WritesFirst
    BY <1>8, <2>2, SaveSteps DEF WritesFirst, EndAnalysis, Kept
  <2>3. QED
    BY <1>8, <2>1, <2>2, SaveSteps
<1>9. CASE Cancel
  BY <1>9 DEF Cancel, Activation, Invalidated, EndAnalysis, Tell
<1>10. CASE Commit
  BY <1>10 DEF Commit, refs
<1>11. CASE ParentRenders
  BY <1>11 DEF ParentRenders, refs, Rendered
<1>12. CASE AnalyzerEffect
  BY <1>12 DEF AnalyzerEffect, EndAnalysis
<1>13. CASE UnmountComposer
  BY <1>13 DEF UnmountComposer, Rendered, Blank
<1>14. CASE StoreAnswers
  BY <1>14, StoreAnswersForm
<1>15. CASE UNCHANGED composerVars
  BY <1>15 DEF composerVars, refs
<1>16. QED
  BY <1>1, <1>2, <1>3, <1>4, <1>5, <1>6, <1>7, <1>8, <1>9, <1>10, <1>11, <1>12, <1>13, <1>14, <1>15 DEF ComposerNext

LEMMA SentNumbers ==
  ASSUME RequestsInv
  PROVE  \A n \in 1..Len(sent) : sent[n].disclosure \in Nat
<1> DEFINE Requests == [source : Analyzers, disclosure : Nat]
<1>1. sent \in Seq(Requests)
  BY DEF RequestsInv
<1>2. \A request \in Requests : request.disclosure \in Nat
  OBVIOUS
<1> HIDE DEF Requests
<1>3. QED
  BY <1>1, <1>2

LEMMA DisclosuresKeep ==
  ASSUME FormsInv, RequestsInv, DisclosureInv, [ComposerNext]_composerVars
  PROVE  DisclosureInv'
<1> USE EventComposerAssumption DEF FormsInv, FormInv, FormFields, DisclosureInv, RequestsInv, Unspent
<1>1. CASE ChoosePhoto
  BY <1>1 DEF ChoosePhoto, Activation, DropAnalysis, EndAnalysis, Invalidated
<1>2. CASE RemovePhoto
  BY <1>2 DEF RemovePhoto, Activation, DropAnalysis, EndAnalysis, Invalidated
<1>3. CASE RequestAnalysis
  <2>1. CASE AsksFirst
    <3>1. /\ opened \in Nat /\ opened' = opened + 1 /\ sent' = sent /\ view' = view /\ ~handled
          /\ state'.disclosure = [number |-> opened + 1, source |-> view.analyzer,
                                  file |-> view.shown.photo]
      BY <1>3, <2>1, RequestSteps DEF AsksFirst, RequestOfView
    <3>2. \A n \in 1..Len(sent) : sent[n].disclosure <= opened + 1 /\ sent[n].disclosure # opened + 1
      BY <3>1, SentNumbers, SMTT(30)
    <3>3. state'.disclosure.number = opened + 1
      BY <3>1
    <3>4. Unspent(state.disclosure)'
      BY <3>1, <3>2, <3>3
    <3>5. QED
      BY <3>1, <3>2, <3>4
  <2>2. CASE AsksAtOnce
    BY <1>3, <2>2, RequestSteps, SMTT(30) DEF AsksAtOnce
  <2>3. QED
    BY <1>3, <2>1, <2>2, RequestSteps
<1>4. CASE AcceptDisclosure
  BY <1>4, SMTT(30) DEF AcceptDisclosure, DisclosurePanel, AnalysisControls, AcceptsWork, Spend, RunAnalysis
<1>5. CASE DeclineDisclosure
  BY <1>5 DEF DeclineDisclosure, Activation, DisclosurePanel, AnalysisControls
<1>6. CASE KeepSuggestions
  BY <1>6 DEF KeepSuggestions, Activation, SuggestionsOffered, AnalysisControls, refs
<1>7. CASE AnalysisAnswers
  <2>1. PICK p \in pending :
          /\ pending' = pending \ {p}
          /\ \/ state' = state /\ ~(live /\ p.call = awaited)
             \/ live /\ p.call = awaited /\ AnswerWanted(p)
    BY <1>7, AnswerSteps, Zenon
  <2>2. CASE state' = state /\ ~(live /\ p.call = awaited)
    BY <1>7, <2>1, <2>2, AnswerSteps
  <2>3. UNCHANGED <<outcome, writing, attempt, live, awaited, authorized, view, handled,
                    opened, writes, sent, told>>
    BY <1>7, AnswerSteps
  <2>4. CASE live /\ p.call = awaited /\ state' = [[state EXCEPT !.analyzing = FALSE]
                        EXCEPT !.analysis = [file |-> p.file, confirmed |-> FALSE]]
    BY <2>1, <2>3, <2>4
  <2>5. CASE live /\ p.call = awaited
               /\ state' = [[state EXCEPT !.analyzing = FALSE] EXCEPT !.failed = p.file]
    BY <2>1, <2>3, <2>5
  <2>6. QED
    BY <2>1, <2>2, <2>4, <2>5, Zenon DEF AnswerWanted
<1>8. CASE Save
  <2>1. CASE HandsOverAtOnce
    BY <1>8, <2>1, SaveSteps DEF HandsOverAtOnce, EndAnalysis
  <2>2. CASE WritesFirst
    BY <1>8, <2>2, SaveSteps DEF WritesFirst, EndAnalysis, Kept
  <2>3. QED
    BY <1>8, <2>1, <2>2, SaveSteps
<1>9. CASE Cancel
  BY <1>9 DEF Cancel, Activation, Invalidated, EndAnalysis, Tell
<1>10. CASE Commit
  BY <1>10 DEF Commit, refs
<1>11. CASE ParentRenders
  BY <1>11 DEF ParentRenders, refs, Rendered
<1>12. CASE AnalyzerEffect
  BY <1>12 DEF AnalyzerEffect, EndAnalysis
<1>13. CASE UnmountComposer
  BY <1>13 DEF UnmountComposer, Rendered, Blank
<1>14. CASE StoreAnswers
  <2>1. /\ UNCHANGED <<authorized, view, handled, opened, sent>>
        /\ state'.disclosure = state.disclosure
    BY <1>14, StoreAnswersForm
  <2>2. QED
    BY <2>1
<1>15. CASE UNCHANGED composerVars
  BY <1>15 DEF composerVars, refs
<1>16. QED
  BY <1>1, <1>2, <1>3, <1>4, <1>5, <1>6, <1>7, <1>8, <1>9, <1>10, <1>11, <1>12, <1>13, <1>14, <1>15 DEF ComposerNext

LEMMA WriteMarked ==
  ASSUME writes \in Seq(WriteRecords), NEW w \in 1..Len(writes), NEW s \in Statuses,
         writes' = [writes EXCEPT ![w] = [writes[w] EXCEPT !.status = s]]
  PROVE  /\ writes' \in Seq(WriteRecords) /\ Len(writes') = Len(writes)
         /\ \A n \in 1..Len(writes) : n # w => writes'[n] = writes[n]
         /\ writes'[w].status = s /\ writes'[w].consumer = writes[w].consumer
         /\ writes'[w].file = writes[w].file /\ writes'[w].kept = writes[w].kept
<1> DEFINE marked == [writes[w] EXCEPT !.status = s]
<1>1. writes[w] \in WriteRecords
  OBVIOUS
<1>2. /\ marked \in WriteRecords /\ marked.status = s /\ marked.consumer = writes[w].consumer
      /\ marked.file = writes[w].file /\ marked.kept = writes[w].kept
  BY <1>1 DEF WriteRecords
<1> HIDE DEF marked
<1>3. writes' = [writes EXCEPT ![w] = marked]
  BY DEF marked
<1>4. writes' \in Seq(WriteRecords) /\ Len(writes') = Len(writes)
  BY <1>2, <1>3
<1>5. writes'[w] = marked /\ \A n \in 1..Len(writes) : n # w => writes'[n] = writes[n]
  BY <1>3
<1>6. QED
  BY <1>2, <1>4, <1>5

(* The newest write is answered.                                           *)
LEMMA AttemptAnswered ==
  ASSUME AttemptsInv, live \in BOOLEAN, NEW w \in 1..Len(writes), w = Len(writes),
         NEW s \in Statuses \ {"asked"},
         writes' = [writes EXCEPT ![w] = [writes[w] EXCEPT !.status = s]],
         writing' = FALSE, UNCHANGED <<live, authorized>>,
         s # "rejected" => outcome' # "open" \/ ~live,
         authorized # None => outcome' = "open",
         outcome' = "open" => told' = << >>,
         live => (state'.busy <=> s = "deleting")
  PROVE  AttemptsInv'
<1>1. /\ writes' \in Seq(WriteRecords) /\ Len(writes') = Len(writes)
      /\ \A n \in 1..Len(writes) : n # w => writes'[n] = writes[n]
      /\ writes'[w].status = s /\ writes'[w].file = writes[w].file
      /\ writes'[w].kept = writes[w].kept
  <2>1. writes \in Seq(WriteRecords) /\ s \in Statuses
    BY DEF AttemptsInv
  <2>2. QED
    BY <2>1, WriteMarked, ZenonT(30)
<1>2. Len(writes) \in Nat /\ \A n \in 1..Len(writes) : n < w => writes[n].status = "rejected"
  BY DEF AttemptsInv
<1>3. \A n \in 1..Len(writes') : n < Len(writes') => writes'[n].status = "rejected"
  BY <1>1, <1>2
<1>4. \A n \in 1..Len(writes') : writes'[n].kept \in {None, writes'[n].file}
  BY <1>1 DEF AttemptsInv
<1>5. \A n \in 1..Len(writes') : writes'[n].status # "asked"
  BY <1>1, <1>2
<1>6. \A n \in 1..Len(writes') :
        writes'[n].status \notin {"asked", "rejected"} => outcome' # "open" \/ ~live'
  BY <1>1, <1>2
<1>7. live' => (state'.busy <=> \E n \in 1..Len(writes') : writes'[n].status \in {"asked", "deleting"})
  <2>1. (\E n \in 1..Len(writes') : writes'[n].status \in {"asked", "deleting"}) <=> s = "deleting"
    BY <1>1, <1>2
  <2>2. QED
    BY <2>1
<1>8. authorized' # None => AcceptsWork'
  BY DEF AcceptsWork
<1>9. QED
  BY <1>1, <1>3, <1>4, <1>5, <1>6, <1>7, <1>8 DEF AttemptsInv

LEMMA AnswersKeepAttempts ==
  ASSUME FormsInv, AttemptsInv, StoreAnswers
  PROVE  AttemptsInv'
<1>1. PICK w \in DOMAIN writes : WriteFails(w) \/ WriteLands(w) \/ CleanupAnswers(w)
  BY DEF StoreAnswers
<1>2. /\ w \in 1..Len(writes) /\ live \in BOOLEAN /\ FormInv(state)
      /\ authorized # None => AcceptsWork
      /\ outcome = "open" => told = << >>
  BY <1>1 DEF AttemptsInv, FormsInv
<1>3. ASSUME writes[w].status = "asked"
      PROVE  w = Len(writes) /\ authorized = None /\ writing
  BY <1>2, <1>3 DEF AttemptsInv, AcceptsWork
<1>4. ASSUME writes[w].status = "deleting"
      PROVE  w = Len(writes) /\ (outcome # "open" \/ ~live) /\ ~writing
  BY <1>2, <1>4 DEF AttemptsInv
<1>5. CASE WriteFails(w)
  <2>1. /\ writes[w].status = "asked" /\ writing' = FALSE
        /\ writes' = [writes EXCEPT ![w] = [writes[w] EXCEPT !.status = "rejected"]]
        /\ UNCHANGED <<outcome, live, authorized, told>> /\ IdleAgain /\ opened' = opened
    BY <1>5, FailSteps
  <2>2. live => state'.busy = FALSE
    BY <1>2, <2>1, IdleForm
  <2>3. authorized = None /\ w = Len(writes) /\ told' = told /\ outcome' = outcome
    BY <1>3, <2>1
  <2>4. /\ "rejected" \in Statuses \ {"asked"}
        /\ live => (state'.busy <=> "rejected" = "deleting")
    BY <2>2 DEF Statuses
  <2>5. QED
    BY <1>2, <2>1, <2>3, <2>4, AttemptAnswered
<1>6. CASE WriteLands(w)
  <2>1. /\ writes[w].status = "asked" /\ UNCHANGED <<live, authorized, opened>>
        /\ writing' = FALSE /\ (Handed(w) \/ LeftBehind(w))
    BY <1>6, LandSteps
  <2>2. CASE Handed(w)
    <3>1. /\ writes' = [writes EXCEPT ![w] = [writes[w] EXCEPT !.status = "handed"]]
          /\ outcome' = "saved" /\ state'.busy = FALSE
      BY <1>2, <2>2 DEF Handed, FormInv, FormFields
    <3>2. /\ "handed" \in Statuses \ {"asked"} /\ outcome' # "open"
          /\ live => (state'.busy <=> "handed" = "deleting")
      BY <3>1 DEF Statuses
    <3>3. authorized = None /\ w = Len(writes)
      BY <1>3, <2>1
    <3>4. QED
      BY <1>2, <2>1, <3>1, <3>2, <3>3, AttemptAnswered
  <2>3. CASE LeftBehind(w)
    <3>1. /\ writes' = [writes EXCEPT ![w] = [writes[w] EXCEPT !.status = "deleting"]]
          /\ outcome' = outcome /\ state' = state /\ told' = told /\ (outcome # "open" \/ ~live)
      BY <2>3 DEF LeftBehind
    <3>2. live => state.busy
      BY <2>1, <1>2 DEF AttemptsInv
    <3>3. QED
      BY <1>2, <1>3, <2>1, <3>1, <3>2, AttemptAnswered DEF Statuses
  <2>4. QED
    BY <2>1, <2>2, <2>3
<1>7. CASE CleanupAnswers(w)
  <2>1. PICK s \in {"deleted", "unclean"} :
          writes' = [writes EXCEPT ![w] = [writes[w] EXCEPT !.status = s]]
    BY <1>7, CleanupSteps
  <2>2. /\ writes[w].status = "deleting" /\ IdleAgain
        /\ UNCHANGED <<outcome, writing, live, authorized, told, opened>>
    BY <1>7, CleanupSteps
  <2>3. live => state'.busy = FALSE
    BY <1>2, <2>2, IdleForm
  <2>4. writing' = FALSE
    BY <1>4, <2>2 DEF FormsInv
  <2>5. authorized # None => outcome = "open"
    BY <1>2 DEF AcceptsWork
  <2>6. QED
    BY <1>2, <1>4, <2>1, <2>2, <2>3, <2>4, <2>5, AttemptAnswered DEF Statuses
<1>8. QED
  BY <1>1, <1>5, <1>6, <1>7

(* A write is begun, which no other is under way of.                       *)
LEMMA AttemptBegun ==
  ASSUME FormsInv, AttemptsInv, live, outcome = "open", ~writing, WritesFirst,
         UNCHANGED <<live, view>>, authorized' = None
  PROVE  AttemptsInv'
<1> DEFINE begun == [status |-> "asked", consumer |-> view.consumer,
                     file |-> view.shown.photo, kept |-> Kept]
<1>1. begun \in WriteRecords /\ begun.kept \in {None, begun.file}
  <2>1. Kept \in {None, view.shown.photo}
    BY DEF FormsInv, FormInv, Kept
  <2>2. view.consumer \in Nat /\ view.shown.photo \in Files \cup {None}
    BY DEF FormsInv, FormInv
  <2>3. QED
    BY <2>1, <2>2 DEF WriteRecords, Statuses
<1>2. begun.status = "asked" /\ begun.consumer = view.consumer
  OBVIOUS
<1> HIDE DEF begun
<1>3. writes \in Seq(WriteRecords) /\ Len(writes) \in Nat /\ writes' = Append(writes, begun)
  BY DEF AttemptsInv, WritesFirst, begun
<1>4. /\ writes' \in Seq(WriteRecords) /\ Len(writes') = Len(writes) + 1
      /\ writes'[Len(writes')] = begun /\ \A n \in 1..Len(writes) : writes'[n] = writes[n]
  BY <1>1, <1>3
<1>5. \A n \in 1..Len(writes) : writes[n].status = "rejected"
  BY <1>3 DEF AttemptsInv, WriteRecords, Statuses
<1>6. \A n \in 1..Len(writes') : n < Len(writes') => n \in 1..Len(writes)
  BY <1>3, <1>4
<1>7. \A n \in 1..Len(writes') : n < Len(writes') => writes'[n].status = "rejected"
  BY <1>4, <1>5, <1>6
<1>8. \A n \in 1..Len(writes') : writes'[n].kept \in {None, writes'[n].file}
  <2>1. \A n \in 1..Len(writes) : writes[n].kept \in {None, writes[n].file}
    BY DEF AttemptsInv
  <2>2. QED
    BY <1>1, <1>3, <1>4, <2>1
<1>9. \A n \in 1..Len(writes') : writes'[n].status \in {"asked", "rejected"}
  BY <1>2, <1>3, <1>4, <1>5
<1>10. /\ writes' # << >> /\ Len(writes') \in 1..Len(writes')
       /\ writes'[Len(writes')].status = "asked" /\ attempt' = writes'[Len(writes')].consumer
  BY <1>2, <1>3, <1>4 DEF WritesFirst
<1>11. writing' = TRUE /\ state'.busy = TRUE /\ outcome' = outcome /\ told' = told
  BY DEF WritesFirst, EndAnalysis, FormsInv, FormInv, FormFields
<1>12. outcome = "open" => told = << >>
  BY DEF AttemptsInv
<1>13. QED
  BY <1>4, <1>7, <1>8, <1>9, <1>10, <1>11, <1>12 DEF AttemptsInv

LEMMA AttemptsKeep ==
  ASSUME FormsInv, AttemptsInv, [ComposerNext]_composerVars
  PROVE  AttemptsInv'
<1> USE EventComposerAssumption DEF FormsInv, FormInv, FormFields, AttemptsInv, AcceptsWork, WriteRecords, Statuses
<1>1. CASE ChoosePhoto
  BY <1>1 DEF ChoosePhoto, Activation, DropAnalysis, EndAnalysis, Invalidated
<1>2. CASE RemovePhoto
  BY <1>2 DEF RemovePhoto, Activation, DropAnalysis, EndAnalysis, Invalidated
<1>3. CASE RequestAnalysis
  <2>1. CASE AsksFirst
    BY <1>3, <2>1, RequestSteps DEF AsksFirst, RequestOfView
  <2>2. CASE AsksAtOnce
    BY <1>3, <2>2, RequestSteps DEF AsksAtOnce
  <2>3. QED
    BY <1>3, <2>1, <2>2, RequestSteps
<1>4. CASE AcceptDisclosure
  BY <1>4 DEF AcceptDisclosure, DisclosurePanel, AnalysisControls, AcceptsWork, Spend, RunAnalysis
<1>5. CASE DeclineDisclosure
  BY <1>5 DEF DeclineDisclosure, Activation, DisclosurePanel, AnalysisControls
<1>6. CASE KeepSuggestions
  BY <1>6 DEF KeepSuggestions, Activation, SuggestionsOffered, AnalysisControls, refs
<1>7. CASE AnalysisAnswers
  <2>1. PICK p \in pending :
          /\ pending' = pending \ {p}
          /\ \/ state' = state /\ ~(live /\ p.call = awaited)
             \/ live /\ p.call = awaited /\ AnswerWanted(p)
    BY <1>7, AnswerSteps, Zenon
  <2>2. CASE state' = state /\ ~(live /\ p.call = awaited)
    BY <1>7, <2>1, <2>2, AnswerSteps
  <2>3. UNCHANGED <<outcome, writing, attempt, live, awaited, authorized, view, handled,
                    opened, writes, sent, told>>
    BY <1>7, AnswerSteps
  <2>4. CASE live /\ p.call = awaited /\ state' = [[state EXCEPT !.analyzing = FALSE]
                        EXCEPT !.analysis = [file |-> p.file, confirmed |-> FALSE]]
    BY <2>1, <2>3, <2>4
  <2>5. CASE live /\ p.call = awaited
               /\ state' = [[state EXCEPT !.analyzing = FALSE] EXCEPT !.failed = p.file]
    BY <2>1, <2>3, <2>5
  <2>6. QED
    BY <2>1, <2>2, <2>4, <2>5, Zenon DEF AnswerWanted
<1>8. CASE Save
  <2>1. CASE HandsOverAtOnce
    BY <1>8, <2>1, SaveSteps DEF HandsOverAtOnce, EndAnalysis
  <2>2. CASE WritesFirst
    BY <1>8, <2>2, SaveSteps, AttemptBegun
  <2>3. QED
    BY <1>8, <2>1, <2>2, SaveSteps
<1>9. CASE Cancel
  BY <1>9 DEF Cancel, Activation, Invalidated, EndAnalysis, Tell
<1>10. CASE Commit
  BY <1>10 DEF Commit, refs
<1>11. CASE ParentRenders
  BY <1>11 DEF ParentRenders, refs, Rendered
<1>12. CASE AnalyzerEffect
  BY <1>12 DEF AnalyzerEffect, EndAnalysis
<1>13. CASE UnmountComposer
  BY <1>13 DEF UnmountComposer, Rendered, Blank
<1>14. CASE StoreAnswers
  BY <1>14, AnswersKeepAttempts
<1>15. CASE UNCHANGED composerVars
  BY <1>15 DEF composerVars, refs
<1>16. QED
  BY <1>1, <1>2, <1>3, <1>4, <1>5, <1>6, <1>7, <1>8, <1>9, <1>10, <1>11, <1>12, <1>13, <1>14, <1>15 DEF ComposerNext

LEMMA ComposerStart == ComposerInit => ComposerInv
<1> SUFFICES ASSUME ComposerInit PROVE ComposerInv
  OBVIOUS
<1>1. FormsInv /\ PhotoInv
  <2>1. FormInv(Blank)
    BY DEF Blank, FormInv, FormFields
  <2>2. PICK a \in Analyzers \cup {None} : view = Rendered(Blank, 1, a)
    BY DEF ComposerInit
  <2>3. /\ DOMAIN view = {"shown", "consumer", "analyzer"} /\ view.shown = Blank
        /\ view.consumer \in Nat /\ view.analyzer \in Analyzers \cup {None}
    BY <2>2 DEF Rendered
  <2>4. state = Blank /\ opened \in Nat /\ live = TRUE /\ writing = FALSE /\ handled = FALSE
    BY DEF ComposerInit
  <2>5. QED
    BY <2>1, <2>3, <2>4 DEF FormsInv, PhotoInv
<1>2. RequestsInv /\ DisclosureInv
  BY DEF ComposerInit, Blank, Rendered, RequestsInv, DisclosureInv, Unspent
<1>3. AttemptsInv
  BY DEF ComposerInit, Blank, AttemptsInv
<1>4. QED
  BY <1>1, <1>2, <1>3 DEF ComposerInv

LEMMA ComposerKeeps == ComposerInv /\ [ComposerNext]_composerVars => ComposerInv'
BY FormsKeep, PhotoKeeps, RequestsKeep, DisclosuresKeep, AttemptsKeep DEF ComposerInv

LEMMA ComposerInvariant == ComposerSpec => []ComposerInv
BY ComposerStart, ComposerKeeps, PTL DEF ComposerSpec

(* Whatever is chosen, answered, saved and rendered in whatever order, the *)
(* form says of the photo it shows what was found of that photo, and what  *)
(* it says is under way is.                                                *)
THEOREM WorkIsAlwaysFollowed == ComposerSpec => []WorkIsFollowed
<1>1. ASSUME ComposerInv PROVE AnalysisDescribesPhoto
  BY <1>1 DEF ComposerInv, FormsInv, FormInv, AttemptsInv, AnalysisDescribesPhoto
<1>2. ASSUME ComposerInv PROVE NothingStranded
  <2>1. state.analyzing => \E p \in pending : p.call = awaited
    BY <1>2 DEF ComposerInv, RequestsInv
  <2>2. live => (state.busy <=> \E w \in DOMAIN writes : writes[w].status \in {"asked", "deleting"})
    BY <1>2 DEF ComposerInv, AttemptsInv
  <2>3. {w \in DOMAIN writes : writes[w].status = "asked"} = IF writing THEN {Len(writes)} ELSE {}
    BY <1>2 DEF ComposerInv, AttemptsInv, FormsInv
  <2>4. QED
    BY <2>1, <2>2, <2>3 DEF NothingStranded
<1>3. ComposerInv => WorkIsFollowed
  BY <1>1, <1>2 DEF WorkIsFollowed
<1> QED
  BY <1>3, ComposerInvariant, PTL

LEMMA HandsOffOnce ==
  ASSUME ComposerInv, [ComposerNext]_composerVars, told' # told
  PROVE  /\ live /\ told = << >>
         /\ told'[1].write # 0 => told'[1].consumer = writes[told'[1].write].consumer
         /\ outcome' = "cancelled" /\ writing =>
              told'[1].consumer = writes[Len(writes)].consumer
<1>1. outcome = "open" => told = << >>
  BY DEF ComposerInv, AttemptsInv
<1>2. CASE Save
  <2>1. HandsOverAtOnce /\ live /\ outcome = "open"
    BY <1>2, SaveSteps DEF WritesFirst
  <2>2. told'[1].write = 0 /\ outcome' = "saved"
    BY <1>1, <2>1 DEF HandsOverAtOnce
  <2>3. QED
    BY <1>1, <2>1, <2>2
<1>3. CASE Cancel
  <2>1. live /\ outcome = "open"
    BY <1>3 DEF Cancel, Activation
  <2>2. told'[1].write = 0 /\ told'[1].consumer = CancelRecipient
    BY <1>1, <1>3, <2>1 DEF Cancel, Tell
  <2>3. writing => attempt = writes[Len(writes)].consumer /\ attempt \in Nat
    <3>1. /\ writes \in Seq(WriteRecords)
          /\ writing => writes # << >> /\ attempt = writes[Len(writes)].consumer
      BY DEF ComposerInv, AttemptsInv
    <3>2. writing => writes[Len(writes)] \in WriteRecords
      BY <3>1
    <3>3. QED
      BY <3>1, <3>2 DEF WriteRecords
  <2>4. writing => CancelRecipient = writes[Len(writes)].consumer
    BY <2>3, EventComposerAssumption DEF CancelRecipient
  <2>5. QED
    BY <1>1, <2>1, <2>2, <2>4
<1>4. CASE StoreAnswers
  <2>1. PICK w \in DOMAIN writes : WriteFails(w) \/ WriteLands(w) \/ CleanupAnswers(w)
    BY <1>4 DEF StoreAnswers
  <2>2. Handed(w)
    BY <2>1, FailSteps, LandSteps, CleanupSteps DEF LeftBehind
  <2>3. live /\ outcome = "open" /\ outcome' = "saved"
    BY <2>2 DEF Handed
  <2>4. told'[1].write = w /\ told'[1].consumer = writes[w].consumer
    BY <1>1, <2>2, <2>3 DEF Handed
  <2>5. QED
    BY <1>1, <2>3, <2>4
<1>5. CASE ChoosePhoto \/ RemovePhoto \/ DeclineDisclosure \/ KeepSuggestions
  BY <1>5 DEF ChoosePhoto, RemovePhoto, DeclineDisclosure, KeepSuggestions
<1>6. CASE RequestAnalysis \/ AnalysisAnswers
  BY <1>6, RequestSteps, AnswerSteps
<1>7. CASE AcceptDisclosure \/ Commit \/ ParentRenders \/ AnalyzerEffect \/ UnmountComposer
  BY <1>7 DEF AcceptDisclosure, Commit, ParentRenders, AnalyzerEffect, UnmountComposer
<1>8. CASE UNCHANGED composerVars
  BY <1>8 DEF composerVars
<1>9. QED
  BY <1>2, <1>3, <1>4, <1>5, <1>6, <1>7, <1>8 DEF ComposerNext

LEMMA DisclosedEgress ==
  ASSUME ComposerInv, [ComposerNext]_composerVars, sent' # sent,
         NEW call, call = sent'[Len(sent')], call.source \in Remote
  PROVE  /\ call.disclosure # 0
         /\ \A n \in DOMAIN sent : sent[n].disclosure # call.disclosure
         /\ [call |-> Len(sent'), file |-> state.photo] \in pending'
<1>1. /\ FormInv(view.shown) /\ sent \in Seq([source : Analyzers, disclosure : Nat])
      /\ authorized # None => view.shown.photo = state.photo /\ Unspent(view.shown.disclosure)
      /\ opened \in Nat
  BY DEF ComposerInv, FormsInv, PhotoInv, RequestsInv, DisclosureInv
<1>2. CASE RequestAnalysis
  <2>1. AsksAtOnce
    BY <1>2, RequestSteps DEF AsksFirst
  <2>2. call = [source |-> view.analyzer, disclosure |-> 0] /\ view.analyzer \notin Remote
    BY <1>1, <2>1 DEF AsksAtOnce
  <2>3. QED
    BY <2>2
<1>3. CASE AcceptDisclosure
  <2> DEFINE request == view.shown.disclosure
  <2>1. /\ request # None /\ authorized # None
        /\ sent' = Append(sent, [source |-> request.source, disclosure |-> request.number])
        /\ pending' = pending \cup {[call |-> Len(sent) + 1, file |-> request.file]}
    BY <1>3 DEF AcceptDisclosure, DisclosurePanel, Spend, RunAnalysis
  <2>2. /\ request.number \in 1..opened /\ request.file = state.photo
        /\ \A n \in 1..Len(sent) : sent[n].disclosure # request.number
    BY <1>1, <2>1 DEF FormInv, Unspent
  <2> HIDE DEF request
  <2>3. call.disclosure = request.number /\ Len(sent') = Len(sent) + 1
    BY <1>1, <2>1
  <2>4. request.number # 0
    BY <1>1, <2>2
  <2>5. \A n \in DOMAIN sent : sent[n].disclosure # call.disclosure
    BY <1>1, <2>2, <2>3
  <2>6. QED
    BY <2>1, <2>2, <2>3, <2>4, <2>5
<1>4. CASE AnalysisAnswers \/ Save \/ StoreAnswers
  BY <1>4, AnswerSteps, SaveSteps, StoreAnswersForm DEF ComposerInv
<1>5. CASE ChoosePhoto \/ RemovePhoto \/ DeclineDisclosure \/ KeepSuggestions \/ Cancel
  BY <1>5 DEF ChoosePhoto, RemovePhoto, DeclineDisclosure, KeepSuggestions, Cancel
<1>6. CASE Commit \/ ParentRenders \/ AnalyzerEffect \/ UnmountComposer
  BY <1>6 DEF Commit, ParentRenders, AnalyzerEffect, UnmountComposer
<1>7. CASE UNCHANGED composerVars
  BY <1>7 DEF composerVars
<1>8. QED
  BY <1>2, <1>3, <1>4, <1>5, <1>6, <1>7 DEF ComposerNext

(* However answers, activations and renders interleave, the composer calls *)
(* back once and to the consumer concerned, and a photo leaves the device  *)
(* only by a disclosure of its own that was not spent.                     *)
THEOREM ItLeavesAsAgreed == ComposerSpec => LeavesAsAgreed
<1>1. ComposerInv /\ [ComposerNext]_composerVars =>
        [told' # told =>
           /\ live /\ told = << >>
           /\ told'[1].write # 0 => told'[1].consumer = writes[told'[1].write].consumer
           /\ outcome' = "cancelled" /\ writing =>
                told'[1].consumer = writes[Len(writes)].consumer]_composerVars
  BY HandsOffOnce
<1>2. ComposerInv /\ [ComposerNext]_composerVars =>
        [sent' # sent =>
           LET call == sent'[Len(sent')]
           IN call.source \in Remote =>
                /\ call.disclosure # 0
                /\ \A n \in DOMAIN sent : sent[n].disclosure # call.disclosure
                /\ [call |-> Len(sent'), file |-> state.photo] \in pending']_composerVars
  BY DisclosedEgress
<1>3. ComposerSpec => HandoffOnce
  BY <1>1, ComposerInvariant, PTL DEF ComposerSpec, HandoffOnce
<1>4. ComposerSpec => EgressDisclosed
  BY <1>2, ComposerInvariant, PTL DEF ComposerSpec, EgressDisclosed
<1> QED
  BY <1>3, <1>4 DEF LeavesAsAgreed

-----------------------------------------------------------------------------
(* The recorder hook.                                                      *)

Kinds == {"none", "recording", "paused", "finalized"}
Candidates == [trip : Nat, status : Kinds]

RecorderRecords ==
  [trip : Nat, status : {"recording", "paused", "finalized", "dead"}, instance : Nat,
   awaits : {"nothing", "start", "resumeRecovered", "stop"}, offer : Nat]

ScanRecords ==
  [phase : {"listing", "fetching", "done", "failed"}, trip : Nat, answer : Candidates]

HookTypes ==
  /\ record \in [Trips -> Kinds]
  /\ recorders \in Seq(RecorderRecords) /\ scans \in Seq(ScanRecords)
  /\ mounted \in BOOLEAN /\ instance \in Nat
  /\ recovered \in Candidates /\ offeredBy \in Nat
  /\ release \in 0..Len(recorders) /\ held \in 0..Len(recorders)
  /\ \A n \in 1..Len(scans) : scans[n].trip \in Trips \cup {0}

(* The live scan is the newest, and what it found is what is on offer.     *)
ScanInv ==
  /\ mounted => liveScan = Len(scans) /\ scans # << >>
  /\ NewestScanWins

(* A recorder that ended awaits nothing, one whose stop() is awaited has   *)
(* ended, what is subscribed to is a recorder of an instance there has     *)
(* been, and one that is starting is heard and not the one to let go of.   *)
RecordersInv ==
  /\ \A r \in 1..Len(recorders) :
       /\ recorders[r].instance <= instance
       /\ recorders[r].status = "dead" => recorders[r].awaits = "nothing"
       /\ recorders[r].awaits = "stop" => recorders[r].status = "finalized"
  /\ subscribed \subseteq 1..Len(recorders)
  /\ SubscriptionOwned
  /\ mounted =>
       \A r \in 1..Len(recorders) :
         recorders[r].instance = instance /\ recorders[r].awaits \in {"start", "resumeRecovered"}
           => r \in subscribed \ {release}

(* A scan that has answered.                                               *)
Answered(n) == n \in 1..Len(scans) /\ scans[n].phase = "done"

(* The candidate is the answer of the scan that put it up, and a command   *)
(* is given on the candidate that was on offer then.                       *)
OfferInv ==
  /\ recovered # NoCandidate => Answered(offeredBy) /\ recovered = scans[offeredBy].answer
  /\ \A r \in 1..Len(recorders) :
       recorders[r].awaits = "resumeRecovered" =>
         /\ Answered(recorders[r].offer)
         /\ recorders[r].trip = scans[recorders[r].offer].answer.trip
  /\ discards \subseteq [trip : Nat, instance : Nat, offer : Nat, landed : BOOLEAN]
  /\ \A d \in discards : Answered(d.offer) /\ d.trip = scans[d.offer].answer.trip

HookInv == HookTypes /\ ScanInv /\ RecordersInv /\ OfferInv

(* Of a recorder, only what it is about to do changes.                     *)
Moved(r, awaits, status) ==
  /\ recorders' \in Seq(RecorderRecords) /\ Len(recorders') = Len(recorders)
  /\ \A n \in 1..Len(recorders) : n # r => recorders'[n] = recorders[n]
  /\ recorders'[r].awaits = awaits /\ recorders'[r].status = status
  /\ recorders'[r].instance = recorders[r].instance
  /\ recorders'[r].trip = recorders[r].trip
  /\ recorders'[r].awaits = "nothing" \/ recorders'[r].offer = recorders[r].offer

LEMMA MovedTo ==
  ASSUME recorders \in Seq(RecorderRecords), NEW r \in 1..Len(recorders), NEW x \in RecorderRecords,
         x.instance = recorders[r].instance, x.trip = recorders[r].trip,
         x.awaits = "nothing" \/ x.offer = recorders[r].offer,
         recorders' = [recorders EXCEPT ![r] = x]
  PROVE  Moved(r, x.awaits, x.status)
BY DEF Moved

LEMMA RecorderMoves ==
  ASSUME HookTypes, NEW r \in 1..Len(recorders)
  PROVE  /\ StartContinues(r) \/ StopContinues(r) \/ StopFails(r) =>
              Moved(r, "nothing", recorders[r].status)
         /\ StartFails(r) => Moved(r, "nothing", "dead")
<1> DEFINE x == recorders[r]
<1>1. recorders \in Seq(RecorderRecords) /\ x \in RecorderRecords
  BY DEF HookTypes
<1>2. ASSUME StartContinues(r) \/ StopContinues(r) \/ StopFails(r)
      PROVE  Moved(r, "nothing", recorders[r].status)
  <2> DEFINE y == [x EXCEPT !.awaits = "nothing", !.offer = 0]
             z == [x EXCEPT !.awaits = "nothing"]
  <2>1. recorders' = [recorders EXCEPT ![r] = y] \/ recorders' = [recorders EXCEPT ![r] = z]
    BY <1>1, <1>2 DEF StartContinues, StopContinues, StopFails
  <2>2. /\ y \in RecorderRecords /\ y.awaits = "nothing" /\ y.status = x.status
        /\ y.instance = x.instance /\ y.trip = x.trip
    BY <1>1 DEF RecorderRecords
  <2>3. /\ z \in RecorderRecords /\ z.awaits = "nothing" /\ z.status = x.status
        /\ z.instance = x.instance /\ z.trip = x.trip
    BY <1>1 DEF RecorderRecords
  <2> HIDE DEF y, z
  <2>4. QED
    BY <1>1, <2>1, <2>2, <2>3, MovedTo
<1>3. ASSUME StartFails(r) PROVE Moved(r, "nothing", "dead")
  <2> DEFINE y == [x EXCEPT !.awaits = "nothing", !.offer = 0, !.status = "dead"]
  <2>1. recorders' = [recorders EXCEPT ![r] = y]
    BY <1>1, <1>3 DEF StartFails
  <2>2. /\ y \in RecorderRecords /\ y.awaits = "nothing" /\ y.status = "dead"
        /\ y.instance = x.instance /\ y.trip = x.trip
    BY <1>1 DEF RecorderRecords
  <2> HIDE DEF y
  <2>3. QED
    BY <1>1, <2>1, <2>2, MovedTo
<1>4. QED
  BY <1>2, <1>3

LEMMA HeldMoves ==
  ASSUME HookTypes
  PROVE  /\ PauseOrResume \/ Stop => held \in 1..Len(recorders)
         /\ Stop => Moved(held, "stop", "finalized") /\ recorders[held].awaits = "nothing"
         /\ PauseOrResume => \/ Moved(held, recorders[held].awaits, "recording")
                             \/ Moved(held, recorders[held].awaits, "paused")
         /\ PauseOrResume => recorders[held].status # "finalized"
<1> DEFINE x == recorders[held]
<1>1. ASSUME PauseOrResume \/ Stop
      PROVE  held \in 1..Len(recorders) /\ recorders \in Seq(RecorderRecords) /\ x \in RecorderRecords
  <2>1. held \in 1..Len(recorders)
    BY <1>1 DEF HookTypes, PauseOrResume, Stop
  <2>2. QED
    BY <2>1 DEF HookTypes
<1>2. ASSUME Stop PROVE Moved(held, "stop", "finalized") /\ recorders[held].awaits = "nothing"
  <2> DEFINE y == [x EXCEPT !.status = "finalized", !.awaits = "stop"]
  <2>1. recorders' = [recorders EXCEPT ![held] = y]
    BY <1>1, <1>2 DEF Stop
  <2>2. /\ y \in RecorderRecords /\ y.awaits = "stop" /\ y.status = "finalized"
        /\ y.instance = x.instance /\ y.trip = x.trip /\ y.offer = x.offer
        /\ x.awaits = "nothing"
    BY <1>1, <1>2 DEF RecorderRecords, Stop
  <2> HIDE DEF y
  <2>3. Moved(held, "stop", "finalized")
    BY <1>1, <1>2, <2>1, <2>2, MovedTo
  <2>4. QED
    BY <2>2, <2>3
<1>3. ASSUME PauseOrResume, NEW status \in {"recording", "paused"},
             recorders' = [recorders EXCEPT ![held] = [x EXCEPT !.status = status]]
      PROVE  Moved(held, x.awaits, status)
  <2> DEFINE y == [x EXCEPT !.status = status]
  <2>1. /\ y \in RecorderRecords /\ y.awaits = x.awaits /\ y.status = status
        /\ y.instance = x.instance /\ y.trip = x.trip /\ y.offer = x.offer
    BY <1>1, <1>3 DEF RecorderRecords
  <2>2. recorders' = [recorders EXCEPT ![held] = y]
    BY <1>3
  <2> HIDE DEF y
  <2>3. QED
    BY <1>1, <1>3, <2>1, <2>2, MovedTo
<1>4. ASSUME PauseOrResume
      PROVE  \/ recorders' = [recorders EXCEPT ![held] = [x EXCEPT !.status = "recording"]]
             \/ recorders' = [recorders EXCEPT ![held] = [x EXCEPT !.status = "paused"]]
  BY <1>1, <1>4 DEF PauseOrResume
<1>5. PauseOrResume => recorders[held].status # "finalized"
  BY DEF PauseOrResume
<1>6. QED
  BY <1>1, <1>2, <1>3, <1>4, <1>5

LEMMA ScanMoves ==
  ASSUME HookTypes, NEW n \in 1..Len(scans),
         ScanLists(n) \/ ScanAnswers(n) \/ ScanFails(n)
  PROVE  /\ scans' \in Seq(ScanRecords) /\ Len(scans') = Len(scans)
         /\ \A m \in 1..Len(scans) : m # n => scans'[m] = scans[m]
         /\ scans'[n].trip \in Trips \cup {0}
         /\ Found(n) \in Candidates
         /\ scans[n].phase # "done"
         /\ ScanLists(n) \/ ScanFails(n) => scans'[n].phase # "done"
         /\ ScanAnswers(n) => scans'[n].phase = "done" /\ scans'[n].answer = Found(n)
<1> DEFINE x == scans[n]
<1>1. scans \in Seq(ScanRecords) /\ x \in ScanRecords /\ x.trip \in Trips \cup {0}
  BY DEF HookTypes
<1>2. Found(n) \in Candidates
  <2>1. x.trip # 0 => record[x.trip] \in Kinds /\ x.trip \in Nat
    BY <1>1 DEF HookTypes, ScanRecords
  <2>2. QED
    BY <2>1 DEF Found, Candidates, NoCandidate, Kinds
<1>3. ASSUME NEW y \in ScanRecords, scans' = [scans EXCEPT ![n] = y]
      PROVE  /\ scans' \in Seq(ScanRecords) /\ Len(scans') = Len(scans)
             /\ \A m \in 1..Len(scans) : m # n => scans'[m] = scans[m]
             /\ scans'[n] = y
  BY <1>1, <1>3
<1>4. ASSUME NEW y \in ScanRecords, scans' = [scans EXCEPT ![n] = y], x.phase # "done",
             y.trip \in Trips \cup {0},
             ScanLists(n) \/ ScanFails(n) => y.phase # "done",
             ScanAnswers(n) => y.phase = "done" /\ y.answer = Found(n)
      PROVE  /\ scans' \in Seq(ScanRecords) /\ Len(scans') = Len(scans)
             /\ \A m \in 1..Len(scans) : m # n => scans'[m] = scans[m]
             /\ scans'[n].trip \in Trips \cup {0}
             /\ scans[n].phase # "done"
             /\ ScanLists(n) \/ ScanFails(n) => scans'[n].phase # "done"
             /\ ScanAnswers(n) => scans'[n].phase = "done" /\ scans'[n].answer = Found(n)
  BY <1>3, <1>4
<1>5. /\ ScanLists(n) => scans'[n].phase = "fetching"
      /\ ScanFails(n) => scans'[n].phase = "failed"
      /\ ScanAnswers(n) => scans'[n].phase = "done"
  BY <1>1 DEF ScanLists, ScanFails, ScanAnswers, ScanRecords
<1>6. CASE ScanLists(n)
  <2>1. PICK t \in Trips : scans' = [scans EXCEPT ![n] = [x EXCEPT !.phase = "fetching", !.trip = t]]
    BY <1>1, <1>6 DEF ScanLists
  <2> DEFINE y == [x EXCEPT !.phase = "fetching", !.trip = t]
  <2>2. t \in Nat
    BY TrackRecorderHookAssumption DEF Trips
  <2>3. x.phase = "listing"
    BY <1>6 DEF ScanLists
  <2>4. y \in ScanRecords /\ y.phase = "fetching" /\ y.trip = t
    BY <1>1, <2>2, <2>3 DEF ScanRecords
  <2>5. scans' = [scans EXCEPT ![n] = y]
    BY <2>1
  <2>6. ~ScanAnswers(n)
    BY <1>5, <1>6
  <2> HIDE DEF y
  <2>7. QED
    BY <1>2, <1>4, <2>3, <2>4, <2>5, <2>6
<1>7. CASE ScanFails(n)
  <2> DEFINE y == [x EXCEPT !.phase = "failed", !.trip = 0]
  <2>1. scans' = [scans EXCEPT ![n] = y] /\ x.phase # "done"
    BY <1>1, <1>7 DEF ScanFails
  <2>2. y \in ScanRecords /\ y.phase = "failed" /\ y.trip = 0
    BY <1>1 DEF ScanRecords
  <2>3. ~ScanAnswers(n)
    BY <1>5, <1>7
  <2> HIDE DEF y
  <2>4. QED
    BY <1>2, <1>4, <2>1, <2>2, <2>3
<1>8. CASE ScanAnswers(n)
  <2> DEFINE y == [x EXCEPT !.phase = "done", !.trip = 0, !.answer = Found(n)]
  <2>1. scans' = [scans EXCEPT ![n] = y] /\ x.phase # "done"
    BY <1>1, <1>8 DEF ScanAnswers
  <2>2. y \in ScanRecords /\ y.phase = "done" /\ y.trip = 0 /\ y.answer = Found(n)
    BY <1>1, <1>2 DEF ScanRecords
  <2>3. ~ScanLists(n) /\ ~ScanFails(n)
    BY <1>5, <1>8
  <2> HIDE DEF y
  <2>4. QED
    BY <1>2, <1>4, <2>1, <2>2, <2>3
<1>9. QED
  BY <1>6, <1>7, <1>8

LEMMA ScanBegins ==
  ASSUME HookTypes, BeginScan
  PROVE  /\ scans' \in Seq(ScanRecords) /\ Len(scans') = Len(scans) + 1
         /\ \A n \in 1..Len(scans) : scans'[n] = scans[n]
         /\ scans'[Len(scans')].phase = "listing" /\ scans'[Len(scans')].trip = 0
         /\ liveScan' = Len(scans') /\ scans' # << >>
<1> DEFINE x == [phase |-> "listing", trip |-> 0, answer |-> NoCandidate]
<1>1. x \in ScanRecords /\ x.phase = "listing" /\ x.trip = 0
  BY DEF ScanRecords, Candidates, NoCandidate, Kinds
<1>2. scans \in Seq(ScanRecords) /\ scans' = Append(scans, x) /\ liveScan' = Len(scans) + 1
  BY DEF HookTypes, BeginScan
<1> HIDE DEF x
<1>3. QED
  BY <1>1, <1>2

LEMMA RecorderStarts ==
  ASSUME HookTypes, StartFresh \/ ResumeRecovered
  PROVE  /\ mounted /\ UNCHANGED <<record, scans, discards, hookVars>>
         /\ recorders' \in Seq(RecorderRecords) /\ Len(recorders') = Len(recorders) + 1
         /\ \A r \in 1..Len(recorders) : recorders'[r] = recorders[r]
         /\ recorders'[Len(recorders')].instance = instance
         /\ recorders'[Len(recorders')].status = "recording"
         /\ recorders'[Len(recorders')].awaits \in {"start", "resumeRecovered"}
         /\ recorders'[Len(recorders')].awaits = "resumeRecovered" =>
              /\ recovered # NoCandidate
              /\ recorders'[Len(recorders')].trip = recovered.trip
              /\ recorders'[Len(recorders')].offer = offeredBy
         /\ subscribed' = subscribed \cup {Len(recorders')}
<1>1. PICK trip \in Nat, awaits \in {"start", "resumeRecovered"}, offer \in Nat :
        /\ StartWith(trip, awaits, offer)
        /\ awaits = "resumeRecovered" =>
             recovered # NoCandidate /\ trip = recovered.trip /\ offer = offeredBy
  <2>1. Len(recorders) + 1 \in Nat /\ recovered.trip \in Nat /\ offeredBy \in Nat
    BY DEF HookTypes, Candidates
  <2>2. CASE StartFresh
    BY <2>1, <2>2 DEF StartFresh
  <2>3. CASE ResumeRecovered
    <3>1. recovered # NoCandidate
      BY <2>3 DEF ResumeRecovered, NoCandidate
    <3>2. QED
      BY <2>1, <2>3, <3>1 DEF ResumeRecovered
  <2>4. QED
    BY <2>2, <2>3
<1> DEFINE x == [trip |-> trip, status |-> "recording", instance |-> instance, awaits |-> awaits,
                 offer |-> offer]
<1>2. /\ x \in RecorderRecords /\ x.instance = instance /\ x.status = "recording"
      /\ x.awaits = awaits /\ x.trip = trip /\ x.offer = offer
  BY <1>1 DEF RecorderRecords, HookTypes
<1>3. /\ recorders \in Seq(RecorderRecords) /\ recorders' = Append(recorders, x)
      /\ mounted /\ UNCHANGED <<record, scans, discards, hookVars>>
      /\ subscribed' = subscribed \cup {Len(recorders) + 1}
  BY <1>1 DEF HookTypes, StartWith
<1> HIDE DEF x
<1>4. QED
  BY <1>1, <1>2, <1>3

LEMMA HookTypesKeep ==
  ASSUME HookTypes, [Next]_vars
  PROVE  HookTypes'
<1> USE DEF HookTypes
<1>1. CASE Mount
  <2>1. /\ BeginScan /\ mounted' = TRUE /\ instance' = instance + 1
        /\ recovered' = NoCandidate /\ offeredBy' = 0 /\ held' = 0 /\ release' = 0
        /\ UNCHANGED <<record, recorders>>
    BY <1>1 DEF Mount
  <2>2. NoCandidate \in Candidates
    BY DEF NoCandidate, Candidates, Kinds
  <2>3. \A n \in 1..Len(scans') : scans'[n].trip \in Trips \cup {0}
    BY <2>1, ScanBegins
  <2>4. /\ held' \in 0..Len(recorders') /\ release' \in 0..Len(recorders')
        /\ mounted' \in BOOLEAN /\ instance' \in Nat /\ offeredBy' \in Nat
    BY <2>1
  <2>5. scans' \in Seq(ScanRecords)
    BY <2>1, ScanBegins
  <2>6. QED
    BY <2>1, <2>2, <2>3, <2>4, <2>5
<1>2. CASE EffectRunsAgain
  <2>1. BeginScan /\ UNCHANGED <<record, recorders, mounted, instance, recovered, offeredBy, held,
                                   release>>
    BY <1>2 DEF EffectRunsAgain
  <2>2. QED
    BY <2>1, ScanBegins, SMTT(30)
<1>3. CASE Unmount
  <2>1. /\ mounted' = FALSE /\ release' = 0
        /\ UNCHANGED <<record, recorders, scans, instance, recovered, offeredBy, held>>
    BY <1>3 DEF Unmount
  <2>2. release' \in 0..Len(recorders')
    BY <2>1
  <2>3. QED
    BY <2>1, <2>2
<1>4. CASE Reload
  <2>1. /\ NoCandidate \in Candidates
        /\ mounted' = FALSE /\ recovered' = NoCandidate /\ offeredBy' = 0
        /\ held' = 0 /\ release' = 0 /\ UNCHANGED <<record, instance>>
    BY <1>4 DEF Reload, NoCandidate, Candidates, Kinds
  <2>2. recorders' \in Seq(RecorderRecords)
    <3> DEFINE ended(x) == [x EXCEPT !.status = "dead", !.awaits = "nothing", !.offer = 0]
    <3>1. \A x \in RecorderRecords : ended(x) \in RecorderRecords
      BY DEF RecorderRecords
    <3>2. DOMAIN recorders = 1..Len(recorders)
      OBVIOUS
    <3>3. recorders' = [r \in 1..Len(recorders) |-> ended(recorders[r])]
      BY <1>4, <3>2 DEF Reload
    <3> HIDE DEF ended
    <3>4. QED
      BY <3>1, <3>3
  <2>3. /\ scans' \in Seq(ScanRecords) /\ Len(scans') = Len(scans)
        /\ \A n \in 1..Len(scans) : scans'[n].trip = scans[n].trip
    <3> DEFINE over(x) == [x EXCEPT !.phase = "done"]
    <3>1. \A x \in ScanRecords : over(x) \in ScanRecords /\ over(x).trip = x.trip
      BY DEF ScanRecords
    <3>2. DOMAIN scans = 1..Len(scans)
      OBVIOUS
    <3>3. scans' = [n \in 1..Len(scans) |-> over(scans[n])]
      BY <1>4, <3>2 DEF Reload
    <3> HIDE DEF over
    <3>4. QED
      BY <3>1, <3>3
  <2>4. /\ held' \in 0..Len(recorders') /\ release' \in 0..Len(recorders')
        /\ mounted' \in BOOLEAN /\ offeredBy' \in Nat
    <3>1. Len(recorders') \in Nat
      BY <2>2
    <3>2. held' \in 0..Len(recorders') /\ release' \in 0..Len(recorders')
      BY <2>1, <3>1
    <3>3. QED
      BY <2>1, <3>2
  <2>5. \A n \in 1..Len(scans') : scans'[n].trip \in Trips \cup {0}
    BY <2>3
  <2>6. QED
    BY <2>1, <2>2, <2>3, <2>4, <2>5
<1>5. ASSUME NEW n \in DOMAIN scans, ScanLists(n) \/ ScanAnswers(n) \/ ScanFails(n) PROVE HookTypes'
  <2>1. n \in 1..Len(scans)
    OBVIOUS
  <2>2. /\ scans' \in Seq(ScanRecords) /\ Len(scans') = Len(scans)
        /\ \A m \in 1..Len(scans) : m # n => scans'[m] = scans[m]
        /\ scans'[n].trip \in Trips \cup {0} /\ Found(n) \in Candidates
    BY <1>5, <2>1, ScanMoves
  <2>3. /\ UNCHANGED <<record, recorders, mounted, instance, held, release>>
        /\ recovered' \in {recovered, Found(n)} /\ offeredBy' \in {offeredBy, n}
    BY <1>5 DEF ScanLists, ScanAnswers, ScanFails, hookVars
  <2>4. \A m \in 1..Len(scans') : scans'[m].trip \in Trips \cup {0}
    BY <2>1, <2>2
  <2>5. QED
    BY <2>2, <2>3, <2>4
<1>6. CASE StartFresh \/ ResumeRecovered
  <2>1. /\ UNCHANGED <<record, scans, mounted, instance, recovered, offeredBy, held, release>>
        /\ recorders' \in Seq(RecorderRecords) /\ Len(recorders') = Len(recorders) + 1
    BY <1>6, RecorderStarts DEF hookVars
  <2>2. held' \in 0..Len(recorders') /\ release' \in 0..Len(recorders')
    BY <2>1
  <2>3. QED
    BY <2>1, <2>2
<1>7. CASE PauseOrResume \/ Stop
  <2>1. recorders' \in Seq(RecorderRecords) /\ Len(recorders') = Len(recorders)
    BY <1>7, HeldMoves DEF Moved
  <2>2. UNCHANGED <<record, scans, hookVars>>
    BY <1>7 DEF PauseOrResume, Stop
  <2>3. QED
    BY <2>1, <2>2 DEF hookVars
<1>8. CASE DiscardRecovered
  BY <1>8 DEF DiscardRecovered, hookVars
<1>9. CASE DiscardAnswered \/ DiscardLands
  <2>1. /\ UNCHANGED <<recorders, scans, mounted, instance, offeredBy, held, release>>
        /\ recovered' \in {recovered, NoCandidate}
    BY <1>9 DEF DiscardAnswered, DiscardLands, hookVars
  <2>2. record' \in [Trips -> Kinds]
    BY <1>9 DEF DiscardAnswered, DiscardLands, Kinds
  <2>3. NoCandidate \in Candidates
    BY DEF NoCandidate, Candidates, Kinds
  <2>4. QED
    BY <2>1, <2>2, <2>3
<1>10. ASSUME NEW r \in DOMAIN recorders,
              StartContinues(r) \/ StartFails(r) \/ StopContinues(r) \/ StopFails(r)
       PROVE  HookTypes'
  <2>1. r \in 1..Len(recorders) /\ r \in Nat
    OBVIOUS
  <2>2. recorders' \in Seq(RecorderRecords) /\ Len(recorders') = Len(recorders)
    BY <1>10, <2>1, RecorderMoves DEF Moved
  <2>3. /\ UNCHANGED <<scans, mounted, instance, offeredBy>>
        /\ held' \in {held, r} /\ release' \in {release, r, 0}
        /\ recovered' \in {recovered, NoCandidate}
    BY <1>10 DEF StartContinues, StartFails, StopContinues, StopFails, CandidateAfterFailure, hookVars
  <2>4. record' \in [Trips -> Kinds]
    BY <1>10 DEF StartContinues, StartFails, StopContinues, StopFails, Kinds
  <2>5. NoCandidate \in Candidates
    BY DEF NoCandidate, Candidates, Kinds
  <2>6. QED
    BY <2>1, <2>2, <2>3, <2>4, <2>5
<1>11. ASSUME NEW r \in DOMAIN recorders, Autosave(r) PROVE HookTypes'
  <2>1. recorders[r].status \in Kinds
    BY <1>11 DEF Autosave, Live, Kinds
  <2>2. QED
    BY <1>11, <2>1 DEF Autosave, hookVars
<1>12. CASE UNCHANGED vars
  BY <1>12 DEF vars, hookVars
<1>13. QED
  BY <1>1, <1>2, <1>3, <1>4, <1>5, <1>6, <1>7, <1>8, <1>9, <1>10, <1>11, <1>12 DEF Next

LEMMA ScanInvKeeps ==
  ASSUME HookInv, HookTypes', [Next]_vars
  PROVE  ScanInv'
<1> USE DEF ScanInv, NewestScanWins
<1>1. ASSUME UNCHANGED <<mounted, scans, liveScan>>, recovered' \in {recovered, NoCandidate}
      PROVE  ScanInv'
  BY <1>1 DEF HookInv
<1>2. CASE Mount \/ EffectRunsAgain
  <2>1. BeginScan
    BY <1>2 DEF Mount, EffectRunsAgain
  <2>2. liveScan' = Len(scans') /\ scans' # << >> /\ scans'[Len(scans')].phase = "listing"
    BY <2>1, ScanBegins DEF HookInv
  <2>3. QED
    BY <2>2
<1>3. CASE Unmount \/ Reload
  BY <1>3 DEF Unmount, Reload
<1>4. ASSUME NEW n \in DOMAIN scans, ScanLists(n) \/ ScanAnswers(n) \/ ScanFails(n) PROVE ScanInv'
  <2>1. n \in 1..Len(scans) /\ Len(scans) \in Nat
    BY DEF HookInv, HookTypes
  <2>2. /\ Len(scans') = Len(scans)
        /\ \A m \in 1..Len(scans) : m # n => scans'[m] = scans[m]
        /\ ScanLists(n) \/ ScanFails(n) => scans'[n].phase # "done"
        /\ ScanAnswers(n) => scans'[n].phase = "done" /\ scans'[n].answer = Found(n)
    BY <1>4, <2>1, ScanMoves DEF HookInv
  <2>3. /\ UNCHANGED <<mounted, liveScan>>
        /\ n # liveScan => recovered' = recovered
        /\ n = liveScan /\ ScanAnswers(n) => recovered' = Found(n)
    BY <1>4 DEF ScanLists, ScanAnswers, ScanFails, Publishes, hookVars
  <2>4. SUFFICES ASSUME mounted' PROVE ScanInv'
    OBVIOUS
  <2>5. liveScan' = Len(scans') /\ Len(scans) # 0 /\ liveScan = Len(scans)
    BY <2>1, <2>2, <2>3, <2>4 DEF HookInv
  <2>6. scans' # << >>
    BY <2>2, <2>5 DEF HookTypes
  <2>7. CASE n = Len(scans)
    BY <1>4, <2>2, <2>3, <2>5, <2>6, <2>7
  <2>8. CASE n # Len(scans)
    <3>1. scans'[Len(scans)] = scans[Len(scans)] /\ recovered' = recovered
      BY <2>1, <2>2, <2>3, <2>5, <2>8
    <3>2. QED
      BY <2>2, <2>3, <2>5, <2>6, <3>1 DEF HookInv
  <2>9. QED
    BY <2>7, <2>8
<1>5. CASE StartFresh \/ ResumeRecovered
  BY <1>1, <1>5, RecorderStarts DEF hookVars, HookInv
<1>6. CASE PauseOrResume \/ Stop
  BY <1>1, <1>6 DEF PauseOrResume, Stop, hookVars
<1>7. CASE DiscardRecovered \/ DiscardLands \/ DiscardAnswered
  BY <1>1, <1>7 DEF DiscardRecovered, DiscardLands, DiscardAnswered, hookVars
<1>8. ASSUME NEW r \in DOMAIN recorders,
             \/ StartContinues(r) \/ StartFails(r) \/ StopContinues(r) \/ StopFails(r)
             \/ Autosave(r)
      PROVE  ScanInv'
  BY <1>1, <1>8 DEF StartContinues, StartFails, CandidateAfterFailure, StopContinues, StopFails,
                    Autosave, hookVars
<1>9. CASE UNCHANGED vars
  BY <1>1, <1>9 DEF vars, hookVars
<1>10. QED
  BY <1>2, <1>3, <1>4, <1>5, <1>6, <1>7, <1>8, <1>9 DEF Next

LEMMA RecordersInvKeeps ==
  ASSUME HookInv, HookTypes', [Next]_vars
  PROVE  RecordersInv'
<1> USE DEF RecordersInv, SubscriptionOwned
<1>1. HookTypes /\ RecordersInv /\ recorders \in Seq(RecorderRecords)
  BY DEF HookInv, HookTypes
<1>2. ASSUME UNCHANGED <<recorders, subscribed, release, mounted, instance>>
      PROVE  RecordersInv'
  BY <1>1, <1>2
<1>3. CASE Mount
  <2>1. /\ UNCHANGED <<recorders, subscribed>> /\ instance' = instance + 1
        /\ instance \in Nat
    BY <1>1, <1>3 DEF Mount, HookTypes
  <2>2. \A r \in 1..Len(recorders) : recorders[r].instance <= instance /\ recorders[r].instance \in Nat
    <3>1. \A r \in 1..Len(recorders) : recorders[r] \in RecorderRecords
      BY <1>1
    <3>2. QED
      BY <1>1, <3>1 DEF RecorderRecords
  <2>3. \A r \in 1..Len(recorders) : recorders[r].instance <= instance' /\ recorders[r].instance # instance'
    BY <2>1, <2>2
  <2>4. QED
    BY <1>1, <2>1, <2>3
<1>4. CASE EffectRunsAgain
  BY <1>2, <1>4 DEF EffectRunsAgain
<1>5. CASE Unmount
  BY <1>1, <1>5 DEF Unmount
<1>6. CASE Reload
  <2>1. DOMAIN recorders = 1..Len(recorders)
    BY <1>1
  <2>2. recorders' = [r \in 1..Len(recorders) |->
                        [recorders[r] EXCEPT !.status = "dead", !.awaits = "nothing", !.offer = 0]]
    BY <1>6, <2>1 DEF Reload
  <2>3. /\ Len(recorders') = Len(recorders)
        /\ \A r \in 1..Len(recorders) :
             /\ recorders'[r].instance = recorders[r].instance
             /\ recorders'[r].awaits = "nothing"
    <3>1. Len(recorders') = Len(recorders)
      <4>1. recorders' \in Seq(RecorderRecords)
        BY DEF HookTypes
      <4>2. DOMAIN recorders' = 1..Len(recorders)
        BY <2>2, Zenon
      <4>3. Len(recorders) \in Nat
        BY <1>1
      <4>4. QED
        BY <4>1, <4>2, <4>3
    <3>2. ASSUME NEW r \in 1..Len(recorders)
          PROVE  recorders'[r].instance = recorders[r].instance /\ recorders'[r].awaits = "nothing"
      <4>1. recorders[r] \in RecorderRecords
        BY <1>1
      <4>2. recorders'[r] = [recorders[r] EXCEPT !.status = "dead", !.awaits = "nothing",
                                                    !.offer = 0]
        BY <2>2
      <4>3. QED
        BY <4>1, <4>2 DEF RecorderRecords
    <3>3. QED
      BY <3>1, <3>2
  <2>4. subscribed' = {} /\ mounted' = FALSE /\ instance' = instance
    BY <1>6 DEF Reload
  <2>5. QED
    BY <1>1, <2>3, <2>4
<1>7. ASSUME NEW n \in DOMAIN scans, ScanLists(n) \/ ScanAnswers(n) \/ ScanFails(n) PROVE RecordersInv'
  BY <1>2, <1>7 DEF ScanLists, ScanAnswers, ScanFails, hookVars
<1>8. CASE StartFresh \/ ResumeRecovered
  <2> DEFINE new == Len(recorders')
  <2>1. /\ mounted /\ UNCHANGED <<mounted, instance, release>>
        /\ new = Len(recorders) + 1 /\ Len(recorders) \in Nat /\ instance \in Nat
        /\ \A r \in 1..Len(recorders) : recorders'[r] = recorders[r]
        /\ recorders'[new].instance = instance /\ recorders'[new].status = "recording"
        /\ recorders'[new].awaits \in {"start", "resumeRecovered"}
        /\ subscribed' = subscribed \cup {new}
    BY <1>1, <1>8, RecorderStarts DEF hookVars, HookTypes
  <2> HIDE DEF new
  <2>2. \A r \in 1..new : r = new \/ r \in 1..Len(recorders)
    BY <2>1
  <2>3. new \in 1..new /\ \A r \in 1..Len(recorders) : r \in 1..new
    BY <2>1
  <2>4. \A r \in 1..new :
          /\ recorders'[r].instance <= instance'
          /\ recorders'[r].status = "dead" => recorders'[r].awaits = "nothing"
          /\ recorders'[r].awaits = "stop" => recorders'[r].status = "finalized"
    BY <1>1, <2>1, <2>2
  <2>5. subscribed' \subseteq 1..new
    BY <1>1, <2>1, <2>3
  <2>6. SubscriptionOwned'
    BY <1>1, <2>1
  <2>7. release \in 0..Len(recorders) /\ new # release
    BY <1>1, <2>1 DEF HookTypes
  <2>8. mounted' =>
          \A r \in 1..new :
            recorders'[r].instance = instance' /\ recorders'[r].awaits \in {"start", "resumeRecovered"}
              => r \in subscribed' \ {release'}
    BY <1>1, <2>1, <2>2, <2>7
  <2>9. QED
    BY <2>4, <2>5, <2>6, <2>8 DEF new
<1>9. ASSUME NEW r \in 1..Len(recorders), NEW awaits, NEW status, Moved(r, awaits, status),
             awaits = "nothing" \/ status # "dead",
             awaits = "stop" => status = "finalized",
             UNCHANGED <<mounted, instance>>, subscribed' \subseteq subscribed,
             mounted' =>
               \A s \in subscribed' :
                 recorders'[s].instance = instance =>
                   s = release' \/ recorders'[s].awaits \in {"start", "resumeRecovered"},
             mounted' =>
               \A s \in 1..Len(recorders) :
                 recorders'[s].instance = instance /\ recorders'[s].awaits \in {"start", "resumeRecovered"}
                   => s \in subscribed' \ {release'}
      PROVE  RecordersInv'
  <2>1. \A s \in 1..Len(recorders) :
          /\ recorders'[s].instance <= instance
          /\ recorders'[s].status = "dead" => recorders'[s].awaits = "nothing"
          /\ recorders'[s].awaits = "stop" => recorders'[s].status = "finalized"
    BY <1>1, <1>9 DEF Moved
  <2>2. Len(recorders') = Len(recorders)
    BY <1>9 DEF Moved
  <2>3. QED
    BY <1>1, <1>9, <2>1, <2>2
<1>10. CASE Stop
  <2>1. /\ held \in 1..Len(recorders) /\ Moved(held, "stop", "finalized")
        /\ recorders[held].awaits = "nothing"
    BY <1>1, <1>10, HeldMoves
  <2>2. UNCHANGED <<subscribed, mounted, instance, release>> /\ mounted
    BY <1>10 DEF Stop, hookVars
  <2>3. \A s \in subscribed :
          recorders'[s].instance = instance =>
            s = release' \/ recorders'[s].awaits \in {"start", "resumeRecovered"}
    BY <1>1, <2>1, <2>2 DEF Moved
  <2>4. \A s \in 1..Len(recorders) :
          recorders'[s].instance = instance /\ recorders'[s].awaits \in {"start", "resumeRecovered"}
            => s \in subscribed' \ {release'}
    BY <1>1, <2>1, <2>2 DEF Moved
  <2>5. QED
    BY <1>9, <2>1, <2>2, <2>3, <2>4
<1>11. CASE PauseOrResume
  <2>1. PICK status \in {"recording", "paused"} : Moved(held, recorders[held].awaits, status)
    BY <1>1, <1>11, HeldMoves
  <2>2. /\ UNCHANGED <<subscribed, mounted, instance, release>> /\ mounted
        /\ held \in 1..Len(recorders)
    BY <1>1, <1>11, HeldMoves DEF PauseOrResume, hookVars
  <2>3. \A s \in subscribed :
          recorders'[s].instance = instance =>
            s = release' \/ recorders'[s].awaits \in {"start", "resumeRecovered"}
    BY <1>1, <2>1, <2>2 DEF Moved
  <2>4. status # "dead" /\ recorders[held].awaits # "stop"
    BY <1>1, <1>11, <2>1, <2>2, HeldMoves
  <2>5. \A s \in 1..Len(recorders) :
          recorders'[s].instance = instance /\ recorders'[s].awaits \in {"start", "resumeRecovered"}
            => s \in subscribed' \ {release'}
    BY <1>1, <2>1, <2>2 DEF Moved
  <2>6. QED
    BY <1>9, <2>1, <2>2, <2>3, <2>4, <2>5
<1>12. CASE DiscardRecovered \/ DiscardLands \/ DiscardAnswered
  BY <1>2, <1>12 DEF DiscardRecovered, DiscardLands, DiscardAnswered, hookVars
<1>13. ASSUME NEW r \in DOMAIN recorders,
              \/ StartContinues(r) \/ StartFails(r) \/ StopContinues(r) \/ StopFails(r)
       PROVE  RecordersInv'
  <2>1. r \in 1..Len(recorders) /\ r # 0
    BY <1>1
  <2>2. /\ StartContinues(r) \/ StopContinues(r) \/ StopFails(r) =>
             Moved(r, "nothing", recorders[r].status)
        /\ StartFails(r) => Moved(r, "nothing", "dead")
    BY <1>1, <2>1, RecorderMoves
  <2>3. PICK status : Moved(r, "nothing", status)
    BY <1>13, <2>2
  <2>4. UNCHANGED <<mounted, instance>>
    BY <1>13 DEF StartContinues, StartFails, StopContinues, StopFails, hookVars
  <2>5. SUFFICES /\ subscribed' \subseteq subscribed
                 /\ mounted' =>
                      \A s \in subscribed' :
                        recorders'[s].instance = instance =>
                          s = release' \/ recorders'[s].awaits \in {"start", "resumeRecovered"}
                 /\ mounted' =>
                      \A s \in 1..Len(recorders) :
                        recorders'[s].instance = instance
                          /\ recorders'[s].awaits \in {"start", "resumeRecovered"}
                          => s \in subscribed' \ {release'}
    BY <1>9, <2>1, <2>3, <2>4
  <2>6. CASE StartContinues(r)
    <3>1. /\ \/ recorders[r].instance # instance /\ UNCHANGED <<subscribed, release>>
             \/ subscribed' = subscribed \ {release} /\ release' = r
      BY <2>6 DEF StartContinues, Current, SubscribedAfterStart
    <3>2. QED
      BY <1>1, <2>1, <2>3, <2>4, <2>5, <3>1 DEF Moved
  <2>7. CASE StartFails(r)
    <3>1. subscribed' = subscribed \ {r} /\ UNCHANGED release
      BY <2>7 DEF StartFails
    <3>2. QED
      BY <1>1, <2>1, <2>3, <2>4, <2>5, <3>1 DEF Moved
  <2>8. CASE StopContinues(r)
    <3>1. /\ recorders[r].awaits = "stop"
          /\ \/ recorders[r].instance # instance /\ UNCHANGED <<subscribed, release>>
             \/ subscribed' = subscribed \ {release} /\ release' = 0
      BY <2>8 DEF StopContinues, Current
    <3>2. \A s \in 1..Len(recorders) : s # 0
      BY <1>1
    <3>3. QED
      BY <1>1, <2>1, <2>3, <2>4, <2>5, <3>1, <3>2 DEF Moved
  <2>9. CASE StopFails(r)
    <3>1. recorders[r].awaits = "stop" /\ UNCHANGED <<subscribed, release>>
      BY <2>9 DEF StopFails, hookVars
    <3>2. QED
      BY <1>1, <2>1, <2>3, <2>4, <2>5, <3>1 DEF Moved
  <2>10. QED
    BY <1>13, <2>6, <2>7, <2>8, <2>9
<1>14. ASSUME NEW r \in DOMAIN recorders, Autosave(r) PROVE RecordersInv'
  BY <1>2, <1>14 DEF Autosave, hookVars
<1>15. CASE UNCHANGED vars
  BY <1>2, <1>15 DEF vars, hookVars
<1>16. QED
  BY <1>3, <1>4, <1>5, <1>6, <1>7, <1>8, <1>10, <1>11, <1>12, <1>13, <1>14, <1>15 DEF Next

(* A scan that has answered stays as it is.                                *)
LEMMA AnswersStay ==
  ASSUME HookInv, HookTypes', [Next]_vars, NEW n, Answered(n)
  PROVE  Answered(n)' /\ scans'[n].answer = scans[n].answer
<1> USE DEF Answered
<1>1. HookTypes /\ n \in 1..Len(scans) /\ scans[n].phase = "done" /\ scans \in Seq(ScanRecords)
  BY DEF HookInv, HookTypes
<1>2. CASE UNCHANGED scans
  BY <1>1, <1>2
<1>3. CASE BeginScan
  BY <1>1, <1>3, ScanBegins
<1>4. ASSUME NEW m \in DOMAIN scans, ScanLists(m) \/ ScanAnswers(m) \/ ScanFails(m)
      PROVE  Answered(n)' /\ scans'[n].answer = scans[n].answer
  <2>1. m \in 1..Len(scans)
    BY <1>1
  <2>2. /\ scans[m].phase # "done" /\ Len(scans') = Len(scans)
        /\ \A k \in 1..Len(scans) : k # m => scans'[k] = scans[k]
    BY <1>1, <1>4, <2>1, ScanMoves
  <2>3. QED
    BY <1>1, <2>2
<1>5. CASE Reload
  <2>1. DOMAIN scans = 1..Len(scans)
    BY <1>1
  <2>2. scans' = [k \in 1..Len(scans) |-> [scans[k] EXCEPT !.phase = "done"]]
    BY <1>5, <2>1 DEF Reload
  <2>3. Len(scans') = Len(scans)
    <3>1. scans' \in Seq(ScanRecords)
      BY DEF HookTypes
    <3>2. DOMAIN scans' = 1..Len(scans)
      BY <2>2, Zenon
    <3>3. Len(scans) \in Nat
      BY <1>1
    <3>4. QED
      BY <3>1, <3>2, <3>3
  <2>4. scans'[n] = [scans[n] EXCEPT !.phase = "done"] /\ scans[n] \in ScanRecords
    BY <1>1, <2>2
  <2>5. QED
    BY <1>1, <2>3, <2>4 DEF ScanRecords
<1>6. CASE Mount \/ EffectRunsAgain
  BY <1>3, <1>6 DEF Mount, EffectRunsAgain
<1>7. CASE \/ Unmount \/ StartFresh \/ ResumeRecovered \/ PauseOrResume \/ Stop
           \/ DiscardRecovered \/ DiscardLands \/ DiscardAnswered
           \/ \E r \in DOMAIN recorders :
                StartContinues(r) \/ StartFails(r) \/ StopContinues(r) \/ StopFails(r) \/ Autosave(r)
           \/ UNCHANGED vars
  BY <1>2, <1>7 DEF Unmount, StartFresh, ResumeRecovered, StartWith, PauseOrResume, Stop,
       DiscardRecovered, DiscardLands, DiscardAnswered, StartContinues, StartFails, StopContinues,
       StopFails, Autosave, vars
<1>8. QED
  BY <1>4, <1>5, <1>6, <1>7 DEF Next

LEMMA OfferInvKeeps ==
  ASSUME HookInv, HookTypes', [Next]_vars
  PROVE  OfferInv'
<1>1. HookTypes /\ OfferInv /\ recorders \in Seq(RecorderRecords) /\ Len(recorders) \in Nat
  BY DEF HookInv, HookTypes
<1>2. \A n : Answered(n) =>
               /\ n \in 1..Len(scans') /\ scans'[n].phase = "done"
               /\ scans'[n].answer = scans[n].answer
  BY AnswersStay DEF Answered
(* The three parts, each kept by what leaves its own state alone.          *)
<1> DEFINE Candidate == recovered # NoCandidate => Answered(offeredBy) /\ recovered = scans[offeredBy].answer
           Resumed   == \A r \in 1..Len(recorders) :
                          recorders[r].awaits = "resumeRecovered" =>
                            /\ Answered(recorders[r].offer)
                            /\ recorders[r].trip = scans[recorders[r].offer].answer.trip
           Deleted   == /\ discards \subseteq [trip : Nat, instance : Nat, offer : Nat, landed : BOOLEAN]
                        /\ \A d \in discards : Answered(d.offer) /\ d.trip = scans[d.offer].answer.trip
           AnsweredThen(n) == n \in 1..Len(scans') /\ scans'[n].phase = "done"
<1>3. Candidate /\ Resumed /\ Deleted
  BY <1>1 DEF OfferInv
<1>4. ASSUME Candidate', Resumed', Deleted' PROVE OfferInv'
  BY <1>4 DEF OfferInv
<1>5. ASSUME recovered' = NoCandidate \/ UNCHANGED <<recovered, offeredBy>> PROVE Candidate'
  BY <1>2, <1>3, <1>5 DEF Answered
<1>6. ASSUME \A r \in 1..Len(recorders') :
               recorders'[r].awaits = "resumeRecovered" =>
                 /\ r \in 1..Len(recorders) /\ recorders[r].awaits = "resumeRecovered"
                 /\ recorders'[r].offer = recorders[r].offer /\ recorders'[r].trip = recorders[r].trip
      PROVE  Resumed'
  BY <1>2, <1>3, <1>6 DEF Answered
<1>7. ASSUME discards' \subseteq discards PROVE Deleted'
  BY <1>2, <1>3, <1>7 DEF Answered
<1> HIDE DEF Candidate, Resumed, Deleted
<1>8. UNCHANGED recorders => Resumed'
  BY <1>6
<1>9. CASE Mount \/ EffectRunsAgain \/ Unmount
  BY <1>4, <1>5, <1>7, <1>8, <1>9 DEF Mount, EffectRunsAgain, Unmount
<1>10. CASE Reload
  <2>1. recovered' = NoCandidate /\ discards' = {}
    BY <1>10 DEF Reload
  <2>2. DOMAIN recorders = 1..Len(recorders)
    BY <1>1
  <2>3. recorders' = [r \in 1..Len(recorders) |->
                        [recorders[r] EXCEPT !.status = "dead", !.awaits = "nothing", !.offer = 0]]
    BY <1>10, <2>2 DEF Reload
  <2>4. ASSUME NEW r \in 1..Len(recorders') PROVE recorders'[r].awaits = "nothing"
    <3>1. r \in DOMAIN recorders'
      BY DEF HookTypes
    <3>2. r \in 1..Len(recorders)
      BY <2>3, <3>1, Zenon
    <3>3. recorders[r] \in RecorderRecords
      BY <1>1, <3>2
    <3>4. recorders'[r] = [recorders[r] EXCEPT !.status = "dead", !.awaits = "nothing", !.offer = 0]
      BY <2>3, <3>2
    <3>5. QED
      BY <3>3, <3>4 DEF RecorderRecords
  <2>5. QED
    BY <1>4, <1>5, <1>6, <1>7, <2>1, <2>4
<1>11. ASSUME NEW n \in DOMAIN scans, ScanLists(n) \/ ScanAnswers(n) \/ ScanFails(n) PROVE OfferInv'
  <2>1. n \in 1..Len(scans) /\ UNCHANGED <<recorders, discards>>
    <3>1. n \in 1..Len(scans)
      BY <1>1 DEF HookTypes
    <3>2. QED
      BY <1>11, <3>1 DEF ScanLists, ScanAnswers, ScanFails
  <2>2. CASE ScanAnswers(n)
    <3>1. /\ Len(scans') = Len(scans) /\ scans'[n].phase = "done" /\ scans'[n].answer = Found(n)
      BY <1>1, <2>1, <2>2, ScanMoves
    <3>2. \/ UNCHANGED <<recovered, offeredBy>>
          \/ recovered' = Found(n) /\ offeredBy' = n
      BY <2>2 DEF ScanAnswers
    <3>3. CASE recovered' = Found(n) /\ offeredBy' = n
      BY <1>4, <1>7, <1>8, <2>1, <3>1, <3>3 DEF Candidate, Answered
    <3>4. QED
      BY <1>4, <1>5, <1>7, <1>8, <2>1, <3>2, <3>3
  <2>3. CASE ScanLists(n) \/ ScanFails(n)
    BY <1>4, <1>5, <1>7, <1>8, <2>1, <2>3 DEF ScanLists, ScanFails, hookVars
  <2>4. QED
    BY <1>11, <2>2, <2>3
<1>12. CASE StartFresh \/ ResumeRecovered
  <2> DEFINE new == Len(recorders')
  <2>1. /\ UNCHANGED <<discards, recovered, offeredBy>> /\ new = Len(recorders) + 1
        /\ \A r \in 1..Len(recorders) : recorders'[r] = recorders[r]
        /\ recorders'[new].awaits = "resumeRecovered" =>
             /\ recovered # NoCandidate
             /\ recorders'[new].trip = recovered.trip /\ recorders'[new].offer = offeredBy
    BY <1>1, <1>12, RecorderStarts DEF hookVars
  <2> HIDE DEF new
  <2>2. \A r \in 1..new : r = new \/ r \in 1..Len(recorders)
    BY <1>1, <2>1
  <2>3. recorders'[new].awaits = "resumeRecovered" =>
          /\ AnsweredThen(recorders'[new].offer)
          /\ recorders'[new].trip = scans'[recorders'[new].offer].answer.trip
    BY <1>2, <1>3, <2>1 DEF Candidate, Answered
  <2>4. \A r \in 1..Len(recorders) :
          recorders'[r].awaits = "resumeRecovered" =>
            /\ AnsweredThen(recorders'[r].offer)
            /\ recorders'[r].trip = scans'[recorders'[r].offer].answer.trip
    BY <1>2, <1>3, <2>1 DEF Resumed, Answered
  <2>5. Resumed'
    BY <2>2, <2>3, <2>4 DEF Resumed, Answered, new
  <2>6. QED
    BY <1>4, <1>5, <1>7, <2>1, <2>5
<1>13. ASSUME NEW r \in 1..Len(recorders), NEW awaits, NEW status, Moved(r, awaits, status),
              awaits # "resumeRecovered" \/ awaits = recorders[r].awaits
       PROVE  Resumed'
  <2>1. \A m \in 1..Len(recorders') :
          recorders'[m].awaits = "resumeRecovered" =>
            /\ m \in 1..Len(recorders) /\ recorders[m].awaits = "resumeRecovered"
            /\ recorders'[m].offer = recorders[m].offer /\ recorders'[m].trip = recorders[m].trip
    BY <1>13 DEF Moved
  <2>2. QED
    BY <1>6, <2>1
<1>14. CASE PauseOrResume \/ Stop
  <2>1. UNCHANGED <<discards, recovered, offeredBy>>
    BY <1>14 DEF PauseOrResume, Stop, hookVars
  <2>2. Resumed'
    BY <1>1, <1>13, <1>14, HeldMoves
  <2>3. QED
    BY <1>4, <1>5, <1>7, <2>1, <2>2
<1>15. ASSUME NEW r \in DOMAIN recorders,
              StartContinues(r) \/ StartFails(r) \/ StopContinues(r) \/ StopFails(r)
       PROVE  OfferInv'
  <2>1. r \in 1..Len(recorders)
    BY <1>1
  <2>2. Resumed'
    BY <1>1, <1>13, <1>15, <2>1, RecorderMoves
  <2>3. UNCHANGED <<discards, offeredBy>> /\ recovered' \in {recovered, NoCandidate}
    BY <1>15 DEF StartContinues, StartFails, StopContinues, StopFails, CandidateAfterFailure, hookVars
  <2>4. QED
    BY <1>4, <1>5, <1>7, <2>2, <2>3
<1>16. CASE DiscardRecovered
  <2> DEFINE d == [trip |-> recovered.trip, instance |-> instance, offer |-> offeredBy,
                   landed |-> FALSE]
  <2>1. /\ UNCHANGED <<recorders, recovered, offeredBy>> /\ recovered # NoCandidate
        /\ discards' = discards \cup {d}
    BY <1>16 DEF DiscardRecovered, hookVars
  <2>2. d \in [trip : Nat, instance : Nat, offer : Nat, landed : BOOLEAN]
    BY <1>1 DEF HookTypes, Candidates
  <2>3. d.trip = recovered.trip /\ d.offer = offeredBy
    OBVIOUS
  <2> HIDE DEF d
  <2>4. AnsweredThen(d.offer) /\ d.trip = scans'[d.offer].answer.trip
    BY <1>2, <1>3, <2>1, <2>3 DEF Candidate, Answered
  <2>5. Deleted'
    BY <1>2, <1>3, <2>1, <2>2, <2>4 DEF Deleted, Answered
  <2>6. QED
    BY <1>4, <1>5, <1>8, <2>1, <2>5
<1>17. CASE DiscardLands
  <2>1. PICK d \in discards : discards' = (discards \ {d}) \cup {[d EXCEPT !.landed = TRUE]}
    BY <1>17 DEF DiscardLands
  <2> DEFINE e == [d EXCEPT !.landed = TRUE]
  <2>2. d \in [trip : Nat, instance : Nat, offer : Nat, landed : BOOLEAN]
    BY <1>3, <2>1 DEF Deleted
  <2>3. e \in [trip : Nat, instance : Nat, offer : Nat, landed : BOOLEAN] /\ e.trip = d.trip /\ e.offer = d.offer
    BY <2>2
  <2>4. discards' = (discards \ {d}) \cup {e} /\ UNCHANGED <<recorders, recovered, offeredBy>>
    BY <1>17, <2>1 DEF DiscardLands, hookVars
  <2> HIDE DEF e
  <2>5. Deleted'
    BY <1>2, <1>3, <2>1, <2>3, <2>4 DEF Deleted, Answered
  <2>6. QED
    BY <1>4, <1>5, <1>8, <2>4, <2>5
<1>18. CASE DiscardAnswered
  <2>1. /\ UNCHANGED <<recorders, offeredBy>> /\ discards' \subseteq discards
        /\ recovered' \in {recovered, NoCandidate}
    BY <1>18 DEF DiscardAnswered
  <2>2. QED
    BY <1>4, <1>5, <1>7, <1>8, <2>1
<1>19. CASE (\E r \in DOMAIN recorders : Autosave(r)) \/ UNCHANGED vars
  <2>1. UNCHANGED <<recorders, discards, recovered, offeredBy>>
    BY <1>19 DEF Autosave, vars, hookVars
  <2>2. QED
    BY <1>4, <1>5, <1>7, <1>8, <2>1
<1>20. QED
  BY <1>9, <1>10, <1>11, <1>12, <1>14, <1>15, <1>16, <1>17, <1>18, <1>19 DEF Next

LEMMA HookInvInit ==
  Init => HookInv
<1> SUFFICES ASSUME Init PROVE HookInv
  OBVIOUS
<1>1. /\ recorders = << >> /\ scans = << >> /\ mounted = FALSE /\ subscribed = {}
      /\ recovered = NoCandidate /\ discards = {}
  BY DEF Init
<1>2. HookTypes
  <2>1. record \in [Trips -> Kinds] /\ recovered \in Candidates
    BY DEF Init, NoCandidate, Candidates, Kinds
  <2>2. recorders \in Seq(RecorderRecords) /\ scans \in Seq(ScanRecords)
    BY <1>1
  <2>3. /\ instance \in Nat /\ release \in 0..Len(recorders) /\ held \in 0..Len(recorders)
        /\ offeredBy \in Nat
    BY <1>1 DEF Init
  <2>4. \A n \in 1..Len(scans) : scans[n].trip \in Trips \cup {0}
    BY <1>1
  <2>5. mounted \in BOOLEAN
    BY <1>1
  <2>6. QED
    BY <2>1, <2>2, <2>3, <2>4, <2>5 DEF HookTypes
<1>3. ScanInv /\ RecordersInv
  BY <1>1 DEF ScanInv, NewestScanWins, RecordersInv, SubscriptionOwned
<1>4. OfferInv
  BY <1>1 DEF OfferInv
<1>5. QED
  BY <1>2, <1>3, <1>4 DEF HookInv

LEMMA HookInvHolds ==
  Spec => []HookInv
<1>1. HookInv /\ [Next]_vars => HookInv'
  <2> SUFFICES ASSUME HookInv, [Next]_vars PROVE HookInv'
    OBVIOUS
  <2>1. HookTypes'
    BY HookTypesKeep DEF HookInv
  <2>2. QED
    BY <2>1, ScanInvKeeps, RecordersInvKeeps, OfferInvKeeps DEF HookInv
<1>2. QED
  BY <1>1, HookInvInit, PTL DEF Spec

(* Through overlapping starts, stops, scans, remounts and reloads, the     *)
(* mounted component's subscriptions are the one its releaseRef ends and   *)
(* those of starts under way, the candidate it offers is the answer of its *)
(* newest scan, and it hears the live recorder it holds unless a stop() of *)
(* another one has been answered.                                          *)
THEOREM HookKeepsToItsRecorder ==
  Spec => HookFollowsItsRecorder
<1>1. HookInv => SubscriptionOwned /\ NewestScanWins
  BY DEF HookInv, ScanInv, RecordersInv
<1> DEFINE Silenced == /\ held' = held
                       /\ \/ held \notin subscribed
                          \/ \E r \in DOMAIN recorders \ {held} :
                               /\ recorders[r].awaits = "stop" /\ recorders'[r].awaits = "nothing"
                               /\ recorders[r].instance = instance
<1>2. ASSUME HookInv, [Next]_vars, mounted', held' # 0, Live(held)', held' \notin subscribed'
      PROVE  Silenced
  <2>1. HookTypes /\ RecordersInv /\ recorders \in Seq(RecorderRecords)
    BY <1>2 DEF HookInv, HookTypes
  <2>2. CASE UNCHANGED <<held, subscribed>>
    BY <1>2, <2>2
  <2>3. CASE Mount \/ Unmount \/ Reload
    BY <1>2, <2>3 DEF Mount, Unmount, Reload
  <2>4. CASE EffectRunsAgain
    BY <2>2, <2>4 DEF EffectRunsAgain
  <2>5. ASSUME NEW n \in DOMAIN scans, ScanLists(n) \/ ScanAnswers(n) \/ ScanFails(n) PROVE Silenced
    <3>1. UNCHANGED <<held, subscribed>>
      BY <2>5 DEF ScanLists, ScanAnswers, ScanFails, hookVars
    <3>2. QED
      BY <2>2, <3>1
  <2>6. CASE StartFresh \/ ResumeRecovered
    <3>1. held' = held /\ subscribed \subseteq subscribed'
      BY <2>1, <2>6, RecorderStarts DEF hookVars
    <3>2. QED
      BY <1>2, <3>1
  <2>7. CASE PauseOrResume \/ Stop \/ DiscardRecovered \/ DiscardLands \/ DiscardAnswered
    <3>1. UNCHANGED <<held, subscribed>>
      BY <2>7 DEF PauseOrResume, Stop, DiscardRecovered, DiscardLands, DiscardAnswered, hookVars
    <3>2. QED
      BY <2>2, <3>1
  <2>8. ASSUME NEW r \in DOMAIN recorders, StartContinues(r) PROVE Silenced
    <3>1. r \in 1..Len(recorders) /\ recorders[r].awaits \in {"start", "resumeRecovered"}
      BY <2>1, <2>8 DEF StartContinues
    <3>2. CASE Current(r)
      <4>1. mounted /\ held' = r /\ subscribed' = subscribed \ {release}
        BY <1>2, <2>8, <3>2 DEF StartContinues, SubscribedAfterStart
      <4>2. r \in subscribed \ {release}
        BY <2>1, <3>1, <3>2, <4>1 DEF RecordersInv, Current
      <4>3. QED
        BY <1>2, <4>1, <4>2
    <3>3. CASE ~Current(r)
      BY <2>2, <2>8, <3>3 DEF StartContinues
    <3>4. QED
      BY <3>2, <3>3
  <2>9. ASSUME NEW r \in DOMAIN recorders, StartFails(r) PROVE Silenced
    <3>1. r \in 1..Len(recorders) /\ held' = held /\ subscribed' = subscribed \ {r}
      BY <2>1, <2>9 DEF StartFails
    <3>2. recorders'[r].status = "dead"
      BY <2>1, <2>9, <3>1, RecorderMoves DEF Moved
    <3>3. held # r
      BY <1>2, <3>1, <3>2 DEF Live
    <3>4. QED
      BY <1>2, <3>1, <3>3
  <2>10. ASSUME NEW r \in DOMAIN recorders, StopContinues(r) PROVE Silenced
    <3>1. r \in 1..Len(recorders) /\ recorders[r].awaits = "stop" /\ held' = held
      BY <2>1, <2>10 DEF StopContinues
    <3>2. recorders'[r].awaits = "nothing" /\ recorders'[r].status = "finalized"
      BY <2>1, <2>10, <3>1, RecorderMoves DEF Moved, RecordersInv
    <3>3. held # r
      BY <1>2, <3>1, <3>2 DEF Live
    <3>4. CASE Current(r)
      BY <2>10, <3>1, <3>2, <3>3, <3>4 DEF Current
    <3>5. CASE ~Current(r)
      BY <2>2, <2>10, <3>5 DEF StopContinues
    <3>6. QED
      BY <3>4, <3>5
  <2>11. ASSUME NEW r \in DOMAIN recorders, StopFails(r) \/ Autosave(r) PROVE Silenced
    <3>1. UNCHANGED <<held, subscribed>>
      BY <2>11 DEF StopFails, Autosave, hookVars
    <3>2. QED
      BY <2>2, <3>1
  <2>12. CASE UNCHANGED vars
    BY <2>2, <2>12 DEF vars, hookVars
  <2>13. QED
    BY <1>2, <2>3, <2>4, <2>5, <2>6, <2>7, <2>8, <2>9, <2>10, <2>11, <2>12 DEF Next
<1>3. HookInv /\ [Next]_vars =>
        [mounted' /\ held' # 0 /\ Live(held)' /\ held' \notin subscribed' => Silenced]_vars
  BY <1>2
<1>4. Spec => [](SubscriptionOwned /\ NewestScanWins)
  BY <1>1, HookInvHolds, PTL
<1>5. Spec => HeldIsHeard
  BY <1>3, HookInvHolds, PTL DEF Spec, HeldIsHeard
<1>6. QED
  BY <1>4, <1>5 DEF HookFollowsItsRecorder

(* While the component is mounted the candidate goes only because a        *)
(* recorder that resumes it has started, a deletion of it has landed, or   *)
(* the live scan has found nothing; a resumption or a deletion that a      *)
(* later scan's answer has overtaken is excepted.                          *)
THEOREM CandidateStays ==
  Spec => CandidateKept
<1> DEFINE Resumed == \E r \in DOMAIN recorders :
                        /\ recorders[r].awaits = "resumeRecovered" /\ recorders'[r].awaits = "nothing"
                        /\ recorders'[r].status # "dead"
                        /\ MeantForIt(recorders[r])
           Deleted == \E d \in discards \ discards' : d.landed /\ MeantForIt(d)
           NothingFound == /\ scans[liveScan].phase # "done" /\ scans'[liveScan].phase = "done"
                           /\ scans'[liveScan].answer = NoCandidate
<1>1. ASSUME HookInv, [Next]_vars, mounted, mounted', recovered # NoCandidate, recovered' = NoCandidate
      PROVE  Resumed \/ Deleted \/ NothingFound
  <2>1. /\ HookTypes /\ RecordersInv /\ OfferInv /\ recorders \in Seq(RecorderRecords)
        /\ recovered = scans[offeredBy].answer
    BY <1>1 DEF HookInv, HookTypes, OfferInv
  <2>2. CASE Mount \/ Unmount \/ Reload
    BY <1>1, <2>2 DEF Mount, Unmount, Reload
  <2>3. CASE EffectRunsAgain
    BY <1>1, <2>3 DEF EffectRunsAgain
  <2>4. ASSUME NEW n \in DOMAIN scans, ScanLists(n) \/ ScanAnswers(n) \/ ScanFails(n)
        PROVE  NothingFound
    <3>1. n \in 1..Len(scans)
      BY <2>1 DEF HookTypes
    <3>2. CASE ScanLists(n) \/ ScanFails(n)
      BY <1>1, <3>2 DEF ScanLists, ScanFails, hookVars
    <3>3. CASE ScanAnswers(n)
      <4>1. n = liveScan /\ recovered' = Found(n)
        BY <1>1, <3>3 DEF ScanAnswers, Publishes
      <4>2. QED
        BY <1>1, <2>1, <3>1, <3>3, <4>1, ScanMoves
    <3>4. QED
      BY <2>4, <3>2, <3>3
  <2>5. CASE StartFresh \/ ResumeRecovered
    BY <1>1, <2>1, <2>5, RecorderStarts DEF hookVars
  <2>6. CASE PauseOrResume \/ Stop \/ DiscardRecovered \/ DiscardLands
    BY <1>1, <2>6 DEF PauseOrResume, Stop, DiscardRecovered, DiscardLands, hookVars
  <2>7. CASE DiscardAnswered
    <3>1. PICK d \in discards : d \notin discards' /\ d.landed /\ d.instance = instance
      BY <1>1, <2>7 DEF DiscardAnswered
    <3>2. d.trip = scans[d.offer].answer.trip
      BY <2>1, <3>1 DEF OfferInv
    <3>3. MeantForIt(d)
      BY <2>1, <3>1, <3>2 DEF MeantForIt
    <3>4. QED
      BY <3>1, <3>3
  <2>8. ASSUME NEW r \in DOMAIN recorders, StartContinues(r) PROVE Resumed
    <3>1. r \in 1..Len(recorders)
      BY <2>1
    <3>2. recorders'[r].awaits = "nothing" /\ recorders'[r].status = recorders[r].status
      BY <2>1, <2>8, <3>1, RecorderMoves DEF Moved
    <3>3. recorders[r].awaits = "resumeRecovered" /\ Current(r)
      BY <1>1, <2>8 DEF StartContinues
    <3>4. recorders[r].status # "dead"
      BY <2>1, <3>1, <3>3 DEF RecordersInv
    <3>5. recorders[r].trip = scans[recorders[r].offer].answer.trip
      BY <2>1, <3>1, <3>3 DEF OfferInv
    <3>6. MeantForIt(recorders[r])
      BY <2>1, <3>3, <3>5 DEF MeantForIt, Current
    <3>7. QED
      BY <3>2, <3>3, <3>4, <3>6
  <2>9. ASSUME NEW r \in DOMAIN recorders,
               StartFails(r) \/ StopContinues(r) \/ StopFails(r) \/ Autosave(r)
        PROVE  FALSE
    BY <1>1, <2>9 DEF StartFails, CandidateAfterFailure, StopContinues, StopFails, Autosave, hookVars
  <2>10. CASE UNCHANGED vars
    BY <1>1, <2>10 DEF vars, hookVars
  <2>11. QED
    BY <1>1, <2>2, <2>3, <2>4, <2>5, <2>6, <2>7, <2>8, <2>9, <2>10 DEF Next
<1>2. HookInv /\ [Next]_vars =>
        [mounted /\ mounted' /\ recovered # NoCandidate /\ recovered' = NoCandidate =>
           Resumed \/ Deleted \/ NothingFound]_vars
  BY <1>1
<1>3. QED
  BY <1>2, HookInvHolds, PTL DEF Spec, CandidateKept
=============================================================================
