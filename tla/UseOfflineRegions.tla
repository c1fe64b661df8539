------------------------- MODULE UseOfflineRegions -------------------------
(***************************************************************************)
(* The hook of packages/react/src/use-offline-regions.ts over the region   *)
(* store: it lists what the store holds, and again after every change it   *)
(* made, while its component may render another store.                     *)
(*                                                                         *)
(* "main" is the store RegionStore models.  The other one holds nothing    *)
(* and is never changed; it is there to be swapped in.  A call's tag is    *)
(* what the hook's closure knows: [kind, number, context, late].           *)
(***************************************************************************)
EXTENDS RegionStore

CONSTANTS MaxSwaps,    \* bound: renders of another store
          MaxRemovals  \* bound: removals begun

ASSUME UseOfflineRegionsAssumption == {MaxSwaps, MaxRemovals} \subseteq Nat

VARIABLES
  store,      \* the store last rendered
  effectDue,  \* its effect has not run
  context,    \* contextRef
  issued,     \* issuedRef
  elsewhere,  \* the lists asked of the other store: their tags
  shown,      \* the list on screen: [store, regions]
  unread,     \* the newest list failed
  owed,       \* a change landed that no list was issued after
  swaps, removals

hookVars == <<store, effectDue, context, issued, elsewhere, shown, unread, owed, swaps, removals>>
regionsVars == <<regionVars, hookVars>>

(* What a fresh mount of the component starts from.                        *)
Mounted(st, due, con, iss, els, sh, un, ow) ==
  /\ st = "main" /\ due = TRUE
  /\ con = 0 /\ iss = 0 /\ els = {}
  /\ sh = [store |-> "main", regions |-> {}]
  /\ un = FALSE /\ ow = FALSE

RegionsInit ==
  /\ StoreInit
  /\ Mounted(store, effectDue, context, issued, elsewhere, shown, unread, owed)
  /\ swaps = 0 /\ removals = 0

-----------------------------------------------------------------------------
(* load().                                                                 *)

(* Of a load only its sequence matters, and whether a callback of an       *)
(* earlier render is behind it.                                            *)
LoadTag(late) == [kind |-> "load", number |-> issued + 1, context |-> 0, late |-> late]

Issued == issued' = issued + 1 /\ owed' = FALSE

RenderStore ==
  /\ ~effectDue
  /\ swaps < MaxSwaps /\ swaps' = swaps + 1
  /\ store' = IF store = "main" THEN "other" ELSE "main"
  /\ effectDue' = TRUE
  /\ UNCHANGED <<regionVars, context, issued, elsewhere, shown, unread, owed, removals>>

EffectRuns ==
  /\ effectDue
  /\ effectDue' = FALSE
  /\ context' = context + 1
  /\ Issued
  /\ IF store = "main"
       THEN /\ calls' = calls \cup {ListCall(LoadTag(FALSE))}
            /\ UNCHANGED <<archives, manifests, downloads, stranded, doomed, elsewhere>>
       ELSE elsewhere' = elsewhere \cup {LoadTag(FALSE)} /\ UNCHANGED regionVars
  /\ UNCHANGED <<store, shown, unread, swaps, removals>>

(* Mutated: the answer that arrives is published, newest or not.           *)
NewestArrived(tag) == TRUE

Newest(tag) == tag.number = issued

Publish(tag, from, regions) ==
  /\ IF Newest(tag)
       THEN shown' = [store |-> from, regions |-> regions] /\ unread' = FALSE
       ELSE UNCHANGED <<shown, unread>>
  /\ UNCHANGED <<store, effectDue, context, issued, owed, swaps, removals>>

(* A list that fails leaves what is shown.                                 *)
LoadFailed(tag) ==
  /\ unread' = (unread \/ Newest(tag))
  /\ UNCHANGED <<store, effectDue, context, issued, shown, owed, swaps, removals>>

MainAnswers(c) == ListResolves(c) /\ Publish(c.tag, "main", c.result) /\ UNCHANGED elsewhere

MainFails(c) == ListFails(c) /\ LoadFailed(c.tag) /\ UNCHANGED elsewhere

OtherAnswers ==
  /\ \E tag \in elsewhere :
       /\ elsewhere' = elsewhere \ {tag}
       /\ Publish(tag, "other", {}) \/ LoadFailed(tag)
  /\ UNCHANGED regionVars

-----------------------------------------------------------------------------
(* download() and remove(): the context is read first.  A callback kept    *)
(* from an earlier render changes the store it was rendered with.          *)

MutationTag ==
  [kind |-> "mutation", number |-> downloads + removals, context |-> context, late |-> store # "main"]

HookDownloads ==
  /\ Download(MutationTag)
  /\ UNCHANGED hookVars

HookRemoves ==
  /\ shown.store = "main"
  /\ removals < MaxRemovals /\ removals' = removals + 1
  /\ \E r \in shown.regions : Delete(r, MutationTag)
  /\ UNCHANGED <<store, effectDue, context, issued, elsewhere, shown, unread, owed, swaps>>

(* Mutated: the context is read when the change has landed.                *)
ContextSampledLate(tag) == TRUE

SameContext(tag) == context = tag.context

(* The change landed: mutate() lists again.                                *)
MutationResolves(c) ==
  /\ IF SameContext(c.tag)
       THEN LET relist == {ListCall(LoadTag(c.tag.late))}
            IN (PutManifest(c, relist) \/ RemoveManifest(c, relist)) /\ Issued
       ELSE /\ PutManifest(c, {}) \/ RemoveManifest(c, {})
            /\ owed' = TRUE
            /\ UNCHANGED issued
  /\ UNCHANGED <<store, effectDue, context, elsewhere, shown, unread, swaps, removals>>

StoreStep ==
  /\ \E c \in calls :
       \/ PutArchive(c) \/ DownloadFails(c)
       \/ ListArchives(c) \/ RemoveArchive(c) \/ SweepFails(c) \/ UnlistFails(c)
       \/ ListKeys(c) \/ ReadManifest(c)
  /\ UNCHANGED hookVars

Reload ==
  /\ StoreReload
  /\ Mounted(store', effectDue', context', issued', elsewhere', shown', unread', owed')
  /\ UNCHANGED <<swaps, removals>>

RegionsNext ==
  \/ RenderStore \/ EffectRuns \/ OtherAnswers
  \/ HookDownloads \/ HookRemoves
  \/ \E c \in calls : MainAnswers(c) \/ MainFails(c) \/ MutationResolves(c)
  \/ StoreStep
  \/ Reload

RegionsSpec == RegionsInit /\ [][RegionsNext]_regionsVars

-----------------------------------------------------------------------------
(* Properties.                                                             *)

(* load and mutate: once the effect of the store rendered has run, what is *)
(* published is a list of that store, unless a callback of an earlier      *)
(* render is behind it.                                                    *)
PublishesRenderedStore ==
  [][shown' # shown /\ context' # 0 =>
       \/ shown'.store = store \/ effectDue
       \/ \E c \in calls : c \notin calls' /\ c.tag.late]_regionsVars

(* "The store is the authority on what exists": with nothing under way,    *)
(* the regions on screen are the regions the store lists, unless the       *)
(* newest list failed, or a change landed in another context than it was   *)
(* begun in and was not followed by a list.                                *)
FreshWhenQuiet ==
  store = "main" /\ ~effectDue /\ calls = {} /\ elsewhere = {} /\ ~unread /\ ~owed
    => shown = [store |-> "main", regions |-> Listed]

(* The order in which regions change: a region leaves the store's list     *)
(* after its archives (delete), and the hook publishes no list but of the  *)
(* store it renders (load).                                                *)
RegionsChangeInOrder == UnlistedLast /\ PublishesRenderedStore
=============================================================================
