----------------------------- MODULE ReviewPhotos -----------------------------
(***************************************************************************)
(* The photos of packages/react/src/trip-review.ts: useResolvedBlobs turns *)
(* the blob keys a review renders into object URLs, one after the other,   *)
(* and revokes each when it is no longer asked for, while the review may   *)
(* be given other keys or another store, and is unmounted at last.         *)
(*                                                                         *)
(* Keys are numbered in the order they are sorted.  An answer is the       *)
(* record of whose it is: the number of an object URL, or 0 for "absent".  *)
(***************************************************************************)
EXTENDS Naturals, FiniteSetsExt

CONSTANTS PhotoStores,
          PhotoKeys,   \* numbers above 0
          MaxRenders,  \* bound: renders with other keys or another store
          MaxUrls      \* bound: object URLs made

ASSUME ReviewPhotosAssumption ==
  PhotoKeys \subseteq Nat \ {0} /\ {MaxRenders, MaxUrls} \subseteq Nat

VARIABLES
  asked,       \* what was last rendered: [store, keys]
  photosDue,   \* its effect has not run
  photosLive,  \* the review is mounted
  cacheOwner,  \* the store both caches belong to, or "nobody"
  urls,        \* [some keys -> answer]: the object URLs held
  resolved,    \* [some keys -> answer]: what React will show
  loops,       \* the effect's runs still reading: [run, store, keys, reading]
  liveRun,     \* the run whose cleanup has not been called, or 0
  broken,      \* a read of that run was rejected
  unrevoked,   \* the object URLs that hold their blob
  made         \* [renders, runs, urls]: how many there were

photoVars == <<asked, photosDue, photosLive, cacheOwner, urls, resolved, loops,
               liveRun, broken, unrevoked, made>>

Only(f, keys) == [k \in DOMAIN f \cap keys |-> f[k]]
With(f, key, answer) == [k \in DOMAIN f \cup {key} |-> IF k = key THEN answer ELSE f[k]]
Answers(f) == {f[k] : k \in DOMAIN f}

PhotosInit ==
  /\ asked \in [store : PhotoStores, keys : SUBSET PhotoKeys]
  /\ photosDue = TRUE /\ photosLive = TRUE
  /\ cacheOwner = "nobody"
  /\ urls = [k \in {} |-> 0] /\ resolved = urls
  /\ loops = {} /\ liveRun = 0 /\ broken = FALSE
  /\ unrevoked = {}
  /\ made = [renders |-> 0, runs |-> 0, urls |-> 0]

(* The review is rendered with other media, or over another store.         *)
RenderReview ==
  /\ photosLive /\ ~photosDue
  /\ made.renders < MaxRenders
  /\ \E other \in [store : PhotoStores, keys : SUBSET PhotoKeys] :
       other # asked /\ asked' = other
  /\ photosDue' = TRUE
  /\ made' = [made EXCEPT !.renders = @ + 1]
  /\ UNCHANGED <<photosLive, cacheOwner, urls, resolved, loops, liveRun, broken, unrevoked>>

(* The key a run reads next: the first beyond the last it read that no URL *)
(* is held for; 0 when there is none.                                      *)
NextKey(keys, last, held) ==
  LET left == {k \in keys \ held : k > last} IN IF left = {} THEN 0 ELSE Min(left)

Reading(loop, last, held) ==
  LET next == NextKey(loop.keys, last, held)
  IN IF next = 0 THEN {} ELSE {[loop EXCEPT !.reading = next]}

(* Mutated: the caches are kept by key alone.                              *)
SameOwnerAlways == TRUE

SameOwner == cacheOwner = asked.store

(* The cleanup of the previous run, and the effect.                        *)
ResolveEffect ==
  /\ photosLive /\ photosDue
  /\ photosDue' = FALSE
  /\ cacheOwner' = asked.store
  /\ urls' = Only(urls, IF SameOwner THEN asked.keys ELSE {})
  /\ resolved' = Only(resolved, IF SameOwner THEN asked.keys ELSE {})
  /\ unrevoked' = unrevoked \ (Answers(urls) \ Answers(urls'))
  /\ made' = [made EXCEPT !.runs = @ + 1]
  /\ liveRun' = made.runs + 1
  /\ broken' = FALSE
  /\ loops' = loops \cup
       Reading([run |-> made.runs + 1, store |-> asked.store, keys |-> asked.keys, reading |-> 0],
               0, DOMAIN urls')
  /\ UNCHANGED <<asked, photosLive>>

(* `live` of the run that asked.                                           *)
LiveLoop(loop) == loop.run = liveRun

(* getBlob answers a run: with a blob, of which a URL is made, or none.    *)
BlobAnswers(loop) ==
  /\ IF ~LiveLoop(loop)
       THEN loops' = loops \ {loop} /\ UNCHANGED <<urls, resolved, unrevoked, made>>
       ELSE \/ /\ resolved' = With(resolved, loop.reading,
                                   [number |-> 0, store |-> loop.store, key |-> loop.reading])
               /\ loops' = (loops \ {loop}) \cup Reading(loop, loop.reading, DOMAIN urls)
               /\ UNCHANGED <<urls, unrevoked, made>>
            \/ LET url == [number |-> made.urls + 1, store |-> loop.store, key |-> loop.reading]
               IN /\ made.urls < MaxUrls
                  /\ made' = [made EXCEPT !.urls = @ + 1]
                  /\ unrevoked' = unrevoked \cup {url}
                  /\ urls' = With(urls, loop.reading, url)
                  /\ resolved' = IF photosLive THEN With(resolved, loop.reading, url) ELSE resolved
                  /\ loops' = (loops \ {loop}) \cup Reading(loop, loop.reading, DOMAIN urls')
  /\ UNCHANGED <<asked, photosDue, photosLive, cacheOwner, liveRun, broken>>

(* A rejected read ends its run: nobody catches it.                        *)
BlobFails(loop) ==
  /\ loops' = loops \ {loop}
  /\ broken' = (broken \/ LiveLoop(loop))
  /\ UNCHANGED <<asked, photosDue, photosLive, cacheOwner, urls, resolved, liveRun, unrevoked, made>>

(* The cleanups of both effects, if they ran.                              *)
UnmountReview ==
  /\ photosLive
  /\ photosLive' = FALSE
  /\ liveRun' = 0
  /\ unrevoked' = unrevoked \ Answers(urls)
  /\ urls' = [k \in {} |-> 0] /\ resolved' = urls'
  /\ photosDue' = FALSE
  /\ UNCHANGED <<asked, cacheOwner, loops, broken, made>>

(* renderPhoto, for a photo of the store.                                  *)
ShownAs(k) ==
  IF k \notin DOMAIN resolved THEN "loading"
  ELSE IF resolved[k].number = 0 THEN "unavailable" ELSE "image"

PhotosNext ==
  \/ RenderReview \/ ResolveEffect \/ UnmountReview
  \/ \E loop \in loops : BlobAnswers(loop) \/ BlobFails(loop)

PhotosSpec == PhotosInit /\ [][PhotosNext]_photoVars

-----------------------------------------------------------------------------
(* Properties.                                                             *)

(* "Resolution identity is the pair (store, blobKey)": once the effect of  *)
(* a render has run, every answer on show was given by the store rendered, *)
(* for a key it renders, and a URL on show still holds its blob; a photo   *)
(* is only "Loading" while its run reads on, or because a read of it was   *)
(* rejected.  No URL outlives what holds it, nor the review.               *)
PhotosAreCurrent ==
  /\ unrevoked = Answers(urls)
  /\ ~photosLive => unrevoked = {}
  /\ photosLive /\ ~photosDue =>
       /\ \A k \in DOMAIN resolved :
            /\ k \in asked.keys
            /\ resolved[k].store = asked.store /\ resolved[k].key = k
            /\ ShownAs(k) = "image" => resolved[k] \in unrevoked
       /\ \A k \in asked.keys : ShownAs(k) = "loading" =>
            broken \/ \E loop \in loops : LiveLoop(loop) /\ loop.reading <= k
=============================================================================
