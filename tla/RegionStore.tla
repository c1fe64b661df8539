---------------------------- MODULE RegionStore ----------------------------
(***************************************************************************)
(* packages/offline-pmtiles/src/region-store.ts: regions kept in an asset  *)
(* store as one archive per source and a manifest that names them.  Every  *)
(* call is a sequence of asset operations, each awaited, each of which may *)
(* fail; calls interleave, and the page may be reloaded between any two    *)
(* operations.                                                             *)
(*                                                                         *)
(* A region's id is the number of the download that makes it.  A fetch     *)
(* changes nothing, so it and the put of what it fetched are one step.     *)
(* What a caller does when its call settles is done in the task that       *)
(* settles it: `more` is the calls it begins there.                        *)
(***************************************************************************)
EXTENDS Naturals, Sequences, FiniteSets

CONSTANTS Sources,       \* the PMTiles sources whose licence allows a download
          MaxDownloads   \* bound: downloads begun

ASSUME RegionStoreAssumption == MaxDownloads \in Nat

VARIABLES
  archives,   \* set of [region, source]
  manifests,  \* set of [region, sources]
  calls,      \* calls under way: set of [op, region, sources, at, todo, result, tag]
  downloads,  \* downloads begun
  stranded,   \* regions whose download was cut short, or its rollback
  doomed      \* regions somebody asked to delete

regionVars == <<archives, manifests, calls, downloads, stranded, doomed>>

StoreInit ==
  archives = {} /\ manifests = {} /\ calls = {} /\ downloads = 0 /\ stranded = {} /\ doomed = {}

Listed == {m.region : m \in manifests}

ArchivesOf(region) == {a \in archives : a.region = region}

(* A call, with what its caller knows it by.                               *)
Call(op, region, sources, at, todo, tag) ==
  [op |-> op, region |-> region, sources |-> sources, at |-> at, todo |-> todo,
   result |-> {}, tag |-> tag]

Move(c, at, todo) == calls' = (calls \ {c}) \cup {[c EXCEPT !.at = at, !.todo = todo]}

Settle(c, more) == calls' = (calls \ {c}) \cup more

-----------------------------------------------------------------------------
(* download().                                                             *)

(* A download that resolves its sources; one that cannot has no effect.    *)
Download(tag) ==
  /\ downloads < MaxDownloads
  /\ downloads' = downloads + 1
  /\ \E sources \in SUBSET Sources :
       calls' = calls \cup {Call("download", downloads + 1, sources,
                                IF sources = {} THEN "manifest" ELSE "archives", sources, tag)}
  /\ UNCHANGED <<archives, manifests, stranded, doomed>>

PutArchive(c) ==
  /\ c.at = "archives"
  /\ \E s \in c.todo :
       /\ archives' = archives \cup {[region |-> c.region, source |-> s]}
       /\ Move(c, IF c.todo = {s} THEN "manifest" ELSE "archives", c.todo \ {s})
  /\ UNCHANGED <<manifests, downloads, stranded, doomed>>

(* The last write: the download resolves.                                  *)
PutManifest(c, more) ==
  /\ c.at = "manifest"
  /\ manifests' = manifests \cup {[region |-> c.region, sources |-> c.sources]}
  /\ Settle(c, more)
  /\ UNCHANGED <<archives, downloads, stranded, doomed>>

(* Mutated: only a failed fetch or put of an archive is rolled back.       *)
RollbackArchivesOnly(c) == IF c.at = "manifest" THEN Settle(c, {}) ELSE Move(c, "sweep", {})

Rollback(c) == Move(c, "sweep", {})

(* A fetch or a put fails.                                                 *)
DownloadFails(c) ==
  /\ c.at \in {"archives", "manifest"}
  /\ Rollback(c)
  /\ UNCHANGED <<archives, manifests, downloads, stranded, doomed>>

-----------------------------------------------------------------------------
(* removeArchives(), of a rollback and of delete().                        *)

(* With nothing left to remove, a delete goes on to the manifest and a     *)
(* download rejects.                                                       *)
SweepTo(c, keys) ==
  CASE keys # {} -> Move(c, "removing", keys)
    [] keys = {} /\ c.op = "delete" -> Move(c, "unlist", {})
    [] keys = {} /\ c.op = "download" -> Settle(c, {})

SweepKeys(c) == ArchivesOf(c.region)

ListArchives(c) ==
  /\ c.at = "sweep"
  /\ SweepTo(c, SweepKeys(c))
  /\ UNCHANGED <<archives, manifests, downloads, stranded, doomed>>

RemoveArchive(c) ==
  /\ c.at = "removing"
  /\ \E a \in c.todo :
       /\ archives' = archives \ {a}
       /\ SweepTo(c, c.todo \ {a})
  /\ UNCHANGED <<manifests, downloads, stranded, doomed>>

(* An operation of the sweep fails, and the call rejects.                  *)
SweepFails(c) ==
  /\ c.at \in {"sweep", "removing"}
  /\ Settle(c, {})
  /\ stranded' = IF c.op = "download" THEN stranded \cup {c.region} ELSE stranded
  /\ UNCHANGED <<archives, manifests, downloads, doomed>>

-----------------------------------------------------------------------------
(* delete() and list().                                                    *)

DeleteFrom == "sweep"

Delete(region, tag) ==
  /\ calls' = calls \cup {Call("delete", region, {}, DeleteFrom, {}, tag)}
  /\ doomed' = doomed \cup {region}
  /\ UNCHANGED <<archives, manifests, downloads, stranded>>

RemoveManifest(c, more) ==
  /\ c.at = "unlist"
  /\ manifests' = {m \in manifests : m.region # c.region}
  /\ Settle(c, more)
  /\ UNCHANGED <<archives, downloads, stranded, doomed>>

UnlistFails(c) ==
  /\ c.at = "unlist"
  /\ Settle(c, {})
  /\ UNCHANGED <<archives, manifests, downloads, stranded, doomed>>

ListCall(tag) == Call("list", 0, {}, "keys", {}, tag)

ListKeys(c) ==
  /\ c.at = "keys"
  /\ Move(c, "reading", Listed)
  /\ UNCHANGED <<archives, manifests, downloads, stranded, doomed>>

(* A manifest that went since the keys were read is skipped.               *)
ReadManifest(c) ==
  /\ c.at = "reading"
  /\ \E r \in c.todo :
       calls' = (calls \ {c}) \cup
         {[c EXCEPT !.todo = @ \ {r}, !.result = IF r \in Listed THEN @ \cup {r} ELSE @]}
  /\ UNCHANGED <<archives, manifests, downloads, stranded, doomed>>

ListResolves(c) ==
  /\ c.at = "reading" /\ c.todo = {}
  /\ Settle(c, {})
  /\ UNCHANGED <<archives, manifests, downloads, stranded, doomed>>

ListFails(c) ==
  /\ c.at \in {"keys", "reading"}
  /\ Settle(c, {})
  /\ UNCHANGED <<archives, manifests, downloads, stranded, doomed>>

(* The page is reloaded: the calls are gone, the assets stay.              *)
StoreReload ==
  /\ calls' = {}
  /\ stranded' = stranded \cup {c.region : c \in {d \in calls : d.op = "download"}}
  /\ UNCHANGED <<archives, manifests, downloads, doomed>>

-----------------------------------------------------------------------------
(* Properties.                                                             *)

UnderWay(op, region) == \E c \in calls : c.op = op /\ c.region = region

(* download, whose manifest is its last write: a region that is listed and *)
(* that nobody asked to delete holds the archive of every source it names, *)
(* through failures, overlapping calls and a reload.                       *)
ListedIsWhole ==
  \A m \in manifests :
    m.region \notin doomed => m.sources = {a.source : a \in ArchivesOf(m.region)}

(* The rollback of download and the order of delete: archives that no list *)
(* names belong to a download under way, or to one whose rollback failed   *)
(* or was cut short by a reload.                                           *)
NothingInvisible ==
  \A a \in archives :
    a.region \in Listed \/ UnderWay("download", a.region) \/ a.region \in stranded

(* download, delete and reload, whatever overlaps or fails: what is listed *)
(* is whole, and what is stored is listed or about to be.                  *)
RegionsAreWhole == ListedIsWhole /\ NothingInvisible

(* delete: a region leaves the list only when none of its archives is left *)
(* to reclaim.                                                             *)
UnlistedLast ==
  [][\A m \in manifests : m \notin manifests' => ArchivesOf(m.region) = {}]_regionVars
=============================================================================
