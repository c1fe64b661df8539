---------------------------- MODULE OfflineArchives ----------------------------
(***************************************************************************)
(* packages/offline-pmtiles: which sources a region may be downloaded for  *)
(* (offline-license.ts, region-store.ts), and where the renderer's PMTiles *)
(* protocol reads a url from once the downloaded archives are installed    *)
(* (archive-source.ts).  RegionStore has the writes and their failures.    *)
(*                                                                         *)
(* A source is [id, role, transport, offlineLicensed]; ids are distinct,   *)
(* and a source's url is named by its id.  A region is [id, sourceIds,     *)
(* downloadedAt]; its archives are [region, source].                       *)
(***************************************************************************)
EXTENDS Sequencing, SequencesExt

CONSTANT Omitted   \* a field that is not there

ASSUME OmittedAssumption == Omitted \notin Int /\ Omitted # "terrain"

IdsOf(sources) == [i \in DOMAIN sources |-> sources[i].id]

Configured(sources, id) == Picked(sources, {i \in DOMAIN sources : sources[i].id = id})

(* Absence is refusal, and so is an id the store was never given.          *)
AssertOfflineLicensed(sources, ids) ==
  \A n \in DOMAIN ids :
    \E i \in DOMAIN sources : sources[i].id = ids[n] /\ sources[i].offlineLicensed = TRUE

(* By default a region covers the base and the overlays, but no elevation. *)
DefaultIds(sources) ==
  IdsOf(Picked(sources, {i \in DOMAIN sources : sources[i].role \in {Omitted, "base", "overlay"}}))

Requested(sources, ids) == IF ids = Omitted THEN DefaultIds(sources) ELSE ids

(* The sources of a region, or why it may not be had.                      *)
Resolve(sources, ids) ==
  LET requested == Requested(sources, ids)
  IN IF ~AssertOfflineLicensed(sources, requested) THEN [refused |-> "licence"]
     ELSE IF \E n \in DOMAIN requested :
               Configured(sources, requested[n])[1].transport # "pmtiles"
       THEN [refused |-> "transport"]
     ELSE [refused |-> "no", ids |-> requested]

(* Each archive weighs what sizeOf says; before the download, and after.   *)
EstimateSize(sources, ids, sizeOf) ==
  LET resolved == Resolve(sources, ids)
  IN IF resolved.refused # "no" THEN Omitted
     ELSE SumOver([n \in DOMAIN resolved.ids |-> sizeOf[resolved.ids[n]]], 0, Len(resolved.ids))

(* The manifest names the resolved sources, not those asked for.           *)
ManifestOf(region, at, sources, ids) ==
  [id |-> region, sourceIds |-> Resolve(sources, ids).ids, downloadedAt |-> at]

(* The archives its download puts.                                         *)
ArchivesOf(region, sources, ids) ==
  {[region |-> region, source |-> id] : id \in ToSet(Resolve(sources, ids).ids)}

(* Oldest first; those of one moment stay in the order listed.             *)
OldestFirst(regions) ==
  LET at(i) == IF regions[i].downloadedAt = Omitted THEN 0 ELSE regions[i].downloadedAt
      earlier(i, j) == at(i) < at(j) \/ (at(i) = at(j) /\ i < j)
      before == {w \in (DOMAIN regions) \X (DOMAIN regions) : earlier(w[1], w[2])}
      order == Arranged(DOMAIN regions, before)
  IN [k \in DOMAIN regions |-> regions[order[k]]]

(* What is added to the protocol, in order: an archive for each source the *)
(* app still has.                                                          *)
InstallOfflineArchives(regions, sources) ==
  LET ordered == OldestFirst(regions)
      kept(ids) == Picked(ids, {n \in DOMAIN ids : Configured(sources, ids[n]) # << >>})
      of(region) == LET ids == kept(region.sourceIds)
                    IN [n \in DOMAIN ids |-> [url |-> ids[n], region |-> region.id]]
  IN FlattenSeq([i \in DOMAIN ordered |-> of(ordered[i])])

(* The protocol: the last archive added for a url has it.                  *)
Registration(added, url) ==
  LET of == Picked(added, {n \in DOMAIN added : added[n].url = url})
  IN IF of = << >> THEN Omitted ELSE Last(of).region

(* An archive that is gone is an error, not empty bytes.                   *)
CreateStoredArchiveSource(archives, region, source) ==
  IF [region |-> region, source |-> source] \in archives
    THEN [from |-> "store", region |-> region] ELSE [from |-> "missing", region |-> region]

BytesOf(url, added, archives) ==
  IF Registration(added, url) = Omitted THEN [from |-> "network"]
  ELSE CreateStoredArchiveSource(archives, Registration(added, url), url)

-----------------------------------------------------------------------------
(* Properties.                                                             *)

(* assertOfflineLicensed, resolve: a region is had whole or not at all,    *)
(* for the very sources asked for and only archives somebody licensed; its *)
(* size is quoted exactly when it may be had.                              *)
OnlyLicensedRegions(sources, ids) ==
  LET resolved == Resolve(sources, ids)
      source(id) == {sources[i] : i \in {j \in DOMAIN sources : sources[j].id = id}}
      mayHave(id) == \E s \in source(id) : s.offlineLicensed = TRUE /\ s.transport = "pmtiles"
      asked == IF ids = Omitted THEN {sources[i].id : i \in {j \in DOMAIN sources : sources[j].role # "terrain"}}
               ELSE ToSet(ids)
  IN /\ (resolved.refused = "no") <=> (\A id \in asked : mayHave(id))
     /\ resolved.refused = "no" => ToSet(resolved.ids) = asked
     /\ (EstimateSize(sources, ids, [id \in ToSet(IdsOf(sources)) |-> 1]) = Omitted) <=> (resolved.refused # "no")

(* download, installOfflineArchives, createStoredArchiveSource: whatever   *)
(* the app has configured since, a url whose archive was put is read from  *)
(* the newest region that put it and never from the network; if that       *)
(* archive is gone since that is said; every other url goes to the         *)
(* network.                                                                *)
NewestArchiveServes(regions, put, gone, sources) ==
  LET added == InstallOfflineArchives(regions, sources)
      at(region) == IF region.downloadedAt = Omitted THEN 0 ELSE region.downloadedAt
      has(i, id) == [region |-> regions[i].id, source |-> id] \in put
      covering(id) == {i \in DOMAIN regions : has(i, id)}
      newest(id) == {i \in covering(id) : \A j \in covering(id) : at(regions[j]) <= at(regions[i])}
  IN \A n \in DOMAIN sources :
       LET id == sources[n].id
           bytes == BytesOf(id, added, put \ gone)
       IN IF covering(id) = {} THEN bytes = [from |-> "network"]
          ELSE \E i \in newest(id) :
                 bytes = [from |-> IF [region |-> regions[i].id, source |-> id] \in gone
                                     THEN "missing" ELSE "store",
                          region |-> regions[i].id]
=============================================================================
