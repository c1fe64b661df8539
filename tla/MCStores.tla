------------------------------- MODULE MCStores -------------------------------
(***************************************************************************)
(* The two things kept in IndexedDB, checked side by side: trips, events   *)
(* and blobs in the storage adapter, and the offline regions in the asset  *)
(* store with the hook that shows them.  A behaviour is of one, and the    *)
(* other stays at rest.  Any map source may stand for any other.           *)
(***************************************************************************)
EXTENDS IdbStorage, UseOfflineRegions, TLC

VARIABLE part

storesVars == <<part, vars, regionsVars>>

SourceSymmetry == Permutations(Sources)

StoresInit == part \in {"storage", "regions"} /\ Init /\ RegionsInit

StoresNext ==
  /\ UNCHANGED part
  /\ \/ part = "storage" /\ Next /\ UNCHANGED regionsVars
     \/ part = "regions" /\ RegionsNext /\ UNCHANGED vars

StoresSpec == StoresInit /\ [][StoresNext]_storesVars
=============================================================================
