----------------------------- MODULE DurableTrip -----------------------------
(***************************************************************************)
(* What a recording promises about the one record it keeps in the store,   *)
(* whatever the store, the network of callbacks and the process do: the    *)
(* record only ever grows into a continuation of itself, a finished trip   *)
(* is never touched again, and what a save reported stored stays stored.   *)
(***************************************************************************)
EXTENDS TrackData

VARIABLES stored,    \* the record under the trip's id
          promised   \* the newest track whose save was reported successful

Init == stored = NoTrack /\ promised = NoTrack

(* A picture of the trip lands, with or without the caller learning of it. *)
Advance ==
  /\ Extends(stored, stored')
  /\ promised' \in {promised, stored'}

Next == Advance

Spec == Init /\ [][Next]_<<stored, promised>>

(* Nothing reported stored is ever lost again.                             *)
PromiseKept == Extends(promised, stored)
=============================================================================
