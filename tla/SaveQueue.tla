------------------------------ MODULE SaveQueue ------------------------------
(***************************************************************************)
(* How a recorder writes (packages/recorder-web/src/recorder.ts): the      *)
(* single-slot autosave queue, the drain and the final save of stop(), and *)
(* the store's answers.  The store is any TrackStore: a write it has been  *)
(* handed lands or fails at some later time, and two writes handed to it   *)
(* together may land in either order.                                      *)
(*                                                                         *)
(* The module gives the steps; Recorder puts them together with the        *)
(* recording whose pictures are written.                                   *)
(***************************************************************************)
EXTENDS TrackData

CONSTANTS HasStore,         \* options.store is given
          AutosaveMs,       \* options.autosaveMs; 0 switches autosave off
          StoreMayFail,     \* saveTrack may reject
          ListenerMayThrow  \* a consumer's onError callback may throw

ASSUME SaveQueueAssumption ==
  /\ HasStore \in BOOLEAN
  /\ AutosaveMs \in Nat
  /\ StoreMayFail \in BOOLEAN
  /\ ListenerMayThrow \in BOOLEAN

VARIABLES
  durable,          \* the store's record under the trip's id
  acked,            \* ghost: the last track whose saveTrack resolved
  writes,           \* saveTrack calls the store has not answered
  pendingSnapshot,  \* the newest picture waiting its turn, or NoTrack
  writer,           \* writeInFlight: "idle" undefined, "writing" pending,
                    \* "broken" a rejected promise nobody clears
  reported,         \* ghost: since the last pause(), the last picture of
                    \* one whose failed autosave went to onError, or NoTrack
  stopping          \* where stop() stands: "no", "draining", "saving",
                    \* "settled" resolved, "failed" rejected and retryable

queueVars == <<durable, acked, writes, pendingSnapshot, writer, reported, stopping>>

AutosaveEnabled == HasStore /\ AutosaveMs > 0

Write(by, track) == [by |-> by, track |-> track]

-----------------------------------------------------------------------------
(* Mutated forms.                                                          *)

(* Every snapshot is written at once, whatever is in flight.               *)
EnqueueSaveAtOnce(snapshot) ==
  /\ writer' = IF AutosaveEnabled THEN "writing" ELSE writer
  /\ writes' = writes \cup (IF AutosaveEnabled THEN {Write("autosave", snapshot)} ELSE {})
  /\ UNCHANGED pendingSnapshot

(* writeInFlight is not cleared when the loop ends.                        *)
ContinueLoopForgetsToClear(w) ==
  /\ writes' = (writes \ {w}) \cup (IF pendingSnapshot = NoTrack THEN {}
                                    ELSE {Write("autosave", pendingSnapshot)})
  /\ pendingSnapshot' = NoTrack
  /\ UNCHANGED writer

(* stop() goes on to the final save without waiting for the queue.         *)
DrainSkipped == writer # "broken"

(* A failed final save is taken for a success.                             *)
FinalFailureSwallowed == "settled"

-----------------------------------------------------------------------------
(* enqueueSave: at most one write in flight, and only the newest picture   *)
(* waiting behind it.                                                      *)
EnqueueSave(snapshot) ==
  \/ /\ ~AutosaveEnabled
     /\ UNCHANGED <<writes, pendingSnapshot, writer>>
  \/ /\ AutosaveEnabled
     /\ writer # "idle"
     /\ pendingSnapshot' = snapshot
     /\ UNCHANGED <<writes, writer>>
  \/ /\ AutosaveEnabled
     /\ writer = "idle"
     /\ writer' = "writing"
     /\ writes' = writes \cup {Write("autosave", snapshot)}
     /\ pendingSnapshot' = NoTrack

(* The loop of enqueueSave once write w is answered: the next picture, or  *)
(* the end of the loop.                                                    *)
ContinueLoop(w) ==
  \/ /\ pendingSnapshot = NoTrack
     /\ writer' = "idle"
     /\ writes' = writes \ {w}
     /\ UNCHANGED pendingSnapshot
  \/ /\ pendingSnapshot # NoTrack
     /\ writes' = (writes \ {w}) \cup {Write("autosave", pendingSnapshot)}
     /\ pendingSnapshot' = NoTrack
     /\ UNCHANGED writer

(* emitError throwing inside the loop rejects writeInFlight and skips the  *)
(* line that clears it.                                                    *)
BreakLoop(w) ==
  /\ ListenerMayThrow
  /\ writer' = "broken"
  /\ writes' = writes \ {w}
  /\ UNCHANGED pendingSnapshot

AutosaveLands ==
  \E w \in writes :
    /\ w.by = "autosave"
    /\ durable' = w.track
    /\ acked' = w.track
    /\ ContinueLoop(w)
    /\ UNCHANGED <<reported, stopping>>

AutosaveFails ==
  \E w \in writes :
    /\ w.by = "autosave"
    /\ StoreMayFail
    /\ ContinueLoop(w) \/ BreakLoop(w)
    /\ reported' = IF w.track.status = "paused" THEN w.track ELSE reported
    /\ UNCHANGED <<durable, acked, stopping>>

-----------------------------------------------------------------------------
(* drainWrites has returned: writeInFlight is undefined.                   *)
Drained == writer = "idle"

(* The tail of stop(): the final save, after the drain.                    *)
SaveFinal(final) ==
  /\ stopping = "draining"
  /\ Drained
  /\ stopping' = "saving"
  /\ writes' = writes \cup {Write("stop", final)}
  /\ UNCHANGED <<durable, acked, pendingSnapshot, writer, reported>>

(* Awaiting a rejected writeInFlight rejects stop() before it saved.       *)
DrainRejects ==
  /\ stopping = "draining"
  /\ writer = "broken"
  /\ stopping' = "failed"
  /\ UNCHANGED <<durable, acked, writes, pendingSnapshot, writer, reported>>

(* stop() called again after its save failed: the finalized track once     *)
(* more, without a drain.                                                  *)
RetryFinal(final) ==
  /\ stopping = "failed"
  /\ stopping' = "saving"
  /\ writes' = writes \cup {Write("stop", final)}
  /\ UNCHANGED <<durable, acked, pendingSnapshot, writer, reported>>

FinalLands ==
  \E w \in writes :
    /\ w.by = "stop"
    /\ durable' = w.track
    /\ acked' = w.track
    /\ writes' = writes \ {w}
    /\ stopping' = "settled"
    /\ UNCHANGED <<pendingSnapshot, writer, reported>>

(* What a rejected final save leaves of stopPromise.                       *)
AfterFinalFailure == "failed"

FinalFails ==
  \E w \in writes :
    /\ w.by = "stop"
    /\ StoreMayFail
    /\ writes' = writes \ {w}
    /\ stopping' = AfterFinalFailure
    /\ UNCHANGED <<durable, acked, pendingSnapshot, writer, reported>>

StoreAnswers == AutosaveLands \/ AutosaveFails \/ FinalLands \/ FinalFails

(* The process dies: each write handed over has landed or never will.      *)
QueueCrash ==
  /\ durable' \in {durable} \cup {w.track : w \in writes}
  /\ writes' = {}
  /\ pendingSnapshot' = NoTrack
  /\ writer' = "idle"
  /\ stopping' = "no"
  /\ reported' = NoTrack
  /\ UNCHANGED acked
=============================================================================
