----------------------------- MODULE PollingSensor -----------------------------
(***************************************************************************)
(* createPollingSource of packages/core/src/sensors-polling.ts: a timer    *)
(* that reads a device, one read at a time, while the source is started.   *)
(* A read is a chain of promises; its callbacks run as tasks of their own, *)
(* and the source may be stopped and started between any two of them.      *)
(*                                                                         *)
(* `starts` counts the sessions the consumer began, and `delivered` is     *)
(* what the last step told the listeners, with the session whose read it   *)
(* came from.                                                              *)
(***************************************************************************)
EXTENDS Naturals

CONSTANTS MaxStarts,     \* bound: sessions
          MaxStops       \* bound: calls of stop()

ASSUME PollingAssumption == MaxStarts \in Nat /\ MaxStops \in Nat

VARIABLES
  ticking,     \* the interval is set
  reading, generation,
  inFlight,    \* the read under way: [generation, session, phase], or NoRead
  starts, delivered

pollingVars == <<ticking, reading, generation, inFlight, starts, delivered>>

(* A read's phase is what its next callback finds.                         *)
Answers == {"values", "nothing", "undescribed"}
NoRead == [generation |-> 0, session |-> 0, phase |-> "none"]
Silence == [kind |-> "none", session |-> 0]

PollingInit ==
  /\ ticking = FALSE /\ reading = FALSE /\ generation = 0
  /\ inFlight = NoRead
  /\ starts = 0 /\ delivered = Silence

-----------------------------------------------------------------------------
(* The consumer.                                                           *)

StartSource ==
  /\ ~ticking
  /\ starts < MaxStarts
  /\ ticking' = TRUE /\ starts' = starts + 1
  /\ delivered' = Silence
  /\ UNCHANGED <<reading, generation, inFlight>>

(* stop() always disowns the read in flight, called once or twice.         *)
StopSource ==
  /\ generation < MaxStops
  /\ ticking' = FALSE /\ generation' = generation + 1
  /\ delivered' = Silence
  /\ UNCHANGED <<reading, inFlight, starts>>

-----------------------------------------------------------------------------
(* The timer, the device and the read's callbacks.                         *)

(* A tick during a read does nothing.                                      *)
Tick ==
  /\ ticking /\ ~reading
  /\ reading' = TRUE
  /\ inFlight' = [generation |-> generation, session |-> starts, phase |-> "asked"]
  /\ delivered' = Silence
  /\ UNCHANGED <<ticking, generation, starts>>

Becomes(phase) == inFlight' = [inFlight EXCEPT !.phase = phase]

DeviceAnswers ==
  /\ inFlight.phase = "asked"
  /\ \E phase \in Answers \cup {"failed"} : Becomes(phase)
  /\ delivered' = Silence
  /\ UNCHANGED <<ticking, reading, generation, starts>>

(* Mutated: a started source takes whatever read comes in.                 *)
DisownedWhileStopped == ~ticking

(* Started in another generation: nobody's any more.                       *)
Disowned == inFlight.generation # generation

Hear(kind) == delivered' = [kind |-> kind, session |-> inFlight.session]

(* The callback of an answer.  A listener that throws fails the read, also *)
(* one that was told of values the channels do not describe.               *)
Deliver ==
  /\ inFlight.phase \in Answers
  /\ IF Disowned \/ inFlight.phase = "nothing"
       THEN Becomes("settled") /\ delivered' = Silence
       ELSE /\ Hear(IF inFlight.phase = "values" THEN "sample" ELSE "error")
            /\ \E thrown \in BOOLEAN : Becomes(IF thrown THEN "failed" ELSE "settled")
  /\ UNCHANGED <<ticking, reading, generation, starts>>

(* The callback of a failure.  An error listener that throws here is lost. *)
Fail ==
  /\ inFlight.phase = "failed"
  /\ IF Disowned THEN delivered' = Silence ELSE Hear("error")
  /\ Becomes("settled")
  /\ UNCHANGED <<ticking, reading, generation, starts>>

(* Mutated: a read of another session does not free the slot.              *)
FinishOwn ==
  /\ inFlight.phase = "settled"
  /\ inFlight' = NoRead
  /\ reading' = (inFlight.generation # generation)
  /\ delivered' = Silence
  /\ UNCHANGED <<ticking, generation, starts>>

(* However it settled, the next tick may read.                             *)
Finish ==
  /\ inFlight.phase = "settled"
  /\ inFlight' = NoRead /\ reading' = FALSE
  /\ delivered' = Silence
  /\ UNCHANGED <<ticking, generation, starts>>

PollingNext ==
  \/ StartSource \/ StopSource
  \/ Tick \/ DeviceAnswers \/ Deliver \/ Fail \/ Finish

(* Timers and callbacks run, and the device settles every read.            *)
PollingFairness ==
  /\ WF_pollingVars(Tick) /\ WF_pollingVars(DeviceAnswers)
  /\ WF_pollingVars(Deliver) /\ WF_pollingVars(Fail) /\ WF_pollingVars(Finish)

PollingSpec == PollingInit /\ [][PollingNext]_pollingVars

-----------------------------------------------------------------------------
(* Properties.                                                             *)

(* "A read already in flight when the source stops belongs to the old      *)
(* generation": listeners only hear of a read begun in the session that is *)
(* on, and of none while the source is stopped.                            *)
SampleOfThisSession ==
  delivered # Silence => ticking /\ delivered.session = starts

(* A source left started goes on reading for its own session, whatever     *)
(* read an earlier session left in flight and however reads and listeners  *)
(* fail.                                                                   *)
PollingGoesOn ==
  <>[]ticking => []<>(inFlight.phase # "none" /\ inFlight.session = starts)
=============================================================================
