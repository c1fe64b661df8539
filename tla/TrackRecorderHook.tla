-------------------------- MODULE TrackRecorderHook --------------------------
(***************************************************************************)
(* The hook-owned recorder of packages/react/src/use-track-recorder.ts: a  *)
(* component that mounts and unmounts, the recovery scan it runs, and the  *)
(* recorders its commands build.  A recorder outlives the component that   *)
(* built it; a reload of the page ends them all.                           *)
(*                                                                         *)
(* Of a recorder only what the hook and the store see of it is kept; its   *)
(* own behaviour is Recorder's.  Recorders are numbered in the order they  *)
(* are built, and a fresh recorder's trip has its recorder's number.       *)
(***************************************************************************)
EXTENDS TrackData, FiniteSets

CONSTANTS MaxRecorders,  \* bound: recorders built
          MaxScans,      \* bound: recovery scans begun
          MaxInstances,  \* bound: mounts of the component
          MaxDiscards    \* bound: deletions under way

ASSUME TrackRecorderHookAssumption ==
  {MaxRecorders, MaxScans, MaxInstances, MaxDiscards} \subseteq Nat

VARIABLES
  record,      \* [trip -> what the store holds: "none", or a track's status]
  recorders,   \* sequence of [trip, status, instance, awaits, offer], where
               \* offer is a ghost: offeredBy when it was built to resume
  mounted,
  instance,    \* which mount of the component this is
  scans,       \* sequence of [phase, trip, answer]
  liveScan,    \* the scan whose effect has not been cleaned up, or 0
  recovered,   \* the candidate offered: [trip, status], or NoCandidate
  offeredBy,   \* ghost: the scan that published last, or 0
  held,        \* recorderRef, or 0
  release,     \* whose subscription releaseRef ends, or 0
  subscribed,  \* recorders the hook's listeners are attached to
  discards     \* deleteTrack calls not answered: [trip, instance, offer,
               \* landed]

hookVars == <<mounted, instance, liveScan, recovered, offeredBy, held, release>>
vars == <<record, recorders, scans, subscribed, discards, hookVars>>

Trips == 1..MaxRecorders
NoCandidate == [trip |-> 0, status |-> "none"]
Live(r) == recorders[r].status \in {"recording", "paused"}

Init ==
  /\ record = [t \in Trips |-> "none"]
  /\ recorders = << >>
  /\ mounted = FALSE /\ instance = 0
  /\ scans = << >> /\ liveScan = 0
  /\ recovered = NoCandidate /\ offeredBy = 0
  /\ held = 0 /\ release = 0
  /\ subscribed = {} /\ discards = {}

-----------------------------------------------------------------------------
(* The component's life.                                                   *)

BeginScan ==
  /\ Len(scans) < MaxScans
  /\ scans' = Append(scans, [phase |-> "listing", trip |-> 0, answer |-> NoCandidate])
  /\ liveScan' = Len(scans) + 1

(* A new instance, with state and refs of its own.                         *)
Mount ==
  /\ ~mounted
  /\ instance < MaxInstances
  /\ mounted' = TRUE
  /\ instance' = instance + 1
  /\ BeginScan
  /\ recovered' = NoCandidate
  /\ offeredBy' = 0
  /\ held' = 0
  /\ release' = 0
  /\ UNCHANGED <<record, recorders, subscribed, discards>>

(* The scan effect runs again: StrictMode, or a store or environment of    *)
(* another identity.                                                       *)
EffectRunsAgain ==
  /\ mounted
  /\ BeginScan
  /\ UNCHANGED <<record, recorders, subscribed, discards, mounted, instance,
                 recovered, offeredBy, held, release>>

Unmount ==
  /\ mounted
  /\ mounted' = FALSE
  /\ liveScan' = 0
  /\ subscribed' = subscribed \ {release}
  /\ release' = 0
  /\ UNCHANGED <<record, recorders, scans, discards, instance, recovered, offeredBy, held>>

(* The page is reloaded: nothing but the store survives.                   *)
Reload ==
  /\ recorders' = [r \in DOMAIN recorders |-> [recorders[r] EXCEPT !.status = "dead",
                                       !.awaits = "nothing", !.offer = 0]]
  /\ mounted' = FALSE
  /\ scans' = [n \in DOMAIN scans |-> [scans[n] EXCEPT !.phase = "done"]]
  /\ liveScan' = 0
  /\ recovered' = NoCandidate /\ offeredBy' = 0
  /\ held' = 0 /\ release' = 0
  /\ subscribed' = {} /\ discards' = {}
  /\ UNCHANGED <<record, instance>>

-----------------------------------------------------------------------------
(* The recovery scan.                                                      *)

(* recoverInterruptedTrack, first read: the newest interrupted summary.    *)
ScanLists(n) ==
  LET interrupted == {t \in Trips : record[t] \in {"recording", "paused"}}
  IN /\ scans[n].phase = "listing"
     /\ interrupted # {}
     /\ \E t \in interrupted :
          /\ \A u \in interrupted : u <= t
          /\ scans' = [scans EXCEPT ![n].phase = "fetching", ![n].trip = t]
     /\ UNCHANGED <<record, recorders, subscribed, discards, hookVars>>

(* What the store holds of the candidate by now; nothing if it is gone.    *)
Found(n) ==
  LET t == scans[n].trip
  IN IF t = 0 \/ record[t] = "none" THEN NoCandidate ELSE [trip |-> t, status |-> record[t]]

Publishes(n) == n = liveScan

(* A rejected scan is an error to show; the candidate stays as it was.     *)
ScanFails(n) ==
  /\ scans[n].phase \in {"listing", "fetching"}
  /\ scans' = [scans EXCEPT ![n].phase = "failed", ![n].trip = 0]
  /\ UNCHANGED <<record, recorders, subscribed, discards, hookVars>>

(* The answer: of the second read, or of a list with nothing interrupted.  *)
ScanAnswers(n) ==
  /\ \/ scans[n].phase = "fetching"
     \/ scans[n].phase = "listing" /\ \A t \in Trips : record[t] \notin {"recording", "paused"}
  /\ scans' = [scans EXCEPT ![n].phase = "done", ![n].trip = 0,
                          ![n].answer = Found(n)]
  /\ recovered' = IF Publishes(n) THEN Found(n) ELSE recovered
  /\ offeredBy' = IF Publishes(n) THEN n ELSE offeredBy
  /\ UNCHANGED <<record, recorders, subscribed, discards, mounted, instance,
                 liveScan, held, release>>

-----------------------------------------------------------------------------
(* Commands.                                                               *)

(* Build a recorder of a trip, subscribe to it and call its start().       *)
StartWith(trip, awaits, offer) ==
  /\ mounted
  /\ Len(recorders) < MaxRecorders
  /\ recorders' = Append(recorders, [trip |-> trip, status |-> "recording",
                                     instance |-> instance, awaits |-> awaits,
                                     offer |-> offer])
  /\ subscribed' = subscribed \cup {Len(recorders) + 1}
  /\ UNCHANGED <<record, scans, discards, hookVars>>

StartFresh == StartWith(Len(recorders) + 1, "start", 0)

(* A candidate that is finished by now is refused by the constructor.      *)
ResumeRecovered ==
  /\ recovered.status \in {"recording", "paused"}
  /\ StartWith(recovered.trip, "resumeRecovered", offeredBy)

(* Mutated: the new release is kept before the previous one is called.     *)
SubscribedAfterSwap(r) == subscribed \ {r}

(* startWith ends the previous recorder's subscription.                    *)
SubscribedAfterStart(r) == subscribed \ {release}

(* A command that outlived its instance acts on refs and state nobody      *)
(* reads any more.                                                         *)
Current(r) == recorders[r].instance = instance

(* startWith and resumeRecovered, once start() has resolved.               *)
StartContinues(r) ==
  /\ recorders[r].awaits \in {"start", "resumeRecovered"}
  /\ recorders' = [recorders EXCEPT ![r].awaits = "nothing", ![r].offer = 0]
  /\ IF Current(r)
       THEN /\ subscribed' = SubscribedAfterStart(r)
            /\ release' = r
            /\ held' = r
            /\ recovered' = IF recorders[r].awaits = "resumeRecovered" THEN NoCandidate ELSE recovered
       ELSE UNCHANGED <<subscribed, release, held, recovered>>
  /\ UNCHANGED <<record, scans, discards, mounted, instance, liveScan, offeredBy>>

(* Mutated: the candidate is gone although its recorder did not start.     *)
CandidateDropped == NoCandidate

(* What a failed start leaves of the candidate.                            *)
CandidateAfterFailure == recovered

StartFails(r) ==
  /\ recorders[r].awaits \in {"start", "resumeRecovered"}
  /\ recorders' = [recorders EXCEPT ![r].awaits = "nothing", ![r].offer = 0,
                                   ![r].status = "dead"]
  /\ subscribed' = subscribed \ {r}
  /\ recovered' = IF Current(r) THEN CandidateAfterFailure ELSE recovered
  /\ UNCHANGED <<record, scans, discards, mounted, instance, liveScan, offeredBy, held,
                 release>>

(* pause() and resume().                                                   *)
PauseOrResume ==
  /\ mounted
  /\ held # 0
  /\ \/ recorders[held].status = "recording" /\ recorders' = [recorders EXCEPT ![held].status = "paused"]
     \/ recorders[held].status = "paused" /\ recorders' = [recorders EXCEPT ![held].status = "recording"]
  /\ UNCHANGED <<record, scans, subscribed, discards, hookVars>>

(* stop(): the recorder ends at once, and saves.                           *)
Stop ==
  /\ mounted
  /\ held # 0
  /\ Live(held) \/ recorders[held].status = "finalized"
  /\ recorders[held].awaits = "nothing"
  /\ recorders' = [recorders EXCEPT ![held].status = "finalized", ![held].awaits = "stop"]
  /\ UNCHANGED <<record, scans, subscribed, discards, hookVars>>

(* stop() resolved: the subscription releaseRef names by now is ended.     *)
StopContinues(r) ==
  /\ recorders[r].awaits = "stop"
  /\ record' = [record EXCEPT ![recorders[r].trip] = "finalized"]
  /\ recorders' = [recorders EXCEPT ![r].awaits = "nothing"]
  /\ IF Current(r)
       THEN subscribed' = subscribed \ {release} /\ release' = 0
       ELSE UNCHANGED <<subscribed, release>>
  /\ UNCHANGED <<scans, discards, mounted, instance, liveScan, recovered, offeredBy, held>>

StopFails(r) ==
  /\ recorders[r].awaits = "stop"
  /\ recorders' = [recorders EXCEPT ![r].awaits = "nothing"]
  /\ UNCHANGED <<record, scans, subscribed, discards, hookVars>>

DiscardRecovered ==
  /\ mounted
  /\ recovered # NoCandidate
  /\ Cardinality(discards) < MaxDiscards
  /\ discards' = discards \cup {[trip |-> recovered.trip, instance |-> instance,
                                 offer |-> offeredBy, landed |-> FALSE]}
  /\ UNCHANGED <<record, recorders, scans, subscribed, hookVars>>

(* The trip is deleted; the answer is on its way.                          *)
DiscardLands ==
  \E d \in discards :
    /\ ~d.landed
    /\ record' = [record EXCEPT ![d.trip] = "none"]
    /\ discards' = (discards \ {d}) \cup {[d EXCEPT !.landed = TRUE]}
    /\ UNCHANGED <<recorders, scans, subscribed, hookVars>>

(* A rejection leaves the candidate, a resolution clears what is on offer. *)
DiscardAnswered ==
  \E d \in discards :
    /\ discards' = discards \ {d}
    /\ \/ UNCHANGED recovered
       \/ /\ d.landed
          /\ recovered' = IF d.instance = instance THEN NoCandidate ELSE recovered
    /\ UNCHANGED <<record, recorders, scans, subscribed, mounted, instance, liveScan,
                   offeredBy, held, release>>

-----------------------------------------------------------------------------
(* A live recorder saves its trip as it grows.                             *)
Autosave(r) ==
  /\ Live(r)
  /\ record' = [record EXCEPT ![recorders[r].trip] = recorders[r].status]
  /\ UNCHANGED <<recorders, scans, subscribed, discards, hookVars>>

Next ==
  \/ Mount \/ EffectRunsAgain \/ Unmount \/ Reload
  \/ \E n \in DOMAIN scans : ScanLists(n) \/ ScanAnswers(n) \/ ScanFails(n)
  \/ StartFresh \/ ResumeRecovered \/ PauseOrResume \/ Stop
  \/ DiscardRecovered \/ DiscardLands \/ DiscardAnswered
  \/ \E r \in DOMAIN recorders :
       StartContinues(r) \/ StartFails(r) \/ StopContinues(r) \/ StopFails(r) \/ Autosave(r)

Spec == Init /\ [][Next]_vars

-----------------------------------------------------------------------------
(* Properties.                                                             *)

(* startWith, stop and the unmount cleanup: every subscription of the      *)
(* mounted component is the one its releaseRef ends, or belongs to a start *)
(* still under way that will end it or put it there.                       *)
SubscriptionOwned ==
  mounted =>
    \A r \in subscribed :
      recorders[r].instance = instance =>
        r = release \/ recorders[r].awaits \in {"start", "resumeRecovered"}

(* The scan effect: once the newest scan has answered, a candidate on      *)
(* offer is its answer, and no earlier one's.                              *)
NewestScanWins ==
  mounted /\ scans[Len(scans)].phase = "done" /\ recovered # NoCandidate
    => recovered = scans[Len(scans)].answer

(* startWith subscribes to a recorder before it starts it, and the         *)
(* mounted component hears the live recorder it holds until that one       *)
(* stops, with one exception: a stop() of another recorder that is         *)
(* answered meanwhile ends whatever subscription releaseRef names by then. *)
HeldIsHeard ==
  [][mounted' /\ held' # 0 /\ Live(held)' /\ held' \notin subscribed' =>
       /\ held' = held
       /\ \/ held \notin subscribed
          \/ \E r \in DOMAIN recorders \ {held} :
               /\ recorders[r].awaits = "stop" /\ recorders'[r].awaits = "nothing"
               /\ recorders[r].instance = instance]_vars

(* Through overlapping starts, stops, scans and remounts, the component    *)
(* listens to no recorder it cannot let go of, hears the one it holds      *)
(* until another one's stop() is answered, and offers what its newest scan *)
(* found.                                                                  *)
HookFollowsItsRecorder == [](SubscriptionOwned /\ NewestScanWins) /\ HeldIsHeard

(* A command of this component was given on the candidate on offer, or was *)
(* overtaken: a scan has put up another answer since.                      *)
MeantForIt(command) ==
  /\ command.instance = instance
  /\ command.trip = recovered.trip \/ command.offer # offeredBy

(* resumeRecovered and discardRecovered: while the component is mounted    *)
(* the candidate goes only when a recorder that resumes it has started, a  *)
(* deletion of it has landed, or the scan that is live says there is none. *)
(* A command that was overtaken clears a candidate it was not meant for.   *)
CandidateKept ==
  [][mounted /\ mounted' /\ recovered # NoCandidate /\ recovered' = NoCandidate =>
       \/ \E r \in DOMAIN recorders :
            /\ recorders[r].awaits = "resumeRecovered" /\ recorders'[r].awaits = "nothing"
            /\ recorders'[r].status # "dead"
            /\ MeantForIt(recorders[r])
       \/ \E d \in discards \ discards' : d.landed /\ MeantForIt(d)
       \/ /\ scans[liveScan].phase # "done" /\ scans'[liveScan].phase = "done"
          /\ scans'[liveScan].answer = NoCandidate]_vars

(* "An interrupted track found at mount": what the hook offers to resume   *)
(* or to discard is nobody's live recording.                               *)
RecoveredIsNotLive ==
  mounted /\ recovered # NoCandidate =>
    \A r \in DOMAIN recorders : Live(r) => recorders[r].trip # recovered.trip
=============================================================================
