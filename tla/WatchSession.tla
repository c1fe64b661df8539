----------------------------- MODULE WatchSession -----------------------------
(***************************************************************************)
(* What a recorder holds of the platform while it watches, and how the     *)
(* generation counter tells a late answer from a current one               *)
(* (packages/recorder-web/src/recorder.ts, environment.ts).                *)
(*                                                                         *)
(* Every watch, wake lock request and sensor start is identified by the    *)
(* generation it was made under.  The platform and the sensors answer when *)
(* they please: a wake lock request or a sensor start may resolve after    *)
(* any number of pauses, and a position callback queued before clearWatch  *)
(* may still run after it.                                                 *)
(***************************************************************************)
EXTENDS Integers

CONSTANTS Sensors,            \* the SensorSources the recorder was given
          WakeLockSupported,  \* navigator.wakeLock exists
          MaxGeneration       \* bound: pauses and stops in one session

ASSUME WatchSessionAssumption ==
  /\ WakeLockSupported \in BOOLEAN
  /\ MaxGeneration \in Nat

VARIABLES
  generation,      \* bumped whenever the watch is torn down
  watchId,         \* the generation whose watch is registered, or None
  registered,      \* generations whose position callback the platform holds
  lockRequests,    \* wake lock requests not yet answered
  wakeLock,        \* the lease the recorder refers to, or None
  leases,          \* wake locks the platform is holding for the page
  sensorsDesired,  \* whether sensors are wanted running now
  starting,        \* [sensor -> generations whose start() is pending]
  active           \* sensors that are running

watchVars == <<generation, watchId, registered, lockRequests, wakeLock,
               leases, sensorsDesired, starting, active>>

None == -1

WatchPristine ==
  /\ generation = 0
  /\ watchId = None
  /\ registered = {}
  /\ lockRequests = {}
  /\ wakeLock = None
  /\ leases = {}
  /\ sensorsDesired = FALSE
  /\ starting = [s \in Sensors |-> {}]
  /\ active = {}

-----------------------------------------------------------------------------
(* Mutated forms.                                                          *)

(* A lease that resolves late is kept like any other.                      *)
LateLeaseKept(g) == TRUE

(* A start that resolves late always stops the sensor again.               *)
LateStartAlwaysStopped(g) == g # generation

-----------------------------------------------------------------------------
(* startSensors and acquireWakeLock: both only ask.                        *)
StartSensors ==
  /\ sensorsDesired' = TRUE
  /\ starting' = [s \in Sensors |-> starting[s] \cup {generation}]

AcquireWakeLock ==
  lockRequests' = lockRequests \cup (IF WakeLockSupported THEN {generation} ELSE {})

(* beginWatching.  watchPosition may refuse (supported is FALSE), which is *)
(* reported to the error listeners and otherwise survived; a listener that *)
(* throws leaves the rest undone.                                          *)
BeginWatching(supported, thrown) ==
  /\ watchId' = IF supported THEN generation ELSE watchId
  /\ registered' = IF supported THEN registered \cup {generation} ELSE registered
  /\ \/ thrown /\ UNCHANGED <<lockRequests, sensorsDesired, starting>>
     \/ ~thrown /\ AcquireWakeLock /\ StartSensors
  /\ UNCHANGED <<generation, wakeLock, leases, active>>

(* stopWatching: clearWatch, releaseWakeLock and stopSensors.              *)
StopWatching ==
  /\ generation' = generation + 1
  /\ watchId' = None
  /\ wakeLock' = None
  /\ leases' = leases \ {wakeLock}
  /\ sensorsDesired' = FALSE
  /\ active' = {}
  /\ UNCHANGED <<registered, lockRequests, starting>>

-----------------------------------------------------------------------------
(* The test of acquireWakeLock on a lease that has just resolved.          *)
LeaseCurrent(g) == g = generation

(* A wake lock request is answered: refused, kept, or released unused.     *)
LockAnswered ==
  \E g \in lockRequests :
    /\ lockRequests' = lockRequests \ {g}
    /\ \/ UNCHANGED <<wakeLock, leases>>
       \/ /\ LeaseCurrent(g)
          /\ wakeLock' = g
          /\ leases' = leases \cup {g}
    /\ UNCHANGED <<generation, watchId, registered, sensorsDesired, starting, active>>

(* The browser drops the lock of a page that is no longer visible.         *)
LockDropped ==
  /\ leases # {}
  /\ leases' = {}
  /\ UNCHANGED <<generation, watchId, registered, lockRequests, wakeLock,
                 sensorsDesired, starting, active>>

(* The test of startSensors on a start() that has just resolved.           *)
StopLateSensor(g) == g # generation /\ ~sensorsDesired

SensorStarted ==
  \E s \in Sensors : \E g \in starting[s] :
    /\ starting' = [starting EXCEPT ![s] = @ \ {g}]
    /\ active' = IF StopLateSensor(g) THEN active \ {s} ELSE active \cup {s}
    /\ UNCHANGED <<generation, watchId, registered, lockRequests, wakeLock,
                   leases, sensorsDesired>>

SensorStartFails ==
  \E s \in Sensors : \E g \in starting[s] :
    /\ starting' = [starting EXCEPT ![s] = @ \ {g}]
    /\ UNCHANGED <<generation, watchId, registered, lockRequests, wakeLock,
                   leases, sensorsDesired, active>>

PlatformAnswers == LockAnswered \/ LockDropped \/ SensorStarted \/ SensorStartFails

(* The page is gone, and with it every watch, lock and sensor.             *)
WatchCrash ==
  /\ generation' = 0
  /\ watchId' = None
  /\ registered' = {}
  /\ lockRequests' = {}
  /\ wakeLock' = None
  /\ leases' = {}
  /\ sensorsDesired' = FALSE
  /\ starting' = [s \in Sensors |-> {}]
  /\ active' = {}
=============================================================================
