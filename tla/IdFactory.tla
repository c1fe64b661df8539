-------------------------------- MODULE IdFactory --------------------------------
(***************************************************************************)
(* createIdFactory of packages/core/src/ids.ts.  An id is a time and a     *)
(* random part, both of fixed width in an alphabet that sorts as its       *)
(* digits do, so that ids sort as the pairs of the two numbers.            *)
(***************************************************************************)
EXTENDS Integers

CONSTANTS MaxTime,     \* the last millisecond an id can carry
          MaxRandom    \* the last random part

ASSUME IdFactoryAssumption == MaxTime \in Nat /\ MaxRandom \in Nat

VARIABLES
  now,                 \* what the clock says
  lastTime, lastRandom,
  minted,              \* the last id, [time, random], or NoId
  before               \* the id before it

idVars == <<now, lastTime, lastRandom, minted, before>>

NoId == [time |-> -1, random |-> -1]

IdInit ==
  /\ now = 0 /\ lastTime = -1 /\ lastRandom = -1
  /\ minted = NoId /\ before = NoId

(* The device's clock is set forward and back, and beyond what an id holds.*)
ClockSet ==
  /\ now' \in 0..(MaxTime + 1)
  /\ now' # now
  /\ UNCHANGED <<lastTime, lastRandom, minted, before>>

Mint(random) ==
  /\ before' = minted
  /\ minted' = [time |-> now, random |-> random]
  /\ lastRandom' = random
  /\ UNCHANGED now

(* Mutated: every id draws anew.                                           *)
RedrawnRandom(random) == random \in 0..MaxRandom

(* Within one millisecond the random part counts up.                       *)
NextRandom(random) ==
  IF now = lastTime THEN random = lastRandom + 1 ELSE random \in 0..MaxRandom

(* A time that has no encoding is refused before anything is touched, and  *)
(* so is an id beyond the last random part.                                *)
NextId ==
  /\ now <= MaxTime
  /\ \E random \in 0..MaxRandom : NextRandom(random) /\ Mint(random)
  /\ lastTime' = now

IdNext == ClockSet \/ NextId

IdSpec == IdInit /\ [][IdNext]_idVars

-----------------------------------------------------------------------------
Sorts(a, b) == a.time < b.time \/ (a.time = b.time /\ a.random < b.random)

(* "Ids sort as strings in the order they were minted", also within one    *)
(* millisecond and after refusals, as long as the clock has not gone back. *)
IdsSort == minted # NoId /\ before.time <= minted.time => Sorts(before, minted)
=============================================================================
