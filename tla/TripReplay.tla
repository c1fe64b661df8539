------------------------------- MODULE TripReplay -------------------------------
(***************************************************************************)
(* The replay of a trip, useReplay of packages/react/src/trip-review.ts:   *)
(* one cursor over the track's time, moved by animation frames while it    *)
(* plays.                                                                  *)
(*                                                                         *)
(* What a handler, a frame or an effect sets is pending until React        *)
(* commits it; of several values set the last one counts.  Effects run     *)
(* some time after a commit, and before the next.  Of the wall clock only  *)
(* `elapsed` matters, the time since the anchor was set; it stops counting *)
(* once it is longer than any trip.                                        *)
(***************************************************************************)
EXTENDS Integers

CONSTANTS Tracks,      \* the tracks shown: [from, to]; of one without points, NoTime
          MaxTouches   \* bound: clicks, scrubs and replacements

NoTime == -1
Keep == -2             \* nothing set
LastTime == CHOOSE t \in {track.to : track \in Tracks} : \A track \in Tracks : track.to <= t

VARIABLES
  wanted,     \* the parent's track prop, which the next commit shows
  shown,      \* the track of the last commit
  cursor, playing,               \* of the last commit
  setCursor, setPlaying,         \* pending, or Keep and "keep"
  due,        \* effects have not run since the commit
  ran,        \* what they last ran for: [track, playing]
  frame,      \* the `to` of the tick waiting for a frame, or Keep
  anchor, elapsed,               \* the anchor's cursor, or NoTime
  touches

replayVars == <<wanted, shown, cursor, playing, setCursor, setPlaying, due, ran, frame,
                anchor, elapsed, touches>>

(* Mounts paused at the track's first time.                                *)
ReplayInit ==
  /\ wanted \in Tracks /\ shown = wanted
  /\ cursor = shown.from /\ playing = FALSE
  /\ setCursor = Keep /\ setPlaying = "keep"
  /\ due = FALSE /\ ran = [track |-> shown, playing |-> FALSE]
  /\ frame = Keep /\ anchor = NoTime /\ elapsed = 0
  /\ touches = 0

-----------------------------------------------------------------------------
(* The person, whose handlers close over the last commit.                  *)

Touched ==
  /\ touches < MaxTouches /\ touches' = touches + 1
  /\ UNCHANGED <<shown, cursor, playing, due, ran, frame>>

(* ReplayControls shows nothing of a track without points.                 *)
Controls == shown.from # NoTime /\ cursor # NoTime

AnchorAt(t) == anchor' = t /\ elapsed' = 0 /\ setCursor' = t

Play ==
  /\ Controls /\ ~playing
  /\ shown.from # shown.to
  /\ AnchorAt(IF cursor >= shown.to THEN shown.from ELSE cursor)
  /\ setPlaying' = "on"
  /\ Touched /\ UNCHANGED wanted

Pause ==
  /\ Controls /\ playing
  /\ setPlaying' = "off"
  /\ Touched /\ UNCHANGED <<wanted, setCursor, anchor, elapsed>>

ScrubTo ==
  /\ Controls
  /\ \E t \in shown.from..shown.to : AnchorAt(t)
  /\ Touched /\ UNCHANGED <<wanted, setPlaying>>

(* The parent shows another trip, or more of this one.                     *)
Replace ==
  /\ wanted' \in Tracks \ {wanted}
  /\ Touched /\ UNCHANGED <<setCursor, setPlaying, anchor, elapsed>>

-----------------------------------------------------------------------------
(* React.                                                                  *)

Pending == setCursor # Keep \/ setPlaying # "keep" \/ wanted # shown

Commit ==
  /\ Pending /\ ~due
  /\ shown' = wanted
  /\ cursor' = IF setCursor = Keep THEN cursor ELSE setCursor
  /\ playing' = IF setPlaying = "keep" THEN playing ELSE setPlaying = "on"
  /\ setCursor' = Keep /\ setPlaying' = "keep"
  /\ due' = TRUE
  /\ UNCHANGED <<wanted, ran, frame, anchor, elapsed, touches>>

(* Mutated: the cleanup does not cancel the frame.                         *)
TickFrameUncancelled ==
  frame' = IF playing /\ shown.from # NoTime THEN shown.to ELSE frame

(* The tick's effect: its cleanup cancels the frame, and while it plays    *)
(* the new run asks for one.                                               *)
TickFrame ==
  frame' = IF playing = ran.playing /\ shown = ran.track THEN frame
           ELSE IF playing /\ shown.from # NoTime THEN shown.to ELSE Keep

(* The effect of the bounds sets the cursor of a replaced track.           *)
RunEffects ==
  /\ due /\ due' = FALSE
  /\ IF shown # ran.track
       THEN setPlaying' = "off" /\ setCursor' = shown.from
       ELSE UNCHANGED <<setPlaying, setCursor>>
  /\ TickFrame
  /\ ran' = [track |-> shown, playing |-> playing]
  /\ UNCHANGED <<wanted, shown, cursor, playing, anchor, elapsed, touches>>

-----------------------------------------------------------------------------
(* The clock and the frames.                                               *)

Longer == IF elapsed > LastTime THEN elapsed ELSE elapsed + 1

TimePasses ==
  /\ elapsed' = Longer /\ elapsed' # elapsed
  /\ UNCHANGED <<wanted, shown, cursor, playing, setCursor, setPlaying, due, ran, frame,
                 anchor, touches>>

Ends == anchor + elapsed >= frame

(* tick: past the end it stops there, and asks for no other frame.         *)
AnimationFrame ==
  /\ frame # Keep /\ anchor # NoTime
  /\ IF Ends
       THEN setCursor' = frame /\ setPlaying' = "off" /\ frame' = Keep
       ELSE setCursor' = anchor + elapsed /\ UNCHANGED <<setPlaying, frame>>
  /\ UNCHANGED <<wanted, shown, cursor, playing, due, ran, anchor, elapsed, touches>>

ReplayNext ==
  \/ Play \/ Pause \/ ScrubTo \/ Replace
  \/ Commit \/ RunEffects
  \/ TimePasses \/ AnimationFrame

ReplaySpec == ReplayInit /\ [][ReplayNext]_replayVars

(* React commits and runs effects, frames come, and time passes.           *)
ReplayFairness ==
  /\ WF_replayVars(Commit) /\ WF_replayVars(RunEffects)
  /\ WF_replayVars(TimePasses) /\ WF_replayVars(AnimationFrame)

-----------------------------------------------------------------------------
(* Properties.                                                             *)

ReplaySettled == ~due /\ ~Pending

(* A frame is waiting while the replay plays and only then, to the end of  *)
(* the track that is shown, however handlers, commits, frames and effects  *)
(* came to interleave: a paused replay costs nothing, and one that says it *)
(* plays moves.                                                            *)
FramesWhilePlaying ==
  ReplaySettled => frame = IF playing THEN shown.to ELSE Keep

(* A replay that is let be comes to its end and stops.                     *)
PlayEnds == playing ~> ~playing

(* "A replacement track must not leave the cursor outside the new range".  *)
CursorInRange ==
  ReplaySettled /\ ~playing => cursor >= shown.from /\ cursor <= shown.to
=============================================================================
