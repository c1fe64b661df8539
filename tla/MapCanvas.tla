------------------------------ MODULE MapCanvas ------------------------------
(***************************************************************************)
(* The controller of packages/maplibre/src/controller/controller.ts over   *)
(* one renderer map -- what it was asked to show, which it accepts or      *)
(* refuses at the call, and what the map shows once its style has loaded   *)
(* -- and the component of packages/react/src/map-canvas.ts, which keeps   *)
(* one controller showing its props and builds another only when its style *)
(* changes.                                                                *)
(*                                                                         *)
(* A controller is a record, its methods are operators on it.  Track,      *)
(* events, live point, draft and presentation are one value, `drawn`; a    *)
(* stack of sources is the set of their ids.                               *)
(*                                                                         *)
(* React runs a component's effects after a commit, in one task: first the *)
(* cleanups of those whose dependencies changed, then those effects.  A    *)
(* cleanup is a closure of the effect's last run; `held` is the session    *)
(* that closure keeps, for each effect that follows one interaction.       *)
(***************************************************************************)
EXTENDS Naturals, Sequences

CONSTANTS MaxControllers,   \* bound: controllers built
          SourceIds,
          Elevation,   \* those of kind "raster-dem"
          Drawings,    \* what can be drawn
          Listeners,   \* kinds of listener: onMapTap, onEventClick
          NoTerrain, Nothing

ASSUME MapCanvasAssumption == MaxControllers \in Nat

ASSUME MapControllerAssumption ==
  /\ Elevation \subseteq SourceIds
  /\ NoTerrain \notin SourceIds
  /\ "draw" \notin Listeners

(* What a consumer may register for or enter.                              *)
Interactions == Listeners \cup {"draw"}

Pictures == [sources : SUBSET SourceIds, terrain : SourceIds \cup {NoTerrain},
             drawn : Drawings \cup {Nothing}]

EmptyMap == [sources |-> {}, terrain |-> NoTerrain, drawn |-> Nothing]

(* prepareTerrain: it names a source of the stack, and an elevation one.   *)
Stands(terrain, sources) == terrain = NoTerrain \/ terrain \in sources \cap Elevation

Consistent == {p \in Pictures : Stands(p.terrain, p.sources)}

(* The map waits for its style; construction keeps what is to be shown.    *)
CreateController(picture) ==
  [wanted |-> [picture EXCEPT !.drawn = Nothing], map |-> EmptyMap,
   loaded |-> FALSE, destroyed |-> FALSE, active |-> {}]

ApplyTerrain(c) == [c EXCEPT !.map.terrain = c.wanted.terrain]

ApplyRender(c) == [c EXCEPT !.map.drawn = c.wanted.drawn]

(* Terrain is released, the stack replaced, and all of it applied again.   *)
Reconcile(c) == ApplyRender(ApplyTerrain([c EXCEPT !.map.sources = c.wanted.sources]))

(* A stack that would orphan the standing terrain is refused.              *)
AcceptsSources(c, sources) == Stands(c.wanted.terrain, sources)

SetSources(c, sources) ==
  LET asked == [c EXCEPT !.wanted.sources = sources]
  IN IF c.loaded THEN Reconcile(asked) ELSE asked

SetTerrain(c, terrain) ==
  LET asked == [c EXCEPT !.wanted.terrain = terrain]
  IN IF c.loaded THEN ApplyTerrain(asked) ELSE asked

RenderDrawing(c, drawing) ==
  LET asked == [c EXCEPT !.wanted.drawn = drawing]
  IN IF c.loaded THEN ApplyRender(asked) ELSE asked

(* Mutated: the style shows the stack, and what was drawn is not applied.  *)
OnLoadSourcesOnly(c) == ApplyTerrain([c EXCEPT !.loaded = TRUE, !.map.sources = c.wanted.sources])

OnLoad(c) == Reconcile([c EXCEPT !.loaded = TRUE])

(* onMapTap, onEventClick, enterDrawMode, and the functions they return.   *)
EnterMode(c, interactions) == [c EXCEPT !.active = @ \cup interactions]

LeaveMode(c, interactions) == [c EXCEPT !.active = @ \ interactions]

(* Nothing is left of a destroyed controller.                              *)
Destroy(c) ==
  [wanted |-> EmptyMap, map |-> EmptyMap, loaded |-> FALSE, destroyed |-> TRUE, active |-> {}]

-----------------------------------------------------------------------------
(* The component.                                                          *)

VARIABLES
  mounted,
  props,      \* the last render: [style, picture, present]
  ran,        \* what the effects last ran for: [style, present]
  due,        \* the effects of `props` have not run
  sessions,   \* the controllers built, in order
  sessionRef, \* the session in sessionRef, or 0
  held        \* per interaction, the session its effect saw when it last ran

canvasVars == <<mounted, props, ran, due, sessions, sessionRef, held>>

(* The props a consumer gives are consistent.                              *)
CanvasInit ==
  /\ mounted = TRUE /\ due = TRUE
  /\ \E picture \in Consistent, present \in SUBSET Interactions :
       props = [style |-> 1, picture |-> picture, present |-> present]
  /\ ran = [style |-> 0, present |-> {}]
  /\ sessions = << >> /\ sessionRef = 0
  /\ held = [i \in Interactions |-> 0]

-----------------------------------------------------------------------------
(* Effects.                                                                *)

(* setSources comes first: it is judged against the terrain shown so far.  *)
Refused(c, picture) ==
  c.wanted.sources # picture.sources /\ ~AcceptsSources(c, picture.sources)

ApplyState(c, picture) ==
  RenderDrawing(SetTerrain(SetSources(c, picture.sources), picture.terrain), picture.drawn)

(* The construction effect, which brings the whole current state.          *)
Build(p) == EnterMode(ApplyState(CreateController(p.picture), p.picture), p.present)

(* The cleanup of the construction effect.                                 *)
TearDown(ss) == IF sessionRef = 0 THEN ss ELSE [ss EXCEPT ![sessionRef] = Destroy(@)]

(* The cleanups of the presence effects leave what they entered, in the    *)
(* session they hold, if that is still the session.                        *)
Released(current, interactions) ==
  {i \in interactions \cap ran.present : held[i] = current}

(* Style is unchanged: the session stays.                                  *)
Reconciled(changed) ==
  LET left == LeaveMode(sessions[sessionRef], Released(sessionRef, changed))
  IN EnterMode(ApplyState(left, props.picture), changed \cap props.present)

Recreate ==
  /\ Len(sessions) < MaxControllers
  /\ sessions' = Append(TearDown(sessions), Build(props))
  /\ sessionRef' = Len(sessions) + 1

ChangedPresence == {i \in Interactions : (i \in props.present) # (i \in ran.present)}

(* What each presence effect that ran now holds.                           *)
Hold(interactions, session) ==
  held' = [i \in Interactions |-> IF i \in interactions THEN session ELSE held[i]]

EffectsRecreate ==
  /\ mounted /\ due
  /\ props.style # ran.style
  /\ Recreate
  /\ Hold(IF ran.style = 0 THEN Interactions ELSE ChangedPresence, Len(sessions) + 1)
  /\ due' = FALSE /\ ran' = [style |-> props.style, present |-> props.present]
  /\ UNCHANGED <<mounted, props>>

EffectsReconcile ==
  /\ mounted /\ due
  /\ props.style = ran.style
  /\ ~Refused(sessions[sessionRef], props.picture)
  /\ sessions' = [sessions EXCEPT ![sessionRef] = Reconciled(ChangedPresence)]
  /\ Hold(ChangedPresence, sessionRef)
  /\ due' = FALSE /\ ran' = [style |-> props.style, present |-> props.present]
  /\ UNCHANGED <<mounted, props, sessionRef>>

(* Nothing of the component is left.                                       *)
Gone ==
  /\ mounted' = FALSE /\ due' = FALSE
  /\ sessions' = TearDown(sessions) /\ sessionRef' = 0
  /\ held' = [i \in Interactions |-> 0]
  /\ UNCHANGED <<props, ran>>

(* An effect that throws takes the component down.                         *)
EffectsThrow ==
  /\ mounted /\ due
  /\ props.style = ran.style
  /\ Refused(sessions[sessionRef], props.picture)
  /\ Gone

-----------------------------------------------------------------------------
(* React, the consumer and the renderer.                                   *)

Render ==
  /\ mounted /\ ~due
  /\ \E style \in {props.style, props.style + 1}, picture \in Consistent,
        present \in SUBSET Interactions :
       props' = [style |-> style, picture |-> picture, present |-> present]
  /\ props'.style <= MaxControllers
  /\ props' # props
  /\ due' = TRUE
  /\ UNCHANGED <<mounted, ran, sessions, sessionRef, held>>

(* StrictMode runs every cleanup and every effect once more.               *)
StrictEffects ==
  /\ mounted /\ ~due
  /\ Recreate
  /\ Hold(Interactions, Len(sessions) + 1)
  /\ UNCHANGED <<mounted, props, ran, due>>

Unmount == mounted /\ Gone

StyleLoads ==
  \E n \in DOMAIN sessions :
    /\ ~sessions[n].loaded /\ ~sessions[n].destroyed
    /\ sessions' = [sessions EXCEPT ![n] = OnLoad(@)]
    /\ UNCHANGED <<mounted, props, ran, due, sessionRef, held>>

CanvasNext ==
  \/ Render
  \/ EffectsRecreate \/ EffectsReconcile \/ EffectsThrow
  \/ StrictEffects \/ Unmount
  \/ StyleLoads

CanvasSpec == CanvasInit /\ [][CanvasNext]_canvasVars

-----------------------------------------------------------------------------
(* Properties.                                                             *)

Quiet == mounted /\ ~due

(* "Holds one live controller": the session's, and none once the component *)
(* is gone; a controller that was replaced keeps no listener, no draw      *)
(* session and no map.                                                     *)
OneLiveController ==
  \A n \in DOMAIN sessions :
    IF n = sessionRef
      THEN ~sessions[n].destroyed
      ELSE sessions[n].destroyed /\ sessions[n].active = {} /\ sessions[n].map = EmptyMap

(* "After recreating, the whole current state is re-applied", and          *)
(* "presence is lifecycle": once the effects have run the controller wants *)
(* what the props say, a map whose style has loaded shows it, whenever the *)
(* style loaded, and every listener and draw mode of the props is live.    *)
ShowsProps ==
  Quiet =>
    LET c == sessions[sessionRef]
    IN /\ c.wanted = props.picture
       /\ c.loaded => c.map = props.picture
       /\ props.present \subseteq c.active

(* Through every order of mounts, renders and effects, StrictMode's second *)
(* run of them included, the component holds one live controller and what  *)
(* that one shows is what its props say.                                   *)
CanvasFollowsProps == OneLiveController /\ ShowsProps

(* "Exiting when either goes": no draw session outlives its props.         *)
DrawEndsWithItsProps ==
  Quiet => ("draw" \in sessions[sessionRef].active => "draw" \in props.present)
=============================================================================
