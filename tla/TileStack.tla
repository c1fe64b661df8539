------------------------------ MODULE TileStack ------------------------------
(***************************************************************************)
(* The stack of tile sources of packages/maplibre: its translation         *)
(* (builders/tile-source.ts) and its place in a renderer map, among what   *)
(* the base style brought and what the engine draws (controller.ts and     *)
(* engine-layers.ts).  The renderer is the repository's own fake of it,    *)
(* which refuses what MapLibre refuses: an id twice, a source in use.      *)
(*                                                                         *)
(* An id is a sequence of name parts, so that "a__b" with a layer "c" and  *)
(* "a" with a layer "b__c" meet.  Paint, zooms and urls are left out, but  *)
(* for what makes a source refused.                                        *)
(***************************************************************************)
EXTENDS Naturals, Sequences

CONSTANTS Stacks,      \* the stacks asked for: sequences of sources
          BaseStyles,  \* [document, sources, layers, terrain]
          Reserved,    \* names that start with the engine's prefix
          NoTerrainAsked

VARIABLES phase,      \* of the one controller: "none", "waiting", "loaded"
          style,      \* its base style
          asked,      \* the stack and the terrain it accepted
          view,       \* the renderer's map, and what the controller put there
          refusal,    \* the stack at the renderer's first refusal
          protocols   \* PMTiles protocols registered in this realm

stackVars == <<phase, style, asked, view, refusal, protocols>>

TrackSource == <<"mapatlas:track">>
DraftSource == <<"mapatlas:draft">>

(* ENGINE_SOURCES and ENGINE_LAYERS, in draw order; the anchor first.      *)
EngineSources == <<TrackSource, DraftSource>>

EngineLayers ==
  << [id |-> <<"mapatlas:track-line">>, source |-> TrackSource],
     [id |-> <<"mapatlas:track-line-dashed">>, source |-> TrackSource],
     [id |-> <<"mapatlas:draft-line">>, source |-> DraftSource],
     [id |-> <<"mapatlas:draft-vertex">>, source |-> DraftSource] >>

EngineAnchor == EngineLayers[1].id

isEngineId(id) == id[1] \in Reserved

-----------------------------------------------------------------------------
(* The translation of a stack, done whole at the call.                     *)

resolveRole(source, i) ==
  IF source.role # "default" THEN source.role ELSE IF i = 1 THEN "base" ELSE "overlay"

(* What the renderer could not express, or would draw as nothing.          *)
Valid(source) ==
  /\ source.attributed
  /\ source.transport = "wms" => source.kind = "raster" /\ source.url = "bbox"
  /\ source.url # "pmtiles-scheme"

(* A layer with no name of its own is named for its place.                 *)
LocalId(layers, i) == IF layers[i].id = << >> THEN <<"layer", i - 1>> ELSE layers[i].id

consumerLayers(source) ==
  [i \in DOMAIN source.styleLayers |->
     [id |-> source.id \o LocalId(source.styleLayers, i), source |-> source.id]]

layersFor(source, role) ==
  CASE source.kind = "raster" -> <<[id |-> source.id \o <<"raster">>, source |-> source.id]>>
    [] source.kind = "vector" -> consumerLayers(source)
    [] source.kind = "raster-dem" -> IF role = "terrain" THEN << >> ELSE consumerLayers(source)

(* Layers of their own are read only where they are drawn.                 *)
Typed(source, role) ==
  source.kind = "raster" \/ (source.kind = "raster-dem" /\ role = "terrain")
    \/ \A i \in DOMAIN source.styleLayers : source.styleLayers[i].typed

buildTileSources(sources) ==
  [i \in DOMAIN sources |->
     [id |-> sources[i].id, layers |-> layersFor(sources[i], resolveRole(sources[i], i))]]

LayersOf(built) ==
  LET laid[i \in 0..Len(built)] == IF i = 0 THEN << >> ELSE laid[i - 1] \o built[i].layers
  IN laid[Len(built)]

SourceIdsOf(stack) == {stack[i].id : i \in DOMAIN stack}

(* prepareSources: no reserved id, every source valid, no id twice.        *)
Accepts(stack) ==
  /\ \A i \in DOMAIN stack :
       /\ ~isEngineId(stack[i].id)
       /\ Valid(stack[i]) /\ Typed(stack[i], resolveRole(stack[i], i))
  /\ \A i, j \in DOMAIN stack : stack[i].id = stack[j].id => i = j
  /\ LET layers == LayersOf(buildTileSources(stack))
     IN \A i, j \in DOMAIN layers : layers[i].id = layers[j].id => i = j

(* prepareTerrain: a source of the stack, and an elevation one.            *)
AcceptsTerrain(terrain, stack) ==
  \/ terrain = NoTerrainAsked
  \/ \E i \in DOMAIN stack : stack[i].id = terrain /\ stack[i].kind = "raster-dem"

(* Only a style given as a document can be looked into.                    *)
assertStyleLeavesTheNamespaceAlone(base) ==
  base.document =>
    /\ \A id \in base.sources : ~isEngineId(id)
    /\ \A i \in DOMAIN base.layers : ~isEngineId(base.layers[i].id)

usesPmtiles(stack) == \E i \in DOMAIN stack : stack[i].transport = "pmtiles"

(* ensurePmtilesProtocol: one for the realm, whoever asks.                 *)
Registered(made) == IF made = 0 THEN 1 ELSE made

-----------------------------------------------------------------------------
(* The renderer's operations.  One that it refuses throws, and nothing     *)
(* more of that call happens.                                              *)

Refuse(m) == [m EXCEPT !.refused = TRUE]

addSource(m, id) ==
  IF m.refused THEN m
  ELSE IF id \in m.sources THEN Refuse(m) ELSE [m EXCEPT !.sources = @ \cup {id}]

removeSource(m, id) ==
  IF m.refused THEN m
  ELSE IF \/ id \notin m.sources \/ m.terrain = id
          \/ \E i \in DOMAIN m.layers : m.layers[i].source = id
  THEN Refuse(m) ELSE [m EXCEPT !.sources = @ \ {id}]

HasLayer(m, id) == \E i \in DOMAIN m.layers : m.layers[i].id = id

(* Where the layer named is: no two have one id.                           *)
PlaceOf(layers, id) == CHOOSE i \in DOMAIN layers : layers[i].id = id

(* Below the layer named, or on top when none is.                          *)
Placed(layers, layer, before) ==
  IF before = << >> THEN Append(layers, layer)
  ELSE LET at == PlaceOf(layers, before)
       IN [i \in 1..Len(layers) + 1 |->
             IF i < at THEN layers[i] ELSE IF i = at THEN layer ELSE layers[i - 1]]

Without(layers, id) ==
  LET at == PlaceOf(layers, id)
  IN [i \in 1..Len(layers) - 1 |-> IF i < at THEN layers[i] ELSE layers[i + 1]]

addLayer(m, layer, before) ==
  IF m.refused THEN m
  ELSE IF \/ HasLayer(m, layer.id) \/ layer.source \notin m.sources
          \/ before # << >> /\ ~HasLayer(m, before)
  THEN Refuse(m) ELSE [m EXCEPT !.layers = Placed(@, layer, before)]

removeLayer(m, id) ==
  IF m.refused THEN m
  ELSE IF ~HasLayer(m, id) THEN Refuse(m)
  ELSE [m EXCEPT !.layers = Without(@, id)]

setTerrain(m, terrain) ==
  IF m.refused THEN m
  ELSE IF terrain # NoTerrainAsked /\ terrain \notin m.sources THEN Refuse(m)
  ELSE [m EXCEPT !.terrain = terrain]

-----------------------------------------------------------------------------
(* The steps of reconcile, in its order.                                   *)

ReleaseTerrain(m) == setTerrain(m, NoTerrainAsked)

(* The engine's own, once each; a layer that is there but not ours is      *)
(* refused by the controller itself.                                       *)
OwnSource(m, id) ==
  IF m.refused \/ id \in m.ours THEN m
  ELSE LET added == addSource(m, id)
       IN IF added.refused THEN added ELSE [added EXCEPT !.ours = @ \cup {id}]

OwnLayer(m, layer) ==
  IF m.refused \/ layer.id \in m.ours THEN m
  ELSE LET added == addLayer(m, layer, << >>)
       IN IF added.refused THEN added ELSE [added EXCEPT !.ours = @ \cup {layer.id}]

(* A loop over the renderer: each call finds what the one before it left.  *)
Do(m, call) ==
  CASE call.op = "own source" -> OwnSource(m, call.of)
    [] call.op = "own layer" -> OwnLayer(m, call.of)
    [] call.op = "remove layer" -> removeLayer(m, call.of.id)
    [] call.op = "remove source" -> removeSource(m, call.of.id)
    [] call.op = "add layer" -> addLayer(m, call.of, EngineAnchor)

ForEach(m, op, list) ==
  LET after[i \in 0..Len(list)] ==
        IF i = 0 THEN m ELSE Do(after[i - 1], [op |-> op, of |-> list[i]])
  IN after[Len(list)]

installEngineState(m) ==
  ForEach(ForEach(m, "own source", EngineSources), "own layer", EngineLayers)

(* Every layer goes before any source does.                                *)
Uninstall(m) ==
  LET bare == ForEach(m, "remove layer", LayersOf(m.installed))
      done == ForEach(bare, "remove source", m.installed)
  IN IF done.refused THEN done ELSE [done EXCEPT !.installed = << >>]

(* An entry counts as installed when the last of its layers is.            *)
InstallEntry(m, entry) ==
  LET shown == ForEach(addSource(m, entry.id), "add layer", entry.layers)
  IN IF shown.refused THEN shown ELSE [shown EXCEPT !.installed = Append(@, entry)]

Install(m, built) ==
  LET after[i \in 0..Len(built)] == IF i = 0 THEN m ELSE InstallEntry(after[i - 1], built[i])
  IN after[Len(built)]

applyTerrain(m, terrain) == setTerrain(m, terrain)

(* Mutated: terrain is still on the source the stack gives up.             *)
ReconcileOverTerrain(m, stack, terrain) ==
  applyTerrain(Install(Uninstall(installEngineState(m)), buildTileSources(stack)), terrain)

reconcile(m, stack, terrain) ==
  applyTerrain(Install(Uninstall(installEngineState(ReleaseTerrain(m))), buildTileSources(stack)),
               terrain)

-----------------------------------------------------------------------------
Listed(list) == list \in Seq({list[i] : i \in DOMAIN list})

(* Ids are not empty, and a layer of a style is of one of its sources, or  *)
(* a background, which is of none.  The engine's names have its prefix.    *)
ASSUME TileStackAssumption ==
  /\ \A stack \in Stacks :
       /\ Listed(stack)
       /\ \A i \in DOMAIN stack :
            /\ Listed(stack[i].id) /\ stack[i].id # << >> /\ stack[i].id # NoTerrainAsked
            /\ stack[i].kind \in {"raster", "vector", "raster-dem"}
            /\ Listed(stack[i].styleLayers)
            /\ \A j \in DOMAIN stack[i].styleLayers : Listed(stack[i].styleLayers[j].id)
  /\ \A base \in BaseStyles :
       /\ Listed(base.layers)
       /\ \A i \in DOMAIN base.layers : base.layers[i].source \in base.sources \cup {<< >>}
       /\ \A i, j \in DOMAIN base.layers : base.layers[i].id = base.layers[j].id => i = j
  /\ isEngineId(TrackSource) /\ isEngineId(DraftSource)
  /\ \A i \in DOMAIN EngineLayers : isEngineId(EngineLayers[i].id)

NoView == [sources |-> {}, layers |-> << >>, terrain |-> NoTerrainAsked,
           ours |-> {}, installed |-> << >>, refused |-> FALSE]

NoStyle == [document |-> TRUE, sources |-> {}, layers |-> << >>, terrain |-> NoTerrainAsked]

StackInit ==
  /\ phase = "none" /\ style = NoStyle /\ view = NoView
  /\ asked = [stack |-> << >>, terrain |-> NoTerrainAsked]
  /\ refusal = << >> /\ protocols = 0

(* Each call finds the map as the last one left it.                        *)
Shows(m) ==
  /\ view' = m
  /\ refusal' = IF m.refused /\ refusal = << >> THEN <<asked'.stack>> ELSE refusal

Afresh(m) == [m EXCEPT !.refused = FALSE]

(* createMapController: refused whole before there is a map.               *)
CreateStack(base, stack, terrain) ==
  /\ phase = "none"
  /\ assertStyleLeavesTheNamespaceAlone(base)
  /\ Accepts(stack) /\ AcceptsTerrain(terrain, stack)
  /\ phase' = "waiting" /\ style' = base
  /\ asked' = [stack |-> stack, terrain |-> terrain]
  /\ view' = [NoView EXCEPT !.sources = base.sources, !.layers = base.layers,
                            !.terrain = base.terrain]
  /\ UNCHANGED <<refusal, protocols>>

StackLoads ==
  /\ phase = "waiting" /\ phase' = "loaded"
  /\ UNCHANGED <<style, asked>>
  /\ Shows(reconcile(view, asked.stack, asked.terrain))
  /\ protocols' = IF usesPmtiles(asked.stack) THEN Registered(protocols) ELSE protocols

(* A stack is refused at the call, and so is one that orphans the terrain. *)
SetStack(stack) ==
  /\ phase \in {"waiting", "loaded"}
  /\ Accepts(stack) /\ AcceptsTerrain(asked.terrain, stack)
  /\ asked' = [asked EXCEPT !.stack = stack]
  /\ IF phase = "loaded"
     THEN /\ Shows(reconcile(Afresh(view), stack, asked.terrain))
          /\ protocols' = IF usesPmtiles(stack) THEN Registered(protocols) ELSE protocols
     ELSE UNCHANGED <<view, refusal, protocols>>
  /\ UNCHANGED <<phase, style>>

SetStackTerrain(terrain) ==
  /\ phase \in {"waiting", "loaded"}
  /\ AcceptsTerrain(terrain, asked.stack)
  /\ asked' = [asked EXCEPT !.terrain = terrain]
  /\ IF phase = "loaded" THEN Shows(applyTerrain(Afresh(view), terrain))
     ELSE UNCHANGED <<view, refusal>>
  /\ UNCHANGED <<phase, style, protocols>>

(* The map goes with its controller; the realm's protocol does not.        *)
DestroyStack ==
  /\ phase # "none" /\ phase' = "none"
  /\ style' = NoStyle /\ view' = NoView /\ refusal' = << >>
  /\ asked' = [stack |-> << >>, terrain |-> NoTerrainAsked]
  /\ UNCHANGED protocols

(* pmtilesArchiveRegistrar: an offline reader asks before any source does. *)
AskRegistrar ==
  /\ protocols' = Registered(protocols)
  /\ UNCHANGED <<phase, style, asked, view, refusal>>

Terrains == {NoTerrainAsked} \cup (UNION {SourceIdsOf(stack) : stack \in Stacks})

StackNext ==
  \/ \E base \in BaseStyles, stack \in Stacks, t \in Terrains : CreateStack(base, stack, t)
  \/ StackLoads
  \/ \E stack \in Stacks : SetStack(stack)
  \/ \E t \in Terrains : SetStackTerrain(t)
  \/ DestroyStack
  \/ AskRegistrar

StackSpec == StackInit /\ [][StackNext]_stackVars

-----------------------------------------------------------------------------
LayerIds(layers) == {layers[i].id : i \in DOMAIN layers}

(* The style and the controller both name one of these.                    *)
Collides(base, stack) ==
  \/ base.sources \cap (SourceIdsOf(stack) \cup {EngineSources[i] : i \in DOMAIN EngineSources}) # {}
  \/ LayerIds(base.layers)
       \cap (LayerIds(EngineLayers) \cup LayerIds(LayersOf(buildTileSources(stack)))) # {}

(* Through every replacement, before and after the style loads, the map    *)
(* shows the style, over it exactly the stack last accepted in its         *)
(* declared order, and on top of both the engine's layers, with the        *)
(* terrain last accepted, and a stack that reads archives has its          *)
(* protocol, made once.  The renderer refuses none of it, unless the base  *)
(* style brought an id of that stack or of the engine.                     *)
StackIsDrawn ==
  /\ phase = "loaded" =>
       IF refusal # << >> THEN Collides(style, refusal[1])
       ELSE LET built == buildTileSources(asked.stack)
            IN /\ view.layers = style.layers \o LayersOf(built) \o EngineLayers
               /\ view.sources = style.sources \cup SourceIdsOf(asked.stack)
                                   \cup {TrackSource, DraftSource}
               /\ view.terrain = asked.terrain
               /\ usesPmtiles(asked.stack) => protocols = 1
  /\ protocols <= 1
=============================================================================
