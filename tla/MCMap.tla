-------------------------------- MODULE MCMap --------------------------------
(***************************************************************************)
(* The map's component with its controller, a host that edits a draft on   *)
(* the map, the keyboard layer of draw mode, the controller's stack of     *)
(* sources in the renderer, and the marks it draws, checked side by side:  *)
(* a behaviour is of one of them, and the others stay at rest.  Drafts     *)
(* start empty, or from a track of two segments of one point each with a   *)
(* lap over the second.                                                    *)
(***************************************************************************)
EXTENDS MapDrawing, MapCanvas, TileStack, MapMarks, DrawKeyboard, TLC

CONSTANTS v1, v2, v3

VARIABLE part

mapVars == <<part, vars, canvasVars, stackVars, markVars, keyboard>>

MCVertexNames == {v1, v2, v3}

MCSeeds ==
  {Blank}
    \cup {Seeded(<<[startIndex |-> 1, endIndex |-> 1], [startIndex |-> 2, endIndex |-> 2]>>,
                 <<[id |-> 1, startIndex |-> 2, endIndex |-> 2]>>, pair) :
            pair \in {p \in MCVertexNames \X MCVertexNames : p[1] # p[2]}}

(* Sources: imagery, a vector archive with a layer it names and one it does  *)
(* not, elevation that is drawn or only stands under the map, two whose    *)
(* layers meet, and some the translation refuses.                          *)
Source(id, kind, transport, layers) ==
  [id |-> id, kind |-> kind, role |-> "default", transport |-> transport, url |-> "plain",
   attributed |-> TRUE, styleLayers |-> layers]

NamedLayer(id) == [id |-> id, typed |-> TRUE]

Imagery == Source(<<"a">>, "raster", "template", << >>)
Archive == Source(<<"b">>, "vector", "pmtiles", <<NamedLayer(<<"lines">>), NamedLayer(<< >>)>>)
Hills == [Source(<<"dem">>, "raster-dem", "tilejson", <<NamedLayer(<<"shade">>)>>)
            EXCEPT !.role = "hillshade"]
Under == [Hills EXCEPT !.role = "terrain"]
Meets == Source(<<"a", "x">>, "vector", "template", <<NamedLayer(<<"y">>)>>)
Met == Source(<<"a">>, "vector", "template", <<NamedLayer(<<"x", "y">>)>>)
Wms == Source(<<"w">>, "raster", "wms", << >>)

MCStacks ==
  { << >>, <<Imagery>>, <<Archive, Imagery>>, <<Imagery, Hills>>, <<Under, Archive>>, <<Met>>,
    <<Meets, Met>>, <<Wms>>, <<[Wms EXCEPT !.url = "bbox"], Meets>>,
    <<[Imagery EXCEPT !.id = TrackSource]>>, <<[Imagery EXCEPT !.attributed = FALSE]>> }

BaseStyle(document, id, layer) ==
  [document |-> document, sources |-> {id}, layers |-> <<[id |-> layer, source |-> id]>>,
   terrain |-> NoTerrainAsked]

MCBaseStyles ==
  { NoStyle, BaseStyle(TRUE, <<"land">>, <<"land">>),
    [BaseStyle(TRUE, <<"land">>, <<"land">>) EXCEPT !.terrain = <<"land">>],
    BaseStyle(TRUE, TrackSource, <<"land">>), BaseStyle(FALSE, <<"land">>, EngineAnchor),
    BaseStyle(TRUE, <<"a">>, <<"land">>), BaseStyle(FALSE, <<"land">>, <<"a", "raster">>) }

MCReserved == {"mapatlas:track", "mapatlas:draft", "mapatlas:track-line",
               "mapatlas:track-line-dashed", "mapatlas:draft-line", "mapatlas:draft-vertex"}

(* Two tracks, one of them with a lap more, and then with that lap first;  *)
(* styles that differ in anchor and classes, and one that may not be.      *)
Track1 == [id |-> "t", from |-> "p", to |-> "q", laps |-> <<[id |-> "l1", at |-> "p"]>>]

MCTracks ==
  {Track1, [Track1 EXCEPT !.laps = <<[id |-> "l2", at |-> "q"], [id |-> "l1", at |-> "q"]>>],
   [Track1 EXCEPT !.id = "u", !.laps = << >>]}

MCEventLists ==
  {<< >>, <<[id |-> "e1", at |-> "p"]>>, <<[id |-> "e2", at |-> "p"], [id |-> "e1", at |-> "q"]>>}

MarkerStyle(anchor, classes) == [anchor |-> anchor, classes |-> classes, says |-> "named"]

MCPresentations ==
  {[Plain EXCEPT !.marker = MarkerStyle("bottom", {"red"}), !.trackLine = "dashed"],
   [Plain EXCEPT !.marker = MarkerStyle("center", {"red", "mapatlas-mark"}), !.start = Suppressed,
                 !.lap = MarkerStyle("center", {"red"})],
   [Plain EXCEPT !.lap = Thrown, !.marker = MarkerStyle("bottom", {})],
   [Plain EXCEPT !.marker = MarkerStyle("bottom", {RendererClass})]}

VertexSymmetry == Permutations(MCVertexNames)

DrawingRests == current = Blank /\ pan = "enabled"
CanvasRests ==
  /\ mounted = FALSE /\ due = FALSE
  /\ props = [style |-> 1, picture |-> EmptyMap, present |-> {}]
  /\ ran = [style |-> 0, present |-> {}]
  /\ sessions = << >> /\ sessionRef = 0 /\ held = [i \in Interactions |-> 0]

StackRests == StackInit

MarksRest == MarksInit /\ requested.presentation = Plain

(* Every part at rest but one.                                             *)
Rest(others) ==
  /\ "drawing" \in others => Init /\ DrawingRests
  /\ "canvas" \in others => CanvasRests
  /\ "stack" \in others => StackRests
  /\ "marks" \in others => MarksRest
  /\ "keyboard" \in others => KeyboardInit

Parts == {"drawing", "canvas", "stack", "marks", "keyboard"}

MapInit ==
  /\ part \in Parts
  /\ Rest(Parts \ {part})
  /\ \/ part = "drawing" /\ Init
     \/ part = "canvas" /\ CanvasInit
     \/ part = "stack" /\ StackInit
     \/ part = "marks" /\ MarksInit
     \/ part = "keyboard" /\ KeyboardInit

MapNext ==
  /\ UNCHANGED part
  /\ \/ part = "drawing" /\ Next /\ UNCHANGED <<canvasVars, stackVars, markVars, keyboard>>
     \/ part = "canvas" /\ CanvasNext /\ UNCHANGED <<vars, stackVars, markVars, keyboard>>
     \/ part = "stack" /\ StackNext /\ UNCHANGED <<vars, canvasVars, markVars, keyboard>>
     \/ part = "marks" /\ MarksNext /\ UNCHANGED <<vars, canvasVars, stackVars, keyboard>>
     \/ part = "keyboard" /\ KeyboardNext
          /\ UNCHANGED <<vars, canvasVars, stackVars, markVars>>

MapSpec == MapInit /\ [][MapNext]_mapVars

-----------------------------------------------------------------------------
(* Properties.                                                             *)

(* What the controller put into the renderer and the page is what it was   *)
(* last asked for, whatever styles, renders and refusals came between: the *)
(* stack of sources with its terrain, and the marks with their lines.      *)
MapHoldsWhatWasAsked == StackIsDrawn /\ MarksAreAsked

(* Whoever works on the map by keyboard keeps the focus through every      *)
(* render: on a mark that is still drawn, and on a vertex of the draft.    *)
FocusKept == FocusStays /\ KeyboardKeepsItsPlace
=============================================================================
