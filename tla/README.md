# MapAtlas: formal models

MapAtlas is a TypeScript engine for trips on a map: it records a track from the
device's position and sensors, keeps it in IndexedDB through crashes, pins
events with photos to it, lets a person draw or edit one, and shows it over
maps that may be downloaded for offline use. This directory holds TLA+ modules
that model it, the TLC configurations that check them on small instances, and
TLAPS proofs of what matters most for every instance.

Paths below are relative to `packages/` unless they begin with another
directory of the repository. `PROJECT.json` lists the components, the runs, the
mutants that show each property can fail, the lines every definition models,
the hazards and the theorems.

## 1. Inventory

| part | state it keeps | operations | what is hard |
|---|---|---|---|
| **web recorder** `recorder-web/src/recorder.ts` | points, segments, laps, status, the open segment, watch / wake lock / sensors, a single-slot save queue, the state of `stop()` | start, pause, resume, markLap, stop (and stop again), fixes, samples, autosave timer | late platform callbacks, late answers of wake lock and sensors, writes racing the final save, failure of any save, throwing listeners, a crash anywhere, clocks that go back |
| **track model** `core/src/track.ts`, `validate.ts`, `finalize.ts` | – | geometry assertions, finalization | a track the recorder made must never be refused, neither at stop nor at resume |
| **recovery** `core/src/recovery.ts` | – | find the interrupted track | two reads with anything in between |
| **storage** `storage-idb/src/storage-adapter.ts`, `schema.ts`; reference `core/src/testing/memory-storage.ts` | tracks, summaries, events, blobs | save, delete with cascade, blobs, clear | a projection stored beside what it projects, counts across interleaved writes, shared blobs, aborts |
| **event log** `core/src/event-log.ts` | – | add, update, list, remove | update is a read and a write |
| **map assets / offline regions** `storage-idb/src/map-asset-store.ts`, `offline-pmtiles/src/*`; `maplibre/src/protocols/pmtiles.ts` | archives and manifests; archives installed with the renderer | download, list, delete; licence check, source resolution; install and serve | partial download and rollback, two records per region, overlapping downloads and deletes, which archive answers when regions overlap |
| **recorder hook** `react/src/use-track-recorder.ts` | the held recorder, its subscription, the recovered candidate, status | start, stop, pause, resume, resumeRecovered, discardRecovered | answers after unmount, recorders that outlive the component, scans that see the live recording |
| **list hooks** `react/src/use-track-list.ts`, `use-event-log.ts`, `use-offline-regions.ts` | the list on display | refresh, mutate then reload | an answer for the previous store, filter or request |
| **event composer** `react/src/event-composer.ts` | the form, the stored photo, analysis, disclosure | choose and remove a photo, analyse, accept or decline disclosure, fill in fields, save, cancel | blob ownership across save / cancel / unmount, late analyses, consent before upload, what an untouched or emptied field saves |
| **draft** `core/src/draft.ts`, `react/src/use-track-draft.ts` | vertices, breaks, undo and redo; the id a draft is saved under | edits, break, interpolate, promote to a track, save | index shifts of breaks and laps, history limit, a second save before the first is answered |
| **map controller** `maplibre/src/controller/controller.ts`, `draw-mode.ts`, `engine-layers.ts`; `react/src/map-canvas.ts` | sources and layers wanted and installed, marks, draw session, drag, focus | setters, style load, draw events, keys, destroy | style reloads, ids the base style already uses, one draw session, giving the pan back, focus through renders, effects that hold a controller already replaced |
| **builders and marks** `maplibre/src/builders/*`, `marks/*` | – | translate a source, a track, a mark | refusals half way, classes that are not the engine's |
| **trip review** `react/src/trip-review.ts`, `core/src/position-at.ts` | replay clock, resolved photos and their object URLs | play, pause, seek, change of track, store or keys | late frames, times between segments, URLs revoked while on show or never |
| **polling sensor** `core/src/sensors-polling.ts` | timer, session | start, stop, poll | a poll in flight over stop and restart |
| **portability** `core/src/portability.ts` | – | export, import | parallel arrays, references remapped, all or nothing |
| **pure data** `core/src/sampling.ts`, `sensors-merge.ts`, `stats.ts`, `simplify.ts`, `ids.ts` | (ids: last time and random part) | – | ties, boundaries, missing readings, a clock set back |
| **demo** `apps/demo/src/app/*`, `persistence.ts` | the trip loop, the drawing flow, the offline panel, the persistence control | record, draw, pin and save events, finish, review, download, delete, start up | async handlers over several renders, two flows at once, statuses that outlive what they were read from |

How they interact: the hook builds recorders and offers what `recovery` finds;
a recorder calls `saveTrack` of a storage adapter and receives position,
sensor and wake lock callbacks; the composer stores blobs and hands events to
the event log, which calls the adapter; the map controller and the trip review
read tracks; offline regions keep their bytes in a store of their own, and the
renderer's protocol reads them back. Two pages of one origin share the database
and nothing else. The demo wires all of it together.

What makes each part correct:

* recorder – the stored record only grows into a continuation of itself, a
  finished trip is never overwritten, a save reported successful is never lost;
  what a crash leaves can be resumed; a resolved `stop()` has stored its track;
  nothing is held of the platform once idle; no fix or sample crosses a pause;
* storage – every operation is atomic, the list agrees with the records, a
  cascade takes exactly its own;
* event log – an update replaces an event that is there;
* recorder hook – no subscription is lost track of, the live recorder held is
  heard, the newest scan wins, a candidate goes only when it was resumed, deleted
  or found to be gone, and nobody's live recording is offered;
* list hooks – at rest the screen shows what the rendered context holds;
* composer – one write at a time, a stored photo is handed over once, to the
  consumer whose store holds it, or deleted; an analysis is of the photo on
  show; nothing leaves the device by a disclosure that was not accepted for it;
  what a field is left with is what is saved, and a required one is asked for;
* offline regions – a listed region is complete, bytes no list shows belong to
  work under way or to a cleanup that failed, the screen agrees with the
  store once everything has settled, only licensed sources are downloaded, and a
  url is answered by the newest archive that has it;
* draft – whatever edits led to it, promotion can refuse a draft only for its
  times, no edit moves a vertex into another segment or lap, interpolated times
  make a valid track, and the saves of one drawing are one trip;
* map controller and canvas – one controller is alive and shows what the last
  render asked for, in the renderer as in its own books; draw mode and listeners
  are active while their props are; the keyboard's focus survives a render;
* draw mode – the pan always comes back, and a press on a vertex never adds one;
* review – frames are asked for while the replay plays and only then, and an
  object URL lives exactly as long as its photo is asked for;
* demo – an event reported saved ends up on its trip, a review shows its own
  trip's events, a recording always has an exit, and a status is true.

## 2. What is modelled

JavaScript runs a handler up to its first `await` without interruption, so one
action is one such run: a call, a platform callback, or the continuation of an
answered promise. Where the code awaits, the model has two actions and anything
may come between them. Indices are 1-based (0-based in the code).

Modules of parts that do not touch each other are checked in one run: `MCReact`,
`MCMap`, `MCStores` and `MCAlgorithms` pick one part in their initial states,
run that part's next-state relation, and leave the others at rest. Their state
space is the sum of the parts', not the product, and a property of a part is
judged on that part's behaviours only.

### The recorder: `TrackData`, `SaveQueue`, `WatchSession`, `Recorder`

* `TrackData` – a track as points, segments and laps; the assertions of
  `validate.ts`, `finalizeTrack`, the recovery filter; and `Extends`, "this
  picture continues that one". A point keeps its time, a ghost naming the watch
  that saw it and the samples merged into it; coordinates are left out.
* `SaveQueue` – `enqueueSave`'s single slot and its loop, `drainWrites`, the
  final save and its retry, and the store's answers. `writer` is
  `writeInFlight`: undefined, pending, or a rejected promise nobody clears
  (what a throwing `onError` listener leaves). Two writes handed over together
  may land in either order.
* `WatchSession` – generation counter, position watch, wake lock requests and
  leases, sensor starts that resolve late, the browser dropping a lock.
* `Recorder` – puts them together with the recording: `Create` (fresh or
  resumed), `Start`, `Pause`, `Resume`, `MarkLap`, `Stop`, `StopAgain`,
  `SaveFinished` / `StopRejected` (the tail of stop), `FixKept`,
  `SensorSample`, `Tick` (the autosave timer), `Crash`. Whether sampling keeps a
  fix is left open here: a dropped fix changes nothing. A crash decides for each
  write handed to the store whether it lands.
* `DurableTrip` – the abstract specification: a stored record that only grows
  and a promise that what was reported stored stays.

### Storage: `StorageData`, `MemoryStorage`, `IdbStorage`, `EventLog`

* `StorageData` – tables as sets of rows with an id; of a track its status, of
  an event its owner and blobs; `SummariesOf` is the list computed afresh.
* `MemoryStorage` – the in-memory reference adapter: each operation one step.
  It is the abstract specification.
* `IdbStorage` – the IndexedDB adapter with several callers. IndexedDB runs two
  readwrite transactions at once only when their scopes are disjoint, and hides
  and undoes uncommitted writes; a transaction is therefore `Begin` (with the
  reads it starts with), then its commit, or `Abort`. `Scope` is what each
  operation opens. The abort stands for a failed request, an exhausted quota, a
  failed open, and a page that dies. The order in which waiting transactions
  start is left open (IndexedDB fixes it; nothing here depends on it).
* `EventLog` – `add`, `remove`, and `update` as its two calls.

### Offline regions: `RegionStore`, `UseOfflineRegions`, `OfflineArchives`

* `RegionStore` – a region is one archive per source and one manifest in an
  asset store that has no transactions across keys. A call is a record that says
  which of its awaited operations is next (`at`) and what it still has to do
  (`todo`): a download puts archives and then the manifest and sweeps its
  archives when anything fails; a delete sweeps and then removes the manifest; a
  list reads the keys and then the manifests, one by one. Every operation may
  fail and the page may be reloaded between any two. A fetch changes nothing
  and is one step with the put of its bytes.
* `UseOfflineRegions` – the hook over it: `contextRef` and `issuedRef`, the
  effect that runs after a render with another store, `download` and `remove`
  that list again once they landed, unless the context has changed meanwhile,
  and answers that are dropped unless they are the newest. The second store is
  there to be swapped in and holds nothing.
* `OfflineArchives` – functions: the licence predicate and the refusals of
  `download` that precede its first write, the estimate, which archives a region
  is made of, how they are installed under their sources' urls, and which
  archive the registered protocol reads a url from. Source ids are distinct.

### React bindings

* `TrackRecorderHook` – mounts, unmounts, the effect running again (StrictMode,
  a new store identity), page reloads, scans with their two reads and their
  rejections, recorders reduced to their status and trip, commands with their
  continuations and failures; a deletion lands, or does not, before it is
  answered. A continuation of an unmounted instance finds refs and state nobody
  reads. A recorder survives the component, as in the code. A ghost, `offeredBy`,
  tells which scan put the candidate up, and every command on it remembers that.
* `ListHook` – `use-track-list` and `use-event-log`: a context, the effect that
  lists a new one, refreshes, and changes followed by a list unless the context
  has moved on. What a context holds is the number of changes it has seen.
* `TrackDraftHook` – the draft rebuilt when the id it edits changes, the id
  adopted before the save is awaited, and saves from callbacks of any render, at
  any moment: before the first effect of a new draft has run too. React runs the
  effects of one render before it renders again.
* `EventComposer` – a React form is three things at once: refs, which change
  when they are assigned (`outcome`, `writing`, `attempt`, `authorized`, and
  `analyzeSeq` as `awaited`, the one request whose token is the newest); the
  state updates queued so far (`state`); and the committed render whose closures
  the user's clicks run (`view`, which holds the state, the consumer and the
  analyzer it was rendered with). `Commit` copies `state` to `view`. React
  commits what a click queued before it dispatches the next one (`handled`),
  except that one task may activate the disclosure's Accept twice, which is what
  the code's single-use authorization is there for; what an answer or an effect
  queued may wait. `ParentRenders` gives the form another store with its
  callbacks, or another analyzer, whose effect (`AnalyzerEffect`) runs after the
  commit. `Save` runs up to the awaited `putBlob`, whose answer is `WriteFails`
  or `WriteLands`; a blob nobody wants any more is deleted (`CleanupAnswers`).
  Each write remembers its consumer, its photo and the photo of the analysis it
  carried, each analysis the disclosure it was sent under.
* `EventForm` – functions: the control a field spec gets, what a save reads of
  it, and when a required field blocks. The values a select offers are distinct.
* `ReviewPhotos` – `useResolvedBlobs`: an effect per render starts a loop that
  reads the keys one after the other, keeps what it may of the previous
  answers, and revokes the rest; store and keys may be replaced at any await,
  and the review unmounted.
* `TripReplay` – `useReplay` while it is mounted: what handlers, frames and effects set is pending
  until React commits it, effects run some time after a commit, and a frame asked
  for may fire before or after either. `Date.now` does not go back.

### The map: `MapCanvas`, `TileStack`, `MapMarks`

* `MapCanvas`, first half – a controller as a record and its operations on it:
  sources and terrain wanted, the picture prepared, what the map holds before
  and after its style has loaded (`ApplyTerrain`, `ApplyRender`, `OnLoad`),
  listeners and the draw session, destruction. Tracks, events, draft, live
  position and their markers are one drawing: each is prepared and reconciled
  the same way.
* `MapCanvas`, second half – the component around it. A render gives new props; React then
  runs the effects of that render, cleanups first, in one task, some time later
  and before it renders again. `held` is what the cleanups of the last run closed over
  (the session they saw), `ran` what the effects last ran for, against which
  React compares the dependencies. `EffectsRecreate` is a run in which the
  construction effect takes part, `EffectsReconcile` one in which it does not,
  `EffectsThrow` one that a refused setter interrupts: the error unmounts the
  tree. `StrictEffects` runs every cleanup and every effect a second time.
* `TileStack` – what becomes of a stack of sources in the renderer: translation
  with its refusals (`tile-source.ts`), ids made of the source's and the layer's,
  the teardown of what the last stack installed, terrain, a style that arrives
  late with sources and layers of its own, and the engine's layers above it all.
  The renderer is the repository's own `fake-map.ts`, which refuses what MapLibre
  refuses: an id twice, the removal of a source in use, a layer without one.
* `MapMarks` – the lines, ends, laps and event marks drawn of a track, the
  consumer's presentation (a style, nothing, absent, or a throw), the classes a
  mark carries and gives back, reuse of elements by id, and focus. Clicks are left
  out: they change nothing here. Ids of events and of laps are unique.

### Drawing: `Draft`, `DrawKeyboard`, `MapDrawing`

* `Draft` – vertices, the breaks and laps that index them, every edit and the
  bounded history. A vertex is a name; `moveAt`, `setTimeAt` and
  `interpolateTimes` move no index and are one action; what times the latter
  makes is in `TrackMaking`.
* `DrawKeyboard` – the layer of focusable elements over the vertices: the tab
  stop, focus and blur, grab, nudge and escape, and what a render makes of them,
  one that comes from within the handler of a move included. A vertex is grabbed
  by its keys; a click of an assistive technology is not modelled, and what a
  vertex is removed by is the host's render.
* `MapDrawing` – a session of draw mode: the gesture, the pan it borrows, and
  what a press, a move, a release (which the document reports), a cancellation
  and a click make of them. `click` is the renderer's rule: a click follows the
  only press there was, once released, unless the touch was taken away. And the
  host: draw-mode handlers that edit the draft (a move is `moveAt`, which throws
  for an index that has gone; a vertex click may remove), other controls that
  edit it at any time, and a render into the map some time after. `painted` is
  how many vertices the map shows, from which hit tests answer.

### Algorithms and data

* `Sequencing` – the filters, sorts and sums of the code, told by the places of a
  sequence: what a filter keeps are the members at a set of places, in order; a
  sort lines a set up along an order; a sum has a value after every place.
* `Statistics` – the loops of `elevationChange` and `simplify`,
  one iteration a step, so that runs of any length can be proved about. A
  distance from a line is any number.
* `TrackQueries` – functions on a track that lies on a line: `positionAt`,
  statistics and lap metrics, the lines and ends the map is given, the charts and
  durations of the review, with places as fractions.
* `TrackMaking` – what a track is made of: the sampling decision, the merge of
  sensor samples at a point, the channels a recorder declares, and of a draft
  `interpolateTimes`, and `toTrack` with its refusals.
* `Portability` – `exportTrip` and `importTrip` with every refusal but
  that of an event without a position: parallel arrays, segments and laps by index,
  events and their media.
* `PollingSensor` – the timer, the one read in flight as its chain of promises,
  failing reads and listeners, stop and start between any two; a listener that
  calls `stop()` from within its call is left out.
* `IdFactory` – ids as pairs of a time and a random part, over a clock that is
  set forward and back and beyond what an id can hold. The random source answers.

`MCAlgorithms` puts one question to a function in each of these states: every
small track, draft, stream, document or form is an initial state, and the
properties judge the answer against a definition of its own (that a position
lies where the points around it say, that laps add up, that what was exported
comes back).

### The demo: `DemoLoop`, `DemoPanels`

* `DemoLoop` – `loop.tsx` with the drawing flow of `authoring.tsx`: handlers with
  the render whose ids, lists and context they closed over, the guards on every
  control, the event log's list that may lag its context. A call of the recorder,
  the draft, the composer or the log succeeds or fails. One start at a time; other
  tabs and callbacks kept from earlier renders by a caller are left out.
* `DemoPanels` – the startup of `app.tsx`, the offline panel and the persistence
  control: what is stored, installed and shown, each read at another moment.

## 3. Runs

| run | instance | shows |
|---|---|---|
| `recorder_durability` | 2 sessions, 2 instants, 2 points, 1 lap, 2 generations, failing store, throwing listener, with fairness | one write in flight; whatever a crash leaves can be resumed; a resolved stop has stored; the record only grows (`DurableTripSpec`); `stop()` settles; the picture of a pause reaches the store or the error listeners without the timer, in a queue that is not poisoned |
| `recorder_session` | 1 session, 3 generations, wake lock, 1 sensor, 2 points, 2 samples, no store | no late callback or sample crosses a pause, nothing is held when idle, a late start never stops a sensor in use |
| `recorder_poisoned` | 1 session | **violation**: a throwing listener strands the queue |
| `stores` (`MCStores`) | 2 callers, 4 calls, 2 tracks, 2 events, 1 blob; 2 sources, 2 downloads, 1 removal, 1 swap of the store, any number of reloads | summaries agree, a cascade is exact, the adapter refines `MemoryStorage`; listed regions are whole, no archive is invisible, regions change in order, the screen is fresh |
| `event_log_race` | the same storage | **violation**: an update inserts |
| `react` (`MCReact`) | 2 recorders, scans, mounts, a deletion under way; 2 photos, a local and a remote analyzer, 2 writes, requests, disclosures, consumers; 2 photo stores and keys, 2 renders, 3 URLs; 3 drafts, 4 saves; 2 contexts, 1 change, 4 lists | the hook lets go of what it leaves, hears what it holds, and keeps its candidate; the composer hands over and sends as agreed and follows its work; photos are current and their URLs revoked; a drawing is one trip; a list is fresh |
| `recorder_hook_remount` | 1 recorder | **violation**: the live recording is offered as recovered |
| `map` (`MCMap`) | 3 vertices, 2 breaks, 1 snapshot of history, 2 draw sessions, 2 pointers; 3 controllers, 2 elevation sources, a drawing, a tap listener, draw mode; 11 stacks over 7 base styles; 3 tracks, 3 event lists, 5 presentations; a keyboard layer of 3 vertices | a draft stays promotable for all but its times, no edit mixes spans, the pan is given back, a press on a vertex never adds; the canvas follows its props; the renderer and the page hold what was asked; focus is kept |
| `map_canvas_restyled` | 1 source, 2 controllers | **violation**: draw mode outlives its props after a style change |
| `algorithms` (`MCAlgorithms`) | five altitudes out of 0..4 with a deadband of 2; five points and any distances of 0 or 2 with a tolerance of 1; 3 starts and 4 stops of a polled source; 3 instants and 3 random parts; 4 tracks and 3 touches of a replay; every small track, document, form, region; a recording, a drawing, an event and an opening in the demo with 2 handlers under way; 2 regions and 2 startups | climb and descent are honest, simplification keeps its tolerance, samples are of their session, ids sort, frames come while playing, what a track tells, how it is made and what travels is right, the demo keeps its events and its panels tell the truth; both clocks go on |
| `replay_replaced` | the same | **violation**: a replaced track leaves the cursor outside it |
| `demo_no_exit` | 1 recording, 1 event, 1 opening | **violation**: a recording without a control that ends it |

**Why the bounds are enough.** *Recorder*: an autosave, a final save and one
picture waiting are all the queue can hold, and two points with one lap give a
segment closed by a pause or cut by a crash beside an open one; two sessions
give one resumption, and a third meets the same kind of stored record (the
safety properties are also proved, for any bounds). Three
generations let an answer of the first meet the third while the second is
current. Two instants give a step forward, a tie and a step back. *Storage*: a
race needs two open transactions, and the longest scenario of interest (a blob
shared by events of two tracks, one of which is deleted) takes four calls.
*Regions*: two downloads overlap with a list and a removal of the first, each
with a partial result because there are two sources. *Recorder hook*: a replaced
recorder needs two, an answer overtaken, or a command overtaken by one, needs two
scans, an outlived continuation two mounts; a second deletion under way would
only repeat the first. *Lists*: a change begun in one context lands in the
other, while a list of each is under way and another is asked for. *Draft hook*:
a drawing, its replacement and the return to the first; four saves put two on
either side of each. *Photos*: a key kept, a key dropped and a store replaced
need two of each, and three URLs let one be minted by a run that has been
superseded. *Composer*: a photo replaced by another, an attempt and its retry, a
request and the one that supersedes it, a disclosure opened for one photo and
accepted with another on show all need two of their kind and no third.
`MaxWork` bounds the writes, requests and disclosures of one behaviour together:
five are enough for two of each of two kinds with one of the third, the
combinations in which one kind disturbs another. *Canvas*: a session that a cleanup still
holds, the one that replaced it and a third after an unmount or a second style;
two sources so that terrain can name one that is not there. *Stack*: sources
whose ids meet once joined with their layers', archives, elevation drawn or only
under the map, every refusal, over base styles that bring an id of a source, of
a layer or of the engine. *Drawing*: three vertices give two breaks that collapse
onto one index; an edit, its undo and its redo need one snapshot; a second
session and a second pointer are what can disturb a gesture. `MaxBreaks` is
there because the code keeps duplicate breaks, and a loop of breaking, removing
and inserting adds one more each time. *Algorithms*: five altitudes make a rise,
a fall that is cut short and a rise again; five points make spans split twice on
either side; tracks of three or four points have a gap, a tie and a missing
reading at once. *Demo*: a flow, the other flow begun over it, and a trip opened
over both, with two handlers so that one can come between the steps of another.

Photos in the composer, sources in the region store and vertices of a draft are
interchangeable and are declared symmetric; those runs check only safety
properties, for which symmetry is sound.

Deadlock is not checked: every bound stops its actors, and a trip that is over
has nothing left to do.

**Fairness.** `recorder_durability` assumes weak fairness of `SaveFinished` and
`StopRejected` (promise continuations run as microtasks) and of `Store` (a store
answers, with success or failure, what it was handed: IndexedDB transactions
complete or abort). Nothing is assumed of the user, the timer, the platform's
answers or crashes; `PausePersisted` thus says that the flush of `pause()` needs
no timer: the very picture of the pause (its points and segments, as paused, and
the laps marked by then) is stored, or is the one whose failure was reported
since. `algorithms` assumes, of a polled source, that its timer ticks while it
runs, that the device settles every read, and that the callbacks of a settled
read run; and of a replay, that React commits what was set and runs its effects,
that a frame asked for comes, and that time passes. `ClocksGoOn` is: a source
left started reads again and again for its own session, and a replay that is let
be comes to its end. The other runs assume none.

### What the violations say

1. `recorder.ts:480-482`: the comment promises that a failed autosave does not
   poison the queue; a listener that throws does exactly that, because the call
   of the listeners inside the loop is unprotected and skips the line that
   clears `writeInFlight`. Every later picture waits for nobody, and `stop()`
   rejects before it saves (a second `stop()` then saves).
2. `event-log.ts:21,48-54`: update is documented to reject when the event is
   not there; between its read and its write it can be removed, and is inserted.
3. `use-track-recorder.ts:25,150-153`: recovery is documented for an interrupted
   *prior* session; a live recording looks the same in the store, so a scan
   answered after an autosave, or the scan of a component mounted again while
   its previous recorder goes on, offers it for resumption and for deletion.
4. `map-canvas.ts:233-243`: a draw session is to end when `drawMode` or its
   handlers go. The cleanup exits it only if the session its own run saw is still
   the live one; a style change replaces the session in the construction effect,
   which enters draw mode again, without running the presence effects. Draw mode
   switched off after that stays on, and a remaining `onDraw` keeps receiving
   edits.
5. `trip-review.ts:215-252`: "a replacement track must not leave the cursor
   outside the new range". When the track is replaced during playback, one
   effect sets the cursor to the new track's start and playing to false; in the
   same flush the tick's effect, whose closure still plays, asks for a frame, and
   the anchor is still the old one. A frame before the commit sets the cursor
   after the effect did: the replay rests, paused, in the old track's time.
6. `apps/demo/src/app/loop.tsx:156-160,262`: the comment says that a state in
   which `pinAt` is set with no control able to clear it leaves the trip with no
   exit. Opening a stored trip while a recording's composer is up makes that
   state: the composer is unmounted without its cancel, Stop stays disabled, and
   the review replaces the map that could be tapped.

### What the properties leave room for

Some statements carry an exemption because the code does not promise more;
each is written into the property and not into the model.

* `RegionsAreWhole` exempts, of archives no list shows, those of downloads whose
  rollback itself failed or was cut short by a reload (`stranded`): they stay,
  and nothing in the code reclaims them; and, of listed regions that are not
  complete, those a delete has begun on (`doomed`).
* `FreshWhenQuiet` exempts a change that lands in another context than it was
  begun in (`owed`): the hook does not list again, so after the store was
  replaced and put back while a download ran, the download stays off the screen
  until the next change. `RegionsChangeInOrder` exempts callbacks kept from an
  earlier render (`late`), which list the store of that render. `ListIsFresh`
  has the same two, under the names `unlisted` and `unseen`, and exempts a list
  that was rejected.
* `PausePersisted` exempts a poisoned queue, in which the picture of a pause
  reaches nobody; that queue is the first violation above.
* `HookFollowsItsRecorder` exempts a recorder silenced by another one's `stop()`.
  A `stop()` that is awaited while a second `start()` resolves calls, when it
  continues, whatever `releaseRef` holds by then (`use-track-recorder.ts:258-267`):
  the second recorder records on, held by the component, and no point or change
  of state of it reaches the screen. TLC finds this within the run's bounds when
  the exemption is taken out.
* `CandidateKept` exempts a command that was overtaken: `resumeRecovered` and
  `discardRecovered` clear whatever is on offer when they continue
  (`use-track-recorder.ts:230-231`, `238-239`), so a scan that has put up another
  answer meanwhile loses it (until the next scan; its record stays). TLC finds
  this too when the exemption is taken out. Nor does it say that a
  candidate can be resumed: a trip finished between the two reads of a scan is
  offered, and the recorder's constructor refuses it.
* `OneTripPerDraft` exempts saves that stand `apart`, of three kinds: a callback
  kept from an earlier render saves the earlier draft and leaves its id to be
  adopted by the later one; a save between the render of a new `from.id` and its
  effect (`use-track-draft.ts:90-92`) still reads the id of the draft before, so
  that it overwrites that trip, against the comment that "`from.id` wins"; and a
  save that reads the id one of these has left goes the same way.
* `LeavesAsAgreed` says that a photo is sent under a disclosure accepted once and
  is the photo the form holds. It does not say that the analyzer is still
  the one rendered: between the effect of a replaced analyzer and the commit
  of what that effect queued, the panel on show still accepts, and the request
  goes to the analyzer the panel named.
* `CanvasFollowsProps` speaks of components that are still mounted. A parent that
  replaces the sources and the terrain together, each pair consistent, is
  refused when the standing terrain names a source that goes: `applyState` sets
  the sources first and the controller judges them against the terrain it still
  has (`EffectsThrow`).
* `PressedVertexNeverAdds` does not say which vertex the gesture is about. An
  edit during a press that changes how many vertices there are (an undo by
  keyboard) leaves the gesture's index naming another vertex, and a hit test
  between an edit and its render does the same; the keyboard grab is cancelled in
  that case (`draw-mode.ts:364-370`), the pointer gesture is not.
* `MapHoldsWhatWasAsked` says nothing more of the stack once the renderer has
  refused a call for an id the base style brought: whether a later stack is
  refused for what that one left is not judged. `FocusKept` speaks of renders of a
  map, not of classes and marks reapplied to a map already loaded.
* `SimplifyWithin` is of a run that is over; that every run ends is not stated.
* `PhotosAreCurrent` lets a photo stay "Loading" after a read of it was rejected:
  the loop ends there, and nothing reads the rest until the next render.
* `LoopKeepsEvents` exempts trips (`disturbed`) with an event handed over while
  their finish was under way, drawings finished while an event of theirs was
  being written, and recordings made behind a review: the list of ids a finish
  binds is the one its render knew. An event of such a trip may stay unbound.
* `PanelsTellTheTruth` exempts, of the panel's confirmed status, a deletion that
  was begun from a list that was not the store's (`astray`): after a download
  that was stored and could not be listed, deleting the listed regions confirms
  "0 regions" beside the one stored.

## 4. Proofs

| module | theorem | states |
|---|---|---|
| `RecorderProofs` | `TypeCorrect` | `[]TypeOK` |
| | `RecorderInvariant` | the inductive invariant |
| | `OneWrite` | `[]OneWriteInFlight` |
| | `StopStores` | `[]StoppedMeansStored` |
| | `RecorderImplementsDurableTrip` | `DurableTripSpec` |
| | `SavedIsKept` | `[]AckedIsDurable`: what was reported stored stays part of the record |
| | `NothingIsRefused` | `[]Recoverable`: what the recorder made, it can finish and resume |
| | `NothingIsMixedAcrossPauses` | `[]NothingCrossesAPause` |
| | `NothingIsHeldWhenIdle` | `[]NothingHeldWhenIdle` |
| | `SensorsAreNotStolen` | `SensorNotStolen` |
| `StoresProofs` | `StorageTypes`, `SummariesAlwaysAgree`, `CascadeIsExact` | the rows' types, `[]SummariesAgree`, `CascadeExact` |
| | `IdbImplementsMemory` | `MemorySpec` |
| | `RegionsStayWhole` | `[]RegionsAreWhole` |
| | `RegionsChangeAsTheyShould` | `RegionsChangeInOrder` |
| | `RegionsAreFresh` | `[]FreshWhenQuiet` |
| `ReactProofs` | `ListsAreFresh` | `[]ListIsFresh` |
| | `PhotosAreOfTheirReview` | `[]PhotosAreCurrent` |
| | `ADrawingIsOneTrip` | `[]OneTripPerDraft` |
| | `WorkIsAlwaysFollowed` | `[]WorkIsFollowed` |
| | `ItLeavesAsAgreed` | `LeavesAsAgreed` |
| | `HookKeepsToItsRecorder` | `HookFollowsItsRecorder` |
| | `CandidateStays` | `CandidateKept` |
| `MapProofs` | `PanAlwaysGivenBack` | `[]PanGivenBack` |
| | `HistoryStaysBounded` | `[]HistoryBounded`: undo and redo together stay within the limit |
| | `PressNeverAdds` | `PressedVertexNeverAdds` |
| | `DraftsArePromotable` | `[]PromotionNeedsOnlyTimes` |
| | `CompanyIsKept` | `SpansKept` |
| | `CanvasAlwaysFollowsProps` | `[]CanvasFollowsProps` |
| `MapContentProofs` | `KeyboardUserStays` | `KeyboardKeepsItsPlace`, half of `FocusKept` |
| | `MarksAlwaysAsked` | `[]MarksAreAsked`, half of `MapHoldsWhatWasAsked` |
| | `FocusAlwaysStays` | `FocusStays`, half of `FocusKept` |
| | `FocusIsKept` | `FocusKept` |
| | `StackAlwaysDrawn` | `[]StackIsDrawn`, half of `MapHoldsWhatWasAsked` |
| | `MapIsAsAsked` | `[]MapHoldsWhatWasAsked` |
| `AlgorithmProofs` | `ElevationIsHonest` | `[]ElevationHonest` |
| | `SimplifyKeepsTolerance` | `[]SimplifyWithin` |
| | `SamplesAreOfTheirSession` | `[]SampleOfThisSession` |
| | `ReplayWaitsForFrames` | `[]FramesWhilePlaying` |
| | `IdsSortAsMinted` | `[]IdsSort` |
| | `PanelsAlwaysTellTheTruth` | `[]PanelsTellTheTruth` |
| | `DemoKeepsItsEvents` | `[]LoopKeepsEvents` |
| | `TracksAreMadeRight` | `[]TrackIsMadeRight`, of these four: |
| | `SampledTrackIsFaithful` | `TrackIsFaithful` of every stream of fixes and policy |
| | `SamplesMergedAtTheirTime` | `MergedAtItsTime` of any samples, point and age |
| | `ResumedChannelsKeepTheirMeaning` | `ChannelsKeepTheirMeaning` of any trip and sensors |
| | `InterpolatedDraftsAreTracks` | `InterpolatedDraftIsATrack` of every draft and options |
| | `DurationsRead` | `DurationReads` of any two durations |
| `TrackProofs` | `TracksAreToldTrue` | `[]TrackIsToldTrue`, of `DurationsRead` and these four: |
| | `PositionsAreObserved` | `PositionIsObserved` of every track and moment |
| | `LapsOfTracksAddUp` | `LapsAddUp` of every track and three of its points |
| | `MapsShowTheTrack` | `MapShowsTheTrack` of every track, cache and laps |
| | `ChartsShowTheTrip` | `ChartIsTheTrip` of every track, channel, scale and cursor |
| `PortabilityProofs` | `NothingIsLost` | `[]NothingIsLostOnTheWay`, of these five: |
| | `TripsComeBack` | `TripComesBack` of every track and its events |
| | `ImportsRepairNothing` | `ImportRepairsNothing` of every document |
| | `FormsComeThrough` | `FormComesThrough` of every form |
| | `RegionsAreLicensed` | `OnlyLicensedRegions` of any sources and ids asked for |
| | `NewestArchivesServe` | `NewestArchiveServes` of any regions, archives gone since and sources |

All hold for every value of the constants, under the assumptions the modules
state, and none assumes a finite clock, a bounded trip or a number of callers.
The assumptions are the kinds of the constants; that the values standing for
"none" are none of the things they are not (`NoOwner` is no track's id, the
composer's `None` no file, analyzer or number, the three answers of a styling
callback that are no style, `NoValue` no answer of a form, `Null` and `Malformed`
no reading and no trip, `Omitted` no id); `SeedsAssumption`, that what an editing session
starts from is a draft, which is what `createTrackDraft` makes of a track with
valid segments and laps, as the lemma `SeededIsDraft` proves;
`MapMarksAssumption`, that the ids of a track's laps and of a list's events are
unique; and `TileStackAssumption`, that a base style is one the renderer can
have loaded (its layers have ids of their own and draw from its own sources) and
that a stack is a list of sources of the three kinds with ids that are not
empty.

*Recorder.* `DurableTrip` asks every write that lands to extend what is stored,
but a write is a picture taken long before. The invariant is therefore a chain:
`durable`, then the picture in flight, then the one waiting, then the recording
in memory (or the finished track), each extending the one before. `Extends` is
a partial order on tracks, and every action either moves a link forward or
grows the last one: a fix appends a point and lengthens the open segment,
closing a segment leaves the picture as it was, a lap appends. `ControlInv` and
`WritesInv` tie the phase of `stop()` and of the queue to who may be writing,
which also gives one write in flight; `DurableInv` says what a crash leaves is
what the next session starts from. The drain is what the proof needs to put the
finished track last.

The other four rest on the same invariant. `GeometryInv` (for `Recoverable`):
the closed segments partition the points before the open segment, or all of them
when none is open. A picture is then valid the moment it is taken, and every
record the store, the queue or `stop()` has is a picture taken earlier
(`PicturesMove`), which is why a session that resumes after any crash finds
segments it can extend. `PauseInv` (for `NothingCrossesAPause`) adds whose the
points are: the open segment is named for the watch that is live, a kept point
too, and a pending sample is of that watch, newer than every sample used, and in
no point yet; this is stated of every picture as well, since a resumed session
starts from one. `HoldInv` (for the last two): out of a recording nothing is
held, and nothing is asked for under the live generation; a lease is the one the
recorder refers to, and there is none while a request of the live generation is
unanswered; no answer is due to a generation still to come. So an answer that
comes out of a recording is a late one and is given back, and one that comes
while sensors are wanted stops none of them.

*Storage.* Scopes of open transactions are disjoint (`ExclusiveInv`), so what a
transaction read first is still current when it commits (`SeenInv`): any other
transaction able to change events has them in its scope. With that each commit
computes what one step of the reference would, and a summary changes exactly
when its count does (`RecountAgrees`: recounting the owners before and after a
write is enough).

*Regions.* Downloads are numbered, so a region has one at most, and it is
listed, doomed, shown or on a list under way only once that download is over
(`ListsSettled`, `RegionsKnown`). No sweep but a download's own therefore touches
what it has put, and `todo` accounts for every archive: a download that has not
failed has put its sources but for those still to do, and a sweep has before it
every archive of its region that is left. `RegionsChangeAsTheyShould` adds the
tags: every list and every change carries the context it was asked for in, and
the one with the newest number is of the store rendered, late, or about to be
overtaken by the effect. `RegionsAreFresh` adds what a list has read: for the
newest list, result and what it has still to read cover what its store lists,
unless a change landed that no list was asked for after (`ReadInv`), and the
screen shows that once it is answered (`ShownInv`). A manifest that comes or goes
is followed by a newer list, or leaves one owed.

*Lists.* The newest list was asked for in the rendered context, or late, and what
it has read is what that context holds, unless a change landed that no list was
asked for after (`ListInv`); a change under way that is still current was begun
in that context, or late (`EditInv`). So a change that lands there asks for a
newer list, and what an older one read no longer matters. With the newest list
answered, what is listed is what it read.

*Photos.* Runs are numbered and only the newest of a mounted review is live
(`RunsInv`); an answer is cached, and its URL kept, for the store of the last
effect alone (`CachesInv`); a key on show is one that was asked for, and a key
asked for is shown or lies ahead of the live run (`AskedInv`). A read that comes
back to an older run therefore revokes what it made and shows nothing.

*Drawing.* `PanGivenBack` is inductive with the types and the renderer's rule
that a click is due only when no pointer is down, which is why consuming the
gesture at a click cannot strand a borrowed pan. The history is bounded because
a commit empties one stack and trims the other, and undo and redo only move a
snapshot across. For a press: while a click may come of a press on a vertex of
the live session, the gesture of that press is there to take it (`PressInv`), so
the click is about that vertex; and since every edit, undo and redo makes a draft
of a draft (`DraftsInv`), what it may do is remove vertices that were there.

*Draft.* `DraftsInv` says of the current draft and of every snapshot that its
breaks are in order with vertices on both sides, its laps are within it, and no
vertex is in it twice. Of such a draft the segments computed from the breaks are
in bounds and in order, and cover every vertex: the least boundary past a vertex
ends the segment that holds it (`RangesHold`, `RangesCover`). That each edit
keeps it is mostly index arithmetic; what an edit does to company is proved once,
of an *embedding*. Insertion and removal are the same pair of drafts read in two
directions: the smaller sits in the larger with one vertex left out, and two
vertices of the smaller are parted by a break, or in a lap, exactly when their
images are (`EmbeddingKeeps`). The one case where that is false is the one the
code treats apart, a removal that empties a segment. `removeAt` drops breaks and
laps that collapsed; the model picks them out of the sequence by the order of the
indices that stay (`Picked`), which unlike a filter over the sequence can be
reasoned about without induction.

*Canvas.* A controller wants what it was last told, and its map shows that as
soon as its style has loaded (`ShowsWanted`), whichever of the two came first; each
operation of the controller keeps this. `CanvasInv` adds that the construction
effect tears down every session but the one it keeps, that what the presence
effects last ran for is live in the session, and that with no effect due they ran
for the props rendered.

*Keyboard.* Between two events the layer is sound: one way in, nobody grabbed but
the vertex with the focus. A render is asked for in a weaker state (`Ready`), with
nothing known of the tab stops, because a draft that grew or shrank has let go of
the grab and nothing else yet; whatever the host renders then, the elements are
made one per vertex, the focus is put back on its vertex, the last one or the
group, and the tab stops follow it. A move by arrow renders from within the
host's handler, and a handler that throws after that lets go of the grab, so both
end in a sound layer again.

*Marks.* A request is translated whole or not at all: a callback that throws, or a
style that is refused, leaves the render of before (`Translated`). The marks of a
render have keys of their own, because a mark's key is its kind and the id of
what it marks. The loop over them is followed by what holds after i marks: the
new page has exactly the first i, each as it says, the old page those that are
still to be looked at, and every element in one of them is attached once
(`MarksInv` is what remains after the last). The focus is lost only with the
element that has it, that is, when its mark is not among the new ones or asks for
another anchor.

*Stack.* Before the style loads the renderer has what came with it and nothing
else (`Waits`). Once it has loaded, and until a call is refused, its layers are
exactly those of the style, then of the stack, then the controller's own
(`Whole`), and no id of the style is one of the others' (`Drawn`). A stack that
replaces another takes the lowest layer of the middle part away each time, then
sources that no layer uses any more, and puts each new layer under the anchor,
that is on top of the middle part; so each call is one the renderer takes, unless
its id came with the style, which is what `Collides` says of a refusal. That no
two layers of a stack share an id, or one with the controller's own, is what the
translation refuses (`buildTileSources`).

*Recursion.* The loops of `MapMarks` and `TileStack` are recursive functions. The
library's induction theorems cannot be used (below), but the set of rounds at
which a fact fails has a least member (`LeastNatural`), and the round before it
leads to a contradiction: so each function exists and what holds of its rounds
holds to the last.

*Drawn trips.* The saves that do not stand apart are of drafts in the order of
the drafts (`SavedInOrder`). One of the newest draft exists only once that draft's
effect has run, and from then on the id in the ref is its id, unless a save
standing apart put another there first (`Adoption`). A fresh id exceeds every seed
and every id used before.

*Composer.* Five parts, each resting on those before it. `FormsInv`: whatever a
form tells (an analysis, a failure, a panel) is of the photo it shows, in the
state to come and in the committed render alike, and a composer taken down is
blank. `PhotoInv`: what a user can still act on shows the photo held, because an
activation that changed it commits before the next is handled. `RequestsInv`:
the request that is awaited is of the photo held, and the form says it analyses
only while that one is unanswered. `DisclosureInv`: a panel that can be accepted
has a number under which nothing was sent. `AttemptsInv`: only a rejected write
is followed by another, one that landed ended the composition unless the form had
gone before, and the form is busy exactly while a write or its cleanup is to be
answered. The two action properties follow step by step.

*Recorder hook.* The live scan of a mounted hook is the newest, so what is on
offer once it is done is its answer (`ScanInv`). A subscription is the one to be
released or belongs to a start that has not answered, and a recorder that is
starting is heard and is not the one to be released (`RecordersInv`); so a start
that continues leaves the recorder it installs heard, a start that fails ends only
its own, and the one way to silence the live recorder held is the continuation of
another one's `stop()`. A scan that has answered stays as it is (`AnswersStay`),
the candidate is the answer of the scan that put it up, and a command's trip is
the answer of the scan it remembers (`OfferInv`): a command whose scan is still
the last to have published is about the candidate it clears. A command's
continuation runs in several steps that change the recorders one at a time: the
proof follows one recorder, and of a step needs only that what the others await
is as before.

*Algorithms.* The elevation filter keeps its reference within the deadband of
the profile, and what it counted is what lies between its reference and the
start; a reversal is only counted against a rise or fall that was really there.
The simplification's invariant covers the run with spans on the stack and spans
that are done, each between two kept points, so that a dropped point is always
inside a span that was measured. A read in flight carries the session it was
begun in, and delivery compares it. Of a replay at rest, "plays" and "a frame is
asked for" agree because every commit that changes the one makes an effect due
that changes the other. An id's random part counts up while the last time is the
present one.

*Demo.* Of the panels: while the shell is starting nothing is downloaded or
deleted, so what a startup installed is what is stored when the shell becomes
ready (`StartupInv`); a download or a deletion under way confirms nothing, and
one that began from the store's own list ends with it (`StatusInv`); and an
answer under way is what the browser does, one at a time (`KeepingInv`). Of the
loop: `LoopInv` has thirteen parts beside the property, of which these carry
the argument. The loop counts its open writes rightly (`WritesCounted`), so a
finish that waits for none meets none (`FinishMeetsNoSave`); while a recording
has events nothing else is in front of it (`RecordedInFront`), so the list a
finish takes is the recording's own and holds whatever was reported
(`SavedIsListed`); and a finish has bound, or has left to bind, all that was
reported of its trip (`FinishBindsAll`). Looking for
this invariant found two places where the model was not what the code does, now
corrected: the second answer to a stop asked for twice does not end a recording
begun since, and a save whose context has gone leaves the list to the next one.

*Filters, sorts and sums.* What the functions of `TrackMaking` and `TrackQueries`
return is told by places, so that it can be reasoned about without induction over
data. The places of a filter's result rise and are exactly those asked for
(`PickedOf`); a set on which an order is total is lined up along it
(`ArrangedLines`: the number of members before one is its place); a sum satisfies
its own recurrence (`SumOverUnrolled`), from which sums are shifted, cut, added
and compared (`SumOverSame`, `SumOverSplits`, `SumOverAdds`, `Telescopes`) with the
least-member argument above.

*Making a track.* A recorder's fold over the fixes is unrolled: after n fixes the
last point kept is within the policy of every accurate fix since. Samples in time
lined up oldest first keep those of one moment in the order they came, so the
last that names a channel is the last of the newest. Channels of distinct keys
pass through a merge where they are, and a later one of a key that is there
agrees with it or is refused. A draft's anchors are in order, so between two of
them, and after the last, a time interpolated is between theirs; a break's two
sides were anchored before anything was interpolated.

*Telling of a track.* The hypothesis is `Located`: moments and places are numbers
and the geometry is valid, which is what `assertValidTrackGeometry` demands. Its
segments then partition the points (`LocatedIsParted`, `OwnerIs`), so the segment
that begins last before a moment is the one that owns the last point observed.
For laps, the segments met between two points are consecutive; their legs are all
the legs but the gaps between them, and moving time telescopes to the last moment
less the first less the gaps. A chart's lines are its samples cut where a segment
ends: the place a sample has in the joined lines is its place among the samples
(`ChartLines`). What the run asks are such tracks: however one is cut, its
segments are valid (`CutsAreWell`).

*Portability.* An export cuts a track's points, times and fields by its segments
and an import joins the pieces again, so both are told by the offset at which a
piece begins: the sum of the lengths before it (`JoinedIsLaid`). Valid segments
partition the points, so the offset of a segment is where it starts
(`SegmentOffsets`), each array says of a point what the point has
(`ArraysOfTrip`), and a point read from the arrays is the point written
(`PointsReadBack`). A field that no point has is left out of the document and is
`Null` at every point of the import, which is what it was. The other way round, a
document that import accepts has an array per segment and a value per coordinate,
so the track made of it is cut where the document was, and exports to what the
document said, but for an array that holds nothing (`WrittenBack`). Nothing of
this asks a trip to have points or events; a document may hold features of any
other kind, among which the one track and the events are found again
(`FoundAgain`).

*Forms.* A control answers exactly when it is not as it was rendered, a box
always, since an offered value is never `NoValue` and the options of one select
are distinct (`Offered`). So the keys of what is saved are those of the controls
that were answered, and under a key of its own each value says what its control
held: two forms saved alike are the same form (`SavesTellApart`).

*Regions.* With ids of their own, what a store has configured under an id is one
source or none (`ConfiguredIs`), so the two refusals together are the licence and
the transport of every id asked for, no id missing. The archives added to the
protocol are those of the regions in the order of their age: the last that offers
a url belongs to the newest region that covers it (`LastAddedServes`,
`NewestServes`), whichever sources the app has by then, and whether its bytes are
still there decides only between the archive and saying that it is gone.

**Out of the prover's reach**: liveness under fairness and `ENABLED`
(`StopSettles`, `PausePersisted`, `ClocksGoOn`), and induction over data through
the library's theorems, which take an operator as a parameter; a loop or a fold
whose every round is a known step is followed all the same, as above. Every
safety invariant and action property of the runs is a theorem; the three liveness
properties are checked by TLC alone.

## 5. Not modelled, and the plan

Left out, by reason:

* *floating-point geometry*: distances on the earth, bounding boxes, tile
  ranges. Where an algorithm depends on a distance, the distance is any number,
  or places lie on a line.
* *presentation*: the camera, popups' content, layout and captions of the
  review, colours, sizes and wording.
* *delegation*: the recorder hook with an injected recorder, `onChange` listeners
  of a draft, the forwarding of a handler through a ref, read-only operations
  (`usage`, range reads, `listInterruptedTracks`).
* *opening and sharing the database connection*: a failed open is a call that
  rejects. That the first failure is remembered for the life of the adapter is a
  retry the code does not make, and not among the hazards listed.
* *outside a contract*: a `saveTrack` that throws instead of returning a promise.
* *offline tooling*: the scripts, the service worker one of them generates, the
  fixture builder, and the test doubles other than the fake renderer, whose rules
  `TileStack` takes.

The number of runs and of checked properties is at what this project can afford
to check again on every change, so what could follow replaces or is proved:

1. the canvas and the stack composed: a style change in `MapCanvas` loading a
   base style of `TileStack`;
2. the demo's loop over the real recorder hook and event log instead of calls
   that succeed or fail.
