----------------------------- MODULE DemoPanels -----------------------------
(***************************************************************************)
(* What the demo tells of its storage: app.tsx, which opens the stores and *)
(* installs the downloaded regions before it mounts the map, the offline   *)
(* panel (offline-panel.tsx with offline.ts) and the control that asks the *)
(* browser to keep the storage (persistence.ts).                           *)
(*                                                                         *)
(* A region is a number; the region store and its hook are modules of      *)
(* their own, and here an operation of theirs succeeds or fails.           *)
(***************************************************************************)
EXTENDS Naturals, FiniteSets

CONSTANTS MaxRegions,   \* bound: downloads that complete
          MaxStartups   \* bound: runs of the startup effect

ASSUME DemoPanelsAssumption == {MaxRegions, MaxStartups} \subseteq Nat

VARIABLES
  regionsStored,
  everStored,   \* how many regions there have been
  shell,        \* "starting", "ready" or "failed"
  startups,     \* runs of the effect under way: [run, stage, found]
  startupRuns,  \* how many there were; the newest is live
  installed,    \* regions whose archives this page answers from its store
  statusOf,     \* the status the panel is given: the regions it was read from
  hookRegions,  \* the hook's list
  hookListing,  \* its first list has not been answered
  busy,         \* "idle", "downloading" or "deleting"
  stage,        \* what the attempt awaits: "none", "store", "list" or "reading"
  toDelete,     \* regions the deletion has still to remove
  confirmed,
  astray,       \* a deletion began from a list that was not the store's
  keeping,      \* the persistence control's state
  armed,        \* its button is enabled
  questions,    \* its calls under way: [call, answer]
  persistent    \* the browser keeps the storage

startupVars == <<shell, startups, startupRuns>>
panelVars == <<hookRegions, hookListing, busy, stage, toDelete, confirmed, astray>>
keepingVars == <<keeping, armed, questions, persistent>>
panelsVars == <<regionsStored, everStored, startupVars, installed, statusOf, panelVars, keepingVars>>

Opening(n) == [run |-> n, stage |-> "opening", found |-> {}]

PanelsInit ==
  /\ regionsStored \in {{}, {1}}
  /\ everStored = Cardinality(regionsStored)
  /\ shell = "starting" /\ startups = {Opening(1)} /\ startupRuns = 1
  /\ installed = {} /\ statusOf = {}
  /\ hookRegions = {} /\ hookListing = FALSE
  /\ busy = "idle" /\ stage = "none" /\ toDelete = {}
  /\ confirmed = TRUE /\ astray = FALSE
  /\ keeping = "checking" /\ armed = FALSE
  /\ questions = {[call |-> "persisted", answer |-> "none"]}
  /\ persistent \in BOOLEAN

-----------------------------------------------------------------------------
(* Startup.  React may run the effect again and clean the first run up.    *)

Restart ==
  /\ shell = "starting" /\ startupRuns < MaxStartups
  /\ startupRuns' = startupRuns + 1
  /\ startups' = startups \cup {Opening(startupRuns + 1)}
  /\ UNCHANGED <<shell, regionsStored, everStored, installed, statusOf, panelVars, keepingVars>>

StoresOpen(r) ==
  /\ r.stage = "opening"
  /\ startups' = (startups \ {r}) \cup {[r EXCEPT !.stage = "listing"]}
  /\ UNCHANGED <<shell, startupRuns, regionsStored, everStored, installed, statusOf, panelVars, keepingVars>>

(* installDownloadedRegions: a list, and every archive it names registered *)
(* before anything else runs.                                              *)
RegionsInstalled(r) ==
  /\ r.stage = "listing"
  /\ startups' = (startups \ {r}) \cup {[r EXCEPT !.stage = "installed", !.found = regionsStored]}
  /\ installed' = installed \cup regionsStored
  /\ UNCHANGED <<shell, startupRuns, regionsStored, everStored, statusOf, panelVars, keepingVars>>

(* Mutated: a run that was cleaned up reports as well.                     *)
AnyRun(r) == TRUE

LiveRun(r) == r.run = startupRuns

(* Only a shell that is ready mounts the map and the panel, whose hook     *)
(* lists when it is mounted.                                               *)
StartupReports(r) ==
  /\ r.stage = "installed"
  /\ startups' = startups \ {r}
  /\ IF LiveRun(r)
       THEN shell' = "ready" /\ statusOf' = r.found /\ hookListing' = (hookListing \/ shell # "ready")
       ELSE UNCHANGED <<shell, statusOf, hookListing>>
  /\ UNCHANGED <<startupRuns, regionsStored, everStored, installed, hookRegions, busy, stage, toDelete,
                 confirmed, astray, keepingVars>>

StartupFails(r) ==
  /\ startups' = startups \ {r}
  /\ shell' = IF LiveRun(r) THEN "failed" ELSE shell
  /\ UNCHANGED <<startupRuns, regionsStored, everStored, installed, statusOf, panelVars, keepingVars>>

-----------------------------------------------------------------------------
(* The offline panel.                                                      *)

Attempt(kind) ==
  /\ shell = "ready" /\ busy = "idle"
  /\ busy' = kind /\ stage' = "store" /\ confirmed' = FALSE
  /\ UNCHANGED <<regionsStored, everStored, startupVars, installed, statusOf, hookRegions, hookListing, keepingVars>>

DoDownload ==
  /\ everStored < MaxRegions
  /\ Attempt("downloading")
  /\ UNCHANGED <<toDelete, astray>>

DoDelete ==
  /\ hookRegions # {}
  /\ Attempt("deleting")
  /\ toDelete' = hookRegions
  /\ astray' = (astray \/ hookRegions # regionsStored)

(* The hook's download or remove: the change lands, and the hook lists.    *)
ChangeLands ==
  /\ stage = "store" /\ stage' = "list"
  /\ \/ /\ busy = "downloading"
        /\ everStored' = everStored + 1
        /\ regionsStored' = regionsStored \cup {everStored + 1}
        /\ UNCHANGED toDelete
     \/ /\ busy = "deleting"
        /\ \E region \in toDelete :
             regionsStored' = regionsStored \ {region} /\ toDelete' = toDelete \ {region}
        /\ UNCHANGED everStored
  /\ UNCHANGED <<startupVars, installed, statusOf, hookRegions, hookListing, busy, confirmed, astray, keepingVars>>

Done == busy' = "idle" /\ stage' = "none" /\ confirmed' = TRUE

HookListsAgain ==
  /\ stage = "list"
  /\ hookRegions' = regionsStored /\ hookListing' = FALSE
  /\ \/ /\ busy = "downloading" /\ stage' = "reading"
        /\ UNCHANGED <<busy, confirmed, statusOf>>
     \/ /\ busy = "deleting" /\ toDelete # {} /\ stage' = "store"
        /\ UNCHANGED <<busy, confirmed, statusOf>>
     \/ /\ busy = "deleting" /\ toDelete = {}
        /\ statusOf' = {}
        /\ Done
  /\ UNCHANGED <<regionsStored, everStored, startupVars, installed, toDelete, astray, keepingVars>>

StatusRead ==
  /\ stage = "reading"
  /\ installed' = installed \cup regionsStored
  /\ statusOf' = regionsStored
  /\ astray' = FALSE
  /\ Done
  /\ UNCHANGED <<regionsStored, everStored, startupVars, hookRegions, hookListing, toDelete, keepingVars>>

(* A failure confirms nothing, whatever it left in the store.              *)
AttemptFails ==
  /\ busy # "idle"
  /\ busy' = "idle" /\ stage' = "none" /\ toDelete' = {}
  /\ hookListing' = (hookListing /\ stage # "list")
  /\ UNCHANGED <<regionsStored, everStored, startupVars, installed, statusOf, hookRegions, confirmed, astray, keepingVars>>

HookLists ==
  /\ hookListing /\ hookListing' = FALSE
  /\ \/ hookRegions' = regionsStored
     \/ UNCHANGED hookRegions
  /\ UNCHANGED <<regionsStored, everStored, startupVars, installed, statusOf, busy, stage, toDelete,
                 confirmed, astray, keepingVars>>

-----------------------------------------------------------------------------
(* The persistence control.                                                *)

canRequest(state) == state \in {"unpersisted", "denied", "error"}

RenderKeeping(state) == keeping' = state /\ armed' = canRequest(state)

RequestKeeping ==
  /\ armed /\ armed' = FALSE
  /\ questions' = questions \cup {[call |-> "persist", answer |-> "none"]}
  /\ UNCHANGED <<keeping, persistent, regionsStored, everStored, startupVars, installed, statusOf, panelVars>>

BrowserDecides(q) ==
  /\ q.answer = "none"
  /\ persistent' \in IF q.call = "persist" THEN {persistent, TRUE} ELSE {persistent}
  /\ questions' = (questions \ {q}) \cup {[q EXCEPT !.answer = IF persistent' THEN "yes" ELSE "no"]}
  /\ UNCHANGED <<keeping, armed, regionsStored, everStored, startupVars, installed, statusOf, panelVars>>

BrowserAnswers(q) ==
  /\ q.answer # "none"
  /\ questions' = questions \ {q}
  /\ RenderKeeping(IF q.call = "persist" THEN IF q.answer = "yes" THEN "granted" ELSE "denied"
                                         ELSE IF q.answer = "yes" THEN "already-persistent" ELSE "unpersisted")
  /\ UNCHANGED <<persistent, regionsStored, everStored, startupVars, installed, statusOf, panelVars>>

BrowserRejects(q) ==
  /\ questions' = questions \ {q}
  /\ RenderKeeping("error")
  /\ UNCHANGED <<persistent, regionsStored, everStored, startupVars, installed, statusOf, panelVars>>

PanelsNext ==
  \/ Restart \/ DoDownload \/ DoDelete \/ ChangeLands \/ HookListsAgain \/ StatusRead \/ AttemptFails \/ HookLists
  \/ \E r \in startups : StoresOpen(r) \/ RegionsInstalled(r) \/ StartupReports(r) \/ StartupFails(r)
  \/ RequestKeeping
  \/ \E q \in questions : BrowserDecides(q) \/ BrowserAnswers(q) \/ BrowserRejects(q)

PanelsSpec == PanelsInit /\ [][PanelsNext]_panelsVars

-----------------------------------------------------------------------------
(* Properties.                                                             *)

(* app.tsx's gate and the panel's "confirmed": once the map may be         *)
(* mounted, every region then stored is answered from the store; and a     *)
(* status shown as confirmed is what is stored, unless the deletion it     *)
(* rests on was given a list that was not.                                 *)
StatusIsTrue ==
  shell = "ready" =>
    /\ statusOf \subseteq installed
    /\ confirmed /\ ~astray => statusOf = regionsStored

(* render and request: the browser is asked one thing at a time, and what  *)
(* the control says is what the browser does.                              *)
KeepingIsTrue ==
  /\ Cardinality(questions) <= 1
  /\ keeping \in {"granted", "already-persistent"} => persistent
  /\ keeping \in {"unpersisted", "denied"} /\ questions = {} => ~persistent

PanelsTellTheTruth == StatusIsTrue /\ KeepingIsTrue
=============================================================================
