--------------------------- MODULE EventComposer ---------------------------
(***************************************************************************)
(* The form of packages/react/src/event-composer.ts: one photo, its        *)
(* optional analysis, and a Save that writes the photo before it hands the *)
(* entry over.                                                             *)
(*                                                                         *)
(* A handler is a closure of the last committed render: it reads `view`    *)
(* and queues its changes in `state`, which the next commit shows, while   *)
(* the refs (outcome to authorized) change at once.  React commits what a  *)
(* user's activation queued before it dispatches another, except that the  *)
(* same task may activate the disclosure's Accept twice; what an answer    *)
(* or an effect queued waits for a later task.                             *)
(***************************************************************************)
EXTENDS Naturals, Sequences

CONSTANTS Files, Analyzers,
          Remote,          \* the analyzers that send the photo off the device
          None,
          MaxWrites,       \* bound: putBlob calls
          MaxRequests,     \* bound: analyze calls
          MaxDisclosures,  \* bound: panels opened
          MaxWork,         \* bound: these three together
          MaxConsumers     \* bound: {store, onSave, onCancel} triples rendered

ASSUME EventComposerAssumption ==
  /\ Remote \subseteq Analyzers
  /\ None \notin Files \cup Analyzers /\ None \notin Nat
  /\ {MaxWrites, MaxRequests, MaxDisclosures, MaxWork, MaxConsumers} \subseteq Nat

VARIABLES
  outcome,      \* "open", "saved" or "cancelled"
  writing,
  attempt,      \* the consumer an attempt was started with, or None
  live,
  awaited,      \* the analyze call that holds the newest token of analyzeSeq, or 0
  authorized,   \* the disclosure that may be spent, or None
  state,        \* what React will show: [photo, analysis, failed, analyzing, disclosure, busy, notice]
  view,         \* the committed render: a state, with its consumer and its analyzer
  handled,      \* an activation's changes are to be committed before the next one
  effectDue,    \* the analyzer was replaced and the effect has not run
  opened,       \* disclosures opened
  writes,       \* sequence of [status, consumer, file, kept]
  sent,         \* analyze calls: sequence of [source, disclosure]
  pending,      \* those not answered: [call, file]
  told          \* callbacks made: sequence of [what, consumer, write]

refs == <<outcome, writing, attempt, live, awaited, authorized>>
composerVars == <<refs, state, view, handled, effectDue, opened, writes, sent, pending, told>>

Blank == [photo |-> None, analysis |-> None, failed |-> None, analyzing |-> FALSE,
          disclosure |-> None, busy |-> FALSE, notice |-> None]

Rendered(s, consumer, analyzer) ==
  [shown |-> s, consumer |-> consumer, analyzer |-> analyzer]

ComposerInit ==
  /\ outcome = "open" /\ writing = FALSE /\ attempt = None /\ live = TRUE
  /\ awaited = 0 /\ authorized = None
  /\ state = Blank
  /\ \E a \in Analyzers \cup {None} : view = Rendered(Blank, 1, a)
  /\ handled = FALSE /\ effectDue = FALSE /\ opened = 0
  /\ writes = << >> /\ sent = << >> /\ pending = {} /\ told = << >>

AcceptsWork == outcome = "open" /\ ~writing

(* A state update of a form that was taken down is a no-op.                *)
Set(s) == IF live THEN state' = s ELSE UNCHANGED state

(* A control of the committed form is activated.                           *)
Activation == live /\ ~handled /\ handled' = TRUE

-----------------------------------------------------------------------------
(* The photo.                                                              *)

EndAnalysis(s) == [s EXCEPT !.analyzing = FALSE, !.disclosure = None]

(* Mutated: the result of the departing photo stays.                       *)
KeepAnalysis(s) == [EndAnalysis(s) EXCEPT !.failed = None]

DropAnalysis(s) == [EndAnalysis(s) EXCEPT !.analysis = None, !.failed = None]

(* What endAnalysis does to the refs.                                      *)
Invalidated == awaited' = 0 /\ authorized' = None

(* A picker may close without a file.                                      *)
ChoosePhoto ==
  /\ Activation
  /\ \E f \in Files \cup {None} : state' = [DropAnalysis(state) EXCEPT !.photo = f]
  /\ Invalidated
  /\ UNCHANGED <<outcome, writing, attempt, live, view, effectDue, opened, writes, sent, pending, told>>

RemovePhoto ==
  /\ Activation
  /\ view.shown.photo # None
  /\ state' = [DropAnalysis(state) EXCEPT !.photo = None]
  /\ Invalidated
  /\ UNCHANGED <<outcome, writing, attempt, live, view, effectDue, opened, writes, sent, pending, told>>

-----------------------------------------------------------------------------
(* Its analysis.                                                           *)

Room == Len(writes) + Len(sent) + opened < MaxWork

RunAnalysis(source, file, disclosure, s) ==
  /\ Len(sent) < MaxRequests /\ Room
  /\ awaited' = Len(sent) + 1
  /\ sent' = Append(sent, [source |-> source, disclosure |-> disclosure])
  /\ pending' = pending \cup {[call |-> Len(sent) + 1, file |-> file]}
  /\ state' = [s EXCEPT !.analyzing = TRUE, !.analysis = None, !.failed = None]

AnalysisControls == view.shown.photo # None /\ view.analyzer # None

Discloses(source) == source \in Remote

(* The Analyse button: a remote analyzer opens a disclosure.               *)
RequestAnalysis ==
  /\ Activation
  /\ AnalysisControls
  /\ AcceptsWork
  /\ IF Discloses(view.analyzer)
       THEN LET request == [number |-> opened + 1, source |-> view.analyzer, file |-> view.shown.photo]
            IN /\ opened < MaxDisclosures /\ Room
               /\ opened' = opened + 1
               /\ authorized' = request
               /\ state' = [state EXCEPT !.disclosure = request]
               /\ UNCHANGED <<awaited, sent, pending>>
       ELSE /\ RunAnalysis(view.analyzer, view.shown.photo, 0, state)
            /\ UNCHANGED <<authorized, opened>>
  /\ UNCHANGED <<outcome, writing, attempt, live, view, effectDue, writes, told>>

(* The one authorization is spent, whatever panel spends it.               *)
Spend(request) == authorized # None /\ authorized' = None

(* The alert with Accept and Decline stands under the analysis controls.   *)
DisclosurePanel == AnalysisControls /\ view.shown.disclosure # None

(* The assertion that work is accepted is in AnalysisDescribesPhoto.       *)
AcceptDisclosure ==
  LET request == view.shown.disclosure
  IN /\ live
     /\ handled' = TRUE
     /\ DisclosurePanel
     /\ Spend(request)
     /\ AcceptsWork
     /\ RunAnalysis(request.source, request.file, request.number, [state EXCEPT !.disclosure = None])
     /\ UNCHANGED <<outcome, writing, attempt, live, view, effectDue, opened, writes, told>>

DeclineDisclosure ==
  /\ Activation
  /\ DisclosurePanel
  /\ authorized' = None
  /\ state' = [state EXCEPT !.disclosure = None]
  /\ UNCHANGED <<outcome, writing, attempt, live, awaited, view, effectDue, opened, writes, sent, pending, told>>

(* The panel of suggestions offers to keep them until they are kept.       *)
SuggestionsOffered ==
  AnalysisControls /\ view.shown.analysis # None /\ ~view.shown.analysis.confirmed

KeepSuggestions ==
  /\ Activation
  /\ SuggestionsOffered
  /\ state' = [state EXCEPT !.analysis = [view.shown.analysis EXCEPT !.confirmed = TRUE]]
  /\ UNCHANGED <<refs, view, effectDue, opened, writes, sent, pending, told>>

Wanted(p) == p.call = awaited

AnalysisAnswers ==
  \E p \in pending :
    /\ pending' = pending \ {p}
    /\ LET idle == [state EXCEPT !.analyzing = FALSE]
       IN IF live /\ Wanted(p)
            THEN \/ state' = [idle EXCEPT !.analysis = [file |-> p.file, confirmed |-> FALSE]]
                 \/ state' = [idle EXCEPT !.failed = p.file]
            ELSE UNCHANGED state
    /\ UNCHANGED <<refs, view, handled, effectDue, opened, writes, sent, told>>

-----------------------------------------------------------------------------
(* Save and Cancel.                                                        *)

Tell(what, consumer, write) ==
  told' = Append(told, [what |-> what, consumer |-> consumer, write |-> write])

Kept ==
  LET analysis == view.shown.analysis
  IN IF analysis # None /\ analysis.confirmed THEN analysis.file ELSE None

MaySave == outcome = "open" /\ ~writing

(* A Save that the required fields do not block.                           *)
Save ==
  /\ Activation
  /\ MaySave
  /\ Invalidated
  /\ IF view.shown.photo = None
       THEN /\ outcome' = "saved"
            /\ state' = EndAnalysis(state)
            /\ Tell("save", view.consumer, 0)
            /\ UNCHANGED <<writing, attempt, writes>>
       ELSE /\ Len(writes) < MaxWrites /\ Room
            /\ attempt' = view.consumer
            /\ writing' = TRUE
            /\ state' = [EndAnalysis(state) EXCEPT !.busy = TRUE, !.notice = None]
            /\ writes' = Append(writes, [status |-> "asked", consumer |-> view.consumer,
                                         file |-> view.shown.photo, kept |-> Kept])
            /\ UNCHANGED <<outcome, told>>
  /\ UNCHANGED <<live, view, effectDue, opened, sent, pending>>

WriteFails(w) ==
  /\ writes[w].status = "asked"
  /\ writes' = [writes EXCEPT ![w].status = "rejected"]
  /\ writing' = FALSE
  /\ attempt' = None
  /\ Set([state EXCEPT !.busy = FALSE, !.notice = "unconfirmed write"])
  /\ UNCHANGED <<outcome, live, awaited, authorized, view, handled, effectDue, opened, sent, pending, told>>

(* Mutated: a composer that was taken down hands over all the same.        *)
HandsOverUnlessCancelled == outcome = "open"

HandsOver == outcome = "open" /\ live

(* The bytes are stored: the entry is handed over with their key, or the   *)
(* instance has finished and the blob is deleted.                          *)
WriteLands(w) ==
  /\ writes[w].status = "asked"
  /\ writing' = FALSE
  /\ IF HandsOver
       THEN /\ outcome' = "saved"
            /\ state' = [state EXCEPT !.busy = FALSE]
            /\ writes' = [writes EXCEPT ![w].status = "handed"]
            /\ Tell("save", writes[w].consumer, w)
       ELSE /\ writes' = [writes EXCEPT ![w].status = "deleting"]
            /\ UNCHANGED <<outcome, state, told>>
  /\ UNCHANGED <<attempt, live, awaited, authorized, view, handled, effectDue, opened, sent, pending>>

AfterFailedCleanup == [state EXCEPT !.busy = FALSE, !.notice = "unconfirmed cleanup"]

CleanupAnswers(w) ==
  /\ writes[w].status = "deleting"
  /\ \/ /\ writes' = [writes EXCEPT ![w].status = "deleted"]
        /\ Set([state EXCEPT !.busy = FALSE])
     \/ /\ writes' = [writes EXCEPT ![w].status = "unclean"]
        /\ Set(AfterFailedCleanup)
  /\ UNCHANGED <<refs, view, handled, effectDue, opened, sent, pending, told>>

CancelRecipient == IF attempt # None THEN attempt ELSE view.consumer

Cancel ==
  /\ Activation
  /\ outcome = "open"
  /\ outcome' = "cancelled"
  /\ Invalidated
  /\ state' = EndAnalysis(state)
  /\ Tell("cancel", CancelRecipient, 0)
  /\ UNCHANGED <<writing, attempt, live, view, effectDue, opened, writes, sent, pending>>

-----------------------------------------------------------------------------
(* React and the parent.                                                   *)

Commit ==
  /\ live /\ ~effectDue
  /\ handled \/ view.shown # state
  /\ view' = [view EXCEPT !.shown = state]
  /\ handled' = FALSE
  /\ UNCHANGED <<refs, state, effectDue, opened, writes, sent, pending, told>>

(* The parent renders another store with its callbacks, or another         *)
(* analyzer.                                                               *)
ParentRenders ==
  /\ live /\ ~effectDue /\ ~handled
  /\ \E c \in view.consumer..MaxConsumers, a \in Analyzers \cup {None} :
       /\ <<c, a>> # <<view.consumer, view.analyzer>>
       /\ c <= view.consumer + 1
       /\ view' = Rendered(state, c, a)
       /\ effectDue' = (a # view.analyzer)
  /\ UNCHANGED <<refs, state, handled, opened, writes, sent, pending, told>>

(* The effect of a replaced analyzer; the authorization is left alone.     *)
AnalyzerEffect ==
  /\ live /\ effectDue
  /\ effectDue' = FALSE
  /\ awaited' = 0
  /\ state' = EndAnalysis(state)
  /\ UNCHANGED <<outcome, writing, attempt, live, authorized, view, handled, opened, writes, sent, pending, told>>

(* What only the form read is gone with it; outcome and writing are read   *)
(* by a write that is still to be answered.                                *)
UnmountComposer ==
  /\ live
  /\ live' = FALSE
  /\ authorized' = None /\ awaited' = 0
  /\ state' = Blank /\ view' = Rendered(Blank, 1, None)
  /\ handled' = FALSE /\ effectDue' = FALSE
  /\ UNCHANGED <<outcome, writing, attempt, opened, writes, sent, pending, told>>

StoreAnswers == \E w \in DOMAIN writes : WriteFails(w) \/ WriteLands(w) \/ CleanupAnswers(w)

ComposerNext ==
  \/ ChoosePhoto \/ RemovePhoto
  \/ RequestAnalysis \/ AcceptDisclosure \/ DeclineDisclosure \/ KeepSuggestions
  \/ AnalysisAnswers
  \/ Save \/ Cancel \/ StoreAnswers
  \/ Commit \/ ParentRenders \/ AnalyzerEffect \/ UnmountComposer

ComposerSpec == ComposerInit /\ [][ComposerNext]_composerVars

-----------------------------------------------------------------------------
(* Properties.                                                             *)

(* completeWithPhoto and cancel: a composer calls back once, never after   *)
(* it was taken down; a blob's key goes to the callback that was rendered  *)
(* with the store that holds the blob, and a cancellation while a write is *)
(* in flight to the consumer that started it.                              *)
HandoffOnce ==
  [][told' # told =>
       /\ live /\ told = << >>
       /\ told'[1].write # 0 => told'[1].consumer = writes[told'[1].write].consumer
       /\ outcome' = "cancelled" /\ writing =>
            told'[1].consumer = writes[Len(writes)].consumer]_composerVars

(* requestAnalysis and acceptDisclosure: a photo leaves the device only by *)
(* a disclosure that was not spent before, and it is the photo the form    *)
(* holds at that moment.                                                   *)
EgressDisclosed ==
  [][sent' # sent =>
       LET call == sent'[Len(sent')]
       IN call.source \in Remote =>
            /\ call.disclosure # 0
            /\ \A n \in DOMAIN sent : sent[n].disclosure # call.disclosure
            /\ [call |-> Len(sent'), file |-> state.photo] \in pending']_composerVars

(* runAnalysis, dropAnalysis and save: an analysis or a failure on show is *)
(* of the photo on show, and an analysis is only handed over with the      *)
(* photo it was made of; and, as acceptDisclosure asserts, a composition   *)
(* that is over, or whose Save is under way, holds no authorization to     *)
(* send its photo.                                                         *)
AnalysisDescribesPhoto ==
  /\ state.analysis # None => state.analysis.file = state.photo
  /\ state.failed # None => state.failed = state.photo
  /\ \A w \in DOMAIN writes : writes[w].kept \in {None, writes[w].file}
  /\ authorized # None => AcceptsWork

(* endAnalysis and completeWithPhoto: "Analysing" stands for a request     *)
(* whose answer is still wanted, and "Saving" for a write or a cleanup     *)
(* that is still to be answered; `writing` stands for the one write in     *)
(* flight, so that there is no second Save, no Save after a handoff, and a *)
(* retry only when its predecessor was rejected.                           *)
NothingStranded ==
  /\ state.analyzing => \E p \in pending : p.call = awaited
  /\ live => (state.busy <=> \E w \in DOMAIN writes : writes[w].status \in {"asked", "deleting"})
  /\ {w \in DOMAIN writes : writes[w].status = "asked"} = IF writing THEN {Len(writes)} ELSE {}

(* What leaves the form: its one callback, and the photo an analyzer is    *)
(* sent.                                                                   *)
LeavesAsAgreed == HandoffOnce /\ EgressDisclosed

(* What stays in it, of the photo it holds and of the work begun on it.    *)
WorkIsFollowed == AnalysisDescribesPhoto /\ NothingStranded
=============================================================================
