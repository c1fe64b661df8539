------------------------------- MODULE EventForm -------------------------------
(***************************************************************************)
(* The form of the event composer, packages/react/src/event-composer.ts:   *)
(* the controls it renders, and what a save makes of what the user left in *)
(* them.                                                                   *)
(*                                                                         *)
(* A spec is [key, type, required, options], `options` the values a select *)
(* offers, any of which may be Empty.  A control holds what was left in    *)
(* it: `checked`, `selected` -- 0 is the blank option -- or `typed`.       *)
(***************************************************************************)
EXTENDS Sequencing, SequencesExt

CONSTANTS NoValue,  \* undefined
          Empty     \* the empty string

ASSUME EventFormAssumption == NoValue \notin Int \cup BOOLEAN \cup {Empty} /\ Empty \notin Int

(* Two specs of one key could not be told apart: the composer throws.      *)
FirstDuplicateKey(specs) ==
  LET again == {n \in DOMAIN specs : \E m \in 1..(n - 1) : specs[m].key = specs[n].key}
  IN IF again = {} THEN NoValue
     ELSE specs[CHOOSE n \in again : \A m \in again : n <= m].key

(* A control as it is first rendered: a select has a blank option before   *)
(* those of its spec.                                                      *)
RenderField(spec) ==
  CASE spec.type = "select"  -> [selected |-> 0]
    [] spec.type = "boolean" -> [checked |-> FALSE]
    [] OTHER                 -> [typed |-> Empty]

(* The controls of the form, and its category's when there are categories. *)
RenderForm(specs, categories) ==
  [comment |-> Empty,
   category |-> IF categories = NoValue THEN NoValue ELSE 0,
   controls |-> [n \in DOMAIN specs |-> RenderField(specs[n])]]

(* What the user may leave in a control: a number's takes no other text.   *)
LeftIn(spec) ==
  CASE spec.type = "select"  -> {[selected |-> n] : n \in 0..Len(spec.options)}
    [] spec.type = "boolean" -> {[checked |-> b] : b \in BOOLEAN}
    [] spec.type = "number"  -> {[typed |-> text] : text \in {Empty, 0, 1}}
    [] OTHER                 -> {[typed |-> text] : text \in {Empty, 1}}

Chosen(selected, options) == IF selected = 0 THEN NoValue ELSE options[selected]

(* An unchecked box is an answer, and so is a typed 0.                     *)
ReadFieldValue(spec, control) ==
  CASE spec.type = "boolean" -> control.checked
    [] spec.type = "select"  -> Chosen(control.selected, spec.options)
    [] OTHER                 -> IF control.typed = Empty THEN NoValue ELSE control.typed

(* What Save hands over, or the required fields it asks for.               *)
SaveForm(specs, categories, form) ==
  LET value(n) == ReadFieldValue(specs[n], form.controls[n])
      answered == {n \in DOMAIN specs : value(n) # NoValue}
      of(key) == CHOOSE n \in answered : specs[n].key = key
      missing == {n \in DOMAIN specs \ answered : specs[n].required}
  IN [missing |-> Picked([n \in DOMAIN specs |-> n], missing),
      comment |-> IF form.comment = Empty THEN NoValue ELSE form.comment,
      category |-> IF form.category = NoValue THEN NoValue ELSE Chosen(form.category, categories),
      fields |-> IF answered = {} THEN NoValue
                 ELSE [key \in {specs[n].key : n \in answered} |-> value(of(key))]]

-----------------------------------------------------------------------------
(* Properties.                                                             *)

(* readFieldValue and save: what the user said comes through -- two ways   *)
(* to fill the form that differ hand over events that differ, and nothing  *)
(* is handed over for what was left as rendered, but a box is always an    *)
(* answer; a save asks for exactly the required fields left as rendered.   *)
FormComesThrough(specs, categories) ==
  LET blank == RenderForm(specs, categories)
      forms == [comment : {Empty, 1},
                category : IF categories = NoValue THEN {NoValue} ELSE 0..Len(categories),
                controls : {filled \in [DOMAIN specs -> UNION {LeftIn(specs[n]) : n \in DOMAIN specs}] :
                              \A n \in DOMAIN specs : filled[n] \in LeftIn(specs[n])}]
      saved(form) == SaveForm(specs, categories, form)
      leftAlone(form) == {n \in DOMAIN specs : /\ specs[n].type # "boolean"
                                               /\ form.controls[n] = blank.controls[n]}
  IN \/ FirstDuplicateKey(specs) # NoValue
     \/ \A form \in forms :
          /\ ToSet(saved(form).missing) = {n \in leftAlone(form) : specs[n].required}
          /\ IF saved(form).fields = NoValue THEN leftAlone(form) = DOMAIN specs
             ELSE DOMAIN saved(form).fields = {specs[n].key : n \in DOMAIN specs \ leftAlone(form)}
          /\ \A other \in forms : saved(form) = saved(other) => form = other
=============================================================================
