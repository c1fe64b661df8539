--------------------------- MODULE PortabilityProofs ---------------------------
(***************************************************************************)
(* What leaves one place arrives at the other, for tracks, documents,      *)
(* forms and regions of any size: an exported trip comes back, an import   *)
(* repairs nothing of the document it accepts, a form saves what was left  *)
(* in it and no two forms alike, a region is had for the very sources      *)
(* asked for and only archives somebody licensed, and it is read from its  *)
(* newest archive.                                                         *)
(***************************************************************************)
EXTENDS TrackProofs

(* What is picked of the places themselves.                                *)
LEMMA PickedPlaces ==
  ASSUME NEW n \in Nat, NEW places \in SUBSET (1..n)
  PROVE  /\ ToSet(Picked([i \in 1..n |-> i], places)) = places
         /\ Picked([i \in 1..n |-> i], places) \in Seq(places)
<1> DEFINE all == [i \in 1..n |-> i]
           size == Cardinality(places)
<1>1. PICK p : \A s : PickedBy(p, s, places)
  BY PickedOf
<1>2. Rising(p, places) /\ size \in Nat /\ Picked(all, places) = [k \in 1..size |-> all[p[k]]]
  <2> HIDE DEF all
  <2> QED
    BY <1>1 DEF PickedBy
<1>3. (\A k \in 1..size : p[k] \in places) /\ \A x \in places : \E k \in 1..size : p[k] = x
  BY <1>2 DEF Rising
<1>4. \A k \in 1..size : all[p[k]] = p[k]
  BY <1>3
<1> DEFINE w == Picked(all, places)
<1> HIDE DEF all, size
<1>5. DOMAIN w = 1..size /\ \A k \in 1..size : w[k] = p[k]
  BY <1>2, <1>4
<1>6. w \in [1..size -> places]
  BY <1>2, <1>3, <1>4
<1>7. w \in Seq(places)
  BY <1>2, <1>6, SeqDef
<1> HIDE DEF w
<1>8. ToSet(w) = places
  BY <1>3, <1>5 DEF ToSet
<1> QED
  BY <1>7, <1>8 DEF w, all

-----------------------------------------------------------------------------
(* The event composer's form.                                              *)

(* A list of values to choose from has each of them once.                  *)
Offered(values) ==
  /\ values \in Seq(ToSet(values)) /\ NoValue \notin ToSet(values)
  /\ \A i, j \in DOMAIN values : values[i] = values[j] => i = j

(* What a select answers: nothing for the blank option, and each other one *)
(* its own.                                                                *)
LEMMA ChosenIs ==
  ASSUME NEW values, Offered(values), NEW i \in 0..Len(values), NEW j \in 0..Len(values)
  PROVE  /\ Chosen(i, values) = NoValue <=> i = 0
         /\ Chosen(i, values) = Chosen(j, values) => i = j
<1>1. Len(values) \in Nat /\ DOMAIN values = 1..Len(values)
  BY DEF Offered
<1>2. \A k \in 1..Len(values) : values[k] # NoValue
  BY <1>1 DEF Offered, ToSet
<1>3. \A k \in 0..Len(values) : k # 0 => k \in 1..Len(values) /\ Chosen(k, values) = values[k]
  BY <1>1 DEF Chosen
<1>4. Chosen(0, values) = NoValue
  BY DEF Chosen
<1>5. \A k, l \in 1..Len(values) : values[k] = values[l] => k = l
  BY <1>1 DEF Offered
<1> QED
  BY <1>2, <1>3, <1>4, <1>5

(* What a control is read as tells what was left in it.                    *)
LEMMA ControlRead ==
  ASSUME NEW spec, spec.type = "select" => Offered(spec.options),
         NEW control \in LeftIn(spec), NEW other \in LeftIn(spec)
  PROVE  /\ ReadFieldValue(spec, control) = NoValue <=> (spec.type # "boolean" /\ control = RenderField(spec))
         /\ ReadFieldValue(spec, control) = ReadFieldValue(spec, other) => control = other
<1> DEFINE type == spec.type
<1>1. CASE type = "select"
  <2>1. PICK i \in 0..Len(spec.options) : control = [selected |-> i]
    BY <1>1 DEF LeftIn
  <2>2. PICK j \in 0..Len(spec.options) : other = [selected |-> j]
    BY <1>1 DEF LeftIn
  <2>3. RenderField(spec) = [selected |-> 0]
    BY <1>1 DEF RenderField
  <2>4. /\ ReadFieldValue(spec, control) = Chosen(i, spec.options)
        /\ ReadFieldValue(spec, other) = Chosen(j, spec.options)
    BY <1>1, <2>1, <2>2 DEF ReadFieldValue
  <2>5. (Chosen(i, spec.options) = NoValue <=> i = 0) /\ (Chosen(i, spec.options) = Chosen(j, spec.options) => i = j)
    BY <1>1, ChosenIs
  <2>6. [selected |-> i].selected = i
    OBVIOUS
  <2>7. control.selected = i
    BY <2>1, <2>6
  <2>8. RenderField(spec).selected = 0
    BY <2>3
  <2> QED
    BY <1>1, <2>1, <2>2, <2>3, <2>4, <2>5, <2>7, <2>8
<1>2. CASE type = "boolean"
  <2>1. PICK b \in BOOLEAN : control = [checked |-> b]
    BY <1>2 DEF LeftIn
  <2>2. PICK c \in BOOLEAN : other = [checked |-> c]
    BY <1>2 DEF LeftIn
  <2>3. ReadFieldValue(spec, control) = b /\ ReadFieldValue(spec, other) = c
    BY <1>2, <2>1, <2>2 DEF ReadFieldValue
  <2>4. b # NoValue
    BY EventFormAssumption
  <2> QED
    BY <1>2, <2>1, <2>2, <2>3, <2>4
<1>3. CASE type # "select" /\ type # "boolean"
  <2>1. PICK u \in {Empty, 0, 1} : control = [typed |-> u]
    BY <1>3 DEF LeftIn
  <2>2. PICK v \in {Empty, 0, 1} : other = [typed |-> v]
    BY <1>3 DEF LeftIn
  <2>3. RenderField(spec) = [typed |-> Empty]
    BY <1>3 DEF RenderField
  <2>4. /\ ReadFieldValue(spec, control) = IF u = Empty THEN NoValue ELSE u
        /\ ReadFieldValue(spec, other) = IF v = Empty THEN NoValue ELSE v
    BY <1>3, <2>1, <2>2 DEF ReadFieldValue
  <2>5. 0 # NoValue /\ 1 # NoValue
    BY EventFormAssumption
  <2>6. control.typed = u /\ RenderField(spec).typed = Empty
    BY <2>1, <2>3
  <2> QED
    BY <1>3, <2>1, <2>2, <2>3, <2>4, <2>5, <2>6
<1> QED
  BY <1>1, <1>2, <1>3

(* With keys of their own, no spec is told apart from another by accident. *)
LEMMA KeysAreOwn ==
  ASSUME NEW specs, Len(specs) \in Nat, DOMAIN specs = 1..Len(specs),
         \A n \in DOMAIN specs : specs[n].key # NoValue, FirstDuplicateKey(specs) = NoValue
  PROVE  \A m, n \in DOMAIN specs : specs[m].key = specs[n].key => m = n
<1> DEFINE again == {n \in DOMAIN specs : \E m \in 1..(n - 1) : specs[m].key = specs[n].key}
           one == CHOOSE n \in again : \A m \in again : n <= m
<1>1. again = {}
  <2> SUFFICES ASSUME again # {} PROVE FALSE
    OBVIOUS
  <2>1. FirstDuplicateKey(specs) = specs[one].key
    BY DEF FirstDuplicateKey
  <2>2. again \in SUBSET (1..Len(specs))
    OBVIOUS
  <2>3. one \in again
    <3> HIDE DEF again
    <3>1. Min(again) \in again /\ \A x \in again : Min(again) <= x
      BY <2>2, LeastIs
    <3> QED
      BY <3>1
  <2>4. one \in DOMAIN specs
    BY <2>3
  <2> HIDE DEF one
  <2> QED
    BY <2>1, <2>4
<1> SUFFICES ASSUME NEW m \in 1..Len(specs), NEW n \in 1..Len(specs), specs[m].key = specs[n].key, m < n
             PROVE  FALSE
  OBVIOUS
<1>2. n \in again
  OBVIOUS
<1> QED
  BY <1>1, <1>2

(* What the controls of a form can be read as.                             *)
Sayable(specs) ==
  BOOLEAN \cup {Empty, 0, 1} \cup UNION {ToSet(specs[n].options) : n \in {m \in DOMAIN specs : specs[m].type = "select"}}

ReadAs(specs, form) == [n \in DOMAIN specs |-> ReadFieldValue(specs[n], form.controls[n])]
Answered(specs, form) == {n \in DOMAIN specs : ReadAs(specs, form)[n] # NoValue}
AnsweredUnder(specs, form, key) == CHOOSE n \in Answered(specs, form) : specs[n].key = key
FieldsOf(specs, form) ==
  IF Answered(specs, form) = {} THEN NoValue
  ELSE [key \in {specs[n].key : n \in Answered(specs, form)} |->
          ReadAs(specs, form)[AnsweredUnder(specs, form, key)]]
Required(specs, form) == {n \in DOMAIN specs \ Answered(specs, form) : specs[n].required}

(* What a save hands over, in the terms of this module.                    *)
LEMMA SavedIs ==
  ASSUME NEW specs, NEW categories, NEW form
  PROVE  SaveForm(specs, categories, form) =
           [missing |-> Picked([n \in DOMAIN specs |-> n], Required(specs, form)),
            comment |-> IF form.comment = Empty THEN NoValue ELSE form.comment,
            category |-> IF form.category = NoValue THEN NoValue ELSE Chosen(form.category, categories),
            fields |-> FieldsOf(specs, form)]
<1> DEFINE value(n) == ReadFieldValue(specs[n], form.controls[n])
           answered == {n \in DOMAIN specs : value(n) # NoValue}
           of(key) == CHOOSE n \in answered : specs[n].key = key
<1>1. \A n \in DOMAIN specs : ReadAs(specs, form)[n] = value(n)
  BY DEF ReadAs
<1>2. Answered(specs, form) = answered
  BY <1>1 DEF Answered
<1>3. \A n \in answered : ReadAs(specs, form)[n] = value(n)
  BY <1>1
<1>4. Required(specs, form) = {n \in DOMAIN specs \ answered : specs[n].required}
  BY <1>2 DEF Required
<1>5. \A key \in {specs[n].key : n \in answered} :
        AnsweredUnder(specs, form, key) = of(key) /\ of(key) \in answered
  BY <1>2 DEF AnsweredUnder
<1>6. FieldsOf(specs, form) = IF answered = {} THEN NoValue
                              ELSE [key \in {specs[n].key : n \in answered} |-> value(of(key))]
  <2>1. \A key \in {specs[n].key : n \in answered} :
          ReadAs(specs, form)[AnsweredUnder(specs, form, key)] = value(of(key))
    <3> HIDE DEF value, answered, of
    <3> QED
      BY <1>3, <1>5
  <2> HIDE DEF value, answered, of
  <2>2. FieldsOf(specs, form) =
          IF answered = {} THEN NoValue
          ELSE [key \in {specs[n].key : n \in answered} |-> ReadAs(specs, form)[AnsweredUnder(specs, form, key)]]
    BY <1>2 DEF FieldsOf
  <2> QED
    BY <2>1, <2>2
<1> QED
  BY <1>4, <1>6 DEF SaveForm

(* The forms a user can leave.                                             *)
Forms(specs, categories) ==
  [comment : {Empty, 1},
   category : IF categories = NoValue THEN {NoValue} ELSE 0..Len(categories),
   controls : {filled \in [DOMAIN specs -> UNION {LeftIn(specs[n]) : n \in DOMAIN specs}] :
                 \A n \in DOMAIN specs : filled[n] \in LeftIn(specs[n])}]

LeftAlone(specs, form) ==
  {n \in DOMAIN specs : specs[n].type # "boolean" /\ form.controls[n] = RenderField(specs[n])}

Choosable(specs) == \A n \in DOMAIN specs : specs[n].type = "select" => Offered(specs[n].options)

(* Answered is all but what was left alone; of that, what is required is   *)
(* asked for.                                                              *)
LEMMA AnsweredAre ==
  ASSUME NEW specs, NEW categories, Choosable(specs), NEW form \in Forms(specs, categories)
  PROVE  /\ Answered(specs, form) = DOMAIN specs \ LeftAlone(specs, form)
         /\ Required(specs, form) = {n \in LeftAlone(specs, form) : specs[n].required}
<1>1. \A n \in DOMAIN specs : form.controls[n] \in LeftIn(specs[n])
  BY DEF Forms
<1>2. \A n \in DOMAIN specs :
        ReadAs(specs, form)[n] = NoValue <=> (specs[n].type # "boolean" /\ form.controls[n] = RenderField(specs[n]))
  <2> SUFFICES ASSUME NEW n \in DOMAIN specs
               PROVE  ReadFieldValue(specs[n], form.controls[n]) = NoValue
                        <=> (specs[n].type # "boolean" /\ form.controls[n] = RenderField(specs[n]))
    BY DEF ReadAs
  <2>1. specs[n].type = "select" => Offered(specs[n].options)
    BY DEF Choosable
  <2> QED
    BY <1>1, <2>1, ControlRead
<1>3. Answered(specs, form) = DOMAIN specs \ LeftAlone(specs, form)
  BY <1>2 DEF Answered, LeftAlone
<1>4. LeftAlone(specs, form) \subseteq DOMAIN specs
  BY DEF LeftAlone
<1> QED
  BY <1>3, <1>4 DEF Required

(* What a control is read as is an answer, unless it says nothing.         *)
LEMMA ReadsAreAnswers ==
  ASSUME NEW specs, NEW n \in DOMAIN specs, Choosable(specs), NEW control \in LeftIn(specs[n])
  PROVE  ReadFieldValue(specs[n], control) \in Sayable(specs) \cup {NoValue}
<1> DEFINE spec == specs[n]
<1>1. CASE spec.type = "select"
  <2>1. PICK i \in 0..Len(spec.options) : control = [selected |-> i]
    BY <1>1 DEF LeftIn
  <2>2. control.selected = i
    BY <2>1
  <2>3. ReadFieldValue(spec, control) = Chosen(i, spec.options)
    BY <1>1, <2>2 DEF ReadFieldValue
  <2>4. spec.options \in Seq(ToSet(spec.options))
    BY <1>1 DEF Choosable, Offered
  <2>5. i # 0 => spec.options[i] \in ToSet(spec.options)
    BY <2>4
  <2>6. ToSet(spec.options) \subseteq Sayable(specs)
    BY <1>1 DEF Sayable
  <2> QED
    BY <2>3, <2>5, <2>6 DEF Chosen
<1>2. CASE spec.type = "boolean"
  <2>1. PICK b \in BOOLEAN : control = [checked |-> b]
    BY <1>2 DEF LeftIn
  <2>2. ReadFieldValue(spec, control) = b
    BY <1>2, <2>1 DEF ReadFieldValue
  <2>3. b \in Sayable(specs)
    BY DEF Sayable
  <2> QED
    BY <2>2, <2>3
<1>3. CASE spec.type # "select" /\ spec.type # "boolean"
  <2>1. PICK u \in {Empty, 0, 1} : control = [typed |-> u]
    BY <1>3 DEF LeftIn
  <2>2. ReadFieldValue(spec, control) = IF u = Empty THEN NoValue ELSE u
    BY <1>3, <2>1 DEF ReadFieldValue
  <2>3. u \in Sayable(specs)
    BY DEF Sayable
  <2> QED
    BY <2>2, <2>3
<1> QED
  BY <1>1, <1>2, <1>3

(* The fields handed over are those answered, each under its key.          *)
LEMMA FieldsAre ==
  ASSUME NEW specs, NEW categories, Choosable(specs), NEW form \in Forms(specs, categories),
         \A m, n \in DOMAIN specs : specs[m].key = specs[n].key => m = n,
         \A K \in SUBSET {specs[n].key : n \in DOMAIN specs} : NoValue \notin [K -> Sayable(specs)]
  PROVE  /\ FieldsOf(specs, form) = NoValue <=> Answered(specs, form) = {}
         /\ Answered(specs, form) # {} =>
              /\ DOMAIN FieldsOf(specs, form) = {specs[n].key : n \in Answered(specs, form)}
              /\ \A n \in Answered(specs, form) : FieldsOf(specs, form)[specs[n].key] = ReadAs(specs, form)[n]
<1> DEFINE A == Answered(specs, form)
           K == {specs[n].key : n \in A}
           read == ReadAs(specs, form)
           under(key) == AnsweredUnder(specs, form, key)
           fields == [key \in K |-> read[under(key)]]
<1> SUFFICES ASSUME A # {}
             PROVE  /\ fields # NoValue
                    /\ \A n \in A : fields[specs[n].key] = read[n]
  BY DEF FieldsOf
<1>1. A \subseteq DOMAIN specs
  BY DEF Answered
<1>2. \A n \in A : under(specs[n].key) = n
  <2> TAKE n \in A
  <2>1. \A m \in A : specs[m].key = specs[n].key => m = n
    BY <1>1
  <2> HIDE DEF A
  <2> QED
    BY <2>1 DEF AnsweredUnder, A
<1>3. \A n \in A : read[n] \in Sayable(specs)
  <2> TAKE n \in A
  <2>1. n \in DOMAIN specs /\ form.controls[n] \in LeftIn(specs[n])
    BY <1>1 DEF Forms
  <2>2. read[n] = ReadFieldValue(specs[n], form.controls[n]) /\ read[n] # NoValue
    BY <2>1 DEF ReadAs, Answered
  <2> QED
    BY <2>1, <2>2, ReadsAreAnswers
<1> HIDE DEF A, read, under
<1>4. fields \in [K -> Sayable(specs)]
  BY <1>2, <1>3
<1>5. K \in SUBSET {specs[n].key : n \in DOMAIN specs}
  BY <1>1
<1>6. fields # NoValue
  BY <1>4, <1>5
<1> QED
  BY <1>2, <1>6

(* Two ways to fill the form that hand over the same are the same.         *)
LEMMA SavesTellApart ==
  ASSUME NEW specs, NEW categories, Choosable(specs), categories = NoValue \/ Offered(categories),
         NEW form \in Forms(specs, categories), NEW other \in Forms(specs, categories),
         \A m, n \in DOMAIN specs : specs[m].key = specs[n].key => m = n,
         \A K \in SUBSET {specs[n].key : n \in DOMAIN specs} : NoValue \notin [K -> Sayable(specs)],
         SaveForm(specs, categories, form) = SaveForm(specs, categories, other)
  PROVE  form = other
<1> DEFINE saved(f) == SaveForm(specs, categories, f)
           A(f) == Answered(specs, f)
           read(f) == ReadAs(specs, f)
           fields(f) == FieldsOf(specs, f)
<1>1. \A f \in Forms(specs, categories) :
        /\ saved(f).comment = IF f.comment = Empty THEN NoValue ELSE f.comment
        /\ saved(f).category = IF f.category = NoValue THEN NoValue ELSE Chosen(f.category, categories)
        /\ saved(f).fields = fields(f)
  BY SavedIs
<1>2. form.comment = other.comment
  <2>1. form.comment \in {Empty, 1} /\ other.comment \in {Empty, 1}
    BY DEF Forms
  <2>2. 1 # NoValue /\ saved(form).comment = saved(other).comment
    BY EventFormAssumption
  <2> HIDE DEF saved
  <2> QED
    BY <1>1, <2>1, <2>2
<1>3. form.category = other.category
  <2>1. CASE categories = NoValue
    BY <2>1 DEF Forms
  <2>2. CASE categories # NoValue
    <3>1. form.category \in 0..Len(categories) /\ other.category \in 0..Len(categories)
      BY <2>2 DEF Forms
    <3>2. NoValue \notin Int
      BY EventFormAssumption
    <3>3. form.category # NoValue /\ other.category # NoValue
      BY <3>1, <3>2
    <3>4. saved(form).category = saved(other).category
      OBVIOUS
    <3>5. Chosen(form.category, categories) = Chosen(other.category, categories)
      <4> HIDE DEF saved
      <4> QED
        BY <1>1, <3>3, <3>4
    <3> QED
      BY <2>2, <3>1, <3>5, ChosenIs
  <2> QED
    BY <2>1, <2>2
<1>4. fields(form) = fields(other)
  <2>1. saved(form).fields = saved(other).fields
    OBVIOUS
  <2> HIDE DEF saved, fields
  <2> QED
    BY <1>1, <2>1
<1>5. \A f \in Forms(specs, categories) :
        /\ fields(f) = NoValue <=> A(f) = {}
        /\ A(f) # {} => /\ DOMAIN fields(f) = {specs[n].key : n \in A(f)}
                        /\ \A n \in A(f) : fields(f)[specs[n].key] = read(f)[n]
  <2> TAKE f \in Forms(specs, categories)
  <2> QED
    BY FieldsAre
<1>6. A(form) \subseteq DOMAIN specs /\ A(other) \subseteq DOMAIN specs
  BY DEF Answered
<1>7. A(form) = A(other)
  <2>1. A(form) = {} <=> A(other) = {}
    BY <1>4, <1>5
  <2>2. A(form) # {} => {specs[n].key : n \in A(form)} = {specs[n].key : n \in A(other)}
    BY <1>4, <1>5, <2>1
  <2> HIDE DEF A, fields
  <2>3. ASSUME A(form) # {} PROVE A(form) \subseteq A(other) /\ A(other) \subseteq A(form)
    <3>1. ASSUME NEW n \in A(form) PROVE n \in A(other)
      <4>1. PICK m \in A(other) : specs[m].key = specs[n].key
        BY <2>2, <2>3
      <4> QED
        BY <1>6, <4>1
    <3>2. ASSUME NEW n \in A(other) PROVE n \in A(form)
      <4>1. PICK m \in A(form) : specs[m].key = specs[n].key
        BY <2>2, <2>3
      <4> QED
        BY <1>6, <4>1
    <3> QED
      BY <3>1, <3>2
  <2> QED
    BY <2>1, <2>3
<1>8. \A n \in DOMAIN specs : read(form)[n] = read(other)[n]
  <2> TAKE n \in DOMAIN specs
  <2>1. CASE n \in A(form)
    <3>1. A(form) # {} /\ A(other) # {} /\ n \in A(other)
      BY <1>7, <2>1
    <3> HIDE DEF A, fields, read
    <3>2. fields(form)[specs[n].key] = read(form)[n]
      BY <1>5, <2>1, <3>1
    <3>3. fields(other)[specs[n].key] = read(other)[n]
      BY <1>5, <3>1
    <3> QED
      BY <1>4, <3>2, <3>3
  <2>2. CASE n \notin A(form)
    <3>1. n \notin A(other)
      BY <1>7, <2>2
    <3> QED
      BY <2>2, <3>1 DEF Answered
  <2> QED
    BY <2>1, <2>2
<1>9. form.controls = other.controls
  <2>1. \A n \in DOMAIN specs : form.controls[n] = other.controls[n]
    <3> TAKE n \in DOMAIN specs
    <3>1. form.controls[n] \in LeftIn(specs[n]) /\ other.controls[n] \in LeftIn(specs[n])
      BY DEF Forms
    <3>2. read(form)[n] = ReadFieldValue(specs[n], form.controls[n])
      BY DEF ReadAs
    <3>3. read(other)[n] = ReadFieldValue(specs[n], other.controls[n])
      BY DEF ReadAs
    <3>4. specs[n].type = "select" => Offered(specs[n].options)
      BY DEF Choosable
    <3>5. ReadFieldValue(specs[n], form.controls[n]) = ReadFieldValue(specs[n], other.controls[n])
      BY <1>8, <3>2, <3>3
    <3> QED
      BY <3>1, <3>4, <3>5, ControlRead
  <2>2. /\ form.controls \in [DOMAIN specs -> UNION {LeftIn(specs[n]) : n \in DOMAIN specs}]
        /\ other.controls \in [DOMAIN specs -> UNION {LeftIn(specs[n]) : n \in DOMAIN specs}]
    BY DEF Forms
  <2> QED
    BY <2>1, <2>2
<1> QED
  BY <1>2, <1>3, <1>9 DEF Forms

(* What the user said comes through: whatever fields the app declares and  *)
(* however many, two ways to fill the composer's form that differ hand     *)
(* over events that differ, nothing is handed over for what was left as    *)
(* rendered but for a box, and a save asks for exactly the required fields *)
(* left so (renderForm, readFieldValue, save).                             *)
THEOREM FormsComeThrough ==
  ASSUME NEW specs, Len(specs) \in Nat, DOMAIN specs = 1..Len(specs),
         \A n \in DOMAIN specs : specs[n].key # NoValue,
         Choosable(specs),
         \A K \in SUBSET {specs[n].key : n \in DOMAIN specs} : NoValue \notin [K -> Sayable(specs)],
         NEW categories, categories = NoValue \/ Offered(categories)
  PROVE  FormComesThrough(specs, categories)
<1> DEFINE blank == RenderForm(specs, categories)
           forms == Forms(specs, categories)
           saved(form) == SaveForm(specs, categories, form)
           leftAlone(form) == {n \in DOMAIN specs : /\ specs[n].type # "boolean"
                                                    /\ form.controls[n] = blank.controls[n]}
<1> SUFFICES ASSUME FirstDuplicateKey(specs) = NoValue, NEW form \in forms
             PROVE  /\ ToSet(saved(form).missing) = {n \in leftAlone(form) : specs[n].required}
                    /\ IF saved(form).fields = NoValue THEN leftAlone(form) = DOMAIN specs
                       ELSE DOMAIN saved(form).fields = {specs[n].key : n \in DOMAIN specs \ leftAlone(form)}
                    /\ \A other \in forms : saved(form) = saved(other) => form = other
  BY DEF FormComesThrough, Forms
<1>1. \A m, n \in DOMAIN specs : specs[m].key = specs[n].key => m = n
  BY KeysAreOwn
<1>2. leftAlone(form) = LeftAlone(specs, form)
  BY DEF LeftAlone, RenderForm
<1>3. /\ Answered(specs, form) = DOMAIN specs \ LeftAlone(specs, form)
      /\ Required(specs, form) = {n \in LeftAlone(specs, form) : specs[n].required}
  BY AnsweredAre
<1>4. /\ saved(form).missing = Picked([n \in DOMAIN specs |-> n], Required(specs, form))
      /\ saved(form).fields = FieldsOf(specs, form)
  BY SavedIs
<1>5. ToSet(saved(form).missing) = Required(specs, form)
  <2>1. Required(specs, form) \in SUBSET (1..Len(specs))
    BY DEF Required
  <2>2. ToSet(Picked([i \in 1..Len(specs) |-> i], Required(specs, form))) = Required(specs, form)
    BY <2>1, PickedPlaces
  <2> HIDE DEF saved
  <2> QED
    BY <1>4, <2>2
<1>6. IF saved(form).fields = NoValue THEN LeftAlone(specs, form) = DOMAIN specs
      ELSE DOMAIN saved(form).fields = {specs[n].key : n \in DOMAIN specs \ LeftAlone(specs, form)}
  <2>1. /\ FieldsOf(specs, form) = NoValue <=> Answered(specs, form) = {}
        /\ Answered(specs, form) # {} =>
             DOMAIN FieldsOf(specs, form) = {specs[n].key : n \in Answered(specs, form)}
    BY <1>1, FieldsAre
  <2>2. LeftAlone(specs, form) \subseteq DOMAIN specs
    BY DEF LeftAlone
  <2> HIDE DEF saved
  <2> QED
    BY <1>3, <1>4, <2>1, <2>2
<1>7. \A other \in forms : saved(form) = saved(other) => form = other
  BY <1>1, SavesTellApart
<1> HIDE DEF saved, leftAlone, forms
<1> QED
  BY <1>2, <1>3, <1>5, <1>6, <1>7

(* The sources of an app: each has an id of its own, and a role if any.    *)
Sourced(sources) ==
  /\ Len(sources) \in Nat /\ DOMAIN sources = 1..Len(sources)
  /\ \A i, j \in DOMAIN sources : sources[i].id = sources[j].id => i = j

Roles(sources) == \A i \in DOMAIN sources : sources[i].role \in {Omitted, "base", "overlay", "terrain"}

Listed(ids) == Len(ids) \in Nat /\ DOMAIN ids = 1..Len(ids)

(* Of an id there is one source, or none.                                  *)
LEMMA ConfiguredIs ==
  ASSUME NEW sources, Sourced(sources), NEW id
  PROVE  /\ \A i \in DOMAIN sources : sources[i].id = id => Configured(sources, id) = <<sources[i]>>
         /\ (\A i \in DOMAIN sources : sources[i].id # id) => Configured(sources, id) = << >>
<1> DEFINE places == {i \in DOMAIN sources : sources[i].id = id}
<1>0. Len(sources) \in Nat /\ DOMAIN sources = 1..Len(sources)
  BY DEF Sourced
<1>1. PICK p : \A s : PickedBy(p, s, places)
  <2>1. places \in SUBSET (1..Len(sources))
    BY <1>0
  <2> HIDE DEF places
  <2> QED
    BY <1>0, <2>1, PickedOf
<1>2. Rising(p, places) /\ Configured(sources, id) = [k \in 1..Cardinality(places) |-> sources[p[k]]]
  <2> HIDE DEF places
  <2> QED
    BY <1>1 DEF PickedBy, Configured, places
<1>3. ASSUME NEW i \in DOMAIN sources, sources[i].id = id PROVE Configured(sources, id) = <<sources[i]>>
  <2>1. places = {i}
    BY <1>3 DEF Sourced
  <2>2. Cardinality(places) = 1
    BY <2>1, FS_Singleton
  <2>3. p[1] = i
    BY <1>2, <2>1, <2>2 DEF Rising
  <2> HIDE DEF places
  <2> QED
    BY <1>2, <2>2, <2>3
<1>4. ASSUME \A i \in DOMAIN sources : sources[i].id # id PROVE Configured(sources, id) = << >>
  <2>1. places = {}
    BY <1>4
  <2>2. Cardinality(places) = 0
    BY <2>1, FS_EmptySet
  <2> HIDE DEF places
  <2> QED
    BY <1>2, <2>2
<1> QED
  BY <1>3, <1>4

(* What is asked for when nothing is said: all but the elevation.          *)
LEMMA DefaultIdsAre ==
  ASSUME NEW sources, Sourced(sources), Roles(sources)
  PROVE  /\ Listed(DefaultIds(sources))
         /\ ToSet(DefaultIds(sources))
              = {sources[i].id : i \in {j \in DOMAIN sources : sources[j].role # "terrain"}}
<1> DEFINE places == {i \in DOMAIN sources : sources[i].role \in {Omitted, "base", "overlay"}}
           size == Cardinality(places)
           picked == Picked(sources, places)
<1>0. Len(sources) \in Nat /\ DOMAIN sources = 1..Len(sources)
  BY DEF Sourced
<1>1. places = {j \in DOMAIN sources : sources[j].role # "terrain"}
  <2>1. Omitted # "terrain"
    BY OmittedAssumption
  <2> QED
    BY <2>1 DEF Roles
<1>2. places \in SUBSET (1..Len(sources))
  BY <1>0
<1>3. DefaultIds(sources) = IdsOf(picked)
  BY DEF DefaultIds
<1> HIDE DEF places
<1>4. PICK p : \A s : PickedBy(p, s, places)
  BY <1>0, <1>2, PickedOf
<1>5. Rising(p, places) /\ size \in Nat /\ picked = [k \in 1..size |-> sources[p[k]]]
  BY <1>4 DEF PickedBy
<1>6. DefaultIds(sources) = [k \in 1..size |-> sources[p[k]].id]
  BY <1>3, <1>5 DEF IdsOf
<1>7. (\A k \in 1..size : p[k] \in places) /\ \A x \in places : \E k \in 1..size : p[k] = x
  BY <1>5 DEF Rising
<1> HIDE DEF size, picked
<1>8. Listed(DefaultIds(sources))
  <2>1. DefaultIds(sources) \in [1..size -> {sources[i].id : i \in DOMAIN sources}]
    BY <1>0, <1>2, <1>6, <1>7
  <2>2. DefaultIds(sources) \in Seq({sources[i].id : i \in DOMAIN sources})
    BY <1>5, <2>1, SeqDef
  <2> QED
    BY <2>2, LenProperties DEF Listed
<1>9. ToSet(DefaultIds(sources)) = {sources[i].id : i \in places}
  BY <1>6, <1>7 DEF ToSet
<1> QED
  BY <1>1, <1>8, <1>9

(* The sources asked for, by default or by name.                           *)
LEMMA RequestedAre ==
  ASSUME NEW sources, Sourced(sources), Roles(sources), NEW ids, ids = Omitted \/ Listed(ids)
  PROVE  /\ Listed(Requested(sources, ids))
         /\ ToSet(Requested(sources, ids)) =
              IF ids = Omitted THEN {sources[i].id : i \in {j \in DOMAIN sources : sources[j].role # "terrain"}}
              ELSE ToSet(ids)
BY DefaultIdsAre DEF Requested

(* A source that may be downloaded.                                        *)
MayHave(sources, id) ==
  \E i \in DOMAIN sources :
    sources[i].id = id /\ sources[i].offlineLicensed = TRUE /\ sources[i].transport = "pmtiles"

(* A region is had whole, or refused.                                      *)
LEMMA ResolvedAre ==
  ASSUME NEW sources, Sourced(sources), NEW ids, Listed(Requested(sources, ids))
  PROVE  /\ (Resolve(sources, ids).refused = "no")
              <=> (\A id \in ToSet(Requested(sources, ids)) : MayHave(sources, id))
         /\ Resolve(sources, ids).refused = "no" => Resolve(sources, ids).ids = Requested(sources, ids)
<1> DEFINE requested == Requested(sources, ids)
           licensed == AssertOfflineLicensed(sources, requested)
           other == \E n \in DOMAIN requested : Configured(sources, requested[n])[1].transport # "pmtiles"
<1>1. Resolve(sources, ids) =
        IF ~ licensed THEN [refused |-> "licence"]
        ELSE IF other THEN [refused |-> "transport"] ELSE [refused |-> "no", ids |-> requested]
  BY DEF Resolve
<1>2. /\ [refused |-> "licence"].refused = "licence"
      /\ [refused |-> "transport"].refused = "transport"
      /\ [refused |-> "no", ids |-> requested].refused = "no"
      /\ [refused |-> "no", ids |-> requested].ids = requested
  OBVIOUS
<1>3. (Resolve(sources, ids).refused = "no") <=> (licensed /\ ~ other)
  <2> HIDE DEF licensed, other, requested
  <2> QED
    BY <1>1, <1>2
<1>4. ToSet(requested) = {requested[n] : n \in DOMAIN requested}
  BY DEF ToSet
<1>5. ASSUME licensed, ~ other, NEW n \in DOMAIN requested PROVE MayHave(sources, requested[n])
  <2>1. PICK i \in DOMAIN sources : sources[i].id = requested[n] /\ sources[i].offlineLicensed = TRUE
    BY <1>5 DEF AssertOfflineLicensed
  <2>2. Configured(sources, requested[n])[1] = sources[i]
    BY <2>1, ConfiguredIs
  <2>3. sources[i].transport = "pmtiles"
    BY <1>5, <2>2
  <2> QED
    BY <2>1, <2>3 DEF MayHave
<1>6. ASSUME \A n \in DOMAIN requested : MayHave(sources, requested[n]) PROVE licensed /\ ~ other
  <2>1. licensed
    BY <1>6 DEF AssertOfflineLicensed, MayHave
  <2>2. ASSUME NEW n \in DOMAIN requested PROVE Configured(sources, requested[n])[1].transport = "pmtiles"
    <3>1. PICK i \in DOMAIN sources : sources[i].id = requested[n] /\ sources[i].transport = "pmtiles"
      BY <1>6 DEF MayHave
    <3>2. Configured(sources, requested[n])[1] = sources[i]
      BY <3>1, ConfiguredIs
    <3> QED
      BY <3>1, <3>2
  <2> QED
    BY <2>1, <2>2
<1>7. (licensed /\ ~ other) <=> (\A id \in ToSet(requested) : MayHave(sources, id))
  <2> HIDE DEF licensed, other, requested
  <2> QED
    BY <1>4, <1>5, <1>6
<1>8. (licensed /\ ~ other) => Resolve(sources, ids).ids = requested
  <2> HIDE DEF licensed, other, requested
  <2> QED
    BY <1>1, <1>2
<1> QED
  <2> HIDE DEF licensed, other
  <2> QED
    BY <1>3, <1>7, <1>8

(* A region is had whole or not at all: whatever sources an app has and    *)
(* whatever is asked of them, it is refused unless every source asked for  *)
(* is licensed and an archive, it covers those very sources, and a size is *)
(* quoted exactly when it may be had (assertOfflineLicensed, resolve).     *)
THEOREM RegionsAreLicensed ==
  ASSUME NEW sources, Sourced(sources), Roles(sources), NEW ids, ids = Omitted \/ Listed(ids)
  PROVE  OnlyLicensedRegions(sources, ids)
<1> DEFINE resolved == Resolve(sources, ids)
           source(id) == {sources[i] : i \in {j \in DOMAIN sources : sources[j].id = id}}
           mayHave(id) == \E s \in source(id) : s.offlineLicensed = TRUE /\ s.transport = "pmtiles"
           asked == IF ids = Omitted THEN {sources[i].id : i \in {j \in DOMAIN sources : sources[j].role # "terrain"}}
                    ELSE ToSet(ids)
           sizeOf == [id \in ToSet(IdsOf(sources)) |-> 1]
           weights == [n \in DOMAIN resolved.ids |-> sizeOf[resolved.ids[n]]]
<1>1. \A id : mayHave(id) <=> MayHave(sources, id)
  BY DEF MayHave
<1>2. Listed(Requested(sources, ids)) /\ ToSet(Requested(sources, ids)) = asked
  BY RequestedAre
<1>3. /\ (resolved.refused = "no") <=> (\A id \in ToSet(Requested(sources, ids)) : MayHave(sources, id))
      /\ resolved.refused = "no" => resolved.ids = Requested(sources, ids)
  BY <1>2, ResolvedAre
<1>4. (resolved.refused = "no") <=> (\A id \in asked : mayHave(id))
  <2> HIDE DEF resolved, asked, mayHave
  <2> QED
    BY <1>1, <1>2, <1>3
<1>5. resolved.refused = "no" => ToSet(resolved.ids) = asked
  <2> HIDE DEF resolved, asked
  <2> QED
    BY <1>2, <1>3
<1>6. EstimateSize(sources, ids, sizeOf) =
        IF resolved.refused # "no" THEN Omitted ELSE SumOver(weights, 0, Len(resolved.ids))
  BY DEF EstimateSize
<1>7. ASSUME resolved.refused = "no" PROVE SumOver(weights, 0, Len(resolved.ids)) \in Int
  <2>1. Listed(resolved.ids)
    BY <1>2, <1>3, <1>7
  <2>2. \A n \in DOMAIN resolved.ids : weights[n] = 1
    <3> TAKE n \in DOMAIN resolved.ids
    <3>1. MayHave(sources, resolved.ids[n])
      <4>1. resolved.ids[n] \in ToSet(Requested(sources, ids))
        BY <1>3, <1>7 DEF ToSet
      <4> QED
        BY <1>3, <1>7, <4>1
    <3>2. PICK i \in DOMAIN sources : sources[i].id = resolved.ids[n]
      BY <3>1 DEF MayHave
    <3>3. resolved.ids[n] \in ToSet(IdsOf(sources))
      BY <3>2 DEF ToSet, IdsOf
    <3> HIDE DEF resolved
    <3> QED
      BY <3>3
  <2> HIDE DEF resolved, weights
  <2>3. \A n \in (0 + 1)..Len(resolved.ids) : weights[n] \in Int
    BY <2>1, <2>2 DEF Listed
  <2>4. Len(resolved.ids) \in Int /\ Len(resolved.ids) \in 0..Len(resolved.ids)
    BY <2>1 DEF Listed
  <2>5. \A k \in 0..Len(resolved.ids) : SumOver(weights, 0, k) \in Int
    <3> DEFINE to == Len(resolved.ids)
    <3>1. to \in Int /\ 0 \in Int /\ \A n \in (0 + 1)..to : weights[n] \in Int
      BY <2>3, <2>4
    <3> HIDE DEF to
    <3>2. \A k \in 0..to : SumOver(weights, 0, k) \in Int
      BY <3>1, SumOverInt
    <3> QED
      BY <3>2 DEF to
  <2> QED
    BY <2>4, <2>5
<1>8. (EstimateSize(sources, ids, sizeOf) = Omitted) <=> (resolved.refused # "no")
  <2> HIDE DEF resolved, weights, sizeOf
  <2> QED
    BY <1>6, <1>7, OmittedAssumption
<1> QED
  <2> HIDE DEF resolved, asked, sizeOf
  <2>1. OnlyLicensedRegions(sources, ids) =
          ( /\ (resolved.refused = "no") <=> (\A id \in asked : mayHave(id))
            /\ resolved.refused = "no" => ToSet(resolved.ids) = asked
            /\ (EstimateSize(sources, ids, sizeOf) = Omitted) <=> (resolved.refused # "no") )
    BY DEF OnlyLicensedRegions, resolved, asked, sizeOf
  <2> QED
    BY <1>4, <1>5, <1>8, <2>1

(* The archive added last for a url.                                       *)
IsLastAdded(added, url, k) ==
  /\ k \in DOMAIN added /\ added[k].url = url
  /\ \A l \in DOMAIN added : l > k => added[l].url # url

Offers(added, url) == \E k \in DOMAIN added : added[k].url = url

(* The protocol has for a url the archive added last.                      *)
LEMMA LastAddedServes ==
  ASSUME NEW T, NEW added \in Seq(T), NEW url
  PROVE  /\ ~ Offers(added, url) => Registration(added, url) = Omitted
         /\ \A k : IsLastAdded(added, url, k) => Registration(added, url) = added[k].region
<1> DEFINE places == {k \in DOMAIN added : added[k].url = url}
           size == Cardinality(places)
           of == Picked(added, places)
<1>0. Len(added) \in Nat /\ DOMAIN added = 1..Len(added) /\ \A k \in 1..Len(added) : added[k] \in T
  OBVIOUS
<1>1. places \in SUBSET (1..Len(added))
  BY <1>0
<1>2. Registration(added, url) = IF of = << >> THEN Omitted ELSE of[Len(of)].region
  BY DEF Registration, Last
<1> HIDE DEF places
<1>3. PICK p : \A s : PickedBy(p, s, places)
  BY <1>0, <1>1, PickedOf
<1>4. Rising(p, places) /\ size \in Nat /\ of = [k \in 1..size |-> added[p[k]]]
  BY <1>3 DEF PickedBy
<1>5. /\ \A k \in 1..size : p[k] \in places
      /\ \A i, j \in 1..size : i < j => p[i] < p[j]
      /\ \A x \in places : \E k \in 1..size : p[k] = x
  BY <1>4 DEF Rising
<1> HIDE DEF size, of
<1>6. of \in Seq(T) /\ Len(of) = size
  <2>1. of \in [1..size -> T]
    BY <1>0, <1>1, <1>4, <1>5
  <2> QED
    BY <1>4, <2>1, SeqDef, LenProperties
<1>7. ASSUME \A k \in DOMAIN added : added[k].url # url PROVE Registration(added, url) = Omitted
  <2>1. places = {}
    BY <1>7 DEF places
  <2>2. size = 0
    BY <2>1, FS_EmptySet DEF size
  <2>3. of = << >>
    BY <1>6, <2>2
  <2> QED
    BY <1>2, <2>3
<1>8. ASSUME NEW k \in DOMAIN added, added[k].url = url, \A l \in DOMAIN added : l > k => added[l].url # url
      PROVE  Registration(added, url) = added[k].region
  <2>1. k \in places /\ k \in Int
    BY <1>0, <1>8 DEF places
  <2>2. PICK j \in 1..size : p[j] = k
    BY <1>5, <2>1
  <2>3. \A l \in places : l <= k
    <3> TAKE l \in places
    <3>1. l \in DOMAIN added /\ l \in Int /\ added[l].url = url
      BY <1>0 DEF places
    <3> QED
      BY <1>8, <2>1, <3>1
  <2>4. j = size
    <3>1. j \in Int /\ size \in 1..size /\ j <= size
      BY <1>4, <2>2
    <3>2. p[size] \in places
      BY <1>5, <3>1
    <3>3. p[size] \in Int
      <4>1. \A x \in places : x \in Int
        BY <1>0, <1>1
      <4> QED
        BY <3>2, <4>1
    <3> QED
      BY <1>5, <2>1, <2>2, <2>3, <3>1, <3>2, <3>3
  <2>5. of[size] = added[k] /\ of # << >>
    BY <1>4, <1>6, <2>2, <2>4
  <2> QED
    BY <1>2, <1>6, <2>5
<1> QED
  BY <1>7, <1>8 DEF IsLastAdded, Offers

(* Who serves a url is the region of the last archive added for it.        *)
LEMMA WhoServes ==
  ASSUME NEW T, NEW added \in Seq(T), NEW url, Offers(added, url)
  PROVE  \E m : IsLastAdded(added, url, m) /\ Registration(added, url) = added[m].region
<1> DEFINE places == {l \in DOMAIN added : added[l].url = url}
           m == Max(places)
<1>0. Len(added) \in Nat /\ DOMAIN added = 1..Len(added)
  OBVIOUS
<1>1. m \in places /\ \A l \in places : l <= m
  <2>1. places \in SUBSET (1..Len(added)) /\ places # {}
    BY <1>0 DEF Offers
  <2> HIDE DEF places
  <2> QED
    BY <1>0, <2>1, GreatestIs
<1> HIDE DEF m
<1>2. IsLastAdded(added, url, m)
  <2>1. m \in Int /\ \A l \in DOMAIN added : l \in Int
    BY <1>0, <1>1
  <2> QED
    BY <1>1, <2>1 DEF IsLastAdded
<1> QED
  BY <1>2, LastAddedServes

(* One batch of archives after another.                                    *)
LEMMA RegistrationJoined ==
  ASSUME NEW T, NEW r \in Seq(T), NEW s \in Seq(T), NEW url
  PROVE  Registration(r \o s, url) = IF Offers(s, url) THEN Registration(s, url) ELSE Registration(r, url)
<1> DEFINE all == r \o s
           a == Len(r)
           b == Len(s)
<1>0. /\ a \in Nat /\ b \in Nat /\ DOMAIN r = 1..a /\ DOMAIN s = 1..b
      /\ all \in Seq(T) /\ DOMAIN all = 1..(a + b)
      /\ \A k \in 1..a : all[k] = r[k]
      /\ \A k \in (a + 1)..(a + b) : all[k] = s[k - a]
  BY ConcatProperties
<1> HIDE DEF all, a, b
<1>1. CASE Offers(s, url)
  <2>0. PICK m : IsLastAdded(s, url, m) /\ Registration(s, url) = s[m].region
    BY <1>1, WhoServes
  <2>1. /\ m \in 1..b /\ s[m].url = url /\ \A l \in 1..b : l > m => s[l].url # url
        /\ Registration(s, url) = s[m].region
    BY <1>0, <2>0 DEF IsLastAdded
  <2> DEFINE k == a + m
  <2>2. k \in (a + 1)..(a + b) /\ k \in DOMAIN all /\ k - a = m
    BY <1>0, <2>1
  <2>3. all[k] = s[m]
    BY <1>0, <2>2
  <2>4. \A l \in DOMAIN all : l > k => all[l].url # url
    <3> TAKE l \in DOMAIN all
    <3> HAVE l > k
    <3>1. l \in (a + 1)..(a + b) /\ l - a \in 1..b /\ l - a > m
      BY <1>0, <2>1
    <3> QED
      BY <1>0, <2>1, <3>1
  <2> HIDE DEF k
  <2>5. IsLastAdded(all, url, k)
    BY <2>1, <2>2, <2>3, <2>4 DEF IsLastAdded
  <2>6. Registration(all, url) = s[m].region
    BY <1>0, <2>3, <2>5, LastAddedServes
  <2> QED
    BY <1>1, <2>1, <2>6 DEF all
<1>2. CASE ~ Offers(s, url) /\ Offers(r, url)
  <2>0. PICK m : IsLastAdded(r, url, m) /\ Registration(r, url) = r[m].region
    BY <1>2, WhoServes
  <2>1. /\ m \in 1..a /\ r[m].url = url /\ \A l \in 1..a : l > m => r[l].url # url
        /\ Registration(r, url) = r[m].region
    BY <1>0, <2>0 DEF IsLastAdded
  <2>2. m \in DOMAIN all /\ all[m] = r[m]
    BY <1>0, <2>1
  <2>3. \A l \in DOMAIN all : l > m => all[l].url # url
    <3> TAKE l \in DOMAIN all
    <3> HAVE l > m
    <3>1. CASE l \in 1..a
      BY <1>0, <2>1, <3>1
    <3>2. CASE l \in (a + 1)..(a + b)
      <4>1. l - a \in DOMAIN s /\ all[l] = s[l - a]
        BY <1>0, <3>2
      <4> QED
        BY <1>2, <4>1 DEF Offers
    <3> QED
      BY <1>0, <3>1, <3>2
  <2>4. IsLastAdded(all, url, m)
    BY <2>1, <2>2, <2>3 DEF IsLastAdded
  <2>5. Registration(all, url) = r[m].region
    BY <1>0, <2>2, <2>4, LastAddedServes
  <2> QED
    BY <1>2, <2>1, <2>5 DEF all
<1>3. CASE ~ Offers(s, url) /\ ~ Offers(r, url)
  <2>1. ~ Offers(all, url)
    <3> SUFFICES \A l \in DOMAIN all : all[l].url # url
      BY DEF Offers
    <3> TAKE l \in DOMAIN all
    <3>1. CASE l \in 1..a
      BY <1>0, <1>3, <3>1 DEF Offers
    <3>2. CASE l \in (a + 1)..(a + b)
      <4>1. l - a \in DOMAIN s /\ all[l] = s[l - a]
        BY <1>0, <3>2
      <4> QED
        BY <1>3, <4>1 DEF Offers
    <3> QED
      BY <1>0, <3>1, <3>2
  <2>2. Registration(all, url) = Omitted
    BY <1>0, <2>1, LastAddedServes
  <2>3. Registration(r, url) = Omitted
    BY <1>3, LastAddedServes
  <2> QED
    BY <1>3, <2>2, <2>3 DEF all
<1> QED
  BY <1>1, <1>2, <1>3

(* Of several batches, each of one region, the last that offers a url has  *)
(* it.                                                                     *)
Batches(seqs, name) == \A n \in DOMAIN seqs : \A k \in DOMAIN seqs[n] : seqs[n][k].region = name[n]

ServedBy(seqs, name, url, j, answer) ==
  \/ answer = Omitted /\ \A n \in 1..j : ~ Offers(seqs[n], url)
  \/ \E n \in 1..j : /\ Offers(seqs[n], url) /\ \A l \in 1..j : l > n => ~ Offers(seqs[l], url)
                     /\ answer = name[n]

(* Archives added region by region: the last region that offers a url      *)
(* serves it.                                                              *)
LEMMA LastBatchServes ==
  ASSUME NEW T, NEW seqs \in Seq(Seq(T)), NEW name, Batches(seqs, name), NEW url
  PROVE  ServedBy(seqs, name, url, Len(seqs), Registration(FlattenSeq(seqs), url))
<1> DEFINE S == {j \in 0..Len(seqs) : ServedBy(seqs, name, url, j, Registration(JoinedUpTo(seqs, j), url))}
<1>0. Len(seqs) \in Nat /\ DOMAIN seqs = 1..Len(seqs) /\ \A n \in 1..Len(seqs) : seqs[n] \in Seq(T)
  OBVIOUS
<1>1. /\ JoinedUpTo(seqs, 0) = << >>
      /\ \A n \in 0..(Len(seqs) - 1) : JoinedUpTo(seqs, n + 1) = JoinedUpTo(seqs, n) \o seqs[n + 1]
      /\ JoinedUpTo(seqs, Len(seqs)) = FlattenSeq(seqs)
      /\ \A n \in 0..Len(seqs) : JoinedUpTo(seqs, n) \in Seq(T)
  BY JoinedUnrolled
<1>2. 0 \in S
  <2>1. Registration(<< >>, url) = Omitted
    <3>1. << >> \in Seq(T) /\ ~ Offers(<< >>, url)
      BY DEF Offers
    <3> QED
      BY <3>1, LastAddedServes
  <2> QED
    BY <1>0, <1>1, <2>1 DEF ServedBy
<1>3. ASSUME NEW j \in 0..(Len(seqs) - 1), j \in S PROVE j + 1 \in S
  <2> DEFINE earlier == Registration(JoinedUpTo(seqs, j), url)
             after == Registration(JoinedUpTo(seqs, j + 1), url)
             piece == seqs[j + 1]
  <2>0. j + 1 \in 1..Len(seqs) /\ j \in 0..Len(seqs) /\ j \in Int
    BY <1>0
  <2>1. after = IF Offers(piece, url) THEN Registration(piece, url) ELSE earlier
    <3>1. JoinedUpTo(seqs, j) \in Seq(T) /\ piece \in Seq(T)
      BY <1>0, <1>1, <2>0
    <3>2. JoinedUpTo(seqs, j + 1) = JoinedUpTo(seqs, j) \o piece
      BY <1>1
    <3> DEFINE r == JoinedUpTo(seqs, j)
    <3> HIDE DEF r
    <3>3. Registration(r \o piece, url) = IF Offers(piece, url) THEN Registration(piece, url) ELSE Registration(r, url)
      <4> HIDE DEF piece
      <4> QED
        BY <3>1, RegistrationJoined DEF r
    <3> QED
      BY <3>2, <3>3 DEF r
  <2>2. ServedBy(seqs, name, url, j, earlier)
    BY <1>3
  <2>3. ASSUME Offers(piece, url) PROVE Registration(piece, url) = name[j + 1]
    <3>1. piece \in Seq(T)
      BY <1>0, <2>0
    <3> HIDE DEF piece
    <3>2. PICK m : IsLastAdded(piece, url, m) /\ Registration(piece, url) = piece[m].region
      BY <2>3, <3>1, WhoServes
    <3>3. m \in DOMAIN seqs[j + 1]
      BY <3>2 DEF IsLastAdded, piece
    <3> QED
      BY <1>0, <2>0, <3>2, <3>3 DEF Batches, piece
  <2> HIDE DEF earlier, after
  <2>4. CASE Offers(piece, url)
    <3>1. after = name[j + 1]
      BY <2>1, <2>3, <2>4
    <3>2. \A l \in 1..(j + 1) : ~ (l > j + 1)
      BY <2>0
    <3>3. j + 1 \in 1..(j + 1)
      BY <2>0
    <3>4. ServedBy(seqs, name, url, j + 1, after)
      BY <2>4, <3>1, <3>2, <3>3 DEF ServedBy
    <3> QED
      BY <1>0, <2>0, <3>4 DEF after
  <2>5. CASE ~ Offers(piece, url)
    <3>1. ServedBy(seqs, name, url, j, after)
      BY <2>1, <2>2, <2>5
    <3>2. \A l \in 1..(j + 1) : l \in 1..j \/ l = j + 1
      BY <2>0
    <3>3. \A l \in 1..j : l \in 1..(j + 1)
      BY <2>0
    <3>4. ServedBy(seqs, name, url, j + 1, after)
      BY <2>5, <3>1, <3>2, <3>3 DEF ServedBy
    <3> QED
      BY <1>0, <2>0, <3>4 DEF after
  <2> QED
    BY <2>4, <2>5
<1>4. Len(seqs) \in S
  <2>1. 0 \in Int /\ Len(seqs) \in Int
    BY <1>0
  <2> HIDE DEF S
  <2>2. \A k \in 0..Len(seqs) : k \in S
    BY <1>2, <1>3, <2>1, UpTo
  <2> QED
    BY <1>0, <2>2
<1> QED
  BY <1>1, <1>4

(* What is picked of a sequence is what it has at the places picked.       *)
LEMMA PickedSet ==
  ASSUME NEW s, Listed(s), NEW places \in SUBSET (DOMAIN s)
  PROVE  /\ Picked(s, places) \in Seq({s[i] : i \in places})
         /\ ToSet(Picked(s, places)) = {s[i] : i \in places}
<1> DEFINE size == Cardinality(places)
           picked == Picked(s, places)
<1>1. PICK p : \A t : PickedBy(p, t, places)
  BY PickedOf DEF Listed
<1>2. Rising(p, places) /\ size \in Nat /\ picked = [k \in 1..size |-> s[p[k]]]
  BY <1>1 DEF PickedBy
<1>3. (\A k \in 1..size : p[k] \in places) /\ \A x \in places : \E k \in 1..size : p[k] = x
  BY <1>2 DEF Rising
<1> HIDE DEF size, picked
<1>4. picked \in [1..size -> {s[i] : i \in places}]
  BY <1>2, <1>3
<1>5. picked \in Seq({s[i] : i \in places})
  BY <1>2, <1>4, SeqDef
<1>6. ToSet(picked) = {s[i] : i \in places}
  BY <1>2, <1>3 DEF ToSet
<1> QED
  BY <1>5, <1>6 DEF picked

(* The regions of a device, each with its id and the sources it covers.    *)
At(region) == IF region.downloadedAt = Omitted THEN 0 ELSE region.downloadedAt

RegionsHeld(regions) ==
  /\ Listed(regions)
  /\ \A i \in DOMAIN regions : /\ At(regions[i]) \in Int /\ regions[i].id # Omitted
                               /\ Listed(regions[i].sourceIds)

Aging(g, regions) ==
  /\ g \in [DOMAIN regions -> DOMAIN regions]
  /\ \A i, j \in DOMAIN regions : i < j => At(regions[g[i]]) <= At(regions[g[j]])
  /\ \A x \in DOMAIN regions : \E k \in DOMAIN regions : g[k] = x

Before(regions, i, j) ==
  At(regions[i]) < At(regions[j]) \/ (At(regions[i]) = At(regions[j]) /\ i < j)

(* The regions are all lined up, by their age.                             *)
LEMMA OldestFirstIs ==
  ASSUME NEW regions, RegionsHeld(regions)
  PROVE  \E g : Aging(g, regions) /\ OldestFirst(regions) = [k \in DOMAIN regions |-> regions[g[k]]]
<1> DEFINE n == Len(regions)
           S == DOMAIN regions
           precedes == {w \in S \X S : Before(regions, w[1], w[2])}
           g == Arranged(S, precedes)
<1>1. n \in Nat /\ S = 1..n /\ \A i \in S : At(regions[i]) \in Int
  BY DEF RegionsHeld, Listed
<1>2. IsFiniteSet(S) /\ Cardinality(S) = n
  <2>1. IsFiniteSet(1..n) /\ Cardinality(1..n) = IF 1 > n THEN 0 ELSE n - 1 + 1
    BY <1>1, FS_Interval
  <2> QED
    BY <1>1, <2>1
<1>3. \A x, y \in S : <<x, y>> \in precedes <=> Before(regions, x, y)
  OBVIOUS
<1>4. OldestFirst(regions) = [k \in S |-> regions[g[k]]]
  BY DEF OldestFirst, Before, At
<1> HIDE DEF precedes
<1>5. Orders(precedes, S)
  <2>1. \A x \in S : ~ Before(regions, x, x)
    BY <1>1 DEF Before
  <2>2. \A x, y \in S : x # y => (Before(regions, x, y) \/ Before(regions, y, x))
    BY <1>1 DEF Before
  <2>3. \A x, y, z \in S : Before(regions, x, y) /\ Before(regions, y, z) => Before(regions, x, z)
    BY <1>1 DEF Before
  <2> QED
    BY <1>3, <2>1, <2>2, <2>3 DEF Orders
<1>6. Lines(g, S, precedes)
  BY <1>2, <1>5, ArrangedLines
<1> HIDE DEF g
<1>7. Aging(g, regions)
  <2>1. g \in [S -> S] /\ (\A x \in S : \E k \in S : g[k] = x)
    BY <1>1, <1>2, <1>6 DEF Lines
  <2>2. \A i, j \in S : i < j => <<g[i], g[j]>> \in precedes
    BY <1>1, <1>2, <1>6 DEF Lines
  <2>3. \A i, j \in S : i < j => Before(regions, g[i], g[j])
    BY <1>3, <2>1, <2>2
  <2>4. \A i, j \in S : i < j => At(regions[g[i]]) <= At(regions[g[j]])
    <3> TAKE i, j \in S
    <3> HAVE i < j
    <3>1. g[i] \in S /\ g[j] \in S /\ Before(regions, g[i], g[j])
      BY <2>1, <2>3
    <3>2. At(regions[g[i]]) \in Int /\ At(regions[g[j]]) \in Int
      BY <1>1, <3>1
    <3> QED
      BY <3>1, <3>2 DEF Before
  <2> QED
    BY <2>1, <2>4 DEF Aging
<1> QED
  BY <1>4, <1>7

(* What one region adds to the protocol.                                   *)
KeptIds(sources, ids) == Picked(ids, {n \in DOMAIN ids : Configured(sources, ids[n]) # << >>})
AddedBy(region, sources) ==
  [n \in DOMAIN KeptIds(sources, region.sourceIds) |->
     [url |-> KeptIds(sources, region.sourceIds)[n], region |-> region.id]]

(* A region adds an archive for each of its sources that the app still     *)
(* has.                                                                    *)
LEMMA AddedByRegion ==
  ASSUME NEW region, Listed(region.sourceIds), NEW sources, NEW U, ToSet(region.sourceIds) \subseteq U,
         NEW R, region.id \in R
  PROVE  /\ AddedBy(region, sources) \in Seq([url : U, region : R])
         /\ \A k \in DOMAIN AddedBy(region, sources) : AddedBy(region, sources)[k].region = region.id
         /\ \A url : Offers(AddedBy(region, sources), url)
                       <=> (url \in ToSet(region.sourceIds) /\ Configured(sources, url) # << >>)
<1> DEFINE ids == region.sourceIds
           places == {n \in DOMAIN ids : Configured(sources, ids[n]) # << >>}
           kept == KeptIds(sources, ids)
           added == AddedBy(region, sources)
<1>1. kept \in Seq({ids[i] : i \in places}) /\ ToSet(kept) = {ids[i] : i \in places}
  BY PickedSet DEF KeptIds
<1>2. {ids[i] : i \in places} \subseteq U
  BY DEF ToSet
<1> DEFINE size == Len(kept)
<1>3. size \in Nat /\ DOMAIN kept = 1..size /\ \A k \in 1..size : kept[k] \in U
  <2> HIDE DEF kept, places
  <2> QED
    BY <1>1, <1>2
<1>4. added = [n \in 1..size |-> [url |-> kept[n], region |-> region.id]]
  BY <1>3 DEF AddedBy
<1>5. ToSet(kept) = {kept[n] : n \in 1..size}
  BY <1>3 DEF ToSet
<1>6. \A url : url \in {ids[i] : i \in places} <=> (url \in ToSet(ids) /\ Configured(sources, url) # << >>)
  BY DEF ToSet
<1> HIDE DEF size, kept, added, ids, places
<1>7. added \in [1..size -> [url : U, region : R]]
  BY <1>3, <1>4 DEF ids
<1>8. added \in Seq([url : U, region : R])
  BY <1>3, <1>7, SeqDef
<1>9. \A k \in DOMAIN added : added[k].region = region.id /\ added[k].url = kept[k]
  BY <1>4
<1>10. \A url : Offers(added, url) <=> url \in ToSet(kept)
  BY <1>4, <1>5 DEF Offers
<1> QED
  BY <1>1, <1>6, <1>8, <1>9, <1>10 DEF added, ids

(* What is installed is what each region adds, the oldest first.           *)
LEMMA InstalledIs ==
  ASSUME NEW regions, RegionsHeld(regions), NEW sources, NEW g, Aging(g, regions),
         OldestFirst(regions) = [k \in DOMAIN regions |-> regions[g[k]]]
  PROVE  InstallOfflineArchives(regions, sources)
           = FlattenSeq([i \in DOMAIN regions |-> AddedBy(regions[g[i]], sources)])
<1> DEFINE ordered == OldestFirst(regions)
           of(region) == [n \in DOMAIN KeptIds(sources, region.sourceIds) |->
                            [url |-> KeptIds(sources, region.sourceIds)[n], region |-> region.id]]
<1>1. InstallOfflineArchives(regions, sources) = FlattenSeq([i \in DOMAIN ordered |-> of(ordered[i])])
  BY DEF InstallOfflineArchives, KeptIds
<1>2. \A region : of(region) = AddedBy(region, sources)
  BY DEF AddedBy
<1> HIDE DEF of
<1>3. [i \in DOMAIN ordered |-> of(ordered[i])] = [i \in DOMAIN regions |-> AddedBy(regions[g[i]], sources)]
  BY <1>2
<1> QED
  BY <1>1, <1>3

(* The archives put are those of the regions, and each region's are all    *)
(* put.                                                                    *)
PutFor(regions, put) ==
  \A i \in DOMAIN regions : \A id :
    [region |-> regions[i].id, source |-> id] \in put <=> id \in ToSet(regions[i].sourceIds)

Covering(regions, id) == {i \in DOMAIN regions : id \in ToSet(regions[i].sourceIds)}

(* The region that serves a url: the newest of those that cover it.        *)
LEMMA NewestServes ==
  ASSUME NEW regions, RegionsHeld(regions), NEW sources, Sourced(sources), NEW n \in DOMAIN sources
  PROVE  LET id == sources[n].id
             serving == Registration(InstallOfflineArchives(regions, sources), id)
         IN /\ Covering(regions, id) = {} => serving = Omitted
            /\ Covering(regions, id) # {} =>
                 \E i \in Covering(regions, id) :
                   /\ \A j \in Covering(regions, id) : At(regions[j]) <= At(regions[i])
                   /\ serving = regions[i].id
<1> DEFINE id == sources[n].id
           D == DOMAIN regions
           serving == Registration(InstallOfflineArchives(regions, sources), id)
           U == UNION {ToSet(regions[i].sourceIds) : i \in D}
           R == {regions[i].id : i \in D}
           T == [url : U, region : R]
<1>0. Len(regions) \in Nat /\ D = 1..Len(regions)
  BY DEF RegionsHeld, Listed
<1>1. PICK g : Aging(g, regions) /\ OldestFirst(regions) = [k \in D |-> regions[g[k]]]
  BY OldestFirstIs
<1> DEFINE seqs == [i \in D |-> AddedBy(regions[g[i]], sources)]
           name == [i \in D |-> regions[g[i]].id]
<1>2. InstallOfflineArchives(regions, sources) = FlattenSeq(seqs)
  BY <1>1, InstalledIs
<1>3. /\ \A i \in D : g[i] \in D
      /\ \A i, j \in D : i < j => At(regions[g[i]]) <= At(regions[g[j]])
      /\ \A x \in D : \E k \in D : g[k] = x
  BY <1>1 DEF Aging
<1>4. \A i \in D : /\ AddedBy(regions[g[i]], sources) \in Seq(T)
                   /\ \A k \in DOMAIN AddedBy(regions[g[i]], sources) :
                        AddedBy(regions[g[i]], sources)[k].region = regions[g[i]].id
                   /\ Offers(AddedBy(regions[g[i]], sources), id) <=> g[i] \in Covering(regions, id)
  <2> TAKE i \in D
  <2> DEFINE region == regions[g[i]]
  <2>1. Listed(region.sourceIds) /\ ToSet(region.sourceIds) \subseteq U /\ region.id \in R
    BY <1>3 DEF RegionsHeld
  <2>2. Configured(sources, id) # << >>
    <3>1. Configured(sources, id) = <<sources[n]>>
      BY ConfiguredIs
    <3> QED
      BY <3>1
  <2> HIDE DEF region, U, R, id
  <2>3. /\ AddedBy(region, sources) \in Seq([url : U, region : R])
        /\ \A k \in DOMAIN AddedBy(region, sources) : AddedBy(region, sources)[k].region = region.id
        /\ \A url : Offers(AddedBy(region, sources), url)
                      <=> (url \in ToSet(region.sourceIds) /\ Configured(sources, url) # << >>)
    BY <2>1, AddedByRegion
  <2>4. Offers(AddedBy(region, sources), id) <=> g[i] \in Covering(regions, id)
    BY <1>3, <2>2, <2>3 DEF Covering, region
  <2> QED
    BY <2>3, <2>4 DEF region
<1> HIDE DEF T, id
<1>5. seqs \in Seq(Seq(T))
  <2>1. seqs \in [1..Len(regions) -> Seq(T)]
    BY <1>0, <1>4
  <2> HIDE DEF seqs
  <2> QED
    BY <1>0, <2>1, SeqDef
<1>6. DOMAIN seqs = D /\ \A i \in D : seqs[i] = AddedBy(regions[g[i]], sources) /\ name[i] = regions[g[i]].id
  OBVIOUS
<1> HIDE DEF seqs, name, D
<1>7. Batches(seqs, name)
  BY <1>4, <1>6 DEF Batches
<1>8. Len(seqs) = Len(regions)
  BY <1>0, <1>5, <1>6
<1>9. ServedBy(seqs, name, id, Len(regions), serving)
  <2>1. ServedBy(seqs, name, id, Len(seqs), Registration(FlattenSeq(seqs), id))
    BY <1>5, <1>7, LastBatchServes
  <2> QED
    BY <1>2, <1>8, <2>1
<1>10. \A i \in D : Offers(seqs[i], id) <=> g[i] \in Covering(regions, id)
  BY <1>4, <1>6
<1>11. Covering(regions, id) \subseteq D
  BY DEF Covering, D
<1> HIDE DEF serving
<1>12. CASE \A i \in 1..Len(regions) : ~ Offers(seqs[i], id)
  <2>1. Covering(regions, id) = {}
    <3> SUFFICES ASSUME NEW x \in Covering(regions, id) PROVE FALSE
      OBVIOUS
    <3>1. PICK k \in D : g[k] = x
      BY <1>3, <1>11
    <3>2. Offers(seqs[k], id)
      BY <1>10, <3>1
    <3> QED
      BY <1>0, <1>12, <3>2
  <2>2. serving = Omitted
    BY <1>9, <1>12 DEF ServedBy
  <2> QED
    BY <2>1, <2>2 DEF serving, id
<1>13. CASE ~ \A i \in 1..Len(regions) : ~ Offers(seqs[i], id)
  <2>1. PICK i \in 1..Len(regions) : /\ Offers(seqs[i], id)
                                     /\ \A l \in 1..Len(regions) : l > i => ~ Offers(seqs[l], id)
                                     /\ serving = name[i]
    BY <1>9, <1>13 DEF ServedBy
  <2>2. i \in D /\ g[i] \in Covering(regions, id) /\ serving = regions[g[i]].id
    BY <1>0, <1>6, <1>10, <2>1
  <2>3. \A j \in Covering(regions, id) : At(regions[j]) <= At(regions[g[i]])
    <3> TAKE j \in Covering(regions, id)
    <3>1. PICK k \in D : g[k] = j
      BY <1>3, <1>11
    <3>2. Offers(seqs[k], id)
      BY <1>10, <3>1
    <3>3. k \in Int /\ i \in Int /\ k <= i
      BY <1>0, <2>1, <3>1, <3>2
    <3>4. At(regions[g[i]]) \in Int
      BY <1>3, <2>2 DEF RegionsHeld, D
    <3>5. CASE k < i
      <4>1. At(regions[g[k]]) <= At(regions[g[i]])
        BY <1>3, <2>2, <3>5
      <4> QED
        BY <3>1, <4>1
    <3>6. CASE k = i
      BY <3>1, <3>4, <3>6
    <3> QED
      BY <3>3, <3>5, <3>6
  <2> QED
    BY <2>2, <2>3 DEF serving, id
<1> QED
  BY <1>12, <1>13

(* The newest archive serves: whatever regions a device holds, downloaded  *)
(* at whatever moments, and whatever the app has configured since, a url   *)
(* whose archive was put is read from the newest region that put it, or    *)
(* its archive is said to be gone, and every other url goes to the network *)
(* (installOfflineArchives, createStoredArchiveSource).                    *)
THEOREM NewestArchivesServe ==
  ASSUME NEW regions, RegionsHeld(regions), NEW put, PutFor(regions, put), NEW gone,
         NEW sources, Sourced(sources)
  PROVE  NewestArchiveServes(regions, put, gone, sources)
<1> DEFINE added == InstallOfflineArchives(regions, sources)
           at(region) == IF region.downloadedAt = Omitted THEN 0 ELSE region.downloadedAt
           has(i, id) == [region |-> regions[i].id, source |-> id] \in put
           covering(id) == {i \in DOMAIN regions : has(i, id)}
           newest(id) == {i \in covering(id) : \A j \in covering(id) : at(regions[j]) <= at(regions[i])}
<1> SUFFICES ASSUME NEW n \in DOMAIN sources
             PROVE  LET id == sources[n].id
                        bytes == BytesOf(id, added, put \ gone)
                    IN IF covering(id) = {} THEN bytes = [from |-> "network"]
                       ELSE \E i \in newest(id) :
                              bytes = [from |-> IF [region |-> regions[i].id, source |-> id] \in gone
                                                  THEN "missing" ELSE "store",
                                       region |-> regions[i].id]
  BY DEF NewestArchiveServes
<1> DEFINE id == sources[n].id
           serving == Registration(added, id)
           bytes == BytesOf(id, added, put \ gone)
<1>1. /\ Covering(regions, id) = {} => serving = Omitted
      /\ Covering(regions, id) # {} =>
           \E i \in Covering(regions, id) :
             /\ \A j \in Covering(regions, id) : At(regions[j]) <= At(regions[i])
             /\ serving = regions[i].id
  BY NewestServes
<1>2. covering(id) = Covering(regions, id)
  BY DEF PutFor, Covering
<1>3. newest(id) = {i \in Covering(regions, id) :
                      \A j \in Covering(regions, id) : At(regions[j]) <= At(regions[i])}
  BY <1>2 DEF At
<1>4. bytes = IF serving = Omitted THEN [from |-> "network"]
              ELSE IF [region |-> serving, source |-> id] \in put \ gone
                THEN [from |-> "store", region |-> serving] ELSE [from |-> "missing", region |-> serving]
  BY DEF BytesOf, CreateStoredArchiveSource
<1> HIDE DEF serving, bytes, covering, newest
<1>5. CASE Covering(regions, id) = {}
  BY <1>1, <1>2, <1>4, <1>5 DEF bytes
<1>6. CASE Covering(regions, id) # {}
  <2>1. PICK i \in Covering(regions, id) :
          (\A j \in Covering(regions, id) : At(regions[j]) <= At(regions[i])) /\ serving = regions[i].id
    BY <1>1, <1>6
  <2>2. i \in newest(id)
    BY <1>3, <2>1
  <2>3. [region |-> regions[i].id, source |-> id] \in put /\ regions[i].id # Omitted
    BY <2>1 DEF Covering, PutFor, RegionsHeld
  <2>4. bytes = [from |-> IF [region |-> regions[i].id, source |-> id] \in gone
                            THEN "missing" ELSE "store",
                 region |-> regions[i].id]
    BY <1>4, <2>1, <2>3
  <2> QED
    BY <1>2, <1>6, <2>2, <2>4 DEF bytes
<1> QED
  BY <1>5, <1>6

(* Where a sequence starts among those it is laid out with, end to end.    *)
Lengths(seqs) == [k \in DOMAIN seqs |-> Len(seqs[k])]
Offset(seqs, s) == SumOver(Lengths(seqs), 0, s - 1)

(* Where a piece begins: after the pieces before it.                       *)
LEMMA OffsetUnrolled ==
  ASSUME NEW T, NEW seqs \in Seq(Seq(T))
  PROVE  /\ Offset(seqs, 1) = 0
         /\ \A s \in 1..Len(seqs) : Offset(seqs, s + 1) = Offset(seqs, s) + Len(seqs[s])
         /\ \A s \in 1..(Len(seqs) + 1) : Offset(seqs, s) \in Nat
         /\ \A r, s \in 1..(Len(seqs) + 1) : r <= s => Offset(seqs, r) <= Offset(seqs, s)
<1> DEFINE of == Lengths(seqs)
           n == Len(seqs)
<1>0. n \in Nat /\ 0 \in Int /\ n \in Int /\ \A k \in (0 + 1)..n : of[k] = Len(seqs[k]) /\ of[k] \in Nat
  <2>1. n \in Nat /\ DOMAIN seqs = 1..n /\ \A k \in 1..n : seqs[k] \in Seq(T)
    OBVIOUS
  <2>2. \A k \in 1..n : Len(seqs[k]) \in Nat
    BY <2>1
  <2> QED
    BY <2>1, <2>2 DEF Lengths
<1> HIDE DEF of, n
<1>1. SumOver(of, 0, 0) = 0 /\ \A to \in Int : 0 <= to => SumOver(of, 0, to + 1) = SumOver(of, 0, to) + of[to + 1]
  BY <1>0, SumOverUnrolled
<1>2. \A k \in 0..n : SumOver(of, 0, k) \in Int
  <2>1. \A k \in (0 + 1)..n : of[k] \in Int
    BY <1>0
  <2> QED
    BY <1>0, <2>1, SumOverInt
<1>3. \A j, k \in 0..n : j <= k => SumOver(of, 0, j) <= SumOver(of, 0, k)
  BY <1>0, SumOverRises
<1>4. \A s : Offset(seqs, s) = SumOver(of, 0, s - 1)
  BY DEF Offset, of
<1>5. Offset(seqs, 1) = 0
  BY <1>1, <1>4
<1>6. ASSUME NEW s \in 1..n PROVE Offset(seqs, s + 1) = Offset(seqs, s) + Len(seqs[s])
  <2>1. s - 1 \in Int /\ 0 <= s - 1 /\ (s - 1) + 1 = s /\ (s + 1) - 1 = s
    BY <1>0
  <2>2. SumOver(of, 0, s) = SumOver(of, 0, s - 1) + of[s]
    BY <1>1, <2>1
  <2> QED
    BY <1>0, <1>4, <2>1, <2>2
<1>7. \A s \in 1..(n + 1) : Offset(seqs, s) \in Int
  <2> TAKE s \in 1..(n + 1)
  <2>1. s - 1 \in 0..n
    BY <1>0
  <2> QED
    BY <1>2, <1>4, <2>1
<1>8. ASSUME NEW r \in 1..(n + 1), NEW s \in 1..(n + 1), r <= s PROVE Offset(seqs, r) <= Offset(seqs, s)
  <2>1. r - 1 \in 0..n /\ s - 1 \in 0..n /\ r - 1 <= s - 1
    BY <1>0, <1>8
  <2> QED
    BY <1>3, <1>4, <2>1
<1>9. \A s \in 1..(n + 1) : Offset(seqs, s) \in Nat
  <2> TAKE s \in 1..(n + 1)
  <2>1. 1 \in 1..(n + 1) /\ 1 <= s
    BY <1>0
  <2> QED
    BY <1>5, <1>7, <1>8, <2>1
<1> QED
  BY <1>5, <1>6, <1>8, <1>9 DEF n

(* Where they all are, once they are laid out.                             *)
Laid(all, seqs, n) ==
  /\ Len(all) = Offset(seqs, n + 1)
  /\ \A s \in 1..n : \A k \in 1..Len(seqs[s]) : all[Offset(seqs, s) + k] = seqs[s][k]

(* Joined pieces lie one after the other, each from its offset on.         *)
LEMMA JoinedIsLaid ==
  ASSUME NEW T, NEW seqs \in Seq(Seq(T))
  PROVE  Laid(FlattenSeq(seqs), seqs, Len(seqs))
<1> DEFINE n == Len(seqs)
           S == {j \in 0..n : Laid(JoinedUpTo(seqs, j), seqs, j)}
<1>0. n \in Nat /\ 0 \in Int /\ n \in Int /\ DOMAIN seqs = 1..n /\ \A s \in 1..n : seqs[s] \in Seq(T) /\ Len(seqs[s]) \in Nat
  <2>1. n \in Nat /\ DOMAIN seqs = 1..n /\ \A s \in 1..n : seqs[s] \in Seq(T)
    OBVIOUS
  <2>2. \A s \in 1..n : Len(seqs[s]) \in Nat
    BY <2>1
  <2> QED
    BY <2>1, <2>2
<1>1. /\ JoinedUpTo(seqs, 0) = << >>
      /\ \A j \in 0..(n - 1) : JoinedUpTo(seqs, j + 1) = JoinedUpTo(seqs, j) \o seqs[j + 1]
      /\ JoinedUpTo(seqs, n) = FlattenSeq(seqs)
      /\ \A j \in 0..n : JoinedUpTo(seqs, j) \in Seq(T)
  BY JoinedUnrolled
<1>2. /\ Offset(seqs, 1) = 0
      /\ \A s \in 1..n : Offset(seqs, s + 1) = Offset(seqs, s) + Len(seqs[s])
      /\ \A s \in 1..(n + 1) : Offset(seqs, s) \in Nat
      /\ \A r, s \in 1..(n + 1) : r <= s => Offset(seqs, r) <= Offset(seqs, s)
  BY OffsetUnrolled
<1> HIDE DEF n
<1>3. 0 \in S
  <2>1. Laid(<< >>, seqs, 0)
    <3>1. Len(<< >>) = 0 /\ 0 + 1 = 1 /\ \A s \in 1..0 : FALSE
      OBVIOUS
    <3> QED
      BY <1>2, <3>1 DEF Laid
  <2> QED
    BY <1>0, <1>1, <2>1
<1>4. ASSUME NEW j \in 0..(n - 1), j \in S PROVE j + 1 \in S
  <2> DEFINE earlier == JoinedUpTo(seqs, j)
             piece == seqs[j + 1]
             all == earlier \o piece
             a == Len(earlier)
             b == Len(piece)
  <2>0. j + 1 \in 1..n /\ j \in 0..n /\ j + 1 \in 0..n /\ j \in Int /\ j + 1 \in 1..(n + 1) /\ j + 2 \in 1..(n + 1)
    BY <1>0
  <2>1. earlier \in Seq(T) /\ piece \in Seq(T) /\ b \in Nat
    BY <1>0, <1>1, <2>0
  <2>2. Laid(earlier, seqs, j)
    BY <1>4
  <2>3. JoinedUpTo(seqs, j + 1) = all
    BY <1>1
  <2> HIDE DEF earlier, piece
  <2>4. /\ a \in Nat /\ Len(all) = a + b /\ all \in Seq(T)
        /\ \A k \in 1..a : all[k] = earlier[k]
        /\ \A k \in (a + 1)..(a + b) : all[k] = piece[k - a]
    BY <2>1, ConcatProperties
  <2>5. a = Offset(seqs, j + 1)
    BY <2>2 DEF Laid
  <2> HIDE DEF all, a, b
  <2>6. Len(all) = Offset(seqs, (j + 1) + 1)
    BY <1>2, <2>0, <2>4, <2>5 DEF piece, b
  <2>7. ASSUME NEW s \in 1..(j + 1), NEW k \in 1..Len(seqs[s]) PROVE all[Offset(seqs, s) + k] = seqs[s][k]
    <3>1. CASE s = j + 1
      <4>1. k \in 1..b
        BY <2>7, <3>1 DEF piece, b
      <4>2. a + k \in (a + 1)..(a + b) /\ (a + k) - a = k
        BY <2>1, <2>4, <4>1
      <4>3. all[a + k] = piece[k]
        BY <2>4, <4>2
      <4> QED
        BY <2>5, <3>1, <4>3 DEF piece
    <3>2. CASE s # j + 1
      <4>1. s \in 1..j /\ s \in 1..n /\ s \in 1..(n + 1) /\ s + 1 \in 1..(n + 1) /\ s + 1 <= j + 1
        BY <1>0, <2>0, <3>2
      <4>2. earlier[Offset(seqs, s) + k] = seqs[s][k]
        BY <2>2, <4>1 DEF Laid
      <4>3. Offset(seqs, s + 1) = Offset(seqs, s) + Len(seqs[s]) /\ Offset(seqs, s) \in Nat /\ Len(seqs[s]) \in Nat
        BY <1>0, <1>2, <4>1
      <4>4. Offset(seqs, s + 1) <= a
        BY <1>2, <2>0, <2>5, <4>1
      <4>5. Offset(seqs, s) + k \in 1..a
        <5> DEFINE o == Offset(seqs, s)
                   l == Len(seqs[s])
        <5>1. o \in Nat /\ l \in Nat /\ o + l <= a /\ k \in 1..l
          BY <2>7, <4>3, <4>4
        <5> HIDE DEF o, l
        <5>2. o + k \in 1..a
          BY <2>4, <5>1
        <5> QED
          BY <5>2 DEF o
      <4> QED
        BY <2>4, <4>2, <4>5
    <3> QED
      BY <3>1, <3>2
  <2>8. Laid(all, seqs, j + 1)
    BY <2>6, <2>7 DEF Laid
  <2> QED
    BY <2>0, <2>3, <2>8
<1>5. n \in S
  <2> HIDE DEF S
  <2>1. \A k \in 0..n : k \in S
    BY <1>0, <1>3, <1>4, UpTo
  <2> QED
    BY <1>0, <2>1
<1> QED
  BY <1>1, <1>5 DEF n

(* Each of what is laid out is in one of the sequences.                    *)
LEMMA LaidFound ==
  ASSUME NEW T, NEW seqs \in Seq(Seq(T)), NEW i \in 1..Offset(seqs, Len(seqs) + 1)
  PROVE  \E s \in 1..Len(seqs) : \E k \in 1..Len(seqs[s]) : i = Offset(seqs, s) + k
<1> DEFINE n == Len(seqs)
           M == {s \in 1..n : i <= Offset(seqs, s + 1)}
<1>0. n \in Nat /\ \A s \in 1..n : Len(seqs[s]) \in Nat
  <2>1. n \in Nat /\ \A s \in 1..n : seqs[s] \in Seq(T)
    OBVIOUS
  <2> QED
    BY <2>1
<1>1. /\ Offset(seqs, 1) = 0
      /\ \A s \in 1..n : Offset(seqs, s + 1) = Offset(seqs, s) + Len(seqs[s])
      /\ \A s \in 1..(n + 1) : Offset(seqs, s) \in Nat
  BY OffsetUnrolled
<1>2. i \in Int /\ 1 <= i /\ i <= Offset(seqs, n + 1)
  <2>1. n + 1 \in 1..(n + 1)
    BY <1>0
  <2> QED
    BY <1>1, <2>1
<1> HIDE DEF n
<1>3. n # 0
  BY <1>0, <1>1, <1>2
<1>4. n \in M /\ M \in SUBSET (1..n)
  BY <1>0, <1>2, <1>3
<1> DEFINE s == Min(M)
<1>5. s \in M /\ \A x \in M : s <= x
  <2> HIDE DEF M
  <2> QED
    BY <1>0, <1>4, LeastIs
<1> HIDE DEF s
<1>6. s \in 1..n /\ i <= Offset(seqs, s + 1) /\ s \in 1..(n + 1) /\ s \in Int
  BY <1>0, <1>5
<1>7. Offset(seqs, s) < i
  <2>1. CASE s = 1
    BY <1>1, <1>2, <2>1
  <2>2. CASE s # 1
    <3>1. s - 1 \in 1..n /\ ~ (s <= s - 1) /\ (s - 1) + 1 = s
      BY <1>0, <1>6, <2>2
    <3>2. s - 1 \notin M
      BY <1>5, <3>1
    <3>3. ~ (i <= Offset(seqs, s)) /\ Offset(seqs, s) \in Nat
      BY <1>1, <1>6, <3>1, <3>2
    <3> QED
      BY <1>2, <3>3
  <2> QED
    BY <2>1, <2>2
<1> DEFINE k == i - Offset(seqs, s)
<1>8. k \in 1..Len(seqs[s]) /\ i = Offset(seqs, s) + k
  <2> DEFINE o == Offset(seqs, s)
             l == Len(seqs[s])
  <2>1. o \in Nat /\ l \in Nat /\ o < i /\ i <= o + l
    BY <1>0, <1>1, <1>6, <1>7
  <2> HIDE DEF o, l
  <2>2. i - o \in 1..l /\ i = o + (i - o)
    BY <1>2, <2>1
  <2> QED
    BY <2>2 DEF o, l
<1> HIDE DEF k
<1> QED
  BY <1>6, <1>8 DEF n

(* What is laid out as they are is what they are joined to.                *)
LEMMA LaidTheSame ==
  ASSUME NEW T, NEW seqs \in Seq(Seq(T)), NEW all \in Seq(T), Laid(all, seqs, Len(seqs))
  PROVE  FlattenSeq(seqs) = all
<1> DEFINE n == Len(seqs)
           joined == FlattenSeq(seqs)
<1>1. joined \in Seq(T) /\ Laid(joined, seqs, n)
  BY FlattenedIs, JoinedIsLaid
<1>2. Len(joined) = Offset(seqs, n + 1) /\ Len(all) = Offset(seqs, n + 1)
  BY <1>1 DEF Laid
<1>3. ASSUME NEW i \in 1..Len(all) PROVE joined[i] = all[i]
  <2>1. PICK s \in 1..n : \E k \in 1..Len(seqs[s]) : i = Offset(seqs, s) + k
    BY <1>2, LaidFound
  <2>2. PICK k \in 1..Len(seqs[s]) : i = Offset(seqs, s) + k
    BY <2>1
  <2>3. joined[Offset(seqs, s) + k] = seqs[s][k] /\ all[Offset(seqs, s) + k] = seqs[s][k]
    BY <1>1 DEF Laid
  <2> QED
    BY <2>2, <2>3
<1> HIDE DEF joined
<1>4. DOMAIN joined = 1..Len(all) /\ DOMAIN all = 1..Len(all)
  BY <1>1, <1>2
<1> QED
  BY <1>1, <1>3, <1>4 DEF joined

(* What is laid out can be cut where each was put.                         *)
LEMMA CutBack ==
  ASSUME NEW T, NEW seqs \in Seq(Seq(T)), NEW all \in Seq(T), Laid(all, seqs, Len(seqs)), NEW s \in 1..Len(seqs)
  PROVE  SubSeq(all, Offset(seqs, s) + 1, Offset(seqs, s) + Len(seqs[s])) = seqs[s]
<1> DEFINE o == Offset(seqs, s)
           l == Len(seqs[s])
           cut == SubSeq(all, o + 1, o + l)
<1>1. seqs[s] \in Seq(T) /\ l \in Nat /\ Len(seqs) \in Nat
  OBVIOUS
<1>2. o \in Nat /\ o + l <= Len(all) /\ Len(all) \in Nat
  <2>1. s \in 1..(Len(seqs) + 1) /\ s + 1 \in 1..(Len(seqs) + 1) /\ Len(seqs) + 1 \in 1..(Len(seqs) + 1)
        /\ s + 1 <= Len(seqs) + 1
    BY <1>1
  <2>2. o \in Nat /\ Offset(seqs, s + 1) = o + l /\ Offset(seqs, s + 1) <= Offset(seqs, Len(seqs) + 1)
    BY <2>1, OffsetUnrolled
  <2>3. Len(all) = Offset(seqs, Len(seqs) + 1)
    BY DEF Laid
  <2> QED
    BY <2>2, <2>3
<1>3. \A k \in 1..l : all[o + k] = seqs[s][k]
  BY DEF Laid
<1>4. seqs[s] = [k \in 1..l |-> seqs[s][k]]
  <2> DEFINE p == seqs[s]
  <2>1. p \in Seq(T)
    BY <1>1
  <2> HIDE DEF p
  <2>2. p = [k \in 1..Len(p) |-> p[k]]
    BY <2>1
  <2> QED
    BY <2>2 DEF p
<1> DEFINE piece == seqs[s]
<1> HIDE DEF o, l, piece
<1>5. \A k \in (o + 1)..(o + l) : all[k] \in T
  BY <1>1, <1>2
<1>6. /\ cut \in Seq(T) /\ Len(cut) = IF o + 1 <= o + l THEN (o + l) - (o + 1) + 1 ELSE 0
      /\ \A k \in 1..((o + l) - (o + 1) + 1) : cut[k] = all[(o + 1) + k - 1]
  <2>1. o + 1 \in Int /\ o + l \in Int
    BY <1>1, <1>2
  <2> QED
    BY <1>5, <2>1, SubSeqProperties, SMTT(30)
<1>7. Len(cut) = l /\ (o + l) - (o + 1) + 1 = l
  BY <1>1, <1>2, <1>6
<1>8. \A k \in 1..l : cut[k] = piece[k]
  <2> TAKE k \in 1..l
  <2>1. cut[k] = all[(o + 1) + k - 1] /\ (o + 1) + k - 1 = o + k
    BY <1>1, <1>2, <1>6, <1>7
  <2> QED
    BY <1>3, <2>1 DEF piece
<1> HIDE DEF cut
<1>9. cut = [k \in 1..l |-> cut[k]]
  BY <1>6, <1>7
<1>10. cut = piece
  BY <1>4, <1>8, <1>9 DEF piece
<1> QED
  BY <1>10 DEF cut, o, l, piece

(* Sequences of the same lengths are put at the same places.               *)
LEMMA SameOffsets ==
  ASSUME NEW seqs, NEW others, DOMAIN others = DOMAIN seqs,
         \A s \in DOMAIN seqs : Len(others[s]) = Len(seqs[s])
  PROVE  Lengths(others) = Lengths(seqs) /\ \A s : Offset(others, s) = Offset(seqs, s)
<1>1. Lengths(others) = Lengths(seqs)
  BY DEF Lengths
<1> QED
  BY <1>1 DEF Offset

(* A place in a piece is a place in the pieces joined.                     *)
LEMMA InLaid ==
  ASSUME NEW T, NEW seqs \in Seq(Seq(T)), NEW s \in 1..Len(seqs), NEW k \in 1..Len(seqs[s])
  PROVE  Offset(seqs, s) + k \in 1..Offset(seqs, Len(seqs) + 1)
<1> DEFINE o == Offset(seqs, s)
           l == Len(seqs[s])
           e == Offset(seqs, Len(seqs) + 1)
<1>1. seqs[s] \in Seq(T) /\ l \in Nat /\ Len(seqs) \in Nat
  OBVIOUS
<1>2. o \in Nat /\ o + l <= e /\ e \in Nat
  <2>1. s \in 1..(Len(seqs) + 1) /\ s + 1 \in 1..(Len(seqs) + 1) /\ Len(seqs) + 1 \in 1..(Len(seqs) + 1)
        /\ s + 1 <= Len(seqs) + 1
    BY <1>1
  <2> QED
    BY <2>1, OffsetUnrolled
<1>3. k \in 1..l
  OBVIOUS
<1> HIDE DEF o, l, e
<1>4. o + k \in 1..e
  BY <1>1, <1>2, <1>3
<1> QED
  BY <1>4 DEF o, e

(* What is said of each of them, where they are laid out.                  *)
Fits(others, seqs) == DOMAIN others = DOMAIN seqs /\ \A s \in DOMAIN seqs : Len(others[s]) = Len(seqs[s])

SaidOf(said, points, pieces, h) ==
  /\ DOMAIN said = DOMAIN points /\ said = [i \in DOMAIN points |-> said[i]]
  /\ \A s \in 1..Len(pieces) : \A k \in 1..Len(pieces[s]) : said[Offset(pieces, s) + k] = h[s][k]

(* What is said of each of some joined pieces is laid as they are.         *)
LEMMA SaidLaid ==
  ASSUME NEW T, NEW pieces \in Seq(Seq(T)), NEW points \in Seq(T), Laid(points, pieces, Len(pieces)),
         NEW W, NEW h \in Seq(Seq(W)), Fits(h, pieces),
         NEW said, SaidOf(said, points, pieces, h)
  PROVE  said \in Seq(W) /\ Laid(said, h, Len(h)) /\ Len(said) = Len(points)
<1> DEFINE n == Len(pieces)
           size == Len(points)
<1>0. /\ DOMAIN said = DOMAIN points /\ said = [i \in DOMAIN points |-> said[i]]
      /\ \A s \in 1..Len(pieces) : \A k \in 1..Len(pieces[s]) : said[Offset(pieces, s) + k] = h[s][k]
  BY DEF SaidOf
<1>1. size \in Nat /\ DOMAIN points = 1..size /\ n \in Nat /\ DOMAIN pieces = 1..n
  OBVIOUS
<1>2. Len(h) = n /\ \A s \in 1..n : Len(h[s]) = Len(pieces[s])
  BY DEF Fits
<1>3. \A s : Offset(h, s) = Offset(pieces, s)
  BY SameOffsets DEF Fits
<1>4. size = Offset(pieces, n + 1)
  BY DEF Laid
<1>5. ASSUME NEW i \in 1..size PROVE said[i] \in W
  <2>0. i \in 1..Offset(pieces, Len(pieces) + 1)
    BY <1>4, <1>5
  <2>1. PICK s \in 1..n : \E k \in 1..Len(pieces[s]) : i = Offset(pieces, s) + k
    BY <2>0, LaidFound
  <2>2. PICK k \in 1..Len(pieces[s]) : i = Offset(pieces, s) + k
    BY <2>1
  <2>3. h[s] \in Seq(W) /\ k \in 1..Len(h[s])
    BY <1>2, <2>2
  <2>4. h[s][k] \in W
    BY <2>3
  <2> QED
    BY <1>0, <2>2, <2>4
<1> HIDE DEF n, size
<1>6. said \in [1..size -> W]
  BY <1>0, <1>1, <1>5
<1>7. said \in Seq(W) /\ Len(said) = size
  BY <1>1, <1>6, SeqDef, LenProperties
<1>8. Laid(said, h, n)
  <2>1. Len(said) = Offset(h, n + 1)
    BY <1>3, <1>4, <1>7
  <2>2. ASSUME NEW s \in 1..n, NEW k \in 1..Len(h[s]) PROVE said[Offset(h, s) + k] = h[s][k]
    <3>1. k \in 1..Len(pieces[s])
      BY <1>2, <2>2
    <3>2. said[Offset(pieces, s) + k] = h[s][k]
      BY <1>0, <2>2, <3>1 DEF n
    <3> QED
      BY <1>3, <3>2
  <2> QED
    BY <2>1, <2>2 DEF Laid
<1> QED
  BY <1>2, <1>7, <1>8 DEF size

(* A track cut as its lines are.                                           *)
CutAs(track, lines) ==
  /\ DOMAIN track.segments = DOMAIN lines
  /\ \A s \in DOMAIN lines : /\ track.segments[s].startIndex = Offset(lines, s) + 1
                             /\ track.segments[s].endIndex = Offset(lines, s) + Len(lines[s])

(* Cut by the segments again, it is what was said piece by piece.          *)
LEMMA SaidBack ==
  ASSUME NEW track, NEW lines, CutAs(track, lines), NEW W, NEW h \in Seq(Seq(W)), Fits(h, lines),
         NEW said \in Seq(W), Laid(said, h, Len(h))
  PROVE  PerSegment(track, said) = h
<1>1. DOMAIN h = 1..Len(h) /\ DOMAIN lines = 1..Len(h) /\ DOMAIN track.segments = 1..Len(h)
  BY DEF Fits, CutAs
<1>2. \A s : Offset(h, s) = Offset(lines, s)
  BY SameOffsets DEF Fits
<1>3. ASSUME NEW s \in 1..Len(h)
      PROVE  SubSeq(said, track.segments[s].startIndex, track.segments[s].endIndex) = h[s]
  <2>1. SubSeq(said, Offset(h, s) + 1, Offset(h, s) + Len(h[s])) = h[s]
    BY CutBack
  <2>2. track.segments[s].startIndex = Offset(h, s) + 1 /\ track.segments[s].endIndex = Offset(h, s) + Len(h[s])
    BY <1>1, <1>2 DEF CutAs, Fits
  <2> QED
    BY <2>1, <2>2
<1>4. PerSegment(track, said) = [s \in 1..Len(h) |-> h[s]]
  BY <1>1, <1>3 DEF PerSegment
<1>5. h = [s \in 1..Len(h) |-> h[s]]
  OBVIOUS
<1> QED
  BY <1>4, <1>5

(* A feature that is a track's: values of any kind, arrays of any length.  *)
TrackFeatures(P, A, T, V, I, L, S, R) ==
  [kind : {"track"}, coordinates : Seq(Seq([place : P, altitudeM : A])), coordTimes : Seq(Seq(T)),
   fields : [Fields -> {Null} \cup Seq(Seq(V))], segments : Seq([id : I]), laps : L, status : S, rest : R]

PointPieces(feature) ==
  [s \in DOMAIN feature.coordinates |-> [i \in DOMAIN feature.coordinates[s] |-> PointAt(feature, s, i)]]

PointsMade(P, A, T, V) == [place : P, altitudeM : A, t : T, fields : [Fields -> V \cup {Null}]]

(* A shaped feature has a point per coordinate, and what it says fits      *)
(* them.                                                                   *)
LEMMA PiecesAre ==
  ASSUME NEW P, NEW A, NEW T, NEW V, NEW I, NEW L, NEW S, NEW R,
         NEW feature \in TrackFeatures(P, A, T, V, I, L, S, R), Shaped(feature), Null \notin Seq(Seq(T))
  PROVE  /\ PointPieces(feature) \in Seq(Seq(PointsMade(P, A, T, V)))
         /\ Fits(feature.coordinates, PointPieces(feature)) /\ Fits(PointPieces(feature), feature.coordinates)
         /\ Fits(feature.coordTimes, feature.coordinates)
         /\ \A f \in Fields : feature.fields[f] # Null => Fits(feature.fields[f], feature.coordinates)
<1> DEFINE lines == feature.coordinates
           n == Len(lines)
           times == feature.coordTimes
<1>1. lines \in Seq(Seq([place : P, altitudeM : A])) /\ times \in Seq(Seq(T)) /\ feature.fields \in [Fields -> {Null} \cup Seq(Seq(V))]
  BY DEF TrackFeatures
<1>2. n \in Nat /\ DOMAIN lines = 1..n /\ \A s \in 1..n : lines[s] \in Seq([place : P, altitudeM : A])
  BY <1>1
<1>3. \A s \in 1..n : Len(lines[s]) \in Nat /\ DOMAIN lines[s] = 1..Len(lines[s])
                      /\ \A i \in 1..Len(lines[s]) : lines[s][i].place \in P /\ lines[s][i].altitudeM \in A
  <2> TAKE s \in 1..n
  <2> DEFINE line == lines[s]
  <2> DEFINE Places == [place : P, altitudeM : A]
  <2>1. line \in Seq(Places)
    BY <1>2
  <2> HIDE DEF line, Places
  <2>2. Len(line) \in Nat /\ DOMAIN line = 1..Len(line) /\ \A i \in 1..Len(line) : line[i] \in Places
    BY <2>1
  <2>3. \A i \in 1..Len(line) : line[i].place \in P /\ line[i].altitudeM \in A
    BY <2>2 DEF Places
  <2> QED
    BY <2>2, <2>3 DEF line
<1> HIDE DEF lines, n
<1>4. Fits(times, lines)
  <2>1. times # Null => (Len(times) = n /\ \A s \in 1..n : Len(times[s]) = Len(lines[s]))
    BY <1>2 DEF Shaped, Aligned, lines, n
  <2>2. DOMAIN times = 1..Len(times) /\ times # Null
    BY <1>1
  <2> QED
    BY <1>2, <2>1, <2>2 DEF Fits
<1>5. ASSUME NEW f \in Fields, feature.fields[f] # Null
      PROVE  Fits(feature.fields[f], lines) /\ feature.fields[f] \in Seq(Seq(V))
  <2> DEFINE arrays == feature.fields[f]
  <2>1. arrays \in Seq(Seq(V))
    BY <1>1, <1>5
  <2>2. Len(arrays) = n /\ \A s \in 1..n : Len(arrays[s]) = Len(lines[s])
    BY <1>2, <1>5 DEF Shaped, Aligned, lines, n
  <2> HIDE DEF arrays
  <2>3. DOMAIN arrays = 1..Len(arrays)
    BY <2>1
  <2>4. Fits(arrays, lines)
    BY <1>2, <2>2, <2>3 DEF Fits
  <2> QED
    BY <2>1, <2>4 DEF arrays
<1>6. ASSUME NEW W, NEW h \in Seq(Seq(W)), Fits(h, lines), NEW s \in 1..n, NEW i \in 1..Len(lines[s])
      PROVE  h[s][i] \in W
  <2>1. s \in DOMAIN h /\ Len(h[s]) = Len(lines[s])
    BY <1>2, <1>6 DEF Fits
  <2>2. h[s] \in Seq(W) /\ i \in 1..Len(h[s])
    BY <1>6, <2>1
  <2> QED
    BY <2>2
<1>7. ASSUME NEW s \in 1..n, NEW i \in 1..Len(lines[s]) PROVE PointAt(feature, s, i) \in PointsMade(P, A, T, V)
  <2>1. times[s][i] \in T
    BY <1>1, <1>4, <1>6
  <2>2. ASSUME NEW f \in Fields PROVE ReadParallel(feature.fields[f], s, i) \in V \cup {Null}
    <3>1. CASE feature.fields[f] = Null
      BY <3>1 DEF ReadParallel
    <3>2. CASE feature.fields[f] # Null
      <4>1. feature.fields[f][s][i] \in V
        BY <1>5, <1>6, <3>2
      <4> QED
        BY <3>2, <4>1 DEF ReadParallel
    <3> QED
      BY <3>1, <3>2
  <2>3. lines[s][i].place \in P /\ lines[s][i].altitudeM \in A
    BY <1>3
  <2>4. PointAt(feature, s, i) =
          [place |-> lines[s][i].place, altitudeM |-> lines[s][i].altitudeM, t |-> times[s][i],
           fields |-> [f \in Fields |-> ReadParallel(feature.fields[f], s, i)]]
    BY DEF PointAt, lines
  <2>5. [f \in Fields |-> ReadParallel(feature.fields[f], s, i)] \in [Fields -> V \cup {Null}]
    BY <2>2
  <2> QED
    BY <2>1, <2>3, <2>4, <2>5 DEF PointsMade
<1> DEFINE pieces == PointPieces(feature)
           piece(s) == [i \in 1..Len(lines[s]) |-> PointAt(feature, s, i)]
<1>8. pieces = [s \in 1..n |-> piece(s)]
  <2>1. \A s \in 1..n : [i \in DOMAIN lines[s] |-> PointAt(feature, s, i)] = piece(s)
    BY <1>3
  <2> HIDE DEF piece
  <2>2. pieces = [s \in 1..n |-> [i \in DOMAIN lines[s] |-> PointAt(feature, s, i)]]
    BY <1>2 DEF PointPieces, lines
  <2> QED
    BY <2>1, <2>2
<1>9. \A s \in 1..n : piece(s) \in Seq(PointsMade(P, A, T, V)) /\ Len(piece(s)) = Len(lines[s])
  <2> TAKE s \in 1..n
  <2> DEFINE l == Len(lines[s])
             p == piece(s)
  <2>1. l \in Nat /\ p \in [1..l -> PointsMade(P, A, T, V)]
    BY <1>3, <1>7
  <2> HIDE DEF l, p
  <2>2. p \in Seq(PointsMade(P, A, T, V)) /\ Len(p) = l
    BY <2>1, SeqDef, LenProperties
  <2> QED
    BY <2>2 DEF l, p
<1> HIDE DEF piece, pieces
<1>10. pieces \in [1..n -> Seq(PointsMade(P, A, T, V))]
  BY <1>8, <1>9
<1>11. pieces \in Seq(Seq(PointsMade(P, A, T, V)))
  BY <1>2, <1>10, SeqDef
<1>12. Fits(lines, pieces) /\ Fits(pieces, lines)
  BY <1>2, <1>8, <1>9 DEF Fits
<1> QED
  BY <1>4, <1>5, <1>11, <1>12 DEF lines, pieces

(* The track of a feature.                                                 *)
LEMMA TrackOfIs ==
  ASSUME NEW P, NEW A, NEW T, NEW V, NEW I, NEW L, NEW S, NEW R,
         NEW feature \in TrackFeatures(P, A, T, V, I, L, S, R), Shaped(feature), Null \notin Seq(Seq(T))
  PROVE  /\ TrackOf(feature).points \in Seq(PointsMade(P, A, T, V))
         /\ Laid(TrackOf(feature).points, PointPieces(feature), Len(PointPieces(feature)))
         /\ CutAs(TrackOf(feature), feature.coordinates)
         /\ \A s \in DOMAIN feature.coordinates : TrackOf(feature).segments[s].id = feature.segments[s].id
         /\ TrackOf(feature).laps = feature.laps /\ TrackOf(feature).status = feature.status
         /\ TrackOf(feature).rest = feature.rest
<1> DEFINE track == TrackOf(feature)
           lines == feature.coordinates
           pieces == PointPieces(feature)
<1>1. pieces \in Seq(Seq(PointsMade(P, A, T, V)))
  BY PiecesAre
<1>2. track.points = FlattenSeq(pieces)
  BY DEF TrackOf, PointPieces
<1>3. FlattenSeq(pieces) \in Seq(PointsMade(P, A, T, V)) /\ Laid(FlattenSeq(pieces), pieces, Len(pieces))
  <2> HIDE DEF pieces
  <2> QED
    BY <1>1, FlattenedIs, JoinedIsLaid
<1>4. track.segments = [s \in DOMAIN lines |->
                          [id |-> feature.segments[s].id, startIndex |-> Offset(lines, s) + 1,
                           endIndex |-> Offset(lines, s) + Len(lines[s])]]
  BY DEF TrackOf, Offset, Lengths
<1>5. track.laps = feature.laps /\ track.status = feature.status /\ track.rest = feature.rest
  BY DEF TrackOf
<1> HIDE DEF track, lines, pieces
<1>6. CutAs(track, lines) /\ \A s \in DOMAIN lines : track.segments[s].id = feature.segments[s].id
  BY <1>4 DEF CutAs
<1> QED
  BY <1>2, <1>3, <1>5, <1>6 DEF track, lines, pieces

(* What was read of each point is written back where it was.               *)
WrittenOf(said, feature, h) ==
  /\ DOMAIN said = DOMAIN TrackOf(feature).points
  /\ said = [i \in DOMAIN TrackOf(feature).points |-> said[i]]
  /\ \A s \in DOMAIN feature.coordinates : \A k \in 1..Len(feature.coordinates[s]) :
       \A i \in DOMAIN TrackOf(feature).points :
         TrackOf(feature).points[i] = PointAt(feature, s, k) => said[i] = h[s][k]

(* What the points of an import were told of is exported as it was.        *)
LEMMA WrittenBack ==
  ASSUME NEW P, NEW A, NEW T, NEW V, NEW I, NEW L, NEW S, NEW R,
         NEW feature \in TrackFeatures(P, A, T, V, I, L, S, R), Shaped(feature), Null \notin Seq(Seq(T)),
         NEW W, NEW h \in Seq(Seq(W)), Fits(h, feature.coordinates),
         NEW said, WrittenOf(said, feature, h)
  PROVE  PerSegment(TrackOf(feature), said) = h
<1> DEFINE track == TrackOf(feature)
           lines == feature.coordinates
           pieces == PointPieces(feature)
           points == track.points
           n == Len(pieces)
           O == PointsMade(P, A, T, V)
<1>1. /\ points \in Seq(O) /\ Laid(points, pieces, n) /\ CutAs(track, lines)
  BY TrackOfIs
<1>2. pieces \in Seq(Seq(O)) /\ Fits(lines, pieces)
  BY PiecesAre
<1>3. \A s \in DOMAIN lines : \A k \in DOMAIN lines[s] : pieces[s][k] = PointAt(feature, s, k)
  BY DEF PointPieces
<1>4. \A s \in DOMAIN lines : DOMAIN lines[s] = 1..Len(lines[s])
  <2>1. lines \in Seq(Seq([place : P, altitudeM : A]))
    BY DEF TrackFeatures
  <2> DEFINE Places == [place : P, altitudeM : A]
  <2> TAKE s \in DOMAIN lines
  <2>2. lines[s] \in Seq(Places)
    BY <2>1
  <2> HIDE DEF Places
  <2> QED
    BY <2>2
<1>5. \A s \in DOMAIN lines : \A k \in 1..Len(lines[s]) : \A i \in DOMAIN points :
        points[i] = PointAt(feature, s, k) => said[i] = h[s][k]
  BY DEF WrittenOf
<1>6. DOMAIN said = DOMAIN points /\ said = [i \in DOMAIN points |-> said[i]] /\ Fits(h, lines)
  BY DEF WrittenOf
<1> HIDE DEF track, lines, pieces, points, O
<1>7. n \in Nat /\ DOMAIN pieces = 1..n /\ DOMAIN lines = 1..n /\ DOMAIN points = 1..Len(points)
      /\ Len(points) = Offset(pieces, n + 1)
  BY <1>1, <1>2 DEF Fits, Laid
<1>8. Fits(h, pieces)
  BY <1>2, <1>6 DEF Fits
<1>9. ASSUME NEW s \in 1..n, NEW k \in 1..Len(pieces[s]) PROVE said[Offset(pieces, s) + k] = h[s][k]
  <2> DEFINE i == Offset(pieces, s) + k
  <2>1. i \in DOMAIN points
    <3>1. i \in 1..Offset(pieces, n + 1)
      BY <1>2, InLaid
    <3> HIDE DEF i
    <3> QED
      BY <1>7, <3>1
  <2>2. points[i] = pieces[s][k]
    BY <1>1 DEF Laid
  <2>3. s \in DOMAIN lines /\ k \in 1..Len(lines[s]) /\ k \in DOMAIN lines[s]
    BY <1>2, <1>4, <1>7, <1>9 DEF Fits
  <2> HIDE DEF i
  <2>4. points[i] = PointAt(feature, s, k)
    BY <1>3, <2>2, <2>3
  <2> QED
    BY <1>5, <2>1, <2>3, <2>4 DEF i
<1>10. said \in Seq(W) /\ Laid(said, h, Len(h))
  <2>1. SaidOf(said, points, pieces, h)
    BY <1>6, <1>9 DEF SaidOf
  <2> QED
    BY <1>1, <1>2, <1>8, <2>1, SaidLaid
<1>11. PerSegment(track, said) = h
  BY <1>1, <1>6, <1>10, SaidBack
<1> QED
  BY <1>11 DEF track

(* Each point of the track is one of the document's, and each of those is  *)
(* a point of the track.                                                   *)
LEMMA PointsMet ==
  ASSUME NEW P, NEW A, NEW T, NEW V, NEW I, NEW L, NEW S, NEW R,
         NEW feature \in TrackFeatures(P, A, T, V, I, L, S, R), Shaped(feature), Null \notin Seq(Seq(T))
  PROVE  /\ \A i \in DOMAIN TrackOf(feature).points :
              \E s \in DOMAIN feature.coordinates : \E k \in 1..Len(feature.coordinates[s]) :
                TrackOf(feature).points[i] = PointAt(feature, s, k)
         /\ \A s \in DOMAIN feature.coordinates : \A k \in 1..Len(feature.coordinates[s]) :
              \E i \in DOMAIN TrackOf(feature).points : TrackOf(feature).points[i] = PointAt(feature, s, k)
<1> DEFINE track == TrackOf(feature)
           lines == feature.coordinates
           pieces == PointPieces(feature)
           points == track.points
           n == Len(pieces)
           O == PointsMade(P, A, T, V)
<1>1. /\ points \in Seq(O) /\ Laid(points, pieces, n)
  BY TrackOfIs
<1>2. pieces \in Seq(Seq(O)) /\ Fits(lines, pieces)
  BY PiecesAre
<1>3. \A s \in DOMAIN lines : \A k \in DOMAIN lines[s] : pieces[s][k] = PointAt(feature, s, k)
  BY DEF PointPieces
<1>4. \A s \in DOMAIN lines : DOMAIN lines[s] = 1..Len(lines[s])
  <2>1. lines \in Seq(Seq([place : P, altitudeM : A]))
    BY DEF TrackFeatures
  <2> DEFINE Places == [place : P, altitudeM : A]
  <2> TAKE s \in DOMAIN lines
  <2>2. lines[s] \in Seq(Places)
    BY <2>1
  <2> HIDE DEF Places
  <2> QED
    BY <2>2
<1> HIDE DEF track, lines, pieces, points, O
<1>5. n \in Nat /\ DOMAIN pieces = 1..n /\ DOMAIN lines = 1..n /\ DOMAIN points = 1..Len(points)
      /\ Len(points) = Offset(pieces, n + 1)
  BY <1>1, <1>2 DEF Fits, Laid
<1>6. \A s \in 1..n : Len(lines[s]) = Len(pieces[s])
  BY <1>2, <1>5 DEF Fits
<1>7. ASSUME NEW i \in DOMAIN points
      PROVE  \E s \in DOMAIN lines : \E k \in 1..Len(lines[s]) : points[i] = PointAt(feature, s, k)
  <2>0. i \in 1..Offset(pieces, Len(pieces) + 1)
    BY <1>5
  <2>1. PICK s \in 1..n : \E k \in 1..Len(pieces[s]) : i = Offset(pieces, s) + k
    BY <1>2, <2>0, LaidFound
  <2>2. PICK k \in 1..Len(pieces[s]) : i = Offset(pieces, s) + k
    BY <2>1
  <2>3. points[i] = pieces[s][k]
    BY <1>1, <2>2 DEF Laid
  <2>4. s \in DOMAIN lines /\ k \in 1..Len(lines[s]) /\ k \in DOMAIN lines[s]
    BY <1>4, <1>5, <1>6
  <2> QED
    BY <1>3, <2>3, <2>4
<1>8. ASSUME NEW s \in DOMAIN lines, NEW k \in 1..Len(lines[s])
      PROVE  \E i \in DOMAIN points : points[i] = PointAt(feature, s, k)
  <2>1. s \in 1..n /\ k \in 1..Len(pieces[s]) /\ k \in DOMAIN lines[s]
    BY <1>4, <1>5, <1>6
  <2>2. Offset(pieces, s) + k \in 1..Offset(pieces, n + 1)
    BY <1>2, <2>1, InLaid
  <2>3. points[Offset(pieces, s) + k] = pieces[s][k]
    BY <1>1, <2>1 DEF Laid
  <2> QED
    BY <1>3, <1>5, <2>1, <2>2, <2>3
<1> QED
  BY <1>7, <1>8 DEF track, lines, points

(* The coordinates and times of an imported track are those it came with.  *)
WrittenFrom(track, feature) ==
  /\ PerSegment(track, [i \in DOMAIN track.points |-> Coordinate(track.points[i])]) = feature.coordinates
  /\ PerSegment(track, [i \in DOMAIN track.points |-> track.points[i].t]) = feature.coordTimes

(* The coordinates and times of a document come back.                      *)
LEMMA CoordinatesBack ==
  ASSUME NEW P, NEW A, NEW T, NEW V, NEW I, NEW L, NEW S, NEW R,
         NEW feature \in TrackFeatures(P, A, T, V, I, L, S, R), Shaped(feature), Null \notin Seq(Seq(T))
  PROVE  WrittenFrom(TrackOf(feature), feature)
<1> DEFINE track == TrackOf(feature)
           points == track.points
           lines == feature.coordinates
           times == feature.coordTimes
           Places == [place : P, altitudeM : A]
           there == [i \in DOMAIN points |-> Coordinate(points[i])]
           then == [i \in DOMAIN points |-> points[i].t]
<1>1. lines \in Seq(Seq(Places)) /\ times \in Seq(Seq(T))
  BY DEF TrackFeatures
<1>2. Fits(times, lines)
  BY PiecesAre
<1>3. Fits(lines, lines)
  BY DEF Fits
<1>4. \A s \in DOMAIN lines : \A k \in 1..Len(lines[s]) :
        Coordinate(PointAt(feature, s, k)) = lines[s][k] /\ PointAt(feature, s, k).t = times[s][k]
  <2> TAKE s \in DOMAIN lines
  <2> TAKE k \in 1..Len(lines[s])
  <2> DEFINE line == lines[s]
             point == PointAt(feature, s, k)
  <2>1. line \in Seq(Places) /\ k \in 1..Len(line)
    BY <1>1
  <2> HIDE DEF line
  <2>2. line[k] \in Places
    <3> HIDE DEF Places
    <3> QED
      BY <2>1
  <2>3. line[k] = [place |-> line[k].place, altitudeM |-> line[k].altitudeM]
    BY <2>2
  <2>4. point.place = line[k].place /\ point.altitudeM = line[k].altitudeM /\ point.t = times[s][k]
    BY DEF PointAt, line
  <2>5. Coordinate(point) = [place |-> point.place, altitudeM |-> point.altitudeM]
    BY DEF Coordinate
  <2> HIDE DEF point
  <2>6. Coordinate(point) = line[k]
    BY <2>3, <2>4, <2>5
  <2> QED
    BY <2>4, <2>6 DEF point, line
<1>5. PerSegment(track, there) = lines
  <2>1. DOMAIN there = DOMAIN points /\ there = [i \in DOMAIN points |-> there[i]]
    OBVIOUS
  <2>2. \A s \in DOMAIN lines : \A k \in 1..Len(lines[s]) : \A i \in DOMAIN points :
          points[i] = PointAt(feature, s, k) => there[i] = lines[s][k]
    BY <1>4
  <2>3. WrittenOf(there, feature, lines)
    <3> HIDE DEF there
    <3> QED
      BY <2>1, <2>2 DEF WrittenOf
  <2> HIDE DEF there, Places
  <2> QED
    BY <1>1, <1>3, <2>3, WrittenBack
<1>6. PerSegment(track, then) = times
  <2>1. DOMAIN then = DOMAIN points /\ then = [i \in DOMAIN points |-> then[i]]
    OBVIOUS
  <2>2. \A s \in DOMAIN lines : \A k \in 1..Len(lines[s]) : \A i \in DOMAIN points :
          points[i] = PointAt(feature, s, k) => then[i] = times[s][k]
    BY <1>4
  <2>3. WrittenOf(then, feature, times)
    <3> HIDE DEF then
    <3> QED
      BY <2>1, <2>2 DEF WrittenOf
  <2> HIDE DEF then
  <2> QED
    BY <1>1, <1>2, <2>3, WrittenBack
<1> QED
  BY <1>5, <1>6 DEF WrittenFrom

(* So is a field of its points, unless no point has it.                    *)
SaysNothing(feature, f) ==
  /\ feature.fields[f] # Null
  /\ \A s \in DOMAIN feature.fields[f] : ToSet(feature.fields[f][s]) \subseteq {Null}

(* A field of a document comes back, unless it says nothing.               *)
LEMMA FieldBack ==
  ASSUME NEW P, NEW A, NEW T, NEW V, NEW I, NEW L, NEW S, NEW R,
         NEW feature \in TrackFeatures(P, A, T, V, I, L, S, R), Shaped(feature), Null \notin Seq(Seq(T)),
         NEW f \in Fields
  PROVE  Parallel(TrackOf(feature), f) = IF SaysNothing(feature, f) THEN Null ELSE feature.fields[f]
<1> DEFINE track == TrackOf(feature)
           points == track.points
           lines == feature.coordinates
           arrays == feature.fields[f]
           said == [i \in DOMAIN points |-> points[i].fields[f]]
           silent == \A i \in DOMAIN points : points[i].fields[f] = Null
<1>1. Parallel(track, f) = IF silent THEN Null ELSE PerSegment(track, said)
  BY DEF Parallel
<1>2. \A s, k : PointAt(feature, s, k).fields[f] = IF arrays = Null THEN Null ELSE arrays[s][k]
  BY DEF PointAt, ReadParallel
<1>3. /\ \A i \in DOMAIN points :
           \E s \in DOMAIN lines : \E k \in 1..Len(lines[s]) : points[i] = PointAt(feature, s, k)
      /\ \A s \in DOMAIN lines : \A k \in 1..Len(lines[s]) :
           \E i \in DOMAIN points : points[i] = PointAt(feature, s, k)
  BY PointsMet
<1>4. arrays \in {Null} \cup Seq(Seq(V))
  BY DEF TrackFeatures
<1>5. CASE arrays = Null
  <2>1. silent
    <3> HIDE DEF points, lines, arrays
    <3> QED
      BY <1>2, <1>3, <1>5
  <2> HIDE DEF said, silent, arrays
  <2>2. ~ SaysNothing(feature, f)
    BY <1>5 DEF SaysNothing, arrays
  <2> QED
    BY <1>1, <1>5, <2>1, <2>2 DEF arrays
<1>6. CASE arrays # Null
  <2>1. arrays \in Seq(Seq(V))
    BY <1>4, <1>6
  <2>2. Fits(arrays, lines)
    BY <1>6, PiecesAre
  <2>3. DOMAIN arrays = DOMAIN lines /\ \A s \in DOMAIN lines : DOMAIN arrays[s] = 1..Len(lines[s])
    <3>1. \A s \in DOMAIN arrays : DOMAIN arrays[s] = 1..Len(arrays[s])
      <4> TAKE s \in DOMAIN arrays
      <4>1. arrays[s] \in Seq(V)
        BY <2>1
      <4> QED
        BY <4>1
    <3> HIDE DEF arrays, lines
    <3> QED
      BY <2>2, <3>1 DEF Fits
  <2>4. PerSegment(track, said) = arrays
    <3>1. DOMAIN said = DOMAIN points /\ said = [i \in DOMAIN points |-> said[i]]
      OBVIOUS
    <3>2. \A s \in DOMAIN lines : \A k \in 1..Len(lines[s]) : \A i \in DOMAIN points :
            points[i] = PointAt(feature, s, k) => said[i] = arrays[s][k]
      <4> HIDE DEF arrays, lines
      <4> QED
        BY <1>2, <1>6
    <3> HIDE DEF said, arrays
    <3>3. WrittenOf(said, feature, arrays)
      BY <3>1, <3>2 DEF WrittenOf
    <3> QED
      BY <2>1, <2>2, <3>3, WrittenBack
  <2>5. silent <=> \A s \in DOMAIN arrays : ToSet(arrays[s]) \subseteq {Null}
    <3>1. ASSUME silent, NEW s \in DOMAIN arrays PROVE ToSet(arrays[s]) \subseteq {Null}
      <4> SUFFICES ASSUME NEW k \in DOMAIN arrays[s] PROVE arrays[s][k] = Null
        BY DEF ToSet
      <4>1. s \in DOMAIN lines /\ k \in 1..Len(lines[s])
        BY <2>3
      <4>2. PICK i \in DOMAIN points : points[i] = PointAt(feature, s, k)
        <5> HIDE DEF points, lines, arrays
        <5> QED
          BY <1>3, <4>1
      <4>3. points[i].fields[f] = Null
        BY <3>1
      <4>4. PointAt(feature, s, k).fields[f] = arrays[s][k]
        <5> HIDE DEF arrays
        <5> QED
          BY <1>2, <1>6
      <4> HIDE DEF points, arrays
      <4> QED
        BY <4>2, <4>3, <4>4
    <3>2. ASSUME \A s \in DOMAIN arrays : ToSet(arrays[s]) \subseteq {Null}, NEW i \in DOMAIN points
          PROVE  points[i].fields[f] = Null
      <4> HIDE DEF points, lines, arrays
      <4>1. PICK s \in DOMAIN lines : \E k \in 1..Len(lines[s]) : points[i] = PointAt(feature, s, k)
        BY <1>3
      <4>2. PICK k \in 1..Len(lines[s]) : points[i] = PointAt(feature, s, k)
        BY <4>1
      <4>3. s \in DOMAIN arrays /\ k \in DOMAIN arrays[s]
        BY <2>3
      <4>4. arrays[s][k] \in ToSet(arrays[s])
        BY <4>3 DEF ToSet
      <4>5. arrays[s][k] = Null
        BY <3>2, <4>3, <4>4
      <4> QED
        BY <1>2, <1>6, <4>2, <4>5
    <3> HIDE DEF points, arrays
    <3> QED
      BY <3>1, <3>2
  <2>6. SaysNothing(feature, f) <=> silent
    <3> HIDE DEF silent
    <3> QED
      BY <1>6, <2>5 DEF SaysNothing
  <2> HIDE DEF silent, said, arrays
  <2> QED
    BY <1>1, <2>4, <2>6 DEF arrays
<1> QED
  BY <1>5, <1>6

(* The feature of an import is the feature it was imported from.           *)
LEMMA FeatureBack ==
  ASSUME NEW P, NEW A, NEW T, NEW V, NEW I, NEW L, NEW S, NEW R,
         NEW feature \in TrackFeatures(P, A, T, V, I, L, S, R), Shaped(feature), Null \notin Seq(Seq(T))
  PROVE  Canonical(feature) = TrackFeature(TrackOf(feature))
<1> DEFINE track == TrackOf(feature)
           fields == [f \in Fields |-> IF SaysNothing(feature, f) THEN Null ELSE feature.fields[f]]
<1>1. feature = [kind |-> "track", coordinates |-> feature.coordinates, coordTimes |-> feature.coordTimes,
                 fields |-> feature.fields, segments |-> feature.segments, laps |-> feature.laps,
                 status |-> feature.status, rest |-> feature.rest]
  BY DEF TrackFeatures
<1>2. Canonical(feature) = [feature EXCEPT !.fields = fields]
  BY DEF Canonical, SaysNothing
<1>3. [f \in Fields |-> Parallel(track, f)] = fields
  BY FieldBack
<1>4. /\ PerSegment(track, [i \in DOMAIN track.points |-> Coordinate(track.points[i])]) = feature.coordinates
      /\ PerSegment(track, [i \in DOMAIN track.points |-> track.points[i].t]) = feature.coordTimes
  <2>1. WrittenFrom(track, feature)
    BY CoordinatesBack
  <2> HIDE DEF track
  <2> QED
    BY <2>1 DEF WrittenFrom
<1>5. /\ CutAs(track, feature.coordinates)
      /\ \A s \in DOMAIN feature.coordinates : track.segments[s].id = feature.segments[s].id
      /\ track.laps = feature.laps /\ track.status = feature.status /\ track.rest = feature.rest
  BY TrackOfIs
<1>6. [s \in DOMAIN track.segments |-> [id |-> track.segments[s].id]] = feature.segments
  <2> DEFINE segments == feature.segments
             lines == feature.coordinates
  <2>1. segments \in Seq([id : I]) /\ lines \in Seq(Seq([place : P, altitudeM : A]))
    BY DEF TrackFeatures
  <2>2. Len(segments) = Len(lines)
    BY DEF Shaped
  <2>3. DOMAIN track.segments = DOMAIN lines /\ \A s \in DOMAIN lines : track.segments[s].id = segments[s].id
    BY <1>5 DEF CutAs
  <2> HIDE DEF segments, lines, track
  <2>4. DOMAIN lines = 1..Len(segments) /\ DOMAIN segments = 1..Len(segments)
    BY <2>1, <2>2
  <2> DEFINE Ids == [id : I]
  <2>5. \A s \in 1..Len(segments) : segments[s] \in Ids
    <3>1. segments \in Seq(Ids)
      BY <2>1
    <3> HIDE DEF Ids
    <3> QED
      BY <3>1
  <2>6. \A s \in 1..Len(segments) : segments[s] = [id |-> segments[s].id]
    BY <2>5
  <2>7. segments = [s \in 1..Len(segments) |-> segments[s]]
    BY <2>1
  <2> HIDE DEF Ids
  <2>8. [s \in DOMAIN track.segments |-> [id |-> track.segments[s].id]] = [s \in 1..Len(segments) |-> segments[s]]
    BY <2>3, <2>4, <2>6
  <2> QED
    BY <2>7, <2>8 DEF segments
<1>7. TrackFeature(track) =
        [kind |-> "track", coordinates |-> feature.coordinates, coordTimes |-> feature.coordTimes,
         fields |-> fields, segments |-> feature.segments, laps |-> feature.laps,
         status |-> feature.status, rest |-> feature.rest]
  <2> HIDE DEF track, fields
  <2> QED
    BY <1>3, <1>4, <1>5, <1>6 DEF TrackFeature
<1> HIDE DEF track, fields
<1> QED
  BY <1>1, <1>2, <1>7 DEF track

(* The documents of another program: features, those of tracks as above.   *)
Documents(document, P, A, T, V, I, L, S, R) ==
  /\ Listed(document.features)
  /\ \A i \in DOMAIN document.features :
       document.features[i].kind = "track" => document.features[i] \in TrackFeatures(P, A, T, V, I, L, S, R)

(* Import repairs nothing: of whatever document it accepts, every          *)
(* coordinate, time and field value is in the track, at its place -- the   *)
(* track exports to that document again (geoJSONToTrack).                  *)
THEOREM ImportsRepairNothing ==
  ASSUME NEW P, NEW A, NEW T, NEW V, NEW I, NEW L, NEW S, NEW R, Null \notin Seq(Seq(T)),
         NEW document, Documents(document, P, A, T, V, I, L, S, R)
  PROVE  ImportRepairsNothing(document)
<1> DEFINE found == OfKind(document, "track")
           events == OfKind(document, "event")
           feature == found[1]
           track == TrackOf(feature)
           imported == GeoJSONToTrack(document)
<1> SUFFICES ASSUME imported # Malformed PROVE Canonical(feature) = TrackFeature(imported.track)
  BY DEF ImportRepairsNothing
<1>1. /\ Len(found) = 1 /\ Shaped(feature)
      /\ imported = [track |-> track, events |-> [i \in DOMAIN events |-> events[i].event]]
  BY DEF GeoJSONToTrack
<1>2. imported.track = track
  BY <1>1
<1>3. feature \in TrackFeatures(P, A, T, V, I, L, S, R)
  <2> DEFINE places == {i \in DOMAIN document.features : document.features[i].kind = "track"}
  <2>1. found \in Seq({document.features[i] : i \in places})
    BY PickedSet DEF OfKind, Documents
  <2>2. \A i \in places : document.features[i] \in TrackFeatures(P, A, T, V, I, L, S, R)
    BY DEF Documents
  <2> HIDE DEF found, places
  <2>3. found[1] \in {document.features[i] : i \in places}
    BY <1>1, <2>1
  <2> QED
    BY <2>2, <2>3
<1> HIDE DEF feature, track, imported
<1>4. Canonical(feature) = TrackFeature(track)
  BY <1>1, <1>3, FeatureBack DEF track
<1> QED
  BY <1>2, <1>4

(* A track cut through by its segments: they follow one another from its   *)
(* first point to its last.                                                *)
CutThrough(track, n, size) ==
  /\ n \in Nat /\ size \in Nat /\ DOMAIN track.segments = 1..n
  /\ \A s \in 1..n : /\ track.segments[s].startIndex \in 1..size /\ track.segments[s].endIndex \in 1..size
                     /\ track.segments[s].startIndex <= track.segments[s].endIndex
  /\ n = 0 => size = 0
  /\ n # 0 => track.segments[1].startIndex = 1 /\ track.segments[n].endIndex = size
  /\ \A s \in 1..(n - 1) : track.segments[s + 1].startIndex = track.segments[s].endIndex + 1

(* Valid segments cut the points from the first to the last.               *)
LEMMA ValidIsCutThrough ==
  ASSUME NEW track, NEW T, track.points \in Seq(T), NEW G, track.segments \in Seq(G),
         \A s \in DOMAIN track.segments : track.segments[s].startIndex \in Nat /\ track.segments[s].endIndex \in Nat,
         ValidTrackGeometry(track.points, track.segments, track.laps)
  PROVE  CutThrough(track, Len(track.segments), Len(track.points))
<1> DEFINE segments == track.segments
           points == track.points
           n == Len(segments)
           size == Len(points)
<1>1. n \in Nat /\ DOMAIN segments = 1..n /\ size \in Nat
  OBVIOUS
<1>2. SegmentRanges(points, segments) /\ SegmentsCoverPoints(points, segments)
  BY DEF ValidTrackGeometry
<1>3. \A s \in 1..n : /\ segments[s].startIndex \in 1..size /\ segments[s].endIndex \in 1..size
                      /\ segments[s].startIndex <= segments[s].endIndex
  <2> TAKE s \in 1..n
  <2>1. segments[s].startIndex \in Nat /\ segments[s].endIndex \in Nat
    BY <1>1
  <2>2. /\ segments[s].startIndex >= 1 /\ segments[s].endIndex <= size
        /\ segments[s].startIndex <= segments[s].endIndex
    BY <1>2 DEF SegmentRanges
  <2> QED
    BY <1>1, <2>1, <2>2
<1>4. n = 0 <=> segments = << >>
  OBVIOUS
<1>5. segments = << >> => size = 0
  BY <1>2 DEF SegmentsCoverPoints
<1>6. segments # << >> => /\ segments[1].startIndex = 1 /\ segments[n].endIndex = size
                          /\ \A s \in 2..n : segments[s].startIndex = segments[s - 1].endIndex + 1
  BY <1>2 DEF SegmentsCoverPoints
<1>7. \A s \in 1..(n - 1) : segments[s + 1].startIndex = segments[s].endIndex + 1
  <2> TAKE s \in 1..(n - 1)
  <2>1. s + 1 \in 2..n /\ (s + 1) - 1 = s /\ n # 0
    BY <1>1
  <2> QED
    BY <1>4, <1>6, <2>1
<1> QED
  BY <1>1, <1>3, <1>4, <1>5, <1>6, <1>7 DEF CutThrough

(* What is said of a segment's points.                                     *)
ToldTo(track, said, n, W) ==
  /\ PerSegment(track, said) \in Seq(Seq(W)) /\ DOMAIN PerSegment(track, said) = 1..n
  /\ \A s \in 1..n :
       /\ Len(PerSegment(track, said)[s]) = (track.segments[s].endIndex - track.segments[s].startIndex) + 1
       /\ \A k \in 1..Len(PerSegment(track, said)[s]) :
            PerSegment(track, said)[s][k] = said[(track.segments[s].startIndex - 1) + k]

(* What is cut by the segments has a piece for each, as long as it is.     *)
LEMMA PerSegmentGives ==
  ASSUME NEW track, NEW n, NEW size, CutThrough(track, n, size), NEW W, NEW said \in Seq(W), Len(said) = size
  PROVE  ToldTo(track, said, n, W)
<1> DEFINE cut == PerSegment(track, said)
           from(s) == track.segments[s].startIndex
           to(s) == track.segments[s].endIndex
<1>1. n \in Nat /\ size \in Nat /\ DOMAIN track.segments = 1..n
  BY DEF CutThrough
<1>2. \A s \in 1..n : from(s) \in 1..size /\ to(s) \in 1..size /\ from(s) <= to(s)
  BY DEF CutThrough
<1>3. cut = [s \in 1..n |-> SubSeq(said, from(s), to(s))]
  BY <1>1 DEF PerSegment
<1>4. \A i \in 1..size : said[i] \in W
  OBVIOUS
<1> HIDE DEF from, to
<1>5. ASSUME NEW s \in 1..n
      PROVE  /\ SubSeq(said, from(s), to(s)) \in Seq(W)
             /\ Len(SubSeq(said, from(s), to(s))) = (to(s) - from(s)) + 1
             /\ \A k \in 1..((to(s) - from(s)) + 1) : SubSeq(said, from(s), to(s))[k] = said[(from(s) - 1) + k]
  <2> DEFINE a == from(s)
             b == to(s)
             piece == SubSeq(said, a, b)
  <2>1. a \in 1..size /\ b \in 1..size /\ a <= b /\ a \in Int /\ b \in Int
    BY <1>1, <1>2
  <2>2. \A i \in a..b : said[i] \in W
    BY <1>1, <1>4, <2>1
  <2> HIDE DEF a, b
  <2>3. /\ piece \in Seq(W) /\ Len(piece) = IF a <= b THEN b - a + 1 ELSE 0
        /\ \A k \in 1..(b - a + 1) : piece[k] = said[a + k - 1]
    BY <2>1, <2>2, SubSeqProperties
  <2> HIDE DEF piece
  <2>4. Len(piece) = (b - a) + 1
    BY <2>1, <2>3
  <2>5. \A k \in 1..((b - a) + 1) : piece[k] = said[(a - 1) + k]
    <3> TAKE k \in 1..((b - a) + 1)
    <3>1. k \in 1..(b - a + 1) /\ a + k - 1 = (a - 1) + k
      BY <2>1
    <3> QED
      BY <2>3, <3>1
  <2> QED
    BY <2>3, <2>4, <2>5 DEF piece, a, b
<1> HIDE DEF cut
<1>6. cut \in [1..n -> Seq(W)]
  BY <1>3, <1>5
<1>7. cut \in Seq(Seq(W))
  BY <1>1, <1>6, SeqDef
<1>8. \A s \in 1..n : cut[s] = SubSeq(said, from(s), to(s))
  BY <1>3
<1>9. \A s \in 1..n : /\ Len(cut[s]) = (to(s) - from(s)) + 1
                      /\ \A k \in 1..Len(cut[s]) : cut[s][k] = said[(from(s) - 1) + k]
  BY <1>5, <1>8
<1> QED
  BY <1>3, <1>7, <1>9 DEF cut, from, to, ToldTo

(* Where a segment's lines are put is where the segment starts.            *)
Matches(lines, track, n) ==
  /\ DOMAIN lines = 1..n
  /\ \A s \in 1..n : Len(lines[s]) = (track.segments[s].endIndex - track.segments[s].startIndex) + 1

(* A piece begins where its segment does.                                  *)
LEMMA SegmentOffsets ==
  ASSUME NEW track, NEW n, NEW size, CutThrough(track, n, size), NEW T, NEW lines \in Seq(Seq(T)),
         Matches(lines, track, n)
  PROVE  /\ Len(lines) = n /\ Offset(lines, n + 1) = size
         /\ \A s \in 1..n : Offset(lines, s) = track.segments[s].startIndex - 1
         /\ CutAs(track, lines)
<1> DEFINE from(s) == track.segments[s].startIndex
           to(s) == track.segments[s].endIndex
           at(s) == IF s = n + 1 THEN size ELSE from(s) - 1
           D == {s \in 1..(n + 1) : Offset(lines, s) = at(s)}
<1>1. n \in Nat /\ size \in Nat /\ DOMAIN track.segments = 1..n
  BY DEF CutThrough
<1>2. /\ \A s \in 1..n : from(s) \in 1..size /\ to(s) \in 1..size /\ from(s) <= to(s)
      /\ n = 0 => size = 0
      /\ n # 0 => from(1) = 1 /\ to(n) = size
      /\ \A s \in 1..(n - 1) : from(s + 1) = to(s) + 1
  BY DEF CutThrough
<1>3. Len(lines) = n /\ DOMAIN lines = 1..n /\ \A s \in 1..n : Len(lines[s]) = (to(s) - from(s)) + 1
  BY <1>1 DEF Matches
<1>4. Offset(lines, 1) = 0 /\ \A s \in 1..n : Offset(lines, s + 1) = Offset(lines, s) + Len(lines[s])
  BY <1>3, OffsetUnrolled
<1> HIDE DEF from, to
<1>5. 1 \in D
  <2>1. at(1) = 0
    BY <1>1, <1>2
  <2> QED
    BY <1>1, <1>4, <2>1
<1>6. ASSUME NEW s \in 1..((n + 1) - 1), s \in D PROVE s + 1 \in D
  <2>1. s \in 1..n /\ s + 1 \in 1..(n + 1) /\ s # n + 1 /\ s \in Int
    BY <1>1
  <2>2. Offset(lines, s) = from(s) - 1
    BY <1>6, <2>1
  <2>3. Offset(lines, s + 1) = to(s)
    <3>1. Offset(lines, s + 1) = Offset(lines, s) + Len(lines[s]) /\ Len(lines[s]) = (to(s) - from(s)) + 1
      BY <1>3, <1>4, <2>1
    <3>2. from(s) \in Int /\ to(s) \in Int
      BY <1>1, <1>2, <2>1
    <3> QED
      BY <2>2, <3>1, <3>2
  <2>4. at(s + 1) = to(s)
    <3>1. CASE s = n
      BY <1>2, <2>1, <3>1
    <3>2. CASE s # n
      <4>1. s \in 1..(n - 1) /\ s + 1 # n + 1 /\ to(s) \in Int
        BY <1>1, <1>2, <2>1, <3>2
      <4>2. from(s + 1) = to(s) + 1
        BY <1>2, <4>1
      <4> QED
        BY <4>1, <4>2
    <3> QED
      BY <3>1, <3>2
  <2> HIDE DEF at
  <2> QED
    BY <2>1, <2>3, <2>4
<1>7. 1 \in Int /\ n + 1 \in Int
  BY <1>1
<1> HIDE DEF D
<1>8. \A s \in 1..(n + 1) : s \in D
  BY <1>5, <1>6, <1>7, UpTo
<1>9. Offset(lines, n + 1) = size
  <2>1. n + 1 \in D
    BY <1>1, <1>8
  <2> QED
    BY <2>1 DEF D
<1>10. \A s \in 1..n : Offset(lines, s) = from(s) - 1
  <2> TAKE s \in 1..n
  <2>1. s \in 1..(n + 1) /\ s # n + 1
    BY <1>1
  <2> QED
    BY <1>8, <2>1 DEF D
<1>11. \A s \in 1..n : from(s) = Offset(lines, s) + 1 /\ to(s) = Offset(lines, s) + Len(lines[s])
  <2> TAKE s \in 1..n
  <2>1. from(s) \in Int /\ to(s) \in Int
    BY <1>1, <1>2
  <2> QED
    BY <1>3, <1>10, <2>1, SMTT(30)
<1>12. CutAs(track, lines)
  BY <1>1, <1>3, <1>11 DEF CutAs, from, to
<1> QED
  BY <1>3, <1>9, <1>10, <1>12 DEF from

(* The tracks of trips.                                                    *)
TripPoints(P, A, V) == [place : P, altitudeM : A, t : Int, fields : [Fields -> V]]
Trips(P, A, V, I, L, S, R) ==
  [points : Seq(TripPoints(P, A, V)), segments : Seq([id : I, startIndex : Nat, endIndex : Nat]),
   laps : L, status : S, rest : R]

Whole(track) == CutThrough(track, Len(track.segments), Len(track.points))

(* A valid trip is cut from its first point to its last.                   *)
LEMMA TripIsWhole ==
  ASSUME NEW P, NEW A, NEW V, NEW I, NEW L, NEW S, NEW R, NEW track \in Trips(P, A, V, I, L, S, R),
         ValidTrackGeometry(track.points, track.segments, track.laps)
  PROVE  Whole(track)
<1> DEFINE G == [id : I, startIndex : Nat, endIndex : Nat]
           segments == track.segments
<1>1. track.points \in Seq(TripPoints(P, A, V)) /\ segments \in Seq(G)
  BY DEF Trips
<1>2. \A s \in DOMAIN segments : segments[s] \in G
  <2> HIDE DEF G, segments
  <2> QED
    BY <1>1
<1>3. \A s \in DOMAIN segments : segments[s].startIndex \in Nat /\ segments[s].endIndex \in Nat
  BY <1>2
<1> HIDE DEF G
<1> QED
  BY <1>1, <1>3, ValidIsCutThrough DEF Whole

(* What is said of each of a track's points, as an array of its feature.   *)
Told(track, said, W) ==
  LET told == PerSegment(track, said)
  IN /\ told \in Seq(Seq(W)) /\ Matches(told, track, Len(track.segments))
     /\ \A s \in 1..Len(track.segments) : \A k \in 1..Len(told[s]) :
          told[s][k] = said[(track.segments[s].startIndex - 1) + k]

(* What is said point by point is told segment by segment.                 *)
LEMMA ToldOfPoints ==
  ASSUME NEW track, Whole(track), NEW W, NEW said, DOMAIN said = 1..Len(track.points),
         said = [i \in 1..Len(track.points) |-> said[i]], \A i \in 1..Len(track.points) : said[i] \in W
  PROVE  Told(track, said, W)
<1> DEFINE n == Len(track.segments)
           size == Len(track.points)
<1>1. CutThrough(track, n, size)
  BY DEF Whole
<1>2. size \in Nat /\ n \in Nat
  BY <1>1 DEF CutThrough
<1>3. said = [i \in 1..size |-> said[i]] /\ \A i \in 1..size : said[i] \in W
  OBVIOUS
<1> HIDE DEF n, size
<1>4. said \in [1..size -> W]
  BY <1>3
<1>5. said \in Seq(W) /\ Len(said) = size
  BY <1>2, <1>4, SeqDef, LenProperties
<1>6. /\ PerSegment(track, said) \in Seq(Seq(W)) /\ DOMAIN PerSegment(track, said) = 1..n
      /\ \A s \in 1..n :
           /\ Len(PerSegment(track, said)[s]) = (track.segments[s].endIndex - track.segments[s].startIndex) + 1
           /\ \A k \in 1..Len(PerSegment(track, said)[s]) :
                PerSegment(track, said)[s][k] = said[(track.segments[s].startIndex - 1) + k]
  <2>1. ToldTo(track, said, n, W)
    BY <1>1, <1>5, PerSegmentGives
  <2> QED
    BY <2>1 DEF ToldTo
<1>7. Matches(PerSegment(track, said), track, n)
  BY <1>6 DEF Matches
<1> QED
  BY <1>6, <1>7 DEF Told, n

(* The feature of a track.                                                 *)
Placed(track) == [i \in DOMAIN track.points |-> Coordinate(track.points[i])]
TimesOf(track) == [i \in DOMAIN track.points |-> track.points[i].t]
Fielded(track, f) == [i \in DOMAIN track.points |-> track.points[i].fields[f]]
NoneHas(track, f) == \A i \in DOMAIN track.points : track.points[i].fields[f] = Null

(* The three kinds of arrays an export makes of a trip.                    *)
LEMMA ArraysOfTrip ==
  ASSUME NEW P, NEW A, NEW V, NEW I, NEW L, NEW S, NEW R, NEW track \in Trips(P, A, V, I, L, S, R), Whole(track)
  PROVE  /\ Told(track, Placed(track), [place : P, altitudeM : A])
         /\ Told(track, TimesOf(track), Int)
         /\ \A f \in Fields : Told(track, Fielded(track, f), V)
<1> DEFINE points == track.points
           size == Len(points)
           O == TripPoints(P, A, V)
<1>1. points \in Seq(O)
  BY DEF Trips
<1> HIDE DEF O
<1>2. DOMAIN points = 1..size /\ \A i \in 1..size : points[i] \in O
  BY <1>1
<1>3. \A i \in 1..size : /\ points[i].place \in P /\ points[i].altitudeM \in A /\ points[i].t \in Int
                         /\ points[i].fields \in [Fields -> V]
  BY <1>2 DEF O, TripPoints
<1>4. Told(track, Placed(track), [place : P, altitudeM : A])
  <2> DEFINE said == Placed(track)
  <2>1. said = [i \in 1..size |-> Coordinate(points[i])]
    BY <1>2 DEF Placed
  <2>2. \A i \in 1..size : Coordinate(points[i]) \in [place : P, altitudeM : A]
    BY <1>3 DEF Coordinate
  <2> HIDE DEF said
  <2>3. DOMAIN said = 1..size /\ said = [i \in 1..size |-> said[i]]
        /\ \A i \in 1..size : said[i] \in [place : P, altitudeM : A]
    BY <2>1, <2>2
  <2>4. Told(track, said, [place : P, altitudeM : A])
    BY <2>3, ToldOfPoints
  <2> QED
    BY <2>4 DEF said
<1>5. Told(track, TimesOf(track), Int)
  <2> DEFINE said == TimesOf(track)
  <2>1. said = [i \in 1..size |-> points[i].t]
    BY <1>2 DEF TimesOf
  <2> HIDE DEF said
  <2>2. DOMAIN said = 1..size /\ said = [i \in 1..size |-> said[i]] /\ \A i \in 1..size : said[i] \in Int
    BY <1>3, <2>1
  <2>3. Told(track, said, Int)
    BY <2>2, ToldOfPoints
  <2> QED
    BY <2>3 DEF said
<1>6. ASSUME NEW f \in Fields PROVE Told(track, Fielded(track, f), V)
  <2> DEFINE said == Fielded(track, f)
  <2>1. said = [i \in 1..size |-> points[i].fields[f]]
    BY <1>2 DEF Fielded
  <2>2. \A i \in 1..size : points[i].fields[f] \in V
    BY <1>3
  <2> HIDE DEF said
  <2>3. DOMAIN said = 1..size /\ said = [i \in 1..size |-> said[i]] /\ \A i \in 1..size : said[i] \in V
    BY <2>1, <2>2
  <2>4. Told(track, said, V)
    BY <2>3, ToldOfPoints
  <2> QED
    BY <2>4 DEF said
<1> QED
  BY <1>4, <1>5, <1>6

(* The feature of a trip, which import accepts.                            *)
LEMMA FeatureOfTrip ==
  ASSUME NEW P, NEW A, NEW V, NEW I, NEW L, NEW S, NEW R, NEW track \in Trips(P, A, V, I, L, S, R), Whole(track)
  PROVE  /\ TrackFeature(track).kind = "track"
         /\ TrackFeature(track).coordinates = PerSegment(track, Placed(track))
         /\ TrackFeature(track).coordTimes = PerSegment(track, TimesOf(track))
         /\ \A f \in Fields : TrackFeature(track).fields[f]
                                = IF NoneHas(track, f) THEN Null ELSE PerSegment(track, Fielded(track, f))
         /\ \A s \in 1..Len(track.segments) : TrackFeature(track).segments[s].id = track.segments[s].id
         /\ TrackFeature(track).laps = track.laps /\ TrackFeature(track).status = track.status
         /\ TrackFeature(track).rest = track.rest
         /\ TrackFeature(track) \in TrackFeatures(P, A, Int, V, I, L, S, R)
         /\ Shaped(TrackFeature(track))
<1> DEFINE feature == TrackFeature(track)
           n == Len(track.segments)
           coordinates == PerSegment(track, Placed(track))
           times == PerSegment(track, TimesOf(track))
           field(f) == IF NoneHas(track, f) THEN Null ELSE PerSegment(track, Fielded(track, f))
           segments == [s \in DOMAIN track.segments |-> [id |-> track.segments[s].id]]
<1>1. feature = [kind |-> "track", coordinates |-> coordinates, coordTimes |-> times,
                 fields |-> [f \in Fields |-> Parallel(track, f)], segments |-> segments,
                 laps |-> track.laps, status |-> track.status, rest |-> track.rest]
  BY DEF TrackFeature, Placed, TimesOf
<1>2. \A f \in Fields : Parallel(track, f) = field(f)
  BY DEF Parallel, NoneHas, Fielded
<1>3. /\ coordinates \in Seq(Seq([place : P, altitudeM : A])) /\ Matches(coordinates, track, n)
      /\ times \in Seq(Seq(Int)) /\ Matches(times, track, n)
      /\ \A f \in Fields : PerSegment(track, Fielded(track, f)) \in Seq(Seq(V))
                           /\ Matches(PerSegment(track, Fielded(track, f)), track, n)
  BY ArraysOfTrip DEF Told
<1>4. n \in Nat /\ DOMAIN track.segments = 1..n
  BY DEF Whole, CutThrough
<1>5. \A s \in 1..n : track.segments[s].id \in I
  <2> DEFINE G == [id : I, startIndex : Nat, endIndex : Nat]
  <2>1. track.segments \in Seq(G)
    BY DEF Trips
  <2>2. \A s \in 1..n : track.segments[s] \in G
    <3> HIDE DEF G
    <3> QED
      BY <2>1
  <2> QED
    BY <2>2
<1> HIDE DEF n
<1>6. segments \in Seq([id : I]) /\ Len(segments) = n /\ \A s \in 1..n : segments[s].id = track.segments[s].id
  <2>1. segments = [s \in 1..n |-> [id |-> track.segments[s].id]]
    BY <1>4
  <2> HIDE DEF segments
  <2>2. segments \in [1..n -> [id : I]]
    BY <1>5, <2>1
  <2> QED
    BY <1>4, <2>1, <2>2, SeqDef, LenProperties
<1> HIDE DEF feature, coordinates, times, field, segments
<1>7. /\ feature.kind = "track" /\ feature.coordinates = coordinates /\ feature.coordTimes = times
      /\ feature.segments = segments /\ feature.laps = track.laps /\ feature.status = track.status
      /\ feature.rest = track.rest
      /\ feature.fields = [f \in Fields |-> Parallel(track, f)]
  BY <1>1
<1>8. \A f \in Fields : feature.fields[f] = field(f)
  BY <1>2, <1>7
<1>9. feature \in TrackFeatures(P, A, Int, V, I, L, S, R)
  <2>1. \A f \in Fields : field(f) \in {Null} \cup Seq(Seq(V))
    BY <1>3 DEF field
  <2>2. [f \in Fields |-> Parallel(track, f)] \in [Fields -> {Null} \cup Seq(Seq(V))]
    BY <1>2, <2>1
  <2>3. track.laps \in L /\ track.status \in S /\ track.rest \in R
    BY DEF Trips
  <2> QED
    BY <1>1, <1>3, <1>6, <2>2, <2>3 DEF TrackFeatures
<1>10. Shaped(feature)
  <2>1. Len(coordinates) = n /\ DOMAIN coordinates = 1..n /\ Len(times) = n
    BY <1>3, <1>4 DEF Matches
  <2>2. \A s \in 1..n : Len(times[s]) = Len(coordinates[s])
    BY <1>3 DEF Matches
  <2>3. Aligned(times, coordinates)
    BY <2>1, <2>2 DEF Aligned
  <2>4. ASSUME NEW f \in Fields PROVE Aligned(field(f), coordinates)
    <3> DEFINE arrays == PerSegment(track, Fielded(track, f))
    <3>1. arrays \in Seq(Seq(V)) /\ Matches(arrays, track, n)
      BY <1>3
    <3> HIDE DEF arrays
    <3>2. Len(arrays) = n /\ \A s \in 1..n : Len(arrays[s]) = Len(coordinates[s])
      <4>1. Len(arrays) = n
        BY <1>4, <3>1 DEF Matches
      <4>2. \A s \in 1..n : Len(arrays[s]) = Len(coordinates[s])
        BY <1>3, <3>1 DEF Matches
      <4> QED
        BY <4>1, <4>2
    <3>3. field(f) # Null => field(f) = arrays
      BY DEF field, arrays
    <3> QED
      BY <2>1, <3>2, <3>3 DEF Aligned
  <2> QED
    BY <1>6, <1>7, <1>8, <2>1, <2>3, <2>4 DEF Shaped
<1> QED
  BY <1>6, <1>7, <1>8, <1>9, <1>10 DEF feature, coordinates, times, field, segments, n

(* A point of a trip is read again from the feature's arrays.              *)
LEMMA PointsReadBack ==
  ASSUME NEW P, NEW A, NEW V, NEW I, NEW L, NEW S, NEW R, NEW track \in Trips(P, A, V, I, L, S, R), Whole(track),
         Null \notin Seq(Seq(V)), NEW s \in 1..Len(track.segments),
         NEW k \in 1..Len(PerSegment(track, Placed(track))[s])
  PROVE  /\ (track.segments[s].startIndex - 1) + k \in DOMAIN track.points
         /\ PointAt(TrackFeature(track), s, k) = track.points[(track.segments[s].startIndex - 1) + k]
<1> DEFINE n == Len(track.segments)
           points == track.points
           size == Len(points)
           feature == TrackFeature(track)
           from == track.segments[s].startIndex
           to == track.segments[s].endIndex
           i == (from - 1) + k
           coordinates == PerSegment(track, Placed(track))
           times == PerSegment(track, TimesOf(track))
           field(f) == PerSegment(track, Fielded(track, f))
           O == TripPoints(P, A, V)
<1>1. points \in Seq(O)
  BY DEF Trips
<1>2. from \in 1..size /\ to \in 1..size /\ size \in Nat
  BY DEF Whole, CutThrough
<1>3. /\ Told(track, Placed(track), [place : P, altitudeM : A]) /\ Told(track, TimesOf(track), Int)
      /\ \A f \in Fields : Told(track, Fielded(track, f), V)
  BY ArraysOfTrip
<1>4. \A said, W : Told(track, said, W) =>
        /\ Len(PerSegment(track, said)[s]) = (to - from) + 1 /\ PerSegment(track, said) \in Seq(Seq(W))
        /\ \A l \in 1..((to - from) + 1) : PerSegment(track, said)[s][l] = said[(from - 1) + l]
  BY DEF Told, Matches
<1>5. /\ feature.coordinates = coordinates /\ feature.coordTimes = times
      /\ \A f \in Fields : feature.fields[f] = IF NoneHas(track, f) THEN Null ELSE field(f)
  BY FeatureOfTrip
<1>6. k \in 1..((to - from) + 1)
  BY <1>3, <1>4
<1> HIDE DEF from, to, feature, coordinates, times, field, O
<1>7. i \in 1..size /\ DOMAIN points = 1..size /\ (from - 1) + k = i
  BY <1>1, <1>2, <1>6
<1> HIDE DEF i, points
<1>8. points[i] \in O
  BY <1>1, <1>7
<1>9. coordinates[s][k] = Coordinate(points[i])
  <2>1. coordinates[s][k] = Placed(track)[i]
    BY <1>3, <1>4, <1>6, <1>7 DEF coordinates
  <2> QED
    BY <1>7, <2>1 DEF Placed, points
<1>10. times[s][k] = points[i].t
  <2>1. times[s][k] = TimesOf(track)[i]
    BY <1>3, <1>4, <1>6, <1>7 DEF times
  <2> QED
    BY <1>7, <2>1 DEF TimesOf, points
<1>11. ASSUME NEW f \in Fields PROVE ReadParallel(feature.fields[f], s, k) = points[i].fields[f]
  <2>1. CASE NoneHas(track, f)
    <3>1. points[i].fields[f] = Null
      BY <1>7, <2>1 DEF NoneHas, points
    <3> QED
      BY <1>5, <2>1, <3>1 DEF ReadParallel
  <2>2. CASE ~ NoneHas(track, f)
    <3>1. field(f) # Null /\ field(f)[s][k] = Fielded(track, f)[i]
      BY <1>3, <1>4, <1>6, <1>7 DEF field
    <3>2. Fielded(track, f)[i] = points[i].fields[f]
      BY <1>7 DEF Fielded, points
    <3> QED
      BY <1>5, <2>2, <3>1, <3>2 DEF ReadParallel
  <2> QED
    BY <2>1, <2>2
<1>12. PointAt(feature, s, k) =
         [place |-> points[i].place, altitudeM |-> points[i].altitudeM, t |-> points[i].t,
          fields |-> [f \in Fields |-> points[i].fields[f]]]
  <2>1. coordinates[s][k].place = points[i].place /\ coordinates[s][k].altitudeM = points[i].altitudeM
    BY <1>9 DEF Coordinate
  <2>2. [f \in Fields |-> ReadParallel(feature.fields[f], s, k)] = [f \in Fields |-> points[i].fields[f]]
    BY <1>11
  <2> QED
    BY <1>5, <1>10, <2>1, <2>2 DEF PointAt
<1> DEFINE point == points[i]
<1> HIDE DEF point
<1>13. point = [place |-> point.place, altitudeM |-> point.altitudeM, t |-> point.t,
                fields |-> [f \in Fields |-> point.fields[f]]]
  BY <1>8 DEF O, TripPoints, point
<1> QED
  BY <1>7, <1>12, <1>13 DEF point, points, i, from, feature

(* The track is what it was.                                               *)
LEMMA TrackComesBack ==
  ASSUME NEW P, NEW A, NEW V, NEW I, NEW L, NEW S, NEW R, NEW track \in Trips(P, A, V, I, L, S, R), Whole(track),
         Null \notin Seq(Seq(V)), Null \notin Seq(Seq(Int)), Null \notin Int
  PROVE  /\ TrackOf(TrackFeature(track)) = track
         /\ Null \notin ToSet(FlattenSeq(TrackFeature(track).coordTimes))
<1> DEFINE n == Len(track.segments)
           points == track.points
           size == Len(points)
           feature == TrackFeature(track)
           back == TrackOf(feature)
           coordinates == PerSegment(track, Placed(track))
           pieces == PointPieces(feature)
           O == PointsMade(P, A, Int, V)
<1>1. /\ feature \in TrackFeatures(P, A, Int, V, I, L, S, R) /\ Shaped(feature)
      /\ feature.coordinates = coordinates
      /\ \A s \in 1..n : feature.segments[s].id = track.segments[s].id
      /\ feature.laps = track.laps /\ feature.status = track.status /\ feature.rest = track.rest
  BY FeatureOfTrip
<1>2. coordinates \in Seq(Seq([place : P, altitudeM : A])) /\ Matches(coordinates, track, n)
  BY ArraysOfTrip DEF Told
<1>3. CutThrough(track, n, size)
  BY DEF Whole
<1>4. /\ Len(coordinates) = n /\ Offset(coordinates, n + 1) = size
      /\ \A s \in 1..n : Offset(coordinates, s) = track.segments[s].startIndex - 1
      /\ CutAs(track, coordinates)
  <2> HIDE DEF coordinates
  <2> QED
    BY <1>2, <1>3, SegmentOffsets
<1>5. pieces \in Seq(Seq(O)) /\ Fits(pieces, coordinates)
  BY <1>1, PiecesAre
<1>6. DOMAIN coordinates = 1..n /\ n \in Nat
  BY <1>2, <1>3 DEF Matches, CutThrough
<1>7. Len(pieces) = n /\ DOMAIN pieces = 1..n /\ (\A s \in 1..n : Len(pieces[s]) = Len(coordinates[s]))
      /\ \A s : Offset(pieces, s) = Offset(coordinates, s)
  <2>1. DOMAIN pieces = 1..n /\ \A s \in 1..n : Len(pieces[s]) = Len(coordinates[s])
    BY <1>5, <1>6 DEF Fits
  <2>2. \A s : Offset(pieces, s) = Offset(coordinates, s)
    <3> HIDE DEF pieces, coordinates
    <3> QED
      BY <1>5, SameOffsets DEF Fits
  <2> HIDE DEF pieces
  <2>3. Len(pieces) = n
    BY <1>5, <1>6, <2>1
  <2> QED
    BY <2>1, <2>2, <2>3
<1>8. Laid(points, pieces, n)
  <2>1. Len(points) = Offset(pieces, n + 1)
    BY <1>4, <1>7
  <2>2. ASSUME NEW s \in 1..n, NEW k \in 1..Len(pieces[s]) PROVE points[Offset(pieces, s) + k] = pieces[s][k]
    <3>1. k \in 1..Len(coordinates[s])
      BY <1>7, <2>2
    <3>2. PointAt(feature, s, k) = points[(track.segments[s].startIndex - 1) + k]
      BY <3>1, PointsReadBack
    <3>3. pieces[s][k] = PointAt(feature, s, k)
      <4> DEFINE line == coordinates[s]
                 Places == [place : P, altitudeM : A]
      <4>1. line \in Seq(Places)
        BY <1>2, <1>6
      <4> HIDE DEF line, Places
      <4>2. DOMAIN line = 1..Len(line)
        BY <4>1
      <4>3. pieces[s] = [l \in DOMAIN line |-> PointAt(feature, s, l)]
        <5> HIDE DEF coordinates
        <5> QED
          BY <1>1, <1>6 DEF PointPieces, line
      <4> QED
        BY <3>1, <4>2, <4>3 DEF line
    <3>4. Offset(pieces, s) = track.segments[s].startIndex - 1
      BY <1>4, <1>7
    <3> QED
      BY <3>2, <3>3, <3>4
  <2> QED
    BY <2>1, <2>2 DEF Laid
<1>9. points \in Seq(O)
  <2> DEFINE Q == TripPoints(P, A, V)
  <2>1. points \in Seq(Q)
    BY DEF Trips
  <2>2. Q \subseteq O
    BY DEF TripPoints, PointsMade
  <2> HIDE DEF Q, O
  <2>3. \A i \in 1..size : points[i] \in O
    BY <2>1, <2>2
  <2>4. points \in [1..size -> O] /\ size \in Nat
    BY <2>1, <2>3
  <2> QED
    BY <2>4, SeqDef
<1>10. back.points = points
  <2>1. back.points = FlattenSeq(pieces)
    BY DEF TrackOf, PointPieces
  <2>2. FlattenSeq(pieces) = points
    <3> HIDE DEF pieces, points, O
    <3> QED
      BY <1>5, <1>7, <1>8, <1>9, LaidTheSame
  <2> QED
    BY <2>1, <2>2
<1>11. back.segments = track.segments
  <2> DEFINE G == [id : I, startIndex : Nat, endIndex : Nat]
             segments == track.segments
  <2>1. back.segments = [s \in DOMAIN coordinates |->
                           [id |-> feature.segments[s].id, startIndex |-> Offset(coordinates, s) + 1,
                            endIndex |-> Offset(coordinates, s) + Len(coordinates[s])]]
    <3> HIDE DEF feature, coordinates
    <3> QED
      BY <1>1 DEF TrackOf, Offset, Lengths
  <2>2. segments \in Seq(G)
    BY DEF Trips
  <2>3. \A s \in 1..n : segments[s] \in G
    <3> HIDE DEF G
    <3> QED
      BY <2>2
  <2>4. \A s \in 1..n : segments[s] = [id |-> segments[s].id, startIndex |-> segments[s].startIndex,
                                       endIndex |-> segments[s].endIndex]
    BY <2>3
  <2>5. \A s \in 1..n : /\ segments[s].startIndex = Offset(coordinates, s) + 1
                        /\ segments[s].endIndex = Offset(coordinates, s) + Len(coordinates[s])
    BY <1>4, <1>6 DEF CutAs
  <2>6. segments = [s \in 1..n |-> segments[s]]
    <3> HIDE DEF G, segments
    <3>1. segments = [s \in 1..Len(segments) |-> segments[s]]
      BY <2>2
    <3> QED
      BY <3>1 DEF segments
  <2> HIDE DEF G, coordinates, feature, back, n
  <2>7. back.segments = [s \in 1..n |-> segments[s]]
    BY <1>1, <1>6, <2>1, <2>4, <2>5
  <2> QED
    BY <2>6, <2>7
<1>12. back = track
  <2>1. back = [points |-> back.points, segments |-> back.segments, laps |-> feature.laps,
                status |-> feature.status, rest |-> feature.rest]
    BY DEF TrackOf
  <2>2. track = [points |-> points, segments |-> track.segments, laps |-> track.laps,
                 status |-> track.status, rest |-> track.rest]
    BY DEF Trips
  <2> HIDE DEF back, feature
  <2> QED
    BY <1>1, <1>10, <1>11, <2>1, <2>2
<1>13. Null \notin ToSet(FlattenSeq(feature.coordTimes))
  <2> DEFINE times == feature.coordTimes
  <2>1. times \in Seq(Seq(Int))
    BY <1>1 DEF TrackFeatures
  <2> HIDE DEF times
  <2>2. FlattenSeq(times) \in Seq(Int)
    BY <2>1, FlattenedIs
  <2>3. ToSet(FlattenSeq(times)) \subseteq Int
    BY <2>2 DEF ToSet
  <2> QED
    BY <2>3 DEF times
<1> QED
  BY <1>12, <1>13

(* The events of a trip: each at its time, with an id of its own.          *)
TripEvents(events) ==
  /\ Listed(events)
  /\ \A i \in DOMAIN events : /\ events[i].occurredAt \in Int /\ events[i].id \in Int
                              /\ events[i].media \subseteq Int /\ IsFiniteSet(events[i].media)
  /\ \A i, j \in DOMAIN events : events[i].id = events[j].id => i = j

Sooner(e, f) == e.occurredAt < f.occurredAt \/ (e.occurredAt = f.occurredAt /\ e.id < f.id)

(* The events in the order they are exported in.                           *)
Exported(events, g) ==
  /\ g \in [DOMAIN events -> DOMAIN events]
  /\ InOrder(events) = [k \in DOMAIN events |-> events[g[k]]]
  /\ \A i, j \in DOMAIN events : i < j => Sooner(events[g[i]], events[g[j]])
  /\ \A x \in DOMAIN events : \E k \in DOMAIN events : g[k] = x

EarlierOf(events, i, j) ==
  \/ events[i].occurredAt < events[j].occurredAt
  \/ /\ events[i].occurredAt = events[j].occurredAt
     /\ events[i].id < events[j].id \/ (events[i].id = events[j].id /\ i < j)

(* The events are all exported, by their time and then by their id.        *)
LEMMA InOrderIs ==
  ASSUME NEW events, TripEvents(events)
  PROVE  \E g : Exported(events, g)
<1> DEFINE n == Len(events)
           S == DOMAIN events
           precedes == {w \in S \X S : EarlierOf(events, w[1], w[2])}
           g == Arranged(S, precedes)
<1>1. n \in Nat /\ S = 1..n /\ (\A i \in S : events[i].occurredAt \in Int /\ events[i].id \in Int)
      /\ \A i, j \in S : events[i].id = events[j].id => i = j
  BY DEF TripEvents, Listed
<1>2. IsFiniteSet(S) /\ Cardinality(S) = n
  <2>1. IsFiniteSet(1..n) /\ Cardinality(1..n) = IF 1 > n THEN 0 ELSE n - 1 + 1
    BY <1>1, FS_Interval
  <2> QED
    BY <1>1, <2>1
<1>3. \A x, y \in S : <<x, y>> \in precedes <=> EarlierOf(events, x, y)
  OBVIOUS
<1>4. InOrder(events) = [k \in S |-> events[g[k]]]
  BY DEF InOrder, EarlierOf
<1> HIDE DEF precedes
<1>5. Orders(precedes, S)
  <2>1. \A x \in S : ~ EarlierOf(events, x, x)
    BY <1>1 DEF EarlierOf
  <2>2. \A x, y \in S : x # y => (EarlierOf(events, x, y) \/ EarlierOf(events, y, x))
    BY <1>1 DEF EarlierOf
  <2>3. \A x, y, z \in S : EarlierOf(events, x, y) /\ EarlierOf(events, y, z) => EarlierOf(events, x, z)
    BY <1>1 DEF EarlierOf
  <2> QED
    BY <1>3, <2>1, <2>2, <2>3 DEF Orders
<1>6. Lines(g, S, precedes)
  BY <1>2, <1>5, ArrangedLines
<1> HIDE DEF g
<1>7. g \in [S -> S] /\ (\A x \in S : \E k \in S : g[k] = x)
  BY <1>1, <1>2, <1>6 DEF Lines
<1>8. \A i, j \in S : i < j => Sooner(events[g[i]], events[g[j]])
  <2> TAKE i, j \in S
  <2> HAVE i < j
  <2>1. g[i] \in S /\ g[j] \in S /\ <<g[i], g[j]>> \in precedes
    BY <1>1, <1>2, <1>6, <1>7 DEF Lines
  <2>2. EarlierOf(events, g[i], g[j]) /\ ~ EarlierOf(events, g[i], g[i])
    <3>1. \A x \in S : ~ EarlierOf(events, x, x)
      BY <1>1 DEF EarlierOf
    <3> QED
      BY <1>3, <2>1, <3>1
  <2>3. g[i] # g[j]
    BY <2>2
  <2> QED
    BY <1>1, <2>1, <2>2, <2>3 DEF EarlierOf, Sooner
<1> QED
  BY <1>4, <1>7, <1>8 DEF Exported

(* The manifest names what the events refer to, and nothing twice.         *)
LEMMA ManifestIs ==
  ASSUME NEW events, TripEvents(events)
  PROVE  /\ ToSet(Manifest(events)) = UNION {e.media : e \in ToSet(events)}
         /\ IsInjective(Manifest(events))
<1> DEFINE sets == {e.media : e \in ToSet(events)}
           media == UNION sets
           precedes == {w \in media \X media : w[1] < w[2]}
           p == Arranged(media, precedes)
           n == Len(events)
<1>1. n \in Nat /\ DOMAIN events = 1..n /\ \A i \in 1..n : events[i].media \subseteq Int /\ IsFiniteSet(events[i].media)
  BY DEF TripEvents, Listed
<1>2. sets = {events[i].media : i \in 1..n}
  BY <1>1 DEF ToSet
<1>3. IsFiniteSet(sets)
  <2> DEFINE f == [i \in 1..n |-> events[i].media]
  <2>1. IsFiniteSet(1..n)
    <3>1. 1 \in Int /\ n \in Int
      BY <1>1
    <3> QED
      BY <3>1, FS_Interval
  <2>2. f \in Surjection(1..n, sets)
    BY <1>2 DEF Surjection
  <2> HIDE DEF f, sets
  <2> QED
    BY <2>1, <2>2, FS_Surjection
<1>4. IsFiniteSet(media) /\ media \subseteq Int
  <2>1. \A s \in sets : IsFiniteSet(s) /\ s \subseteq Int
    BY <1>1, <1>2
  <2> HIDE DEF sets
  <2> QED
    BY <1>3, <2>1, FS_UNION
<1>5. Manifest(events) = p
  BY DEF Manifest
<1> HIDE DEF media
<1>6. \A x, y \in media : <<x, y>> \in precedes <=> x < y
  OBVIOUS
<1> HIDE DEF precedes
<1>7. Orders(precedes, media)
  <2>1. \A x, y, z \in media : /\ ~ (x < x) /\ (x # y => (x < y \/ y < x))
                               /\ (x < y /\ y < z) => x < z
    BY <1>4
  <2> QED
    BY <1>6, <2>1 DEF Orders
<1>8. Cardinality(media) \in Nat /\ Lines(p, media, precedes)
  BY <1>4, <1>7, ArrangedLines
<1> DEFINE size == Cardinality(media)
<1> HIDE DEF p
<1>9. DOMAIN p = 1..size /\ (\A k \in 1..size : p[k] \in media) /\ \A x \in media : \E k \in 1..size : p[k] = x
  BY <1>8 DEF Lines
<1>10. ToSet(p) = media
  BY <1>9 DEF ToSet
<1>11. \A i, j \in 1..size : i < j => p[i] # p[j]
  <2> TAKE i, j \in 1..size
  <2> HAVE i < j
  <2>1. p[i] \in media /\ p[j] \in media /\ <<p[i], p[j]>> \in precedes
    BY <1>8, <1>9 DEF Lines
  <2>2. p[i] < p[j] /\ p[i] \in Int /\ p[j] \in Int
    BY <1>4, <1>6, <2>1
  <2> QED
    BY <2>2
<1>12. IsInjective(p)
  <2>1. \A i, j \in 1..size : p[i] = p[j] => i = j
    BY <1>8, <1>11
  <2> QED
    BY <1>9, <2>1 DEF IsInjective
<1> QED
  BY <1>5, <1>10, <1>12 DEF media

(* Of the features exported, the first is the track and the others are the *)
(* events.                                                                 *)
ListsFeatures(document, head, ordered) ==
  /\ head.kind = "track"
  /\ document.features = <<head>> \o [i \in DOMAIN ordered |-> EventFeature(ordered[i])]

(* The one track and the events of a document are found again.             *)
LEMMA FoundAgain ==
  ASSUME NEW head, NEW X, NEW ordered \in Seq(X), NEW document, ListsFeatures(document, head, ordered)
  PROVE  /\ Len(OfKind(document, "track")) = 1 /\ OfKind(document, "track")[1] = head
         /\ [i \in DOMAIN OfKind(document, "event") |-> OfKind(document, "event")[i].event] = ordered
<1> DEFINE m == Len(ordered)
           tail == [i \in DOMAIN ordered |-> EventFeature(ordered[i])]
           F == {head} \cup {EventFeature(x) : x \in X}
           all == document.features
<1>0. /\ head.kind = "track"
      /\ all = <<head>> \o [i \in DOMAIN ordered |-> EventFeature(ordered[i])]
  BY DEF ListsFeatures
<1>1. m \in Nat /\ DOMAIN ordered = 1..m /\ \A i \in 1..m : ordered[i] \in X
  OBVIOUS
<1>2. tail \in Seq(F) /\ Len(tail) = m
  <2>1. tail \in [1..m -> F]
    BY <1>1
  <2> HIDE DEF tail, F, m
  <2> QED
    BY <1>1, <2>1, SeqDef, LenProperties
<1>3. <<head>> \in Seq(F) /\ Len(<<head>>) = 1
  OBVIOUS
<1>4. \A i \in 1..m : tail[i] = EventFeature(ordered[i])
  BY <1>1
<1> HIDE DEF F, m, tail
<1>5. /\ Len(all) = m + 1 /\ DOMAIN all = 1..(m + 1) /\ all[1] = head
      /\ \A k \in 1..m : all[k + 1] = EventFeature(ordered[k])
  <2> DEFINE joined == <<head>> \o tail
  <2>1. /\ joined \in Seq(F) /\ Len(joined) = 1 + m
        /\ \A i \in 1..1 : joined[i] = <<head>>[i]
        /\ \A i \in (1 + 1)..(1 + m) : joined[i] = tail[i - 1]
    BY <1>2, <1>3, ConcatProperties
  <2>2. all = joined
    BY <1>0 DEF tail
  <2> HIDE DEF joined
  <2>3. DOMAIN joined = 1..(1 + m) /\ 1 + m = m + 1 /\ joined[1] = head
    BY <1>1, <2>1
  <2>4. \A k \in 1..m : joined[k + 1] = EventFeature(ordered[k])
    <3> TAKE k \in 1..m
    <3>1. k + 1 \in (1 + 1)..(1 + m) /\ (k + 1) - 1 = k
      BY <1>1
    <3> QED
      BY <1>4, <2>1, <3>1
  <2> QED
    BY <2>1, <2>2, <2>3, <2>4
<1>6. \A x : EventFeature(x).kind = "event" /\ EventFeature(x).event = x
  BY DEF EventFeature
<1>7. \A i \in 2..(m + 1) : i - 1 \in 1..m /\ all[i] = EventFeature(ordered[i - 1])
  <2> TAKE i \in 2..(m + 1)
  <2>1. i - 1 \in 1..m /\ (i - 1) + 1 = i
    BY <1>1
  <2> QED
    BY <1>5, <2>1
<1>8. Listed(all)
  BY <1>1, <1>5 DEF Listed
<1> DEFINE tracks == {i \in DOMAIN all : all[i].kind = "track"}
           events == {i \in DOMAIN all : all[i].kind = "event"}
<1>9. tracks = {1} /\ events = 2..(m + 1)
  <2>1. \A i \in 1..(m + 1) : i = 1 \/ i \in 2..(m + 1)
    BY <1>1
  <2>2. 1 \in 1..(m + 1) /\ 2..(m + 1) \subseteq 1..(m + 1) /\ 1 \notin 2..(m + 1)
    BY <1>1
  <2> QED
    BY <1>0, <1>5, <1>6, <1>7, <2>1, <2>2
<1>10. Len(OfKind(document, "track")) = 1 /\ OfKind(document, "track")[1] = head
  <2> DEFINE found == Picked(all, tracks)
  <2>1. tracks \in SUBSET (1..(m + 1)) /\ m + 1 \in Nat
    BY <1>1, <1>5
  <2>2. Cardinality(tracks) = 1
    BY <1>9, FS_Singleton
  <2> HIDE DEF tracks
  <2>3. PICK p : \A s : PickedBy(p, s, tracks)
    BY <2>1, PickedOf
  <2>4. Rising(p, tracks) /\ found = [k \in 1..1 |-> all[p[k]]]
    BY <2>2, <2>3 DEF PickedBy
  <2>5. p[1] = 1
    BY <1>9, <2>2, <2>4 DEF Rising
  <2> HIDE DEF found
  <2>6. found \in [1..1 -> {head}]
    BY <1>5, <2>4, <2>5
  <2>7. Len(found) = 1 /\ found[1] = head
    BY <2>6, SeqDef, LenProperties
  <2> QED
    BY <2>7 DEF OfKind, found, tracks
<1>11. [i \in DOMAIN OfKind(document, "event") |-> OfKind(document, "event")[i].event] = ordered
  <2> DEFINE found == Picked(all, events)
  <2>1. events \in SUBSET (1..(m + 1)) /\ m + 1 \in Nat
    BY <1>1, <1>5
  <2> HIDE DEF events
  <2>2. PICK p : \A s : PickedBy(p, s, events)
    BY <2>1, PickedOf
  <2>3. Rising(p, events) /\ found = [k \in 1..Cardinality(events) |-> all[p[k]]]
    BY <2>2 DEF PickedBy
  <2>4. Cardinality(events) = m
    <3>1. 2 \in Int /\ m + 1 \in Int
      BY <1>1
    <3>2. Cardinality(2..(m + 1)) = IF 2 > m + 1 THEN 0 ELSE (m + 1) - 2 + 1
      BY <3>1, FS_Interval
    <3> QED
      BY <1>1, <1>9, <3>2
  <2>5. \A k \in 1..m : p[k] = k + 1
    <3>1. CASE m = 0
      BY <3>1
    <3>2. CASE m # 0
      <4>1. 2 \in Int /\ m + 1 \in Int /\ 2 <= m + 1 /\ Rising(p, 2..(m + 1))
        BY <1>1, <1>9, <2>3, <3>2
      <4>2. \A k \in 1..(((m + 1) - 2) + 1) : p[k] = (2 + k) - 1
        BY <4>1, RisingRun
      <4>3. ((m + 1) - 2) + 1 = m
        BY <1>1
      <4> QED
        BY <1>1, <4>2, <4>3
    <3> QED
      BY <3>1, <3>2
  <2>6. DOMAIN found = 1..m /\ \A k \in 1..m : found[k] = EventFeature(ordered[k])
    BY <1>5, <2>3, <2>4, <2>5
  <2> HIDE DEF found
  <2>7. [i \in DOMAIN found |-> found[i].event] = [i \in 1..m |-> ordered[i]]
    BY <1>6, <2>6
  <2>8. ordered = [i \in 1..m |-> ordered[i]]
    BY <1>1 DEF m
  <2>9. OfKind(document, "event") = found
    BY DEF OfKind, found, events
  <2> QED
    BY <2>7, <2>8, <2>9
<1> QED
  BY <1>10, <1>11

(* An exported trip comes back as it was: whatever points, pauses and laps *)
(* a track has, and whatever its points have of altitudes and fields, the  *)
(* document made of it and of its events is accepted and says the same     *)
(* again, the events by their time and then by their id in whatever order  *)
(* they were given, and its manifest names what they refer to, nothing     *)
(* twice (trackToGeoJSON, geoJSONToTrack).                                 *)
THEOREM TripsComeBack ==
  ASSUME NEW P, NEW A, NEW V, NEW I, NEW L, NEW S, NEW R, NEW track \in Trips(P, A, V, I, L, S, R),
         Null \notin Seq(Seq(V)), Null \notin Seq(Seq(Int)), Null \notin Int,
         NEW events, TripEvents(events),
         Malformed \notin [track : {track}, events : Seq(ToSet(events))]
  PROVE  TripComesBack(track, events)
<1> DEFINE exported == TrackToGeoJSON(track, events)
           back == GeoJSONToTrack(exported)
           head == TrackFeature(track)
           ordered == InOrder(events)
           X == ToSet(events)
           D == DOMAIN events
<1> SUFFICES ASSUME exported # Malformed
             PROVE  /\ back # Malformed /\ back.track = track
                    /\ ToSet(back.events) = ToSet(events)
                    /\ \A i, j \in DOMAIN back.events : i < j => Sooner(back.events[i], back.events[j])
                    /\ ToSet(exported.media) = UNION {e.media : e \in ToSet(events)}
                    /\ IsInjective(exported.media)
  BY DEF TripComesBack, Sooner
<1>1. ValidTrackGeometry(track.points, track.segments, track.laps)
  BY DEF TrackToGeoJSON
<1>2. exported = [features |-> <<head>> \o [i \in DOMAIN ordered |-> EventFeature(ordered[i])],
                  media |-> Manifest(events)]
  BY <1>1 DEF TrackToGeoJSON
<1>3. Whole(track)
  BY <1>1, TripIsWhole
<1>4. /\ head.kind = "track" /\ Shaped(head) /\ TrackOf(head) = track
      /\ Null \notin ToSet(FlattenSeq(head.coordTimes))
  BY <1>3, FeatureOfTrip, TrackComesBack
<1>5. PICK g : Exported(events, g)
  BY InOrderIs
<1>6. /\ g \in [D -> D] /\ ordered = [k \in D |-> events[g[k]]]
      /\ \A i, j \in D : i < j => Sooner(events[g[i]], events[g[j]])
      /\ \A x \in D : \E k \in D : g[k] = x
  BY <1>5 DEF Exported
<1>7. D = 1..Len(events) /\ Len(events) \in Nat
  BY DEF TripEvents, Listed
<1>8. ordered \in Seq(X) /\ ToSet(ordered) = X
  <2>1. ordered \in [D -> X] /\ ToSet(ordered) = X
    <3> HIDE DEF ordered
    <3>1. \A k \in D : ordered[k] = events[g[k]] /\ events[g[k]] \in X
      BY <1>6 DEF ToSet
    <3> QED
      BY <1>6, <3>1 DEF ToSet
  <2> HIDE DEF ordered, D, X
  <2> QED
    BY <1>7, <2>1, SeqDef
<1> DEFINE found == OfKind(exported, "track")
           told == OfKind(exported, "event")
<1> HIDE DEF exported, head, ordered, X
<1>9. exported.features = <<head>> \o [i \in DOMAIN ordered |-> EventFeature(ordered[i])]
      /\ exported.media = Manifest(events)
  BY <1>2
<1>10. /\ Len(found) = 1 /\ found[1] = head
       /\ [i \in DOMAIN told |-> told[i].event] = ordered
  <2>1. ListsFeatures(exported, head, ordered)
    BY <1>4, <1>9 DEF ListsFeatures
  <2> QED
    BY <1>8, <2>1, FoundAgain
<1> HIDE DEF found, told
<1>11. back = [track |-> track, events |-> ordered]
  BY <1>1, <1>4, <1>10 DEF GeoJSONToTrack, found, told
<1>12. back # Malformed
  <2>1. back \in [track : {track}, events : Seq(ToSet(events))]
    BY <1>8, <1>11 DEF X
  <2> QED
    BY <2>1
<1> HIDE DEF back
<1>13. back.track = track /\ back.events = ordered
  BY <1>11
<1>14. \A i, j \in DOMAIN ordered : i < j => Sooner(ordered[i], ordered[j])
  BY <1>6
<1>15. ToSet(exported.media) = UNION {e.media : e \in ToSet(events)} /\ IsInjective(exported.media)
  BY <1>9, ManifestIs
<1> QED
  BY <1>8, <1>12, <1>13, <1>14, <1>15 DEF X, back

(* The questions the run asks: a form,                                     *)
LEMMA FormAnswered ==
  ASSUME AskForm PROVE NothingIsLostOnTheWay'
<1>1. PICK specs \in Sequences(Specs, 2), categories \in {NoValue, <<Empty>>} :
        question' = [about |-> "form", specs |-> specs, categories |-> categories]
  BY DEF AskForm
<1>2. /\ question'.about = "form" /\ question'.specs = specs /\ question'.categories = categories
  BY <1>1
<1>3. specs \in Seq(Specs) /\ Len(specs) \in Nat /\ DOMAIN specs = 1..Len(specs)
      /\ \A n \in DOMAIN specs : specs[n] \in Specs
  <2>1. specs \in Seq(Specs)
    BY SequencesAreSequences
  <2> QED
    BY <2>1, LenProperties
<1>4. \A n \in DOMAIN specs : specs[n].key \in {1, 2} /\ specs[n].options = <<Empty, 1>>
  BY <1>3 DEF Specs
<1> HIDE DEF Specs
<1>5. \A n \in DOMAIN specs : specs[n].key # NoValue
  BY <1>4, EventFormAssumption
<1>6. ToSet(<<Empty, 1>>) = {Empty, 1}
  BY DEF ToSet
<1>7. Offered(<<Empty, 1>>)
  <2>1. Empty # 1 /\ NoValue \notin {Empty, 1}
    BY EventFormAssumption
  <2>2. <<Empty, 1>> \in Seq({Empty, 1})
    OBVIOUS
  <2>3. \A i, j \in DOMAIN <<Empty, 1>> : <<Empty, 1>>[i] = <<Empty, 1>>[j] => i = j
    BY <2>1
  <2> QED
    BY <1>6, <2>1, <2>2, <2>3 DEF Offered
<1>8. Choosable(specs)
  BY <1>4, <1>7 DEF Choosable
<1>9. Sayable(specs) \subseteq BOOLEAN \cup {Empty, 0, 1}
  BY <1>4, <1>6 DEF Sayable
<1>10. \A K \in SUBSET {specs[n].key : n \in DOMAIN specs} : NoValue \notin [K -> Sayable(specs)]
  <2>1. \A K : [K -> Sayable(specs)] \subseteq [K -> BOOLEAN \cup {Empty, 0, 1}]
    BY <1>9
  <2>2. {specs[n].key : n \in DOMAIN specs} \subseteq {1, 2}
    BY <1>4
  <2> QED
    BY <2>1, <2>2, FormAssumption
<1>11. categories = NoValue \/ Offered(categories)
  <2>1. ToSet(<<Empty>>) = {Empty} /\ <<Empty>> \in Seq({Empty}) /\ NoValue # Empty
    BY EventFormAssumption DEF ToSet
  <2>2. Offered(<<Empty>>)
    BY <2>1 DEF Offered
  <2> QED
    BY <2>2
<1>12. FormComesThrough(specs, categories)
  BY <1>3, <1>5, <1>8, <1>10, <1>11, FormsComeThrough
<1> QED
  BY <1>2, <1>12 DEF NothingIsLostOnTheWay

(* a document of another program,                                          *)
LEMMA DocumentAnswered ==
  ASSUME AskDocument PROVE NothingIsLostOnTheWay'
<1>1. PICK shape \in Shapes, times \in Times, extra \in 0..1, arrays \in Arrays :
        question' = [about |-> "document", document |-> DocumentOf(shape, times, extra, arrays)]
  BY DEF AskDocument
<1> DEFINE C == [place : Int, altitudeM : {Null}]
           coordinates == [s \in DOMAIN shape |-> [i \in 1..shape[s] |-> [place |-> 2 * s + i, altitudeM |-> Null]]]
           fields == [f \in Fields |-> IF f = "heart" THEN arrays ELSE Null]
           segments == [s \in 1..(Len(shape) + extra) |-> [id |-> s]]
           feature == [kind |-> "track", coordinates |-> coordinates, coordTimes |-> times,
                       fields |-> fields, segments |-> segments,
                       laps |-> << >>, status |-> "finalized", rest |-> "rest"]
           document == [features |-> <<feature>>, media |-> << >>]
<1>2. question' = [about |-> "document", document |-> document]
  BY <1>1 DEF DocumentOf
<1>3. \A other \in Shapes : /\ Len(other) \in Nat /\ DOMAIN other = 1..Len(other)
                           /\ \A s \in DOMAIN other : other[s] \in Nat
  <2>1. Shapes \subseteq Seq(0..2)
    BY SequencesAreSequences DEF Shapes
  <2>2. \A k \in 0..2 : k \in Nat
    OBVIOUS
  <2> QED
    BY <2>1, <2>2, LenProperties
<1>4. coordinates \in Seq(Seq(C))
  <2>1. ASSUME NEW s \in DOMAIN shape
        PROVE  [i \in 1..shape[s] |-> [place |-> 2 * s + i, altitudeM |-> Null]] \in Seq(C)
    <3>1. s \in Int /\ shape[s] \in Nat
      BY <1>3
    <3>2. [i \in 1..shape[s] |-> [place |-> 2 * s + i, altitudeM |-> Null]] \in [1..shape[s] -> C]
      BY <3>1
    <3> DEFINE line == [i \in 1..shape[s] |-> [place |-> 2 * s + i, altitudeM |-> Null]]
    <3>3. line \in [1..shape[s] -> C]
      BY <3>2
    <3> HIDE DEF line, C
    <3>4. line \in Seq(C)
      BY <3>1, <3>3, SeqDef
    <3> QED
      BY <3>4 DEF line
  <2>2. coordinates \in [1..Len(shape) -> Seq(C)]
    <3> HIDE DEF C
    <3> QED
      BY <1>3, <2>1
  <2> HIDE DEF coordinates, C
  <2> QED
    BY <1>3, <2>2, SeqDef
<1>5. times \in Seq(Seq({0, 1, Null}))
  <2> DEFINE W == Seq({0, 1, Null})
             few == Sequences({0, 1, Null}, 2)
             more == Sequences({0, 1}, 2)
  <2>1. times = << >> \/ times \in [1..1 -> few] \/ times \in [1..2 -> more]
    BY DEF Times
  <2>2. few \subseteq W
    BY SequencesAreSequences
  <2>3. more \subseteq W
    <3>1. more \subseteq Seq({0, 1})
      BY SequencesAreSequences
    <3>2. Seq({0, 1}) \subseteq W
      BY SeqDef
    <3> QED
      BY <3>1, <3>2
  <2> HIDE DEF W, few, more
  <2>4. CASE times = << >>
    BY <2>4 DEF W
  <2>5. CASE times \in [1..1 -> few]
    <3> DEFINE k == 1
    <3>1. times \in [1..k -> W] /\ k \in Nat
      BY <2>2, <2>5
    <3> HIDE DEF k
    <3>2. times \in Seq(W)
      BY <3>1, SeqDef
    <3> QED
      BY <3>2 DEF W
  <2>6. CASE times \in [1..2 -> more]
    <3> DEFINE k == 2
    <3>1. times \in [1..k -> W] /\ k \in Nat
      BY <2>3, <2>6
    <3> HIDE DEF k
    <3>2. times \in Seq(W)
      BY <3>1, SeqDef
    <3> QED
      BY <3>2 DEF W
  <2> QED
    BY <2>1, <2>4, <2>5, <2>6
<1>6. fields \in [Fields -> {Null} \cup Seq(Seq({7, Null}))]
  <2>1. ASSUME NEW other \in Shapes, NEW value \in {7, Null}
        PROVE  Filled(other, value) \in Seq(Seq({7, Null}))
    <3>1. \A s \in DOMAIN other : [i \in 1..other[s] |-> value] \in Seq({7, Null})
      <4> TAKE s \in DOMAIN other
      <4>1. other[s] \in Nat /\ [i \in 1..other[s] |-> value] \in [1..other[s] -> {7, Null}]
        BY <1>3
      <4> QED
        BY <4>1, SeqDef
    <3> DEFINE W == Seq({7, Null})
    <3>2. \A s \in DOMAIN other : [i \in 1..other[s] |-> value] \in W
      BY <3>1
    <3> HIDE DEF W
    <3>3. Filled(other, value) \in [1..Len(other) -> W] /\ Len(other) \in Nat
      BY <1>3, <3>2 DEF Filled
    <3>4. Filled(other, value) \in Seq(W)
      BY <3>3, SeqDef
    <3> QED
      BY <3>4 DEF W
  <2>2. arrays \in {Null} \cup Seq(Seq({7, Null}))
    <3> DEFINE W == Seq(Seq({7, Null}))
    <3>1. \A other \in Shapes, value \in {7, Null} : Filled(other, value) \in W
      BY <2>1
    <3> HIDE DEF W
    <3>2. arrays \in {Null} \cup W
      BY <3>1 DEF Arrays
    <3> QED
      BY <3>2 DEF W
  <2> QED
    BY <2>2
<1>7. segments \in Seq([id : Int])
  <2>1. Len(shape) + extra \in Nat
    BY <1>3
  <2>2. segments \in [1..(Len(shape) + extra) -> [id : Int]]
    BY <2>1
  <2> DEFINE W == [id : Int]
             size == Len(shape) + extra
  <2>3. segments \in [1..size -> W] /\ size \in Nat
    BY <2>1, <2>2
  <2> HIDE DEF segments, W, size
  <2>4. segments \in Seq(W)
    BY <2>3, SeqDef
  <2> QED
    BY <2>4 DEF W
<1> HIDE DEF coordinates, fields, segments
<1>8. feature \in TrackFeatures(Int, {Null}, {0, 1, Null}, {7, Null}, Int, {<< >>}, {"finalized"}, {"rest"})
  BY <1>4, <1>5, <1>6, <1>7 DEF TrackFeatures
<1> HIDE DEF feature
<1>9. /\ document.features = <<feature>> /\ Len(document.features) = 1 /\ DOMAIN document.features = 1..1
      /\ document.features[1] = feature
  OBVIOUS
<1>10. question'.about = "document" /\ question'.document = document
  <2> HIDE DEF document
  <2> QED
    BY <1>2
<1> HIDE DEF document
<1>11. Documents(document, Int, {Null}, {0, 1, Null}, {7, Null}, Int, {<< >>}, {"finalized"}, {"rest"})
  BY <1>8, <1>9 DEF Documents, Listed
<1>12. ImportRepairsNothing(document)
  BY <1>11, DocumentAssumption, ImportsRepairNothing
<1> QED
  BY <1>10, <1>12 DEF NothingIsLostOnTheWay

(* However points are cut, the pieces are segments.                        *)
LEMMA CutsAreSegments ==
  ASSUME NEW n \in Nat, NEW cut \in Cuts(n)
  PROVE  CutInto(cut, n) \in Seq([id : Nat, startIndex : Nat, endIndex : Nat])
<1> DEFINE segments == CutInto(cut, n)
           W == [id : Nat, startIndex : Nat, endIndex : Nat]
<1>1. CutsWell(segments, n)
  BY CutsAreWell
<1>2. /\ segments \in Seq(ToSet(segments)) /\ DOMAIN segments = 1..Len(segments) /\ Len(segments) \in Nat
      /\ PlainSegments(segments)
  <2> HIDE DEF segments
  <2> QED
    BY <1>1 DEF CutsWell
<1>3. \A s \in DOMAIN segments : segments[s].id = s
  <2> DEFINE b == <<1>> \o cut \o <<n + 1>>
  <2>1. segments = IF n = 0 THEN << >>
                   ELSE [i \in 1..(Len(b) - 1) |-> [id |-> i, startIndex |-> b[i], endIndex |-> b[i + 1] - 1]]
    BY DEF CutInto
  <2> HIDE DEF b, segments
  <2>2. CASE n = 0
    <3>1. DOMAIN segments = {}
      BY <2>1, <2>2
    <3> QED
      BY <3>1
  <2>3. CASE n # 0
    BY <2>1, <2>3
  <2> QED
    BY <2>2, <2>3
<1>4. \A s \in DOMAIN segments : segments[s].startIndex \in Nat /\ segments[s].endIndex \in Nat
  <2> DEFINE points == [i \in 1..n |-> i]
  <2>1. Len(points) = n /\ (points = << >> <=> n = 0)
    <3>1. points \in Seq(Int) /\ Len(points) = n
      <4>1. points \in [1..n -> Int]
        OBVIOUS
      <4> HIDE DEF points
      <4> QED
        BY <4>1, SeqDef, LenProperties
    <3> QED
      BY <3>1
  <2> HIDE DEF points, segments
  <2>2. SegmentRanges(points, segments)
    BY <1>1, <2>1 DEF CutsWell
  <2> QED
    BY <1>1, <2>1, <2>2 DEF SegmentRanges, CutsWell
<1> HIDE DEF segments
<1>5. \A s \in DOMAIN segments : segments[s] \in W
  <2> TAKE s \in DOMAIN segments
  <2>1. s \in Nat
    BY <1>2
  <2>2. segments[s] = [id |-> segments[s].id, startIndex |-> segments[s].startIndex, endIndex |-> segments[s].endIndex]
    BY <1>2 DEF PlainSegments
  <2>3. segments[s].id \in Nat /\ segments[s].startIndex \in Nat /\ segments[s].endIndex \in Nat
    BY <1>3, <1>4, <2>1
  <2> QED
    BY <2>2, <2>3
<1> HIDE DEF W
<1>6. segments \in [1..Len(segments) -> W]
  <2>1. segments = [s \in DOMAIN segments |-> segments[s]]
    BY <1>2, LenProperties
  <2> QED
    BY <1>2, <1>5, <2>1
<1>7. segments \in Seq(W)
  BY <1>2, <1>6, SeqDef
<1> QED
  BY <1>7 DEF W, segments

(* The events a trip is asked with.                                        *)
LEMMA AskedEvents ==
  ASSUME NEW events \in Events \cup {<< >>}
  PROVE  events \in Seq(EventsAsked) /\ TripEvents(events)
<1> DEFINE E == EventsAsked
<1>1. \A e \in E : /\ e.occurredAt \in Int /\ e.id \in Int /\ e.media \subseteq Int /\ IsFiniteSet(e.media)
  <2>1. \A m \in SUBSET {1, 2} : m \subseteq Int /\ IsFiniteSet(m)
    <3> TAKE m \in SUBSET {1, 2}
    <3> DEFINE b == 2
    <3>2. b \in Int /\ m \in SUBSET (1..b)
      OBVIOUS
    <3> HIDE DEF b
    <3>1. IsFiniteSet(1..b)
      BY <3>2, FS_Interval
    <3>3. IsFiniteSet(m)
      BY <3>1, <3>2, FS_Subset
    <3> QED
      BY <3>3
  <2> QED
    BY <2>1 DEF EventsAsked
<1>2. CASE events \in Sequences(E, 1) \cup {<< >>}
  <2>1. \E k \in 0..1 : events \in [1..k -> E]
    <3> HIDE DEF E
    <3>1. events = << >> => events \in [1..0 -> E]
      <4>1. events = << >> => events \in Seq(E) /\ Len(events) = 0
        OBVIOUS
      <4> QED
        BY <4>1, LenProperties
    <3>2. events \in Sequences(E, 1) => \E k \in 0..1 : events \in [1..k -> E]
      BY DEF Sequences
    <3> QED
      BY <1>2, <3>1, <3>2
  <2>2. PICK k \in 0..1 : events \in [1..k -> E]
    BY <2>1
  <2> HIDE DEF E
  <2>3. events \in Seq(E) /\ Len(events) = k /\ DOMAIN events = 1..k /\ \A i \in DOMAIN events : events[i] \in E
    BY <2>2, SeqDef, LenProperties
  <2>4. \A i, j \in DOMAIN events : events[i].id = events[j].id => i = j
    BY <2>3
  <2>5. TripEvents(events)
    BY <1>1, <2>3, <2>4 DEF TripEvents, Listed
  <2> QED
    BY <2>3, <2>5 DEF E
<1>3. CASE ~(events \in Sequences(E, 1) \cup {<< >>})
  <2>1. PICK s \in {0, 1}, t \in {0, 1}, m \in SUBSET {1, 2} :
          events = <<[id |-> 2, occurredAt |-> s, media |-> m], [id |-> 1, occurredAt |-> t, media |-> {1}]>>
    BY <1>3 DEF Events
  <2> DEFINE a == [id |-> 2, occurredAt |-> s, media |-> m]
             b == [id |-> 1, occurredAt |-> t, media |-> {1}]
  <2>2. a \in E /\ b \in E /\ a.id = 2 /\ b.id = 1
    BY DEF EventsAsked
  <2>3. events = <<a, b>>
    BY <2>1
  <2> HIDE DEF a, b, E
  <2>4. events \in Seq(E) /\ Len(events) = 2 /\ DOMAIN events = 1..2 /\ events[1] = a /\ events[2] = b
    BY <2>2, <2>3
  <2>5. \A i \in DOMAIN events : events[i] \in E
    BY <2>2, <2>4
  <2>6. \A i, j \in DOMAIN events : events[i].id = events[j].id => i = j
    BY <2>2, <2>4
  <2>7. TripEvents(events)
    BY <1>1, <2>4, <2>5, <2>6 DEF TripEvents, Listed
  <2> QED
    BY <2>4, <2>7 DEF E
<1> QED
  BY <1>2, <1>3

(* a trip and its events,                                                  *)
LEMMA TripAnswered ==
  ASSUME AskTrip PROVE NothingIsLostOnTheWay'
<1>0. PICK n \in 0..3 : \E t \in [1..n -> 0..1], says \in [1..n -> Telemetry], cut \in Cuts(n),
                           laps \in {<< >>, <<Lap>>} :
    question' =
      [about |-> "trip",
       track |-> [points |-> [i \in 1..n |-> [t |-> t[i], place |-> i,
                                              altitudeM |-> says[i].altitudeM,
                                              fields |-> says[i].fields]],
                  segments |-> CutInto(cut, n), laps |-> laps,
                  status |-> "finalized", rest |-> "rest"]]
  BY DEF AskTrip
<1>1. PICK t \in [1..n -> 0..1], says \in [1..n -> Telemetry], cut \in Cuts(n), laps \in {<< >>, <<Lap>>} :
    question' =
      [about |-> "trip",
       track |-> [points |-> [i \in 1..n |-> [t |-> t[i], place |-> i,
                                              altitudeM |-> says[i].altitudeM,
                                              fields |-> says[i].fields]],
                  segments |-> CutInto(cut, n), laps |-> laps,
                  status |-> "finalized", rest |-> "rest"]]
  BY <1>0
<1> DEFINE points == [i \in 1..n |-> [t |-> t[i], place |-> i, altitudeM |-> says[i].altitudeM,
                                      fields |-> says[i].fields]]
           track == [points |-> points, segments |-> CutInto(cut, n), laps |-> laps,
                     status |-> "finalized", rest |-> "rest"]
           P == [place : Nat, altitudeM : {Null, 8, 9}, t : Int, fields : [Fields -> {Null, 6, 7}]]
<1>2. n \in Nat /\ question' = [about |-> "trip", track |-> track]
  BY <1>1
<1>3. \A point \in Telemetry : point.altitudeM \in {Null, 8, 9} /\ point.fields \in [Fields -> {Null, 6, 7}]
  BY DEF Telemetry
<1> HIDE DEF Telemetry
<1>4. points \in Seq(P)
  <2>1. points \in [1..n -> P]
    BY <1>3
  <2> HIDE DEF points, P
  <2> QED
    BY <1>2, <2>1, SeqDef
<1>5. CutInto(cut, n) \in Seq([id : Nat, startIndex : Nat, endIndex : Nat])
  BY <1>2, CutsAreSegments
<1> HIDE DEF points
<1>6. question'.about = "trip" /\ question'.track = track /\ track.points = points
  BY <1>2
<1>7. track \in Trips(Nat, {Null, 8, 9}, {Null, 6, 7}, Nat, {<< >>, <<Lap>>}, {"finalized"}, {"rest"})
      /\ track \in TripsAsked
  BY <1>4, <1>5 DEF Trips, TripPoints, TripsAsked
<1> HIDE DEF track
<1>8. ASSUME NEW events \in Events \cup {<< >>}
      PROVE  TripComesBack(track, events)
  <2>1. events \in Seq(EventsAsked) /\ TripEvents(events)
    BY AskedEvents
  <2>2. Malformed \notin [track : {track}, events : Seq(ToSet(events))]
    <3>1. ToSet(events) \subseteq EventsAsked
      BY <2>1, SequenceOfItsOwn DEF ToSet
    <3>2. Seq(ToSet(events)) \subseteq Seq(EventsAsked)
      BY <3>1, SeqMonotonic
    <3> QED
      BY <1>7, <3>2, TripAssumption
  <2> QED
    BY <1>7, <2>1, <2>2, TripAssumption, TripsComeBack
<1>9. \A events \in IF Len(track.points) = 1 THEN Events ELSE {<< >>} : TripComesBack(track, events)
  BY <1>8
<1> QED
  BY <1>6, <1>9 DEF NothingIsLostOnTheWay

(* What is listed of some sources, and with none twice, is sources again.  *)
LEMMA PartsAreSourced ==
  ASSUME NEW S, NEW sources \in Seq(S), Sourced(sources), Len(sources) >= 1
  PROVE  Sourced(SubSeq(sources, 1, 1)) /\ Sourced(Reverse(sources))
<1>0. Len(sources) \in Nat /\ DOMAIN sources = 1..Len(sources)
      /\ \A i, j \in 1..Len(sources) : sources[i].id = sources[j].id => i = j
  BY LenProperties DEF Sourced
<1>1. Sourced(SubSeq(sources, 1, 1))
  <2> DEFINE foremost == SubSeq(sources, 1, 1)
  <2>2. foremost \in Seq(S) /\ Len(foremost) = 1 /\ DOMAIN foremost = 1..1
    <3> DEFINE k == 1
    <3>1. k \in 1..(Len(sources) + 1) /\ k \in (k - 1)..Len(sources) /\ k \in Nat /\ (k - k) + 1 = 1
      BY <1>0
    <3>2. SubSeq(sources, k, k) \in Seq(S) /\ Len(SubSeq(sources, k, k)) = (k - k) + 1
      <4> HIDE DEF k
      <4> QED
        BY <3>1, SubSeqProperties
    <3>3. foremost = SubSeq(sources, k, k)
      OBVIOUS
    <3> HIDE DEF foremost, k
    <3> QED
      BY <3>1, <3>2, <3>3, LenProperties
  <2>3. DOMAIN foremost = 1..1
    BY <2>2
  <2> HIDE DEF foremost
  <2>4. \A i, j \in DOMAIN foremost : i = j
    BY <2>3
  <2>5. Sourced(foremost)
    BY <2>2, <2>3, <2>4 DEF Sourced
  <2> QED
    BY <2>5 DEF foremost
<1>2. Sourced(Reverse(sources))
  <2> DEFINE n == Len(sources)
             back == Reverse(sources)
  <2>1. n \in Nat /\ \A i \in 1..n : (n - i) + 1 \in 1..n
    BY <1>0
  <2>2. back = [i \in 1..n |-> sources[(n - i) + 1]]
    BY DEF Reverse
  <2>3. back \in [1..n -> S]
    BY <2>1, <2>2, LenProperties
  <2> HIDE DEF back
  <2>4. Len(back) = n /\ DOMAIN back = 1..n
    BY <2>1, <2>3, SeqDef, LenProperties
  <2>5. \A i, j \in 1..n : back[i].id = back[j].id => i = j
    <3> TAKE i, j \in 1..n
    <3> DEFINE x == (n - i) + 1
               y == (n - j) + 1
    <3>1. x \in 1..n /\ y \in 1..n /\ (x = y => i = j)
      BY <2>1
    <3>2. back[i] = sources[x] /\ back[j] = sources[y]
      BY <2>2
    <3> HIDE DEF x, y
    <3> QED
      BY <1>0, <3>1, <3>2
  <2>6. Sourced(back)
    BY <2>1, <2>4, <2>5 DEF Sourced
  <2> QED
    BY <2>6 DEF back
<1> QED
  BY <1>1, <1>2

(* The sources and the ids the run asks about are a configuration's.       *)
LEMMA SourcesFit ==
  ASSUME NEW sources \in SourcesAsked
  PROVE  /\ Sourced(sources) /\ Roles(sources)
         /\ Sourced(SubSeq(sources, 1, 1)) /\ Sourced(Reverse(sources))
<1> DEFINE ones == MapSources(1)
           twos == MapSources(2)
<1>1. /\ \A a \in ones : a.id = 1 /\ a.role \in {Omitted, "base", "terrain"}
      /\ \A b \in twos : b.id = 2 /\ b.role \in {Omitted, "base", "terrain"}
  BY DEF MapSources
<1>2. (\E a \in ones : sources = <<a>>) \/ (\E a \in ones, b \in twos : sources = <<a, b>>)
  BY DEF SourcesAsked
<1> HIDE DEF ones, twos
<1>3. CASE \E a \in ones : sources = <<a>>
  <2>1. PICK a \in ones : sources = <<a>>
    BY <1>3
  <2>2. Len(sources) = 1 /\ DOMAIN sources = 1..1 /\ sources[1] = a /\ sources \in Seq({a})
    BY <2>1
  <2>3. Sourced(sources)
    BY <2>2 DEF Sourced
  <2>4. Roles(sources)
    BY <1>1, <2>2 DEF Roles
  <2> QED
    BY <2>2, <2>3, <2>4, PartsAreSourced
<1>4. CASE \E a \in ones, b \in twos : sources = <<a, b>>
  <2>1. PICK a \in ones, b \in twos : sources = <<a, b>>
    BY <1>4
  <2>2. /\ Len(sources) = 2 /\ DOMAIN sources = 1..2 /\ sources[1] = a /\ sources[2] = b
        /\ sources \in Seq({a, b})
    BY <2>1
  <2>3. a.id # b.id
    BY <1>1
  <2>4. Sourced(sources)
    BY <2>2, <2>3 DEF Sourced
  <2>5. Roles(sources)
    BY <1>1, <2>2 DEF Roles
  <2> QED
    BY <2>2, <2>4, <2>5, PartsAreSourced
<1> QED
  BY <1>2, <1>3, <1>4

(* An app asks for a list of ids, or for none.                             *)
LEMMA IdsFit ==
  ASSUME NEW ids \in IdsAsked PROVE ids = Omitted \/ Listed(ids)
BY DEF IdsAsked, Listed

(* The manifests of the regions that could be had, and their archives.     *)
LEMMA ManifestsAre ==
  ASSUME NEW sources \in SourcesAsked, NEW asked, DOMAIN asked = 1..2, \A n \in 1..2 : asked[n] \in IdsAsked,
         NEW at \in [1..2 -> {Omitted, 1, 2}]
  PROVE  /\ RegionsHeld(Manifests(sources, asked, at))
         /\ PutFor(Manifests(sources, asked, at),
                   UNION {ArchivesOf(n, sources, asked[n]) : n \in Had(sources, asked)})
<1> DEFINE places == Had(sources, asked)
           had == Picked([n \in DOMAIN asked |-> n], places)
           regions == Manifests(sources, asked, at)
           put == UNION {ArchivesOf(n, sources, asked[n]) : n \in places}
           size == Len(had)
<1>1. places \subseteq 1..2
  BY DEF Had
<1>2. ToSet(had) = places /\ had \in Seq(places)
  <2> DEFINE n == 2
  <2>1. n \in Nat /\ had = Picked([i \in 1..n |-> i], places) /\ places \in SUBSET (1..n)
    BY <1>1
  <2> HIDE DEF n, had, places
  <2> QED
    BY <2>1, PickedPlaces
<1>3. size \in Nat /\ DOMAIN had = 1..size /\ \A k \in 1..size : had[k] \in places
  <2> HIDE DEF had, places
  <2> QED
    BY <1>2, LenProperties
<1>4. \A k \in 1..size : regions[k] = ManifestOf(had[k], at[had[k]], sources, asked[had[k]])
  BY <1>3 DEF Manifests
<1>5. Len(regions) = size /\ DOMAIN regions = 1..size
  <2>1. regions = [k \in 1..size |-> ManifestOf(had[k], at[had[k]], sources, asked[had[k]])]
    BY <1>3 DEF Manifests
  <2> DEFINE W == {ManifestOf(had[k], at[had[k]], sources, asked[had[k]]) : k \in 1..size}
  <2> HIDE DEF regions, size, had
  <2>2. regions \in [1..size -> W]
    BY <2>1
  <2> HIDE DEF W
  <2> QED
    BY <1>3, <2>2, SeqDef, LenProperties
<1>6. \A n \in places : Resolve(sources, asked[n]).refused = "no" /\ Listed(Resolve(sources, asked[n]).ids)
  <2> SUFFICES ASSUME NEW n \in places
               PROVE  Resolve(sources, asked[n]).refused = "no" /\ Listed(Resolve(sources, asked[n]).ids)
    OBVIOUS
  <2>1. Resolve(sources, asked[n]).refused = "no" /\ n \in 1..2
    BY DEF Had
  <2>2. Sourced(sources) /\ Roles(sources) /\ (asked[n] = Omitted \/ Listed(asked[n]))
    BY <2>1, SourcesFit, IdsFit
  <2> DEFINE ids == asked[n]
  <2> HIDE DEF ids
  <2>3. Listed(Requested(sources, ids))
    BY <2>2, RequestedAre DEF ids
  <2>4. Resolve(sources, ids).ids = Requested(sources, ids)
    BY <2>1, <2>2, <2>3, ResolvedAre DEF ids
  <2> QED
    BY <2>1, <2>3, <2>4 DEF ids
<1>7. \A k \in 1..size : /\ regions[k].id = had[k] /\ regions[k].downloadedAt = at[had[k]]
                         /\ regions[k].sourceIds = Resolve(sources, asked[had[k]]).ids
  <2> TAKE k \in 1..size
  <2>1. regions[k] = ManifestOf(had[k], at[had[k]], sources, asked[had[k]])
    BY <1>4
  <2> HIDE DEF regions, had, size, places
  <2> QED
    BY <2>1 DEF ManifestOf
<1> HIDE DEF regions, had, size, places
<1>8. RegionsHeld(regions)
  <2>1. \A k \in 1..size : /\ At(regions[k]) \in Int /\ regions[k].id # Omitted
                           /\ Listed(regions[k].sourceIds)
    <3> TAKE k \in 1..size
    <3>1. had[k] \in 1..2 /\ had[k] \in places
      BY <1>1, <1>3
    <3>2. at[had[k]] \in {Omitted, 1, 2}
      BY <3>1
    <3>3. At(regions[k]) \in Int
      BY <1>7, <3>2 DEF At
    <3>4. regions[k].id # Omitted
      BY <1>7, <3>1, OmittedAssumption
    <3> QED
      BY <1>6, <1>7, <3>1, <3>3, <3>4
  <2> QED
    BY <1>3, <1>5, <2>1 DEF RegionsHeld, Listed
<1>9. PutFor(regions, put)
  <2> SUFFICES ASSUME NEW k \in 1..size, NEW id
               PROVE  [region |-> regions[k].id, source |-> id] \in put <=> id \in ToSet(regions[k].sourceIds)
    BY <1>5 DEF PutFor
  <2> DEFINE n == had[k]
             archive == [region |-> n, source |-> id]
  <2>1. n \in places /\ regions[k].id = n /\ regions[k].sourceIds = Resolve(sources, asked[n]).ids
    BY <1>3, <1>7
  <2> HIDE DEF n
  <2>2. archive.region = n /\ archive.source = id
    OBVIOUS
  <2>3. \A m \in places : archive \in ArchivesOf(m, sources, asked[m])
                            <=> (m = n /\ id \in ToSet(Resolve(sources, asked[m]).ids))
    <3> TAKE m \in places
    <3> DEFINE X == ToSet(Resolve(sources, asked[m]).ids)
    <3>1. ArchivesOf(m, sources, asked[m]) = {[region |-> m, source |-> x] : x \in X}
      BY DEF ArchivesOf
    <3> HIDE DEF X
    <3>2. archive \in {[region |-> m, source |-> x] : x \in X} <=> (m = n /\ id \in X)
      OBVIOUS
    <3> QED
      BY <3>1, <3>2 DEF X
  <2>4. archive \in put <=> \E m \in places : archive \in ArchivesOf(m, sources, asked[m])
    <3> HIDE DEF archive
    <3> QED
      OBVIOUS
  <2> HIDE DEF put, archive
  <2>5. archive \in put <=> id \in ToSet(Resolve(sources, asked[n]).ids)
    BY <2>1, <2>3, <2>4
  <2> QED
    BY <2>1, <2>5 DEF archive
<1> QED
  BY <1>8, <1>9 DEF regions, places

(* and the regions asked for, had, and read again.                         *)
LEMMA RegionsAnswered ==
  ASSUME AskRegions PROVE NothingIsLostOnTheWay'
<1>1. PICK sources \in SourcesAsked, one \in IdsAsked, other \in IdsAsked :
        question' = [about |-> "regions", sources |-> sources, asked |-> <<one, other>>]
  BY DEF AskRegions
<1> DEFINE asked == <<one, other>>
           put == UNION {ArchivesOf(n, sources, asked[n]) : n \in Had(sources, asked)}
<1>2. question'.about = "regions" /\ question'.sources = sources /\ question'.asked = asked
  BY <1>1
<1>3. DOMAIN asked = 1..2 /\ \A n \in 1..2 : asked[n] \in IdsAsked
  OBVIOUS
<1> HIDE DEF asked
<1>4. \A n \in DOMAIN asked : OnlyLicensedRegions(sources, asked[n])
  <2> TAKE n \in DOMAIN asked
  <2> DEFINE ids == asked[n]
  <2>1. Sourced(sources) /\ Roles(sources) /\ (ids = Omitted \/ Listed(ids))
    BY <1>3, SourcesFit, IdsFit
  <2> HIDE DEF ids
  <2>2. OnlyLicensedRegions(sources, ids)
    BY <2>1, RegionsAreLicensed
  <2> QED
    BY <2>2 DEF ids
<1>5. ASSUME NEW at \in [1..2 -> {Omitted, 1, 2}], NEW gone,
             NEW later \in {sources, SubSeq(sources, 1, 1), Reverse(sources)}
      PROVE  NewestArchiveServes(Manifests(sources, asked, at), put, gone, later)
  <2>1. Sourced(later)
    BY SourcesFit
  <2>2. RegionsHeld(Manifests(sources, asked, at)) /\ PutFor(Manifests(sources, asked, at), put)
    BY <1>3, ManifestsAre
  <2> DEFINE regions == Manifests(sources, asked, at)
  <2> HIDE DEF put, regions
  <2>3. NewestArchiveServes(regions, put, gone, later)
    BY <2>1, <2>2, NewestArchivesServe DEF regions
  <2> QED
    BY <2>3 DEF regions
<1>6. \A at \in [1..2 -> {Omitted, 1, 2}], gone \in {{}, put} \cup {{a} : a \in put},
         later \in {sources, SubSeq(sources, 1, 1), Reverse(sources)} :
        NewestArchiveServes(Manifests(sources, asked, at), put, gone, later)
  BY <1>5
<1> QED
  BY <1>2, <1>4, <1>6 DEF NothingIsLostOnTheWay

(* The questions this property does not judge.                             *)
LEMMA OtherwiseAnswered ==
  ASSUME AskTrack \/ AskChart \/ AskFixes \/ AskSamples \/ AskChannels \/ AskDraft
  PROVE  NothingIsLostOnTheWay'
<1>1. question'.about \in {"track", "chart", "fixes", "samples", "channels", "draft"}
  <2>1. AskTrack => question'.about = "track"
    BY DEF AskTrack
  <2>2. AskChart => question'.about = "chart"
    BY DEF AskChart
  <2>3. AskFixes => question'.about = "fixes"
    BY DEF AskFixes
  <2>4. AskSamples => question'.about = "samples"
    BY DEF AskSamples
  <2>5. AskChannels => question'.about = "channels"
    BY DEF AskChannels
  <2>6. AskDraft => question'.about = "draft"
    BY DEF AskDraft
  <2> QED
    BY <2>1, <2>2, <2>3, <2>4, <2>5, <2>6
<1> QED
  BY <1>1 DEF NothingIsLostOnTheWay

(* Nothing is lost on the way, whatever the run asks: an exported trip     *)
(* comes back, an import repairs nothing, a form saves what was left in    *)
(* it, and a region is had whole and read from its newest archive.         *)
THEOREM NothingIsLost == Spec => []NothingIsLostOnTheWay
<1>1. Init => NothingIsLostOnTheWay
  BY DEF Init, NoQuestion, NothingIsLostOnTheWay
<1>2. NothingIsLostOnTheWay /\ [Next]_allVars => NothingIsLostOnTheWay'
  <2> SUFFICES ASSUME NothingIsLostOnTheWay, [Next]_allVars PROVE NothingIsLostOnTheWay'
    OBVIOUS
  <2>1. CASE question' = question
    BY <2>1 DEF NothingIsLostOnTheWay
  <2>2. CASE Ask
    BY <2>2, TripAnswered, DocumentAnswered, FormAnswered, RegionsAnswered, OtherwiseAnswered DEF Ask
  <2>3. Ask \/ question' = question
    BY DEF Next, allVars
  <2> QED
    BY <2>1, <2>2, <2>3
<1> QED
  BY <1>1, <1>2, PTL DEF Spec
=============================================================================
