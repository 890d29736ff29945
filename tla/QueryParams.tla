---------------------------- MODULE QueryParams ----------------------------
(***************************************************************************)
(* How the input type of a GET becomes query parameters:                   *)
(* NewQueryParametersFromValue of pkg/swaglay_qf/query_factory.go.         *)
(*                                                                         *)
(* flatten and setResult call each other for the parts of a type and write *)
(* what they find into one shared map, which the caller then turns into    *)
(* parameters.  They do nothing after a call on a part returns, so the     *)
(* calls that are still to be made, in order, are all there is to keep.    *)
(***************************************************************************)
EXTENDS Naturals, Sequences, SequencesExt

CONSTANTS
  Type,      \* the Go types of a program
  Kind,      \* Kind[t]: t.Kind(), as far as the code tells kinds apart
  Own,       \* the primitive types with a name of their own: enums
  Elem,      \* Elem[t]: t.Elem() of a pointer or slice (else t itself)
  Fields,    \* Fields[t]: the fields of a struct, in order
  FieldName, \* names of fields, in Go and in JSON
  Input,     \* the types that are passed to NewQueryParametersFromValue
  MaxDepth,  \* calls that fit on the goroutine's stack
  None       \* no type, no answer, a field without a json tag

\* resolveSwaggerType: the primitive types that can be documented.
SwaggerType ==
  [ string |-> "string", bool |-> "boolean",
    int |-> "integer", uint |-> "integer", float |-> "number" ]

\* isKindPrimitive.  "word" stands for uintptr and the complex kinds.
Primitive == DOMAIN SwaggerType \cup {"word"}

Kinds == Primitive \cup {"struct", "pointer", "slice", "map", "other"}

\* tag: the json tag up to its first comma, None if there is no tag.
Field == [type : Type, name : FieldName, tag : FieldName \cup {"", None}]

ASSUME TypeAssumption ==
  /\ Kind \in [Type -> Kinds]
  /\ Own \subseteq Type
  /\ Elem \in [Type -> Type]
  /\ DOMAIN Fields = Type /\ \A t \in Type : Fields[t] \in Seq(Field)
  /\ Input \subseteq Type /\ None \notin Type
  /\ "" \notin FieldName

ASSUME BoundAssumption == MaxDepth \in Nat \ {0}

-----------------------------------------------------------------------------
(* Keys: "a[b][0]" is <<"a", "b", "0">>.                                   *)

NoKey == <<"">>

\* Mutant: the prefix is dropped.
UnderNothing(prefix, name) == <<name>>

\* flattenValueStruct: the key of a field.
Under(prefix, name) == IF prefix = NoKey THEN <<name>> ELSE Append(prefix, name)

\* The indices a slice or array is documented with.
Index == <<"0", "1", "2", "">>

\* What keys are made of.
KeyPart == FieldName \cup ToSet(Index)

\* getFieldTypeName.
KeyName(f) == IF f.tag = None THEN f.name ELSE f.tag

-----------------------------------------------------------------------------
VARIABLES
  input,   \* the type being converted
  todo,    \* the calls of flatten and setResult to be made, the next one first
  result,  \* the map they share: key -> type of the value
  answer   \* what NewQueryParametersFromValue returned, or how it died

vars == <<input, todo, result, answer>>

Work == [call : {"flatten", "setResult"}, type : Type, key : Seq(KeyPart), depth : Nat]

Parameter == [type : {SwaggerType[k] : k \in DOMAIN SwaggerType}, enum : BOOLEAN]

TypeOK ==
  /\ input \in Type \cup {None}
  /\ todo \in Seq(Work)
  /\ DOMAIN result \subseteq Seq(KeyPart)
  /\ \A k \in DOMAIN result : result[k] \in Type /\ Kind[result[k]] \in Primitive
  /\ answer # None =>
       /\ answer.how \in {"returned", "error", "panic", "overflow"}
       /\ DOMAIN answer.parameters \subseteq DOMAIN result
       /\ \A k \in DOMAIN answer.parameters : answer.parameters[k] \in Parameter

Empty == [k \in {} |-> None]

Init ==
  /\ input = None
  /\ todo = <<>>
  /\ result = Empty
  /\ answer = None

-----------------------------------------------------------------------------
(* The call and its return.                                                *)

Without(how) == [how |-> how, parameters |-> Empty]

ASSUME AnswerAssumption == Without("error") # None

With(parameters) == [how |-> "returned", parameters |-> parameters]

Open(t) ==
  /\ input = None
  /\ input' = t
  /\ IF Kind[t] = "struct"
     THEN /\ todo' = <<[call |-> "flatten", type |-> t, key |-> NoKey, depth |-> 1]>>
          /\ UNCHANGED answer
     ELSE /\ answer' = Without("error")
          /\ UNCHANGED todo
  /\ UNCHANGED result

Flattening == input # None /\ answer = None

\* The loop over the flattened map, one resolveSwaggerType for each entry.
Finish ==
  /\ Flattening /\ todo = <<>>
  /\ answer' = IF \E k \in DOMAIN result : Kind[result[k]] = "word" THEN Without("panic")
               ELSE With([ k \in DOMAIN result |->
                             [type |-> SwaggerType[Kind[result[k]]], enum |-> result[k] \in Own] ])
  /\ UNCHANGED <<input, todo, result>>

\* The caller goes on, if it can; nothing of the call is kept.
Close ==
  /\ answer # None /\ answer.how # "overflow"
  /\ input' = None /\ answer' = None
  /\ todo' = <<>> /\ result' = Empty

-----------------------------------------------------------------------------
(* One call of flatten or setResult.                                       *)

Now == Head(todo)

At(call, kinds) ==
  Flattening /\ todo # <<>> /\ Now.call = call /\ Kind[Now.type] \in kinds

\* The call makes these, one after the other, before those that wait.
Calls(new) ==
  IF new # <<>> /\ Now.depth = MaxDepth
  THEN /\ answer' = Without("overflow")
       /\ UNCHANGED <<input, todo, result>>
  ELSE /\ todo' = new \o Tail(todo)
       /\ UNCHANGED <<input, result, answer>>

To(call, t, key) == [call |-> call, type |-> t, key |-> key, depth |-> Now.depth + 1]

\* The call writes result[k] for each of the keys.
Writes(keys, t) ==
  /\ result' = [k \in DOMAIN result \cup keys |-> IF k \in keys THEN t ELSE result[k]]
  /\ todo' = Tail(todo)
  /\ UNCHANGED <<input, answer>>

\* flattenValueStruct.
FlattenStruct ==
  /\ At("flatten", {"struct"})
  /\ Calls([ i \in DOMAIN Fields[Now.type] |->
               LET f == Fields[Now.type][i]
               IN  To("setResult", f.type, Under(Now.key, KeyName(f))) ])

FlattenSlice ==
  /\ At("flatten", {"slice"})
  /\ Calls(<<To("setResult", Now.type, Now.key)>>)

DrainMap == At("flatten", {"map"}) /\ Calls(<<>>)

\* Mutant: interfaces and the like are drained as maps are.
FlattenPanicsLess ==
  /\ At("flatten", Primitive \cup {"pointer", "other"})
  /\ IF Kind[Now.type] = "other" THEN Calls(<<>>)
     ELSE answer' = Without("panic") /\ UNCHANGED <<input, todo, result>>

\* A pointer behind a pointer, or in a slice is an "unknown kind", too.
FlattenPanics ==
  /\ At("flatten", Primitive \cup {"pointer", "other"})
  /\ answer' = Without("panic")
  /\ UNCHANGED <<input, todo, result>>

\* Mutant: the pointer itself is written, not what it points to.
SetPointerItself ==
  /\ At("setResult", {"pointer"})
  /\ LET t == Elem[Now.type]
     IN  IF Kind[t] \in Primitive THEN Writes({Now.key}, Now.type)
         ELSE Calls(<<To("flatten", t, Now.key)>>)

SetPointer ==
  /\ At("setResult", {"pointer"})
  /\ LET t == Elem[Now.type]
     IN  IF Kind[t] \in Primitive THEN Writes({Now.key}, t)
         ELSE Calls(<<To("flatten", t, Now.key)>>)

\* Mutant: the elements are looked for in the slice they came from.
SetSliceAgain ==
  /\ At("setResult", {"slice"})
  /\ LET t == Elem[Now.type]
     IN  IF Kind[t] \in Primitive THEN Writes({Append(Now.key, Index[i]) : i \in 1..4}, t)
         ELSE Calls([i \in 1..4 |-> To("flatten", Now.type, Append(Now.key, Index[i]))])

\* Mutant: the last index is forgotten.
SetSliceShort ==
  /\ At("setResult", {"slice"})
  /\ LET t == Elem[Now.type]
     IN  IF Kind[t] \in Primitive THEN Writes({Append(Now.key, Index[i]) : i \in 1..3}, t)
         ELSE Calls([i \in 1..4 |-> To("flatten", t, Append(Now.key, Index[i]))])

SetSlice ==
  /\ At("setResult", {"slice"})
  /\ LET t == Elem[Now.type]
     IN  IF Kind[t] \in Primitive THEN Writes({Append(Now.key, Index[i]) : i \in 1..4}, t)
         ELSE Calls([i \in 1..4 |-> To("flatten", t, Append(Now.key, Index[i]))])

\* The default case of setResult: plain values are not documented.
SkipPlain ==
  /\ At("setResult", Kinds \ {"pointer", "slice"})
  /\ Calls(<<>>)

-----------------------------------------------------------------------------
Step ==
  \/ Finish \/ Close
  \/ FlattenStruct \/ FlattenSlice \/ DrainMap \/ FlattenPanics
  \/ SetPointer \/ SetSlice \/ SkipPlain

Next == Step \/ \E t \in Input : Open(t)

Spec == Init /\ [][Next]_vars

FairSpec == Spec /\ WF_vars(Step)

-----------------------------------------------------------------------------
(* What a decoder reads.                                                   *)

\* encoding/json's name for a field.  The fields of an embedded struct, which it
\* reads as if they were the outer struct's own, are not told apart here: in the
\* programs modelled a struct embeds nothing that has values to read.
JsonName(f) == IF f.tag \in {"", None} THEN f.name ELSE f.tag

Value[t \in Type] == IF Kind[t] = "pointer" THEN Value[Elem[t]] ELSE t

\* The values one key further down.
Into(t, name) ==
  IF Kind[t] = "struct"
  THEN { Value[f.type] : f \in {g \in ToSet(Fields[t]) : JsonName(g) = name} }
  ELSE IF Kind[t] = "slice" /\ name \in ToSet(Index) THEN {Value[Elem[t]]} ELSE {}

\* The values that key k addresses in an input of type t.
Addressed(t, k) ==
  LET at[i \in 0..Len(k)] ==
        IF i = 0 THEN {t} ELSE UNION { Into(s, k[i]) : s \in at[i - 1] }
  IN  at[Len(k)]

Indirect(f) == Kind[f.type] \in {"pointer", "slice"}

Further(name, keys) == { <<name>> \o k : k \in keys }

\* The keys of the primitive values below t, relative to t, by way of the fields
\* that satisfy `only'.  For types that do not contain themselves.
Leaves(only) ==
  LET below[t \in Type] ==
        IF Kind[t] \in Primitive THEN {<<>>}
        ELSE CASE Kind[t] = "pointer" -> below[Elem[t]]
               [] Kind[t] = "slice"   -> UNION { Further(n, below[Elem[t]]) : n \in ToSet(Index) }
               [] Kind[t] = "struct"  -> UNION { Further(JsonName(f), below[f.type]) :
                                                 f \in ToSet(Fields[t]) \cap only }
               [] OTHER -> {}
  IN  below

AllFields == UNION { ToSet(Fields[t]) : t \in Type }

\* The types whose values are looked into below t: t itself, and what fields
\* that are pointers or slices lead to, and what slices hold.
LookedInto[t \in Type] ==
  {t} \cup
  CASE Kind[t] = "slice"  -> LookedInto[Elem[t]]
    [] Kind[t] = "struct" ->
         UNION { LookedInto[Elem[f.type]] : f \in {g \in ToSet(Fields[t]) : Indirect(g)} }
    [] OTHER -> {}

Returned == answer # None /\ answer.how = "returned"

-----------------------------------------------------------------------------
(* Properties.                                                             *)

\* A documented parameter addresses, in an input of the type, just one value and has that
\* value's type, however deep it is and by way of whichever pointers and slices, although
\* all calls write to one map and later ones overwrite earlier ones (query_factory.go:112-161).
ParametersAddressInput ==
  Returned =>
    \A k \in DOMAIN answer.parameters : \E t \in Type :
      /\ Addressed(input, k) = {t}
      /\ answer.parameters[k] = [type |-> SwaggerType[Kind[t]], enum |-> t \in Own]

\* Optional and repeated inputs are documented, all of them: those behind fields
\* that are pointers or slices, up to the indices shown (query_factory.go:116-145).
IndirectInputDocumented ==
  Returned =>
    Leaves({f \in AllFields : Indirect(f)})[input] = DOMAIN answer.parameters

\* A type is refused just when a value that cannot be passed in a query hangs below it.
RefusedForCause ==
  answer # None /\ answer.how # "error" =>
    (answer.how = "panic" <=>
       \E t \in LookedInto[input] : Kind[t] \in {"pointer", "other", "word"})

\* Every input that the decoder reads is documented.
InputDocumented ==
  Returned => Leaves(AllFields)[input] \subseteq DOMAIN answer.parameters

\* The conversion of a type ends, with parameters, an error or a panic.
FlatteningEnds == input # None ~> input = None

-----------------------------------------------------------------------------
(* Programs that the theorems are about.                                   *)

\* No two fields of a struct have the same key, none an empty one.
NamesClear ==
  \A t \in Type : Kind[t] = "struct" =>
    \A f, g \in ToSet(Fields[t]) : f.tag # "" /\ (KeyName(f) = KeyName(g) => f = g)

\* Types do not contain themselves.
Descending(rank) ==
  \A t \in Type :
    /\ Kind[t] \in {"pointer", "slice"} => rank[Elem[t]] < rank[t]
    /\ Kind[t] = "struct" => \A f \in ToSet(Fields[t]) : rank[f.type] < rank[t]

\* Which calls a call makes.
Callees(w) ==
  LET t == w[2]
  IN  IF w[1] = "flatten"
      THEN CASE Kind[t] = "struct" -> { <<"setResult", f.type>> : f \in ToSet(Fields[t]) }
             [] Kind[t] = "slice"  -> {<<"setResult", t>>}
             [] OTHER              -> {}
      ELSE IF Kind[t] \in {"pointer", "slice"} /\ Kind[Elem[t]] \notin Primitive
           THEN {<<"flatten", Elem[t]>>} ELSE {}

\* The goroutine's stack is enough: need[<<call, t>>] is how many more calls deep
\* a call gets.  So no input contains itself.
EnoughStack(need) ==
  /\ \A w \in {"flatten", "setResult"} \X Type : \A v \in Callees(w) : need[v] < need[w]
  /\ \A t \in Input : need[<<"flatten", t>>] < MaxDepth
=============================================================================
