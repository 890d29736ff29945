--------------------------- MODULE SchemaRegistry ---------------------------
(***************************************************************************)
(* The component registry of rest.API: RegisterModel (pkg/rest/schema.go)  *)
(* turns a Go type into an OpenAPI schema and files the schemas that are   *)
(* worth a "#/components/schemas/..." entry in api.models.                 *)
(*                                                                         *)
(* RegisterModel calls itself for the parts of a type.  What makes it      *)
(* delicate is that each call reads the registry when it is entered (its   *)
(* name, whether the name is taken, whether an embedded part was there     *)
(* already) and writes to it when it returns, with the calls for the parts *)
(* in between.  The model therefore keeps Go's call stack: a frame per     *)
(* unfinished call, a return register, and one action per step of the      *)
(* function.                                                               *)
(***************************************************************************)
EXTENDS Naturals, Sequences, FiniteSets, Functions

CONSTANTS
  Type,       \* the Go types of a program: those registered and their parts
  Kind,       \* Kind[t]: which case of RegisterModel t falls into
  Elem,       \* Elem[t]: t.Elem() of a pointer, slice or map (else t itself)
  Fields,     \* Fields[t]: the exported fields of a struct, in order
  GoName,     \* GoName[t]: the normalized type name, NoName if it has none
  NoName,     \* the empty type name
  Key,        \* JSON names of fields, and the two inline slots of a schema
  Call,       \* the top-level calls the program makes: [type, opts]
  MaxDepth,   \* frames that fit on the goroutine's stack
  MaxModels,  \* bound: no new top-level call once this many are registered
  None        \* no call in progress, nothing returned

Kinds ==
  { "basic",          \* string, numbers, bool: an inline schema
    "array",          \* shares the case of uuid.UUID: an inline string
    "enum",           \* named string type with constants in its package
    "opaque",         \* interface, func, chan: no case, becomes an object
    "known",          \* an api.KnownTypes entry (time.Time): inline
    "knownComponent", \* an api.KnownTypes entry that is an object or enum
    "file",           \* a struct named FileWithHeader
    "slice", "map",
    "badmap",         \* a map whose key is not a string
    "pointer", "struct" }

\* enum: WithEnumValues or WithEnumConstants; constants: the latter, which loads the
\* constants of the type itself.
Option == {"nullable", "description", "enum", "constants"}

ItemSlot == "(items)"   \* schema.Items, schema.AdditionalProperties.Schema

Field == [type : Type, key : Key, embedded : BOOLEAN, omitempty : BOOLEAN]

ASSUME TypeAssumption ==
  /\ Kind \in [Type -> Kinds]
  /\ Elem \in [Type -> Type]
  /\ DOMAIN Fields = Type
  /\ \A t \in Type : Fields[t] \in Seq(Field)
  /\ DOMAIN GoName = Type
  /\ ItemSlot \in Key

\* WithEnumConstants is given for a type that may have constants.
ASSUME CallAssumption ==
  /\ Call \subseteq [type : Type, opts : SUBSET Option]
  /\ \A c \in Call : "constants" \in c.opts =>
       "enum" \in c.opts /\ Kind[c.type] \in {"basic", "enum"}

ASSUME BoundAssumption == MaxDepth \in Nat \ {0} /\ MaxModels \in Nat

-----------------------------------------------------------------------------
(* Component names and schemas.                                            *)

\* A key of api.models: the name of a type, or AnonymousType<n>.
Name == ({"type"} \X Range(GoName)) \cup ({"AnonymousType"} \X Nat)

Named(t) == <<"type", GoName[t]>>

\* A "$ref" to component `to'.  `for' is a ghost: the type it was made for.
Ref == [to : Name, for : Type]

\* A property of a schema, or its one inline slot, with the references below it.
Prop == [key : Key, refs : SUBSET Ref]

\* component: shouldBeReferenced(schema).  props: one Prop for each key.  applied:
\* the options applied to it.  of and whole are ghosts: the type the schema
\* was started for, and whether every part of that type made it in.
Schema ==
  [ of        : Type,
    component : BOOLEAN,
    props     : SUBSET Prop,
    required  : SUBSET Key,
    applied   : SUBSET Option,
    whole     : BOOLEAN ]

Refs(schema) == UNION { p.refs : p \in schema.props }

RefNames(schema) == { r.to : r \in Refs(schema) }

NewSchema(t, component, whole) ==
  [ of |-> t, component |-> component, props |-> {},
    required |-> {}, applied |-> {}, whole |-> whole ]

\* Go's schema.Properties[k] = ref for every entry of `new'.
Overlay(old, new) == new \cup { p \in old : \A q \in new : p.key # q.key }

\* api.models[name] = schema.
Filed(f, name, schema) ==
  [ n \in DOMAIN f \cup {name} |-> IF n = name THEN schema ELSE f[n] ]

-----------------------------------------------------------------------------
VARIABLES
  models,    \* api.models: component name -> schema
  stack,     \* the unfinished calls of RegisterModel, the innermost last
  ret,       \* what the call that just returned hands to its caller
  request,   \* the top-level call in progress; before (ghost) is the set of
             \* component names there were when it started
  overflow   \* the goroutine ran out of stack: the process is dead

vars == <<models, stack, ret, request, overflow>>

\* next: 0 until the switch on the kind, then the field a struct is at.
Frame ==
  [ type : Type, name : Name, opts : SUBSET Option, schema : Schema,
    next : Nat, existed : BOOLEAN ]

\* type (ghost): the type the result describes, pointers stripped.  A nil
\* schema next to an error is written as the empty object a caller that goes
\* on regardless makes of it.
Return == [type : Type, name : Name, schema : Schema, err : BOOLEAN]

Request == [type : Type, opts : SUBSET Option, before : SUBSET Name]

ASSUME NoneAssumption == None \notin Request /\ None \notin Return

TypeOK ==
  /\ models \in [DOMAIN models -> Schema]
  /\ DOMAIN models \subseteq Name
  /\ IsFiniteSet(DOMAIN models)
  /\ stack \in Seq(Frame)
  /\ Len(stack) <= MaxDepth
  /\ ret \in Return \cup {None}
  /\ request \in Request \cup {None}
  /\ overflow \in BOOLEAN

Init ==
  /\ models = [n \in {} |-> None]
  /\ stack = <<>>
  /\ ret = None
  /\ request = None
  /\ overflow = FALSE

\* getModelName: an unnamed type is numbered by the present registry size.
ModelName(t) ==
  IF GoName[t] = NoName
  THEN <<"AnonymousType", Cardinality(DOMAIN models)>>
  ELSE Named(t)

-----------------------------------------------------------------------------
(* Calling and returning.                                                  *)

Top == stack[Len(stack)]

Pop == SubSeq(stack, 1, Len(stack) - 1)

NewFrame(t, opts) ==
  [ type |-> t, name |-> ModelName(t), opts |-> opts,
    schema |-> NewSchema(t, TRUE, FALSE), next |-> 0, existed |-> FALSE ]

Running == stack # <<>> /\ ret = None /\ ~overflow

\* The innermost call has computed its name and not found it in api.models.
Missing == Running /\ Top.next = 0 /\ Top.name \notin DOMAIN models

Returns(r) ==
  /\ stack' = Pop
  /\ ret' = r
  /\ UNCHANGED <<request, overflow>>

\* The end of RegisterModel, reached from the switch: apply the options, file
\* the schema under `name' if it should be referenced, return it.
Finish(t, name, schema, err) ==
  LET done == [schema EXCEPT !.applied = @ \cup Top.opts,
                             !.component = @ \/ "enum" \in Top.opts]
  IN  /\ models' = IF done.component THEN Filed(models, name, done) ELSE models
      /\ Returns([type |-> t, name |-> name, schema |-> done, err |-> err])

\* A call on part t of the innermost call's type, unless the stack is full.
\* `caller' is the calling frame as it waits for the result.
Calls(caller, t, opts) ==
  IF Len(stack) < MaxDepth
  THEN /\ stack' = Append([stack EXCEPT ![Len(stack)] = caller], NewFrame(t, opts))
       /\ UNCHANGED <<models, ret, request, overflow>>
  ELSE /\ overflow' = TRUE
       /\ UNCHANGED <<models, stack, ret, request>>

-----------------------------------------------------------------------------
(* The program calls RegisterModel and gets its result.                    *)

Start(c) ==
  /\ request = None
  /\ Cardinality(DOMAIN models) < MaxModels
  /\ request' = [type |-> c.type, opts |-> c.opts, before |-> DOMAIN models]
  /\ stack' = <<NewFrame(c.type, c.opts)>>
  /\ UNCHANGED <<models, ret, overflow>>

Deliver ==
  /\ stack = <<>> /\ ret # None
  /\ request' = None
  /\ ret' = None
  /\ UNCHANGED <<models, stack, overflow>>

-----------------------------------------------------------------------------
(* A call that has just been entered.                                      *)

\* Mutant: a placeholder is filed before the name is looked up.
ReturnExistingAfterPlaceholder ==
  /\ Running /\ Top.next = 0
  /\ Top.name \in DOMAIN models
  /\ Returns([type |-> Top.type, name |-> Top.name,
              schema |-> models[Top.name], err |-> FALSE])
  /\ models' = Filed(models, Top.name, Top.schema)

ReturnExisting ==
  /\ Running /\ Top.next = 0
  /\ Top.name \in DOMAIN models
  /\ Returns([type |-> Top.type, name |-> Top.name,
              schema |-> models[Top.name], err |-> FALSE])
  /\ UNCHANGED models

ReturnKnown ==
  /\ Missing
  /\ Kind[Top.type] \in {"known", "knownComponent"}
  /\ LET known == NewSchema(Top.type, Kind[Top.type] = "knownComponent", TRUE)
     IN  /\ models' = IF known.component THEN Filed(models, Top.name, known)
                                         ELSE models
         /\ Returns([type |-> Top.type, name |-> Top.name,
                     schema |-> known, err |-> FALSE])

FinishLeaf ==
  /\ Missing
  /\ Kind[Top.type] \in {"basic", "array", "enum", "opaque"}
  /\ Finish(Top.type, Top.name,
            NewSchema(Top.type, Kind[Top.type] \in {"enum", "opaque"}, TRUE),
            FALSE)

\* FileWithHeader leaves RegisterModel before the options and the filing.
ReturnFile ==
  /\ Missing
  /\ Kind[Top.type] = "file"
  /\ Returns([type |-> Top.type, name |-> Top.name,
              schema |-> NewSchema(Top.type, FALSE, TRUE), err |-> FALSE])
  /\ UNCHANGED models

\* Mutant: the schema next to the error is nil.
RejectMapWithNil ==
  /\ Missing
  /\ Kind[Top.type] = "badmap"
  /\ Returns([type |-> Top.type, name |-> Top.name, schema |-> None, err |-> TRUE])
  /\ UNCHANGED models

\* Mutant: the key of the map is not looked at.
RejectMapNever ==
  /\ Missing
  /\ Kind[Top.type] = "badmap"
  /\ Finish(Top.type, Top.name, NewSchema(Top.type, FALSE, TRUE), FALSE)

RejectMap ==
  /\ Missing
  /\ Kind[Top.type] = "badmap"
  /\ Returns([type |-> Top.type, name |-> Top.name,
              schema |-> Top.schema, err |-> TRUE])
  /\ UNCHANGED models

\* The package of an enum cannot be loaded: Get fails and RegisterModel
\* panics.  The panic unwinds every frame; a caller may recover from it.
PanicEnum ==
  /\ Missing
  /\ Kind[Top.type] = "enum"
  /\ stack' = <<>>
  /\ request' = None
  /\ UNCHANGED <<models, ret, overflow>>

\* The same for the option WithEnumConstants, which loads them once more, at the end
\* of the call it was passed to.
PanicOption ==
  /\ Missing
  /\ "constants" \in Top.opts
  /\ stack' = <<>>
  /\ request' = None
  /\ UNCHANGED <<models, ret, overflow>>

\* Mutant: a call goes down to its own type, not to that of the element.
DescendElemNot ==
  /\ Missing
  /\ Kind[Top.type] \in {"slice", "map", "pointer"}
  /\ Calls(Top, Top.type, {})

DescendElem ==
  /\ Missing
  /\ Kind[Top.type] \in {"slice", "map", "pointer"}
  /\ Calls(Top, Elem[Top.type],
           IF Kind[Top.type] = "pointer" THEN {"nullable"} ELSE {})

OpenStruct ==
  /\ Missing
  /\ Kind[Top.type] = "struct"
  /\ stack' = [stack EXCEPT ![Len(stack)].next = 1]
  /\ UNCHANGED <<models, ret, request, overflow>>

-----------------------------------------------------------------------------
(* The field loop of a struct.                                             *)

Looping == Running /\ Top.next > 0

CurrentField == Fields[Top.type][Top.next]

\* alreadyExists is read here and used when the call has returned.
VisitField ==
  /\ Looping
  /\ Top.next <= Len(Fields[Top.type])
  /\ Calls([Top EXCEPT !.existed = ModelName(CurrentField.type) \in DOMAIN models],
           CurrentField.type, {})

CloseStruct ==
  /\ Looping
  /\ Top.next > Len(Fields[Top.type])
  /\ Finish(Top.type, Top.name, [Top.schema EXCEPT !.whole = TRUE], FALSE)

-----------------------------------------------------------------------------
(* A call on a part has returned to the innermost remaining call.          *)

Returned == stack # <<>> /\ ret # None /\ ~overflow

\* Mutant: the reference is to the type that has the part.
RefsToOwner(r) ==
  IF r.schema.component THEN {[to |-> Top.name, for |-> r.type]}
                        ELSE Refs(r.schema)

\* getSchemaReferenceOrValue: a component is referenced, anything else is
\* copied inline with the references it holds.
RefsTo(r) ==
  IF r.schema.component THEN {[to |-> r.name, for |-> r.type]}
                        ELSE Refs(r.schema)

FinishElem ==
  /\ Returned /\ ~ret.err
  /\ Kind[Top.type] \in {"slice", "map"}
  /\ Finish(Top.type, Top.name,
            [NewSchema(Top.type, FALSE, TRUE) EXCEPT
               !.props = {[key |-> ItemSlot, refs |-> RefsTo(ret)]},
               !.applied = {"nullable"}],
            FALSE)

\* The result for the element replaces name, schema and err, and the call
\* goes on with all three: the error is not looked at.
FinishPointer ==
  /\ Returned
  /\ Kind[Top.type] = "pointer"
  /\ Finish(ret.type, ret.name, ret.schema, ret.err)

\* Mutant: the loop stays at its field.
AdvanceNot(props, required) ==
  LET more == [Top.schema EXCEPT !.props = Overlay(@, props),
                                 !.required = @ \cup required]
  IN  /\ stack' = [stack EXCEPT ![Len(stack)].schema = more]
      /\ ret' = None
      /\ UNCHANGED <<request, overflow>>

\* The loop goes on to the next field, with what this one added to the schema.
Advance(props, required) ==
  LET more == [Top.schema EXCEPT !.props = Overlay(@, props),
                                 !.required = @ \cup required]
  IN  /\ stack' = [stack EXCEPT ![Len(stack)] =
                     [Top EXCEPT !.schema = more, !.next = @ + 1]]
      /\ ret' = None
      /\ UNCHANGED <<request, overflow>>

\* Mutant: the entry of an embedded part goes even if it is not new.
MergeEmbeddedForgetsExisted ==
  /\ Returned /\ ~ret.err
  /\ Kind[Top.type] = "struct"
  /\ CurrentField.embedded
  /\ models' = Restrict(models, DOMAIN models \ {ret.name})
  /\ Advance(ret.schema.props, ret.schema.required)

\* Mutant: the entry of an embedded part stays.
MergeEmbeddedKeepsEntry ==
  /\ Returned /\ ~ret.err
  /\ Kind[Top.type] = "struct"
  /\ CurrentField.embedded
  /\ Advance(ret.schema.props, ret.schema.required)
  /\ UNCHANGED models

\* Copy the fields of an embedded part; its own entry goes if it is new.
MergeEmbedded ==
  /\ Returned /\ ~ret.err
  /\ Kind[Top.type] = "struct"
  /\ CurrentField.embedded
  /\ models' = IF Top.existed THEN models
               ELSE Restrict(models, DOMAIN models \ {ret.name})
  /\ Advance(ret.schema.props, ret.schema.required)

Required(f) == ~(Kind[f.type] = "pointer" \/ f.omitempty)

\* Mutant: the delete for embedded parts is done for every part.
AddPropertyDeletesEntry ==
  /\ Returned /\ ~ret.err
  /\ Kind[Top.type] = "struct"
  /\ ~CurrentField.embedded
  /\ Advance({[key |-> CurrentField.key, refs |-> RefsTo(ret)]}, {})
  /\ models' = IF Top.existed THEN models
               ELSE Restrict(models, DOMAIN models \ {ret.name})

AddProperty ==
  /\ Returned /\ ~ret.err
  /\ Kind[Top.type] = "struct"
  /\ ~CurrentField.embedded
  /\ Advance({[key |-> CurrentField.key, refs |-> RefsTo(ret)]},
             IF Required(CurrentField) THEN {CurrentField.key} ELSE {})
  /\ UNCHANGED models

\* Mutant: an error of a part does not keep the schema from being filed.
PropagateErrorFiles ==
  /\ Returned /\ ret.err
  /\ Kind[Top.type] \in {"slice", "map", "struct"}
  /\ Finish(Top.type, Top.name, Top.schema, TRUE)

PropagateError ==
  /\ Returned /\ ret.err
  /\ Kind[Top.type] \in {"slice", "map", "struct"}
  /\ Returns([type |-> Top.type, name |-> Top.name,
              schema |-> Top.schema, err |-> TRUE])
  /\ UNCHANGED models

-----------------------------------------------------------------------------
\* What a call does between its start and its end.
InnerStep ==
  \/ ReturnExisting \/ ReturnKnown \/ FinishLeaf \/ ReturnFile
  \/ RejectMap \/ DescendElem \/ OpenStruct
  \/ VisitField \/ CloseStruct
  \/ FinishElem \/ FinishPointer \/ MergeEmbedded \/ AddProperty
  \/ PropagateError

Step == InnerStep \/ PanicEnum \/ PanicOption \/ Deliver

Next == Step \/ \E c \in Call : Start(c)

Spec == Init /\ [][Next]_vars

\* A call that was made runs: it is ordinary sequential code.  Nothing
\* obliges the program to make another call.
FairSpec == Spec /\ WF_vars(Step)
-----------------------------------------------------------------------------
(* The types below a type.                                                 *)

FieldTypes(t) == { Fields[t][i].type : i \in DOMAIN Fields[t] }

Parts(t) ==
  IF Kind[t] = "struct" THEN FieldTypes(t)
  ELSE IF Kind[t] \in {"slice", "map", "pointer"} THEN {Elem[t]}
  ELSE {}

\* The types below t, t included.  Only for types that do not contain themselves.
Below[t \in Type] == {t} \cup UNION { Below[p] : p \in Parts(t) }

\* The programs the safety of the registry is proved for.  No type is part of
\* itself, nor of a type of the same name: rank goes down along the parts ...
Descending(rank) ==
  /\ \A t \in Type : \A p \in Parts(t) : rank[p] < rank[t]
  /\ \A s, t \in Type :
       GoName[s] = GoName[t] /\ GoName[s] # NoName => rank[s] = rank[t]

\* ... and what a struct embeds is a named type and not a pointer to one.
EmbedsByValue ==
  \A t \in Type : \A i \in DOMAIN Fields[t] :
    Fields[t][i].embedded => /\ Kind[Fields[t][i].type] # "pointer"
                             /\ GoName[Fields[t][i].type] # NoName

\* What is proved of the contents of components needs one more condition of two.
\* The types that are refused, and with them the types they are parts of, are
\* nowhere behind a pointer, whose call does not look at the error ...
Refusing(refused) ==
  /\ \A t \in Type : Kind[t] = "badmap" => t \in refused
  /\ \A t \in Type : Parts(t) \cap refused # {} => t \in refused /\ Kind[t] # "pointer"

\* ... and a name tells the type: types that become components have names of
\* their own.
NamesTell ==
  /\ \A s, t \in Type : GoName[s] = GoName[t] /\ GoName[s] # NoName => s = t
  /\ \A t \in Type : Kind[t] \in {"enum", "opaque", "knownComponent", "struct"} =>
       GoName[t] # NoName
  /\ \A c \in Call : "enum" \in c.opts =>
       Kind[c.type] # "pointer" /\ GoName[c.type] # NoName

-----------------------------------------------------------------------------
(* Safety of the registry.                                                 *)

\* Every "$ref" of every published component names a published component, at
\* every moment and not only when a call returns: Spec() copies api.models as
\* they are and fails on a reference that does not resolve (schema.go:184-193).
RefsResolve == \A n \in DOMAIN models : RefNames(models[n]) \subseteq DOMAIN models

\* A reference leads to the schema of the type it was made for, although
\* models are looked up by a name that omits packages and that for a type
\* without a name depends on how many models there are (getModelName).
RefsFaithful ==
  \A n \in DOMAIN models : \A r \in Refs(models[n]) :
    r.to \in DOMAIN models => models[r.to].of = r.for

\* Registering a type never takes away a component that was there before the
\* call: the delete for embedded parts (schema.go:413-415) hits only entries
\* that this very call made.
NoComponentLost == request # None => request.before \subseteq DOMAIN models

\* Only schemas that have all the parts of their type are published, so that
\* a call that is refused in the middle leaves no half-made component behind
\* for the next call to find (schema.go:313-317).
OnlyWholeComponents == \A n \in DOMAIN models : models[n].whole

\* While it is published a component keeps describing the same type by the
\* same properties, and the options it was given stay on it: no later or inner
\* call that ends up with the same name replaces it (schema.go:457-458).
ComponentsStable ==
  [][\A n \in DOMAIN models \cap DOMAIN models' :
       /\ models'[n].of = models[n].of
       /\ models'[n].props = models[n].props
       /\ models'[n].required = models[n].required
       /\ models[n].applied \subseteq models'[n].applied]_vars

\* A type that somewhere below has a map whose key is not a string is refused,
\* on the first attempt and on every later one (schema.go:363-365).
MapKeysChecked ==
  stack = <<>> /\ ret # None /\ ~ret.err =>
    \A t \in Below[request.type] : Kind[t] # "badmap"

\* Every call of RegisterModel is eventually answered (or panics).
CallsReturn == request # None ~> request = None

-----------------------------------------------------------------------------
(* The registry implements the catalogue it promises.                      *)

\* A type that embeds another copies its fields and needs no component of it.
Needs[t \in Type] ==
  (IF Kind[t] \in {"enum", "opaque", "knownComponent", "struct"} THEN {t} ELSE {})
  \cup
  (IF Kind[t] = "struct"
   THEN UNION { LET f == Fields[t][i]
                IN  IF f.embedded THEN Needs[f.type] \ {f.type} ELSE Needs[f.type] :
                i \in DOMAIN Fields[t] }
   ELSE UNION { Needs[p] : p \in Parts(t) })

Pointee[t \in Type] == IF Kind[t] = "pointer" THEN Pointee[Elem[t]] ELSE t

\* An enum option makes a component of a type that else is written inline.
MadeEnum(c) ==
  IF "enum" \in c.opts /\ Kind[c.type] \notin {"known", "file"}
  THEN {Pointee[c.type]} ELSE {}

ASSUME AnswerAssumption == None \notin Call /\ None \notin {"refused", "published"}

Catalogue == INSTANCE ComponentCatalogue WITH
  Needed    <- [c \in Call |-> Needs[c.type] \cup MadeEnum(c)],
  Reached   <- [c \in Call |-> Below[c.type]],
  MayFail   <- { c \in Call : \/ \E t \in Below[c.type] : Kind[t] \in {"badmap", "enum"}
                             \/ "constants" \in c.opts },
  published <- { models[n].of : n \in IF stack = <<>> THEN DOMAIN models
                                                       ELSE request.before },
  pending   <- IF request = None THEN None
               ELSE [type |-> request.type, opts |-> request.opts],
  answer    <- IF stack # <<>> \/ ret = None THEN None
               ELSE IF ret.err THEN "refused" ELSE "published"

\* What the program sees of RegisterModel is what the catalogue promises.
ImplementsCatalogue == Catalogue!Spec
=============================================================================
