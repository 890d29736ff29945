---------------------------- MODULE Documentation ----------------------------
(***************************************************************************)
(* Registry and route table together, and createOpenAPI between them.      *)
(* SetupApi registers the models of the errors; a call of the program      *)
(* registers the models of its input and output before its route is        *)
(* documented; Spec() walks the routes in the random order of Go's maps,   *)
(* registers the models of each once more, and copies api.models into the  *)
(* document whenever it is done with the routes of a pattern.              *)
(*                                                                         *)
(* RouteTable knows of models only whether they can be registered, and     *)
(* takes Spec() for one step.  Here both are what the code does, one       *)
(* RegisterModel after the other, each with all its steps.                 *)
(***************************************************************************)
EXTENDS SchemaRegistry

CONSTANTS
  Registration, Def, Pattern, ParamsIn, Template, QueryFields, Unsupported,
  Id, Param, Enums, ContentType, Change, Changed, Resource   \* as in RouteTable

VARIABLES
  routes, router, call, made, spec,   \* as in RouteTable
  todo,      \* the models that register or SetupApi goes on to
  build,     \* the createOpenAPI in progress: the patterns, the routes of the present
             \* pattern and the slots of the present route that are left, the slot
             \* whose model is being registered, and what the document says so far
  document   \* what Spec() returned last without an error

docVars == <<vars, routes, router, call, made, spec, todo, build, document>>

Table == INSTANCE RouteTable WITH
  Fields   <- QueryFields,
  Refused  <- { t \in Type : \E b \in Below[t] : Kind[b] = "badmap" },
  MayPanic <- { t \in Type : \E b \in Below[t] : Kind[b] = "enum" }

tableVars == <<routes, router, call, made, spec>>

\* Where an operation has a model: with a status, or as its request body.
Body == 0

Slot == [key : Table!RouteKey, at : {Body} \cup Table!Status, type : Type]

\* What a document says of a slot: the references of the schema put there.
Use == [slot : Slot, refs : SUBSET Ref]

Idle == request = None /\ todo = <<>> /\ call = None /\ build = None

Plain(t) == [type |-> t, opts |-> {}]

WithDescription(dto) == [type |-> dto, opts |-> {"description"}]

\* What SetupApi registers.
SetupCalls == << WithDescription("NotFound"), WithDescription("BadRequest"),
                 WithDescription("UnprocessableEntity") >>

\* The program is one of RouteTable's, with the models of package dtos among its
\* types, and its calls of RegisterModel are those that are made here.
ASSUME TableAssumption ==
  /\ Table!RegistrationAssumption /\ Table!ChangeAssumption /\ Table!NoneAssumption
  /\ Table!Dto \subseteq Type
  /\ None \notin Type \cup Pattern \cup Slot

ASSUME CallsAssumption ==
  /\ \A t \in Type : Plain(t) \in Call
  /\ \A i \in 1..3 : SetupCalls[i] \in Call

-----------------------------------------------------------------------------
(* Registering models.                                                     *)

\* SetupApi.
DocInit ==
  /\ Init
  /\ Table!Init
  /\ todo = SetupCalls
  /\ build = None
  /\ document = None

\* Mutant: only the input is registered.
ModelsOfInput(r) == IF Def[r].in = None THEN <<>> ELSE << Plain(Def[r].in) >>

\* register(in), register(out), whichever there is.
ModelsOf(r) ==
  LET given(t) == IF t = None THEN <<>> ELSE << Plain(t) >>
  IN  given(Def[r].in) \o given(Def[r].out)

Begin(r) ==
  /\ Idle
  /\ Table!MakeCall(r)
  /\ todo' = ModelsOf(r)
  /\ UNCHANGED <<vars, build, document>>

\* The next model of the list.
Ask ==
  /\ todo # <<>> /\ request = None
  /\ Start(Head(todo))
  /\ todo' = Tail(todo)
  /\ UNCHANGED <<tableVars, build, document>>

\* A step of RegisterModel, whoever called it.
Register ==
  /\ InnerStep
  /\ UNCHANGED <<tableVars, todo, build, document>>

ModelRegistered ==
  /\ build = None
  /\ Deliver /\ ~ret.err
  /\ UNCHANGED <<tableVars, todo, build, document>>

\* MustRegisterModel panics at an error, with the models before it registered.
ModelRefused ==
  /\ build = None
  /\ Deliver /\ ret.err
  /\ Table!Panic
  /\ todo' = <<>>
  /\ UNCHANGED <<routes, router, made, spec, build, document>>

ModelPanics ==
  /\ build = None
  /\ PanicEnum
  /\ Table!Panic
  /\ todo' = <<>>
  /\ UNCHANGED <<routes, router, made, spec, build, document>>

ModelsRegistered ==
  /\ Table!At("models") /\ todo = <<>> /\ request = None
  /\ Table!Goto("upsert")
  /\ UNCHANGED <<vars, routes, router, made, spec, todo, build, document>>

\* The rest of a call, and the program's own changes.
DescribeRoute ==
  /\ Table!Upsert \/ Table!Describe \/ Table!Serve
  /\ UNCHANGED <<vars, todo, build, document>>

ChangeRoute(c) ==
  /\ Idle
  /\ Table!Direct(c)
  /\ UNCHANGED <<vars, todo, build, document>>

-----------------------------------------------------------------------------
(* createOpenAPI.                                                          *)

\* Mutant: the request body is left out.
SlotsOfResponses(k) ==
  { [key |-> k, at |-> p[1], type |-> p[2]] : p \in routes[k].responses }

\* The slots of a route.
Slots(k) ==
  { [key |-> k, at |-> Body, type |-> t] : t \in {routes[k].request} \ {None} }
  \cup { [key |-> k, at |-> p[1], type |-> p[2]] : p \in routes[k].responses }

Building == build # None /\ request = None /\ build.slot = None

OpenSpec ==
  /\ Idle
  /\ build' = [ patterns |-> { k[1] : k \in DOMAIN routes }, pattern |-> None,
                keys |-> {}, slots |-> {}, slot |-> None, uses |-> {},
                schemas |-> [n \in {} |-> None] ]
  /\ UNCHANGED <<vars, tableVars, todo, document>>

\* Mutant: the methods of every pattern are walked for each.
OpenPatternOfAll(p) ==
  /\ Building /\ build.pattern = None
  /\ p \in build.patterns
  /\ build' = [ build EXCEPT !.patterns = @ \ {p}, !.pattern = p, !.keys = DOMAIN routes ]
  /\ UNCHANGED <<vars, tableVars, todo, document>>

OpenPattern(p) ==
  /\ Building /\ build.pattern = None
  /\ p \in build.patterns
  /\ build' = [ build EXCEPT !.patterns = @ \ {p}, !.pattern = p,
                             !.keys = { k \in DOMAIN routes : k[1] = p } ]
  /\ UNCHANGED <<vars, tableVars, todo, document>>

OpenOperation(k) ==
  /\ Building /\ build.slots = {}
  /\ k \in build.keys
  /\ build' = [build EXCEPT !.keys = @ \ {k}, !.slots = Slots(k)]
  /\ UNCHANGED <<vars, tableVars, todo, document>>

\* The custom schema of a query parameter of a named type loads the constants of the
\* type, and panics if it cannot.
OperationPanics(k) ==
  /\ Building /\ build.slots = {}
  /\ k \in build.keys
  /\ routes[k].query \cap Enums # {}
  /\ spec' = "panicked"
  /\ build' = None
  /\ UNCHANGED <<vars, routes, router, call, made, todo, document>>

\* The request body comes first, the responses in any order.
RegisterSlot(s) ==
  /\ Building
  /\ s \in build.slots
  /\ s.at = Body \/ \A other \in build.slots : other.at # Body
  /\ Start(Plain(s.type))
  /\ build' = [build EXCEPT !.slot = s, !.slots = @ \ {s}]
  /\ UNCHANGED <<tableVars, todo, document>>

SlotRegistered ==
  /\ build # None
  /\ Deliver /\ ~ret.err
  /\ build' = [ build EXCEPT !.slot = None,
                             !.uses = @ \cup {[slot |-> build.slot, refs |-> RefsTo(ret)]} ]
  /\ UNCHANGED <<tableVars, todo, document>>

\* Spec() returns the error.
SlotRefused ==
  /\ build # None
  /\ Deliver /\ ret.err
  /\ spec' = "invalid"
  /\ build' = None
  /\ UNCHANGED <<routes, router, call, made, todo, document>>

SlotPanics ==
  /\ build # None
  /\ PanicEnum
  /\ spec' = "panicked"
  /\ build' = None
  /\ UNCHANGED <<routes, router, call, made, todo, document>>

\* Mutant: the models are copied after the first pattern only.
ClosePatternOnce ==
  /\ Building /\ build.pattern # None
  /\ build.keys = {} /\ build.slots = {}
  /\ build' = [ build EXCEPT !.pattern = None,
                             !.schemas = IF DOMAIN @ = {} THEN models ELSE @ ]
  /\ UNCHANGED <<vars, tableVars, todo, document>>

\* spec.Components.Schemas[name] = ... for all of api.models.
ClosePattern ==
  /\ Building /\ build.pattern # None
  /\ build.keys = {} /\ build.slots = {}
  /\ build' = [ build EXCEPT
      !.pattern = None,
      !.schemas = [ n \in DOMAIN @ \cup DOMAIN models |->
                      IF n \in DOMAIN models THEN models[n] ELSE @[n] ] ]
  /\ UNCHANGED <<vars, tableVars, todo, document>>

\* ResolveRefsIn: every reference of the document leads to one of its schemas.
Resolves(b) ==
  \A r \in UNION ({ u.refs : u \in b.uses } \cup { Refs(b.schemas[n]) : n \in DOMAIN b.schemas }) :
    r.to \in DOMAIN b.schemas

CloseSpec ==
  /\ Building /\ build.pattern = None /\ build.patterns = {}
  /\ IF Resolves(build) /\ Table!Validates
     THEN /\ spec' = "valid"
          /\ document' = [routes |-> routes, uses |-> build.uses, schemas |-> build.schemas]
     ELSE spec' = "invalid" /\ UNCHANGED document
  /\ build' = None
  /\ UNCHANGED <<vars, routes, router, call, made, todo>>

-----------------------------------------------------------------------------
\* What goes on once a call of swaglay was made.
Work ==
  \/ Ask \/ Register
  \/ ModelRegistered \/ ModelRefused \/ ModelPanics \/ ModelsRegistered
  \/ DescribeRoute
  \/ \E p \in Pattern : OpenPattern(p)
  \/ \E k \in DOMAIN routes : OpenOperation(k) \/ OperationPanics(k)
  \/ build # None /\ \E s \in build.slots : RegisterSlot(s)
  \/ SlotRegistered \/ SlotRefused \/ SlotPanics
  \/ ClosePattern \/ CloseSpec

DocNext ==
  \/ Work
  \/ \E r \in Registration : Begin(r)
  \/ \E c \in Change : ChangeRoute(c)
  \/ OpenSpec

DocSpec == DocInit /\ [][DocNext]_docVars

\* One goroutine; nothing in it blocks.
DocFairSpec == DocSpec /\ WF_docVars(Work)
-----------------------------------------------------------------------------
(* Properties.                                                             *)

Published == { models[n].of : n \in DOMAIN models }

\* The builder is at a slot of the route it reads, or between two of them, and has
\* what it said so far.
BuildTypeOK ==
  build # None =>
    /\ call = None /\ todo = <<>>
    /\ build \in [ patterns : SUBSET Pattern, pattern : Pattern \cup {None},
                   keys : SUBSET DOMAIN routes, slots : SUBSET Slot, slot : Slot \cup {None},
                   uses : SUBSET Use, schemas : {build.schemas} ]
    /\ build.schemas \in [DOMAIN build.schemas -> Schema]
    /\ build.pattern = None => build.keys = {} /\ build.slots = {} /\ build.slot = None
    /\ build.keys \subseteq { k \in DOMAIN routes : k[1] = build.pattern }
    /\ build.slots \subseteq UNION { Slots(k) : k \in DOMAIN routes }
    /\ build.slot \in {None} \cup UNION { Slots(k) : k \in DOMAIN routes }
    /\ IF build.slot = None THEN request = None
                            ELSE request # None /\ request.type = build.slot.type

\* Registry, table and builder are in step: one call of RegisterModel at a time, for
\* the caller that waits for it.
DocTypeOK ==
  /\ TypeOK /\ Table!TypeOK
  /\ todo \in Seq(Call)
  /\ todo # <<>> \/ request # None => call = None \/ call.step = "models"
  /\ BuildTypeOK

\* By the time a route is served, the models of its input and output and all they are
\* made of are components (swaglay.go:216, 222, 233-234; http.go:89-105).
ServedModelsRegistered ==
  \A r \in Table!Routed :
    \A t \in {Def[r].in, Def[r].out} \ {None} : Needs[t] \subseteq Published

\* A document says something of every model of every route, and has the schema of each
\* type that model is made of, although api.models are copied pattern by pattern
\* while models are still being registered (schema.go:184-186).
DocumentComplete ==
  document # None =>
    \A k \in DOMAIN document.routes :
      \A t \in Table!Modelled(document.routes[k]) :
        \E u \in document.uses :
          /\ u.slot.key = k /\ u.slot.type = t
          /\ Needs[t] \subseteq { document.schemas[n].of : n \in DOMAIN document.schemas }

\* A reference of a document leads to the schema of the type it was made for, and no
\* schema of it is half-made, whatever was refused or panicked before (schema.go:184-186, :401-409).
DocumentFaithful ==
  document # None =>
    /\ \A r \in UNION ({ u.refs : u \in document.uses }
                       \cup { Refs(document.schemas[n]) : n \in DOMAIN document.schemas }) :
         document.schemas[r.to].of = r.for
    /\ \A n \in DOMAIN document.schemas : document.schemas[n].whole

\* Exporting again what was exported says the same, whichever order the maps are
\* walked in, and registers nothing; later routes only add components.
ExportIsRepeatable ==
  [][ document # None /\ routes = document.routes =>
        /\ build # None => UNCHANGED models
        /\ document' # document => /\ document'.uses = document.uses
                                   /\ \A n \in DOMAIN document.schemas :
                                        document'.schemas[n] = document.schemas[n] ]_docVars

\* Calls and Spec() return, or panic (schema.go:66-200 nests loops over recursion).
CallsAndSpecReturn ==
  /\ build # None ~> build = None
  /\ call # None ~> call = None

\* What the program sees of registry and builder is what RouteTable takes them for:
\* models are refused for what is below them only, Spec() returns an error for the
\* reasons Table!Valid gives, never for a reference that does not resolve, and panics
\* only where a model or a query parameter has an enum (Table!ExportPanics).
ImplementsRouteTable == Table!Spec
=============================================================================
