# Verification of swaglay

TLA+ modules of swaglay (`src/`), the TLC configurations that check them on small
programs, and theorems about them that TLAPS checks. Paths below are relative to
`src/pkg/` unless they say otherwise; `schema.go`, `api.go` are in `rest/`,
`http.go`, `query.go`, `handle.go`, `fiber.go`, `aware_ctx.go`, `util.go` in
`adapters/swaglay_fiber/`, `query_factory.go` in `swaglay_qf/`.

## 1. The system

swaglay lets a Fiber program register a handler and its documentation with one
call. `swaglay_fiber.PostIO("order", "/orders", fn, "Place order")` derives an
OpenAPI operation from the Go types of `fn`, puts it in the global `rest.API`, and
adds a chain of Fiber handlers that decodes and validates the input, calls `fn`
and encodes its output. `Api.Spec()` exports the documentation.

| component | state | operations | what makes it correct |
|---|---|---|---|
| Component registry, `schema.go:202-495` | `api.models`: component name to schema | `RegisterModel` / `MustRegisterModel` (recursive), `getModelName` | references resolve, and lead to the type they were made for; registered components are never lost or changed; a refused type leaves nothing half-made; calls return |
| Request pipeline, `http.go`, `query.go`, `handle.go`, `fiber.go` | the handler chain of each route, `opts[0].Uses` of a caller's slice, per request: locals, the input, the answer | `Get`, `GetI`, ... `DeleteIO` (16 adapters), two wrappers, `satisfyQuery`, four `handle*` functions | a function gets only an input of its own request, decoded and validated; a good request is served; a client can tell success from failure; every request is answered |
| Route table, `swaglay.go`, `api.go` | `api.Routes`, Fiber's router | `RegisterHandlerIO`, ..., `Route`, `HasResponseModel` and the other `Has...`, `Merge`, `Spec` | documentation and router agree on which routes there are and what they take; what is documented is replaced only by who describes the route; `Spec()` fails only for a cause; a sound call is served |
| Spec builder, `schema.go:63-200` | the document being built | `createOpenAPI` | the document has every model of every route and all they are made of, references lead to the right schema, and exporting again says the same, in whichever order maps are walked |
| Query flattening, `query_factory.go` | the map that the recursive calls share | `NewQueryParametersFromValue`, `flatten`, `setResult` | what is documented is what the decoder reads under that key; a type is refused only for a cause; it ends |
| Enum constants, `enums.go` | none (loads packages from disk) | `Get` | (I/O) |
| Paths and groups, `util.go` | none | path join | (two string functions) |
| Response DTOs, `dtos/responses.go` | none | - | - |
| Options check, `pkg/util.go` | none | `MustEmptyOrOneLength` | (panics at start-up) |
| Example project, `src/tests/examples/fiber` | - | four routes | (a program that uses the library) |
| Release tooling, `src/Makefile`, `src/scripts` | - | - | not part of the program |

How they interact:

    program --GetIO(resource,url,fn,name,opts)--> adapter (http.go)
       adapter --RegisterHandlerIO--> swaglay.go
           --MustRegisterModel(in), (out)--> component registry (schema.go)
           --Route(method,pattern), Has...--> route table (api.go)
           --flatten(in)--> query flattening
       adapter --Fiber.Get(path, handlers...)--> Fiber
    Fiber --goroutine per request--> chain of handlers --> fn --> answer
    program --Api.Spec()--> spec builder --RegisterModel for each model--> registry

Registration is sequential code on the program's goroutine. Every step of it can
panic, and a caller may recover and go on. Requests run concurrently, one
goroutine each, and share the closures that registration made.

### What is hard about it

* **Recursion over shared state.** `RegisterModel` reads the registry when it is
  entered (its name, whether that is taken, `alreadyExists` for an embedded part)
  and writes when it returns, with any number of other registrations in between.
  Embedding deletes what a part filed. Numbers of anonymous types are sizes of a
  map that grows and shrinks meanwhile.
* **Failure half way.** A refused map key, an enum whose package does not load, an
  unsupported method, a query type that cannot be flattened: each stops a
  registration between two writes. The constants of an enum in a query are loaded by a
  hook that the library leaves in the route, so that not the registration but a later
  `Spec()` panics.
* **Chains of handlers.** A refusal inside a middleware does not end the chain; the
  rest of it runs with a nil input and may overwrite the answer.
* **Aliasing.** The wrappers write `opts[0].Uses` in the caller's own slice.
* **Agreement between packages.** What is documented (`swaglay.go`) and what is
  served (`http.go`, `handle.go`) are decided apart.

`PROJECT.json` lists each hazard with its line and the properties on guard.

## 2. Plan

| # | modules | proofs | state |
|---|---|---|---|
| 1 | `SchemaRegistry`, implementing `ComponentCatalogue` | `SchemaRegistryProofs`, `RegistryContentProofs`, `CatalogueProofs` | all its safety properties and the refinement are proved |
| 2 | `RequestPipeline`, implementing `RequestService` | `RequestPipelineProofs` | likewise |
| 3 | `RouteTable`, with the program's own `Has...` and `Merge` | `RouteTableProofs`, `RouteAgreementProofs` | all its safety properties are proved |
| 4 | `QueryParams` | `QueryParamsProofs` | likewise |
| 5 | `Documentation`: registry, route table and `createOpenAPI` composed, implementing `RouteTable` | `DocumentationProofs` | types, three invariants and the refinement are proved |

Still worth proving is `ExportIsRepeatable`. It needs a condition more, that no pointer
leads to a pointer (the second adds `nullable` to a component that is there), and that
the references made for a type are those of the type its slices, maps and pointers
lead to.

Code changes that would need a change of the model first: a lock around `api.models` (the
registry is taken to be used by one goroutine, as `README.md:36` of the library says to
export "once all handlers have been added"), and a placeholder for types that contain
themselves.

## 3. The modules

### SchemaRegistry (`schema.go:202-495`, `api.go:156-159`)

`RegisterModel` with Go's call stack made explicit: `stack` holds a frame per
unfinished call, `ret` what the call that just returned hands to its caller,
`models` is `api.models`, `request` the top-level call, `overflow` says that the
goroutine's stack is full. One action per step of the function:

| action | code |
|---|---|
| `Start`, `Deliver` | the program's call and its return |
| `ReturnExisting`, `ReturnKnown` | the early returns `schema.go:315-317`, `:319-327` |
| `FinishLeaf`, `PanicEnum`, `PanicOption` | the cases without parts, `:332-358`; `Get` fails, `:348-351`, or does so in the option `WithEnumConstants`, `:267-279` |
| `DescendElem`, `FinishElem`, `FinishPointer` | slices, maps, pointers, `:335-341`, `:359-373` |
| `RejectMap`, `ReturnFile` | `:363-365`, `:377-381` |
| `OpenStruct`, `VisitField`, `CloseStruct` | the field loop and its end, `:374-400`, `:438-463` |
| `MergeEmbedded`, `AddProperty` | after a field's call, `:410-434` |
| `PropagateError` | `:340`, `:371`, `:401-409` |

A schema keeps only what tells components apart: whether it is a component
(`shouldBeReferenced`), its property keys with the references below each, the
required keys, and which options were applied. `of`, `whole`, the `for` of a
reference and `before` of a request are ghosts: the type it was made for, whether
every part made it in, which names were there before the call. A Go type is a
model value with the case it falls into (`Kind`), its element, its fields and its
normalized name, so `reflect` is not modelled.

The pointer case `:360` assigns all three results and falls through: it does **not**
look at `err`, and neither does `FinishPointer`, where every other case that has parts
returns the error at once (`PropagateError`).

`ComponentCatalogue` is what a program sees: a call publishes the types its type
needs and withdraws nothing; a refused call may have published some. It has no
stack. `SchemaRegistry` maps to it by `published` = the types of the components
there were when the call in progress began, `answer` = the result once the stack
is empty; all inner steps are stutters.

### RequestPipeline (`adapters/swaglay_fiber`)

`Register` builds `chain[r]` as the sixteen adapters do: `Use`, then - for
`UseWithInput` - the decoder that the wrapper puts before `Uses` (written back to
`uses[o]`, which is shared by all calls that pass slice `o`), then `Uses`. After
`Listen`, requests arrive and step through the chain; a step is one handler.
`DecodeQueryEarly` and `DecodeBodyEarly` are the wrappers; at the end of the chain
`CallWithLocal`, `CallWithQuery`, `CallWithBody`, `CallWithoutInput` are the
variants of the action, `FnFails` and `FnSucceeds` the rest of `handle*`. `heap`
holds the inputs that were decoded, so that a pointer in the locals can be nil, of
another type, or - if code shared a variable between requests - another request's.
Fiber, its decoders, the validator's verdict, the user's middlewares and function
are external: they choose, at each step, among what they may do. Phase `"panic"` is
where a request that panics ends; what `recover` makes of it is the program's.

`RequestService` is what a client sees of an endpoint: a request is refused or its
function runs once, a refused one never runs, and success is only said of a function
that succeeded.

### RouteTable (`swaglay.go:36-245`, `api.go:22-335`)

A call goes through `RegisterModels` (`swaglay.go:36-40`), `Upsert` (`:62-104`),
`Describe` (the switch `:106-186`) and `Serve` (`Fiber.Get(...)` in `http.go`);
each can panic and leaves what was done. `Describe` keeps the order within a case:
a GET's responses are set before its input is flattened and may panic. `routes` is
`api.Routes` keyed by (pattern, method), `router` what Fiber was given, in order:
Fiber serves the first route that matches. A call whose type is in `Refused` panics in
`RegisterModels`, one in `MayPanic` (an enum, whose package may not load) can. `Direct`
is the program using `rest.API` itself, between calls: `Configured` is what the `Has...`
functions do to a route, `Merged` what `API.Merge` does. `Export` and `ExportPanics` are
`Spec()` as one step: it panics if the constants of an enum do not load, one that a model
has (`MayPanic`) or that is the type of a query parameter (`Enums`,
`query_factory.go:83`), and otherwise returns a document or an error. `Valid` states when it succeeds: every model can be registered, and the document
passes kin-openapi's validation (`Validates`) - responses for each operation, path
parameters exactly those of the path, operation ids unique, no two paths that differ
only in the names of their parameters (`Template`). `Merge` does not copy tags, ids,
header parameters or content types; the model does not either.

### QueryParams (`query_factory.go`)

`flatten` and `setResult` call each other for the parts of a type and do nothing after
such a call has returned, so Go's stack is kept as the list `todo` of calls still to be
made, the next one first, each with the depth it runs at. `result` is the map they
share, a key being the sequence of its names: `"a[b][0]"` is `<<"a","b","0">>`.

| action | code |
|---|---|
| `Open`, `Finish`, `Close` | `NewQueryParametersFromValue`: the check for a struct, `:17-19`; the loop over the map, `:24-40`, with the panic of `resolvePrimitiveSwaggerType`; the caller going on |
| `FlattenStruct`, `FlattenSlice`, `DrainMap`, `FlattenPanics` | the cases of `flatten`, `:178-199`, and `flattenValueStruct` |
| `SetPointer`, `SetSlice`, `SkipPlain` | the cases of `setResult`, `:116-145` |

The kinds of numbers are merged where the code treats them alike; arrays are slices.
The reference the properties compare with is what `encoding/json`'s rules read under a
key (`Addressed`) and which keys lead to a value (`Leaves`). Fields of embedded structs
are out of that reference: the code documents an embedded pointer under its type's name.

### Documentation (`schema.go:63-200`, `swaglay.go:17-40`, `api.go:198-205`)

EXTENDS `SchemaRegistry` and takes `RouteTable` as the instance `Table` on variables of
its own: the routes are written by `Table!Upsert`, `Table!Describe`, `Table!Direct`, but
in place of `Table!RegisterModels` and `Table!Export` there is what the code does.

| action | code |
|---|---|
| `DocInit` | `SetupApi`, `swaglay.go:17-34`: three models with a description are still to be registered |
| `Begin`, `Ask`, `ModelRegistered`, `ModelsRegistered` | `register(in, out)`: `todo` is the list of models, one `RegisterModel` at a time |
| `Register` | any step within a `RegisterModel` |
| `ModelRefused`, `ModelPanics` | `MustRegisterModel` panics, or the enum does; what was registered stays, the rest of the call does not happen |
| `DescribeRoute`, `ChangeRoute` | `registerHandler`, Fiber; the program's own changes |
| `OpenSpec`, `OpenPattern`, `OpenOperation` | the loops of `createOpenAPI`, over maps: any order |
| `OperationPanics` | the hook of a query parameter loads the constants of its type and panics, `:103-106` |
| `RegisterSlot`, `SlotRegistered`, `SlotRefused`, `SlotPanics` | a request body or response: `RegisterModel`, then a reference or the schema itself; early return with the error, `:129-168` |
| `ClosePattern` | the copy of `api.models`, `:184-186` |
| `CloseSpec` | resolving the references and validating, `:191-199` |

`build` holds what is left of each loop and what the document says so far; `document` is
the last one that was returned without an error. With `Refused` and `MayPanic` computed
from what is below a type, the whole implements `RouteTable`: everything but the routes
is a stutter, and `spec` changes exactly as `Table!Valid` says - which does not speak of
references, so `Spec()` never fails on one.

## 4. Runs

Programs are in the `MC...` modules: tables of types, routes or calls. Calls are made
in every order the module allows.

| run | program and bounds | shows |
|---|---|---|
| `registry_shop` | 24 types, 8 calls in any order and repeated; 8 frames, no new call from 20 components on; 153803 states | every case of the switch, sharing, embedding (of a part that is there or not, and of a refused type), an enum and an option `WithEnumConstants` that may panic, types without a name (slices, an anonymous struct, `any`): references resolve and are faithful, no component is lost or changed, only whole ones are filed, refused stays refused, every call returns, and the registry implements the catalogue |
| `pipeline_service` | six routes: every kind of input and output, early and late decoding; two requests at once, each input bad, invalid or good; 41680 states | inputs are not mixed up, stages run in order, good requests are served, missing bodies are reported, every request is answered - with a body, with the status alone where there is no output, or `OnHandleError` is told why not -, and the pipeline implements the service |
| `pipeline_misconfigured` | four routes, two sharing a slice of `Opts`, no validator; two requests | requests panic, but no function gets an input that is not its own |
| `routes_shop` | six calls - one refused, one that may panic, one with an enum in its query, one documented only - and two changes by hand, `Spec()` in between; 24880 states | documentation and router agree on outputs and inputs, `Spec()` never returns an error and panics only for an enum, and each call that has no reason to panic is served |
| `routes_panicking` | seven calls: refused output, unflattenable query, unsupported method, two routes of one name, each registered twice (with another input and output, and without an input the second time); two changes by hand to those routes; 51304 states | what is served stays documented, no refused model gets in, `Spec()` fails for the unsupported method and the common name, and for no call that panicked otherwise, and models are replaced only by who describes their route |
| `query_params` | all structs of two fields over 20 types - each kind plain, behind pointers, in slices, slices of slices, structs of structs - and what is no struct; 3357 states | every documented key addresses one value and has its type, optional and repeated inputs are all documented, panics have a cause, flattening ends |
| `documentation` | 16 types (embedding, an enum that may fail, one in a query, a refused map) in three calls - one of them refused - and two changes by hand, one with a model that is refused; `Spec()` at any time, maps in any order; 126469 states | documents are complete, faithful and repeatable, calls and `Spec()` return, the composition implements `RouteTable` |

The other five runs each show a disagreement between the code and what its docs,
comments or tests say (`findings` in `PROJECT.json` quotes them):

| run | what TLC finds |
|---|---|
| `embedded_pointer` | embedding `*Base` deletes the component `Base` that was registered before: `:399` looks for `BasePtr`, `:414` deletes `Base` |
| `recursive_type` | a type that contains itself is never found at `:315` and recursion has no end |
| `middleware_without_input` | after a refused query the user's middlewares run with a nil input |
| `delete_input` | the adapter tests' routes for DELETE with an input: `swaglay.go:182` documents a body, `http.go:481-497` reads the query |
| `query_undocumented` | the query input of the adapter's own tests, a plain string, is not documented: `query_factory.go:143` skips it |

**Bounds.** `MaxDepth` is the goroutine's stack: 8 frames (6 in `documentation`) are more than the deepest
acyclic type needs (in `registry_shop` no call overflows, or `CallsReturn` would fail; in
`query_params` 9 calls are, or `RefusedForCause` and the check for deadlock would), and 9
in `recursive_type` are enough for a cycle to be gone around twice. `MaxModels` only stops calls from adding
anonymous components for ever (each call of `[]struct{...}` adds one); named types
reach a fixed point below it. `Request` is the number of simultaneous requests: two
are enough for one to disturb the other, as handlers of different requests share only
closures and `uses`. `Sent` leaves the part of a request that is not read bad, so that
reading the wrong one shows. A `Registration` or `Change` is made once; the same (method, pattern)
can be registered by two of them. Configurations have no symmetry sets: types and
routes differ in their roles.

**Fairness.** `SchemaRegistry`: `WF(Step)` - sequential code without blocking goes
on. `RequestPipeline`: `WF(Serve(q))` for each request - it has a goroutine of its
own; middlewares and functions of the program are taken to return. `RouteTable`: weak
fairness of the steps of a call. `QueryParams`: `WF(Step)`, `Documentation`: `WF(Work)`, all
that follows once a call of the library was made; it is one goroutine and nothing blocks. Nothing obliges a program to make a call or a client
to send a request.

**Deadlock** is not checked where the system may stop: a program that has made its
calls, a registry at its bound or whose process died of a stack overflow, a request
that panicked and whose connection the model does not reuse.

## 5. Proofs

All theorems are for every program - every set of types, routes and calls - and all
bounds. Where one needs a condition on the program, the condition is a named definition
and an assumption of the theorem, and what goes wrong without it is said here. The
programs of the passing runs satisfy these conditions (`ASSUME ProvedKind` in the MC
modules, which TLC evaluates), so that no theorem is vacuous.

### The registry

`SchemaRegistryProofs`:

* `TypeCorrect`: `Spec => []TypeOK`. `TypeOK` is strengthened by `Shape`: each frame
  but the last waits for a part of its own type at the field it is at, and a returned
  schema fits the frame that waits for it.
* `ComponentsKept`: `Spec => []NoComponentLost`, assuming `EmbedsByValue` - embedded
  fields have a named type that is no pointer, so that `:399` and `:414` speak of the same
  name. Invariant `Kept`: a frame that will delete a name recorded truthfully whether it
  was there when the call began, and no frame above it removes it.
* `ReferencesResolve`: `Spec => []RefsResolve`, assuming moreover `Descending(rank)` -
  no type contains itself. The references held by schemas still under construction
  must be invariant too (`Sound`), and deletion is safe because a component that is
  deleted right after its call can be referenced only from types of higher rank
  (`Ranked`), none of which was finished in between.

`RegistryContentProofs`, about what the components hold. The actions are first sorted by
how they move the stack (`Descends`, `Takes`, `Opens`, `Starts`, or a return: `Finished`),
so that each invariant has five cases and not fifteen:

* `OnlyWhole`: `Spec => []OnlyWholeComponents`, assuming `Refusing(refused)` - `refused`
  has the maps with keys that are no strings and all that contains one, and no pointer
  leads to it. A pointer's call does not look at the error of its element (`:360`), which
  publishes an empty object. Invariant `Wholly`: a frame past a field has the part of it.
* `ReferencesFaithful`: `Spec => []RefsFaithful`, assuming moreover `NamesTell` - what
  becomes a component has a name, and no two such types have the same one (false of
  anonymous structs, `any` and other interfaces without a name, which get numbers;
  `api.go:150-153` warns of clashes). Invariant
  `Told`: a reference leads where the name of its type says, and so does each component.
* `ComponentsStay`: `Spec => ComponentsStable`, if no type contains itself either: what
  is filed under a name that is taken is what was there. Invariant `Settled`.

`CatalogueProofs`, that the registry implements `ComponentCatalogue`:

* `MapsRefused`: `Spec => []MapKeysChecked`. Invariants `Rooted` (the stack begins at
  the request's type, and what a frame waits for is below it) and `Checked` (below a
  component, and below the fields a frame has passed, no map is refused).
* `RegistryImplementsCatalogue`: `Spec => Catalogue!Spec`. `Below` and `Needs` are
  recursive functions over types: as definitions by `CHOOSE` they are unfolded once it is
  shown that a function with these equations exists, by `Below` itself being the least
  set of types closed under parts, and `Needs` built along the ranks that `Descending`
  gives. Invariant `Accounted`: the components there are, are closed under what their
  types need (`NeedsClosed`); they are those there were when the call began and
  those needed by what the frames have passed (`Within`, `Foreseen`); the one just
  finished has brought all it needs (`Filled`). Steps map so: `Start` to the catalogue's
  `Accept`, the last return to `Publish`, or to `Refuse` with an error, `PanicEnum` to
  `Panic`, `Deliver` to `Acknowledge`, and all others to stutters.

### The pipeline

`RequestPipelineProofs`, for any number of requests at once. The invariant `Sound` holds
for every program: types; slices of handlers have the user's middlewares and decoders of
calls that passed this slice (`UsesRight`), chains are made of these (`ChainRight`); each
request has a place in its chain, its local was put there by one of those decoders
and is nil only after a refusal, and its answer so far fits what became of it
(`RequestRight`). With it:

* `TypeCorrect` and `BodiesOrReports` (`MissingBodyReported`): for every program;
* `InputsAccepted`: `Spec => []OnlyAcceptedInput`, assuming `TypesTellSources` - calls
  with `UseWithInput` that share a slice of `Opts` do not take one type from the query in
  one route and from the body in another: the wrappers leave both decoders in the slice, the
  function finds its input by type, and would get the wrong part's;
* `ServiceImplemented`: `Spec => Service!Spec`, assuming `SharedReadAlike` - such calls
  read the same part of a request. If they do not, a refused query may be followed by a
  body that is accepted, and the function runs for a request that was refused
  (`RefusalStands` is the part of the invariant that fails);
* `InOrder` (`StagesInOrder`) assuming `OwnOpts` - no such slice is shared - and
  `AcceptableAreServed` (`AcceptableIsServed`) assuming moreover `HasValidator`: a chain
  has its own decoder and no other (`OwnDecoders`), so a good request meets none
  that could refuse it (`Unrefused`).

### The route table

`RouteTableProofs`, along the invariant `Documented` (types; refused models are not in
the table; the route of a call past `Upsert` is there and has the path's parameters; past
`Describe` it has responses; what is served has both; an id, a model and a query
parameter come from a call or a change by hand). Its parts hold under conditions on what
the program changed by hand:

* `TypeCorrect`: for every program;
* `RefusedLeaveNothing`: if no model that is added by hand is refused (`ChangesAccepted`);
* `ServedAreDocumented`: if path parameters added by hand are among those of the pattern
  (`ChangesFit`);
* `SpecFailsRightly` (`SpecFailsForCause`): for every program. The condition is in the
  property, and speaks of what was made so far: an error means that this is not
  `WellFormed` - supported methods, ids and templates used for one route each, and changes
  by hand that are complete and have models that can be registered - and a panic that a
  model or query parameter of it has an enum. For what calls document, models, responses
  and path parameters are not among the causes: that they are right follows, also for
  calls that were refused or panicked half way.

`RouteAgreementProofs`, along `Agreed`: the route of a call that is served, or next to be,
still tells of that call what its description put there.

* `OnlyDescriptionsReplace` (`ReplacedByDescriptionOnly`): for every program;
* `OutputsAreServed` (`DocumentedAsServed`): if all who describe a served route agree on
  its output (`OutputsAgree`) - of two calls for one route the later one is documented and
  the earlier one served;
* `InputsAreDocumented` (`InputDocumentedByMethod`): if they agree on its input, and none
  adds a body to a GET (`InputsAgree`). A DELETE with an input is among these programs: it
  is documented as a body, which is not where it is read (run `delete_input`).

### Query flattening

`QueryParamsProofs`. `Value`, `LookedInto`, `Leaves` and `Addressed` are again recursive
functions that are unfolded first, here along the length of a key or a rank of types.

* `TypeCorrect`: for every program and stack;
* `ParametersAddress` (`ParametersAddressInput`), assuming `NamesClear` - no two fields
  of a struct have the same key, nor one an empty one: else a field overwrites another,
  and a key addresses two values. Invariants `Placed` (the calls that wait have
  keys of their own, none below that of another), `Answered` and `Addresses`: what waits
  or is in the map addresses a value of the type it says;
* `RefusedRightly` (`RefusedForCause`), assuming moreover `EnoughStack(need)` - the depth
  bound suffices for the types there are, as else the goroutine ends with no answer.
  Invariants `Room` and `Caused`: the stack left suffices for each call that waits, and a
  value that cannot be passed is still to be met or has been refused;
* `IndirectDocumented` (`IndirectInputDocumented`), assuming `NamesClear` and
  `Descending(rank)` - no type contains itself. Invariant `Gathered`: the keys in
  the map and those that the waiting calls will still make are all there are to be
  documented.

### Registry, route table and export together

`DocumentationProofs`. `DocSpec` takes the registry's steps and no others
(`RegistrySteps`), and `Table` is the instance of which `RouteTableProofs` speaks, so that
the invariants of both are invariants here. For every program:

* `TypesCorrect`: `DocSpec => []DocTypeOK` - with the types, that registry, route table and
  builder are in step: one `RegisterModel` at a time, for the call or the slot that waits
  for it.

The others are for the programs of `RegistryImplementsCatalogue`, along the invariant
`DocInv`, whose parts rest on this, that what the registry shows between calls only grows
(`ShownGrows`, from the refinement of the catalogue):

* `ServedRegistered` (`ServedModelsRegistered`). `CallRight`: each model of a call
  is registered, being registered, or still on the list `todo`, and the last two only at
  its first step; so when the call comes to `Serve` all are registered (`RoutedRight`);
* `DocumentsComplete` (`DocumentComplete`). `Reaches`: each model of each route is said
  something of, or the loops still come to it - a pattern, a method or a slot is left;
  `Covers`: once the models were copied the schemas have all that was needed by then;
* `DocumentsFaithful` (`DocumentFaithful`). `Consistent`: schemas that are copied are
  whole, are called by the name of their type and refer to one another only. Copies of
  different moments mix, so this is stated of what is copied and not of the registry;
* `RefinesRouteTable`: `DocSpec => Table!Spec`. An error, or a panic, maps to the route
  table's own as it has its reason below a model of the call or of the route
  (`FailedLemma`); `ModelsRegistered` maps to `RegisterModels` as no model of the
  call has such a reason; `SlotPanics` and `OperationPanics` to `ExportPanics`; `CloseSpec`
  to `Export`, as every reference resolves (`Walked`).

### What is only model-checked

* Liveness - `CallsReturn`, `EveryRequestAnswered`, `SoundCallsServed`, `FlatteningEnds`,
  `CallsAndSpecReturn` - since it rests on fairness and so on `ENABLED`, which the provers
  do not handle.
* `ExportIsRepeatable`, see section 2.
* The five runs that expect a violation.

## 6. Not modelled, and why

* `ApplyCustomSchemaToType` and `ApplyCustomSchema` hooks of the program
  (`schema.go:443-449`, and those it puts into parameters itself): they could turn any
  schema into any other. The hooks the library makes are modelled where they can fail:
  `OperationPanics` for query parameters; that of a DELETE's model only sets a
  description.
* The contents of schemas (formats, descriptions, enum values) and the text of names,
  paths and errors. In the programs of the runs different types have different names;
  `ReferencesResolve` is proved for clashing names too, `RefsFaithful` fails for them, as
  `api.go:150-153` warns.
* `SetupApi` is called once, before the registrations; more than one `Opts` panics at
  start-up (`MustEmptyOrOneLength`) and is not tried. Concurrent registrations, or a
  `Spec()` during one, are not: `api.models` is a plain map.
* An app whose middlewares write `ctx.Locals("input")` or change an input they were
  given. A `nil` from the query decoder (`querymap`, external) without an error, which
  `query.go:38` allows for: the request would end without an answer or a report.
* Functions that keep their input or context after they return (`AwareCtx`, strings
  on Fiber's buffers), functions that set a status themselves.
* `enums.go` loads packages from disk and walks their syntax: the registry has its
  failure (`PanicEnum`), and a type for which it finds no constants is kind `"basic"`.
* `util.go` of the adapter rewrites the text of paths; paths are model values.

### Known deviations kept out of the programs of the passing runs

These are what the code does, met while modelling; the passing runs use programs in
which they do not arise, and no run of its own is spent on them:

* A field that points to a map with number keys: `schema.go:360` does not look at the
  error, files an empty object and returns it with the error; the next call finds the
  object and succeeds, although "maps must have a string key".
* Options given to a type that was already met as a field are dropped (`:315-317`);
  known types and files ignore options (`:319-327`, `:377-381`).
* An app made by `fiber.New()` without a `StructValidator`: `query.go:42` calls a nil
  validator, and every request with a query input panics. (Run
  `pipeline_misconfigured` has no validator and checks that nothing is served
  unchecked on that way.)
* Two struct types without a name, one inside the other, get the same number: the outer
  takes it at `schema.go:213` before its fields are registered, and `:458` then overwrites
  the inner one, so that the reference to the inner type leads to the outer one.
* A struct without a name that is (an element of) a model is filed under a new number by
  every call of `RegisterModel`, so each `Spec()` adds a component and refers to that one.
* The wrappers write `opts[0].Uses` in the caller's slice (`http.go:32`, `:51`): a route that is
  registered later with the same slice gets the first one's decoder too, and a good
  request to it is refused or panics.
* A query type that contains itself behind a pointer or slice overflows the stack; a json
  tag such as `",omitempty"` makes an empty key (`query_factory.go:90-95`, where
  `schema.go:393-397` falls back to the field's name); fields that are not exported are
  documented too; no parameter is ever required, since only those that can be nil get
  into the map; a required field's name is kept by an embedding type that overwrites it.
* A (method, pattern) that is registered twice has the second call's documentation
  (`swaglay.go:85-186`) and serves the first call's function, since Fiber runs the first
  handler that was added.
* Two routes whose names are normalized to one operation id make `Spec()` fail for all. The
  example project has two (`src/tests/examples/fiber/pkg/controllers/user_controller.go:32-33`), and its
  `cmd/main.go:57` ignores the error.
* A POST is documented to answer 201 (`swaglay.go:145`) and answers 200 (`handle.go:27`);
  a DELETE likewise 204.
