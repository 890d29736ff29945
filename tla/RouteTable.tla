----------------------------- MODULE RouteTable -----------------------------
(***************************************************************************)
(* How a route gets into the documentation and then into the router.  A    *)
(* call of the adapter (swaglay_fiber.GetIO, ...) first has swaglay        *)
(* register the models of its input and output, then upsert the route in   *)
(* rest.API and describe it, and last adds it to Fiber.  A call of         *)
(* swaglay.RegisterHandlerIO and its like stops before Fiber.              *)
(*                                                                         *)
(* Each of these steps can panic, and a caller can recover: what the steps *)
(* before it did stays.  Between any two calls the program may also change *)
(* a route of rest.API itself, by its Has... functions or by Merge, and it *)
(* may call Spec().                                                        *)
(***************************************************************************)
EXTENDS Naturals, Sequences, Functions

CONSTANTS
  Registration,  \* the calls the program makes, each of them once
  Def,           \* Def[r]: the arguments of a call
  Pattern,       \* the full paths of routes
  ParamsIn,      \* ParamsIn[p]: the names in braces of pattern p
  Template,      \* Template[p]: pattern p without those names
  Type,          \* the input and output types
  Refused,       \* the types that RegisterModel returns an error for
  MayPanic,      \* the types that it may panic for: enums, and what has one
  Fields,        \* Fields[t]: the query parameters t is flattened to
  Unsupported,   \* the types that are not structs or cannot be flattened
  Id,            \* operation ids
  Param,         \* names of path, query and header parameters
  Enums,         \* the query parameters of a named type, whose constants Spec() loads
  ContentType,   \* content types of request bodies
  Change,        \* what the program changes in rest.API itself, once each
  Changed,       \* Changed[c]: by what, which route, and what of it
  Resource,      \* the tags
  None

\* The methods rest.API has a function for; the last five are not supported.
Method == {"GET", "POST", "PUT", "DELETE", "PATCH", "HEAD", "CONNECT", "OPTIONS", "TRACE"}

\* http.StatusOK and so on, and the models of package dtos.
Status == {200, 201, 204, 400, 404, 422}
Dto == {"OK", "Created", "NotFound", "BadRequest", "UnprocessableEntity"}

\* id: the normalized name of the call, or what replaces an empty name.
ASSUME RegistrationAssumption ==
  /\ Def \in [Registration ->
       [ method : Method, pattern : Pattern, id : Id, resource : Resource,
         in : Type \cup {None}, out : Type \cup {None}, serve : BOOLEAN ]]
  /\ ParamsIn \in [Pattern -> SUBSET Param]
  /\ Fields \in [Type -> SUBSET Param]
  /\ Refused \subseteq Type \ Dto /\ None \notin Refused
  /\ MayPanic \subseteq Type \ Dto /\ None \notin MayPanic
  /\ Unsupported \subseteq Type
  /\ Enums \subseteq Param

RouteKey == Pattern \X Method

Model == Type \cup Dto

\* A Route as far as it is filled in.  responses: pairs of a status and a model.
Doc == [ tags : Seq(Resource), id : Id \cup {None}, path : SUBSET Param,
         query : SUBSET Param, header : SUBSET Param, content : SUBSET ContentType,
         request : Type \cup {None}, responses : SUBSET (Status \X Model) ]

ASSUME ChangeAssumption ==
  /\ "application/json" \in ContentType
  /\ Changed \in [Change -> [by : {"Has", "Merge"}, key : RouteKey, doc : Doc]]

VARIABLES
  routes,    \* api.Routes: (pattern, method) -> Route
  router,    \* the routes added to Fiber, in order
  call,      \* the call in progress and the step it is at
  made,      \* the calls and changes that have been made
  spec       \* what Spec() did last: nothing yet, return a document or
             \* an error, or panic

vars == <<routes, router, call, made, spec>>

Steps == {"models", "upsert", "describe", "serve"}

ASSUME NoneAssumption == None \notin [of : Registration, step : Steps]

TypeOK ==
  /\ DOMAIN routes \subseteq RouteKey
  /\ \A k \in DOMAIN routes : routes[k] \in Doc
  /\ router \in Seq(Registration)
  /\ call \in [of : Registration, step : Steps] \cup {None}
  /\ made \subseteq Registration \cup Change
  /\ spec \in {"none", "valid", "invalid", "panicked"}

Init ==
  /\ routes = [k \in {} |-> None]
  /\ router = <<>>
  /\ call = None
  /\ made = {}
  /\ spec = "none"

-----------------------------------------------------------------------------
(* Documenting a route.                                                    *)

NewRoute == [ tags |-> <<>>, id |-> None, path |-> {}, query |-> {}, header |-> {},
              content |-> {"application/json"}, request |-> None, responses |-> {} ]

\* Mutant: a route that is there is made anew.
RouteAtFresh(k) == NewRoute

\* api.Route: the route of a method and pattern, made if there is none.
RouteAt(k) == IF k \in DOMAIN routes THEN routes[k] ELSE NewRoute

\* Route.HasResponseModel: the status' model is replaced.
HasResponses(doc, new) ==
  [doc EXCEPT !.responses =
     new \cup { p \in @ : \A q \in new : q[1] # p[1] }]

SetRoute(k, doc) ==
  routes' = [x \in DOMAIN routes \cup {k} |-> IF x = k THEN doc ELSE routes[x]]

KeyOf(r) == <<Def[r].pattern, Def[r].method>>

\* Mutant: the default response is never used.
OutOrNil(r, dto) == Def[r].out

OutOr(r, dto) == IF Def[r].out = None THEN dto ELSE Def[r].out

\* Mutant: the input of a GET is not flattened.
GetDocWithoutQuery(doc, r) ==
  HasResponses(doc, {<<200, OutOr(r, "OK")>>, <<404, "NotFound">>})

\* What a GET's input is flattened to.
QueryOf(r) == IF Def[r].in \in Type \ Unsupported THEN Fields[Def[r].in] ELSE {}

\* Mutant: a DELETE's responses are left out.
DeleteDocSilent(doc, r) == [doc EXCEPT !.request = Def[r].in]

\* The cases of registerHandler's switch.
GetDoc(doc, r) ==
  [ HasResponses(doc, {<<200, OutOr(r, "OK")>>, <<404, "NotFound">>}) EXCEPT
      !.query = @ \cup QueryOf(r) ]

PostDoc(doc, r) ==
  [ HasResponses(doc, {<<201, OutOr(r, "Created")>>, <<400, "BadRequest">>,
                       <<422, "UnprocessableEntity">>}) EXCEPT
      !.request = Def[r].in ]

PutDoc(doc, r) ==
  [ HasResponses(doc, {<<200, OutOr(r, "OK")>>, <<400, "BadRequest">>,
                       <<422, "UnprocessableEntity">>}) EXCEPT
      !.request = Def[r].in ]

DeleteDoc(doc, r) ==
  [ HasResponses(doc, {<<204, OutOr(r, "OK")>>}) EXCEPT !.request = Def[r].in ]

-----------------------------------------------------------------------------
(* A call.                                                                 *)

At(step) == call # None /\ call.step = step

Goto(step) == call' = [call EXCEPT !.step = step]

\* The call panics, and whoever made it recovers.
Panic == call' = None

\* The caller's turn.
MakeCall(r) ==
  /\ call = None
  /\ r \notin made
  /\ made' = made \cup {r}
  /\ call' = [of |-> r, step |-> "models"]
  /\ UNCHANGED <<routes, router, spec>>

\* Mutant: the error of RegisterModel is not looked at.
RegisterModelsUnchecked ==
  /\ At("models")
  /\ Goto("upsert")
  /\ UNCHANGED <<routes, router, made, spec>>

\* register(in, out): MustRegisterModel panics at an error.
RegisterModels ==
  /\ At("models")
  /\ LET registered == {Def[call.of].in, Def[call.of].out}
     IN  \/ registered \cap Refused = {} /\ Goto("upsert")
         \/ registered \cap (Refused \cup MayPanic) # {} /\ Panic
  /\ UNCHANGED <<routes, router, made, spec>>

\* Mutant: the path parameters are left out.
UpsertWithoutPath ==
  /\ At("upsert")
  /\ LET r == call.of
     IN  SetRoute(KeyOf(r),
           [ RouteAt(KeyOf(r)) EXCEPT !.tags = Append(@, Def[r].resource),
                                      !.id = Def[r].id ])
  /\ Goto("describe")
  /\ UNCHANGED <<router, made, spec>>

\* registerHandler up to its switch: tags are appended, the rest is set.
Upsert ==
  /\ At("upsert")
  /\ LET r == call.of
     IN  SetRoute(KeyOf(r),
           [ RouteAt(KeyOf(r)) EXCEPT
               !.tags = Append(@, Def[r].resource),
               !.id = Def[r].id,
               !.path = @ \cup ParamsIn[Def[r].pattern] ])
  /\ Goto("describe")
  /\ UNCHANGED <<router, made, spec>>

\* Mutant: a GET's input is flattened first, and its responses set after that.
DescribeFlattenFirst ==
  /\ At("describe")
  /\ LET r == call.of
         k == KeyOf(r)
         after == IF Def[r].serve THEN Goto("serve") ELSE call' = None
     IN  \/ /\ Def[r].method = "GET"
            /\ IF Def[r].in \in Unsupported THEN Panic /\ UNCHANGED routes
               ELSE SetRoute(k, GetDoc(routes[k], r)) /\ after
         \/ Def[r].method = "POST" /\ SetRoute(k, PostDoc(routes[k], r)) /\ after
         \/ Def[r].method = "PUT" /\ SetRoute(k, PutDoc(routes[k], r)) /\ after
         \/ Def[r].method = "DELETE" /\ SetRoute(k, DeleteDoc(routes[k], r)) /\ after
         \/ /\ Def[r].method \notin {"GET", "POST", "PUT", "DELETE"}
            /\ Panic
            /\ UNCHANGED routes
  /\ UNCHANGED <<router, made, spec>>

\* The switch.  A GET's responses are set before its input is flattened,
\* which panics for some types.
Describe ==
  /\ At("describe")
  /\ LET r == call.of
         k == KeyOf(r)
         after == IF Def[r].serve THEN Goto("serve") ELSE call' = None
     IN  \/ /\ Def[r].method = "GET"
            /\ SetRoute(k, GetDoc(routes[k], r))
            /\ IF Def[r].in \in Unsupported THEN Panic ELSE after
         \/ Def[r].method = "POST" /\ SetRoute(k, PostDoc(routes[k], r)) /\ after
         \/ Def[r].method = "PUT" /\ SetRoute(k, PutDoc(routes[k], r)) /\ after
         \/ Def[r].method = "DELETE" /\ SetRoute(k, DeleteDoc(routes[k], r)) /\ after
         \/ /\ Def[r].method \notin {"GET", "POST", "PUT", "DELETE"}
            /\ Panic
            /\ UNCHANGED routes
  /\ UNCHANGED <<router, made, spec>>

\* Mutant: the route is not added to Fiber.
ServeNot ==
  /\ At("serve")
  /\ call' = None
  /\ UNCHANGED <<routes, router, made, spec>>

\* Fiber.Get, Fiber.Post, ...
Serve ==
  /\ At("serve")
  /\ router' = Append(router, call.of)
  /\ call' = None
  /\ UNCHANGED <<routes, made, spec>>

-----------------------------------------------------------------------------
(* The program's own use of rest.API.                                      *)

Or(new, old) == IF new = None THEN old ELSE new

\* Route's Has... functions: each adds to what is there, or takes its place.
Configured(old, new) ==
  [ HasResponses(old, new.responses) EXCEPT
      !.tags = @ \o new.tags,
      !.id = Or(new.id, @),
      !.path = @ \cup new.path,
      !.query = @ \cup new.query,
      !.header = @ \cup new.header,
      !.content = @ \cup new.content,
      !.request = Or(new.request, @) ]

\* Mutant: what is merged takes the place of what was there.
MergedOver(old, new) ==
  [ HasResponses(old, new.responses) EXCEPT
      !.path = @ \cup new.path,
      !.query = @ \cup new.query,
      !.request = Or(new.request, @) ]

\* api.Merge, mergeMap: only what is not there is added, and only of these parts.
Merged(old, new) ==
  [ old EXCEPT
      !.responses = HasResponses(new, @).responses,
      !.path = @ \cup new.path,
      !.query = @ \cup new.query,
      !.request = Or(@, new.request) ]

Direct(c) ==
  /\ call = None
  /\ c \notin made
  /\ made' = made \cup {c}
  /\ LET old == RouteAt(Changed[c].key)
         new == Changed[c].doc
     IN  SetRoute(Changed[c].key,
           IF Changed[c].by = "Merge" THEN Merged(old, new) ELSE Configured(old, new))
  /\ UNCHANGED <<router, call, spec>>

-----------------------------------------------------------------------------
(* Exporting the documentation.                                            *)

Modelled(doc) == ({doc.request} \ {None}) \cup { p[2] : p \in doc.responses }

\* What the validation of a document insists on: responses for every operation,
\* path parameters that are those of the path, and ids and templates that are
\* used once.
Validates ==
  /\ \A k \in DOMAIN routes :
       /\ routes[k].responses # {}
       /\ routes[k].path = ParamsIn[k[1]]
  /\ \A k, l \in DOMAIN routes :
       /\ routes[k].id = routes[l].id /\ routes[k].id # None => k = l
       /\ Template[k[1]] = Template[l[1]] => k[1] = l[1]

\* createOpenAPI registers the models of every route once more, and validates.
Valid ==
  /\ \A k \in DOMAIN routes : Modelled(routes[k]) \cap Refused = {}
  /\ Validates

Export ==
  /\ call = None
  /\ spec' = IF Valid THEN "valid" ELSE "invalid"
  /\ UNCHANGED <<routes, router, call, made>>

\* The constants of an enum cannot be loaded: one that a model has, or that is the
\* type of a query parameter.  Until it comes to that route Spec() only reads.
ExportPanics ==
  /\ call = None
  /\ \E k \in DOMAIN routes :
       Modelled(routes[k]) \cap MayPanic # {} \/ routes[k].query \cap Enums # {}
  /\ spec' = "panicked"
  /\ UNCHANGED <<routes, router, call, made>>

-----------------------------------------------------------------------------
Next ==
  \/ \E r \in Registration : MakeCall(r)
  \/ RegisterModels \/ Upsert \/ Describe \/ Serve
  \/ \E c \in Change : Direct(c)
  \/ Export \/ ExportPanics

Spec == Init /\ [][Next]_vars

\* The program changes routes so that their path parameters stay within those of
\* their pattern, and with models that can be registered.
ChangesFit == \A c \in Change : Changed[c].doc.path \subseteq ParamsIn[Changed[c].key[1]]

ChangesAccepted == \A c \in Change : Modelled(Changed[c].doc) \cap Refused = {}

\* What was made so far: the calls, the changes, the keys they use, and the ids with
\* the routes they are for.
CallsMade == made \cap Registration

ChangesMade == made \cap Change

Keys == { KeyOf(r) : r \in CallsMade } \cup { Changed[c].key : c \in ChangesMade }

Ids == { <<Def[r].id, KeyOf(r)>> : r \in CallsMade }
       \cup { <<Changed[c].doc.id, Changed[c].key>> : c \in ChangesMade }

\* What was made so far should export: it only uses the four methods that
\* registerHandler supports, an id for one route at most, the same names for the
\* parameters of a path, and what the program added itself is complete and has
\* models that can be registered.  Calls that panicked for their models or their
\* input are no reason to fail.
WellFormed ==
  /\ \A r \in CallsMade : Def[r].method \in {"GET", "POST", "PUT", "DELETE"}
  /\ \A i, j \in Ids : i[1] = j[1] /\ i[1] # None => i[2] = j[2]
  /\ \A k, l \in Keys : Template[k[1]] = Template[l[1]] => k[1] = l[1]
  /\ \A c \in ChangesMade : /\ Modelled(Changed[c].doc) \cap Refused = {}
                             /\ Changed[c].doc.path = ParamsIn[Changed[c].key[1]]
                             /\ Changed[c].doc.responses # {}

\* The models and the query parameters of what was made so far.
ModelsMade == UNION ({ {Def[r].in, Def[r].out} : r \in CallsMade }
                     \cup { Modelled(Changed[c].doc) : c \in ChangesMade })

QueryMade == UNION ({ QueryOf(r) : r \in { g \in CallsMade : Def[g].method = "GET" } }
                    \cup { Changed[c].doc.query : c \in ChangesMade })

\* The status a call documents its output with.
OutputStatus(r) ==
  CASE Def[r].method = "POST" -> 201 [] Def[r].method = "DELETE" -> 204 [] OTHER -> 200

\* Who describes a served route besides its own call documents the same output, ...
OutputsAgree ==
  \A r \in Registration : Def[r].serve /\ Def[r].out # None =>
    /\ \A s \in Registration : KeyOf(s) = KeyOf(r) => Def[s].out = Def[r].out
    /\ \A c \in Change : Changed[c].key = KeyOf(r) /\ Changed[c].by = "Has" =>
         \A p \in Changed[c].doc.responses : p[1] = OutputStatus(r) => p[2] = Def[r].out

\* ... and the same body, and none for a GET.
InputsAgree ==
  \A r \in Registration : Def[r].serve /\ Def[r].in # None =>
    /\ Def[r].method # "GET" =>
         \A s \in Registration : KeyOf(s) = KeyOf(r) => Def[s].in = Def[r].in
    /\ \A c \in Change : Changed[c].key = KeyOf(r) =>
         IF Def[r].method = "GET" THEN Changed[c].doc.request = None
         ELSE Changed[c].by = "Has" => Changed[c].doc.request \in {None, Def[r].in}

\* A call is sequential code: it runs to its end or its panic.
FairSpec == Spec /\ WF_vars(RegisterModels \/ Upsert \/ Describe \/ Serve)

-----------------------------------------------------------------------------
(* Properties.                                                             *)

Routed == { router[i] : i \in DOMAIN router }

\* The call whose function Fiber runs for a request: the first that was added.
Dispatched(k) ==
  LET first == { i \in DOMAIN router :
                   /\ KeyOf(router[i]) = k
                   /\ \A j \in 1..(i - 1) : KeyOf(router[j]) # k }
  IN  { router[i] : i \in first }

\* What Fiber serves is documented, and completely: with the responses and the
\* parameters of its path (http.go:95-105 comes after :89-93 in every function).
ServedIsDocumented ==
  \A r \in Routed :
    /\ KeyOf(r) \in DOMAIN routes
    /\ routes[KeyOf(r)].responses # {}
    /\ routes[KeyOf(r)].path = ParamsIn[Def[r].pattern]

\* The output that is documented for a route is that of the function that serves it,
\* whoever else describes or merges the route (api.go:186-196, swaglay.go:106-185).
DocumentedAsServed ==
  call = None =>
    \A k \in DOMAIN routes : \A r \in Dispatched(k) :
      Def[r].out # None => \E s \in {200, 201, 204} : <<s, Def[r].out>> \in routes[k].responses

\* An input is documented by its method, whoever else describes or merges the route:
\* a GET's in the query and not as a body, a POST's or PUT's as the body, which is
\* where the adapter reads them, and a DELETE's as the body too (swaglay.go:121-182).
InputDocumentedByMethod ==
  call = None =>
    \A k \in DOMAIN routes : \A r \in Dispatched(k) :
      Def[r].in # None =>
        IF Def[r].method = "GET"
        THEN routes[k].request = None /\ Fields[Def[r].in] \subseteq routes[k].query
        ELSE routes[k].request = Def[r].in

\* The adapter reads the input of a DELETE from the query, like that of a GET
\* (http.go:481-497, README.md:19): that is where it should be documented.
InputDocumentedWhereRead ==
  call = None =>
    \A k \in DOMAIN routes : \A r \in Dispatched(k) :
      Def[r].in # None /\ Def[r].method \in {"GET", "DELETE"} =>
        routes[k].request = None /\ Fields[Def[r].in] \subseteq routes[k].query

\* A call whose models are refused, or panic, leaves none of them in the
\* documentation, which they would spoil for every other route (swaglay.go:216-217, :38).
RefusedNotDocumented ==
  \A k \in DOMAIN routes : Modelled(routes[k]) \cap Refused = {}

\* What replaces the models of a route in this step: the description of a call for
\* it, or Has... by the program.
Replaces(k) ==
  \/ At("describe") /\ KeyOf(call.of) = k
  \/ \E c \in Change \cap (made' \ made) : Changed[c].by = "Has" /\ Changed[c].key = k

\* Parameters, content types and statuses that were documented stay, whoever describes
\* or merges the route again and whichever call panics; a model, of the body or of a
\* status, is only replaced or dropped by a call for this very route, once its models
\* were accepted and in its switch, or by Has... on it, never by Merge, another
\* route or Spec() (api.go:175-196, :279-335, swaglay.go:106-182).
ReplacedByDescriptionOnly ==
  [][\A k \in DOMAIN routes :
       /\ k \in DOMAIN routes'
       /\ routes[k].path \subseteq routes'[k].path
       /\ routes[k].query \subseteq routes'[k].query
       /\ routes[k].header \subseteq routes'[k].header
       /\ routes[k].content \subseteq routes'[k].content
       /\ \A p \in routes[k].responses : \E q \in routes'[k].responses : p[1] = q[1]
       /\ \/ Replaces(k)
          \/ /\ routes[k].responses \subseteq routes'[k].responses
             /\ routes[k].request \in {None, routes'[k].request}]_vars

\* Spec() fails for a reason the program gave itself, whatever other calls were refused
\* or panicked half way: it returns an error only if what was made is not well formed,
\* and panics only if an enum was brought in (schema.go:103-106, :191-199, :348-351).
SpecFailsForCause ==
  /\ spec = "invalid" => ~WellFormed
  /\ spec = "panicked" => ModelsMade \cap MayPanic # {} \/ QueryMade \cap Enums # {}

\* A call has no reason to panic: nothing of it is refused, may fail to load or cannot
\* be flattened, and its method is supported.
Sound(r) ==
  /\ {Def[r].in, Def[r].out} \cap (Refused \cup MayPanic) = {}
  /\ Def[r].method \in {"GET", "POST", "PUT", "DELETE"}
  /\ Def[r].method = "GET" => Def[r].in \notin Unsupported

\* A call of the adapter that has no reason to panic does not: its route is served in
\* the end, whatever became of the calls before it (http.go:85-105).
SoundCallsServed ==
  \A r \in Registration : Def[r].serve /\ Sound(r) => (r \in made ~> r \in Routed)
=============================================================================
