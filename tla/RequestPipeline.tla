--------------------------- MODULE RequestPipeline --------------------------
(***************************************************************************)
(* How swaglay_fiber serves a request (pkg/adapters/swaglay_fiber).  The   *)
(* adapter functions Get, GetI, ..., DeleteIO build a chain of handlers    *)
(* for a route: the user's middlewares, perhaps a middleware of its own    *)
(* that decodes the input early, and last an action that sees to it that   *)
(* there is an input, calls the user's function and answers.  Requests run *)
(* through the chains concurrently; a step is one handler, or the return   *)
(* of the user's function.                                                 *)
(*                                                                         *)
(* Fiber, the JSON and query decoders and the user's own handlers are      *)
(* external: they decide how good an input is, whether a middleware goes   *)
(* on, whether the function fails and whether an answer can be encoded.    *)
(***************************************************************************)
EXTENDS Naturals, Sequences, Functions

CONSTANTS
  Route,         \* the calls of Get, GetI, ..., DeleteIO that the program makes
  Def,           \* Def[r]: their arguments
  OptsSlice,     \* the slices of Opts it passes; calls may share one
  Options,       \* Options[o]: the options in slice o
  Type,          \* the input types
  Request,       \* bound: the requests that are served at the same time
  Sent,          \* what requests bring: pairs of a query's and a body's quality
  HasValidator,  \* fiber.Config.StructValidator is set
  None

QueryMethod == {"GET", "DELETE"}
BodyMethod == {"POST", "PUT"}

\* What decoding and validating finds an input to be.
Quality == {"bad", "invalid", "ok"}

ASSUME RouteAssumption ==
  /\ Def \in [Route -> [ method : QueryMethod \cup BodyMethod,
                         in     : Type \cup {None},
                         out    : BOOLEAN,
                         opts   : OptsSlice \cup {None} ]]
  /\ Options \in [OptsSlice -> [ use : BOOLEAN, uses : Nat, withInput : BOOLEAN ]]
  /\ HasValidator \in BOOLEAN
  /\ Sent \subseteq Quality \X Quality

\* The handlers before the action.  "use" and "uses" are the user's.
Handler == [kind : {"use", "uses", "query", "body"}, type : Type \cup {None}]

\* An input is a cell on the heap: one for each place where code declares it.
Cell == Request \X Nat

\* The input of type `type' read from the query or body of request `from'; ctx
\* is the request whose context it was given (setCtxIfNeeded).
Input == [type : Type, source : {"query", "body"}, from : Request,
          quality : Quality, ctx : Request \cup {None}]

\* A *In: a cell or nil.
Pointer == [type : Type, cell : Cell \cup {None}]

\* What is not there is not taken for a pointer or for a place in memory.
ASSUME NoneAssumption == None \notin Cell /\ None \notin Pointer

VARIABLES
  uses,       \* uses[o]: the present value of opts[0].Uses in slice o
  chain,      \* chain[r]: the handlers of the routes registered so far
  listening,  \* the program has registered its routes and serves requests
  heap,       \* the inputs in memory
  conn        \* conn[q]: how far request q is, and its answer

vars == <<uses, chain, listening, heap, conn>>

\* at: the position in the chain.  local: ctx.Locals("input").  input: what
\* the function was called with.  reported: calls of OnHandleError.  fate is a
\* ghost: what became of the request.
Connection ==
  [ phase    : {"idle", "chain", "fn", "done", "panic"},
    route    : Route \cup {None},
    query    : Quality,
    body     : Quality,
    at       : Nat,
    local    : Pointer \cup {None},
    input    : Pointer \cup {None},
    status   : {"ok", "badRequest", "unprocessable", "serverError", "own"},
    sent     : {"nothing", "refusal", "error", "output", "fiberError", "own"},
    reported : Nat,
    fate     : {"open", "refused", "stopped", "succeeded", "failed"} ]

NewConnection(phase, route, query, body) ==
  [ phase |-> phase, route |-> route, query |-> query, body |-> body, at |-> 1,
    local |-> None, input |-> None, status |-> "ok", sent |-> "nothing",
    reported |-> 0, fate |-> "open" ]

Idle == NewConnection("idle", None, "ok", "ok")

TypeOK ==
  /\ uses \in [OptsSlice -> Seq(Handler)]
  /\ DOMAIN chain \subseteq Route
  /\ \A r \in DOMAIN chain : chain[r] \in Seq(Handler)
  /\ listening \in BOOLEAN
  /\ DOMAIN heap \subseteq Cell
  /\ \A c \in DOMAIN heap : heap[c] \in Input
  /\ conn \in [Request -> Connection]

Init ==
  /\ uses = [o \in OptsSlice |->
              [i \in 1..Options[o].uses |-> [kind |-> "uses", type |-> None]]]
  /\ chain = [r \in {} |-> <<>>]
  /\ listening = FALSE
  /\ heap = [c \in {} |-> None]
  /\ conn = [q \in Request |-> Idle]

-----------------------------------------------------------------------------
(* Registering a route.                                                    *)

TakesInput(r) == Def[r].in # None

WithInput(r) == Def[r].opts # None /\ Options[Def[r].opts].withInput

Source(r) == IF Def[r].method \in QueryMethod THEN "query" ELSE "body"

\* wrapSatisfyQueryInputMiddleware, wrapBodyInputMiddleware: the decoder goes
\* before the user's handlers.
Wrapped(r) ==
  <<[kind |-> Source(r), type |-> Def[r].in]>> \o uses[Def[r].opts]

\* Mutant: Opts.Use comes last.
MiddlewaresUseLast(opts, after) ==
  IF opts.use THEN Append(after, [kind |-> "use", type |-> None]) ELSE after

\* getMiddlewares.
Middlewares(opts, after) ==
  IF opts.use THEN <<[kind |-> "use", type |-> None]>> \o after ELSE after

AddRoute(r, handlers) ==
  chain' = [x \in DOMAIN chain \cup {r} |-> IF x = r THEN handlers ELSE chain[x]]

\* assertUnsupportedUseWithInput: otherwise the call panics.
Supported(r) == WithInput(r) => TakesInput(r)

\* The wrappers write opts[0].Uses in the slice they were passed.
Register(r) ==
  /\ ~listening
  /\ r \notin DOMAIN chain
  /\ Supported(r)
  /\ IF Def[r].opts = None
     THEN /\ AddRoute(r, <<>>)
          /\ UNCHANGED uses
     ELSE LET after == IF WithInput(r) THEN Wrapped(r) ELSE uses[Def[r].opts]
          IN  /\ AddRoute(r, Middlewares(Options[Def[r].opts], after))
              /\ uses' = [uses EXCEPT ![Def[r].opts] = after]
  /\ UNCHANGED <<listening, heap, conn>>

\* The program serves requests when it has made all its calls.
Listen ==
  /\ ~listening
  /\ DOMAIN chain = { r \in Route : Supported(r) }
  /\ listening' = TRUE
  /\ UNCHANGED <<uses, chain, heap, conn>>

-----------------------------------------------------------------------------
(* A request arrives and leaves.                                           *)

Arrive(q, r, query, body) ==
  /\ listening
  /\ conn[q].phase = "idle"
  /\ conn' = [conn EXCEPT ![q] = NewConnection("chain", r, query, body)]
  /\ UNCHANGED <<uses, chain, listening, heap>>

\* What the request allocated is garbage.
Leave(q) ==
  /\ conn[q].phase = "done"
  /\ conn' = [conn EXCEPT ![q] = Idle]
  /\ heap' = Restrict(heap, { c \in DOMAIN heap : c[1] # q })
  /\ UNCHANGED <<uses, chain, listening>>

-----------------------------------------------------------------------------
(* The handlers before the action.                                         *)

InChain(q) == conn[q].phase = "chain" /\ conn[q].at \in DOMAIN chain[conn[q].route]

Current(q) == chain[conn[q].route][conn[q].at]

Answers(q, answer) ==
  /\ conn' = [conn EXCEPT ![q] = answer]
  /\ UNCHANGED <<uses, chain, listening>>

RunMiddleware(q) ==
  /\ InChain(q)
  /\ Current(q).kind \in {"use", "uses"}
  /\ \/ Answers(q, [conn[q] EXCEPT !.at = @ + 1])
     \/ Answers(q, [conn[q] EXCEPT !.phase = "done", !.status = "own",
                                   !.sent = "own", !.fate = "stopped"])
  /\ UNCHANGED heap

\* Mutant: the input is declared outside of the handler's function.
NewCellShared(q) == <<CHOOSE p \in Request : TRUE, conn[q].at>>

\* The cell of an input declared in the handler at the present position.
NewCell(q) == <<q, conn[q].at>>

Store(cell, input) ==
  heap' = [c \in DOMAIN heap \cup {cell} |-> IF c = cell THEN input ELSE heap[c]]

\* setCtxIfNeeded comes before the validation, so that it can use the context.
Decoded(q, type, source, quality) ==
  [type |-> type, source |-> source, from |-> q, quality |-> quality, ctx |-> q]

\* satisfyQuery: a query that cannot be decoded is refused before there is a
\* validation; then a validator that is not there panics.
QueryRefused(q) ==
  \/ conn[q].query = "bad"
  \/ conn[q].query = "invalid" /\ HasValidator

QueryPanics(q) == conn[q].query # "bad" /\ ~HasValidator

QueryAccepted(q) == conn[q].query = "ok" /\ HasValidator

QueryStatus == [bad |-> "badRequest", invalid |-> "unprocessable"]

\* Mutant: OnHandleError is not told.
QueryRefusalUnreported(c, encoded) ==
  [c EXCEPT !.status = QueryStatus[c.query], !.fate = "refused",
            !.sent = IF encoded THEN "refusal" ELSE @]

\* ctx.Status(status).JSON(NewResponseErrorBody(ctx, err)) of satisfyQuery: if
\* it fails OnHandleError is told.
QueryRefusal(c, encoded) ==
  [c EXCEPT !.status = QueryStatus[c.query], !.fate = "refused",
            !.sent = IF encoded THEN "refusal" ELSE @,
            !.reported = IF encoded THEN @ ELSE @ + 1]

Panics(q) == Answers(q, [conn[q] EXCEPT !.phase = "panic"]) /\ UNCHANGED heap

\* ctx.Bind().JSON: without a validator whatever can be decoded is accepted.
Bindable == IF HasValidator THEN {"ok"} ELSE {"invalid", "ok"}

\* A body is refused with the same answer: if it fails the error is returned to
\* Fiber.
RefuseBody(q) ==
  /\ conn[q].body \notin Bindable
  /\ \E encoded \in BOOLEAN :
       Answers(q, [conn[q] EXCEPT
                     !.phase = "done", !.fate = "refused",
                     !.status = IF encoded THEN "unprocessable" ELSE "serverError",
                     !.sent = IF encoded THEN "refusal" ELSE "fiberError"])
  /\ UNCHANGED heap

\* The input is in a new cell; `input' points to it.
Stored(q, input, source, quality) ==
  Store(input.cell, Decoded(q, input.type, source, quality))

NewInput(q, type) == [type |-> type, cell |-> NewCell(q)]

\* Mutant: the input is not put in the locals.
PassOnWithoutLocal(q, answer, input) == Answers(q, [answer EXCEPT !.at = @ + 1])

\* Mutant: ctx.Next is not called.
PassOnForgetsNext(q, answer, input) ==
  Answers(q, [answer EXCEPT !.local = input, !.phase = "done"])

\* ctx.Locals("input", input); ctx.Next()
PassOn(q, answer, input) ==
  Answers(q, [answer EXCEPT !.local = input, !.at = @ + 1])

\* After a refusal the input is nil and the chain goes on.
DecodeQueryEarly(q) ==
  /\ InChain(q)
  /\ Current(q).kind = "query"
  /\ LET type == Current(q).type
     IN  \/ QueryPanics(q) /\ Panics(q)
         \/ /\ QueryRefused(q)
            /\ \E encoded \in BOOLEAN :
                 PassOn(q, QueryRefusal(conn[q], encoded), [type |-> type, cell |-> None])
            /\ UNCHANGED heap
         \/ /\ QueryAccepted(q)
            /\ Stored(q, NewInput(q, type), "query", conn[q].query)
            /\ PassOn(q, conn[q], NewInput(q, type))

DecodeBodyEarly(q) ==
  /\ InChain(q)
  /\ Current(q).kind = "body"
  /\ LET input == NewInput(q, Current(q).type)
     IN  \/ RefuseBody(q)
         \/ /\ conn[q].body \in Bindable
            /\ Stored(q, input, "body", conn[q].body)
            /\ PassOn(q, conn[q], input)

-----------------------------------------------------------------------------
(* The action at the end of the chain.                                     *)

AtAction(q) == conn[q].phase = "chain" /\ conn[q].at = Len(chain[conn[q].route]) + 1

CallFn(q, input) == Answers(q, [conn[q] EXCEPT !.phase = "fn", !.input = input])

CallWithoutInput(q) ==
  /\ AtAction(q)
  /\ ~TakesInput(conn[q].route)
  /\ CallFn(q, None)
  /\ UNCHANGED heap

\* Mutant: the input in the locals is passed on as it is.
CallWithLocalUnchecked(q) ==
  /\ AtAction(q)
  /\ WithInput(conn[q].route)
  /\ conn[q].local # None
  /\ CallFn(q, conn[q].local)
  /\ UNCHANGED heap

\* ctx.Locals("input").(*In) and the test for nil.
CallWithLocal(q) ==
  /\ AtAction(q)
  /\ WithInput(conn[q].route)
  /\ LET local == conn[q].local
     IN  \/ /\ local = None \/ local.type # Def[conn[q].route].in
            /\ Panics(q)
         \/ /\ local # None /\ local.type = Def[conn[q].route].in
            /\ IF local.cell = None
               THEN Answers(q, [conn[q] EXCEPT !.phase = "done"])
               ELSE CallFn(q, local)
            /\ UNCHANGED heap

\* The action of a route that takes its input from part `source' itself.
Decodes(q, source) ==
  /\ AtAction(q)
  /\ TakesInput(conn[q].route) /\ ~WithInput(conn[q].route)
  /\ Source(conn[q].route) = source

CallWithQuery(q) ==
  /\ Decodes(q, "query")
  /\ LET input == NewInput(q, Def[conn[q].route].in)
     IN  \/ QueryPanics(q) /\ Panics(q)
         \/ /\ QueryRefused(q)
            /\ \E encoded \in BOOLEAN :
                 Answers(q, [QueryRefusal(conn[q], encoded) EXCEPT !.phase = "done"])
            /\ UNCHANGED heap
         \/ /\ QueryAccepted(q)
            /\ Stored(q, input, "query", conn[q].query)
            /\ CallFn(q, input)

CallWithBody(q) ==
  /\ Decodes(q, "body")
  /\ LET input == NewInput(q, Def[conn[q].route].in)
     IN  \/ RefuseBody(q)
         \/ /\ conn[q].body \in Bindable
            /\ Stored(q, input, "body", conn[q].body)
            /\ CallFn(q, input)

-----------------------------------------------------------------------------
(* handle, handleI, handleO, handleIO: what the function returned.         *)

\* Mutant: the status of other errors is not set.
ErrorStatusUnset == [validation |-> "unprocessable", other |-> "unset"]

\* NewResponseError: validation errors are the client's, others the server's.
ErrorStatus == [validation |-> "unprocessable", other |-> "serverError"]

FnFails(q) ==
  /\ conn[q].phase = "fn"
  /\ \E err \in DOMAIN ErrorStatus, encoded \in BOOLEAN :
       Answers(q, [conn[q] EXCEPT
                     !.phase = "done", !.fate = "failed",
                     !.status = ErrorStatus[err],
                     !.sent = IF encoded THEN "error" ELSE @,
                     !.reported = IF encoded THEN @ + 1 ELSE @ + 2])
  /\ UNCHANGED heap

FnSucceeds(q) ==
  /\ conn[q].phase = "fn"
  /\ \E encoded \in IF Def[conn[q].route].out THEN BOOLEAN ELSE {TRUE} :
       Answers(q, [conn[q] EXCEPT
                     !.phase = "done", !.fate = "succeeded",
                     !.sent = IF Def[conn[q].route].out /\ encoded THEN "output" ELSE @,
                     !.reported = IF encoded THEN @ ELSE @ + 1])
  /\ UNCHANGED heap

-----------------------------------------------------------------------------
Serve(q) ==
  \/ RunMiddleware(q) \/ DecodeQueryEarly(q) \/ DecodeBodyEarly(q)
  \/ CallWithoutInput(q) \/ CallWithLocal(q) \/ CallWithQuery(q) \/ CallWithBody(q)
  \/ FnFails(q) \/ FnSucceeds(q)

Next ==
  \/ \E r \in Route : Register(r)
  \/ Listen
  \/ \E q \in Request :
       \/ \E r \in DOMAIN chain, sent \in Sent : Arrive(q, r, sent[1], sent[2])
       \/ Serve(q)
       \/ Leave(q)

Spec == Init /\ [][Next]_vars

\* Each request has a goroutine of its own.  The user's middlewares and
\* functions are taken to return.
FairSpec == Spec /\ \A q \in Request : WF_vars(Serve(q))
-----------------------------------------------------------------------------
(* Properties.                                                             *)

Reads(r) == IF Def[r].method \in {"GET", "DELETE"} THEN "query" ELSE "body"

\* The request's input, if its function takes one, is as it should be.
Acceptable(q) ==
  TakesInput(conn[q].route) =>
    (IF Reads(conn[q].route) = "query" THEN conn[q].query ELSE conn[q].body) = "ok"

\* A function with an input is only ever called with one of its own type that
\* was read from the right part of this very request, was decoded and passed
\* the validation there is, and knows the request's context, whatever other requests
\* are at (http.go:121-135, :240-258).  Middlewares are taken not to touch the input
\* or the locals it is in.
OnlyAcceptedInput ==
  \A q \in Request :
    conn[q].phase = "fn" /\ TakesInput(conn[q].route) =>
      /\ conn[q].input.cell \in DOMAIN heap
      /\ LET input == heap[conn[q].input.cell]
         IN  /\ input.type = Def[conn[q].route].in
             /\ input.source = Reads(conn[q].route)
             /\ input.from = q /\ input.ctx = q
             /\ input.quality \in IF HasValidator THEN {"ok"} ELSE {"invalid", "ok"}

\* Opts.Use runs before there is an input, Opts.Uses of a route with
\* UseWithInput after it has been looked for (http.go:62-77, :28-32).
StagesInOrder ==
  \A q \in Request : InChain(q) =>
    /\ Current(q).kind = "use" => conn[q].local = None
    /\ Current(q).kind = "uses" /\ WithInput(conn[q].route) =>
         /\ conn[q].local # None
         /\ conn[q].local.type = Def[conn[q].route].in

\* The middlewares of a route with UseWithInput have an input to look at.
MiddlewareHasInput ==
  \A q \in Request :
    InChain(q) /\ Current(q).kind = "uses" /\ WithInput(conn[q].route) =>
      conn[q].local # None /\ conn[q].local.cell # None

\* A request whose input is as it should be gets to the function, unless a
\* middleware answers it: it is not refused for what it does not read, and
\* nothing panics on the way.
AcceptableIsServed ==
  \A q \in Request :
    conn[q].phase \in {"done", "panic"} /\ Acceptable(q) /\ conn[q].fate # "stopped" =>
      conn[q].phase = "done" /\ conn[q].fate \in {"succeeded", "failed"}

\* Where an answer should have had a body and has none, OnHandleError was told
\* (query.go:30-33, handle.go:19-22, :27-29).
MissingBodyReported ==
  \A q \in Request :
    /\ conn[q].phase = "done" /\ conn[q].sent = "nothing"
    /\ conn[q].status # "ok" \/ Def[conn[q].route].out
    => conn[q].reported > 0

\* What of this depends on the program: two calls of it with UseWithInput may be
\* passed the same slice of Opts, and then the route of one decodes the other's
\* input too.  The first condition allows that where no two such calls take the
\* same type from different parts of the request, ...
Early == { r \in Route : WithInput(r) /\ TakesInput(r) }

TypesTellSources ==
  \A r, s \in Early :
    Def[r].opts = Def[s].opts /\ Def[r].in = Def[s].in => Source(r) = Source(s)

\* ... the second where they take it from the same part, ...
SharedReadAlike ==
  \A r, s \in Early : Def[r].opts = Def[s].opts => Source(r) = Source(s)

\* ... and the last does not allow it.
OwnOpts == \A r, s \in Early : Def[r].opts = Def[s].opts => r = s

\* Every request gets through its chain and is answered: with a body, or with the
\* status alone where there is no output, or OnHandleError was told why not
\* (http.go:28-44, :121-135).
HasAnswer(q) ==
  \/ conn[q].sent # "nothing"
  \/ conn[q].reported > 0
  \/ conn[q].status = "ok" /\ ~Def[conn[q].route].out

EveryRequestAnswered ==
  \A q \in Request : conn[q].phase = "chain" ~> conn[q].phase = "done" /\ HasAnswer(q)

\* What a client sees of the pipeline is what the service promises.
Stage(q) ==
  CASE conn[q].phase = "idle" -> "idle"
    [] conn[q].phase = "fn"   -> "running"
    [] OTHER                  -> conn[q].fate

Answer(q) ==
  IF conn[q].phase # "done" THEN "none"
  ELSE IF conn[q].status = "own" THEN "own"
  ELSE IF conn[q].status = "ok" THEN "success" ELSE "error"

Service == INSTANCE RequestService WITH
  Client <- Request,
  stage  <- [q \in Request |-> Stage(q)],
  answer <- [q \in Request |-> Answer(q)]

ImplementsService == Service!Spec
=============================================================================
