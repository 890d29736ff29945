----------------------- MODULE RequestPipelineProofs -----------------------
(***************************************************************************)
(* Proofs about RequestPipeline, for any program and any number of         *)
(* requests.  The inductive invariant says where the handlers of a chain   *)
(* come from, and of each request what its local and its answer so far     *)
(* tell about the handlers it has passed.  Parts of it hold only under a   *)
(* condition on the slices of Opts that the program shares.                *)
(***************************************************************************)
EXTENDS RequestPipeline, TLAPS

\* The handler that a route decodes its input early with.
DecoderOf(r) == [kind |-> Source(r), type |-> Def[r].in]

\* A handler that a slice of Opts may hold: one of the user's, or the decoder of
\* a call that was passed the slice.
HeldBy(o, h) ==
  \/ h.kind = "uses"
  \/ \E r \in Early : Def[r].opts = o /\ h = DecoderOf(r)

UsesRight ==
  \A o \in OptsSlice : \A i \in DOMAIN uses[o] : HeldBy(o, uses[o][i])

\* A chain is made of these, after the middleware Use if there is one.
ChainRight ==
  \A r \in DOMAIN chain :
    /\ Supported(r)
    /\ \A i \in DOMAIN chain[r] :
         \/ i = 1 /\ chain[r][i].kind = "use"
         \/ Def[r].opts # None /\ HeldBy(Def[r].opts, chain[r][i])

\* A slice that no call with UseWithInput was passed is as the user made it.
UsesOwn ==
  \A o \in OptsSlice :
    (\A r \in DOMAIN chain \cap Early : Def[r].opts # o) =>
      \A i \in DOMAIN uses[o] : uses[o][i].kind = "uses"

\* The place of a route's own decoder.
Place(r) == IF Options[Def[r].opts].use THEN 2 ELSE 1

\* A chain has its own decoder and no other.
ChainOwn ==
  \A r \in DOMAIN chain \cap Early :
    /\ Place(r) \in DOMAIN chain[r]
    /\ chain[r][Place(r)] = DecoderOf(r)
    /\ \A i \in DOMAIN chain[r] :
         /\ i < Place(r) => chain[r][i].kind = "use"
         /\ i > Place(r) => chain[r][i].kind = "uses"

\* In memory `mem' the pointer is to an input of q's, read from `source' and
\* accepted, that was stored before the position `at'.
Holds(mem, q, pointer, source, at) ==
  /\ pointer.cell \in DOMAIN mem
  /\ pointer.cell[1] = q /\ pointer.cell[2] < at
  /\ mem[pointer.cell].type = pointer.type
  /\ mem[pointer.cell].source = source
  /\ mem[pointer.cell].from = q /\ mem[pointer.cell].ctx = q
  /\ mem[pointer.cell].quality \in Bindable

\* The route that q takes is registered, and so is its place in the chain.
Routed(q) ==
  conn[q].phase # "idle" =>
    /\ listening
    /\ conn[q].route \in DOMAIN chain
    /\ conn[q].at \in 1..Len(chain[conn[q].route]) + 1

\* The local was put there by the decoder of a call that shares the slice: it is
\* nil only after a refusal.
LocalRight(q) ==
  conn[q].phase = "chain" /\ conn[q].local # None =>
    /\ conn[q].at > 1
    /\ \E r \in Early :
         /\ Def[r].opts = Def[conn[q].route].opts
         /\ conn[q].local.type = Def[r].in
         /\ IF conn[q].local.cell = None THEN conn[q].fate = "refused"
            ELSE Holds(heap, q, conn[q].local, Source(r), conn[q].at)

\* The function's input is its own.
InputRight(q) ==
  conn[q].phase = "fn" /\ TakesInput(conn[q].route) =>
    /\ conn[q].input \in Pointer
    /\ conn[q].input.type = Def[conn[q].route].in
    /\ Holds(heap, q, conn[q].input, Source(conn[q].route), conn[q].at + 1)

\* Until the function returns there is no answer, except to a refusal.
Waiting == {"chain", "fn", "panic"}

Told(c) == c.sent # "nothing" \/ c.reported > 0

AnswerRight(q) ==
  /\ conn[q].phase \in Waiting =>
       \/ conn[q].fate = "open" /\ conn[q].status = "ok"
       \/ /\ conn[q].fate = "refused" /\ Told(conn[q])
          /\ conn[q].status \in {"badRequest", "unprocessable"}
  /\ conn[q].phase = "done" =>
       /\ conn[q].fate # "open"
       /\ conn[q].status # "ok" \/ Def[conn[q].route].out => Told(conn[q])
       /\ conn[q].status = "own" <=> conn[q].fate = "stopped"
       /\ conn[q].fate \in {"refused", "failed"} => conn[q].status # "ok"

RequestRight(q) == Routed(q) /\ LocalRight(q) /\ AnswerRight(q)

\* With the right types these are inductive for any program.
Sound ==
  /\ TypeOK /\ UsesRight /\ ChainRight
  /\ \A q \in Request : RequestRight(q)

\* A refusal stands: a route goes on after it only if its own decoder reads the
\* query, and so the decoders to come find the query as bad.
RefusalStands(q) ==
  /\ conn[q].phase = "chain" /\ conn[q].fate = "refused" =>
       /\ conn[q].local # None /\ conn[q].local.cell = None
       /\ QueryRefused(q)
       /\ conn[q].route \in Early /\ Source(conn[q].route) = "query"
  /\ conn[q].phase = "fn" => conn[q].fate = "open"
  /\ conn[q].phase = "done" /\ conn[q].fate = "succeeded" => conn[q].status = "ok"

\* Up to its own decoder a request has no input, and past it its own or nil.
OwnLocal(q) ==
  conn[q].phase = "chain" /\ conn[q].route \in Early =>
    IF conn[q].at > Place(conn[q].route)
    THEN conn[q].local # None /\ conn[q].local.type = Def[conn[q].route].in
    ELSE conn[q].local = None

\* A request with the right input is not refused.
Unrefused(q) ==
  conn[q].phase # "idle" /\ Acceptable(q) =>
    conn[q].phase # "panic" /\ conn[q].fate # "refused"

\* What holds besides if no two calls that share a slice take the same type from
\* different parts of the request, ...
InputsRight == \A q \in Request : InputRight(q)

\* ... if they read the same part, ...
RefusalsStand == \A q \in Request : RefusalStands(q)

\* ... if they do not share slices, ...
OwnDecoders == UsesOwn /\ ChainOwn /\ \A q \in Request : OwnLocal(q)

\* ... and if there is a validator besides.
AcceptableUnrefused == \A q \in Request : Unrefused(q)

-----------------------------------------------------------------------------
(* The program's routes.                                                   *)

\* What a route is, and a route with UseWithInput and an input.
LEMMA Routes ==
  ASSUME NEW r \in Route
  PROVE  /\ Def[r].method \in QueryMethod \cup BodyMethod
         /\ Def[r].in \in Type \cup {None}
         /\ Def[r].out \in BOOLEAN
         /\ Def[r].opts \in OptsSlice \cup {None}
         /\ Def[r].opts # None =>
              /\ Def[r].opts \in OptsSlice
              /\ Options[Def[r].opts].use \in BOOLEAN
              /\ Options[Def[r].opts].uses \in Nat
         /\ Source(r) \in {"query", "body"}
         /\ Source(r) = Reads(r)
         /\ TakesInput(r) => Def[r].in \in Type
         /\ DecoderOf(r).kind = Source(r) /\ DecoderOf(r).type = Def[r].in
<1>1. /\ Def[r].method \in QueryMethod \cup BodyMethod
      /\ Def[r].in \in Type \cup {None}
      /\ Def[r].out \in BOOLEAN
      /\ Def[r].opts \in OptsSlice \cup {None}
  BY RouteAssumption
<1>2. \A o \in OptsSlice : Options[o].use \in BOOLEAN /\ Options[o].uses \in Nat
  BY RouteAssumption
<1>3. Source(r) \in {"query", "body"} /\ Source(r) = Reads(r)
  BY DEF Source, Reads, QueryMethod
<1>4. TakesInput(r) => Def[r].in \in Type
  BY <1>1 DEF TakesInput
<1> QED BY <1>1, <1>2, <1>3, <1>4 DEF DecoderOf

\* The decoder of a route with UseWithInput is a handler for an input type, and
\* every route that is passed its slice has UseWithInput.
LEMMA EarlyRoutes ==
  ASSUME NEW r \in Early
  PROVE  /\ r \in Route /\ Def[r].in \in Type /\ Def[r].opts \in OptsSlice
         /\ Source(r) \in {"query", "body"}
         /\ DecoderOf(r) \in Handler
         /\ DecoderOf(r).kind = Source(r) /\ DecoderOf(r).type = Def[r].in
         /\ \A s \in Route : Def[s].opts = Def[r].opts => WithInput(s)
<1>1. r \in Route /\ TakesInput(r) /\ WithInput(r)
  BY DEF Early
<1>2. \A s \in Route : Def[s].opts = Def[r].opts => WithInput(s)
  BY <1>1 DEF WithInput
<1>3. DecoderOf(r) \in Handler
  BY <1>1, Routes DEF DecoderOf, Handler
<1> QED BY <1>1, <1>2, <1>3, Routes DEF WithInput

-----------------------------------------------------------------------------
(* Registering a route.                                                    *)

\* What Register makes of a chain: the middleware Use, if there is one, and then
\* the handlers of the slice.
LEMMA MiddlewaresLemma ==
  ASSUME NEW opts, NEW after \in Seq(Handler)
  PROVE  LET all == Middlewares(opts, after)
         IN  /\ all \in Seq(Handler)
             /\ opts.use =>
                  /\ Len(all) = Len(after) + 1 /\ all[1].kind = "use"
                  /\ \A i \in DOMAIN all : i > 1 =>
                       i - 1 \in DOMAIN after /\ all[i] = after[i - 1]
             /\ ~opts.use => all = after
<1> DEFINE use == [kind |-> "use", type |-> None]
<1>1. use \in Handler
  BY DEF Handler
<1>2. CASE ~opts.use
  BY <1>2 DEF Middlewares
<1>3. CASE opts.use
  <2> DEFINE all == <<use>> \o after
  <2>1. Middlewares(opts, after) = all
    BY <1>3 DEF Middlewares
  <2> HIDE DEF use
  <2>2. <<use>> \in Seq(Handler) /\ Len(<<use>>) = 1 /\ <<use>>[1] = use
    BY <1>1
  <2>3. all \in Seq(Handler) /\ Len(all) = Len(after) + 1
    BY <2>2
  <2>4. \A i \in 1..Len(all) : all[i] = IF i <= 1 THEN <<use>>[i] ELSE after[i - 1]
    BY <2>2, <2>3
  <2>5. all[1] = use /\ use.kind = "use"
    BY <2>2, <2>3, <2>4 DEF use
  <2> HIDE DEF all
  <2>6. \A i \in DOMAIN all : i > 1 => i - 1 \in DOMAIN after /\ all[i] = after[i - 1]
    BY <2>3, <2>4
  <2> QED BY <1>3, <2>1, <2>3, <2>5, <2>6
<1> QED BY <1>2, <1>3

\* What the decoder's wrapper makes of a slice: the decoder before the rest.
LEMMA WrappedLemma ==
  ASSUME NEW r \in Early, uses[Def[r].opts] \in Seq(Handler)
  PROVE  LET all == Wrapped(r)
         IN  /\ all \in Seq(Handler)
             /\ Len(all) = Len(uses[Def[r].opts]) + 1
             /\ all[1] = DecoderOf(r)
             /\ \A i \in DOMAIN all : i > 1 =>
                  /\ i - 1 \in DOMAIN uses[Def[r].opts]
                  /\ all[i] = uses[Def[r].opts][i - 1]
<1> DEFINE held == uses[Def[r].opts]
           first == DecoderOf(r)
           all == <<first>> \o held
<1>1. Wrapped(r) = all
  BY DEF Wrapped, DecoderOf
<1>2. first \in Handler
  BY EarlyRoutes
<1> HIDE DEF held, first
<1>3. held \in Seq(Handler)
  BY DEF held
<1>4. <<first>> \in Seq(Handler) /\ Len(<<first>>) = 1 /\ <<first>>[1] = first
  BY <1>2
<1>5. all \in Seq(Handler) /\ Len(all) = Len(held) + 1
  BY <1>3, <1>4
<1>6. \A i \in 1..Len(all) : all[i] = IF i <= 1 THEN <<first>>[i] ELSE held[i - 1]
  BY <1>3, <1>4, <1>5
<1>7. all[1] = first
  BY <1>4, <1>5, <1>6
<1> HIDE DEF all
<1>8. \A i \in DOMAIN all : i > 1 => i - 1 \in DOMAIN held /\ all[i] = held[i - 1]
  BY <1>3, <1>5, <1>6
<1> QED BY <1>1, <1>5, <1>7, <1>8 DEF held, first

\* A decoder is in the slice its own call was passed.
LEMMA HeldLemma ==
  ASSUME NEW o \in OptsSlice
  PROVE  /\ \A r \in Early : Def[r].opts = o => HeldBy(o, DecoderOf(r))
         /\ \A h : HeldBy(o, h) => h.kind # "use"
<1>1. \A r \in Early : Def[r].opts = o => HeldBy(o, DecoderOf(r))
  BY DEF HeldBy
<1>2. \A r \in Early : DecoderOf(r).kind \in {"query", "body"}
  BY EarlyRoutes
<1>3. \A h : HeldBy(o, h) => h.kind # "use"
  BY <1>2 DEF HeldBy
<1> QED BY <1>1, <1>3

\* Until the program listens all requests are idle, and so they are right.
LEMMA NotListening ==
  ASSUME ~listening, \A q \in Request : Routed(q)
  PROVE  \A q \in Request : conn[q].phase = "idle"
BY DEF Routed

\* What Register does: one more chain, and perhaps another value of a slice.
LEMMA Registered ==
  ASSUME TypeOK, NEW r \in Route, Register(r)
  PROVE  /\ DOMAIN chain' = DOMAIN chain \cup {r}
         /\ r \notin DOMAIN chain
         /\ \A x \in DOMAIN chain : chain'[x] = chain[x]
         /\ Supported(r)
         /\ ~listening
         /\ UNCHANGED <<listening, heap, conn>>
         /\ Def[r].opts = None => chain'[r] = << >> /\ uses' = uses
         /\ Def[r].opts # None =>
              LET o == Def[r].opts
              IN  /\ uses' = [uses EXCEPT ![o] = uses'[o]]
                  /\ uses'[o] = IF WithInput(r) THEN Wrapped(r) ELSE uses[o]
                  /\ chain'[r] = Middlewares(Options[o], uses'[o])
<1>1. CASE Def[r].opts = None
  BY <1>1 DEF Register, AddRoute
<1>2. CASE Def[r].opts # None
  <2> DEFINE o == Def[r].opts
             after == IF WithInput(r) THEN Wrapped(r) ELSE uses[o]
  <2>1. /\ AddRoute(r, Middlewares(Options[o], after))
        /\ uses' = [uses EXCEPT ![o] = after]
        /\ r \notin DOMAIN chain /\ Supported(r) /\ ~listening
        /\ UNCHANGED <<listening, heap, conn>>
    BY <1>2 DEF Register
  <2>2. o \in DOMAIN uses
    BY <1>2, Routes DEF TypeOK
  <2> HIDE DEF after
  <2>3. uses'[o] = after
    BY <2>1, <2>2
  <2>4. /\ DOMAIN chain' = DOMAIN chain \cup {r}
        /\ chain'[r] = Middlewares(Options[o], after)
        /\ \A x \in DOMAIN chain : chain'[x] = chain[x]
    BY <2>1 DEF AddRoute
  <2> QED BY <1>2, <2>1, <2>3, <2>4 DEF after
<1> QED BY <1>1, <1>2

\* What is in a slice after Register belongs there.
LEMMA RegisteredSlice ==
  ASSUME TypeOK, UsesRight, NEW r \in Route, Register(r), Def[r].opts # None
  PROVE  LET o == Def[r].opts
         IN  /\ o \in OptsSlice
             /\ uses'[o] \in Seq(Handler)
             /\ \A i \in DOMAIN uses'[o] : HeldBy(o, uses'[o][i])
<1> DEFINE o == Def[r].opts
<1>1. o \in OptsSlice /\ uses[o] \in Seq(Handler)
  BY Routes DEF TypeOK
<1>2. \A i \in DOMAIN uses[o] : HeldBy(o, uses[o][i])
  BY <1>1 DEF UsesRight
<1>3. CASE ~WithInput(r)
  BY <1>1, <1>2, <1>3, Registered
<1>4. CASE WithInput(r)
  <2>1. r \in Early
    BY <1>4, Registered DEF Supported, Early
  <2>2. uses'[o] = Wrapped(r)
    BY <1>4, Registered
  <2>3. HeldBy(o, DecoderOf(r))
    BY <1>1, <2>1, HeldLemma
  <2>4. \A i \in DOMAIN Wrapped(r) : HeldBy(o, Wrapped(r)[i])
    <3> SUFFICES ASSUME NEW i \in DOMAIN Wrapped(r)
                 PROVE  HeldBy(o, Wrapped(r)[i])
      OBVIOUS
    <3>1. i = 1 \/ i > 1
      BY <1>1, <2>1, WrappedLemma
    <3> QED BY <1>1, <1>2, <2>1, <2>3, <3>1, WrappedLemma
  <2> QED BY <1>1, <2>1, <2>2, <2>4, WrappedLemma
<1> QED BY <1>1, <1>3, <1>4

\* Register leaves the slices and the chains right.
LEMMA RegisterRight ==
  ASSUME TypeOK, UsesRight, ChainRight, NEW r \in Route, Register(r)
  PROVE  /\ uses' \in [OptsSlice -> Seq(Handler)]
         /\ DOMAIN chain' \subseteq Route
         /\ \A x \in DOMAIN chain' : chain'[x] \in Seq(Handler)
         /\ UsesRight' /\ ChainRight'
<1> DEFINE o == Def[r].opts
<1>1. CASE Def[r].opts = None
  <2>1. /\ DOMAIN chain' = DOMAIN chain \cup {r} /\ chain'[r] = << >> /\ uses' = uses
        /\ \A x \in DOMAIN chain : chain'[x] = chain[x]
        /\ Supported(r)
    BY <1>1, Registered
  <2>2. << >> \in Seq(Handler) /\ DOMAIN << >> = {}
    OBVIOUS
  <2>3. \A x \in DOMAIN chain' : chain'[x] \in Seq(Handler)
    BY <2>1, <2>2 DEF TypeOK
  <2>4. UsesRight'
    BY <2>1 DEF UsesRight
  <2>5. ChainRight'
    BY <2>1, <2>2 DEF ChainRight
  <2> QED BY <2>1, <2>3, <2>4, <2>5 DEF TypeOK
<1>2. CASE Def[r].opts # None
  <2> DEFINE after == uses'[o]
             all == Middlewares(Options[o], after)
  <2>1. /\ DOMAIN chain' = DOMAIN chain \cup {r} /\ chain'[r] = all
        /\ \A x \in DOMAIN chain : chain'[x] = chain[x]
        /\ r \notin DOMAIN chain /\ Supported(r)
        /\ uses' = [uses EXCEPT ![o] = after]
    BY <1>2, Registered
  <2>2. /\ o \in OptsSlice /\ after \in Seq(Handler)
        /\ \A i \in DOMAIN after : HeldBy(o, after[i])
    BY <1>2, RegisteredSlice
  <2>3. Options[o].use \in BOOLEAN
    BY <1>2, Routes
  <2> HIDE DEF after
  <2>4. uses' \in [OptsSlice -> Seq(Handler)]
    BY <2>1, <2>2 DEF TypeOK
  <2>5. UsesRight'
    BY <2>1, <2>2 DEF UsesRight, TypeOK
  <2>6. all \in Seq(Handler)
    BY <2>2, MiddlewaresLemma
  <2>7. \A i \in DOMAIN all : (i = 1 /\ all[i].kind = "use") \/ HeldBy(o, all[i])
    <3> SUFFICES ASSUME NEW i \in DOMAIN all
                 PROVE  (i = 1 /\ all[i].kind = "use") \/ HeldBy(o, all[i])
      OBVIOUS
    <3>1. i = 1 \/ i > 1
      BY <2>6
    <3> QED BY <2>2, <2>3, <3>1, MiddlewaresLemma
  <2> HIDE DEF all
  <2>8. \A x \in DOMAIN chain' : chain'[x] \in Seq(Handler)
    BY <2>1, <2>6 DEF TypeOK
  <2>9. ChainRight'
    BY <1>2, <2>1, <2>7 DEF ChainRight
  <2> QED BY <2>1, <2>4, <2>5, <2>8, <2>9 DEF TypeOK
<1> QED BY <1>1, <1>2

\* Where calls with UseWithInput do not share slices, a chain has its own
\* decoder and no other, and a slice that none of them was passed has none.
LEMMA RegisterOwn ==
  ASSUME TypeOK, OwnOpts, UsesOwn, ChainOwn, NEW r \in Route, Register(r)
  PROVE  UsesOwn' /\ ChainOwn'
<1> DEFINE o == Def[r].opts
<1>1. \A x \in DOMAIN chain \cap Early : x \in DOMAIN chain' /\ chain'[x] = chain[x]
  BY Registered
<1>2. \A x \in DOMAIN chain' \cap Early : x = r \/ x \in DOMAIN chain
  BY Registered
<1>3. CASE r \notin Early
  <2>1. uses' = uses
    <3>1. CASE Def[r].opts = None
      BY <3>1, Registered
    <3>2. CASE Def[r].opts # None
      <4>1. ~WithInput(r)
        BY <1>3, Registered DEF Supported, Early
      <4>2. uses' = [uses EXCEPT ![o] = uses[o]]
        BY <3>2, <4>1, Registered
      <4> QED BY <4>2 DEF TypeOK
    <3> QED BY <3>1, <3>2
  <2>2. DOMAIN chain' \cap Early = DOMAIN chain \cap Early
    BY <1>1, <1>2, <1>3
  <2>3. UsesOwn'
    BY <2>1, <2>2 DEF UsesOwn
  <2>4. ChainOwn'
    BY <1>1, <2>2 DEF ChainOwn
  <2> QED BY <2>3, <2>4
<1>4. CASE r \in Early
  <2>1. WithInput(r) /\ o # None /\ o \in OptsSlice /\ uses[o] \in Seq(Handler)
    BY <1>4, EarlyRoutes DEF WithInput, Early, TypeOK
  <2>2. \A s \in DOMAIN chain \cap Early : Def[s].opts # o
    BY <1>4, Registered DEF OwnOpts
  <2>3. \A i \in DOMAIN uses[o] : uses[o][i].kind = "uses"
    BY <2>1, <2>2 DEF UsesOwn
  <2>4. uses'[o] = Wrapped(r) /\ uses' = [uses EXCEPT ![o] = uses'[o]]
    BY <2>1, Registered
  <2>5. UsesOwn'
    <3> SUFFICES ASSUME NEW p \in OptsSlice,
                        \A s \in DOMAIN chain' \cap Early : Def[s].opts # p,
                        NEW i \in DOMAIN uses'[p]
                 PROVE  uses'[p][i].kind = "uses"
      BY DEF UsesOwn
    <3>1. p # o
      BY <1>4, Registered
    <3>2. uses'[p] = uses[p]
      BY <2>4, <3>1 DEF TypeOK
    <3>3. \A s \in DOMAIN chain \cap Early : Def[s].opts # p
      BY <1>1
    <3> QED BY <3>2, <3>3 DEF UsesOwn
  <2>6. /\ Place(r) \in DOMAIN chain'[r]
        /\ chain'[r][Place(r)] = DecoderOf(r)
        /\ \A i \in DOMAIN chain'[r] :
             /\ i < Place(r) => chain'[r][i].kind = "use"
             /\ i > Place(r) => chain'[r][i].kind = "uses"
    <3> DEFINE wrapped == Wrapped(r)
               all == Middlewares(Options[o], wrapped)
    <3>1. /\ wrapped \in Seq(Handler) /\ wrapped[1] = DecoderOf(r)
          /\ Len(wrapped) = Len(uses[o]) + 1
          /\ \A i \in DOMAIN wrapped : i > 1 =>
               i - 1 \in DOMAIN uses[o] /\ wrapped[i] = uses[o][i - 1]
      BY <1>4, <2>1, WrappedLemma
    <3>2. chain'[r] = all
      BY <2>1, <2>4, Registered
    <3> HIDE DEF wrapped
    <3>3. \A i \in DOMAIN wrapped : i > 1 => wrapped[i].kind = "uses"
      BY <2>3, <3>1
    <3>4. all \in Seq(Handler)
      BY <3>1, MiddlewaresLemma
    <3>5. Len(wrapped) \in Nat /\ Len(wrapped) >= 1
      BY <2>1, <3>1
    <3>6. CASE ~Options[o].use
      <4>1. all = wrapped /\ Place(r) = 1
        BY <3>1, <3>6, MiddlewaresLemma DEF Place
      <4> QED BY <3>1, <3>2, <3>3, <3>5, <4>1
    <3>7. CASE Options[o].use
      <4>1. /\ Place(r) = 2 /\ Len(all) = Len(wrapped) + 1 /\ all[1].kind = "use"
            /\ \A i \in DOMAIN all : i > 1 =>
                 i - 1 \in DOMAIN wrapped /\ all[i] = wrapped[i - 1]
        BY <3>1, <3>7, MiddlewaresLemma DEF Place
      <4> HIDE DEF all
      <4>2. 2 \in DOMAIN all /\ all[2] = wrapped[1]
        BY <3>4, <3>5, <4>1
      <4>3. \A i \in DOMAIN all : i > 2 => all[i].kind = "uses"
        BY <3>3, <3>4, <4>1
      <4>4. \A i \in DOMAIN all : i < 2 => i = 1
        BY <3>4
      <4> QED BY <3>1, <3>2, <4>1, <4>2, <4>3, <4>4
    <3> QED BY <3>6, <3>7
  <2>7. ChainOwn'
    <3> SUFFICES ASSUME NEW x \in DOMAIN chain' \cap Early
                 PROVE  /\ Place(x) \in DOMAIN chain'[x]
                        /\ chain'[x][Place(x)] = DecoderOf(x)
                        /\ \A i \in DOMAIN chain'[x] :
                             /\ i < Place(x) => chain'[x][i].kind = "use"
                             /\ i > Place(x) => chain'[x][i].kind = "uses"
      BY DEF ChainOwn
    <3>1. CASE x = r
      BY <2>6, <3>1
    <3>2. CASE x # r
      BY <1>1, <1>2, <3>2 DEF ChainOwn
    <3> QED BY <3>1, <3>2
  <2> QED BY <2>5, <2>7
<1> QED BY <1>3, <1>4

-----------------------------------------------------------------------------
(* Steps of one request.                                                   *)

\* Request p and what it allocated are left alone ...
Untouched(p) ==
  /\ conn'[p] = conn[p]
  /\ \A c \in DOMAIN heap : c[1] = p => c \in DOMAIN heap' /\ heap'[c] = heap[c]

\* ... by a step of request q.
StepOf(q) ==
  /\ UNCHANGED <<uses, chain, listening>>
  /\ \A p \in Request : p # q => Untouched(p)

\* Such a step breaks nothing that is said of p.
LEMMA OthersStayRight ==
  ASSUME NEW p \in Request, Untouched(p), UNCHANGED <<uses, chain, listening>>
  PROVE  /\ RequestRight(p) => RequestRight(p)'
         /\ InputRight(p) => InputRight(p)'
         /\ RefusalStands(p) => RefusalStands(p)'
         /\ OwnLocal(p) => OwnLocal(p)'
         /\ Unrefused(p) => Unrefused(p)'
<1>1. \A pointer, source, at :
        Holds(heap, p, pointer, source, at) => Holds(heap', p, pointer, source, at)
  BY DEF Holds, Untouched
<1>2. conn'[p] = conn[p] /\ chain' = chain /\ listening' = listening
  BY DEF Untouched
<1>3. Routed(p) => Routed(p)'
  BY <1>2 DEF Routed
<1>4. LocalRight(p) => LocalRight(p)'
  BY <1>1, <1>2 DEF LocalRight
<1>5. AnswerRight(p) => AnswerRight(p)'
  BY <1>2 DEF AnswerRight, Told
<1>6. InputRight(p) => InputRight(p)'
  BY <1>1, <1>2 DEF InputRight
<1>7. RefusalStands(p) => RefusalStands(p)'
  BY <1>2 DEF RefusalStands, QueryRefused
<1>8. OwnLocal(p) => OwnLocal(p)'
  BY <1>2 DEF OwnLocal
<1>9. Unrefused(p) => Unrefused(p)'
  BY <1>2 DEF Unrefused, Acceptable
<1> QED BY <1>3, <1>4, <1>5, <1>6, <1>7, <1>8, <1>9 DEF RequestRight

\* What Answers does.
LEMMA AnswersLemma ==
  ASSUME TypeOK, NEW q \in Request, NEW answer \in Connection, Answers(q, answer)
  PROVE  /\ conn' \in [Request -> Connection] /\ conn'[q] = answer
         /\ \A p \in Request : p # q => conn'[p] = conn[p]
         /\ UNCHANGED <<uses, chain, listening>>
BY DEF Answers, TypeOK

\* Where it leaves the memory alone the step is one of q's.
LEMMA AnswersStep ==
  ASSUME TypeOK, NEW q \in Request, NEW answer \in Connection, Answers(q, answer),
         UNCHANGED heap
  PROVE  TypeOK' /\ StepOf(q) /\ conn'[q] = answer
<1>1. /\ conn' \in [Request -> Connection] /\ conn'[q] = answer
      /\ \A p \in Request : p # q => conn'[p] = conn[p]
      /\ UNCHANGED <<uses, chain, listening>>
  BY AnswersLemma
<1>2. StepOf(q)
  BY <1>1 DEF StepOf, Untouched
<1> QED BY <1>1, <1>2 DEF TypeOK

\* An input is stored where this request, and no other, stores it at its
\* present position: it is there for the positions after that, and the inputs
\* from before are as they were.
LEMMA StoredLemma ==
  ASSUME TypeOK, NEW q \in Request, NEW type \in Type,
         NEW source \in {"query", "body"}, NEW quality \in Quality,
         Stored(q, NewInput(q, type), source, quality)
  PROVE  /\ NewInput(q, type) \in Pointer
         /\ DOMAIN heap' \subseteq Cell
         /\ \A c \in DOMAIN heap' : heap'[c] \in Input
         /\ \A c \in DOMAIN heap :
              c[1] # q => c \in DOMAIN heap' /\ heap'[c] = heap[c]
         /\ \A pointer, s, at :
              Holds(heap, q, pointer, s, at) /\ at \in Nat /\ at <= conn[q].at =>
                Holds(heap', q, pointer, s, at)
         /\ \A pointer, at :
              /\ quality \in Bindable
              /\ pointer = NewInput(q, type) /\ at = conn[q].at + 1
              => Holds(heap', q, pointer, source, at)
<1> DEFINE cell == <<q, conn[q].at>>
           input == [type |-> type, source |-> source, from |-> q,
                     quality |-> quality, ctx |-> q]
<1>1. conn[q].at \in Nat
  BY DEF TypeOK, Connection
<1>2. cell \in Cell /\ cell[1] = q /\ cell[2] = conn[q].at
  BY <1>1 DEF Cell
<1>3. input \in Input
  BY DEF Input
<1>4. NewInput(q, type) = [type |-> type, cell |-> cell]
  BY DEF NewInput, NewCell
<1>5. heap' = [c \in DOMAIN heap \cup {cell} |-> IF c = cell THEN input ELSE heap[c]]
  BY <1>4 DEF Stored, Store, Decoded
<1> HIDE DEF cell
<1>6. NewInput(q, type) \in Pointer
  BY <1>2, <1>4 DEF Pointer
<1>7. DOMAIN heap' \subseteq Cell /\ \A c \in DOMAIN heap' : heap'[c] \in Input
  BY <1>2, <1>3, <1>5 DEF TypeOK
<1>8. \A c \in DOMAIN heap : c[1] # q => c \in DOMAIN heap' /\ heap'[c] = heap[c]
  BY <1>2, <1>5
<1>9. ASSUME NEW pointer, NEW s, NEW at, Holds(heap, q, pointer, s, at),
             at \in Nat, at <= conn[q].at
      PROVE  Holds(heap', q, pointer, s, at)
  <2>1. pointer.cell \in DOMAIN heap /\ pointer.cell[2] < conn[q].at
    BY <1>1, <1>9 DEF Holds, TypeOK, Cell
  <2>2. pointer.cell # cell
    BY <1>1, <1>2, <2>1
  <2>3. pointer.cell \in DOMAIN heap' /\ heap'[pointer.cell] = heap[pointer.cell]
    BY <1>5, <2>1, <2>2
  <2> QED BY <1>9, <2>3 DEF Holds
<1>10. ASSUME NEW pointer, NEW at, quality \in Bindable,
              pointer = NewInput(q, type), at = conn[q].at + 1
       PROVE  Holds(heap', q, pointer, source, at)
  <2>1. pointer.cell = cell /\ pointer.type = type
    BY <1>4, <1>10
  <2>2. cell \in DOMAIN heap' /\ heap'[cell] = input
    BY <1>5
  <2>3. cell[2] < at
    BY <1>1, <1>2, <1>10
  <2> QED BY <1>2, <1>10, <2>1, <2>2, <2>3 DEF Holds
<1> QED BY <1>6, <1>7, <1>8, <1>9, <1>10

\* A request in the chain is at a handler of its route: a decoder is one of a
\* call that was passed the same slice.
LEMMA CurrentLemma ==
  ASSUME TypeOK, ChainRight, NEW q \in Request, Routed(q), InChain(q)
  PROVE  /\ conn[q] \in Connection /\ conn[q].phase = "chain" /\ conn[q].at \in Nat
         /\ conn[q].route \in Route /\ conn[q].route \in DOMAIN chain
         /\ listening
         /\ conn[q].at > 0 /\ conn[q].at + 1 \in 1..Len(chain[conn[q].route]) + 1
         /\ Current(q).kind \in {"query", "body"} =>
              \E r \in Early :
                /\ Def[r].opts = Def[conn[q].route].opts
                /\ Current(q).type = Def[r].in /\ Current(q).kind = Source(r)
<1> DEFINE r == conn[q].route
           i == conn[q].at
<1>1. conn[q] \in Connection /\ conn[q].phase = "chain" /\ i \in Nat
  BY DEF InChain, TypeOK, Connection
<1>2. r \in DOMAIN chain /\ i \in DOMAIN chain[r] /\ listening
  BY DEF InChain, Routed
<1>3. r \in Route /\ chain[r] \in Seq(Handler)
  BY <1>2 DEF TypeOK
<1>4. i > 0 /\ i + 1 \in 1..Len(chain[r]) + 1
  BY <1>1, <1>2, <1>3
<1>5. \/ i = 1 /\ Current(q).kind = "use"
      \/ Def[r].opts # None /\ HeldBy(Def[r].opts, Current(q))
  BY <1>2 DEF ChainRight, Current
<1>6. Current(q).kind \in {"query", "body"} =>
        \E s \in Early :
          /\ Def[s].opts = Def[r].opts
          /\ Current(q).type = Def[s].in /\ Current(q).kind = Source(s)
  BY <1>5, EarlyRoutes DEF HeldBy
<1> QED BY <1>1, <1>2, <1>3, <1>4, <1>5, <1>6

\* A request at the action is past its route's handlers.
LEMMA ActionLemma ==
  ASSUME TypeOK, NEW q \in Request, Routed(q), AtAction(q)
  PROVE  /\ conn[q] \in Connection /\ conn[q].phase = "chain" /\ conn[q].at \in Nat
         /\ conn[q].route \in Route /\ conn[q].route \in DOMAIN chain
         /\ listening
         /\ chain[conn[q].route] \in Seq(Handler)
         /\ conn[q].at = Len(chain[conn[q].route]) + 1
         /\ conn[q].at \in 1..Len(chain[conn[q].route]) + 1
<1>1. conn[q] \in Connection /\ conn[q].phase = "chain" /\ conn[q].at \in Nat
  BY DEF AtAction, TypeOK, Connection
<1>2. /\ listening /\ conn[q].route \in DOMAIN chain
      /\ conn[q].at \in 1..Len(chain[conn[q].route]) + 1
      /\ conn[q].at = Len(chain[conn[q].route]) + 1
  BY <1>1 DEF AtAction, Routed
<1> QED BY <1>1, <1>2 DEF TypeOK

\* Passing a handler on with the same local, or leaving the chain, keeps what is
\* said of the request's place and of its local.
LEMMA PassedLemma ==
  ASSUME TypeOK, NEW q \in Request, RequestRight(q), StepOf(q), conn'[q] \in Connection,
         conn[q].phase # "idle",
         conn'[q].route = conn[q].route,
         \/ /\ conn'[q].at = conn[q].at
            /\ conn'[q].phase # "chain"
         \/ /\ conn[q].phase = "chain"
            /\ conn'[q].at = conn[q].at + 1
            /\ conn'[q].at \in 1..Len(chain[conn[q].route]) + 1
            /\ conn'[q].local = conn[q].local /\ conn'[q].fate = conn[q].fate
            /\ UNCHANGED heap
  PROVE  Routed(q)' /\ LocalRight(q)'
<1>1. /\ chain' = chain /\ listening' = listening
      /\ listening /\ conn[q].route \in DOMAIN chain
      /\ conn[q].at \in 1..Len(chain[conn[q].route]) + 1 /\ conn[q].at \in Nat
  BY DEF StepOf, RequestRight, Routed, TypeOK, Connection
<1>2. Routed(q)'
  BY <1>1 DEF Routed
<1>3. CASE conn'[q].phase # "chain"
  BY <1>2, <1>3 DEF LocalRight
<1>4. CASE conn'[q].phase = "chain"
  <2>1. /\ conn[q].phase = "chain"
        /\ conn'[q].at = conn[q].at + 1 /\ conn'[q].local = conn[q].local
        /\ conn'[q].fate = conn[q].fate /\ heap' = heap
    BY <1>4
  <2>2. \A pointer, source :
          Holds(heap, q, pointer, source, conn[q].at) =>
            Holds(heap, q, pointer, source, conn[q].at + 1)
    BY <1>1 DEF Holds, TypeOK, Cell
  <2>3. CASE conn[q].local = None
    BY <1>2, <2>1, <2>3 DEF LocalRight
  <2>4. CASE conn[q].local # None
    <3>1. PICK r \in Early :
            /\ Def[r].opts = Def[conn[q].route].opts
            /\ conn[q].local.type = Def[r].in
            /\ IF conn[q].local.cell = None THEN conn[q].fate = "refused"
               ELSE Holds(heap, q, conn[q].local, Source(r), conn[q].at)
      BY <2>1, <2>4 DEF RequestRight, LocalRight
    <3>2. IF conn'[q].local.cell = None THEN conn'[q].fate = "refused"
          ELSE Holds(heap', q, conn'[q].local, Source(r), conn'[q].at)
      BY <2>1, <2>2, <3>1
    <3>3. conn'[q].at > 1
      BY <1>1, <2>1
    <3> QED BY <1>2, <2>1, <3>1, <3>2, <3>3 DEF LocalRight
  <2> QED BY <2>3, <2>4
<1> QED BY <1>2, <1>3, <1>4

\* What each step of request q is to show.
StepRight(q) == TypeOK' /\ StepOf(q) /\ RequestRight(q)'

\* The request goes to `phase', and what has become of it is `fate'.
Goes(q, phase, fate) ==
  /\ conn'[q].phase = phase /\ conn'[q].fate = fate
  /\ conn'[q].route = conn[q].route
  /\ conn'[q].query = conn[q].query /\ conn'[q].body = conn[q].body

\* It goes on to the next handler with `local' in the locals.
GoesOn(q, local, fate) ==
  Goes(q, "chain", fate) /\ conn'[q].at = conn[q].at + 1 /\ conn'[q].local = local

-----------------------------------------------------------------------------
(* The fields of a request, and what the handlers make of them.           *)

\* A request field by field, with another answer, and with its function called.
FieldsOf(c) ==
  [ phase |-> c.phase, route |-> c.route, query |-> c.query, body |-> c.body,
    at |-> c.at, local |-> c.local, input |-> c.input, status |-> c.status,
    sent |-> c.sent, reported |-> c.reported, fate |-> c.fate ]

Answered(c, phase, fate, status, sent, reported) ==
  [ phase |-> phase, route |-> c.route, query |-> c.query, body |-> c.body,
    at |-> c.at, local |-> c.local, input |-> c.input, status |-> status,
    sent |-> sent, reported |-> reported, fate |-> fate ]

Called(c, input) ==
  [ phase |-> "fn", route |-> c.route, query |-> c.query, body |-> c.body,
    at |-> c.at, local |-> c.local, input |-> input, status |-> c.status,
    sent |-> c.sent, reported |-> c.reported, fate |-> c.fate ]

Updated(c, phase, fate, status, sent, reported) ==
  [c EXCEPT !.phase = phase, !.fate = fate, !.status = status,
            !.sent = sent, !.reported = reported]

\* What these fields may be.
Phases == {"idle", "chain", "fn", "done", "panic"}
Fates == {"open", "refused", "stopped", "succeeded", "failed"}
Statuses == {"ok", "badRequest", "unprocessable", "serverError", "own"}
Bodies == {"nothing", "refusal", "error", "output", "fiberError", "own"}

\* What has the fields of a request is these fields.
LEMMA FieldsLemma ==
  ASSUME NEW c \in Connection, NEW d,
         DOMAIN d = DOMAIN c, d = [x \in DOMAIN d |-> d[x]]
  PROVE  d = FieldsOf(d)
BY DEF Connection, FieldsOf

\* An update of the answer, and the update with which the function is called.
LEMMA AnswerForm ==
  ASSUME NEW c \in Connection,
         NEW phase, NEW fate, NEW status, NEW sent, NEW reported
  PROVE  Updated(c, phase, fate, status, sent, reported)
           = Answered(c, phase, fate, status, sent, reported)
<1> DEFINE d == Updated(c, phase, fate, status, sent, reported)
<1>1. DOMAIN d = DOMAIN c /\ d = [x \in DOMAIN d |-> d[x]]
  BY DEF Updated, Connection
<1>2. /\ d.phase = phase /\ d.fate = fate /\ d.status = status
      /\ d.sent = sent /\ d.reported = reported
      /\ d.route = c.route /\ d.at = c.at
      /\ d.local = c.local /\ d.input = c.input
      /\ d.query = c.query /\ d.body = c.body
  BY DEF Updated, Connection
<1> HIDE DEF d
<1>3. d = FieldsOf(d)
  BY <1>1, FieldsLemma
<1>4. d = Answered(c, phase, fate, status, sent, reported)
  BY <1>2, <1>3 DEF FieldsOf, Answered
<1> QED BY <1>4 DEF d

LEMMA CallForm ==
  ASSUME NEW c \in Connection, NEW input
  PROVE  [c EXCEPT !.phase = "fn", !.input = input] = Called(c, input)
<1> DEFINE d == [c EXCEPT !.phase = "fn", !.input = input]
<1>1. DOMAIN d = DOMAIN c /\ d = [x \in DOMAIN d |-> d[x]]
  BY DEF Connection
<1>2. /\ d.phase = "fn" /\ d.fate = c.fate /\ d.status = c.status
      /\ d.sent = c.sent /\ d.reported = c.reported
      /\ d.route = c.route /\ d.at = c.at
      /\ d.local = c.local /\ d.input = input
      /\ d.query = c.query /\ d.body = c.body
  BY DEF Connection
<1> HIDE DEF d
<1>3. d = FieldsOf(d)
  BY <1>1, FieldsLemma
<1>4. d = Called(c, input)
  BY <1>2, <1>3 DEF FieldsOf, Called
<1> QED BY <1>4 DEF d

\* An answer changes these fields, and nothing else.
LEMMA AnswerFields ==
  ASSUME NEW c \in Connection,
         NEW phase \in Phases, NEW fate \in Fates, NEW status \in Statuses,
         NEW sent \in Bodies, NEW reported \in Nat
  PROVE  LET answer == Answered(c, phase, fate, status, sent, reported)
         IN  /\ answer \in Connection
             /\ answer.phase = phase /\ answer.fate = fate
             /\ answer.status = status /\ answer.sent = sent
             /\ answer.reported = reported
             /\ answer.route = c.route /\ answer.at = c.at
             /\ answer.local = c.local /\ answer.input = c.input
             /\ answer.query = c.query /\ answer.body = c.body
<1> DEFINE answer == Answered(c, phase, fate, status, sent, reported)
<1>1. answer \in Connection
  BY DEF Answered, Connection, Phases, Fates, Statuses, Bodies
<1>2. /\ answer.phase = phase /\ answer.fate = fate
      /\ answer.status = status /\ answer.sent = sent
      /\ answer.reported = reported
      /\ answer.route = c.route /\ answer.at = c.at
      /\ answer.local = c.local /\ answer.input = c.input
      /\ answer.query = c.query /\ answer.body = c.body
  BY DEF Answered
<1> QED BY <1>1, <1>2

\* The call of the function changes the phase and the input, and nothing else.
LEMMA CallFields ==
  ASSUME NEW c \in Connection, NEW input \in Pointer \cup {None}
  PROVE  LET answer == Called(c, input)
         IN  /\ answer \in Connection
             /\ answer.phase = "fn" /\ answer.input = input
             /\ answer.fate = c.fate /\ answer.status = c.status
             /\ answer.sent = c.sent /\ answer.reported = c.reported
             /\ answer.route = c.route /\ answer.at = c.at
             /\ answer.query = c.query /\ answer.body = c.body
<1> DEFINE answer == Called(c, input)
<1>1. answer \in Connection
  BY DEF Called, Connection
<1>2. /\ answer.phase = "fn" /\ answer.input = input
      /\ answer.fate = c.fate /\ answer.status = c.status
      /\ answer.sent = c.sent /\ answer.reported = c.reported
      /\ answer.route = c.route /\ answer.at = c.at
      /\ answer.query = c.query /\ answer.body = c.body
  BY DEF Called
<1> QED BY <1>1, <1>2

\* The answers of the handlers as updates of these fields.
LEMMA QueryRefusalForm ==
  ASSUME NEW c \in Connection, NEW encoded
  PROVE  QueryRefusal(c, encoded) =
           Answered(c, c.phase, "refused", QueryStatus[c.query],
                    IF encoded THEN "refusal" ELSE c.sent,
                    IF encoded THEN c.reported ELSE c.reported + 1)
<1> DEFINE status == QueryStatus[c.query]
           sent == IF encoded THEN "refusal" ELSE c.sent
           reported == IF encoded THEN c.reported ELSE c.reported + 1
<1>1. QueryRefusal(c, encoded) = Updated(c, c.phase, "refused", status, sent, reported)
  BY DEF QueryRefusal, Updated, Connection
<1> HIDE DEF status, sent, reported
<1>2. QueryRefusal(c, encoded) = Answered(c, c.phase, "refused", status, sent, reported)
  BY <1>1, AnswerForm
<1> QED BY <1>2 DEF status, sent, reported

LEMMA StopForm ==
  ASSUME NEW c \in Connection
  PROVE  [c EXCEPT !.phase = "done", !.status = "own", !.sent = "own",
                   !.fate = "stopped"]
           = Answered(c, "done", "stopped", "own", "own", c.reported)
<1> DEFINE d == [c EXCEPT !.phase = "done", !.status = "own", !.sent = "own",
                          !.fate = "stopped"]
<1>1. d = Updated(c, "done", "stopped", "own", "own", c.reported)
  BY DEF Updated, Connection
<1> HIDE DEF d
<1>2. d = Answered(c, "done", "stopped", "own", "own", c.reported)
  BY <1>1, AnswerForm
<1> QED BY <1>2 DEF d

LEMMA BodyRefusalForm ==
  ASSUME NEW c \in Connection, NEW status, NEW sent
  PROVE  [c EXCEPT !.phase = "done", !.fate = "refused", !.status = status,
                   !.sent = sent]
           = Answered(c, "done", "refused", status, sent, c.reported)
<1> DEFINE d == [c EXCEPT !.phase = "done", !.fate = "refused", !.status = status,
                          !.sent = sent]
<1>1. d = Updated(c, "done", "refused", status, sent, c.reported)
  BY DEF Updated, Connection
<1> HIDE DEF d
<1>2. d = Answered(c, "done", "refused", status, sent, c.reported)
  BY <1>1, AnswerForm
<1> QED BY <1>2 DEF d

LEMMA FailureForm ==
  ASSUME NEW c \in Connection, NEW status, NEW encoded
  PROVE  [c EXCEPT !.phase = "done", !.fate = "failed", !.status = status,
                   !.sent = IF encoded THEN "error" ELSE @,
                   !.reported = IF encoded THEN @ + 1 ELSE @ + 2]
           = Answered(c, "done", "failed", status,
                      IF encoded THEN "error" ELSE c.sent,
                      IF encoded THEN c.reported + 1 ELSE c.reported + 2)
<1> DEFINE sent == IF encoded THEN "error" ELSE c.sent
           reported == IF encoded THEN c.reported + 1 ELSE c.reported + 2
           d == [c EXCEPT !.phase = "done", !.fate = "failed", !.status = status,
                          !.sent = IF encoded THEN "error" ELSE @,
                          !.reported = IF encoded THEN @ + 1 ELSE @ + 2]
<1>1. d = Updated(c, "done", "failed", status, sent, reported)
  BY DEF Updated, Connection
<1> HIDE DEF sent, reported, d
<1>2. d = Answered(c, "done", "failed", status, sent, reported)
  BY <1>1, AnswerForm
<1> QED BY <1>2 DEF sent, reported, d

LEMMA SuccessForm ==
  ASSUME NEW c \in Connection, NEW out, NEW encoded
  PROVE  [c EXCEPT !.phase = "done", !.fate = "succeeded",
                   !.sent = IF out /\ encoded THEN "output" ELSE @,
                   !.reported = IF encoded THEN @ ELSE @ + 1]
           = Answered(c, "done", "succeeded", c.status,
                      IF out /\ encoded THEN "output" ELSE c.sent,
                      IF encoded THEN c.reported ELSE c.reported + 1)
<1> DEFINE sent == IF out /\ encoded THEN "output" ELSE c.sent
           reported == IF encoded THEN c.reported ELSE c.reported + 1
           d == [c EXCEPT !.phase = "done", !.fate = "succeeded",
                          !.sent = IF out /\ encoded THEN "output" ELSE @,
                          !.reported = IF encoded THEN @ ELSE @ + 1]
<1>1. d = Updated(c, "done", "succeeded", c.status, sent, reported)
  BY DEF Updated, Connection
<1> HIDE DEF sent, reported, d
<1>2. d = Answered(c, "done", "succeeded", c.status, sent, reported)
  BY <1>1, AnswerForm
<1> QED BY <1>2 DEF sent, reported, d

LEMMA RefuseBodyLemma ==
  ASSUME NEW q \in Request, conn[q] \in Connection, RefuseBody(q)
  PROVE  \E status \in {"unprocessable", "serverError"},
            sent \in {"refusal", "fiberError"} :
           Answers(q, Answered(conn[q], "done", "refused", status, sent,
                               conn[q].reported))
<1>1. PICK encoded \in BOOLEAN :
        Answers(q, [conn[q] EXCEPT
                      !.phase = "done", !.fate = "refused",
                      !.status = IF encoded THEN "unprocessable" ELSE "serverError",
                      !.sent = IF encoded THEN "refusal" ELSE "fiberError"])
  BY DEF RefuseBody
<1> DEFINE status == IF encoded THEN "unprocessable" ELSE "serverError"
           sent == IF encoded THEN "refusal" ELSE "fiberError"
<1>2. status \in {"unprocessable", "serverError"} /\ sent \in {"refusal", "fiberError"}
  OBVIOUS
<1>3. Answers(q, [conn[q] EXCEPT !.phase = "done", !.fate = "refused",
                                 !.status = status, !.sent = sent])
  BY <1>1
<1> HIDE DEF status, sent
<1>4. Answers(q, Answered(conn[q], "done", "refused", status, sent, conn[q].reported))
  BY <1>3, BodyRefusalForm
<1> QED BY <1>2, <1>4

LEMMA CallFnForm ==
  ASSUME NEW q \in Request, conn[q] \in Connection, NEW input, CallFn(q, input)
  PROVE  Answers(q, Called(conn[q], input))
BY CallForm DEF CallFn

-----------------------------------------------------------------------------
(* The middleware and the decoders of the chain.                           *)

\* A panic ends the request's goroutine.
LEMMA PanicsRight ==
  ASSUME Sound, NEW q \in Request, conn[q].phase = "chain", Panics(q)
  PROVE  StepRight(q) /\ Goes(q, "panic", conn[q].fate)
<1> DEFINE answer == [conn[q] EXCEPT !.phase = "panic"]
<1>1. TypeOK /\ RequestRight(q) /\ conn[q] \in Connection
  BY DEF Sound, TypeOK
<1>2. answer \in Connection
  BY <1>1 DEF Connection
<1>3. TypeOK' /\ StepOf(q) /\ conn'[q] = answer
  BY <1>1, <1>2, AnswersStep DEF Panics
<1>4. Routed(q)' /\ LocalRight(q)'
  BY <1>1, <1>2, <1>3, PassedLemma DEF Connection
<1>5. AnswerRight(q)'
  BY <1>1, <1>3 DEF RequestRight, AnswerRight, Told, Waiting, Connection
<1>6. Goes(q, "panic", conn[q].fate)
  BY <1>1, <1>3 DEF Goes, Connection
<1> QED BY <1>3, <1>4, <1>5, <1>6 DEF StepRight, RequestRight

\* A middleware goes on, or answers in the place of the function.
LEMMA RunMiddlewareRight ==
  ASSUME Sound, NEW q \in Request, RunMiddleware(q)
  PROVE  /\ StepRight(q)
         /\ \/ GoesOn(q, conn[q].local, conn[q].fate)
            \/ Goes(q, "done", "stopped")
<1>1. TypeOK /\ ChainRight /\ RequestRight(q) /\ InChain(q) /\ UNCHANGED heap
  BY DEF Sound, RunMiddleware
<1>2. /\ conn[q] \in Connection /\ conn[q].phase = "chain" /\ conn[q].at \in Nat
      /\ conn[q].at + 1 \in 1..Len(chain[conn[q].route]) + 1
  BY <1>1, CurrentLemma DEF RequestRight
<1>3. ASSUME Answers(q, [conn[q] EXCEPT !.at = @ + 1])
      PROVE  StepRight(q) /\ GoesOn(q, conn[q].local, conn[q].fate)
  <2> DEFINE answer == [conn[q] EXCEPT !.at = @ + 1]
  <2>1. answer \in Connection
    BY <1>2 DEF Connection
  <2>2. TypeOK' /\ StepOf(q) /\ conn'[q] = answer
    BY <1>1, <1>3, <2>1, AnswersStep
  <2>3. Routed(q)' /\ LocalRight(q)'
    BY <1>1, <1>2, <2>1, <2>2, PassedLemma DEF Connection
  <2>4. AnswerRight(q)'
    BY <1>1, <1>2, <2>2 DEF RequestRight, AnswerRight, Told, Waiting, Connection
  <2>5. GoesOn(q, conn[q].local, conn[q].fate)
    BY <1>2, <2>2 DEF GoesOn, Goes, Connection
  <2> QED BY <2>2, <2>3, <2>4, <2>5 DEF StepRight, RequestRight
<1>4. ASSUME Answers(q, [conn[q] EXCEPT !.phase = "done", !.status = "own",
                                        !.sent = "own", !.fate = "stopped"])
      PROVE  StepRight(q) /\ Goes(q, "done", "stopped")
  <2> DEFINE answer == Answered(conn[q], "done", "stopped", "own", "own",
                                conn[q].reported)
  <2>1. /\ conn[q].reported \in Nat
        /\ "done" \in Phases /\ "stopped" \in Fates
        /\ "own" \in Statuses /\ "own" \in Bodies
    BY <1>2 DEF Connection, Phases, Fates, Statuses, Bodies
  <2>2. /\ answer \in Connection /\ answer.phase = "done" /\ answer.fate = "stopped"
        /\ answer.status = "own" /\ answer.sent = "own"
        /\ answer.route = conn[q].route /\ answer.at = conn[q].at
        /\ answer.query = conn[q].query /\ answer.body = conn[q].body
    BY <1>2, <2>1, AnswerFields
  <2>3. Answers(q, answer)
    BY <1>2, <1>4, StopForm
  <2> HIDE DEF answer
  <2>4. TypeOK' /\ StepOf(q) /\ conn'[q] = answer
    BY <1>1, <2>2, <2>3, AnswersStep
  <2>5. Routed(q)' /\ LocalRight(q)'
    BY <1>1, <1>2, <2>2, <2>4, PassedLemma
  <2>6. AnswerRight(q)'
    BY <2>2, <2>4 DEF AnswerRight, Told, Waiting
  <2>7. Goes(q, "done", "stopped")
    BY <2>2, <2>4 DEF Goes
  <2> QED BY <2>4, <2>5, <2>6, <2>7 DEF StepRight, RequestRight
<1> QED BY <1>3, <1>4 DEF RunMiddleware

\* A step that stores an input at the present position is one of q's too.
LEMMA StoredStep ==
  ASSUME TypeOK, NEW q \in Request, NEW type \in Type,
         NEW source \in {"query", "body"}, NEW quality \in Quality,
         Stored(q, NewInput(q, type), source, quality),
         NEW answer \in Connection, Answers(q, answer)
  PROVE  TypeOK' /\ StepOf(q) /\ conn'[q] = answer
<1>1. /\ conn' \in [Request -> Connection] /\ conn'[q] = answer
      /\ \A p \in Request : p # q => conn'[p] = conn[p]
      /\ UNCHANGED <<uses, chain, listening>>
  BY AnswersLemma
<1>2. /\ DOMAIN heap' \subseteq Cell
      /\ \A c \in DOMAIN heap' : heap'[c] \in Input
      /\ \A c \in DOMAIN heap : c[1] # q => c \in DOMAIN heap' /\ heap'[c] = heap[c]
  BY StoredLemma
<1>3. StepOf(q)
  BY <1>1, <1>2 DEF StepOf, Untouched
<1> QED BY <1>1, <1>2, <1>3 DEF TypeOK

\* The answer to a refused query: without a body OnHandleError is told.
LEMMA QueryRefusalLemma ==
  ASSUME NEW q \in Request, conn[q] \in Connection, QueryRefused(q), NEW encoded \in BOOLEAN
  PROVE  LET c == QueryRefusal(conn[q], encoded)
         IN  /\ c \in Connection /\ Told(c) /\ c.fate = "refused"
             /\ c.status \in {"badRequest", "unprocessable"}
             /\ c.phase = conn[q].phase /\ c.route = conn[q].route /\ c.at = conn[q].at
             /\ c.local = conn[q].local /\ c.input = conn[q].input
             /\ c.query = conn[q].query /\ c.body = conn[q].body
<1> DEFINE c == QueryRefusal(conn[q], encoded)
           status == QueryStatus[conn[q].query]
<1>1. conn[q].query \in {"bad", "invalid"}
  BY DEF QueryRefused
<1>2. status \in {"badRequest", "unprocessable"}
  BY <1>1 DEF QueryStatus
<1>3. conn[q].reported \in Nat
  BY DEF Connection
<1> DEFINE sent == IF encoded THEN "refusal" ELSE conn[q].sent
           reported == IF encoded THEN conn[q].reported ELSE conn[q].reported + 1
<1>4. reported \in Nat
  BY <1>3
<1>5. sent \in Bodies
  BY DEF Connection, Bodies
<1>6. /\ conn[q].phase \in Phases /\ "refused" \in Fates
      /\ {"badRequest", "unprocessable"} \subseteq Statuses
  BY DEF Connection, Phases, Fates, Statuses
<1>7. c = Answered(conn[q], conn[q].phase, "refused", status, sent, reported)
  BY QueryRefusalForm
<1>8. sent # "nothing" \/ reported > 0
  BY <1>3
<1> HIDE DEF c, status, sent, reported
<1>9. /\ c \in Connection /\ c.fate = "refused" /\ c.status = status
      /\ c.sent = sent /\ c.reported = reported
      /\ c.phase = conn[q].phase /\ c.route = conn[q].route /\ c.at = conn[q].at
      /\ c.local = conn[q].local /\ c.input = conn[q].input
      /\ c.query = conn[q].query /\ c.body = conn[q].body
  BY <1>2, <1>4, <1>5, <1>6, <1>7, AnswerFields
<1>10. Told(c)
  BY <1>8, <1>9 DEF Told
<1> QED BY <1>2, <1>9, <1>10 DEF c

\* ctx.Locals and ctx.Next change the local and the place, and nothing else.
LEMMA PassOnLemma ==
  ASSUME NEW c \in Connection, NEW input \in Pointer
  PROVE  LET answer == [c EXCEPT !.local = input, !.at = @ + 1]
         IN  /\ answer \in Connection
             /\ answer.local = input /\ answer.at = c.at + 1
             /\ answer.phase = c.phase /\ answer.route = c.route
             /\ answer.query = c.query /\ answer.body = c.body
             /\ answer.status = c.status /\ answer.fate = c.fate
             /\ answer.sent = c.sent /\ answer.reported = c.reported
             /\ Told(answer) <=> Told(c)
<1> DEFINE answer == [c EXCEPT !.local = input, !.at = @ + 1]
<1>1. answer = [c EXCEPT !.local = input, !.at = c.at + 1]
  BY DEF Connection
<1>2. c.at + 1 \in Nat
  BY DEF Connection
<1>3. \A at \in Nat : [c EXCEPT !.local = input, !.at = at] \in Connection
  BY DEF Connection
<1> QED BY <1>1, <1>2, <1>3 DEF Connection, Told

\* An early decoder panics, puts a nil input in the locals and has refused, or
\* puts an input there that it accepted.
LEMMA DecodeQueryEarlyRight ==
  ASSUME Sound, NEW q \in Request, DecodeQueryEarly(q)
  PROVE  /\ StepRight(q)
         /\ \/ Goes(q, "panic", conn[q].fate) /\ QueryPanics(q)
            \/ /\ QueryRefused(q)
               /\ \E nil \in Pointer :
                    /\ GoesOn(q, nil, "refused")
                    /\ nil.type = Current(q).type /\ nil.cell = None
            \/ /\ QueryAccepted(q)
               /\ \E input \in Pointer :
                    /\ GoesOn(q, input, conn[q].fate)
                    /\ input.type = Current(q).type
<1> DEFINE type == Current(q).type
           input == NewInput(q, type)
<1>1. TypeOK /\ ChainRight /\ RequestRight(q) /\ InChain(q) /\ Current(q).kind = "query"
  BY DEF Sound, DecodeQueryEarly
<1>2. /\ conn[q] \in Connection /\ conn[q].phase = "chain" /\ conn[q].at \in Nat
      /\ conn[q].at > 0
      /\ conn[q].at + 1 \in 1..Len(chain[conn[q].route]) + 1
      /\ conn[q].route \in DOMAIN chain /\ listening
  BY <1>1, CurrentLemma DEF RequestRight
<1>3. PICK r \in Early :
        /\ Def[r].opts = Def[conn[q].route].opts
        /\ type = Def[r].in /\ Source(r) = "query"
  BY <1>1, CurrentLemma DEF RequestRight
<1>4. type \in Type
  BY <1>3, EarlyRoutes
<1>5. CASE QueryPanics(q) /\ Panics(q)
  BY <1>2, <1>5, PanicsRight
<1>6. ASSUME QueryRefused(q), NEW encoded \in BOOLEAN, UNCHANGED heap,
             PassOn(q, QueryRefusal(conn[q], encoded), [type |-> type, cell |-> None])
      PROVE  /\ StepRight(q)
             /\ \E nil \in Pointer : /\ GoesOn(q, nil, "refused")
                                    /\ nil.type = type /\ nil.cell = None
  <2> DEFINE c == QueryRefusal(conn[q], encoded)
             nil == [type |-> type, cell |-> None]
             answer == [c EXCEPT !.local = nil, !.at = @ + 1]
  <2>1. /\ c \in Connection /\ Told(c) /\ c.fate = "refused"
        /\ c.status \in {"badRequest", "unprocessable"}
        /\ c.phase = "chain" /\ c.route = conn[q].route /\ c.at = conn[q].at
        /\ c.query = conn[q].query /\ c.body = conn[q].body
    BY <1>2, <1>6, QueryRefusalLemma
  <2> HIDE DEF c
  <2>2. nil \in Pointer /\ nil.type = type /\ nil.cell = None
    BY <1>4 DEF Pointer
  <2> HIDE DEF nil
  <2>3. /\ answer \in Connection /\ Told(answer) /\ answer.fate = "refused"
        /\ answer.status \in {"badRequest", "unprocessable"}
        /\ answer.phase = "chain" /\ answer.route = conn[q].route
        /\ answer.at = conn[q].at + 1 /\ answer.local = nil
        /\ answer.query = conn[q].query /\ answer.body = conn[q].body
    <3>1. c \in Connection /\ nil \in Pointer
      BY <2>1, <2>2
    <3>2. /\ answer \in Connection
          /\ answer.local = nil /\ answer.at = c.at + 1
          /\ answer.phase = c.phase /\ answer.route = c.route
          /\ answer.query = c.query /\ answer.body = c.body
          /\ answer.status = c.status /\ answer.fate = c.fate
          /\ Told(answer) <=> Told(c)
      BY <3>1, PassOnLemma
    <3> HIDE DEF answer
    <3> QED BY <2>1, <3>2
  <2>4. Answers(q, answer)
    BY <1>6 DEF PassOn, c, nil
  <2> HIDE DEF answer
  <2>5. TypeOK' /\ StepOf(q) /\ conn'[q] = answer
    BY <1>1, <1>6, <2>3, <2>4, AnswersStep
  <2>6. Routed(q)'
    BY <1>2, <2>3, <2>5 DEF Routed, StepOf
  <2>7. LocalRight(q)'
    <3>1. conn'[q].at > 1
      BY <1>2, <2>3, <2>5
    <3> QED BY <1>3, <2>2, <2>3, <2>5, <3>1 DEF LocalRight
  <2>8. AnswerRight(q)'
    BY <2>3, <2>5 DEF AnswerRight, Waiting
  <2>9. GoesOn(q, nil, "refused")
    BY <2>3, <2>5 DEF GoesOn, Goes
  <2> QED BY <2>2, <2>5, <2>6, <2>7, <2>8, <2>9 DEF StepRight, RequestRight
<1>7. ASSUME QueryAccepted(q), Stored(q, input, "query", conn[q].query),
             PassOn(q, conn[q], input)
      PROVE  /\ StepRight(q)
             /\ input \in Pointer /\ input.type = type
             /\ GoesOn(q, input, conn[q].fate)
  <2> DEFINE answer == [conn[q] EXCEPT !.local = input, !.at = @ + 1]
  <2>1. input \in Pointer /\ input.type = type
    BY <1>1, <1>2, <1>4 DEF NewInput, NewCell, Pointer, Cell
  <2>2. input.cell # None
    BY <1>2, NoneAssumption DEF NewInput, NewCell, Cell
  <2>3. conn[q].query \in Quality /\ conn[q].query \in Bindable
    BY <1>2, <1>7 DEF Connection, QueryAccepted, Bindable
  <2>4. Holds(heap', q, input, "query", conn[q].at + 1)
    BY <1>1, <1>4, <1>7, <2>3, StoredLemma
  <2> HIDE DEF input
  <2>5. /\ answer \in Connection
        /\ answer.phase = "chain" /\ answer.route = conn[q].route
        /\ answer.at = conn[q].at + 1 /\ answer.local = input
        /\ answer.query = conn[q].query /\ answer.body = conn[q].body
        /\ answer.fate = conn[q].fate /\ answer.status = conn[q].status
        /\ Told(answer) <=> Told(conn[q])
    <3>1. conn[q] \in Connection /\ input \in Pointer
      BY <1>2, <2>1
    <3>2. /\ answer \in Connection
          /\ answer.local = input /\ answer.at = conn[q].at + 1
          /\ answer.phase = conn[q].phase /\ answer.route = conn[q].route
          /\ answer.query = conn[q].query /\ answer.body = conn[q].body
          /\ answer.status = conn[q].status /\ answer.fate = conn[q].fate
          /\ Told(answer) <=> Told(conn[q])
      BY <3>1, PassOnLemma
    <3> HIDE DEF answer
    <3> QED BY <1>2, <3>2
  <2> HIDE DEF answer
  <2>6. TypeOK' /\ StepOf(q) /\ conn'[q] = answer
    BY <1>1, <1>4, <1>7, <2>3, <2>5, StoredStep DEF PassOn, input, answer
  <2>7. conn'[q].at > 1
    BY <1>2, <2>5, <2>6
  <2>8. Routed(q)'
    BY <1>2, <2>5, <2>6 DEF Routed, StepOf
  <2>9. LocalRight(q)'
    BY <1>3, <2>1, <2>2, <2>4, <2>5, <2>6, <2>7 DEF LocalRight
  <2>10. AnswerRight(q)'
    BY <1>1, <1>2, <2>5, <2>6 DEF RequestRight, AnswerRight, Waiting
  <2>11. GoesOn(q, input, conn[q].fate)
    BY <2>5, <2>6 DEF GoesOn, Goes
  <2> QED BY <2>1, <2>6, <2>8, <2>9, <2>10, <2>11 DEF StepRight, RequestRight
<1> QED BY <1>5, <1>6, <1>7 DEF DecodeQueryEarly

\* A refused body is answered at once; without an answer Fiber answers.
LEMMA RefuseBodyRight ==
  ASSUME Sound, NEW q \in Request, conn[q].phase = "chain", RefuseBody(q)
  PROVE  /\ StepRight(q)
         /\ Goes(q, "done", "refused") /\ conn[q].body \notin Bindable
<1>1. TypeOK /\ RequestRight(q) /\ UNCHANGED heap /\ conn[q] \in Connection
      /\ conn[q].body \notin Bindable
  BY DEF Sound, RefuseBody, TypeOK
<1>2. PICK status \in {"unprocessable", "serverError"},
            sent \in {"refusal", "fiberError"} :
        Answers(q, Answered(conn[q], "done", "refused", status, sent,
                            conn[q].reported))
  BY <1>1, RefuseBodyLemma
<1> DEFINE answer == Answered(conn[q], "done", "refused", status, sent,
                              conn[q].reported)
<1>3. /\ answer \in Connection
      /\ answer.phase = "done" /\ answer.fate = "refused"
      /\ answer.status \in {"unprocessable", "serverError"} /\ Told(answer)
      /\ answer.query = conn[q].query /\ answer.body = conn[q].body
      /\ answer.route = conn[q].route /\ answer.at = conn[q].at
  <2>1. conn[q].reported \in Nat
    BY <1>1 DEF Connection
  <2>2. /\ "done" \in Phases /\ "refused" \in Fates
        /\ status \in Statuses /\ sent \in Bodies
    BY DEF Phases, Fates, Statuses, Bodies
  <2>3. /\ answer \in Connection
        /\ answer.phase = "done" /\ answer.fate = "refused"
        /\ answer.status = status /\ answer.sent = sent
        /\ answer.query = conn[q].query /\ answer.body = conn[q].body
        /\ answer.route = conn[q].route /\ answer.at = conn[q].at
    BY <1>1, <2>1, <2>2, AnswerFields
  <2> HIDE DEF answer
  <2> QED BY <2>3 DEF Told
<1> HIDE DEF answer
<1>4. TypeOK' /\ StepOf(q) /\ conn'[q] = answer
  BY <1>1, <1>2, <1>3, AnswersStep DEF answer
<1>5. Routed(q)' /\ LocalRight(q)'
  BY <1>1, <1>3, <1>4, PassedLemma
<1>6. AnswerRight(q)'
  BY <1>3, <1>4 DEF AnswerRight, Waiting
<1>7. Goes(q, "done", "refused")
  BY <1>3, <1>4 DEF Goes
<1> QED BY <1>1, <1>4, <1>5, <1>6, <1>7 DEF StepRight, RequestRight

\* An early decoder of a body refuses it or puts an input that it accepted in
\* the locals.
LEMMA DecodeBodyEarlyRight ==
  ASSUME Sound, NEW q \in Request, DecodeBodyEarly(q)
  PROVE  /\ StepRight(q)
         /\ \/ Goes(q, "done", "refused") /\ conn[q].body \notin Bindable
            \/ /\ conn[q].body \in Bindable
               /\ \E input \in Pointer :
                    /\ GoesOn(q, input, conn[q].fate)
                    /\ input.type = Current(q).type
<1> DEFINE type == Current(q).type
           input == NewInput(q, type)
<1>1. TypeOK /\ ChainRight /\ RequestRight(q) /\ InChain(q) /\ Current(q).kind = "body"
  BY DEF Sound, DecodeBodyEarly
<1>2. /\ conn[q] \in Connection /\ conn[q].phase = "chain" /\ conn[q].at \in Nat
      /\ conn[q].at > 0
      /\ conn[q].at + 1 \in 1..Len(chain[conn[q].route]) + 1
      /\ conn[q].route \in DOMAIN chain /\ listening
  BY <1>1, CurrentLemma DEF RequestRight
<1>3. PICK r \in Early :
        /\ Def[r].opts = Def[conn[q].route].opts
        /\ type = Def[r].in /\ Source(r) = "body"
  BY <1>1, CurrentLemma DEF RequestRight
<1>4. type \in Type
  BY <1>3, EarlyRoutes
<1>5. CASE RefuseBody(q)
  BY <1>2, <1>5, RefuseBodyRight
<1>6. ASSUME conn[q].body \in Bindable, Stored(q, input, "body", conn[q].body),
             PassOn(q, conn[q], input)
      PROVE  /\ StepRight(q)
             /\ input \in Pointer /\ input.type = type
             /\ GoesOn(q, input, conn[q].fate)
  <2> DEFINE answer == [conn[q] EXCEPT !.local = input, !.at = @ + 1]
  <2>1. input \in Pointer /\ input.type = type
    BY <1>1, <1>2, <1>4 DEF NewInput, NewCell, Pointer, Cell
  <2>2. input.cell # None
    BY <1>2, NoneAssumption DEF NewInput, NewCell, Cell
  <2>3. conn[q].body \in Quality
    BY <1>2 DEF Connection
  <2>4. Holds(heap', q, input, "body", conn[q].at + 1)
    BY <1>1, <1>4, <1>6, <2>3, StoredLemma
  <2> HIDE DEF input
  <2>5. /\ answer \in Connection
        /\ answer.phase = "chain" /\ answer.route = conn[q].route
        /\ answer.at = conn[q].at + 1 /\ answer.local = input
        /\ answer.query = conn[q].query /\ answer.body = conn[q].body
        /\ answer.fate = conn[q].fate /\ answer.status = conn[q].status
        /\ Told(answer) <=> Told(conn[q])
    <3>1. conn[q] \in Connection /\ input \in Pointer
      BY <1>2, <2>1
    <3>2. /\ answer \in Connection
          /\ answer.local = input /\ answer.at = conn[q].at + 1
          /\ answer.phase = conn[q].phase /\ answer.route = conn[q].route
          /\ answer.query = conn[q].query /\ answer.body = conn[q].body
          /\ answer.status = conn[q].status /\ answer.fate = conn[q].fate
          /\ Told(answer) <=> Told(conn[q])
      BY <3>1, PassOnLemma
    <3> HIDE DEF answer
    <3> QED BY <1>2, <3>2
  <2> HIDE DEF answer
  <2>6. TypeOK' /\ StepOf(q) /\ conn'[q] = answer
    BY <1>1, <1>4, <1>6, <2>3, <2>5, StoredStep DEF PassOn, input, answer
  <2>7. conn'[q].at > 1
    BY <1>2, <2>5, <2>6
  <2>8. Routed(q)'
    BY <1>2, <2>5, <2>6 DEF Routed, StepOf
  <2>9. LocalRight(q)'
    BY <1>3, <2>1, <2>2, <2>4, <2>5, <2>6, <2>7 DEF LocalRight
  <2>10. AnswerRight(q)'
    BY <1>1, <1>2, <2>5, <2>6 DEF RequestRight, AnswerRight, Waiting
  <2>11. GoesOn(q, input, conn[q].fate)
    BY <2>5, <2>6 DEF GoesOn, Goes
  <2> QED BY <2>1, <2>6, <2>8, <2>9, <2>10, <2>11 DEF StepRight, RequestRight
<1> QED BY <1>5, <1>6 DEF DecodeBodyEarly

-----------------------------------------------------------------------------
(* The action and the function.                                            *)

\* The request that the function is called for is left otherwise as it was.
LEMMA CalledRight ==
  ASSUME Sound, NEW q \in Request, conn[q].phase = "chain",
         NEW input \in Pointer \cup {None},
         TypeOK', StepOf(q),
         conn'[q] = Called(conn[q], input)
  PROVE  /\ StepRight(q) /\ Goes(q, "fn", conn[q].fate)
         /\ conn'[q].input = input /\ conn'[q].at = conn[q].at
<1> DEFINE answer == Called(conn[q], input)
<1>1. TypeOK /\ RequestRight(q) /\ conn[q] \in Connection
  BY DEF Sound, TypeOK
<1>2. /\ answer \in Connection
      /\ answer.phase = "fn" /\ answer.fate = conn[q].fate
      /\ answer.status = conn[q].status /\ (Told(answer) <=> Told(conn[q]))
      /\ answer.route = conn[q].route /\ answer.at = conn[q].at
      /\ answer.input = input
      /\ answer.query = conn[q].query /\ answer.body = conn[q].body
  BY <1>1, CallFields DEF Told
<1>3. conn'[q] = answer
  OBVIOUS
<1> HIDE DEF answer
<1>4. Routed(q)' /\ LocalRight(q)'
  BY <1>1, <1>2, <1>3, PassedLemma
<1>5. AnswerRight(q)'
  BY <1>1, <1>2, <1>3 DEF AnswerRight, Waiting, RequestRight
<1>6. Goes(q, "fn", conn[q].fate)
  BY <1>2, <1>3 DEF Goes
<1> QED BY <1>2, <1>3, <1>4, <1>5, <1>6 DEF StepRight, RequestRight

\* CallFn as a step that leaves the memory alone.
LEMMA CallFnLemma ==
  ASSUME Sound, NEW q \in Request, conn[q].phase = "chain",
         NEW input \in Pointer \cup {None}, CallFn(q, input), UNCHANGED heap
  PROVE  /\ StepRight(q) /\ Goes(q, "fn", conn[q].fate)
         /\ conn'[q].input = input /\ conn'[q].at = conn[q].at
<1>1. TypeOK /\ conn[q] \in Connection
  BY DEF Sound, TypeOK
<1>2. Called(conn[q], input) \in Connection
  BY <1>1, CallFields
<1>3. TypeOK' /\ StepOf(q) /\ conn'[q] = Called(conn[q], input)
  BY <1>1, <1>2, CallFnForm, AnswersStep
<1> QED BY <1>3, CalledRight

\* CallFn with an input that was stored just before.
LEMMA CallFnStoredLemma ==
  ASSUME Sound, NEW q \in Request, conn[q].phase = "chain", NEW type \in Type,
         NEW source \in {"query", "body"}, NEW quality \in Bindable,
         Stored(q, NewInput(q, type), source, quality), CallFn(q, NewInput(q, type))
  PROVE  /\ StepRight(q) /\ Goes(q, "fn", conn[q].fate)
         /\ conn'[q].input = NewInput(q, type) /\ conn'[q].at = conn[q].at
         /\ NewInput(q, type) \in Pointer
         /\ Holds(heap', q, NewInput(q, type), source, conn[q].at + 1)
<1> DEFINE input == NewInput(q, type)
<1>1. TypeOK /\ conn[q] \in Connection /\ quality \in Quality
  BY DEF Sound, TypeOK, Bindable, Quality
<1>2. input \in Pointer /\ Holds(heap', q, input, source, conn[q].at + 1)
  BY <1>1, StoredLemma
<1> HIDE DEF input
<1>3. Called(conn[q], input) \in Connection
  BY <1>1, <1>2, CallFields
<1>4. TypeOK' /\ StepOf(q) /\ conn'[q] = Called(conn[q], input)
  BY <1>1, <1>3, CallFnForm, StoredStep DEF input
<1>5. /\ StepRight(q) /\ Goes(q, "fn", conn[q].fate)
      /\ conn'[q].input = input /\ conn'[q].at = conn[q].at
  BY <1>2, <1>4, CalledRight
<1> QED BY <1>2, <1>5 DEF input

LocalFits(q) ==
  conn[q].local # None /\ conn[q].local.type = Def[conn[q].route].in

\* The action of a route without an input calls the function.
LEMMA CallWithoutInputRight ==
  ASSUME Sound, NEW q \in Request, CallWithoutInput(q)
  PROVE  /\ StepRight(q) /\ Goes(q, "fn", conn[q].fate)
         /\ ~TakesInput(conn[q].route)
BY CallFnLemma DEF CallWithoutInput, AtAction

\* The action of a route with UseWithInput panics without the right local,
\* answers nothing more when it is nil and otherwise calls the function with it.
LEMMA CallWithLocalRight ==
  ASSUME Sound, NEW q \in Request, CallWithLocal(q)
  PROVE  /\ StepRight(q) /\ WithInput(conn[q].route)
         /\ \/ Goes(q, "panic", conn[q].fate) /\ ~LocalFits(q)
            \/ /\ Goes(q, "done", conn[q].fate) /\ LocalFits(q)
               /\ conn[q].local.cell = None
            \/ /\ Goes(q, "fn", conn[q].fate) /\ LocalFits(q)
               /\ conn[q].local.cell # None /\ conn[q].local \in Pointer
               /\ conn'[q].input = conn[q].local /\ conn'[q].at = conn[q].at
               /\ UNCHANGED heap
<1>1. /\ TypeOK /\ RequestRight(q) /\ conn[q] \in Connection
      /\ AtAction(q) /\ conn[q].phase = "chain" /\ WithInput(conn[q].route)
  BY DEF Sound, TypeOK, CallWithLocal, AtAction
<1>2. CASE ~LocalFits(q) /\ Panics(q)
  BY <1>1, <1>2, PanicsRight
<1>3. ASSUME LocalFits(q), conn[q].local.cell = None, UNCHANGED heap,
             Answers(q, [conn[q] EXCEPT !.phase = "done"])
      PROVE  StepRight(q) /\ Goes(q, "done", conn[q].fate)
  <2> DEFINE answer == [conn[q] EXCEPT !.phase = "done"]
  <2>1. /\ answer \in Connection
        /\ answer.phase = "done" /\ answer.fate = conn[q].fate
        /\ answer.status = conn[q].status /\ (Told(answer) <=> Told(conn[q]))
        /\ answer.route = conn[q].route /\ answer.at = conn[q].at
        /\ answer.query = conn[q].query /\ answer.body = conn[q].body
    BY <1>1 DEF Connection, Told
  <2> HIDE DEF answer
  <2>2. TypeOK' /\ StepOf(q) /\ conn'[q] = answer
    BY <1>1, <1>3, <2>1, AnswersStep DEF answer
  <2>3. Routed(q)' /\ LocalRight(q)'
    BY <1>1, <2>1, <2>2, PassedLemma
  <2>4. conn[q].fate = "refused"
    BY <1>1, <1>3 DEF RequestRight, LocalRight, LocalFits
  <2>5. AnswerRight(q)'
    BY <1>1, <2>1, <2>2, <2>4 DEF RequestRight, AnswerRight, Waiting
  <2>6. Goes(q, "done", conn[q].fate)
    BY <2>1, <2>2 DEF Goes
  <2> QED BY <2>2, <2>3, <2>5, <2>6 DEF StepRight, RequestRight
<1>4. ASSUME LocalFits(q), conn[q].local.cell # None, UNCHANGED heap,
             CallFn(q, conn[q].local)
      PROVE  /\ StepRight(q) /\ Goes(q, "fn", conn[q].fate)
             /\ conn[q].local \in Pointer
             /\ conn'[q].input = conn[q].local /\ conn'[q].at = conn[q].at
  <2>1. conn[q].local \in Pointer
    BY <1>1, <1>4 DEF Connection, LocalFits
  <2> QED BY <1>1, <1>4, <2>1, CallFnLemma
<1> QED BY <1>1, <1>2, <1>3, <1>4 DEF CallWithLocal, LocalFits

\* The function is called with an input that its own action decoded.
CalledWithOwn(q, source) ==
  /\ Goes(q, "fn", conn[q].fate)
  /\ \E input \in Pointer :
       /\ input.type = Def[conn[q].route].in /\ conn'[q].input = input
       /\ Holds(heap', q, input, source, conn'[q].at + 1)

\* A route that takes its input from the query panics, refuses or calls.
LEMMA CallWithQueryRight ==
  ASSUME Sound, NEW q \in Request, CallWithQuery(q)
  PROVE  /\ StepRight(q) /\ Decodes(q, "query")
         /\ \/ Goes(q, "panic", conn[q].fate) /\ QueryPanics(q)
            \/ Goes(q, "done", "refused") /\ QueryRefused(q)
            \/ CalledWithOwn(q, "query")
<1> DEFINE type == Def[conn[q].route].in
           input == NewInput(q, type)
<1>1. /\ TypeOK /\ RequestRight(q) /\ conn[q] \in Connection
      /\ Decodes(q, "query") /\ AtAction(q) /\ conn[q].phase = "chain"
  BY DEF Sound, TypeOK, CallWithQuery, Decodes, AtAction
<1>2. type \in Type
  BY <1>1, ActionLemma, Routes DEF RequestRight, Decodes
<1>3. CASE QueryPanics(q) /\ Panics(q)
  BY <1>1, <1>3, PanicsRight
<1>4. ASSUME QueryRefused(q), NEW encoded \in BOOLEAN, UNCHANGED heap,
             Answers(q, [QueryRefusal(conn[q], encoded) EXCEPT !.phase = "done"])
      PROVE  StepRight(q) /\ Goes(q, "done", "refused")
  <2> DEFINE c == QueryRefusal(conn[q], encoded)
             answer == [c EXCEPT !.phase = "done"]
  <2>1. /\ c \in Connection /\ Told(c) /\ c.fate = "refused"
        /\ c.status \in {"badRequest", "unprocessable"}
        /\ c.route = conn[q].route /\ c.at = conn[q].at
        /\ c.query = conn[q].query /\ c.body = conn[q].body
    BY <1>1, <1>4, QueryRefusalLemma
  <2> HIDE DEF c
  <2>2. /\ answer \in Connection /\ Told(answer) /\ answer.fate = "refused"
        /\ answer.status \in {"badRequest", "unprocessable"}
        /\ answer.phase = "done" /\ answer.route = conn[q].route
        /\ answer.at = conn[q].at
        /\ answer.query = conn[q].query /\ answer.body = conn[q].body
    BY <2>1 DEF Connection, Told
  <2> HIDE DEF answer
  <2>3. TypeOK' /\ StepOf(q) /\ conn'[q] = answer
    BY <1>1, <1>4, <2>2, AnswersStep DEF answer, c
  <2>4. Routed(q)' /\ LocalRight(q)'
    BY <1>1, <2>2, <2>3, PassedLemma
  <2>5. AnswerRight(q)'
    BY <2>2, <2>3 DEF AnswerRight, Waiting
  <2>6. Goes(q, "done", "refused")
    BY <2>2, <2>3 DEF Goes
  <2> QED BY <2>3, <2>4, <2>5, <2>6 DEF StepRight, RequestRight
<1>5. ASSUME QueryAccepted(q), Stored(q, input, "query", conn[q].query), CallFn(q, input)
      PROVE  StepRight(q) /\ CalledWithOwn(q, "query")
  <2>1. conn[q].query \in Bindable
    BY <1>5 DEF QueryAccepted, Bindable
  <2>2. /\ StepRight(q) /\ Goes(q, "fn", conn[q].fate)
        /\ conn'[q].input = input /\ conn'[q].at = conn[q].at
        /\ input \in Pointer /\ Holds(heap', q, input, "query", conn[q].at + 1)
    BY <1>1, <1>2, <1>5, <2>1, CallFnStoredLemma
  <2>3. input.type = type
    BY DEF NewInput
  <2> QED BY <2>2, <2>3 DEF CalledWithOwn
<1> QED BY <1>1, <1>3, <1>4, <1>5 DEF CallWithQuery

\* A route that takes its input from the body refuses or calls.
LEMMA CallWithBodyRight ==
  ASSUME Sound, NEW q \in Request, CallWithBody(q)
  PROVE  /\ StepRight(q) /\ Decodes(q, "body")
         /\ \/ Goes(q, "done", "refused") /\ conn[q].body \notin Bindable
            \/ CalledWithOwn(q, "body")
<1> DEFINE type == Def[conn[q].route].in
           input == NewInput(q, type)
<1>1. /\ TypeOK /\ RequestRight(q) /\ conn[q] \in Connection
      /\ Decodes(q, "body") /\ AtAction(q) /\ conn[q].phase = "chain"
  BY DEF Sound, TypeOK, CallWithBody, Decodes, AtAction
<1>2. type \in Type
  BY <1>1, ActionLemma, Routes DEF RequestRight, Decodes
<1>3. CASE RefuseBody(q)
  BY <1>1, <1>3, RefuseBodyRight
<1>4. ASSUME conn[q].body \in Bindable, Stored(q, input, "body", conn[q].body),
             CallFn(q, input)
      PROVE  StepRight(q) /\ CalledWithOwn(q, "body")
  <2>1. /\ StepRight(q) /\ Goes(q, "fn", conn[q].fate)
        /\ conn'[q].input = input /\ conn'[q].at = conn[q].at
        /\ input \in Pointer /\ Holds(heap', q, input, "body", conn[q].at + 1)
    BY <1>1, <1>2, <1>4, CallFnStoredLemma
  <2>2. input.type = type
    BY DEF NewInput
  <2> QED BY <2>1, <2>2 DEF CalledWithOwn
<1> QED BY <1>1, <1>3, <1>4 DEF CallWithBody

\* The function's error is answered, with a status of its own.
LEMMA FnFailsRight ==
  ASSUME Sound, NEW q \in Request, FnFails(q)
  PROVE  StepRight(q) /\ Goes(q, "done", "failed")
<1>1. /\ TypeOK /\ RequestRight(q) /\ conn[q] \in Connection /\ UNCHANGED heap
      /\ conn[q].phase = "fn"
  BY DEF Sound, TypeOK, FnFails
<1>2. PICK err \in DOMAIN ErrorStatus, encoded \in BOOLEAN :
        Answers(q, [conn[q] EXCEPT
                      !.phase = "done", !.fate = "failed",
                      !.status = ErrorStatus[err],
                      !.sent = IF encoded THEN "error" ELSE @,
                      !.reported = IF encoded THEN @ + 1 ELSE @ + 2])
  BY DEF FnFails
<1> DEFINE status == ErrorStatus[err]
           sent == IF encoded THEN "error" ELSE conn[q].sent
           reported == IF encoded THEN conn[q].reported + 1 ELSE conn[q].reported + 2
           answer == Answered(conn[q], "done", "failed", status, sent, reported)
<1>3. status \in {"unprocessable", "serverError"}
  BY DEF ErrorStatus
<1>4. reported \in Nat /\ reported > 0
  BY <1>1 DEF Connection
<1>5. /\ sent \in Bodies /\ "done" \in Phases /\ "failed" \in Fates
      /\ {"unprocessable", "serverError"} \subseteq Statuses
  BY <1>1 DEF Connection, Bodies, Phases, Fates, Statuses
<1>6. Answers(q, answer)
  <2> DEFINE d == [conn[q] EXCEPT !.phase = "done", !.fate = "failed",
                                  !.status = status,
                                  !.sent = IF encoded THEN "error" ELSE @,
                                  !.reported = IF encoded THEN @ + 1 ELSE @ + 2]
  <2>1. d = answer
    BY <1>1, FailureForm
  <2>2. Answers(q, d)
    BY <1>2
  <2> HIDE DEF d, answer
  <2> QED BY <2>1, <2>2
<1> HIDE DEF status, sent, reported
<1>7. /\ answer \in Connection /\ answer.phase = "done" /\ answer.fate = "failed"
      /\ answer.status = status /\ answer.reported = reported
      /\ answer.route = conn[q].route /\ answer.at = conn[q].at
      /\ answer.query = conn[q].query /\ answer.body = conn[q].body
  BY <1>1, <1>3, <1>4, <1>5, AnswerFields
<1> HIDE DEF answer
<1>8. TypeOK' /\ StepOf(q) /\ conn'[q] = answer
  BY <1>1, <1>6, <1>7, AnswersStep
<1>9. Routed(q)' /\ LocalRight(q)'
  BY <1>1, <1>7, <1>8, PassedLemma
<1>10. AnswerRight(q)'
  BY <1>3, <1>4, <1>7, <1>8 DEF AnswerRight, Waiting, Told
<1>11. Goes(q, "done", "failed")
  BY <1>7, <1>8 DEF Goes
<1> QED BY <1>8, <1>9, <1>10, <1>11 DEF StepRight, RequestRight

\* The function's output is answered; if it cannot be, OnHandleError is told.
LEMMA FnSucceedsRight ==
  ASSUME Sound, NEW q \in Request, FnSucceeds(q)
  PROVE  /\ StepRight(q) /\ Goes(q, "done", "succeeded")
         /\ conn'[q].status = conn[q].status
<1> DEFINE out == Def[conn[q].route].out
<1>1. /\ TypeOK /\ RequestRight(q) /\ conn[q] \in Connection /\ UNCHANGED heap
      /\ conn[q].phase = "fn"
  BY DEF Sound, TypeOK, FnSucceeds
<1>2. PICK encoded \in IF out THEN BOOLEAN ELSE {TRUE} :
        Answers(q, [conn[q] EXCEPT
                      !.phase = "done", !.fate = "succeeded",
                      !.sent = IF out /\ encoded THEN "output" ELSE @,
                      !.reported = IF encoded THEN @ ELSE @ + 1])
  BY DEF FnSucceeds
<1>3. out \in BOOLEAN
  BY <1>1, Routes DEF RequestRight, Routed, TypeOK
<1> DEFINE sent == IF out /\ encoded THEN "output" ELSE conn[q].sent
           reported == IF encoded THEN conn[q].reported ELSE conn[q].reported + 1
           answer == Answered(conn[q], "done", "succeeded", conn[q].status, sent,
                              reported)
<1>4. reported \in Nat
  BY <1>1 DEF Connection
<1>5. /\ sent \in Bodies /\ conn[q].status \in Statuses
      /\ "done" \in Phases /\ "succeeded" \in Fates
  BY <1>1 DEF Connection, Bodies, Phases, Fates, Statuses
<1>6. Answers(q, answer)
  <2> DEFINE d == [conn[q] EXCEPT !.phase = "done", !.fate = "succeeded",
                                  !.sent = IF out /\ encoded THEN "output" ELSE @,
                                  !.reported = IF encoded THEN @ ELSE @ + 1]
  <2>1. d = answer
    BY <1>1, SuccessForm
  <2>2. Answers(q, d)
    BY <1>2
  <2> HIDE DEF d, answer
  <2> QED BY <2>1, <2>2
<1>7. /\ out => sent # "nothing" \/ reported > 0
      /\ Told(conn[q]) => sent # "nothing" \/ reported > 0
  BY <1>1, <1>3 DEF Told, Connection
<1> HIDE DEF sent, reported
<1>8. /\ answer \in Connection /\ answer.phase = "done" /\ answer.fate = "succeeded"
      /\ answer.sent = sent /\ answer.reported = reported
      /\ answer.status = conn[q].status
      /\ answer.route = conn[q].route /\ answer.at = conn[q].at
      /\ answer.query = conn[q].query /\ answer.body = conn[q].body
  BY <1>1, <1>4, <1>5, AnswerFields
<1> HIDE DEF answer
<1>9. TypeOK' /\ StepOf(q) /\ conn'[q] = answer
  BY <1>1, <1>6, <1>8, AnswersStep
<1>10. Routed(q)' /\ LocalRight(q)'
  BY <1>1, <1>8, <1>9, PassedLemma
<1>11. AnswerRight(q)'
  <2>1. conn[q].status # "own" /\ (conn[q].status # "ok" => Told(conn[q]))
    BY <1>1 DEF RequestRight, AnswerRight, Waiting
  <2>2. Told(conn'[q]) <=> sent # "nothing" \/ reported > 0
    BY <1>8, <1>9 DEF Told
  <2> QED BY <1>7, <1>8, <1>9, <2>1, <2>2 DEF AnswerRight, Waiting
<1>12. Goes(q, "done", "succeeded")
  BY <1>8, <1>9 DEF Goes
<1> QED BY <1>8, <1>9, <1>10, <1>11, <1>12 DEF StepRight, RequestRight

-----------------------------------------------------------------------------
(* Every step.                                                             *)

\* A request that arrives is at the first handler and has nothing yet.
LEMMA ArriveRight ==
  ASSUME Sound, NEW q \in Request, NEW r \in DOMAIN chain, NEW sent \in Sent,
         Arrive(q, r, sent[1], sent[2])
  PROVE  /\ StepRight(q)
         /\ conn[q].phase = "idle"
         /\ conn'[q].phase = "chain" /\ conn'[q].fate = "open"
         /\ conn'[q].route = r /\ conn'[q].at = 1 /\ conn'[q].local = None
<1> DEFINE new == NewConnection("chain", r, sent[1], sent[2])
<1>1. TypeOK /\ r \in Route /\ chain[r] \in Seq(Handler) /\ listening
  BY DEF Sound, TypeOK, Arrive
<1>2. sent[1] \in Quality /\ sent[2] \in Quality
  BY RouteAssumption
<1>3. /\ new \in Connection /\ new.phase = "chain" /\ new.fate = "open"
      /\ new.status = "ok" /\ new.route = r /\ new.at = 1 /\ new.local = None
  BY <1>1, <1>2 DEF NewConnection, Connection
<1> HIDE DEF new
<1>4. Answers(q, new) /\ UNCHANGED heap /\ conn[q].phase = "idle"
  BY DEF Arrive, Answers, new
<1>5. TypeOK' /\ StepOf(q) /\ conn'[q] = new
  BY <1>1, <1>3, <1>4, AnswersStep
<1>6. Routed(q)'
  BY <1>1, <1>3, <1>5 DEF Routed, StepOf
<1>7. LocalRight(q)'
  BY <1>3, <1>5 DEF LocalRight
<1>8. AnswerRight(q)'
  BY <1>3, <1>5 DEF AnswerRight, Waiting
<1> QED BY <1>3, <1>4, <1>5, <1>6, <1>7, <1>8 DEF StepRight, RequestRight

\* A request that leaves takes what it allocated with it and no more.
LEMMA LeaveRight ==
  ASSUME Sound, NEW q \in Request, Leave(q)
  PROVE  StepRight(q) /\ conn'[q].phase = "idle" /\ conn[q].phase = "done"
<1>1. TypeOK /\ conn[q].phase = "done"
  BY DEF Sound, Leave
<1>2. /\ Idle \in Connection /\ Idle.phase = "idle"
  BY DEF Idle, NewConnection, Connection, Quality
<1>3. Answers(q, Idle)
  BY DEF Leave, Answers
<1>4. /\ conn' \in [Request -> Connection] /\ conn'[q] = Idle
      /\ \A p \in Request : p # q => conn'[p] = conn[p]
      /\ UNCHANGED <<uses, chain, listening>>
  BY <1>1, <1>2, <1>3, AnswersLemma
<1>5. heap' = [c \in { c \in DOMAIN heap : c[1] # q } |-> heap[c]]
  BY DEF Leave, Restrict
<1>6. /\ \A c \in DOMAIN heap' : c \in DOMAIN heap /\ heap'[c] = heap[c]
      /\ \A c \in DOMAIN heap : c[1] # q => c \in DOMAIN heap' /\ heap'[c] = heap[c]
  BY <1>5
<1>7. TypeOK'
  BY <1>1, <1>4, <1>6 DEF TypeOK
<1>8. StepOf(q)
  BY <1>4, <1>6 DEF StepOf, Untouched
<1>9. RequestRight(q)'
  BY <1>2, <1>4 DEF RequestRight, Routed, LocalRight, AnswerRight, Waiting
<1> QED BY <1>1, <1>2, <1>4, <1>7, <1>8, <1>9 DEF StepRight

\* Every step of a handler is right, ...
LEMMA ServeRight ==
  ASSUME Sound, NEW q \in Request, Serve(q)
  PROVE  StepRight(q)
BY RunMiddlewareRight, DecodeQueryEarlyRight, DecodeBodyEarlyRight,
   CallWithoutInputRight, CallWithLocalRight, CallWithQueryRight,
   CallWithBodyRight, FnFailsRight, FnSucceedsRight DEF Serve

\* The steps of request q.
RequestStep(q) ==
  \/ \E r \in DOMAIN chain, sent \in Sent : Arrive(q, r, sent[1], sent[2])
  \/ Serve(q)
  \/ Leave(q)

\* ... is right, of whichever kind it is, ...
LEMMA RequestStepRight ==
  ASSUME Sound, NEW q \in Request, RequestStep(q)
  PROVE  StepRight(q)
BY ArriveRight, ServeRight, LeaveRight DEF RequestStep

\* ... and keeps the invariant.
LEMMA RequestStepSound ==
  ASSUME Sound, NEW q \in Request, RequestStep(q)
  PROVE  Sound'
<1>1. TypeOK' /\ StepOf(q) /\ RequestRight(q)'
  BY RequestStepRight DEF StepRight
<1>2. UNCHANGED <<uses, chain, listening>>
  BY <1>1 DEF StepOf
<1>3. UsesRight' /\ ChainRight'
  BY <1>2 DEF Sound, UsesRight, ChainRight
<1>4. ASSUME NEW p \in Request, p # q PROVE RequestRight(p)'
  BY <1>1, <1>2, <1>4, OthersStayRight DEF StepOf, Sound
<1> QED BY <1>1, <1>3, <1>4 DEF Sound

\* While the program registers its routes there is no request.
LEMMA RegisterSound ==
  ASSUME Sound, NEW r \in Route, Register(r)
  PROVE  Sound'
<1>1. /\ TypeOK /\ UsesRight /\ ChainRight
      /\ UNCHANGED <<listening, heap, conn>> /\ ~listening
  BY Registered DEF Sound
<1>2. \A q \in Request : conn[q].phase = "idle"
  BY <1>1, NotListening DEF Sound, RequestRight
<1>3. \A q \in Request : RequestRight(q)'
  BY <1>1, <1>2 DEF RequestRight, Routed, LocalRight, AnswerRight, Waiting
<1>4. TypeOK'
  BY <1>1, RegisterRight DEF TypeOK
<1>5. UsesRight' /\ ChainRight'
  BY <1>1, RegisterRight
<1> QED BY <1>3, <1>4, <1>5 DEF Sound

\* There is none either when the program begins to listen.
LEMMA ListenSound ==
  ASSUME Sound, Listen
  PROVE  Sound'
<1>1. /\ TypeOK /\ UsesRight /\ ChainRight /\ ~listening
      /\ UNCHANGED <<uses, chain, heap, conn>> /\ listening' = TRUE
  BY DEF Sound, Listen
<1>2. \A q \in Request : conn[q].phase = "idle"
  BY <1>1, NotListening DEF Sound, RequestRight
<1>3. \A q \in Request : RequestRight(q)'
  BY <1>1, <1>2 DEF RequestRight, Routed, LocalRight, AnswerRight, Waiting
<1> QED BY <1>1, <1>3 DEF Sound, TypeOK, UsesRight, ChainRight

\* At first no route is registered, and the slices hold what the user put there.
LEMMA InitSound == Init => Sound
<1> SUFFICES ASSUME Init PROVE Sound
  OBVIOUS
<1>1. Idle \in Connection /\ Idle.phase = "idle"
  BY DEF Idle, NewConnection, Connection, Quality
<1>2. \A o \in OptsSlice :
        /\ uses[o] \in Seq(Handler)
        /\ \A i \in DOMAIN uses[o] : uses[o][i].kind = "uses"
  <2> SUFFICES ASSUME NEW o \in OptsSlice
               PROVE  /\ uses[o] \in Seq(Handler)
                      /\ \A i \in DOMAIN uses[o] : uses[o][i].kind = "uses"
    OBVIOUS
  <2>1. Options[o].uses \in Nat
    BY RouteAssumption
  <2> DEFINE given == [kind |-> "uses", type |-> None]
  <2>2. given \in Handler /\ given.kind = "uses"
    BY DEF Handler
  <2>3. uses[o] = [i \in 1..Options[o].uses |-> given]
    BY DEF Init
  <2> HIDE DEF given
  <2> QED BY <2>1, <2>2, <2>3
<1>3. uses \in [OptsSlice -> Seq(Handler)]
  BY <1>2 DEF Init
<1>4. DOMAIN chain = {} /\ DOMAIN heap = {} /\ conn \in [Request -> Connection]
  BY <1>1 DEF Init
<1>5. TypeOK
  BY <1>3, <1>4 DEF TypeOK, Init
<1>6. UsesRight /\ ChainRight
  BY <1>2, <1>4 DEF UsesRight, HeldBy, ChainRight
<1>7. \A q \in Request : RequestRight(q)
  BY <1>1 DEF Init, RequestRight, Routed, LocalRight, AnswerRight, Waiting
<1> QED BY <1>5, <1>6, <1>7 DEF Sound

\* No step of the program breaks the invariant.
LEMMA StepSound == Sound /\ [Next]_vars => Sound'
<1> SUFFICES ASSUME Sound, [Next]_vars PROVE Sound'
  OBVIOUS
<1>1. ASSUME NEW r \in Route, Register(r) PROVE Sound'
  BY <1>1, RegisterSound
<1>2. CASE Listen
  BY <1>2, ListenSound
<1>3. ASSUME NEW q \in Request, RequestStep(q) PROVE Sound'
  BY <1>3, RequestStepSound
<1>4. CASE UNCHANGED vars
  BY <1>4 DEF vars, Sound, TypeOK, UsesRight, ChainRight, RequestRight, Routed,
     LocalRight, AnswerRight
<1> QED BY <1>1, <1>2, <1>3, <1>4 DEF Next, RequestStep

\* All this is so in every state of every program.
THEOREM AlwaysSound == Spec => []Sound
BY InitSound, StepSound, PTL DEF Spec

\* The variables have their types: handlers in the chains, inputs in memory, and
\* of each request a state that the code can be in.
THEOREM TypeCorrect == Spec => []TypeOK
<1>1. Sound => TypeOK
  BY DEF Sound
<1> QED BY <1>1, AlwaysSound, PTL

\* Where an answer should have had a body and has none, OnHandleError was told,
\* for whatever program and whatever fails (query.go:30-33, handle.go:19-22,
\* :27-29).
THEOREM BodiesOrReports == Spec => []MissingBodyReported
<1>1. Sound => MissingBodyReported
  BY DEF Sound, RequestRight, AnswerRight, Told, MissingBodyReported, TypeOK, Connection
<1> QED BY <1>1, AlwaysSound, PTL

-----------------------------------------------------------------------------
(* The function's input.                                                   *)

\* A registered route that shares a slice with UseWithInput takes an input.
LEMMA SharingRoutes ==
  ASSUME ChainRight, DOMAIN chain \subseteq Route, NEW r \in DOMAIN chain, WithInput(r)
  PROVE  r \in Early
BY DEF ChainRight, Supported, Early

\* When the function is called its input is the one its route is to have.
LEMMA InputsStep ==
  ASSUME Sound, TypesTellSources, NEW q \in Request, RequestStep(q)
  PROVE  InputRight(q)'
<1>1. /\ TypeOK /\ ChainRight /\ RequestRight(q) /\ DOMAIN chain \subseteq Route
  BY DEF Sound, TypeOK
<1>2. ASSUME conn'[q].phase # "fn" PROVE InputRight(q)'
  BY <1>2 DEF InputRight
<1>3. ASSUME NEW source, CalledWithOwn(q, source), Source(conn[q].route) = source
      PROVE  InputRight(q)'
  BY <1>3 DEF CalledWithOwn, Goes, InputRight
<1>4. ASSUME RunMiddleware(q) PROVE InputRight(q)'
  BY <1>2, <1>4, RunMiddlewareRight DEF GoesOn, Goes
<1>5. ASSUME DecodeQueryEarly(q) PROVE InputRight(q)'
  <2>1. conn'[q].phase \in {"panic", "chain"}
    BY <1>5, DecodeQueryEarlyRight DEF GoesOn, Goes
  <2> QED BY <1>2, <2>1
<1>6. ASSUME DecodeBodyEarly(q) PROVE InputRight(q)'
  <2>1. conn'[q].phase \in {"done", "chain"}
    BY <1>6, DecodeBodyEarlyRight DEF GoesOn, Goes
  <2> QED BY <1>2, <2>1
<1>7. ASSUME CallWithoutInput(q) PROVE InputRight(q)'
  BY <1>7, CallWithoutInputRight DEF Goes, InputRight
<1>8. ASSUME CallWithLocal(q) PROVE InputRight(q)'
  <2>1. CASE conn'[q].phase # "fn"
    BY <1>2, <2>1
  <2>2. CASE conn'[q].phase = "fn"
    <3> DEFINE local == conn[q].local
    <3>1. /\ Goes(q, "fn", conn[q].fate) /\ LocalFits(q)
          /\ local.cell # None /\ local \in Pointer
          /\ conn'[q].input = local /\ conn'[q].at = conn[q].at
          /\ heap' = heap /\ WithInput(conn[q].route)
      BY <1>8, <2>2, CallWithLocalRight DEF Goes
    <3>2. conn[q].phase = "chain" /\ conn[q].route \in DOMAIN chain /\ conn[q].at \in Nat
      BY <1>1, <1>8, ActionLemma DEF CallWithLocal, RequestRight
    <3>3. PICK r \in Early :
            /\ Def[r].opts = Def[conn[q].route].opts
            /\ local.type = Def[r].in
            /\ Holds(heap, q, local, Source(r), conn[q].at)
      BY <1>1, <3>1, <3>2 DEF LocalFits, RequestRight, LocalRight
    <3>4. conn[q].route \in Early
      BY <1>1, <3>1, <3>2, SharingRoutes
    <3>5. Source(r) = Source(conn[q].route)
      BY <3>1, <3>3, <3>4 DEF TypesTellSources, LocalFits
    <3>6. Holds(heap', q, local, Source(conn[q].route), conn[q].at + 1)
      BY <1>1, <3>1, <3>2, <3>3, <3>5 DEF Holds, TypeOK, Cell
    <3> HIDE DEF local
    <3> QED BY <3>1, <3>6 DEF Goes, InputRight, LocalFits, local
  <2> QED BY <2>1, <2>2
<1>9. ASSUME CallWithQuery(q) PROVE InputRight(q)'
  <2>1. CASE conn'[q].phase # "fn"
    BY <1>2, <2>1
  <2>2. CASE conn'[q].phase = "fn"
    BY <1>3, <1>9, <2>2, CallWithQueryRight DEF Goes, Decodes
  <2> QED BY <2>1, <2>2
<1>10. ASSUME CallWithBody(q) PROVE InputRight(q)'
  <2>1. CASE conn'[q].phase # "fn"
    BY <1>2, <2>1
  <2>2. CASE conn'[q].phase = "fn"
    BY <1>3, <1>10, <2>2, CallWithBodyRight DEF Goes, Decodes
  <2> QED BY <2>1, <2>2
<1>11. ASSUME FnFails(q) \/ FnSucceeds(q) PROVE InputRight(q)'
  BY <1>2, <1>11, FnFailsRight, FnSucceedsRight DEF Goes
<1>12. ASSUME NEW r \in DOMAIN chain, NEW sent \in Sent, Arrive(q, r, sent[1], sent[2])
       PROVE  InputRight(q)'
  BY <1>2, <1>12, ArriveRight
<1>13. ASSUME Leave(q) PROVE InputRight(q)'
  BY <1>2, <1>13, LeaveRight
<1> QED BY <1>4, <1>5, <1>6, <1>7, <1>8, <1>9, <1>10, <1>11, <1>12, <1>13
        DEF RequestStep, Serve

\* A step is one of the program's while it registers its routes, when there is no
\* request before or after it, or one of a request, or none.
LEMMA Steps ==
  ASSUME Sound, [Next]_vars
  PROVE  \/ /\ \A q \in Request : conn[q].phase = "idle" /\ conn'[q].phase = "idle"
            /\ (\E r \in Route : Register(r)) \/ Listen
         \/ \E q \in Request : RequestStep(q)
         \/ UNCHANGED vars
<1>1. ASSUME NEW r \in Route, Register(r)
      PROVE  \A q \in Request : conn[q].phase = "idle" /\ conn'[q].phase = "idle"
  BY <1>1, Registered, NotListening DEF Sound, RequestRight
<1>2. ASSUME Listen
      PROVE  \A q \in Request : conn[q].phase = "idle" /\ conn'[q].phase = "idle"
  BY <1>2, NotListening DEF Sound, RequestRight, Listen
<1>3. CASE \E r \in Route : Register(r)
  BY <1>1, <1>3
<1>4. CASE Listen
  BY <1>2, <1>4
<1>5. CASE \E q \in Request : RequestStep(q)
  BY <1>5
<1>6. CASE UNCHANGED vars
  BY <1>6
<1> QED BY <1>3, <1>4, <1>5, <1>6 DEF Next, RequestStep

\* After the step of request q each other one is as it was.
LEMMA RequestStepOf ==
  ASSUME Sound, NEW q \in Request, RequestStep(q)
  PROVE  /\ UNCHANGED <<uses, chain, listening>>
         /\ \A p \in Request : p # q => Untouched(p)
BY RequestStepRight DEF StepRight, StepOf

\* So it is whenever a function runs.
LEMMA InputsInvariant ==
  ASSUME TypesTellSources
  PROVE  Spec => [](Sound /\ InputsRight)
<1>1. Init => InputsRight
  BY DEF Init, Idle, NewConnection, InputsRight, InputRight
<1>2. Sound /\ InputsRight /\ [Next]_vars => InputsRight'
  <2> SUFFICES ASSUME Sound, InputsRight, [Next]_vars PROVE InputsRight'
    OBVIOUS
  <2>1. ASSUME \A q \in Request : conn'[q].phase = "idle" PROVE InputsRight'
    BY <2>1 DEF InputsRight, InputRight
  <2>2. ASSUME NEW q \in Request, RequestStep(q) PROVE InputsRight'
    <3>1. InputRight(q)'
      BY <2>2, InputsStep
    <3>2. \A p \in Request : p # q => InputRight(p)'
      BY <2>2, RequestStepOf, OthersStayRight DEF InputsRight
    <3> QED BY <3>1, <3>2 DEF InputsRight
  <2>3. CASE UNCHANGED vars
    BY <2>3 DEF vars, InputsRight, InputRight
  <2> QED BY <2>1, <2>2, <2>3, Steps
<1> QED BY <1>1, <1>2, AlwaysSound, PTL DEF Spec

\* A function with an input is only ever called with one of its own type that was
\* read from the right part of this very request, was decoded and passed the
\* validation there is (http.go:121-135, :240-258), unless the program passes one
\* slice of Opts with UseWithInput to routes that take one type from different
\* parts of the request.
THEOREM InputsAccepted == ASSUME TypesTellSources PROVE Spec => []OnlyAcceptedInput
<1>1. Sound /\ InputsRight => OnlyAcceptedInput
  <2> SUFFICES ASSUME Sound, InputsRight, NEW q \in Request,
                      conn[q].phase = "fn", TakesInput(conn[q].route)
               PROVE  /\ conn[q].input.cell \in DOMAIN heap
                      /\ LET input == heap[conn[q].input.cell]
                         IN  /\ input.type = Def[conn[q].route].in
                             /\ input.source = Reads(conn[q].route)
                             /\ input.from = q /\ input.ctx = q
                             /\ input.quality \in IF HasValidator THEN {"ok"}
                                                  ELSE {"invalid", "ok"}
    BY DEF OnlyAcceptedInput
  <2>1. conn[q].route \in Route
    BY DEF Sound, RequestRight, Routed, TypeOK
  <2>2. Reads(conn[q].route) = Source(conn[q].route)
    BY <2>1, Routes
  <2>3. InputRight(q)
    BY DEF InputsRight
  <2> QED BY <2>2, <2>3 DEF InputRight, Holds, Bindable
<1> QED BY <1>1, InputsInvariant, PTL

-----------------------------------------------------------------------------
(* Refusals.                                                               *)

\* No step takes back a refusal or lets the function run after it.
LEMMA RefusalsStep ==
  ASSUME Sound, SharedReadAlike, NEW q \in Request, RefusalStands(q), RequestStep(q)
  PROVE  RefusalStands(q)'
<1>1. /\ TypeOK /\ ChainRight /\ RequestRight(q) /\ DOMAIN chain \subseteq Route
  BY DEF Sound, TypeOK
<1>2. conn[q].phase \in {"chain", "fn"} => conn[q].fate \in {"open", "refused"}
  BY <1>1 DEF RequestRight, AnswerRight, Waiting
\* Where the request leaves the chain without a success there is nothing to show.
<1>3. ASSUME NEW phase \in {"done", "panic"}, NEW fate, Goes(q, phase, fate),
             fate # "succeeded"
      PROVE  RefusalStands(q)'
  BY <1>3 DEF Goes, RefusalStands
<1>4. ASSUME NEW local, GoesOn(q, local, conn[q].fate),
             conn[q].phase = "chain",
             conn[q].fate = "refused" => local = conn[q].local
      PROVE  RefusalStands(q)'
  BY <1>4 DEF GoesOn, Goes, RefusalStands, QueryRefused
<1>5. ASSUME Goes(q, "fn", conn[q].fate), conn[q].fate = "open"
      PROVE  RefusalStands(q)'
  BY <1>5 DEF Goes, RefusalStands
<1>6. ASSUME RunMiddleware(q) PROVE RefusalStands(q)'
  <2>1. conn[q].phase = "chain"
    BY <1>6 DEF RunMiddleware, InChain
  <2> QED BY <1>3, <1>4, <1>6, <2>1, RunMiddlewareRight
\* A decoder is one of a route that reads the same part as the request's own.
<1>7. ASSUME InChain(q), Current(q).kind \in {"query", "body"}
      PROVE  /\ conn[q].phase = "chain"
             /\ conn[q].route \in Early /\ Source(conn[q].route) = Current(q).kind
  <2>1. conn[q].phase = "chain" /\ conn[q].route \in DOMAIN chain
    BY <1>1, <1>7, CurrentLemma DEF RequestRight
  <2>2. PICK r \in Early :
          Def[r].opts = Def[conn[q].route].opts /\ Current(q).kind = Source(r)
    BY <1>1, <1>7, CurrentLemma DEF RequestRight
  <2>3. conn[q].route \in Early
    BY <1>1, <2>1, <2>2, EarlyRoutes, SharingRoutes
  <2> QED BY <2>1, <2>2, <2>3 DEF SharedReadAlike
<1>8. ASSUME DecodeQueryEarly(q) PROVE RefusalStands(q)'
  <2>1. /\ conn[q].phase = "chain"
        /\ conn[q].route \in Early /\ Source(conn[q].route) = "query"
    BY <1>7, <1>8 DEF DecodeQueryEarly
  <2>2. CASE Goes(q, "panic", conn[q].fate)
    BY <1>2, <1>3, <2>1, <2>2
  <2>3. ASSUME QueryRefused(q), NEW nil \in Pointer, GoesOn(q, nil, "refused"),
               nil.cell = None
        PROVE  RefusalStands(q)'
    BY <2>1, <2>3, NoneAssumption DEF GoesOn, Goes, RefusalStands, QueryRefused
  <2>4. ASSUME QueryAccepted(q), NEW input \in Pointer, GoesOn(q, input, conn[q].fate)
        PROVE  RefusalStands(q)'
    <3>1. conn[q].fate # "refused"
      BY <2>1, <2>4 DEF RefusalStands, QueryRefused, QueryAccepted
    <3> QED BY <1>4, <2>1, <2>4, <3>1
  <2> QED BY <1>8, <2>2, <2>3, <2>4, DecodeQueryEarlyRight
<1>9. ASSUME DecodeBodyEarly(q) PROVE RefusalStands(q)'
  <2>1. conn[q].phase = "chain" /\ Source(conn[q].route) = "body"
    BY <1>7, <1>9 DEF DecodeBodyEarly
  <2>2. conn[q].fate # "refused"
    BY <2>1 DEF RefusalStands
  <2>3. CASE Goes(q, "done", "refused")
    BY <1>3, <2>3
  <2>4. ASSUME NEW input \in Pointer, GoesOn(q, input, conn[q].fate)
        PROVE  RefusalStands(q)'
    BY <1>4, <2>1, <2>2, <2>4
  <2> QED BY <1>9, <2>3, <2>4, DecodeBodyEarlyRight
<1>10. ASSUME CallWithoutInput(q) PROVE RefusalStands(q)'
  <2>1. conn[q].phase = "chain" /\ conn[q].route \notin Early
    BY <1>10 DEF CallWithoutInput, AtAction, Early
  <2>2. conn[q].fate = "open"
    BY <1>2, <2>1 DEF RefusalStands
  <2> QED BY <1>5, <1>10, <2>2, CallWithoutInputRight
<1>11. ASSUME CallWithLocal(q) PROVE RefusalStands(q)'
  <2>1. conn[q].phase = "chain"
    BY <1>11 DEF CallWithLocal, AtAction
  <2>2. CASE Goes(q, "panic", conn[q].fate) \/ Goes(q, "done", conn[q].fate)
    BY <1>2, <1>3, <2>1, <2>2
  <2>3. CASE Goes(q, "fn", conn[q].fate) /\ conn[q].local.cell # None
    <3>1. conn[q].fate = "open"
      BY <1>2, <2>1, <2>3 DEF RefusalStands
    <3> QED BY <1>5, <2>3, <3>1
  <2> QED BY <1>11, <2>2, <2>3, CallWithLocalRight
<1>12. ASSUME CallWithQuery(q) \/ CallWithBody(q) PROVE RefusalStands(q)'
  <2>1. conn[q].phase = "chain" /\ conn[q].route \notin Early
    BY <1>12 DEF CallWithQuery, CallWithBody, Decodes, AtAction, Early
  <2>2. conn[q].fate = "open"
    BY <1>2, <2>1 DEF RefusalStands
  <2>3. CASE Goes(q, "panic", conn[q].fate) \/ Goes(q, "done", "refused")
    BY <1>3, <2>2, <2>3
  <2>4. CASE Goes(q, "fn", conn[q].fate)
    BY <1>5, <2>2, <2>4
  <2> QED BY <1>12, <2>3, <2>4, CallWithQueryRight, CallWithBodyRight DEF CalledWithOwn
<1>13. ASSUME FnFails(q) PROVE RefusalStands(q)'
  BY <1>3, <1>13, FnFailsRight
<1>14. ASSUME FnSucceeds(q) PROVE RefusalStands(q)'
  <2>1. conn[q].phase = "fn"
    BY <1>14 DEF FnSucceeds
  <2>2. conn[q].fate = "open"
    BY <2>1 DEF RefusalStands
  <2>3. conn[q].status = "ok"
    BY <1>1, <2>1, <2>2 DEF RequestRight, AnswerRight, Waiting
  <2> QED BY <1>14, <2>3, FnSucceedsRight DEF Goes, RefusalStands
<1>15. ASSUME NEW r \in DOMAIN chain, NEW sent \in Sent, Arrive(q, r, sent[1], sent[2])
       PROVE  RefusalStands(q)'
  BY <1>15, ArriveRight DEF RefusalStands
<1>16. ASSUME Leave(q) PROVE RefusalStands(q)'
  BY <1>16, LeaveRight DEF RefusalStands
<1> QED BY <1>6, <1>8, <1>9, <1>10, <1>11, <1>12, <1>13, <1>14, <1>15, <1>16
        DEF RequestStep, Serve

\* A refused request never reaches the function, and the answer to one that
\* succeeded is its own, in programs whose routes share a slice of Opts with
\* UseWithInput only if they read the same part of the request.
LEMMA RefusalsInvariant ==
  ASSUME SharedReadAlike
  PROVE  Spec => [](Sound /\ RefusalsStand)
<1>1. Init => RefusalsStand
  BY DEF Init, Idle, NewConnection, RefusalsStand, RefusalStands
<1>2. Sound /\ RefusalsStand /\ [Next]_vars => RefusalsStand'
  <2> SUFFICES ASSUME Sound, RefusalsStand, [Next]_vars PROVE RefusalsStand'
    OBVIOUS
  <2>1. ASSUME \A q \in Request : conn'[q].phase = "idle" PROVE RefusalsStand'
    BY <2>1 DEF RefusalsStand, RefusalStands
  <2>2. ASSUME NEW q \in Request, RequestStep(q) PROVE RefusalsStand'
    <3>1. RefusalStands(q)'
      BY <2>2, RefusalsStep DEF RefusalsStand
    <3>2. \A p \in Request : p # q => RefusalStands(p)'
      BY <2>2, RequestStepOf, OthersStayRight DEF RefusalsStand
    <3> QED BY <3>1, <3>2 DEF RefusalsStand
  <2>3. CASE UNCHANGED vars
    BY <2>3 DEF vars, RefusalsStand, RefusalStands, QueryRefused
  <2> QED BY <2>1, <2>2, <2>3, Steps
<1> QED BY <1>1, <1>2, AlwaysSound, PTL DEF Spec

-----------------------------------------------------------------------------
(* What the service promises.                                              *)

\* Request q goes from phase `from' to phase `to', and its fate to `fate'.
Moves(q, from, to, fate) ==
  conn[q].phase = from /\ conn'[q].phase = to /\ conn'[q].fate = fate

\* The moves of a request.
LEMMA RequestMoves ==
  ASSUME Sound, NEW q \in Request, RequestStep(q)
  PROVE  \/ Moves(q, "idle", "chain", "open")
         \/ Moves(q, "chain", "chain", conn[q].fate)
         \/ Moves(q, "chain", "panic", conn[q].fate)
         \/ Moves(q, "chain", "chain", "refused")
         \/ Moves(q, "chain", "done", "refused")
         \/ Moves(q, "chain", "done", "stopped")
         \/ Moves(q, "chain", "fn", conn[q].fate)
         \/ Moves(q, "fn", "done", "failed")
         \/ Moves(q, "fn", "done", "succeeded")
         \/ conn[q].phase = "done" /\ conn'[q].phase = "idle"
<1>1. CASE RunMiddleware(q)
  BY <1>1, RunMiddlewareRight DEF RunMiddleware, InChain, GoesOn, Goes, Moves
<1>2. CASE DecodeQueryEarly(q)
  BY <1>2, DecodeQueryEarlyRight DEF DecodeQueryEarly, InChain, GoesOn, Goes, Moves
<1>3. CASE DecodeBodyEarly(q)
  BY <1>3, DecodeBodyEarlyRight DEF DecodeBodyEarly, InChain, GoesOn, Goes, Moves
<1>4. CASE CallWithoutInput(q)
  BY <1>4, CallWithoutInputRight DEF CallWithoutInput, AtAction, Goes, Moves
<1>5. CASE CallWithLocal(q)
  <2>1. conn[q].phase = "chain" /\ RequestRight(q) /\ AtAction(q)
    BY <1>5 DEF Sound, CallWithLocal, AtAction
  <2>2. LocalFits(q) /\ conn[q].local.cell = None => conn[q].fate = "refused"
    BY <2>1 DEF RequestRight, LocalRight, LocalFits
  <2> QED BY <1>5, <2>1, <2>2, CallWithLocalRight DEF Goes, Moves
<1>6. CASE CallWithQuery(q)
  BY <1>6, CallWithQueryRight DEF Decodes, AtAction, CalledWithOwn, Goes, Moves
<1>7. CASE CallWithBody(q)
  BY <1>7, CallWithBodyRight DEF Decodes, AtAction, CalledWithOwn, Goes, Moves
<1>8. CASE FnFails(q)
  BY <1>8, FnFailsRight DEF FnFails, Goes, Moves
<1>9. CASE FnSucceeds(q)
  BY <1>9, FnSucceedsRight DEF FnSucceeds, Goes, Moves
<1>10. ASSUME NEW r \in DOMAIN chain, NEW sent \in Sent, Arrive(q, r, sent[1], sent[2])
       PROVE  Moves(q, "idle", "chain", "open")
  BY <1>10, ArriveRight DEF Moves
<1>11. CASE Leave(q)
  BY <1>11, LeaveRight
<1> QED BY <1>1, <1>2, <1>3, <1>4, <1>5, <1>6, <1>7, <1>8, <1>9, <1>10, <1>11
        DEF RequestStep, Serve

\* A client sees only a step of its own request.
LEMMA SeenStep ==
  ASSUME NEW q \in Request, StepOf(q), NEW to, Stage(q)' = to, NEW a, Answer(q)' = a
  PROVE  /\ [p \in Request |-> Stage(p)]' = [[p \in Request |-> Stage(p)] EXCEPT ![q] = to]
         /\ [p \in Request |-> Answer(p)]' = [[p \in Request |-> Answer(p)] EXCEPT ![q] = a]
<1>1. \A p \in Request : p # q => conn'[p] = conn[p]
  BY DEF StepOf, Untouched
<1>2. ASSUME NEW p \in Request, p # q
      PROVE  Stage(p)' = Stage(p) /\ Answer(p)' = Answer(p)
  BY <1>1, <1>2 DEF Stage, Answer
<1> QED BY <1>2

\* The promise is made of each request on its own.
LEMMA Promised ==
  ASSUME NEW q \in Request, StepOf(q),
         \/ Stage(q) = "idle" /\ Answer(q) = "none"
            /\ Stage(q)' = "open" /\ Answer(q)' = "none"
         \/ Stage(q)' = Stage(q) /\ Answer(q)' = Answer(q)
         \/ Stage(q) \in {"open", "refused"} /\ Answer(q) = "none"
            /\ Stage(q)' = "refused" /\ Answer(q)' \in {"none", "error"}
         \/ Stage(q) \in {"open", "refused"} /\ Answer(q) = "none"
            /\ Stage(q)' = "stopped" /\ Answer(q)' = "own"
         \/ Stage(q) = "open" /\ Answer(q) = "none"
            /\ Stage(q)' = "running" /\ Answer(q)' = "none"
         \/ Stage(q) = "running" /\ Answer(q) = "none"
            /\ Stage(q)' = "succeeded" /\ Answer(q)' = "success"
         \/ Stage(q) = "running" /\ Answer(q) = "none"
            /\ Stage(q)' = "failed" /\ Answer(q)' = "error"
         \/ Answer(q) # "none" /\ Stage(q)' = "idle" /\ Answer(q)' = "none"
  PROVE  [Service!Next]_(Service!vars)
<1> DEFINE st == [p \in Request |-> Stage(p)]
           an == [p \in Request |-> Answer(p)]
<1>1. st[q] = Stage(q) /\ an[q] = Answer(q)
  OBVIOUS
<1>2. \A to, a : Stage(q)' = to /\ Answer(q)' = a =>
                   st' = [st EXCEPT ![q] = to] /\ an' = [an EXCEPT ![q] = a]
  BY SeenStep
<1>3. CASE Stage(q)' = Stage(q) /\ Answer(q)' = Answer(q)
  <2>1. st' = [st EXCEPT ![q] = st[q]] /\ an' = [an EXCEPT ![q] = an[q]]
    BY <1>1, <1>2, <1>3
  <2>2. st' = st /\ an' = an
    BY <2>1
  <2> QED BY <2>2 DEF Service!vars
<1> HIDE DEF st, an
<1>4. ASSUME \/ Service!Open(q) \/ Service!Refuse(q) \/ Service!Stop(q)
             \/ Service!Run(q) \/ Service!Succeed(q) \/ Service!Fail(q)
             \/ Service!Close(q)
      PROVE  Service!Next
  BY <1>4 DEF Service!Next
<1> USE DEF Service!Becomes, Service!With, st, an
<1>5. CASE Stage(q) = "idle" /\ Answer(q) = "none"
           /\ Stage(q)' = "open" /\ Answer(q)' = "none"
  BY <1>1, <1>2, <1>4, <1>5 DEF Service!Open
<1>6. CASE Stage(q) \in {"open", "refused"} /\ Answer(q) = "none"
           /\ Stage(q)' = "refused" /\ Answer(q)' \in {"none", "error"}
  BY <1>1, <1>2, <1>4, <1>6 DEF Service!Refuse
<1>7. CASE Stage(q) \in {"open", "refused"} /\ Answer(q) = "none"
           /\ Stage(q)' = "stopped" /\ Answer(q)' = "own"
  BY <1>1, <1>2, <1>4, <1>7 DEF Service!Stop
<1>8. CASE Stage(q) = "open" /\ Answer(q) = "none"
           /\ Stage(q)' = "running" /\ Answer(q)' = "none"
  BY <1>1, <1>2, <1>4, <1>8 DEF Service!Run
<1>9. CASE Stage(q) = "running" /\ Answer(q) = "none"
           /\ Stage(q)' = "succeeded" /\ Answer(q)' = "success"
  BY <1>1, <1>2, <1>4, <1>9 DEF Service!Succeed
<1>10. CASE Stage(q) = "running" /\ Answer(q) = "none"
            /\ Stage(q)' = "failed" /\ Answer(q)' = "error"
  BY <1>1, <1>2, <1>4, <1>10 DEF Service!Fail
<1>11. CASE Answer(q) # "none" /\ Stage(q)' = "idle" /\ Answer(q)' = "none"
  BY <1>1, <1>2, <1>4, <1>11 DEF Service!Close
<1> QED BY <1>3, <1>5, <1>6, <1>7, <1>8, <1>9, <1>10, <1>11

\* Each move of a request is one that the service promises.
LEMMA RequestKeepsPromise ==
  ASSUME Sound, Sound', NEW q \in Request, RefusalStands(q), RefusalStands(q)',
         RequestStep(q)
  PROVE  [Service!Next]_(Service!vars)
<1>1. StepOf(q) /\ AnswerRight(q) /\ AnswerRight(q)'
  BY RequestStepRight DEF StepRight, Sound, RequestRight
<1>2. conn[q].phase \in Waiting => conn[q].fate \in {"open", "refused"}
  BY <1>1 DEF AnswerRight
<1>3. CASE Moves(q, "idle", "chain", "open")
  BY <1>1, <1>3, Promised DEF Moves, Stage, Answer
<1>4. CASE \/ Moves(q, "chain", "chain", conn[q].fate)
           \/ Moves(q, "chain", "panic", conn[q].fate)
  BY <1>1, <1>4, Promised DEF Moves, Stage, Answer
<1>5. CASE Moves(q, "chain", "chain", "refused")
  BY <1>1, <1>2, <1>5, Promised DEF Moves, Stage, Answer, Waiting
<1>6. CASE Moves(q, "chain", "done", "refused")
  <2>1. conn'[q].status # "own" /\ conn'[q].status # "ok"
    BY <1>1, <1>6 DEF Moves, AnswerRight
  <2> QED BY <1>1, <1>2, <1>6, <2>1, Promised DEF Moves, Stage, Answer, Waiting
<1>7. CASE Moves(q, "chain", "done", "stopped")
  <2>1. conn'[q].status = "own"
    BY <1>1, <1>7 DEF Moves, AnswerRight
  <2> QED BY <1>1, <1>2, <1>7, <2>1, Promised DEF Moves, Stage, Answer, Waiting
<1>8. CASE Moves(q, "chain", "fn", conn[q].fate)
  <2>1. conn[q].fate = "open"
    BY <1>8 DEF Moves, RefusalStands
  <2> QED BY <1>1, <1>8, <2>1, Promised DEF Moves, Stage, Answer
<1>9. CASE Moves(q, "fn", "done", "failed")
  <2>1. conn'[q].status # "own" /\ conn'[q].status # "ok"
    BY <1>1, <1>9 DEF Moves, AnswerRight
  <2> QED BY <1>1, <1>9, <2>1, Promised DEF Moves, Stage, Answer
<1>10. CASE Moves(q, "fn", "done", "succeeded")
  <2>1. conn'[q].status = "ok"
    BY <1>10 DEF Moves, RefusalStands
  <2> QED BY <1>1, <1>10, <2>1, Promised DEF Moves, Stage, Answer
<1>11. CASE conn[q].phase = "done" /\ conn'[q].phase = "idle"
  BY <1>1, <1>11, Promised DEF Stage, Answer
<1> QED BY <1>3, <1>4, <1>5, <1>6, <1>7, <1>8, <1>9, <1>10, <1>11, RequestMoves

\* The pipeline implements RequestService: a request is refused, or its function
\* runs once, and the answer says which, whatever the other requests are at.
\* Routes that share a slice of Opts with UseWithInput must read the same part of
\* the request: after a refused query a body could still be accepted, and the
\* function run for a request that has been refused.
THEOREM ServiceImplemented == ASSUME SharedReadAlike PROVE Spec => ImplementsService
<1>1. Init => Service!Init
  BY DEF Init, Idle, NewConnection, Service!Init, Stage, Answer
<1>2. /\ Sound /\ RefusalsStand /\ Sound' /\ RefusalsStand' /\ [Next]_vars
      => [Service!Next]_(Service!vars)
  <2> SUFFICES ASSUME Sound, RefusalsStand, Sound', RefusalsStand', [Next]_vars
               PROVE  [Service!Next]_(Service!vars)
    OBVIOUS
  <2>1. ASSUME \A p \in Request : Stage(p)' = Stage(p) /\ Answer(p)' = Answer(p)
        PROVE  [Service!Next]_(Service!vars)
    BY <2>1 DEF Service!vars
  <2>2. CASE \A q \in Request : conn[q].phase = "idle" /\ conn'[q].phase = "idle"
    BY <2>1, <2>2 DEF Stage, Answer
  <2>3. ASSUME NEW q \in Request, RequestStep(q)
        PROVE  [Service!Next]_(Service!vars)
    BY <2>3, RequestKeepsPromise DEF RefusalsStand
  <2>4. CASE UNCHANGED vars
    BY <2>1, <2>4 DEF vars, Stage, Answer
  <2> QED BY <2>2, <2>3, <2>4, Steps
<1> QED BY <1>1, <1>2, RefusalsInvariant, PTL DEF Spec, ImplementsService, Service!Spec

-----------------------------------------------------------------------------
(* Routes with slices of their own.                                        *)

\* A request at a decoder is at its route's own, one at another handler is before
\* or past it.
LEMMA OwnPlace ==
  ASSUME Sound, ChainOwn, NEW q \in Request, InChain(q), conn[q].route \in Early
  PROVE  LET place == Place(conn[q].route)
         IN  /\ conn[q].at \in Nat /\ place \in {1, 2}
             /\ Current(q).kind = "use" => conn[q].at < place
             /\ Current(q).kind = "uses" => conn[q].at > place
             /\ Current(q).kind \in {"query", "body"} =>
                  /\ conn[q].at = place
                  /\ Current(q).type = Def[conn[q].route].in
                  /\ Current(q).kind = Source(conn[q].route)
<1> DEFINE r == conn[q].route
<1>1. conn[q].at \in Nat /\ r \in DOMAIN chain /\ conn[q].at \in DOMAIN chain[r]
  BY CurrentLemma DEF Sound, RequestRight, InChain
<1>2. Place(r) \in {1, 2}
  BY DEF Place
<1>3. /\ DecoderOf(r).kind \in {"query", "body"}
      /\ DecoderOf(r).kind = Source(r) /\ DecoderOf(r).type = Def[r].in
  BY EarlyRoutes
<1>4. /\ conn[q].at < Place(r) => Current(q).kind = "use"
      /\ conn[q].at = Place(r) => Current(q) = DecoderOf(r)
      /\ conn[q].at > Place(r) => Current(q).kind = "uses"
  BY <1>1 DEF ChainOwn, Current
<1>5. conn[q].at < Place(r) \/ conn[q].at = Place(r) \/ conn[q].at > Place(r)
  BY <1>1, <1>2
<1> QED BY <1>1, <1>2, <1>3, <1>4, <1>5

\* The local changes at the decoder and nowhere else.
LEMMA OwnLocalStep ==
  ASSUME Sound, ChainOwn, NEW q \in Request, OwnLocal(q), RequestStep(q)
  PROVE  OwnLocal(q)'
<1> DEFINE r == conn[q].route
<1>1. chain' = chain /\ TypeOK /\ ChainRight /\ DOMAIN chain \subseteq Route
  BY RequestStepOf DEF Sound, TypeOK
<1>2. ASSUME conn'[q].phase # "chain" PROVE OwnLocal(q)'
  BY <1>2 DEF OwnLocal
\* A handler that is no decoder is not at the decoder's place.
<1>3. ASSUME InChain(q), GoesOn(q, conn[q].local, conn[q].fate),
             Current(q).kind \in {"use", "uses"}
      PROVE  OwnLocal(q)'
  <2>1. CASE r \in Early
    <3>1. /\ conn[q].at \in Nat /\ Place(r) \in {1, 2}
          /\ conn[q].at < Place(r) \/ conn[q].at > Place(r)
      BY <1>3, <2>1, OwnPlace
    <3>2. conn[q].phase = "chain"
      BY <1>3 DEF InChain
    <3> QED BY <1>3, <2>1, <3>1, <3>2 DEF OwnLocal, GoesOn, Goes
  <2>2. CASE r \notin Early
    BY <1>3, <2>2 DEF OwnLocal, GoesOn, Goes
  <2> QED BY <2>1, <2>2
\* A decoder is, and what it puts in the locals has the right type.
<1>4. ASSUME InChain(q), Current(q).kind \in {"query", "body"},
             NEW local \in Pointer, NEW fate, GoesOn(q, local, fate),
             local.type = Current(q).type
      PROVE  OwnLocal(q)'
  <2>1. CASE r \in Early
    <3>1. /\ conn[q].at \in Nat /\ Place(r) \in {1, 2}
          /\ conn[q].at = Place(r) /\ Current(q).type = Def[r].in
      BY <1>4, <2>1, OwnPlace
    <3> QED BY <1>4, <3>1, NoneAssumption DEF OwnLocal, GoesOn, Goes
  <2>2. CASE r \notin Early
    BY <1>4, <2>2 DEF OwnLocal, GoesOn, Goes
  <2> QED BY <2>1, <2>2
<1>5. ASSUME RunMiddleware(q) PROVE OwnLocal(q)'
  BY <1>2, <1>3, <1>5, RunMiddlewareRight DEF RunMiddleware, Goes
<1>6. ASSUME DecodeQueryEarly(q) PROVE OwnLocal(q)'
  <2>1. InChain(q) /\ Current(q).kind = "query"
    BY <1>6 DEF DecodeQueryEarly
  <2>2. CASE Goes(q, "panic", conn[q].fate)
    BY <1>2, <2>2 DEF Goes
  <2>3. CASE \E local \in Pointer, fate \in {"refused", conn[q].fate} :
               GoesOn(q, local, fate) /\ local.type = Current(q).type
    BY <1>4, <2>1, <2>3
  <2> QED BY <1>6, <2>2, <2>3, DecodeQueryEarlyRight
<1>7. ASSUME DecodeBodyEarly(q) PROVE OwnLocal(q)'
  <2>1. InChain(q) /\ Current(q).kind = "body"
    BY <1>7 DEF DecodeBodyEarly
  <2>2. CASE Goes(q, "done", "refused")
    BY <1>2, <2>2 DEF Goes
  <2>3. CASE \E local \in Pointer :
               GoesOn(q, local, conn[q].fate) /\ local.type = Current(q).type
    BY <1>4, <2>1, <2>3
  <2> QED BY <1>7, <2>2, <2>3, DecodeBodyEarlyRight
<1>8. ASSUME \/ CallWithoutInput(q) \/ CallWithLocal(q) \/ CallWithQuery(q)
             \/ CallWithBody(q) \/ FnFails(q) \/ FnSucceeds(q) \/ Leave(q)
      PROVE  OwnLocal(q)'
  <2>1. conn'[q].phase # "chain"
    BY <1>8, CallWithoutInputRight, CallWithLocalRight, CallWithQueryRight,
       CallWithBodyRight, FnFailsRight, FnSucceedsRight, LeaveRight
       DEF Goes, CalledWithOwn
  <2> QED BY <1>2, <2>1
<1>9. ASSUME NEW s \in DOMAIN chain, NEW sent \in Sent, Arrive(q, s, sent[1], sent[2])
      PROVE  OwnLocal(q)'
  <2>1. conn'[q].at = 1 /\ conn'[q].local = None
    BY <1>9, ArriveRight
  <2> QED BY <2>1 DEF OwnLocal, Place
<1> QED BY <1>5, <1>6, <1>7, <1>8, <1>9 DEF RequestStep, Serve

\* Nothing has been registered, so the slices are as the user made them.
LEMMA OwnInit == Init => OwnDecoders
<1> SUFFICES ASSUME Init PROVE OwnDecoders
  OBVIOUS
<1>1. DOMAIN chain = {}
  BY DEF Init
<1>2. \A o \in OptsSlice : \A i \in DOMAIN uses[o] : uses[o][i].kind = "uses"
  BY DEF Init
<1>3. \A q \in Request : OwnLocal(q)
  BY DEF Init, Idle, NewConnection, OwnLocal
<1> QED BY <1>1, <1>2, <1>3 DEF OwnDecoders, UsesOwn, ChainOwn

\* A registration adds a chain with its own decoder; a request changes none.
LEMMA OwnStep ==
  ASSUME OwnOpts, Sound, OwnDecoders, [Next]_vars
  PROVE  OwnDecoders'
<1>1. TypeOK /\ UsesOwn /\ ChainOwn
  BY DEF Sound, OwnDecoders
<1>2. CASE \A q \in Request : conn[q].phase = "idle" /\ conn'[q].phase = "idle"
  <2>1. \A q \in Request : OwnLocal(q)'
    BY <1>2 DEF OwnLocal
  <2>2. ASSUME NEW r \in Route, Register(r) PROVE UsesOwn' /\ ChainOwn'
    BY <1>1, <2>2, RegisterOwn
  <2>3. ASSUME UNCHANGED <<uses, chain>> PROVE UsesOwn' /\ ChainOwn'
    BY <1>1, <2>3 DEF UsesOwn, ChainOwn
  <2>4. ASSUME NEW q \in Request, RequestStep(q) PROVE UNCHANGED <<uses, chain>>
    BY <2>4, RequestStepOf
  <2>5. UsesOwn' /\ ChainOwn'
    BY <2>2, <2>3, <2>4, Steps DEF Listen, vars
  <2> QED BY <2>1, <2>5 DEF OwnDecoders
<1>3. ASSUME NEW q \in Request, RequestStep(q) PROVE OwnDecoders'
  <2>1. UNCHANGED <<uses, chain>> /\ \A p \in Request : p # q => Untouched(p)
    BY <1>3, RequestStepOf
  <2>2. UsesOwn' /\ ChainOwn'
    BY <1>1, <2>1 DEF UsesOwn, ChainOwn
  <2>3. OwnLocal(q)'
    BY <1>1, <1>3, OwnLocalStep DEF OwnDecoders
  <2>4. \A p \in Request : p # q => OwnLocal(p)'
    BY <1>3, RequestStepOf, OthersStayRight DEF OwnDecoders
  <2> QED BY <2>2, <2>3, <2>4 DEF OwnDecoders
<1>4. CASE UNCHANGED vars
  BY <1>4 DEF vars, OwnDecoders, UsesOwn, ChainOwn, OwnLocal
<1> QED BY <1>2, <1>3, <1>4, Steps

\* Chains and locals are so in every state.
LEMMA OwnInvariant == ASSUME OwnOpts PROVE Spec => [](Sound /\ OwnDecoders)
<1>1. Sound /\ OwnDecoders /\ [Next]_vars => OwnDecoders'
  BY OwnStep
<1> QED BY <1>1, OwnInit, AlwaysSound, PTL DEF Spec

\* Opts.Use runs before there is an input, in every program, and Opts.Uses of a
\* route with UseWithInput after it has been looked for, in every program that
\* gives such routes slices of their own (http.go:62-77, :28-32).
THEOREM InOrder == ASSUME OwnOpts PROVE Spec => []StagesInOrder
<1>1. Sound /\ OwnDecoders => StagesInOrder
  <2> SUFFICES ASSUME Sound, OwnDecoders, NEW q \in Request, InChain(q)
               PROVE  /\ Current(q).kind = "use" => conn[q].local = None
                      /\ Current(q).kind = "uses" /\ WithInput(conn[q].route) =>
                           /\ conn[q].local # None
                           /\ conn[q].local.type = Def[conn[q].route].in
    BY DEF StagesInOrder
  <2> DEFINE r == conn[q].route
  <2>1. /\ conn[q].phase = "chain" /\ r \in DOMAIN chain /\ r \in Route
        /\ conn[q].at \in DOMAIN chain[r]
    BY CurrentLemma DEF Sound, RequestRight, InChain
  <2>2. ASSUME Current(q).kind = "use" PROVE conn[q].local = None
    <3>1. conn[q].at = 1
      <4>1. \/ conn[q].at = 1
            \/ Def[r].opts # None /\ HeldBy(Def[r].opts, Current(q))
        BY <2>1 DEF Sound, ChainRight, Current
      <4>2. Def[r].opts # None => ~HeldBy(Def[r].opts, Current(q))
        BY <2>1, <2>2, Routes, HeldLemma
      <4> QED BY <4>1, <4>2
    <3> QED BY <2>1, <3>1 DEF Sound, RequestRight, LocalRight
  <2>3. ASSUME Current(q).kind = "uses", WithInput(r)
        PROVE  conn[q].local # None /\ conn[q].local.type = Def[r].in
    <3>1. r \in Early
      BY <2>1, <2>3, SharingRoutes DEF Sound, TypeOK
    <3>2. conn[q].at > Place(r)
      BY <2>3, <3>1, OwnPlace DEF OwnDecoders
    <3> QED BY <2>1, <3>1, <3>2 DEF OwnDecoders, OwnLocal
  <2> QED BY <2>2, <2>3
<1> QED BY <1>1, OwnInvariant, PTL

\* A request with the right input is not refused and nothing panics: what is
\* refused is what the route reads, and a local of the right type is there.
LEMMA UnrefusedStep ==
  ASSUME HasValidator, Sound, OwnDecoders, NEW q \in Request, Unrefused(q), RequestStep(q)
  PROVE  Unrefused(q)'
<1> DEFINE r == conn[q].route
<1>1. /\ TypeOK /\ ChainRight /\ RequestRight(q) /\ DOMAIN chain \subseteq Route
      /\ ChainOwn /\ OwnLocal(q)
  BY DEF Sound, TypeOK, OwnDecoders
\* A request keeps its parts and its route.
<1>2. ASSUME NEW phase, NEW fate, Goes(q, phase, fate), Acceptable(q)'
      PROVE  Acceptable(q)
  BY <1>2 DEF Goes, Acceptable
<1>3. ASSUME NEW phase, Goes(q, phase, conn[q].fate), conn[q].phase # "idle",
             phase # "panic"
      PROVE  Unrefused(q)'
  BY <1>2, <1>3 DEF Goes, Unrefused
<1>4. ASSUME NEW phase, NEW fate, Goes(q, phase, fate), phase # "panic",
             fate # "refused"
      PROVE  Unrefused(q)'
  BY <1>4 DEF Goes, Unrefused
<1>5. ASSUME NEW phase, NEW fate, Goes(q, phase, fate), ~Acceptable(q)
      PROVE  Unrefused(q)'
  BY <1>2, <1>5 DEF Unrefused
<1>6. ~QueryPanics(q)
  BY DEF QueryPanics
\* What is refused or accepted is what the route reads.
<1>7. ASSUME r \in Route, TakesInput(r)
      PROVE  /\ Source(r) = "query" /\ QueryRefused(q) => ~Acceptable(q)
             /\ Source(r) = "body" /\ conn[q].body \notin Bindable => ~Acceptable(q)
  <2>1. Reads(r) = Source(r)
    BY <1>7, Routes
  <2> QED BY <1>7, <2>1 DEF Acceptable, QueryRefused, Bindable
<1>8. ASSUME InChain(q), Current(q).kind \in {"query", "body"}
      PROVE  /\ r \in Route /\ TakesInput(r) /\ Source(r) = Current(q).kind
             /\ conn[q].phase = "chain"
  <2>1. conn[q].phase = "chain" /\ r \in DOMAIN chain /\ r \in Route
    BY <1>1, <1>8, CurrentLemma DEF RequestRight
  <2>2. PICK s \in Early : Def[s].opts = Def[r].opts
    BY <1>1, <1>8, CurrentLemma DEF RequestRight
  <2>3. r \in Early
    BY <1>1, <2>1, <2>2, EarlyRoutes, SharingRoutes
  <2> QED BY <1>1, <1>8, <2>1, <2>3, OwnPlace DEF Early
<1>9. ASSUME RunMiddleware(q) PROVE Unrefused(q)'
  <2>1. conn[q].phase # "idle"
    BY <1>9 DEF RunMiddleware, InChain
  <2> QED BY <1>3, <1>4, <1>9, <2>1, RunMiddlewareRight DEF GoesOn
<1>10. ASSUME DecodeQueryEarly(q) PROVE Unrefused(q)'
  <2>1. /\ r \in Route /\ TakesInput(r) /\ Source(r) = "query"
        /\ conn[q].phase = "chain"
    BY <1>8, <1>10 DEF DecodeQueryEarly
  <2>2. ASSUME QueryRefused(q), NEW nil, GoesOn(q, nil, "refused") PROVE Unrefused(q)'
    BY <1>5, <1>7, <2>1, <2>2 DEF GoesOn
  <2>3. ASSUME NEW input, GoesOn(q, input, conn[q].fate) PROVE Unrefused(q)'
    BY <1>3, <2>1, <2>3 DEF GoesOn
  <2> QED BY <1>6, <1>10, <2>2, <2>3, DecodeQueryEarlyRight
<1>11. ASSUME DecodeBodyEarly(q) PROVE Unrefused(q)'
  <2>1. /\ r \in Route /\ TakesInput(r) /\ Source(r) = "body"
        /\ conn[q].phase = "chain"
    BY <1>8, <1>11 DEF DecodeBodyEarly
  <2>2. ASSUME conn[q].body \notin Bindable, Goes(q, "done", "refused")
        PROVE  Unrefused(q)'
    BY <1>5, <1>7, <2>1, <2>2
  <2>3. ASSUME NEW input, GoesOn(q, input, conn[q].fate) PROVE Unrefused(q)'
    BY <1>3, <2>1, <2>3 DEF GoesOn
  <2> QED BY <1>11, <2>2, <2>3, DecodeBodyEarlyRight
<1>12. ASSUME CallWithoutInput(q) PROVE Unrefused(q)'
  <2>1. conn[q].phase # "idle"
    BY <1>12 DEF CallWithoutInput, AtAction
  <2> QED BY <1>3, <1>12, <2>1, CallWithoutInputRight
<1>13. ASSUME CallWithLocal(q) PROVE Unrefused(q)'
  <2>1. conn[q].phase = "chain" /\ AtAction(q) /\ WithInput(r)
    BY <1>13 DEF CallWithLocal, AtAction
  <2>2. /\ r \in DOMAIN chain /\ chain[r] \in Seq(Handler)
        /\ conn[q].at = Len(chain[r]) + 1
    BY <1>1, <2>1, ActionLemma DEF RequestRight
  <2>3. r \in Early
    BY <1>1, <2>1, <2>2, SharingRoutes
  <2>4. Place(r) \in DOMAIN chain[r]
    BY <1>1, <2>2, <2>3 DEF ChainOwn
  <2>5. conn[q].at > Place(r)
    BY <2>2, <2>4
  <2>6. LocalFits(q)
    BY <1>1, <2>1, <2>3, <2>5 DEF OwnLocal, LocalFits
  <2> QED BY <1>3, <1>13, <2>1, <2>6, CallWithLocalRight
<1>14. ASSUME CallWithQuery(q) PROVE Unrefused(q)'
  <2>1. /\ conn[q].phase = "chain" /\ AtAction(q)
        /\ TakesInput(r) /\ Source(r) = "query"
    BY <1>14 DEF CallWithQuery, Decodes, AtAction
  <2>2. r \in Route
    BY <1>1, <2>1, ActionLemma DEF RequestRight
  <2>3. CASE Goes(q, "done", "refused") /\ QueryRefused(q)
    BY <1>5, <1>7, <2>1, <2>2, <2>3
  <2>4. CASE Goes(q, "fn", conn[q].fate)
    BY <1>3, <2>1, <2>4
  <2> QED BY <1>6, <1>14, <2>3, <2>4, CallWithQueryRight DEF CalledWithOwn
<1>15. ASSUME CallWithBody(q) PROVE Unrefused(q)'
  <2>1. /\ conn[q].phase = "chain" /\ AtAction(q)
        /\ TakesInput(r) /\ Source(r) = "body"
    BY <1>15 DEF CallWithBody, Decodes, AtAction
  <2>2. r \in Route
    BY <1>1, <2>1, ActionLemma DEF RequestRight
  <2>3. CASE Goes(q, "done", "refused") /\ conn[q].body \notin Bindable
    BY <1>5, <1>7, <2>1, <2>2, <2>3
  <2>4. CASE Goes(q, "fn", conn[q].fate)
    BY <1>3, <2>1, <2>4
  <2> QED BY <1>15, <2>3, <2>4, CallWithBodyRight DEF CalledWithOwn
<1>16. ASSUME FnFails(q) \/ FnSucceeds(q) PROVE Unrefused(q)'
  BY <1>4, <1>16, FnFailsRight, FnSucceedsRight
<1>17. ASSUME NEW s \in DOMAIN chain, NEW sent \in Sent, Arrive(q, s, sent[1], sent[2])
       PROVE  Unrefused(q)'
  BY <1>17, ArriveRight DEF Unrefused
<1>18. ASSUME Leave(q) PROVE Unrefused(q)'
  BY <1>18, LeaveRight DEF Unrefused
<1> QED BY <1>9, <1>10, <1>11, <1>12, <1>13, <1>14, <1>15, <1>16, <1>17, <1>18
        DEF RequestStep, Serve

\* A request whose input is as it should be gets to the function, unless a
\* middleware answers it, in every program that has a validator and gives the
\* routes with UseWithInput slices of their own: it is not refused for what it
\* does not read, and nothing panics on the way.
THEOREM AcceptableAreServed ==
  ASSUME OwnOpts, HasValidator
  PROVE  Spec => []AcceptableIsServed
<1>1. Init => AcceptableUnrefused
  BY DEF Init, Idle, NewConnection, AcceptableUnrefused, Unrefused
<1>2. Sound /\ OwnDecoders /\ AcceptableUnrefused /\ [Next]_vars => AcceptableUnrefused'
  <2> SUFFICES ASSUME Sound, OwnDecoders, AcceptableUnrefused, [Next]_vars
               PROVE  AcceptableUnrefused'
    OBVIOUS
  <2>1. ASSUME \A q \in Request : conn'[q].phase = "idle" PROVE AcceptableUnrefused'
    BY <2>1 DEF AcceptableUnrefused, Unrefused
  <2>2. ASSUME NEW q \in Request, RequestStep(q) PROVE AcceptableUnrefused'
    <3>1. Unrefused(q)'
      BY <2>2, UnrefusedStep DEF AcceptableUnrefused
    <3>2. \A p \in Request : p # q => Unrefused(p)'
      BY <2>2, RequestStepOf, OthersStayRight DEF AcceptableUnrefused
    <3> QED BY <3>1, <3>2 DEF AcceptableUnrefused
  <2>3. CASE UNCHANGED vars
    BY <2>3 DEF vars, AcceptableUnrefused, Unrefused, Acceptable
  <2> QED BY <2>1, <2>2, <2>3, Steps
<1>3. Sound /\ AcceptableUnrefused => AcceptableIsServed
  <2> SUFFICES ASSUME Sound, AcceptableUnrefused, NEW q \in Request,
                      conn[q].phase \in {"done", "panic"}, Acceptable(q),
                      conn[q].fate # "stopped"
               PROVE  conn[q].phase = "done" /\ conn[q].fate \in {"succeeded", "failed"}
    BY DEF AcceptableIsServed
  <2>1. conn[q].phase = "done" /\ conn[q].fate # "refused"
    BY DEF AcceptableUnrefused, Unrefused
  <2>2. conn[q].fate # "open"
    BY <2>1 DEF Sound, RequestRight, AnswerRight
  <2>3. conn[q].fate \in {"open", "refused", "stopped", "succeeded", "failed"}
    BY DEF Sound, TypeOK, Connection
  <2> QED BY <2>1, <2>2, <2>3
<1> QED BY <1>1, <1>2, <1>3, OwnInvariant, PTL DEF Spec
=============================================================================
