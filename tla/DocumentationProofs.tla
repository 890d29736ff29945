------------------------ MODULE DocumentationProofs ------------------------
(***************************************************************************)
(* Proofs about registry, route table and createOpenAPI together.          *)
(*                                                                         *)
(* That they are in step (DocTypeOK) is proved for every program.  The     *)
(* other theorems are about the programs the registry's theorems are       *)
(* about: there, what is served and what is exported was registered, a     *)
(* document is complete and faithful, and the program sees of it all the   *)
(* route table RouteTable describes.                                       *)
(*                                                                         *)
(* The invariant has a part for each actor.  CallRight: the models of a    *)
(* call are registered or on their way.  BuildRight: what createOpenAPI    *)
(* has said so far is right and stays so, and what it has not said yet is  *)
(* still to come.  Both rest on this, that what the registry shows only    *)
(* grows (ShownGrows), which CatalogueProofs has proved of it.             *)
(***************************************************************************)
EXTENDS Documentation, CatalogueProofs

TableProofs == INSTANCE RouteTableProofs WITH
  Fields   <- QueryFields,
  Refused  <- { t \in Type : \E b \in Below[t] : Kind[b] = "badmap" },
  MayPanic <- { t \in Type : \E b \in Below[t] : Kind[b] = "enum" }

-----------------------------------------------------------------------------
(* The route table of RouteTableProofs is that of Documentation.           *)

\* The program is one its proofs are about.
LEMMA TableProgram ==
  /\ TableProofs!RegistrationAssumption /\ TableProofs!ChangeAssumption
  /\ TableProofs!NoneAssumption
BY TableAssumption
   DEF TableProofs!RegistrationAssumption, Table!RegistrationAssumption,
       TableProofs!ChangeAssumption, Table!ChangeAssumption,
       TableProofs!NoneAssumption, Table!NoneAssumption,
       TableProofs!Doc, Table!Doc, TableProofs!RouteKey, Table!RouteKey,
       TableProofs!Steps, Table!Steps, TableProofs!Model, Table!Model,
       TableProofs!Status, Table!Status, TableProofs!Method, Table!Method,
       TableProofs!Dto, Table!Dto

\* The types, and the steps of a call, are the same.
LEMMA SameTypes == TableProofs!TypeOK <=> Table!TypeOK
BY DEF TableProofs!TypeOK, Table!TypeOK,
       TableProofs!Doc, Table!Doc, TableProofs!RouteKey, Table!RouteKey,
       TableProofs!Steps, Table!Steps, TableProofs!Model, Table!Model,
       TableProofs!Status, Table!Status, TableProofs!Method, Table!Method,
       TableProofs!Dto, Table!Dto

\* Upserting a route.
LEMMA SameUpsert == TableProofs!Upsert <=> Table!Upsert
BY Zenon DEF TableProofs!Upsert, Table!Upsert, TableProofs!At, Table!At,
       TableProofs!SetRoute, Table!SetRoute, TableProofs!RouteAt, Table!RouteAt,
       TableProofs!NewRoute, Table!NewRoute, TableProofs!KeyOf, Table!KeyOf,
       TableProofs!Goto, Table!Goto

\* Describing it.
LEMMA SameDescribe == TableProofs!Describe <=> Table!Describe
BY Zenon DEF TableProofs!Describe, Table!Describe, TableProofs!At, Table!At,
       TableProofs!SetRoute, Table!SetRoute, TableProofs!KeyOf, Table!KeyOf,
       TableProofs!Goto, Table!Goto, TableProofs!Panic, Table!Panic,
       TableProofs!GetDoc, Table!GetDoc, TableProofs!PostDoc, Table!PostDoc,
       TableProofs!PutDoc, Table!PutDoc, TableProofs!DeleteDoc, Table!DeleteDoc,
       TableProofs!QueryOf, Table!QueryOf,
       TableProofs!HasResponses, Table!HasResponses, TableProofs!OutOr, Table!OutOr

\* Serving it.
LEMMA SameServe == TableProofs!Serve <=> Table!Serve
BY Zenon DEF TableProofs!Serve, Table!Serve, TableProofs!At, Table!At

\* Changing it by hand.
LEMMA SameDirect ==
  ASSUME NEW c PROVE TableProofs!Direct(c) <=> Table!Direct(c)
BY Zenon DEF TableProofs!Direct, Table!Direct, TableProofs!SetRoute, Table!SetRoute,
       TableProofs!RouteAt, Table!RouteAt,
       TableProofs!NewRoute, Table!NewRoute, TableProofs!Merged, Table!Merged,
       TableProofs!Configured, Table!Configured, TableProofs!HasResponses, Table!HasResponses,
       TableProofs!Or, Table!Or

-----------------------------------------------------------------------------
(* Types.                                                                  *)

\* The slots of a route are those of its models.
LEMMA SlotsTyped ==
  ASSUME Table!TypeOK, NEW k \in DOMAIN routes
  PROVE  /\ Slots(k) \subseteq Slot
         /\ \A s \in Slots(k) : /\ s.key = k /\ s.type \in Type /\ s # None
                                /\ s.type \in Table!Modelled(routes[k])
         /\ \A t \in Table!Modelled(routes[k]) : \E s \in Slots(k) : s.type = t
<1>1. k \in Table!RouteKey /\ routes[k] \in Table!Doc
  BY DEF Table!TypeOK
<1>2. /\ routes[k].request \in Type \cup {None}
      /\ routes[k].responses \subseteq Table!Status \X Type
  <2>1. Table!Model \subseteq Type
    BY TableAssumption DEF Table!Model
  <2> QED BY <1>1, <2>1 DEF Table!Doc
<1>3. ASSUME NEW s \in Slots(k)
      PROVE  s \in Slot /\ s.key = k /\ s.type \in Table!Modelled(routes[k])
  <2>1. CASE \E t \in {routes[k].request} \ {None} : s = [key |-> k, at |-> Body, type |-> t]
    BY <1>1, <1>2, <2>1 DEF Slot, Table!Modelled
  <2>2. CASE \E p \in routes[k].responses : s = [key |-> k, at |-> p[1], type |-> p[2]]
    <3>1. PICK p \in routes[k].responses : s = [key |-> k, at |-> p[1], type |-> p[2]]
      BY <2>2
    <3>2. p[1] \in Table!Status /\ p[2] \in Type
      BY <1>2
    <3> QED BY <1>1, <3>1, <3>2 DEF Slot, Table!Modelled
  <2> QED BY <1>3, <2>1, <2>2 DEF Slots
<1>4. \A s \in Slot : s.type \in Type /\ s # None
  BY TableAssumption DEF Slot
<1>5. ASSUME NEW t \in Table!Modelled(routes[k]) PROVE \E s \in Slots(k) : s.type = t
  <2>1. CASE t \in {routes[k].request} \ {None}
    <3>1. [key |-> k, at |-> Body, type |-> t] \in Slots(k)
      BY <2>1 DEF Slots
    <3> QED BY <3>1
  <2>2. CASE \E p \in routes[k].responses : p[2] = t
    <3>1. PICK p \in routes[k].responses : p[2] = t
      BY <2>2
    <3>2. [key |-> k, at |-> p[1], type |-> p[2]] \in Slots(k)
      BY DEF Slots
    <3> QED BY <3>1, <3>2
  <2> QED BY <1>5, <2>1, <2>2 DEF Table!Modelled
<1> QED BY <1>3, <1>4, <1>5

\* The calls that register makes.
LEMMA ModelsOfTyped ==
  ASSUME NEW r \in Registration
  PROVE  /\ ModelsOf(r) \in Seq(Call)
         /\ \A t \in {Def[r].in, Def[r].out} \ {None} : Plain(t) \in Range(ModelsOf(r))
         /\ \A c \in Range(ModelsOf(r)) : c.type \in {Def[r].in, Def[r].out} \ {None}
<1> DEFINE given(t) == IF t = None THEN <<>> ELSE << Plain(t) >>
           in == Def[r].in
           out == Def[r].out
<1>1. in \in Type \cup {None} /\ out \in Type \cup {None}
  BY TableAssumption DEF Table!RegistrationAssumption
<1>2. ASSUME NEW t \in Type \cup {None}
      PROVE  /\ given(t) \in Seq(Call)
             /\ t = None => Len(given(t)) = 0
             /\ t # None => Len(given(t)) = 1 /\ given(t)[1] = Plain(t)
  BY CallsAssumption, EmptySeq
<1> DEFINE all == given(in) \o given(out)
<1> HIDE DEF given, in, out
<1>3. /\ all \in Seq(Call) /\ Len(all) = Len(given(in)) + Len(given(out))
      /\ DOMAIN all = 1..Len(all)
      /\ \A i \in 1..Len(all) : all[i] = IF i <= Len(given(in)) THEN given(in)[i]
                                         ELSE given(out)[i - Len(given(in))]
  BY <1>1, <1>2, ConcatProperties
<1>4. ModelsOf(r) = all
  BY DEF ModelsOf, given, in, out
<1> HIDE DEF all
<1>5. in # None => Plain(in) \in Range(all)
  <2>1. in # None => 1 \in 1..Len(all) /\ all[1] = Plain(in)
    BY <1>1, <1>2, <1>3
  <2> QED BY <1>3, <2>1 DEF Range
<1>6. out # None => Plain(out) \in Range(all)
  <2> DEFINE n == Len(given(in))
  <2>1. n \in {0, 1} /\ (out # None => Len(given(out)) = 1 /\ given(out)[1] = Plain(out))
    BY <1>1, <1>2
  <2> HIDE DEF n
  <2>2. out # None => n + 1 \in 1..Len(all) /\ all[n + 1] = Plain(out)
    BY <1>3, <2>1 DEF n
  <2> QED BY <1>3, <2>2 DEF Range
<1>7. ASSUME NEW c \in Range(all) PROVE c.type \in {in, out} \ {None}
  <2>1. PICK i \in 1..Len(all) : c = all[i]
    BY <1>3 DEF Range
  <2>2. i \in 1..Len(given(in)) \/ i - Len(given(in)) \in 1..Len(given(out))
    BY <1>1, <1>2, <1>3, <2>1
  <2>3. \/ in # None /\ c = Plain(in)
        \/ out # None /\ c = Plain(out)
    BY <1>1, <1>2, <1>3, <2>1, <2>2
  <2> QED BY <2>3 DEF Plain
<1> QED BY <1>3, <1>4, <1>5, <1>6, <1>7 DEF in, out

\* The next call of a list and those after it.
LEMMA TodoLemma ==
  ASSUME todo \in Seq(Call), todo # <<>>
  PROVE  /\ Head(todo) \in Call /\ Head(todo) \in Range(todo)
         /\ Tail(todo) \in Seq(Call)
         /\ Range(Tail(todo)) \subseteq Range(todo)
         /\ \A c \in Range(todo) : c = Head(todo) \/ c \in Range(Tail(todo))
<1>1. /\ Head(todo) \in Call /\ Tail(todo) \in Seq(Call)
      /\ Len(Tail(todo)) = Len(todo) - 1
      /\ \A i \in 1..Len(Tail(todo)) : Tail(todo)[i] = todo[i + 1]
  BY HeadTailProperties
<1>2. /\ Len(todo) \in Nat \ {0} /\ DOMAIN todo = 1..Len(todo)
      /\ DOMAIN Tail(todo) = 1..(Len(todo) - 1) /\ Head(todo) = todo[1]
  <2>1. Len(todo) \in Nat /\ DOMAIN todo = 1..Len(todo) /\ DOMAIN Tail(todo) = 1..Len(Tail(todo))
    BY <1>1, LenProperties
  <2>2. Len(todo) # 0
    BY EmptySeq
  <2> QED BY <1>1, <2>1, <2>2
<1>3. Head(todo) \in Range(todo)
  BY <1>2 DEF Range
<1>4. ASSUME NEW c \in Range(Tail(todo)) PROVE c \in Range(todo)
  <2>1. PICK i \in 1..(Len(todo) - 1) : c = todo[i + 1]
    BY <1>1, <1>2 DEF Range
  <2>2. i + 1 \in 1..Len(todo)
    BY <1>2
  <2> QED BY <1>2, <2>1, <2>2 DEF Range
<1>5. ASSUME NEW c \in Range(todo), c # Head(todo) PROVE c \in Range(Tail(todo))
  <2>1. PICK i \in 1..Len(todo) : c = todo[i]
    BY <1>2 DEF Range
  <2>2. i # 1 /\ i - 1 \in 1..(Len(todo) - 1) /\ (i - 1) + 1 = i
    BY <1>2, <1>5, <2>1
  <2>3. Tail(todo)[i - 1] = c
    BY <1>1, <1>2, <2>1, <2>2
  <2> QED BY <1>2, <2>2, <2>3 DEF Range
<1> QED BY <1>1, <1>3, <1>4, <1>5

\* The slot that is next.
LEMMA NextSlot ==
  ASSUME DocTypeOK, build # None, NEW s \in build.slots \cup ({build.slot} \ {None})
  PROVE  /\ s \in Slot /\ s.type \in Type /\ s # None /\ s.key \in DOMAIN routes
         /\ s.type \in Table!Modelled(routes[s.key])
<1>1. PICK k \in DOMAIN routes : s \in Slots(k)
  BY DEF DocTypeOK, BuildTypeOK
<1> QED BY <1>1, SlotsTyped DEF DocTypeOK

\* The registry takes steps of its own only.
LEMMA RegistrySteps ==
  ASSUME DocTypeOK, [DocNext]_docVars
  PROVE  [Next]_vars
<1>1. CASE Ask
  <2>1. Start(Head(todo)) /\ Head(todo) \in Call
    BY <1>1, TodoLemma DEF Ask, DocTypeOK
  <2> QED BY <2>1 DEF Next
<1>2. ASSUME build # None, NEW s \in build.slots, RegisterSlot(s) PROVE Next
  <2>1. s.type \in Type
    BY <1>2, NextSlot
  <2>2. Plain(s.type) \in Call /\ Start(Plain(s.type))
    BY <1>2, <2>1, CallsAssumption DEF RegisterSlot
  <2> QED BY <2>2 DEF Next
<1>3. CASE Register \/ ModelRegistered \/ ModelRefused \/ ModelPanics
           \/ SlotRegistered \/ SlotRefused \/ SlotPanics
  BY <1>3 DEF Register, ModelRegistered, ModelRefused, ModelPanics, SlotRegistered,
              SlotRefused, SlotPanics, Next, Step
<1>4. ASSUME NEW r, Begin(r) PROVE UNCHANGED vars
  BY <1>4 DEF Begin
<1>5. CASE ModelsRegistered \/ DescribeRoute \/ OpenSpec \/ ClosePattern \/ CloseSpec
  BY <1>5 DEF ModelsRegistered, DescribeRoute, OpenSpec, ClosePattern, CloseSpec
<1>6. ASSUME NEW x, ChangeRoute(x) \/ OpenPattern(x) \/ OpenOperation(x) \/ OperationPanics(x)
      PROVE  UNCHANGED vars
  BY <1>6 DEF ChangeRoute, OpenPattern, OpenOperation, OperationPanics
<1>7. CASE UNCHANGED docVars
  BY <1>7 DEF docVars
<1> QED BY <1>1, <1>2, <1>3, <1>4, <1>5, <1>6, <1>7 DEF DocNext, Work

\* The route table keeps its types.
LEMMA TableTyped ==
  ASSUME DocTypeOK, TableProofs!Typed, [DocNext]_docVars
  PROVE  TableProofs!Typed'
<1>0. Table!TypeOK
  BY DEF DocTypeOK
<1> USE DEF TableProofs!Typed, TableProofs!At, TableProofs!KeyOf
<1>1. CASE UNCHANGED tableVars
  BY <1>1 DEF tableVars, TableProofs!TypeOK
<1>2. ASSUME NEW r \in Registration, Begin(r) PROVE TableProofs!Typed'
  <2>1. /\ UNCHANGED <<routes, router, spec>> /\ made' = made \cup {r}
        /\ call' = [of |-> r, step |-> "models"]
    BY <1>2 DEF Begin, Table!MakeCall
  <2>2. call' \in [of : Registration, step : TableProofs!Steps] /\ call'.step # "describe"
    BY <2>1 DEF TableProofs!Steps
  <2> QED BY <2>1, <2>2 DEF TableProofs!TypeOK
<1>3. CASE ModelRefused \/ ModelPanics
  <2>1. call' = None /\ UNCHANGED <<routes, router, made, spec>>
    BY <1>3 DEF ModelRefused, ModelPanics, Table!Panic
  <2> QED BY <2>1 DEF TableProofs!TypeOK
<1>4. CASE ModelsRegistered
  <2>1. /\ call # None /\ call' = [call EXCEPT !.step = "upsert"]
        /\ UNCHANGED <<routes, router, made, spec>>
    BY <1>4 DEF ModelsRegistered, Table!At, Table!Goto
  <2>2. call' \in [of : Registration, step : TableProofs!Steps] /\ call'.step # "describe"
    BY <2>1 DEF TableProofs!TypeOK, TableProofs!Steps
  <2> QED BY <2>1, <2>2 DEF TableProofs!TypeOK
<1>5. CASE DescribeRoute
  <2>1. TableProofs!Upsert \/ TableProofs!Describe \/ TableProofs!Serve
    BY <1>5, SameUpsert, SameDescribe, SameServe DEF DescribeRoute
  <2> QED BY <2>1, TableProgram, TableProofs!CallTyped
<1>6. ASSUME NEW c \in Change, ChangeRoute(c) PROVE TableProofs!Typed'
  <2>1. TableProofs!Direct(c)
    BY <1>6, SameDirect DEF ChangeRoute
  <2> QED BY <2>1, TableProgram, TableProofs!DirectTyped
<1>7. CASE SlotRefused \/ SlotPanics \/ CloseSpec \/ \E x : OperationPanics(x)
  <2>1. /\ spec' \in {"valid", "invalid", "panicked"}
        /\ UNCHANGED <<routes, router, call, made>>
    BY <1>7 DEF SlotRefused, SlotPanics, CloseSpec, OperationPanics
  <2> QED BY <2>1 DEF TableProofs!TypeOK
<1>8. CASE Ask \/ Register \/ ModelRegistered \/ OpenSpec \/ ClosePattern \/ SlotRegistered
  BY <1>1, <1>8 DEF Ask, Register, ModelRegistered, OpenSpec, ClosePattern, SlotRegistered
<1>9. ASSUME NEW x, OpenPattern(x) \/ OpenOperation(x) \/ RegisterSlot(x)
      PROVE  TableProofs!Typed'
  BY <1>1, <1>9 DEF OpenPattern, OpenOperation, RegisterSlot
<1>10. CASE UNCHANGED docVars
  BY <1>1, <1>10 DEF docVars, tableVars
<1> QED BY <1>2, <1>3, <1>4, <1>5, <1>6, <1>7, <1>8, <1>9, <1>10 DEF DocNext, Work

\* The builder keeps its types.
LEMMA BuildTyped ==
  ASSUME DocTypeOK, Shape, [DocNext]_docVars
  PROVE  /\ (todo \in Seq(Call))'
         /\ (todo # <<>> \/ request # None => call = None \/ call.step = "models")'
         /\ BuildTypeOK'
<1> DEFINE Goal == /\ (todo \in Seq(Call))'
                   /\ (todo # <<>> \/ request # None => call = None \/ call.step = "models")'
                   /\ BuildTypeOK'
<1>0. /\ todo \in Seq(Call)
      /\ todo # <<>> \/ request # None => call = None \/ call.step = "models"
      /\ BuildTypeOK
      /\ stack # <<>> \/ ret # None => request # None
      /\ build # None => call = None /\ todo = <<>>
  BY DEF DocTypeOK, BuildTypeOK, Shape
<1>2. ASSUME NEW r \in Registration, Begin(r) PROVE Goal
  <2>1. /\ todo' = ModelsOf(r) /\ build' = None /\ call' = [of |-> r, step |-> "models"]
    BY <1>2 DEF Begin, Idle, Table!MakeCall
  <2> QED BY <2>1, ModelsOfTyped DEF BuildTypeOK
<1>3. CASE Ask
  <2>1. build = None /\ build' = build /\ call' = call /\ todo # <<>> /\ todo' = Tail(todo)
    BY <1>0, <1>3 DEF Ask, tableVars
  <2> QED BY <1>0, <2>1, TodoLemma DEF BuildTypeOK
<1>4. CASE Register
  <2>1. request' = request /\ UNCHANGED <<tableVars, todo, build>>
    BY <1>4, InnerKeepsRequest DEF Register
  <2> QED BY <1>0, <2>1 DEF BuildTypeOK, tableVars, Slots
<1>5. CASE ModelRegistered \/ ModelRefused \/ ModelPanics
  <2>1. build = None /\ build' = None
    BY <1>5 DEF ModelRegistered, ModelRefused, ModelPanics
  <2>2. \/ todo' = todo /\ call' = call
        \/ todo' = <<>> /\ call' = None
    BY <1>5 DEF ModelRegistered, ModelRefused, ModelPanics, Table!Panic, tableVars
  <2>3. request # None /\ request' = None
    BY <1>0, <1>5 DEF ModelRegistered, ModelRefused, ModelPanics, Deliver, PanicEnum, Missing, Running
  <2>4. (todo \in Seq(Call))'
    BY <1>0, <2>2, EmptySeq
  <2> QED BY <1>0, <2>1, <2>2, <2>3, <2>4 DEF BuildTypeOK
<1>6. CASE ModelsRegistered
  <2>1. call # None /\ todo = <<>> /\ request = None /\ UNCHANGED <<todo, build, vars>>
    BY <1>6 DEF ModelsRegistered, Table!At
  <2> QED BY <1>0, <2>1 DEF BuildTypeOK, vars
<1>7. CASE DescribeRoute
  <2>1. call # None /\ call.step # "models" /\ UNCHANGED <<todo, build, vars>>
    BY <1>7 DEF DescribeRoute, Table!Upsert, Table!Describe, Table!Serve, Table!At
  <2> QED BY <1>0, <2>1 DEF BuildTypeOK, vars
<1>8. ASSUME NEW c \in Change, ChangeRoute(c) PROVE Goal
  <2>1. build = None /\ todo = <<>> /\ request = None /\ UNCHANGED <<todo, build, vars>>
    BY <1>8 DEF ChangeRoute, Idle
  <2> QED BY <1>0, <2>1 DEF BuildTypeOK, vars
<1>9. CASE OpenSpec
  <2>1. /\ request = None /\ todo = <<>> /\ call = None
        /\ UNCHANGED <<vars, tableVars, todo>>
        /\ build' = [ patterns |-> { k[1] : k \in DOMAIN routes }, pattern |-> None,
                      keys |-> {}, slots |-> {}, slot |-> None, uses |-> {},
                      schemas |-> [n \in {} |-> None] ]
    BY <1>9 DEF OpenSpec, Idle
  <2>2. { k[1] : k \in DOMAIN routes } \subseteq Pattern
    BY DEF DocTypeOK, Table!TypeOK, Table!RouteKey
  <2>3. build'.schemas \in [DOMAIN build'.schemas -> Schema]
    BY <2>1
  <2> QED BY <1>0, <2>1, <2>2, <2>3 DEF BuildTypeOK, vars, tableVars
<1>10. ASSUME NEW p, OpenPattern(p) PROVE Goal
  <2>1. /\ build # None /\ request = None /\ build.slot = None /\ build.pattern = None
        /\ p \in build.patterns /\ UNCHANGED <<vars, tableVars, todo>>
        /\ build' = [ build EXCEPT !.patterns = @ \ {p}, !.pattern = p,
                                   !.keys = { k \in DOMAIN routes : k[1] = p } ]
    BY <1>10 DEF OpenPattern, Building
  <2>2. p # None
    BY <1>0, <2>1, TableAssumption DEF BuildTypeOK
  <2> QED BY <1>0, <2>1, <2>2 DEF BuildTypeOK, vars, tableVars, Slots
<1>11. ASSUME NEW k, OpenOperation(k) PROVE Goal
  <2>1. /\ build # None /\ request = None /\ build.slot = None
        /\ k \in build.keys /\ UNCHANGED <<vars, tableVars, todo>>
        /\ build' = [build EXCEPT !.keys = @ \ {k}, !.slots = Slots(k)]
    BY <1>11 DEF OpenOperation, Building
  <2>2. k \in DOMAIN routes
    BY <1>0, <2>1 DEF BuildTypeOK
  <2>3. Slots(k) \subseteq Slot /\ build.pattern # None
    BY <1>0, <2>1, <2>2, SlotsTyped DEF BuildTypeOK, DocTypeOK
  <2>4. Slots(k) \subseteq UNION { Slots(j) : j \in DOMAIN routes }
    BY <2>2
  <2>5. routes' = routes /\ \A j : Slots(j)' = Slots(j)
    BY <2>1 DEF tableVars, Slots
  <2> QED
    <3> HIDE DEF Goal
    <3> DEFINE slots == Slots(k)
               all == UNION { Slots(j) : j \in DOMAIN routes }
    <3>1. /\ (UNION { Slots(j) : j \in DOMAIN routes })' = all
          /\ slots \subseteq all /\ slots \subseteq Slot
          /\ build' = [build EXCEPT !.keys = @ \ {k}, !.slots = slots]
      BY <2>1, <2>3, <2>4, <2>5
    <3>2. /\ build.slot \in {None} \cup all
          /\ build \in [ patterns : SUBSET Pattern, pattern : Pattern \cup {None},
                   keys : SUBSET DOMAIN routes, slots : SUBSET Slot, slot : Slot \cup {None},
                   uses : SUBSET Use, schemas : {build.schemas} ]
          /\ build.schemas \in [DOMAIN build.schemas -> Schema]
          /\ build.keys \subseteq { j \in DOMAIN routes : j[1] = build.pattern }
      BY <1>0, <2>1 DEF BuildTypeOK
    <3> HIDE DEF slots, all
    <3>3. /\ build'.patterns = build.patterns /\ build'.pattern = build.pattern
          /\ build'.keys = build.keys \ {k} /\ build'.slots = slots /\ build'.slot = None
          /\ build'.uses = build.uses /\ build'.schemas = build.schemas
          /\ build' \in [ patterns : SUBSET Pattern, pattern : Pattern \cup {None},
                   keys : SUBSET DOMAIN routes, slots : SUBSET Slot, slot : Slot \cup {None},
                   uses : SUBSET Use, schemas : {build.schemas} ]
      <4>1. build.keys \ {k} \in SUBSET DOMAIN routes /\ slots \in SUBSET Slot
        BY <3>1, <3>2
      <4>2. build.slot = None
        BY <2>1
      <4>3. build' = [build EXCEPT !.keys = build.keys \ {k}, !.slots = slots]
        BY <3>1
      <4> QED BY ONLY <3>2, <4>1, <4>2, <4>3
    <3>4. request' = None /\ call' = None /\ todo' = <<>>
      BY <1>0, <2>1 DEF vars, tableVars
    <3>5. BuildTypeOK'
      BY <2>3, <2>5, <3>1, <3>2, <3>3, <3>4 DEF BuildTypeOK
    <3> QED BY <1>0, <2>1, <3>4, <3>5 DEF Goal
<1>12. ASSUME build # None, NEW s \in build.slots, RegisterSlot(s) PROVE Goal
  <2>1. /\ build.slot = None /\ UNCHANGED <<tableVars, todo>>
        /\ build' = [build EXCEPT !.slot = s, !.slots = @ \ {s}]
        /\ request'.type = s.type
    BY <1>12 DEF RegisterSlot, Building, Start, Plain
  <2>2. s # None /\ s \in Slot
    BY <1>12, NextSlot
  <2>3. TypeOK' /\ stack' # <<>>
    BY <1>12, RegistrySteps, ShapeStep, EmptySeq DEF DocTypeOK, RegisterSlot, Start
  <2>4. request' # None
    BY <1>12, RegistrySteps, ShapeStep, <2>3 DEF DocTypeOK, Shape
  <2>5. routes' = routes /\ \A j : Slots(j)' = Slots(j)
    BY <2>1 DEF tableVars, Slots
  <2>6. (UNION { Slots(j) : j \in DOMAIN routes })' = UNION { Slots(j) : j \in DOMAIN routes }
    BY <2>5
  <2> QED BY <1>0, <1>12, <2>1, <2>2, <2>4, <2>5, <2>6 DEF BuildTypeOK, tableVars
<1>13. CASE SlotRegistered
  <2>1. /\ build # None /\ UNCHANGED <<tableVars, todo>> /\ request' = None /\ ret # None
        /\ build' = [ build EXCEPT !.slot = None,
                        !.uses = @ \cup {[slot |-> build.slot, refs |-> RefsTo(ret)]} ]
    BY <1>13 DEF SlotRegistered, Deliver
  <2>2. build.slot \in Slot
    BY <1>0, <2>1, TableAssumption DEF BuildTypeOK
  <2>3. RefsTo(ret) \subseteq Ref
    BY <2>1, RefsLemma DEF RefsTo, Return, Ref, DocTypeOK, TypeOK
  <2>4. [slot |-> build.slot, refs |-> RefsTo(ret)] \in Use
    BY <2>2, <2>3 DEF Use
  <2>5. routes' = routes /\ \A j : Slots(j)' = Slots(j)
    BY <2>1 DEF tableVars, Slots
  <2>6. (UNION { Slots(j) : j \in DOMAIN routes })' = UNION { Slots(j) : j \in DOMAIN routes }
    BY <2>5
  <2> QED BY <1>0, <2>1, <2>4, <2>5, <2>6 DEF BuildTypeOK, tableVars
<1>14. CASE SlotRefused \/ SlotPanics \/ CloseSpec \/ \E x : OperationPanics(x)
  <2>1. build' = None /\ todo' = todo /\ call' = call /\ build # None
    BY <1>14 DEF SlotRefused, SlotPanics, CloseSpec, OperationPanics, Building
  <2> QED BY <1>0, <2>1 DEF BuildTypeOK
<1>15. CASE ClosePattern
  <2> DEFINE all == [ n \in DOMAIN build.schemas \cup DOMAIN models |->
                        IF n \in DOMAIN models THEN models[n] ELSE build.schemas[n] ]
  <2>1. /\ build # None /\ request = None /\ build.slot = None /\ build.keys = {}
        /\ build.slots = {} /\ UNCHANGED <<vars, tableVars, todo>>
        /\ build' = [build EXCEPT !.pattern = None, !.schemas = all]
    BY <1>15 DEF ClosePattern, Building
  <2>2. all \in [DOMAIN all -> Schema]
    BY <1>0, <2>1 DEF BuildTypeOK, DocTypeOK, TypeOK
  <2> HIDE DEF all
  <2> QED BY <1>0, <2>1, <2>2 DEF BuildTypeOK, vars, tableVars, Slots
<1>4x. CASE UNCHANGED docVars
  BY <1>0, <1>4x DEF docVars, vars, BuildTypeOK, Slots
<1> QED BY <1>2, <1>3, <1>4, <1>5, <1>6, <1>7, <1>8, <1>9, <1>10, <1>11, <1>12, <1>13, <1>14,
           <1>15, <1>4x DEF DocNext, Work

\* Registry, table and builder are in step, with what this takes of the first two.
DocSound == DocTypeOK /\ Shape /\ TableProofs!Typed

\* They start in step, ...
LEMMA DocSoundInit == DocInit => DocSound
<1> SUFFICES ASSUME DocInit PROVE DocSound
  OBVIOUS
<1>1. TypeOK /\ Shape
  BY ShapeInit DEF DocInit
<1>2. TableProofs!Typed
  BY DEF DocInit, Table!Init, TableProofs!Typed, TableProofs!TypeOK, TableProofs!At
<1>3. SetupCalls \in Seq(Call)
  <2>1. ASSUME NEW a \in Call, NEW b \in Call, NEW c \in Call PROVE <<a, b, c>> \in Seq(Call)
    OBVIOUS
  <2>2. SetupCalls[1] \in Call /\ SetupCalls[2] \in Call /\ SetupCalls[3] \in Call
    BY CallsAssumption
  <2>3. SetupCalls = << SetupCalls[1], SetupCalls[2], SetupCalls[3] >>
    BY DEF SetupCalls
  <2> QED BY <2>1, <2>2, <2>3
<1>4. build = None /\ request = None /\ call = None /\ todo = SetupCalls
  BY DEF DocInit, Init, Table!Init
<1> QED BY <1>1, <1>2, <1>3, <1>4, SameTypes
        DEF DocSound, DocTypeOK, BuildTypeOK, TableProofs!Typed

\* ... and every step keeps them so.
LEMMA DocSoundStep ==
  ASSUME DocSound, [DocNext]_docVars
  PROVE  DocSound'
<1>1. TypeOK' /\ Shape'
  BY RegistrySteps, ShapeStep DEF DocSound, DocTypeOK
<1>2. TableProofs!Typed'
  BY TableTyped DEF DocSound
<1>3. Table!TypeOK'
  <2>1. TableProofs!TypeOK'
    BY <1>2 DEF TableProofs!Typed
  <2> QED BY <2>1
       DEF TableProofs!TypeOK, Table!TypeOK,
       TableProofs!Doc, Table!Doc, TableProofs!RouteKey, Table!RouteKey,
       TableProofs!Steps, Table!Steps, TableProofs!Model, Table!Model,
       TableProofs!Status, Table!Status, TableProofs!Method, Table!Method,
       TableProofs!Dto, Table!Dto
<1> QED BY <1>1, <1>2, <1>3, BuildTyped DEF DocSound, DocTypeOK

\* Registry, route table and builder are in step in every program: one call of
\* RegisterModel at a time, for the caller that waits for it (swaglay.go:17-34,
\* schema.go:66-200).
THEOREM TypesCorrect == DocSpec => []DocTypeOK
<1>1. DocSound => DocTypeOK
  BY DEF DocSound
<1> QED BY <1>1, DocSoundInit, DocSoundStep, PTL DEF DocSpec

-----------------------------------------------------------------------------
(* What is served and what is exported.                                    *)

\* What the registry keeps, for the programs its theorems are about.
Registered(rank, refused) ==
  /\ Shape /\ Ranked(rank) /\ Sound /\ Wholly(refused) /\ Told /\ Settled
  /\ Rooted /\ Kept /\ Checked /\ Accounted

\* A type that was registered: its components are there, and nothing of it is refused.
Provided(t) == Needs[t] \subseteq Shown /\ Clean(t)

\* What a call registers.
Models(r) == {Def[r].in, Def[r].out} \ {None}

\* The models of a call are registered, or still to be.
CallRight ==
  call # None =>
    /\ \A c \in Range(todo) : c.type \in Models(call.of)
    /\ request # None => request.type \in Models(call.of)
    /\ \A t \in Models(call.of) :
         \/ Provided(t)
         \/ /\ call.step = "models"
            /\ Plain(t) \in Range(todo) \/ (request # None /\ request.type = t)

\* The models of a route that is served are registered.
RoutedRight == \A r \in Table!Routed : \A t \in Models(r) : Needs[t] \subseteq Shown

\* A reference goes by the name of its type.
TellsType(refs) == \A x \in refs : x.for \in Type /\ x.to = Named(x.for) /\ GoName[x.for] # NoName

\* Schemas that are named, whole, and refer to one another only.
Consistent(schemas) ==
  \A n \in DOMAIN schemas :
    /\ schemas[n].of \in Type /\ schemas[n].whole
    /\ n = Named(schemas[n].of) /\ GoName[schemas[n].of] # NoName
    /\ TellsType(Refs(schemas[n]))
    /\ \A x \in Refs(schemas[n]) : x.to \in DOMAIN schemas

\* The schemas have what the uses refer to and what their types need.
Covers(schemas, uses) ==
  \A u \in uses :
    /\ \A x \in u.refs : x.to \in DOMAIN schemas
    /\ Needs[u.slot.type] \subseteq { schemas[n].of : n \in DOMAIN schemas }

\* What has been said of a model stays true while others are registered.
UsesRight(uses) ==
  \A u \in uses : /\ Provided(u.slot.type) /\ TellsType(u.refs)
                  /\ \A x \in u.refs : x.for \in Shown

\* Every model of every route is still to come, or is said something of.
Reaches(b) ==
  \A k \in DOMAIN routes : \A s \in Slots(k) :
    \/ k[1] \in b.patterns \/ k \in b.keys
    \/ s \in b.slots \/ s = b.slot
    \/ \E u \in b.uses : u.slot = s

BuildRight ==
  build # None =>
    /\ Consistent(build.schemas) /\ UsesRight(build.uses) /\ Reaches(build)
    /\ build.pattern = None => Covers(build.schemas, build.uses)

\* The inductive invariant.
DocInv(rank, refused) ==
  /\ DocSound /\ Registered(rank, refused)
  /\ CallRight /\ RoutedRight /\ BuildRight
  /\ DocumentComplete /\ DocumentFaithful

\* The programs that the registry's theorems are about.
Regular(rank, refused) ==
  /\ EmbedsByValue /\ NamesTell
  /\ rank \in [Type -> Nat] /\ Descending(rank)
  /\ Refusing(refused)

\* The registry keeps what it kept without a route table.
LEMMA RegisteredStep ==
  ASSUME NEW rank, NEW refused, Regular(rank, refused),
         TypeOK, Registered(rank, refused), [Next]_vars
  PROVE  Registered(rank, refused)'
<1> USE DEF Registered, Regular
<1>1. Shape'
  BY ShapeStep
<1>2. Ranked(rank)' /\ Sound'
  BY RankedStep, SoundStep
<1>3. Wholly(refused)' /\ Told'
  BY WhollyStep, ToldStep
<1>4. Settled'
  BY SettledStep
<1>5. Rooted' /\ Kept'
  BY RootedStep, KeptStep
<1>6. Checked'
  BY CheckedStep
<1>7. Accounted'
  BY AccountedStep
<1> QED BY <1>1, <1>2, <1>3, <1>4, <1>5, <1>6, <1>7

\* What the catalogue shows is in the registry, and all of it between two calls.
LEMMA ShownIsPresent ==
  ASSUME Shape, Kept
  PROVE  Shown \subseteq Present /\ (stack = <<>> => Shown = Present)
BY DEF Shown, Present, Shape, Kept

\* It only grows.
LEMMA ShownGrows ==
  ASSUME NEW rank, NEW refused, Regular(rank, refused),
         TypeOK, Registered(rank, refused), [Next]_vars
  PROVE  Shown \subseteq Shown'
<1>1. Accepts \/ Publishes \/ Fails \/ Acknowledges \/ Stutters
  BY CatalogueStep DEF Registered, Regular
<1> QED BY <1>1 DEF Accepts, Publishes, Fails, Acknowledges, Stutters

\* What was registered stays so.
LEMMA ProvidedStays ==
  ASSUME Shown \subseteq Shown'
  PROVE  \A t : Provided(t) => Provided(t)'
BY DEF Provided, Clean

\* A call that returns without an error has registered its type, and its result is
\* referred to by the name of a type that is there.
LEMMA DeliveredLemma ==
  ASSUME NEW rank, NEW refused, Regular(rank, refused),
         TypeOK, Registered(rank, refused), Deliver, ~ret.err
  PROVE  /\ request # None /\ request.type \in Type
         /\ Provided(request.type)
         /\ TellsType(RefsTo(ret)) /\ \A x \in RefsTo(ret) : x.for \in Shown
<1> USE DEF Registered, Regular
<1>1. stack = <<>> /\ ret # None /\ ret \in Return /\ request # None /\ request \in Request
  BY DEF Deliver, Shape, TypeOK
<1>2. Shown = Present /\ Answered = request.type
  BY <1>1, ShownIsPresent DEF Answered
<1>3. Provided(request.type)
  <2>1. Needs[request.type] \subseteq Present
    BY <1>1, <1>2 DEF Accounted, Filled, Granted
  <2>2. Clean(request.type)
    BY <1>1, <1>2 DEF Checked
  <2> QED BY <1>2, <2>1, <2>2 DEF Provided
<1>4. ASSUME NEW x \in RefsTo(ret)
      PROVE  x.for \in Type /\ x.to = Named(x.for) /\ GoName[x.for] # NoName /\ x.for \in Present
  <2>1. CASE ret.schema.component
    <3>1. x.to = ret.name /\ x.for = ret.type /\ ret.type \in Type
      BY <1>1, <1>4, <2>1 DEF RefsTo, Return
    <3>2. ret.name \in DOMAIN models /\ models[ret.name] = ret.schema
      BY <1>1, <2>1 DEF Settled
    <3>3. ret.schema.of = ret.type /\ GoName[ret.type] # NoName
      BY <1>1, <2>1 DEF Told
    <3>4. ret.name = Named(ret.type)
      BY <3>2, <3>3 DEF Told
    <3> QED BY <3>1, <3>2, <3>3, <3>4 DEF Present
  <2>2. CASE ~ret.schema.component
    <3>1. x \in Refs(ret.schema) /\ x \in Held
      BY <1>1, <1>4, <2>2 DEF RefsTo, Held
    <3>2. x.for \in Type
      BY <1>1, <3>1, RefsLemma DEF Return, Ref
    <3>3. x.to = Named(x.for) /\ GoName[x.for] # NoName /\ x.to \in DOMAIN models
      BY <3>1 DEF Told, Sound
    <3> QED BY <3>2, <3>3, NamedPresent
  <2> QED BY <2>1, <2>2
<1> QED BY <1>1, <1>2, <1>3, <1>4 DEF Request, TellsType

\* One that is refused, or panics, has the reason below its type.
LEMMA FailedLemma ==
  ASSUME NEW rank, NEW refused, Regular(rank, refused),
         TypeOK, Registered(rank, refused)
  PROVE  /\ Deliver /\ ret.err => /\ request # None /\ request.type \in Type
                                 /\ \E b \in Below[request.type] : Kind[b] = "badmap"
         /\ PanicEnum => /\ request # None /\ request.type \in Type
                         /\ \E b \in Below[request.type] : Kind[b] = "enum"
<1> USE DEF Registered
<1>1. request # None => request.type \in Type /\ Within
  BY DEF TypeOK, Request, Accounted
<1>2. ASSUME Deliver, ret.err
      PROVE  request # None /\ \E b \in Below[request.type] : Kind[b] = "badmap"
  <2>1. ret # None /\ request # None
    BY <1>2 DEF Deliver, Shape
  <2> QED BY <1>1, <1>2, <2>1 DEF Within
<1>3. ASSUME PanicEnum
      PROVE  request # None /\ \E b \in Below[request.type] : Kind[b] = "enum"
  <2>1. stack # <<>> /\ Kind[Top.type] = "enum" /\ request # None
    BY <1>3 DEF PanicEnum, Missing, Running, Shape
  <2>2. Len(stack) \in 1..Len(stack)
    BY <2>1, StackLemma DEF TypeOK
  <2> QED BY <1>1, <2>1, <2>2 DEF Within, Top
<1> QED BY <1>1, <1>2, <1>3

\* Every step keeps the models of a call registered, or on their way.
LEMMA CallStep ==
  ASSUME NEW rank, NEW refused, Regular(rank, refused),
         DocSound, Registered(rank, refused), CallRight, [DocNext]_docVars
  PROVE  CallRight'
<1>0. /\ TypeOK /\ DocTypeOK /\ todo \in Seq(Call)
      /\ todo # <<>> \/ request # None => call = None \/ call.step = "models"
      /\ build # None => call = None
      /\ stack # <<>> \/ ret # None => request # None
  BY DEF DocSound, DocTypeOK, BuildTypeOK, Shape
<1>1. \A t : Provided(t) => Provided(t)'
  BY <1>0, RegistrySteps, ShownGrows, ProvidedStays
<1>2. CASE call' = None
  BY <1>2 DEF CallRight
<1>3. ASSUME call # None, call'.of = call.of,
             call'.step = call.step \/ (request = None /\ todo = <<>>),
             UNCHANGED <<todo, request>>
      PROVE  CallRight'
  <2>1. todo = <<>> => Range(todo) = {}
    BY DEF Range
  <2> QED BY <1>1, <1>3, <2>1 DEF CallRight
<1>4. ASSUME UNCHANGED <<call, todo, request>> PROVE CallRight'
  <2>1. CASE call = None
    BY <1>2, <1>4, <2>1
  <2>2. CASE call # None
    <3>1. call'.of = call.of /\ call'.step = call.step
      BY <1>4
    <3> QED BY <1>1, <1>4, <2>2, <3>1 DEF CallRight
  <2> QED BY <2>1, <2>2
<1>5. ASSUME NEW r \in Registration, Begin(r) PROVE CallRight'
  <2>1. /\ request' = None /\ todo' = ModelsOf(r)
        /\ call' = [of |-> r, step |-> "models"]
    BY <1>5 DEF Begin, Idle, Table!MakeCall, vars
  <2> QED BY <2>1, ModelsOfTyped DEF CallRight, Models
<1>6. CASE Ask
  <2>1. /\ todo # <<>> /\ request = None /\ request'.type = Head(todo).type
        /\ todo' = Tail(todo) /\ call' = call
    BY <1>6 DEF Ask, Start, tableVars
  <2>2. /\ Head(todo) \in Range(todo) /\ Range(Tail(todo)) \subseteq Range(todo)
        /\ \A c \in Range(todo) : c = Head(todo) \/ c \in Range(Tail(todo))
    BY <1>0, <2>1, TodoLemma
  <2>3. request' # None
    <3>1. stack' # <<>> /\ Shape'
      BY <1>0, <1>6, RegistrySteps, ShapeStep, EmptySeq DEF Ask, Start, Registered
    <3> QED BY <3>1 DEF Shape
  <2>4. ASSUME call # None, NEW t \in Models(call.of)
        PROVE  Provided(t)' \/ (call.step = "models" /\ (Plain(t) \in Range(Tail(todo)) \/ request'.type = t))
    <3>1. Plain(t) = Head(todo) => Head(todo).type = t
      BY DEF Plain
    <3> QED BY <1>1, <2>1, <2>2, <2>4, <3>1 DEF CallRight
  <2> QED BY <2>1, <2>2, <2>3, <2>4 DEF CallRight
<1>7. CASE Register
  <2>1. request' = request /\ todo' = todo /\ call' = call
    BY <1>7, InnerKeepsRequest DEF Register, tableVars
  <2> QED BY <1>4, <2>1
<1>8. CASE ModelRegistered
  <2>1. request' = None /\ todo' = todo /\ call' = call /\ Deliver /\ ~ret.err
    BY <1>8 DEF ModelRegistered, Deliver, tableVars
  <2>2. request # None /\ Provided(request.type)
    BY <1>0, <2>1, DeliveredLemma
  <2> QED BY <1>1, <2>1, <2>2 DEF CallRight
<1>9. CASE ModelRefused \/ ModelPanics
  BY <1>2, <1>9 DEF ModelRefused, ModelPanics, Table!Panic
<1>10. CASE ModelsRegistered
  <2>1. /\ call # None /\ todo = <<>> /\ request = None /\ UNCHANGED <<todo, request>>
        /\ call' = [call EXCEPT !.step = "upsert"]
    BY <1>10 DEF ModelsRegistered, Table!At, Table!Goto, vars
  <2>2. call'.of = call.of
    <3>1. call \in [of : Registration, step : Table!Steps]
      BY <1>0, <2>1 DEF DocTypeOK, Table!TypeOK
    <3> QED BY <2>1, <3>1
  <2> QED BY <1>3, <2>1, <2>2
<1>11. CASE DescribeRoute
  <2>1. /\ call # None /\ call.step # "models" /\ UNCHANGED <<todo, request>>
        /\ call' = None \/ \E step \in Table!Steps : call' = [call EXCEPT !.step = step]
    BY <1>11 DEF DescribeRoute, Table!Upsert, Table!Describe, Table!Serve, Table!At, Table!Panic,
                 Table!Goto, Table!Steps, vars
  <2>2. call \in [of : Registration, step : Table!Steps]
    BY <1>0, <2>1 DEF DocTypeOK, Table!TypeOK
  <2>3. request = None /\ todo = <<>>
    BY <1>0, <2>1
  <2> QED BY <1>2, <1>3, <2>1, <2>2, <2>3
<1>12. ASSUME NEW c, ChangeRoute(c) PROVE CallRight'
  BY <1>2, <1>12 DEF ChangeRoute, Idle, Table!Direct
<1>13. CASE OpenSpec
  BY <1>2, <1>13 DEF OpenSpec, Idle, tableVars
<1>14. CASE SlotRegistered \/ SlotRefused \/ SlotPanics \/ ClosePattern \/ CloseSpec
  BY <1>0, <1>2, <1>14 DEF SlotRegistered, SlotRefused, SlotPanics, ClosePattern, CloseSpec,
                           Building, tableVars
<1>15. ASSUME NEW x, \/ OpenPattern(x) \/ OpenOperation(x) \/ OperationPanics(x)
                     \/ RegisterSlot(x)
       PROVE  CallRight'
  BY <1>0, <1>2, <1>15 DEF OpenPattern, OpenOperation, OperationPanics, RegisterSlot, Building,
                           tableVars
<1>16. CASE UNCHANGED docVars
  BY <1>4, <1>16 DEF docVars, vars
<1> QED BY <1>5, <1>6, <1>7, <1>8, <1>9, <1>10, <1>11, <1>12, <1>13, <1>14, <1>15, <1>16
        DEF DocNext, Work

\* A call that comes to serve its route has its models registered.
LEMMA RoutedStep ==
  ASSUME NEW rank, NEW refused, Regular(rank, refused),
         DocSound, Registered(rank, refused), CallRight, RoutedRight, [DocNext]_docVars
  PROVE  RoutedRight'
<1>0. /\ TypeOK /\ DocTypeOK /\ router \in Seq(Registration)
  BY DEF DocSound, DocTypeOK, Table!TypeOK
<1>1. Shown \subseteq Shown'
  BY <1>0, RegistrySteps, ShownGrows
<1>2. CASE router' = router
  BY <1>1, <1>2 DEF RoutedRight, Table!Routed
<1>3. CASE DescribeRoute
  <2>1. CASE Table!Serve
    <3>1. call # None /\ call.step = "serve" /\ router' = Append(router, call.of)
      BY <2>1 DEF Table!Serve, Table!At
    <3>2. \A t \in Models(call.of) : Needs[t] \subseteq Shown
      BY <3>1 DEF CallRight, Provided
    <3>3. \A r \in Table!Routed' : r \in Table!Routed \/ r = call.of
      <4>1. call.of \in Registration
        BY <1>0, <3>1 DEF DocTypeOK, Table!TypeOK
      <4>2. /\ DOMAIN Append(router, call.of) = 1..(Len(router) + 1)
            /\ \A i \in 1..Len(router) : Append(router, call.of)[i] = router[i]
            /\ Append(router, call.of)[Len(router) + 1] = call.of
            /\ DOMAIN router = 1..Len(router) /\ Len(router) \in Nat
        BY <1>0, <4>1
      <4>3. \A i \in 1..(Len(router) + 1) : i \in 1..Len(router) \/ i = Len(router) + 1
        BY <4>2
      <4> QED BY <3>1, <4>2, <4>3 DEF Table!Routed
    <3> QED BY <1>1, <3>2, <3>3 DEF RoutedRight
  <2>2. CASE Table!Upsert \/ Table!Describe
    BY <1>2, <2>2 DEF Table!Upsert, Table!Describe
  <2> QED BY <1>3, <2>1, <2>2 DEF DescribeRoute
<1>4. ASSUME NEW x, Begin(x) \/ ChangeRoute(x) \/ OpenPattern(x) \/ OpenOperation(x)
                    \/ OperationPanics(x) \/ RegisterSlot(x)
      PROVE  router' = router
  BY <1>4 DEF Begin, Table!MakeCall, ChangeRoute, Table!Direct, OpenPattern, OpenOperation,
              OperationPanics, RegisterSlot, tableVars
<1>5. CASE Ask \/ Register \/ ModelRegistered \/ ModelRefused \/ ModelPanics \/ ModelsRegistered
           \/ SlotRegistered \/ SlotRefused \/ SlotPanics \/ ClosePattern \/ CloseSpec \/ OpenSpec
  BY <1>2, <1>5 DEF Ask, Register, ModelRegistered, ModelRefused, ModelPanics, ModelsRegistered,
              SlotRegistered, SlotRefused, SlotPanics, ClosePattern, CloseSpec, OpenSpec, tableVars
<1>6. CASE UNCHANGED docVars
  BY <1>2, <1>6 DEF docVars
<1> QED BY <1>2, <1>3, <1>4, <1>5, <1>6 DEF DocNext, Work

\* What was said of a model stays right.
LEMMA UsesStay ==
  ASSUME Shown \subseteq Shown', NEW uses, UsesRight(uses)
  PROVE  UsesRight(uses)'
BY ProvidedStays DEF UsesRight

\* Between two calls the components are schemas of a document.
LEMMA ModelsConsistent ==
  ASSUME TypeOK, NEW refused, Wholly(refused), Told, Sound
  PROVE  Consistent(models)
<1> SUFFICES ASSUME NEW n \in DOMAIN models
             PROVE  /\ models[n].of \in Type /\ models[n].whole
                    /\ n = Named(models[n].of) /\ GoName[models[n].of] # NoName
                    /\ TellsType(Refs(models[n]))
                    /\ \A x \in Refs(models[n]) : x.to \in DOMAIN models
  BY DEF Consistent
<1>1. models[n] \in Schema /\ Refs(models[n]) \subseteq Held
  BY DEF TypeOK, Held
<1>2. \A x \in Refs(models[n]) : x.for \in Type
  BY <1>1, RefsLemma DEF Ref
<1> QED BY <1>1, <1>2 DEF Schema, Wholly, OnlyWholeComponents, Told, Sound, TellsType

\* The components take the place of the schemas that were copied before.
LEMMA SchemasCopied ==
  ASSUME NEW old, Consistent(old), Consistent(models), NamesTell, TypeOK, Told,
         NEW uses, UsesRight(uses), Shown = Present,
         NEW all, DOMAIN all = DOMAIN old \cup DOMAIN models,
         \A n \in DOMAIN models : all[n] = models[n],
         \A n \in DOMAIN old \ DOMAIN models : all[n] = old[n]
  PROVE  Consistent(all) /\ Covers(all, uses)
<1>1. ASSUME NEW n \in DOMAIN all
      PROVE  \/ n \in DOMAIN models /\ all[n] = models[n]
             \/ n \in DOMAIN old /\ all[n] = old[n]
  OBVIOUS
<1>2. Consistent(all)
  BY <1>1 DEF Consistent
<1>3. Present \subseteq { all[n].of : n \in DOMAIN all }
  <2>1. ASSUME NEW n \in DOMAIN models PROVE models[n].of \in { all[m].of : m \in DOMAIN all }
    BY <1>1
  <2> QED BY <2>1 DEF Present
<1>4. ASSUME NEW u \in uses
      PROVE  /\ \A x \in u.refs : x.to \in DOMAIN all
             /\ Needs[u.slot.type] \subseteq { all[n].of : n \in DOMAIN all }
  <2>1. ASSUME NEW x \in u.refs PROVE x.to \in DOMAIN all
    <3>1. x.for \in Type /\ x.to = Named(x.for) /\ GoName[x.for] # NoName /\ x.for \in Present
      BY DEF UsesRight, TellsType
    <3>2. Named(x.for) \in DOMAIN models
      BY <3>1, NamedPresent
    <3> QED BY <1>1, <3>1, <3>2
  <2>2. Needs[u.slot.type] \subseteq Present
    BY DEF UsesRight, Provided
  <2> QED BY <1>3, <2>1, <2>2
<1> QED BY <1>2, <1>4 DEF Covers

\* Every step keeps the document in progress right.
LEMMA BuildStep ==
  ASSUME NEW rank, NEW refused, Regular(rank, refused),
         DocSound, Registered(rank, refused), BuildRight, [DocNext]_docVars
  PROVE  BuildRight'
<1>0. /\ TypeOK /\ DocTypeOK /\ BuildTypeOK /\ Table!TypeOK
      /\ build # None => call = None
      /\ build # None /\ build.pattern = None => build.keys = {} /\ build.slots = {}
      /\ stack # <<>> \/ ret # None => request # None
  BY DEF DocSound, DocTypeOK, BuildTypeOK, Shape
<1>1. Shown \subseteq Shown'
  BY <1>0, RegistrySteps, ShownGrows
<1>2. CASE build' = None
  BY <1>2 DEF BuildRight
<1>3. ASSUME routes' = routes PROVE \A k : Slots(k)' = Slots(k)
  BY <1>3 DEF Slots
<1>4. ASSUME routes' = routes, build # None, build'.schemas = build.schemas, build'.uses = build.uses,
             build'.pattern = None => build.pattern = None, Reaches(build)'
      PROVE  BuildRight'
  <2>1. UsesRight(build.uses)'
    BY <1>1, <1>4, UsesStay DEF BuildRight
  <2>2. Consistent(build.schemas)' /\ (build.pattern = None => Covers(build.schemas, build.uses)')
    BY <1>4 DEF BuildRight, Consistent, Covers
  <2>3. build'.pattern = None => Covers(build.schemas, build.uses)'
    BY <1>4, <2>2
  <2> QED BY <1>4, <2>1, <2>2, <2>3 DEF BuildRight
<1>5. ASSUME UNCHANGED <<routes, build>> PROVE BuildRight'
  <2>1. build # None => Reaches(build)'
    BY <1>3, <1>5 DEF Reaches, BuildRight
  <2>2. CASE build # None
    <3>1. /\ build'.schemas = build.schemas /\ build'.uses = build.uses
          /\ build'.pattern = build.pattern /\ routes' = routes
      BY <1>5
    <3> QED BY <1>4, <2>1, <2>2, <3>1
  <2> QED BY <1>2, <1>5, <2>2
<1>6. CASE OpenSpec
  <2>1. /\ UNCHANGED <<vars, tableVars, todo>>
        /\ build' = [ patterns |-> { k[1] : k \in DOMAIN routes }, pattern |-> None,
                      keys |-> {}, slots |-> {}, slot |-> None, uses |-> {},
                      schemas |-> [n \in {} |-> None] ]
    BY <1>6 DEF OpenSpec
  <2>2. DOMAIN build'.schemas = {} /\ build'.uses = {}
        /\ build'.patterns = { k[1] : k \in DOMAIN routes }
    BY <2>1
  <2>3. Reaches(build)'
    BY <2>1, <2>2 DEF Reaches, tableVars
  <2>4. /\ Consistent(build.schemas)' /\ UsesRight(build.uses)'
        /\ Covers(build.schemas, build.uses)'
    BY <2>2 DEF Consistent, UsesRight, Covers
  <2> QED BY <2>3, <2>4 DEF BuildRight
<1>7. ASSUME NEW p, OpenPattern(p) PROVE BuildRight'
  <2>1. /\ build # None /\ build.pattern = None /\ p \in build.patterns
        /\ UNCHANGED <<vars, tableVars, todo>>
        /\ build' = [ build EXCEPT !.patterns = @ \ {p}, !.pattern = p,
                                   !.keys = { k \in DOMAIN routes : k[1] = p } ]
    BY <1>7 DEF OpenPattern, Building
  <2>2. /\ build'.schemas = build.schemas /\ build'.uses = build.uses
        /\ build'.pattern # None /\ routes' = routes
        /\ build'.patterns = build.patterns \ {p} /\ build'.slots = build.slots
        /\ build'.keys = { k \in DOMAIN routes : k[1] = p } /\ build'.slot = build.slot
    BY <1>0, <2>1, TableAssumption DEF BuildTypeOK, tableVars
  <2>3. Reaches(build)
    BY <2>1 DEF BuildRight
  <2>4. Reaches(build)'
    BY <1>0, <1>3, <2>1, <2>2, <2>3 DEF Reaches
  <2> QED BY <1>4, <2>1, <2>2, <2>4
<1>8. ASSUME NEW k, OpenOperation(k) PROVE BuildRight'
  <2>1. /\ build # None /\ build.slots = {} /\ k \in build.keys /\ k \in DOMAIN routes
        /\ UNCHANGED <<vars, tableVars, todo>>
        /\ build' = [build EXCEPT !.keys = @ \ {k}, !.slots = Slots(k)]
    BY <1>0, <1>8 DEF OpenOperation, Building, BuildTypeOK
  <2>2. /\ build'.schemas = build.schemas /\ build'.uses = build.uses
        /\ build'.pattern = build.pattern /\ routes' = routes
        /\ build'.patterns = build.patterns /\ build'.slots = Slots(k)
        /\ build'.keys = build.keys \ {k} /\ build'.slot = build.slot
    BY <1>0, <2>1 DEF BuildTypeOK, tableVars
  <2>3. Reaches(build)
    BY <2>1 DEF BuildRight
  <2>4. Reaches(build)'
    BY <1>3, <2>1, <2>2, <2>3 DEF Reaches
  <2> QED BY <1>4, <2>1, <2>2, <2>4
<1>9. ASSUME build # None, NEW s, RegisterSlot(s) PROVE BuildRight'
  <2>1. /\ build.slot = None /\ UNCHANGED <<tableVars, todo>>
        /\ build' = [build EXCEPT !.slot = s, !.slots = @ \ {s}]
    BY <1>9 DEF RegisterSlot, Building
  <2>2. /\ build'.schemas = build.schemas /\ build'.uses = build.uses
        /\ build'.pattern = build.pattern /\ routes' = routes
        /\ build'.patterns = build.patterns /\ build'.slots = build.slots \ {s}
        /\ build'.keys = build.keys /\ build'.slot = s
    BY <1>0, <1>9, <2>1 DEF BuildTypeOK, tableVars
  <2>3. Reaches(build)
    BY <1>9 DEF BuildRight
  <2>4. \A k \in DOMAIN routes : \A x \in Slots(k) : x # None
    BY <1>0, SlotsTyped
  <2>5. Reaches(build)'
    BY <1>3, <2>1, <2>2, <2>3, <2>4 DEF Reaches
  <2> QED BY <1>4, <1>9, <2>2, <2>5
<1>10. CASE SlotRegistered
  <2> DEFINE use == [slot |-> build.slot, refs |-> RefsTo(ret)]
  <2>1. /\ build # None /\ UNCHANGED <<tableVars, todo>> /\ Deliver /\ ~ret.err
        /\ build' = [build EXCEPT !.slot = None, !.uses = @ \cup {use}]
    BY <1>10 DEF SlotRegistered
  <2>2. /\ build'.schemas = build.schemas /\ build'.uses = build.uses \cup {use}
        /\ build'.pattern = build.pattern /\ routes' = routes
        /\ build'.patterns = build.patterns /\ build'.slots = build.slots
        /\ build'.keys = build.keys /\ build'.slot = None
    BY <1>0, <2>1 DEF BuildTypeOK, tableVars
  <2>3. /\ request # None /\ Provided(request.type)
        /\ TellsType(RefsTo(ret)) /\ \A x \in RefsTo(ret) : x.for \in Shown
    BY <1>0, <2>1, DeliveredLemma
  <2>4. build.slot # None /\ request.type = build.slot.type
    BY <1>0, <2>1, <2>3 DEF BuildTypeOK
  <2>5. build.pattern # None
    BY <1>0, <2>1, <2>4 DEF BuildTypeOK
  <2>6. Reaches(build)
    BY <2>1 DEF BuildRight
  <2>7. Reaches(build)'
    <3>1. use.slot = build.slot /\ use \in build'.uses
      BY <2>2
    <3> QED BY <1>3, <2>2, <2>6, <3>1 DEF Reaches
  <2>8. UsesRight(build.uses)'
    <3>1. UsesRight(build.uses) /\ Provided(use.slot.type)
      BY <2>1, <2>3, <2>4 DEF BuildRight
    <3>2. \A t : Provided(t) => Provided(t)'
      BY <1>1, ProvidedStays
    <3>3. \A u \in build'.uses : u \in build.uses \/ u = use
      BY <2>2
    <3>4. \A u \in build'.uses : Provided(u.slot.type) /\ TellsType(u.refs) /\ \A x \in u.refs : x.for \in Shown
      BY <2>3, <3>1, <3>3 DEF UsesRight
    <3> QED BY <1>1, <3>2, <3>4 DEF UsesRight, TellsType
  <2>9. Consistent(build.schemas)'
    BY <2>1, <2>2 DEF BuildRight, Consistent
  <2> QED BY <2>2, <2>5, <2>7, <2>8, <2>9 DEF BuildRight
<1>11. CASE ClosePattern
  <2> DEFINE all == [ n \in DOMAIN build.schemas \cup DOMAIN models |->
                        IF n \in DOMAIN models THEN models[n] ELSE build.schemas[n] ]
  <2>1. /\ build # None /\ request = None /\ UNCHANGED <<vars, tableVars, todo>>
        /\ build' = [build EXCEPT !.pattern = None, !.schemas = all]
    BY <1>11 DEF ClosePattern, Building
  <2> HIDE DEF all
  <2>2. /\ build'.schemas = all /\ build'.uses = build.uses /\ routes' = routes
        /\ build'.patterns = build.patterns /\ build'.slots = build.slots
        /\ build'.keys = build.keys /\ build'.slot = build.slot
    BY <1>0, <2>1 DEF BuildTypeOK, tableVars
  <2>3. Consistent(all) /\ Covers(all, build.uses)
    <3>1. stack = <<>> /\ Shown = Present
      BY <1>0, <2>1, ShownIsPresent DEF DocSound, Registered
    <3>2. Consistent(models)
      BY <1>0, ModelsConsistent DEF Registered
    <3>3. /\ DOMAIN all = DOMAIN build.schemas \cup DOMAIN models
          /\ \A n \in DOMAIN models : all[n] = models[n]
          /\ \A n \in DOMAIN build.schemas \ DOMAIN models : all[n] = build.schemas[n]
      BY DEF all
    <3>4. /\ Consistent(build.schemas) /\ UsesRight(build.uses)
          /\ NamesTell /\ Told
      BY <2>1 DEF BuildRight, Registered, Regular
    <3> QED BY <1>0, <3>1, <3>2, <3>3, <3>4, SchemasCopied
  <2>4. Reaches(build)'
    BY <1>3, <2>1, <2>2 DEF Reaches, BuildRight
  <2>5. UsesRight(build.uses)'
    <3>1. UsesRight(build.uses) /\ Shown' = Shown
      BY <2>1 DEF BuildRight, vars, Shown
    <3> QED BY <2>2, <3>1 DEF UsesRight, Provided, Clean
  <2>6. Consistent(build.schemas)' /\ Covers(build.schemas, build.uses)'
    BY <2>2, <2>3 DEF Consistent, Covers
  <2> QED BY <2>4, <2>5, <2>6 DEF BuildRight
<1>12. CASE DescribeRoute
  <2>1. call # None /\ build' = build
    BY <1>12 DEF DescribeRoute, Table!Upsert, Table!Describe, Table!Serve, Table!At
  <2> QED BY <1>0, <1>2, <2>1
<1>13. ASSUME NEW x, Begin(x) \/ ChangeRoute(x) PROVE BuildRight'
  BY <1>2, <1>13 DEF Begin, ChangeRoute, Idle
<1>14. CASE \/ ModelRegistered \/ ModelRefused \/ ModelPanics
            \/ SlotRefused \/ SlotPanics \/ CloseSpec \/ \E x : OperationPanics(x)
  BY <1>2, <1>14 DEF ModelRegistered, ModelRefused, ModelPanics, SlotRefused, SlotPanics, CloseSpec,
                     OperationPanics
<1>15. CASE Ask \/ Register \/ ModelsRegistered \/ UNCHANGED docVars
  BY <1>5, <1>15 DEF Ask, Register, ModelsRegistered, docVars, tableVars
<1> QED BY <1>6, <1>7, <1>8, <1>9, <1>10, <1>11, <1>12, <1>13, <1>14, <1>15 DEF DocNext, Work

\* When createOpenAPI is done it has said something of every model of every route,
\* and what it says holds together.
LEMMA Walked ==
  ASSUME DocTypeOK, BuildRight, NamesTell, CloseSpec
  PROVE  /\ \A k \in DOMAIN routes : \A t \in Table!Modelled(routes[k]) :
              /\ Clean(t)
              /\ \E u \in build.uses :
                   /\ u.slot.key = k /\ u.slot.type = t
                   /\ Needs[t] \subseteq { build.schemas[n].of : n \in DOMAIN build.schemas }
         /\ \A x \in UNION ({ u.refs : u \in build.uses }
                           \cup { Refs(build.schemas[n]) : n \in DOMAIN build.schemas }) :
              x.to \in DOMAIN build.schemas /\ build.schemas[x.to].of = x.for
         /\ \A n \in DOMAIN build.schemas : build.schemas[n].whole
<1>1. /\ build # None /\ build.slot = None /\ build.pattern = None /\ build.patterns = {}
      /\ build.keys = {} /\ build.slots = {} /\ Table!TypeOK
  BY DEF CloseSpec, Building, DocTypeOK, BuildTypeOK
<1>2. /\ Consistent(build.schemas) /\ UsesRight(build.uses) /\ Reaches(build)
      /\ Covers(build.schemas, build.uses)
  BY <1>1 DEF BuildRight
<1>3. ASSUME NEW k \in DOMAIN routes, NEW t \in Table!Modelled(routes[k])
      PROVE  /\ Clean(t)
             /\ \E u \in build.uses :
                  /\ u.slot.key = k /\ u.slot.type = t
                  /\ Needs[t] \subseteq { build.schemas[n].of : n \in DOMAIN build.schemas }
  <2>1. PICK s \in Slots(k) : s.type = t /\ s.key = k /\ s # None
    BY <1>1, SlotsTyped
  <2>2. PICK u \in build.uses : u.slot = s
    BY <1>1, <1>2, <2>1 DEF Reaches
  <2>3. Clean(t)
    BY <1>2, <2>1, <2>2 DEF UsesRight, Provided
  <2>4. Needs[t] \subseteq { build.schemas[n].of : n \in DOMAIN build.schemas }
    BY <1>2, <2>1, <2>2 DEF Covers
  <2> QED BY <2>1, <2>2, <2>3, <2>4
<1>4. ASSUME NEW x, TellsType({x}), x.to \in DOMAIN build.schemas
      PROVE  build.schemas[x.to].of = x.for
  BY <1>2, <1>4 DEF TellsType, Consistent, NamesTell, Named
<1>5. ASSUME NEW x \in UNION ({ u.refs : u \in build.uses }
                           \cup { Refs(build.schemas[n]) : n \in DOMAIN build.schemas })
      PROVE  x.to \in DOMAIN build.schemas /\ build.schemas[x.to].of = x.for
  <2>1. CASE \E u \in build.uses : x \in u.refs
    <3>1. TellsType({x}) /\ x.to \in DOMAIN build.schemas
      BY <1>2, <2>1 DEF UsesRight, Covers, TellsType
    <3> QED BY <1>4, <3>1
  <2>2. CASE \E n \in DOMAIN build.schemas : x \in Refs(build.schemas[n])
    <3>1. TellsType({x}) /\ x.to \in DOMAIN build.schemas
      BY <1>2, <2>2 DEF Consistent, TellsType
    <3> QED BY <1>4, <3>1
  <2> QED BY <2>1, <2>2
<1> QED BY <1>2, <1>3, <1>5 DEF Consistent

\* Every step keeps the document complete and faithful.
LEMMA DocumentStep ==
  ASSUME DocTypeOK, BuildRight, NamesTell, DocumentComplete, DocumentFaithful,
         [DocNext]_docVars
  PROVE  DocumentComplete' /\ DocumentFaithful'
<1>1. CASE document' = document
  <2>1. DocumentComplete'
    BY <1>1 DEF DocumentComplete, Table!Modelled
  <2>2. DocumentFaithful'
    BY <1>1 DEF DocumentFaithful, Refs
  <2> QED BY <2>1, <2>2
<1>2. CASE CloseSpec
  <2>1. CASE document' = [routes |-> routes, uses |-> build.uses, schemas |-> build.schemas]
    <3>1. /\ document'.routes = routes /\ document'.uses = build.uses
          /\ document'.schemas = build.schemas
      BY <2>1
    <3> DEFINE uses == build.uses
               schemas == build.schemas
               ofs == { schemas[n].of : n \in DOMAIN schemas }
    <3>2. DocumentComplete'
      BY <1>2, <3>1, Walked DEF DocumentComplete, Table!Modelled
    <3>3. DocumentFaithful'
      BY <1>2, <3>1, Walked DEF DocumentFaithful
    <3> QED BY <3>2, <3>3
  <2> QED BY <1>1, <1>2, <2>1 DEF CloseSpec
<1>3. ASSUME NEW x, Begin(x) \/ ChangeRoute(x) \/ OpenPattern(x) \/ OpenOperation(x)
                    \/ OperationPanics(x) \/ RegisterSlot(x)
      PROVE  document' = document
  BY <1>3 DEF Begin, ChangeRoute, OpenPattern, OpenOperation, OperationPanics, RegisterSlot
<1>4. CASE Ask \/ Register \/ ModelRegistered \/ ModelRefused \/ ModelPanics \/ ModelsRegistered
           \/ SlotRegistered \/ SlotRefused \/ SlotPanics \/ ClosePattern \/ OpenSpec
           \/ DescribeRoute \/ UNCHANGED docVars
  BY <1>1, <1>4 DEF Ask, Register, ModelRegistered, ModelRefused, ModelPanics, ModelsRegistered,
              SlotRegistered, SlotRefused, SlotPanics, ClosePattern, OpenSpec, DescribeRoute, docVars
<1> QED BY <1>1, <1>2, <1>3, <1>4 DEF DocNext, Work

-----------------------------------------------------------------------------
(* The route table that the program sees.                                  *)

\* A type is refused where the route table says so.
LEMMA RefusedIsUnclean ==
  ASSUME NEW t \in Type
  PROVE  t \in { x \in Type : \E b \in Below[x] : Kind[b] = "badmap" } <=> ~Clean(t)
BY DEF Clean

\* A step of registry, calls and builder is a step of the route table, or none.
LEMMA TableStep ==
  ASSUME NEW rank, NEW refused, Regular(rank, refused),
         DocSound, Registered(rank, refused), CallRight, BuildRight, [DocNext]_docVars
  PROVE  [Table!Next]_(Table!vars)
<1>0. /\ TypeOK /\ DocTypeOK /\ BuildTypeOK /\ Table!TypeOK
      /\ todo # <<>> \/ request # None => call = None \/ call.step = "models"
      /\ build # None => call = None
      /\ stack # <<>> \/ ret # None => request # None
  BY DEF DocSound, DocTypeOK, BuildTypeOK, Shape
<1>1. CASE UNCHANGED tableVars
  BY <1>1 DEF tableVars, Table!vars
<1>2. ASSUME NEW r \in Registration, Begin(r) PROVE Table!Next
  BY <1>2 DEF Begin, Table!Next
<1>3. ASSUME NEW c \in Change, ChangeRoute(c) PROVE Table!Next
  BY <1>3 DEF ChangeRoute, Table!Next
<1>4. CASE DescribeRoute
  BY <1>4 DEF DescribeRoute, Table!Next
<1>5. CASE ModelRefused \/ ModelPanics
  <2>1. /\ UNCHANGED <<routes, router, made, spec>> /\ Table!Panic
        /\ request # None
        /\ request.type \in Type
        /\ \E b \in Below[request.type] : Kind[b] \in {"badmap", "enum"}
    BY <1>0, <1>5, FailedLemma DEF ModelRefused, ModelPanics
  <2>2. CASE call = None
    BY <1>1, <2>1, <2>2 DEF tableVars, Table!Panic
  <2>3. CASE call # None
    <3>1. Table!At("models") /\ request.type \in {Def[call.of].in, Def[call.of].out}
      BY <1>0, <2>1, <2>3 DEF Table!At, CallRight, Models
    <3>2. Table!RegisterModels
      BY <2>1, <3>1 DEF Table!RegisterModels
    <3> QED BY <3>2 DEF Table!Next
  <2> QED BY <2>2, <2>3
<1>6. CASE ModelsRegistered
  <2>1. /\ Table!At("models") /\ todo = <<>> /\ request = None
        /\ Table!Goto("upsert") /\ UNCHANGED <<routes, router, made, spec>>
    BY <1>6 DEF ModelsRegistered
  <2>2. Range(todo) = {} /\ call # None
    BY <2>1 DEF Range, Table!At
  <2>3. \A t \in Models(call.of) : Clean(t)
    BY <2>1, <2>2 DEF CallRight, Provided
  <2>4. {Def[call.of].in, Def[call.of].out}
          \cap { t \in Type : \E b \in Below[t] : Kind[b] = "badmap" } = {}
    BY <2>3, RefusedIsUnclean, TableAssumption DEF Models
  <2>5. Table!RegisterModels
    BY <2>1, <2>4 DEF Table!RegisterModels
  <2> QED BY <2>5 DEF Table!Next
<1>7. CASE SlotRefused
  <2>1. /\ build # None /\ call = None /\ spec' = "invalid" /\ UNCHANGED <<routes, router, call, made>>
        /\ request # None /\ request.type \in Type /\ ~Clean(request.type)
    BY <1>0, <1>7, FailedLemma DEF SlotRefused, Clean
  <2>2. build.slot # None /\ request.type = build.slot.type
    BY <1>0, <2>1 DEF BuildTypeOK
  <2>3. /\ build.slot.key \in DOMAIN routes
        /\ request.type \in Table!Modelled(routes[build.slot.key])
    BY <1>0, <2>1, <2>2, NextSlot
  <2>4. ~Table!Valid
    BY <2>1, <2>3, RefusedIsUnclean DEF Table!Valid
  <2>5. Table!Export
    BY <2>1, <2>4 DEF Table!Export
  <2> QED BY <2>5 DEF Table!Next
<1>8. CASE CloseSpec
  <2>1. /\ build # None /\ call = None /\ UNCHANGED <<routes, router, call, made>>
        /\ spec' = IF Resolves(build) /\ Table!Validates THEN "valid" ELSE "invalid"
    BY <1>0, <1>8 DEF CloseSpec, Building
  <2>2. Resolves(build)
    BY <1>0, <1>8, Walked DEF Resolves, Regular
  <2>3. \A k \in DOMAIN routes :
          Table!Modelled(routes[k])
            \cap { t \in Type : \E b \in Below[t] : Kind[b] = "badmap" } = {}
    BY <1>0, <1>8, Walked DEF Clean, Regular
  <2>4. Table!Valid <=> Table!Validates
    BY <2>3 DEF Table!Valid
  <2>5. Table!Export
    BY <2>1, <2>2, <2>4 DEF Table!Export
  <2> QED BY <2>5 DEF Table!Next
<1>9. ASSUME NEW x, OpenPattern(x) \/ OpenOperation(x) \/ RegisterSlot(x)
      PROVE  UNCHANGED tableVars
  BY <1>9 DEF OpenPattern, OpenOperation, RegisterSlot
<1>10. CASE SlotPanics
  <2>1. /\ build # None /\ call = None /\ spec' = "panicked"
        /\ UNCHANGED <<routes, router, call, made>>
        /\ request # None /\ request.type \in Type
        /\ \E b \in Below[request.type] : Kind[b] = "enum"
    BY <1>0, <1>10, FailedLemma DEF SlotPanics
  <2>2. build.slot # None /\ request.type = build.slot.type
    BY <1>0, <2>1 DEF BuildTypeOK
  <2>3. /\ build.slot.key \in DOMAIN routes
        /\ request.type \in Table!Modelled(routes[build.slot.key])
    BY <1>0, <2>1, <2>2, NextSlot
  <2>4. Table!ExportPanics
    BY <2>1, <2>3 DEF Table!ExportPanics
  <2> QED BY <2>4 DEF Table!Next
<1>11. ASSUME NEW k \in DOMAIN routes, OperationPanics(k) PROVE Table!Next
  <2>1. /\ call = None /\ routes[k].query \cap Enums # {} /\ spec' = "panicked"
        /\ UNCHANGED <<routes, router, call, made>>
    BY <1>0, <1>11 DEF OperationPanics, Building
  <2>2. Table!ExportPanics
    BY <2>1 DEF Table!ExportPanics
  <2> QED BY <2>2 DEF Table!Next
<1>12. CASE Ask \/ Register \/ ModelRegistered \/ SlotRegistered \/ ClosePattern
            \/ OpenSpec \/ UNCHANGED docVars
  BY <1>1, <1>12 DEF Ask, Register, ModelRegistered, SlotRegistered, ClosePattern,
                     OpenSpec, docVars, tableVars
<1> QED BY <1>1, <1>2, <1>3, <1>4, <1>5, <1>6, <1>7, <1>8, <1>9, <1>10, <1>11, <1>12
        DEF DocNext, Work

-----------------------------------------------------------------------------
(* The theorems.                                                           *)

\* The invariant holds at first.
LEMMA DocInvInit ==
  ASSUME NEW rank, NEW refused, DocInit
  PROVE  DocInv(rank, refused) /\ Table!Init
<1>1. Init /\ Len(stack) = 0 /\ ret = None /\ DOMAIN models = {} /\ stack = <<>> /\ request = None
  BY EmptySeq DEF DocInit, Init
<1>2. Held = {} /\ Present = {}
  BY <1>1 DEF Held, Present
<1>3. Registered(rank, refused)
  BY <1>1, <1>2, ShapeInit
     DEF Registered, Ranked, Sound, Wholly, OnlyWholeComponents, Told, Settled, Rooted, Kept,
         Checked, Accounted, NeedsClosed
<1>4. CallRight /\ RoutedRight /\ BuildRight /\ DocumentComplete /\ DocumentFaithful
  BY DEF DocInit, Table!Init, CallRight, RoutedRight, Table!Routed, BuildRight, DocumentComplete,
         DocumentFaithful
<1> QED BY <1>3, <1>4, DocSoundInit DEF DocInv, DocInit

\* Every step keeps it, and refines the route table.
LEMMA DocInvStep ==
  ASSUME NEW rank, NEW refused, Regular(rank, refused),
         DocInv(rank, refused), [DocNext]_docVars
  PROVE  DocInv(rank, refused)' /\ [Table!Next]_(Table!vars)
<1>1. DocTypeOK /\ TypeOK /\ NamesTell
  BY DEF DocInv, DocSound, DocTypeOK, Regular
<1>2. DocSound' /\ Registered(rank, refused)'
  BY <1>1, DocSoundStep, RegistrySteps, RegisteredStep DEF DocInv
<1>3. CallRight' /\ RoutedRight' /\ BuildRight'
  BY CallStep, RoutedStep, BuildStep DEF DocInv
<1>4. DocumentComplete' /\ DocumentFaithful'
  BY <1>1, DocumentStep DEF DocInv
<1>5. [Table!Next]_(Table!vars)
  BY TableStep DEF DocInv
<1> QED BY <1>2, <1>3, <1>4, <1>5 DEF DocInv

\* So it holds always.
LEMMA DocAlways ==
  ASSUME NEW rank, NEW refused, Regular(rank, refused)
  PROVE  DocSpec => []DocInv(rank, refused) /\ Table!Spec
<1>1. DocInit => DocInv(rank, refused) /\ Table!Init
  BY DocInvInit
<1>2. DocInv(rank, refused) /\ [DocNext]_docVars
        => DocInv(rank, refused)' /\ [Table!Next]_(Table!vars)
  BY DocInvStep
<1> QED BY <1>1, <1>2, PTL DEF DocSpec, Table!Spec

\* The conditions together.
LEMMA RegularProgram ==
  ASSUME EmbedsByValue, NamesTell, NEW rank \in [Type -> Nat], Descending(rank),
         NEW refused, Refusing(refused)
  PROVE  Regular(rank, refused)
BY DEF Regular

\* In a program in which names tell types, no type is part of itself, no pointers
\* are embedded, and what is refused is behind no pointer, a route is served only
\* with all that its input and output are made of registered (swaglay.go:216, 222).
THEOREM ServedRegistered ==
  ASSUME EmbedsByValue, NamesTell, NEW rank \in [Type -> Nat], Descending(rank),
         NEW refused, Refusing(refused)
  PROVE  DocSpec => []ServedModelsRegistered
<1>1. DocInv(rank, refused) => ServedModelsRegistered
  <2>1. Published = Present
    BY DEF Published, Present
  <2> QED BY <2>1, ShownIsPresent
          DEF DocInv, Registered, RoutedRight, Models, ServedModelsRegistered
<1> QED BY <1>1, DocAlways, RegularProgram, PTL

\* In such a program a document says something of every model of every route, and
\* has the schemas of all that the model is made of (schema.go:66-193).
THEOREM DocumentsComplete ==
  ASSUME EmbedsByValue, NamesTell, NEW rank \in [Type -> Nat], Descending(rank),
         NEW refused, Refusing(refused)
  PROVE  DocSpec => []DocumentComplete
<1>1. DocInv(rank, refused) => DocumentComplete
  BY DEF DocInv
<1> QED BY <1>1, DocAlways, RegularProgram, PTL

\* In such a program a reference of a document leads to the schema of the type it
\* was made for, and no schema is half-made (schema.go:184-193, :401-409).
THEOREM DocumentsFaithful ==
  ASSUME EmbedsByValue, NamesTell, NEW rank \in [Type -> Nat], Descending(rank),
         NEW refused, Refusing(refused)
  PROVE  DocSpec => []DocumentFaithful
<1>1. DocInv(rank, refused) => DocumentFaithful
  BY DEF DocInv
<1> QED BY <1>1, DocAlways, RegularProgram, PTL

\* In such a program registry, calls and createOpenAPI, one RegisterModel after the
\* other, are to the program what RouteTable takes for one step each: models are
\* refused for what is below them only, Spec() returns an error for the reasons
\* Valid gives, never for a reference that does not resolve, and panics only where a
\* model or a query parameter has an enum (swaglay.go:216-234, schema.go:66-193).
THEOREM RefinesRouteTable ==
  ASSUME EmbedsByValue, NamesTell, NEW rank \in [Type -> Nat], Descending(rank),
         NEW refused, Refusing(refused)
  PROVE  DocSpec => ImplementsRouteTable
BY DocAlways, RegularProgram, PTL DEF ImplementsRouteTable
=============================================================================
