-------------------------- MODULE RouteTableProofs --------------------------
(***************************************************************************)
(* Proofs about RouteTable.  The inductive invariant adds to the types     *)
(* what a call has seen to at the step it is at: that its models were      *)
(* accepted, that its route is there with the parameters of its path, that *)
(* the route has responses.  What the program changes itself may spoil     *)
(* some of this; those parts are conditions on the program's changes.      *)
(***************************************************************************)
EXTENDS RouteTable, TLAPS

\* The call in progress has been made.
CallMade == call # None => call.of \in CallsMade

\* Past its first step a call has models that can be registered.
Accepted ==
  call # None /\ call.step # "models" =>
    {Def[call.of].in, Def[call.of].out} \cap Refused = {}

\* From the upsert on the call's route is there, with the parameters of its path.
Upserted ==
  call # None /\ call.step \in {"describe", "serve"} =>
    /\ KeyOf(call.of) \in DOMAIN routes
    /\ ParamsIn[Def[call.of].pattern] \subseteq routes[KeyOf(call.of)].path

\* What is served, or is next to be, has responses and the parameters of its path.
Serving == Routed \cup { r \in Registration : At("serve") /\ call.of = r }

ServedAnswered ==
  \A r \in Serving :
    /\ KeyOf(r) \in DOMAIN routes
    /\ routes[KeyOf(r)].responses # {}
    /\ ParamsIn[Def[r].pattern] \subseteq routes[KeyOf(r)].path

\* The changes made so far brought in no model that cannot be registered.
AcceptedSoFar == \A c \in ChangesMade : Modelled(Changed[c].doc) \cap Refused = {}

\* A route is one that the program used, and has its id from the program.
Owned ==
  \A k \in DOMAIN routes :
    k \in Keys /\ (routes[k].id = None \/ <<routes[k].id, k>> \in Ids)

\* A route has its models and its query from what the program made, or from dtos.
Sourced ==
  \A k \in DOMAIN routes :
    Modelled(routes[k]) \subseteq Dto \cup ModelsMade /\ routes[k].query \subseteq QueryMade

PathsWithin == \A k \in DOMAIN routes : routes[k].path \subseteq ParamsIn[k[1]]

PathsRight == \A k \in DOMAIN routes : routes[k].path = ParamsIn[k[1]]

\* A route has no responses only between the upsert and the switch of its call.
Answered ==
  \A k \in DOMAIN routes :
    routes[k].responses # {} \/ (At("describe") /\ k = KeyOf(call.of))

\* What is said of the routes, by what was made.
RoutesRight ==
  /\ DOMAIN routes \subseteq RouteKey
  /\ \A k \in DOMAIN routes : routes[k] \in Doc
  /\ Owned /\ Sourced
  /\ ChangesFit => PathsWithin
  /\ AcceptedSoFar => RefusedNotDocumented
  /\ WellFormed => PathsRight

Documented ==
  /\ TypeOK /\ RoutesRight /\ CallMade
  /\ Accepted /\ Upserted /\ ServedAnswered
  /\ WellFormed => Answered

-----------------------------------------------------------------------------
(* Routes.                                                                 *)

\* The key of a call is a pattern and a method.
LEMMA KeysAreKeys ==
  ASSUME NEW r \in Registration
  PROVE  /\ KeyOf(r) \in RouteKey
         /\ KeyOf(r)[1] = Def[r].pattern /\ KeyOf(r)[2] = Def[r].method
         /\ ParamsIn[Def[r].pattern] \subseteq Param
BY RegistrationAssumption DEF KeyOf, RouteKey

\* What a call in its switch may add to the query.
Asked(r) == IF Def[r].method = "GET" THEN QueryOf(r) ELSE {}

\* What a call that was made brings in.
LEMMA MadeCalls ==
  ASSUME NEW r \in CallsMade
  PROVE  /\ r \in Registration
         /\ KeyOf(r) \in Keys /\ <<Def[r].id, KeyOf(r)>> \in Ids
         /\ {Def[r].in, Def[r].out} \subseteq ModelsMade
         /\ Asked(r) \subseteq QueryMade
<1>1. r \in Registration /\ KeyOf(r) \in Keys /\ <<Def[r].id, KeyOf(r)>> \in Ids
  BY DEF CallsMade, Keys, Ids
<1>2. {Def[r].in, Def[r].out} \subseteq ModelsMade
  BY DEF ModelsMade
<1>3. Asked(r) \subseteq QueryMade
  BY DEF Asked, QueryMade
<1> QED BY <1>1, <1>2, <1>3

\* What a change that was made brings in.
LEMMA MadeChanges ==
  ASSUME NEW c \in ChangesMade
  PROVE  /\ Changed[c].key \in Keys /\ <<Changed[c].doc.id, Changed[c].key>> \in Ids
         /\ Modelled(Changed[c].doc) \subseteq ModelsMade
         /\ Changed[c].doc.query \subseteq QueryMade
<1>1. Changed[c].key \in Keys /\ <<Changed[c].doc.id, Changed[c].key>> \in Ids
  BY DEF Keys, Ids
<1>2. Modelled(Changed[c].doc) \subseteq ModelsMade
  BY DEF ModelsMade
<1>3. Changed[c].doc.query \subseteq QueryMade
  BY DEF QueryMade
<1> QED BY <1>1, <1>2, <1>3

\* Setting a route adds its key and leaves the other routes alone.
LEMMA SetRouteLemma ==
  ASSUME NEW k, NEW doc, SetRoute(k, doc)
  PROVE  /\ DOMAIN routes' = DOMAIN routes \cup {k}
         /\ routes'[k] = doc
         /\ \A x \in DOMAIN routes : x # k => routes'[x] = routes[x]
BY DEF SetRoute

\* New responses replace those of the same status and change nothing else.
LEMMA HasResponsesLemma ==
  ASSUME NEW doc \in Doc, NEW new \in SUBSET (Status \X Model), new # {}
  PROVE  /\ HasResponses(doc, new) \in Doc
         /\ HasResponses(doc, new).responses # {}
         /\ HasResponses(doc, new).responses \subseteq new \cup doc.responses
         /\ HasResponses(doc, new).path = doc.path
         /\ HasResponses(doc, new).id = doc.id
         /\ HasResponses(doc, new).request = doc.request
         /\ HasResponses(doc, new).query = doc.query
BY DEF HasResponses, Doc

\* What the switch makes of a route.
Described(doc, r) ==
  {PostDoc(doc, r), PutDoc(doc, r), DeleteDoc(doc, r)}
  \cup { new \in {GetDoc(doc, r)} : Def[r].method = "GET" }

\* A model that a call may document a response with.
Answering(r, m) == m \in Dto \/ (m \in Type /\ m = Def[r].out /\ Def[r].out # None)

Answers(r, new) ==
  new # {} /\ \A p \in new : p \in Status \X Model /\ Answering(r, p[2])

\* The responses that the four cases of the switch set.
GetAnswers(r) == {<<200, OutOr(r, "OK")>>, <<404, "NotFound">>}
PostAnswers(r) ==
  {<<201, OutOr(r, "Created")>>, <<400, "BadRequest">>, <<422, "UnprocessableEntity">>}
PutAnswers(r) ==
  {<<200, OutOr(r, "OK")>>, <<400, "BadRequest">>, <<422, "UnprocessableEntity">>}
DeleteAnswers(r) == {<<204, OutOr(r, "OK")>>}

\* They are of that kind.
LEMMA NewResponses ==
  ASSUME NEW r \in Registration
  PROVE  /\ Answers(r, GetAnswers(r)) /\ Answers(r, PostAnswers(r))
         /\ Answers(r, PutAnswers(r)) /\ Answers(r, DeleteAnswers(r))
<1>1. ASSUME NEW dto \in Dto PROVE Answering(r, OutOr(r, dto))
  BY RegistrationAssumption DEF Answering, OutOr
<1>2. "OK" \in Dto /\ "Created" \in Dto
  BY DEF Dto
<1>3. \A m \in Dto : Answering(r, m)
  BY DEF Answering
<1>4. \A m : Answering(r, m) => m \in Model
  BY DEF Answering, Model
<1>5. "NotFound" \in Dto /\ "BadRequest" \in Dto /\ "UnprocessableEntity" \in Dto
  BY DEF Dto
<1>6. Answering(r, OutOr(r, "OK")) /\ Answering(r, OutOr(r, "Created"))
  BY <1>1, <1>2
<1>7. Status = {200, 201, 204, 400, 404, 422}
  BY DEF Status
<1> HIDE DEF Answering, OutOr, Dto, Status, Model
<1>8. Answers(r, GetAnswers(r))
  BY <1>3, <1>4, <1>5, <1>6, <1>7 DEF Answers, GetAnswers
<1>9. Answers(r, PostAnswers(r))
  BY <1>3, <1>4, <1>5, <1>6, <1>7 DEF Answers, PostAnswers
<1>10. Answers(r, PutAnswers(r))
  BY <1>3, <1>4, <1>5, <1>6, <1>7 DEF Answers, PutAnswers
<1>11. Answers(r, DeleteAnswers(r))
  BY <1>3, <1>4, <1>5, <1>6, <1>7 DEF Answers, DeleteAnswers
<1> QED BY <1>8, <1>9, <1>10, <1>11

\* A case of the switch keeps the path and the id, and documents responses.
LEMMA DescribedLemma ==
  ASSUME NEW doc \in Doc, NEW r \in Registration, NEW new \in Described(doc, r)
  PROVE  /\ new \in Doc /\ new.path = doc.path /\ new.id = doc.id
         /\ new.responses # {}
         /\ \A p \in new.responses : p \in doc.responses \/ Answering(r, p[2])
         /\ new.request \in {doc.request, Def[r].in}
         /\ new.query \subseteq doc.query \cup Asked(r)
<1>1. Def[r].in \in Type \cup {None}
  BY RegistrationAssumption
<1> DEFINE Extended(base) ==
      /\ base \in Doc /\ base.path = doc.path /\ base.id = doc.id
      /\ base.responses # {} /\ base.request = doc.request
      /\ base.query \subseteq doc.query \cup Asked(r)
      /\ \A p \in base.responses : p \in doc.responses \/ Answering(r, p[2])
<1>2. ASSUME NEW set, Answers(r, set) PROVE Extended(HasResponses(doc, set))
  <2>1. set \in SUBSET (Status \X Model) /\ set # {}
    BY <1>2 DEF Answers
  <2> DEFINE base == HasResponses(doc, set)
  <2>2. /\ base \in Doc /\ base.path = doc.path /\ base.id = doc.id
        /\ base.responses # {} /\ base.responses \subseteq set \cup doc.responses
        /\ base.request = doc.request /\ base.query = doc.query
    BY <2>1, HasResponsesLemma
  <2> HIDE DEF base
  <2>3. Extended(base)
    BY <1>2, <2>2 DEF Answers
  <2> QED BY <2>3 DEF base
<1>3. ASSUME NEW base, Extended(base), NEW more \in SUBSET Param,
             more \subseteq Asked(r),
             new = [base EXCEPT !.query = @ \cup more]
      PROVE  Extended(new)
  BY <1>3 DEF Doc
<1> DEFINE Told ==
      /\ new \in Doc /\ new.path = doc.path /\ new.id = doc.id
      /\ new.responses # {} /\ new.request \in {doc.request, Def[r].in}
      /\ new.query \subseteq doc.query \cup Asked(r)
      /\ \A p \in new.responses : p \in doc.responses \/ Answering(r, p[2])
<1>4. ASSUME NEW set, Answers(r, set),
             new = [HasResponses(doc, set) EXCEPT !.request = Def[r].in]
      PROVE  Told
  <2> DEFINE base == HasResponses(doc, set)
  <2>1. Extended(base)
    BY <1>2, <1>4
  <2>2. new = [base EXCEPT !.request = Def[r].in]
    BY <1>4
  <2> HIDE DEF base
  <2>3. new \in Doc
    BY <1>1, <2>1, <2>2 DEF Doc
  <2>4. /\ new.path = base.path /\ new.id = base.id /\ new.query = base.query
        /\ new.responses = base.responses /\ new.request = Def[r].in
    BY <2>1, <2>2 DEF Doc
  <2> QED BY <2>1, <2>3, <2>4
<1>5. ASSUME new = GetDoc(doc, r), Def[r].method = "GET" PROVE Extended(new)
  <2> DEFINE base == HasResponses(doc, GetAnswers(r))
             more == QueryOf(r)
  <2>1. more \in SUBSET Param /\ more \subseteq Asked(r)
    BY <1>5, RegistrationAssumption DEF QueryOf, Asked
  <2>2. new = [base EXCEPT !.query = @ \cup more]
    BY <1>5 DEF GetDoc, GetAnswers
  <2> HIDE DEF Extended
  <2>3. Extended(base)
    BY <1>2, NewResponses
  <2> HIDE DEF base, more
  <2> QED BY <1>3, <2>1, <2>2, <2>3
<1>6. Told
  <2> HIDE DEF Told
  <2>1. CASE new = GetDoc(doc, r) /\ Def[r].method = "GET"
    BY <1>5, <2>1 DEF Told, Extended
  <2>2. CASE new = PostDoc(doc, r)
    <3>1. new = [HasResponses(doc, PostAnswers(r)) EXCEPT !.request = Def[r].in]
      BY <2>2 DEF PostDoc, PostAnswers
    <3> QED BY <1>4, <3>1, NewResponses
  <2>3. CASE new = PutDoc(doc, r)
    <3>1. new = [HasResponses(doc, PutAnswers(r)) EXCEPT !.request = Def[r].in]
      BY <2>3 DEF PutDoc, PutAnswers
    <3> QED BY <1>4, <3>1, NewResponses
  <2>4. CASE new = DeleteDoc(doc, r)
    <3>1. new = [HasResponses(doc, DeleteAnswers(r)) EXCEPT !.request = Def[r].in]
      BY <2>4 DEF DeleteDoc, DeleteAnswers
    <3> QED BY <1>4, <3>1, NewResponses
  <2> QED BY <2>1, <2>2, <2>3, <2>4 DEF Described
<1> QED BY <1>6

\* A case of the switch leaves no refused model in a route, if the call's
\* models were accepted.
LEMMA DescribedAccepted ==
  ASSUME NEW doc \in Doc, NEW r \in Registration, NEW new \in Described(doc, r),
         {Def[r].in, Def[r].out} \cap Refused = {},
         Modelled(doc) \cap Refused = {}
  PROVE  Modelled(new) \cap Refused = {}
<1>1. Refused \cap Dto = {} /\ None \notin Refused
  BY RegistrationAssumption
<1>2. new.request \notin Refused
  BY <1>1, DescribedLemma DEF Modelled
<1>3. ASSUME NEW p \in new.responses PROVE p[2] \notin Refused
  BY <1>1, DescribedLemma DEF Modelled, Answering
<1> QED BY <1>2, <1>3 DEF Modelled

\* It takes its models from the route, from the call or from dtos.
LEMMA DescribedSourced ==
  ASSUME NEW doc \in Doc, NEW r \in CallsMade, NEW new \in Described(doc, r),
         Modelled(doc) \subseteq Dto \cup ModelsMade, doc.query \subseteq QueryMade
  PROVE  Modelled(new) \subseteq Dto \cup ModelsMade /\ new.query \subseteq QueryMade
<1>1. /\ r \in Registration /\ {Def[r].in, Def[r].out} \subseteq ModelsMade
      /\ Asked(r) \subseteq QueryMade
  BY MadeCalls
<1>2. /\ \A p \in new.responses : p \in doc.responses \/ Answering(r, p[2])
      /\ new.request \in {doc.request, Def[r].in}
      /\ new.query \subseteq doc.query \cup Asked(r)
  BY <1>1, DescribedLemma
<1>3. ASSUME NEW p \in new.responses PROVE p[2] \in Dto \cup ModelsMade
  BY <1>1, <1>2 DEF Modelled, Answering
<1>4. new.request # None => new.request \in Dto \cup ModelsMade
  BY <1>1, <1>2 DEF Modelled
<1> QED BY <1>1, <1>2, <1>3, <1>4 DEF Modelled

\* What the step of the switch does.
LEMMA DescribeStep ==
  ASSUME Describe, call \in [of : Registration, step : Steps],
         KeyOf(call.of) \in DOMAIN routes
  PROVE  /\ call # None /\ call.step = "describe"
         /\ UNCHANGED <<router, made, spec>>
         /\ call' = None \/ call' = [call EXCEPT !.step = "serve"]
         /\ \/ /\ UNCHANGED routes /\ call' = None
               /\ Def[call.of].method \notin {"GET", "POST", "PUT", "DELETE"}
            \/ /\ Def[call.of].method \in {"GET", "POST", "PUT", "DELETE"}
               /\ \E new \in Described(routes[KeyOf(call.of)], call.of) :
                    SetRoute(KeyOf(call.of), new)
BY DEF Describe, At, Goto, Panic, Described

-----------------------------------------------------------------------------
(* What the other steps do.                                                *)

\* The route that Upsert makes of the one it finds.
UpsertedDoc(doc, r) ==
  [ doc EXCEPT !.tags = Append(@, Def[r].resource), !.id = Def[r].id,
               !.path = @ \cup ParamsIn[Def[r].pattern] ]

\* Upsert sets the id, adds the path parameters and leaves the models alone.
LEMMA UpsertedLemma ==
  ASSUME NEW doc \in Doc, NEW r \in Registration
  PROVE  /\ UpsertedDoc(doc, r) \in Doc
         /\ UpsertedDoc(doc, r).id = Def[r].id
         /\ UpsertedDoc(doc, r).path = doc.path \cup ParamsIn[Def[r].pattern]
         /\ UpsertedDoc(doc, r).responses = doc.responses
         /\ UpsertedDoc(doc, r).request = doc.request
         /\ UpsertedDoc(doc, r).query = doc.query
<1>1. /\ Def[r].id \in Id /\ Def[r].resource \in Resource
      /\ ParamsIn[Def[r].pattern] \subseteq Param
  BY RegistrationAssumption
<1>2. doc.tags \in Seq(Resource)
  BY DEF Doc
<1>3. Append(doc.tags, Def[r].resource) \in Seq(Resource)
  BY <1>1, <1>2
<1> QED BY <1>1, <1>3 DEF UpsertedDoc, Doc

\* A route that was just made is a route, and has no models.
LEMMA NewRouteLemma ==
  /\ NewRoute \in Doc /\ NewRoute.path = {} /\ NewRoute.query = {}
  /\ Modelled(NewRoute) = {}
<1>1. <<>> \in Seq(Resource)
  OBVIOUS
<1> QED BY <1>1, ChangeAssumption DEF NewRoute, Doc, Modelled

\* What a change makes of a route: it adds, and takes responses' places.
LEMMA DirectLemma ==
  ASSUME NEW old \in Doc, NEW c \in Change,
         NEW doc \in {Merged(old, Changed[c].doc), Configured(old, Changed[c].doc)}
  PROVE  /\ doc \in Doc
         /\ doc.path = old.path \cup Changed[c].doc.path
         /\ doc.query = old.query \cup Changed[c].doc.query
         /\ doc.id \in {old.id, Changed[c].doc.id}
         /\ doc.request \in {old.request, Changed[c].doc.request}
         /\ doc.responses \subseteq old.responses \cup Changed[c].doc.responses
         /\ old.responses # {} \/ Changed[c].doc.responses # {} => doc.responses # {}
<1> DEFINE new == Changed[c].doc
<1>1. new \in Doc
  BY ChangeAssumption
<1> HIDE DEF new
<1>2. ASSUME NEW d \in Doc, NEW more \in SUBSET (Status \X Model)
      PROVE  /\ HasResponses(d, more) = [d EXCEPT !.responses = HasResponses(d, more).responses]
             /\ HasResponses(d, more).responses \subseteq d.responses \cup more
             /\ HasResponses(d, more).responses \in SUBSET (Status \X Model)
             /\ d.responses # {} \/ more # {} => HasResponses(d, more).responses # {}
  BY DEF HasResponses, Doc
<1>3. CASE doc = Merged(old, new)
  <2> DEFINE all == HasResponses(new, old.responses).responses
  <2>1. /\ all \subseteq old.responses \cup new.responses /\ all \in SUBSET (Status \X Model)
        /\ old.responses # {} \/ new.responses # {} => all # {}
    BY <1>1, <1>2 DEF Doc
  <2>2. doc = [ old EXCEPT !.responses = all, !.path = @ \cup new.path,
                           !.query = @ \cup new.query, !.request = Or(@, new.request) ]
    BY <1>3 DEF Merged
  <2> HIDE DEF all
  <2> QED BY <1>1, <2>1, <2>2 DEF Doc, Or, new
<1>4. CASE doc = Configured(old, new)
  <2> DEFINE all == HasResponses(old, new.responses).responses
  <2>1. /\ all \subseteq old.responses \cup new.responses /\ all \in SUBSET (Status \X Model)
        /\ old.responses # {} \/ new.responses # {} => all # {}
        /\ HasResponses(old, new.responses) = [old EXCEPT !.responses = all]
    BY <1>1, <1>2 DEF Doc
  <2> HIDE DEF all
  <2>2. doc = [ [old EXCEPT !.responses = all] EXCEPT
                  !.tags = @ \o new.tags, !.id = Or(new.id, @), !.path = @ \cup new.path,
                  !.query = @ \cup new.query, !.header = @ \cup new.header,
                  !.content = @ \cup new.content, !.request = Or(new.request, @) ]
    BY <1>4, <2>1 DEF Configured
  <2>3. old.tags \o new.tags \in Seq(Resource)
    BY <1>1 DEF Doc
  <2> DEFINE tags == old.tags \o new.tags
             id == Or(new.id, old.id)
             path == old.path \cup new.path
             query == old.query \cup new.query
             header == old.header \cup new.header
             content == old.content \cup new.content
             request == Or(new.request, old.request)
  <2>4. doc = [ tags |-> tags, id |-> id, path |-> path, query |-> query,
                header |-> header, content |-> content, request |-> request,
                responses |-> all ]
    BY <2>2 DEF Doc
  <2>5. /\ id \in {old.id, new.id} /\ id \in Id \cup {None}
        /\ request \in {old.request, new.request} /\ request \in Type \cup {None}
    BY <1>1 DEF Doc, Or
  <2>6. /\ tags \in Seq(Resource) /\ path \subseteq Param /\ query \subseteq Param
        /\ header \subseteq Param /\ content \subseteq ContentType
    BY <1>1, <2>3 DEF Doc
  <2>7. path = old.path \cup new.path /\ query = old.query \cup new.query
    OBVIOUS
  <2> HIDE DEF tags, id, path, query, header, content, request
  <2>8. doc \in Doc
    BY <2>1, <2>4, <2>5, <2>6 DEF Doc
  <2> QED BY <2>1, <2>4, <2>5, <2>7, <2>8 DEF new
<1> QED BY <1>3, <1>4 DEF new

-----------------------------------------------------------------------------
(* Types, whatever comes between the steps of a call.                      *)

\* The switch finds the route it describes.
Typed ==
  /\ TypeOK
  /\ At("describe") => KeyOf(call.of) \in DOMAIN routes

\* A route is written with its type.
LEMMA WriteTyped ==
  ASSUME TypeOK, NEW k \in RouteKey, NEW doc \in Doc, SetRoute(k, doc),
         UNCHANGED <<router, spec>>, made' \subseteq Registration \cup Change,
         call' \in [of : Registration, step : Steps] \cup {None}
  PROVE  TypeOK' /\ k \in DOMAIN routes'
<1>1. /\ DOMAIN routes' = DOMAIN routes \cup {k} /\ routes'[k] = doc
      /\ \A x \in DOMAIN routes : x # k => routes'[x] = routes[x]
  BY SetRouteLemma
<1>2. DOMAIN routes' \subseteq RouteKey /\ \A x \in DOMAIN routes' : routes'[x] \in Doc
  BY <1>1 DEF TypeOK
<1> QED BY <1>1, <1>2 DEF TypeOK

\* What is found, or made, is a route.
LEMMA RouteAtTyped ==
  ASSUME TypeOK, NEW k
  PROVE  RouteAt(k) \in Doc
BY NewRouteLemma DEF TypeOK, RouteAt

\* A step of a call keeps the types.
LEMMA CallTyped ==
  ASSUME Typed, Upsert \/ Describe \/ Serve
  PROVE  Typed'
<1> DEFINE r == call.of
           key == KeyOf(r)
<1>1. /\ call \in [of : Registration, step : Steps] /\ call # None
      /\ r \in Registration /\ key \in RouteKey
  <2>1. call \in [of : Registration, step : Steps] /\ call # None
    BY DEF Upsert, Describe, Serve, At, Typed, TypeOK
  <2> QED BY <2>1, KeysAreKeys
<1>2. ASSUME Upsert PROVE Typed'
  <2> DEFINE doc == UpsertedDoc(RouteAt(key), r)
  <2>1. doc \in Doc
    BY <1>1, RouteAtTyped, UpsertedLemma DEF Typed
  <2>2. SetRoute(key, doc) /\ UNCHANGED <<router, made, spec>>
        /\ call' = [call EXCEPT !.step = "describe"]
    BY <1>2 DEF Upsert, UpsertedDoc, Goto
  <2>3. call' \in [of : Registration, step : Steps] /\ call'.of = r
    BY <1>1, <2>2 DEF Steps
  <2> HIDE DEF doc, key
  <2>4. TypeOK' /\ key \in DOMAIN routes'
    BY <1>1, <2>1, <2>2, <2>3, WriteTyped DEF Typed, TypeOK
  <2> QED BY <2>3, <2>4 DEF Typed, KeyOf, key
<1>3. ASSUME Describe PROVE Typed'
  <2>1. key \in DOMAIN routes /\ routes[key] \in Doc
    BY <1>3 DEF Describe, Typed, TypeOK
  <2>2. /\ UNCHANGED <<router, made, spec>>
        /\ call' = None \/ call' = [call EXCEPT !.step = "serve"]
        /\ UNCHANGED routes \/ \E new \in Described(routes[key], r) : SetRoute(key, new)
    BY <1>1, <1>3, <2>1, DescribeStep
  <2>3. /\ call' \in [of : Registration, step : Steps] \cup {None}
        /\ call' # None => call'.step = "serve"
    BY <1>1, <2>2 DEF Steps
  <2>4. CASE UNCHANGED routes
    BY <2>2, <2>3, <2>4 DEF Typed, TypeOK, At
  <2>5. ASSUME NEW new \in Described(routes[key], r), SetRoute(key, new) PROVE Typed'
    <3>1. new \in Doc
      BY <1>1, <2>1, DescribedLemma
    <3> HIDE DEF key
    <3>2. TypeOK'
      BY <1>1, <2>2, <2>3, <2>5, <3>1, WriteTyped DEF Typed, TypeOK
    <3> QED BY <2>3, <3>2 DEF Typed, At
  <2> QED BY <2>2, <2>4, <2>5
<1>4. ASSUME Serve PROVE Typed'
  BY <1>1, <1>4 DEF Serve, Typed, TypeOK, At
<1> QED BY <1>2, <1>3, <1>4

\* So does a change by hand.
LEMMA DirectTyped ==
  ASSUME Typed, NEW c \in Change, Direct(c)
  PROVE  Typed'
<1> DEFINE k == Changed[c].key
           new == Changed[c].doc
           doc == IF Changed[c].by = "Merge" THEN Merged(RouteAt(k), new)
                  ELSE Configured(RouteAt(k), new)
<1>1. k \in RouteKey
  BY ChangeAssumption
<1>2. doc \in Doc
  <2>1. RouteAt(k) \in Doc
    BY RouteAtTyped DEF Typed
  <2>2. doc \in {Merged(RouteAt(k), new), Configured(RouteAt(k), new)}
    OBVIOUS
  <2> HIDE DEF doc
  <2> QED BY <2>1, <2>2, DirectLemma
<1>3. SetRoute(k, doc) /\ UNCHANGED <<router, call, spec>> /\ made' = made \cup {c}
      /\ call = None
  BY DEF Direct
<1> HIDE DEF k, doc
<1>4. TypeOK'
  BY <1>1, <1>2, <1>3, WriteTyped DEF Typed, TypeOK
<1> QED BY <1>3, <1>4 DEF Typed, At

-----------------------------------------------------------------------------
(* The invariant.                                                          *)

\* What was made is never unmade: a condition on it that holds after a step held before.
LEMMA Growth ==
  ASSUME made \subseteq made'
  PROVE  /\ CallsMade \subseteq CallsMade' /\ ChangesMade \subseteq ChangesMade'
         /\ Keys \subseteq Keys' /\ Ids \subseteq Ids'
         /\ ModelsMade \subseteq ModelsMade' /\ QueryMade \subseteq QueryMade'
         /\ ChangesFit' <=> ChangesFit
         /\ AcceptedSoFar' => AcceptedSoFar
         /\ WellFormed' => WellFormed /\ AcceptedSoFar'
<1>1. CallsMade \subseteq CallsMade' /\ ChangesMade \subseteq ChangesMade'
  BY DEF CallsMade, ChangesMade
<1>2. Keys \subseteq Keys' /\ Ids \subseteq Ids'
  BY <1>1 DEF Keys, Ids, KeyOf
<1>3. ModelsMade \subseteq ModelsMade' /\ QueryMade \subseteq QueryMade'
  BY <1>1 DEF ModelsMade, QueryMade, Modelled, QueryOf
<1>4. (ChangesFit' <=> ChangesFit) /\ (AcceptedSoFar' => AcceptedSoFar)
  BY <1>1 DEF ChangesFit, AcceptedSoFar, Modelled
<1>5. WellFormed' => WellFormed /\ AcceptedSoFar'
  BY <1>1, <1>2 DEF WellFormed, AcceptedSoFar, Modelled
<1> QED BY <1>1, <1>2, <1>3, <1>4, <1>5

\* It holds at the start.
LEMMA InitDocumented == Init => Documented
BY DEF Init, Documented, RoutesRight, TypeOK, CallMade, Accepted, RefusedNotDocumented,
       Upserted, Answered, ServedAnswered, Serving, Routed, At, PathsWithin, PathsRight,
       Owned, Sourced

\* Writing a route that is right keeps the routes right.
LEMMA WriteRoute ==
  ASSUME RoutesRight, made \subseteq made',
         NEW key \in RouteKey, NEW doc \in Doc, SetRoute(key, doc),
         key \in Keys', doc.id = None \/ <<doc.id, key>> \in Ids',
         Modelled(doc) \subseteq Dto \cup ModelsMade', doc.query \subseteq QueryMade',
         ChangesFit => doc.path \subseteq ParamsIn[key[1]],
         AcceptedSoFar' => Modelled(doc) \cap Refused = {},
         WellFormed' => doc.path = ParamsIn[key[1]]
  PROVE  RoutesRight' /\ key \in DOMAIN routes'
<1>1. /\ DOMAIN routes' = DOMAIN routes \cup {key}
      /\ routes'[key] = doc
      /\ \A x \in DOMAIN routes : x # key => routes'[x] = routes[x]
  BY SetRouteLemma
<1>2. /\ Keys \subseteq Keys' /\ Ids \subseteq Ids'
      /\ ModelsMade \subseteq ModelsMade' /\ QueryMade \subseteq QueryMade'
      /\ ChangesFit' <=> ChangesFit
      /\ AcceptedSoFar' => AcceptedSoFar
      /\ WellFormed' => WellFormed
  BY Growth
<1>3. DOMAIN routes' \subseteq RouteKey /\ \A k \in DOMAIN routes' : routes'[k] \in Doc
  BY <1>1 DEF RoutesRight
<1>4. AcceptedSoFar' => RefusedNotDocumented'
  BY <1>1, <1>2 DEF RoutesRight, RefusedNotDocumented, Modelled
<1>5. (ChangesFit => PathsWithin') /\ (WellFormed' => PathsRight')
  BY <1>1, <1>2 DEF RoutesRight, PathsRight, PathsWithin
<1>6. Owned'
  BY <1>1, <1>2 DEF RoutesRight, Owned
<1>7. Sourced'
  <2> SUFFICES ASSUME NEW k \in DOMAIN routes'
               PROVE  /\ Modelled(routes'[k]) \subseteq Dto \cup ModelsMade'
                      /\ routes'[k].query \subseteq QueryMade'
    BY DEF Sourced, Modelled
  <2>1. CASE k = key
    BY <1>1, <2>1
  <2>2. CASE k # key
    BY <1>1, <1>2, <2>2 DEF RoutesRight, Sourced
  <2> QED BY <2>1, <2>2
<1> QED BY <1>1, <1>2, <1>3, <1>4, <1>5, <1>6, <1>7 DEF RoutesRight

\* The steps that leave the routes alone keep what is said of them.
LEMMA RoutesUntouched ==
  ASSUME RoutesRight, UNCHANGED routes, made \subseteq made'
  PROVE  RoutesRight'
<1>1. /\ Keys \subseteq Keys' /\ Ids \subseteq Ids'
      /\ ModelsMade \subseteq ModelsMade' /\ QueryMade \subseteq QueryMade'
      /\ ChangesFit' <=> ChangesFit
      /\ AcceptedSoFar' => AcceptedSoFar
      /\ WellFormed' => WellFormed
  BY Growth
<1>2. DOMAIN routes' \subseteq RouteKey /\ (\A k \in DOMAIN routes' : routes'[k] \in Doc)
  BY DEF RoutesRight
<1>3. Owned'
  BY <1>1 DEF RoutesRight, Owned
<1>4. Sourced'
  BY <1>1 DEF RoutesRight, Sourced, Modelled
<1>5. /\ ChangesFit => PathsWithin'
      /\ WellFormed' => PathsRight'
      /\ AcceptedSoFar' => RefusedNotDocumented'
  BY <1>1 DEF RoutesRight, PathsWithin, PathsRight, RefusedNotDocumented, Modelled
<1> QED BY <1>1, <1>2, <1>3, <1>4, <1>5 DEF RoutesRight

\* A new call starts at its first step.
LEMMA CallKeeps ==
  ASSUME Documented, NEW r \in Registration, MakeCall(r)
  PROVE  Documented'
<1>1. call' \in [of : Registration, step : Steps] /\ call'.step = "models"
  BY DEF MakeCall, Steps
<1>2. made' = made \cup {r} /\ call'.of = r /\ UNCHANGED routes
  BY DEF MakeCall
<1>3. TypeOK' /\ RoutesRight'
  BY <1>1, <1>2, RoutesUntouched DEF MakeCall, Documented, TypeOK, RoutesRight
<1>4. Accepted' /\ Upserted' /\ CallMade'
  BY <1>1, <1>2 DEF Accepted, Upserted, CallMade, CallsMade
<1>5. WellFormed' => Answered'
  BY <1>2, Growth DEF Documented, Answered, At, MakeCall
<1>6. ServedAnswered'
  BY <1>1 DEF Documented, ServedAnswered, Serving, Routed, At, MakeCall, KeyOf
<1> QED BY <1>3, <1>4, <1>5, <1>6 DEF Documented

\* Only a call whose models are accepted goes on to the upsert.
LEMMA RegisterModelsKeeps ==
  ASSUME Documented, RegisterModels
  PROVE  Documented'
<1>1. call \in [of : Registration, step : Steps] /\ call.step = "models" /\ call # None
  BY DEF RegisterModels, At, Documented, TypeOK
<1>2. UNCHANGED <<routes, router, made, spec>>
  BY DEF RegisterModels
<1>3. \/ call' = None
      \/ /\ call' = [call EXCEPT !.step = "upsert"]
         /\ {Def[call.of].in, Def[call.of].out} \cap Refused = {}
  BY DEF RegisterModels, Goto, Panic
<1>4. call' \in [of : Registration, step : Steps] \cup {None}
  BY <1>1, <1>3 DEF Steps
<1>5. call' = None \/ (call'.step = "upsert" /\ call'.of = call.of)
  BY <1>1, <1>3
<1>6. TypeOK' /\ RoutesRight'
  BY <1>2, <1>4, RoutesUntouched DEF Documented, TypeOK, RoutesRight
<1>7. Accepted' /\ Upserted' /\ CallMade'
  BY <1>1, <1>2, <1>3, <1>5 DEF Accepted, Upserted, Documented, CallMade, CallsMade
<1>8. WellFormed' => Answered'
  BY <1>1, <1>2, Growth DEF Documented, Answered, At
<1>9. ServedAnswered'
  BY <1>2, <1>5 DEF Documented, ServedAnswered, Serving, Routed, At, KeyOf
<1> QED BY <1>6, <1>7, <1>8, <1>9 DEF Documented

\* What is there of the route that a step is about.
LEMMA RouteAtLemma ==
  ASSUME RoutesRight, NEW k \in RouteKey
  PROVE  /\ RouteAt(k) \in Doc
         /\ RouteAt(k).id = None \/ <<RouteAt(k).id, k>> \in Ids
         /\ ChangesFit => RouteAt(k).path \subseteq ParamsIn[k[1]]
         /\ AcceptedSoFar => Modelled(RouteAt(k)) \cap Refused = {}
         /\ Modelled(RouteAt(k)) \subseteq Dto \cup ModelsMade
         /\ RouteAt(k).query \subseteq QueryMade
         /\ WellFormed => RouteAt(k).path \subseteq ParamsIn[k[1]]
<1>1. CASE k \in DOMAIN routes
  BY <1>1 DEF RouteAt, RoutesRight, Owned, Sourced, PathsWithin, PathsRight,
              RefusedNotDocumented
<1>2. CASE k \notin DOMAIN routes
  BY <1>2, NewRouteLemma DEF RouteAt, NewRoute
<1> QED BY <1>1, <1>2

\* The upsert keeps a route's responses; a new route has none yet.
LEMMA UpsertKeeps ==
  ASSUME Documented, Upsert
  PROVE  Documented'
<1> DEFINE r == call.of
           key == KeyOf(r)
           doc == UpsertedDoc(RouteAt(key), r)
<1>1. /\ call \in [of : Registration, step : Steps] /\ call.step = "upsert" /\ call # None
      /\ r \in Registration
  BY DEF Upsert, At, Documented, TypeOK
<1>2. UNCHANGED <<router, made, spec>> /\ SetRoute(key, doc)
  BY DEF Upsert, UpsertedDoc
<1>3. call' = [call EXCEPT !.step = "describe"]
  BY DEF Upsert, Goto
<1>4. /\ call' \in [of : Registration, step : Steps]
      /\ call'.step = "describe" /\ call'.of = r
  BY <1>1, <1>3 DEF Steps
<1>5. /\ key \in RouteKey /\ key[1] = Def[r].pattern
      /\ key \in Keys /\ <<Def[r].id, key>> \in Ids
      /\ Keys \subseteq Keys' /\ Ids \subseteq Ids'
      /\ ModelsMade \subseteq ModelsMade' /\ QueryMade \subseteq QueryMade'
      /\ AcceptedSoFar' => AcceptedSoFar
      /\ WellFormed' => WellFormed
  BY <1>1, <1>2, KeysAreKeys, MadeCalls, Growth DEF Documented, CallMade
<1> DEFINE old == RouteAt(key)
<1>6. /\ old \in Doc
      /\ doc \in Doc /\ doc.id = Def[r].id
      /\ doc.path = old.path \cup ParamsIn[Def[r].pattern]
      /\ doc.responses = old.responses /\ doc.request = old.request /\ doc.query = old.query
  <2>1. old \in Doc
    <3> HIDE DEF key
    <3> QED BY <1>5, RouteAtLemma DEF Documented
  <2>2. doc = UpsertedDoc(old, r)
    OBVIOUS
  <2> HIDE DEF old, r, doc
  <2> QED BY <1>1, <2>1, <2>2, UpsertedLemma
<1> HIDE DEF doc, r
<1>7. /\ DOMAIN routes' = DOMAIN routes \cup {key}
      /\ routes'[key] = doc
      /\ \A x \in DOMAIN routes : x # key => routes'[x] = routes[x]
  BY <1>2, SetRouteLemma
<1>8. RoutesRight'
  <2>1. Modelled(doc) = Modelled(old)
    BY <1>6 DEF Modelled
  <2>2. /\ ChangesFit => doc.path \subseteq ParamsIn[key[1]]
        /\ AcceptedSoFar' => Modelled(doc) \cap Refused = {}
        /\ WellFormed' => doc.path = ParamsIn[key[1]]
        /\ Modelled(doc) \subseteq Dto \cup ModelsMade' /\ doc.query \subseteq QueryMade'
    BY <1>5, <1>6, <2>1, RouteAtLemma DEF Documented
  <2> HIDE DEF key
  <2> QED BY <1>2, <1>5, <1>6, <2>2, WriteRoute DEF Documented
<1>9. TypeOK'
  BY <1>2, <1>4, <1>8 DEF Documented, TypeOK, RoutesRight
<1>10. Accepted' /\ CallMade'
  BY <1>1, <1>2, <1>4 DEF Documented, Accepted, r, CallMade, CallsMade
<1>11. Upserted'
  BY <1>4, <1>6, <1>7 DEF Upserted, KeyOf
<1>12. WellFormed' => Answered'
  <2> SUFFICES ASSUME WellFormed, NEW k \in DOMAIN routes'
               PROVE  routes'[k].responses # {} \/ (At("describe")' /\ k = KeyOf(call.of)')
    BY <1>5 DEF Answered
  <2>1. CASE k = key
    BY <1>4, <2>1, NoneAssumption DEF At, KeyOf
  <2>2. CASE k # key
    BY <1>1, <1>7, <2>2 DEF Documented, Answered, At
  <2> QED BY <2>1, <2>2
<1>13. ServedAnswered'
  <2>1. Serving' \subseteq Serving
    BY <1>2, <1>4 DEF Serving, Routed, At
  <2>2. \A k \in DOMAIN routes : /\ k \in DOMAIN routes'
                                 /\ routes'[k].responses = routes[k].responses
                                 /\ routes[k].path \subseteq routes'[k].path
    BY <1>6, <1>7 DEF RouteAt
  <2> QED BY <2>1, <2>2 DEF Documented, ServedAnswered, KeyOf
<1> QED BY <1>8, <1>9, <1>10, <1>11, <1>12, <1>13 DEF Documented

\* The switch adds responses and accepted models, or panics.
LEMMA DescribeKeeps ==
  ASSUME Documented, Describe
  PROVE  Documented'
<1> DEFINE r == call.of
           key == KeyOf(r)
<1>1. /\ call \in [of : Registration, step : Steps] /\ call.step = "describe" /\ call # None
      /\ r \in Registration
  BY DEF Describe, At, Documented, TypeOK
<1>2. key \in DOMAIN routes /\ ParamsIn[Def[r].pattern] \subseteq routes[key].path
  BY <1>1 DEF Documented, Upserted
<1>3. /\ UNCHANGED <<router, made, spec>>
      /\ call' = None \/ call' = [call EXCEPT !.step = "serve"]
      /\ \/ /\ UNCHANGED routes /\ call' = None
            /\ Def[r].method \notin {"GET", "POST", "PUT", "DELETE"}
         \/ \E new \in Described(routes[key], r) : SetRoute(key, new)
  BY <1>1, <1>2, DescribeStep
<1>4. call' = None \/ (call' \in [of : Registration, step : Steps]
                       /\ call'.step = "serve" /\ call'.of = r)
  BY <1>1, <1>3 DEF Steps
<1>5. {Def[r].in, Def[r].out} \cap Refused = {}
  BY <1>1 DEF Documented, Accepted
<1>6. Accepted' /\ CallMade'
  BY <1>1, <1>3, <1>4, <1>5 DEF Accepted, Documented, CallMade, CallsMade
<1>9. /\ r \in CallsMade /\ made \subseteq made'
      /\ key \in Keys /\ Keys \subseteq Keys' /\ Ids \subseteq Ids'
      /\ ModelsMade \subseteq ModelsMade' /\ QueryMade \subseteq QueryMade'
      /\ AcceptedSoFar' => AcceptedSoFar
      /\ WellFormed' => WellFormed
  BY <1>1, <1>3, MadeCalls, Growth DEF Documented, CallMade
<1>7. CASE /\ UNCHANGED routes /\ call' = None
           /\ Def[r].method \notin {"GET", "POST", "PUT", "DELETE"}
  <2>1. TypeOK' /\ RoutesRight'
    BY <1>3, <1>7, <1>9, RoutesUntouched DEF Documented, TypeOK, RoutesRight
  <2>2. Upserted'
    BY <1>7 DEF Upserted
  <2>3. ~WellFormed
    BY <1>7, <1>9 DEF WellFormed
  <2>4. ServedAnswered'
    <3>1. Serving' \subseteq Serving
      BY <1>3, <1>7 DEF Serving, Routed, At
    <3> QED BY <1>7, <3>1 DEF Documented, ServedAnswered, KeyOf
  <2> QED BY <1>6, <1>9, <2>1, <2>2, <2>3, <2>4 DEF Documented
<1>8. CASE \E new \in Described(routes[key], r) : SetRoute(key, new)
  <2>1. PICK new \in Described(routes[key], r) : SetRoute(key, new)
    BY <1>8
  <2>2. /\ key \in RouteKey /\ key[1] = Def[r].pattern /\ key \in Keys
        /\ routes[key] \in Doc
        /\ routes[key].id = None \/ <<routes[key].id, key>> \in Ids
    BY <1>1, <1>2, <1>9, KeysAreKeys DEF Documented, RoutesRight, Owned
  <2>3. /\ new \in Doc /\ new.path = routes[key].path
        /\ new.id = routes[key].id /\ new.responses # {}
    BY <1>1, <2>2, DescribedLemma
  <2>4. AcceptedSoFar' => Modelled(new) \cap Refused = {}
    <3> SUFFICES ASSUME AcceptedSoFar PROVE Modelled(new) \cap Refused = {}
      BY <1>9
    <3>1. Modelled(routes[key]) \cap Refused = {}
      BY <1>2 DEF Documented, RoutesRight, RefusedNotDocumented
    <3> QED BY <1>1, <1>5, <2>2, <3>1, DescribedAccepted
  <2>5. RoutesRight' /\ key \in DOMAIN routes'
    <3>1. /\ ChangesFit => new.path \subseteq ParamsIn[key[1]]
          /\ WellFormed' => new.path = ParamsIn[key[1]]
      BY <1>2, <1>9, <2>3 DEF Documented, RoutesRight, PathsWithin, PathsRight
    <3>2. Modelled(new) \subseteq Dto \cup ModelsMade' /\ new.query \subseteq QueryMade'
      <4>1. /\ Modelled(routes[key]) \subseteq Dto \cup ModelsMade
            /\ routes[key].query \subseteq QueryMade
        BY <1>2 DEF Documented, RoutesRight, Sourced
      <4>2. Modelled(new) \subseteq Dto \cup ModelsMade /\ new.query \subseteq QueryMade
        BY <1>9, <2>2, <4>1, DescribedSourced
      <4> QED BY <1>9, <4>2
    <3>3. key \in Keys' /\ (new.id = None \/ <<new.id, key>> \in Ids')
      BY <1>9, <2>2, <2>3
    <3> HIDE DEF key
    <3> QED BY <1>9, <2>1, <2>2, <2>3, <2>4, <3>1, <3>2, <3>3, WriteRoute DEF Documented
  <2>6. /\ DOMAIN routes' = DOMAIN routes \cup {key}
        /\ routes'[key] = new
        /\ \A x \in DOMAIN routes : x # key => routes'[x] = routes[x]
    BY <2>1, SetRouteLemma
  <2>7. TypeOK'
    BY <1>3, <1>4, <2>5 DEF Documented, TypeOK, RoutesRight
  <2>8. Upserted'
    BY <1>2, <1>4, <2>3, <2>5, <2>6 DEF Upserted, KeyOf
  <2>9. WellFormed' => Answered'
    BY <1>9, <2>3, <2>6 DEF Documented, Answered, At
  <2>10. ServedAnswered'
    <3>1. ASSUME NEW s \in Serving' PROVE s \in Serving \/ s = r
      BY <1>3, <1>4 DEF Serving, Routed, At
    <3> DEFINE Fine(s) == /\ KeyOf(s) \in DOMAIN routes'
                          /\ routes'[KeyOf(s)].responses # {}
                          /\ ParamsIn[Def[s].pattern] \subseteq routes'[KeyOf(s)].path
    <3>2. ASSUME NEW s \in Serving PROVE Fine(s)
      BY <2>3, <2>6 DEF Documented, ServedAnswered
    <3>3. Fine(r)
      BY <1>2, <2>3, <2>6
    <3>4. \A s \in Serving' : Fine(s)
      <4> HIDE DEF Fine, r
      <4> QED BY <3>1, <3>2, <3>3
    <3> QED BY <3>4 DEF ServedAnswered, KeyOf
  <2> QED BY <1>6, <2>5, <2>7, <2>8, <2>9, <2>10 DEF Documented
<1> QED BY <1>3, <1>7, <1>8

\* What is added to Fiber has its responses by then.
LEMMA ServeKeeps ==
  ASSUME Documented, Serve
  PROVE  Documented'
<1>1. /\ call \in [of : Registration, step : Steps] /\ call.step = "serve" /\ call # None
      /\ call.of \in Registration
      /\ router \in Seq(Registration)
  BY DEF Serve, At, Documented, TypeOK
<1>2. router' = Append(router, call.of) /\ call' = None /\ UNCHANGED <<routes, made, spec>>
  BY DEF Serve
<1>3. TypeOK' /\ RoutesRight'
  BY <1>1, <1>2, RoutesUntouched DEF Documented, TypeOK, RoutesRight
<1>4. Accepted' /\ Upserted' /\ CallMade'
  BY <1>2 DEF Accepted, Upserted, CallMade
<1>5. WellFormed' => Answered'
  BY <1>1, <1>2, Growth DEF Documented, Answered, At
<1>6. ServedAnswered'
  <2>1. Routed' = Routed \cup {call.of}
    BY <1>1, <1>2 DEF Routed
  <2>2. Serving' \subseteq Serving
    BY <1>1, <1>2, <2>1 DEF Serving, At
  <2> QED BY <1>2, <2>2 DEF Documented, ServedAnswered, KeyOf
<1> QED BY <1>3, <1>4, <1>5, <1>6 DEF Documented

\* A change by the program adds to one route, between calls.
LEMMA DirectKeeps ==
  ASSUME Documented, NEW c \in Change, Direct(c)
  PROVE  Documented'
<1> DEFINE key == Changed[c].key
           old == RouteAt(key)
           new == Changed[c].doc
           doc == IF Changed[c].by = "Merge" THEN Merged(old, new) ELSE Configured(old, new)
<1>2. /\ call = None /\ SetRoute(key, doc)
      /\ UNCHANGED <<router, call, spec>> /\ made' = made \cup {c}
  BY DEF Direct
<1>10. /\ Keys \subseteq Keys' /\ Ids \subseteq Ids'
       /\ ModelsMade \subseteq ModelsMade' /\ QueryMade \subseteq QueryMade'
       /\ AcceptedSoFar' => AcceptedSoFar
       /\ WellFormed' => WellFormed /\ AcceptedSoFar'
  BY <1>2, Growth
<1>1. /\ key \in RouteKey /\ new \in Doc /\ key \in Keys' /\ <<new.id, key>> \in Ids'
      /\ Modelled(new) \subseteq ModelsMade' /\ new.query \subseteq QueryMade'
      /\ AcceptedSoFar' => Modelled(new) \cap Refused = {}
      /\ WellFormed' => new.path = ParamsIn[key[1]] /\ new.responses # {}
  <2>1. c \in ChangesMade'
    BY <1>2 DEF ChangesMade
  <2>2. key \in RouteKey /\ new \in Doc
    BY ChangeAssumption
  <2>3. key \in Keys' /\ <<new.id, key>> \in Ids'
    BY <2>1 DEF Keys, Ids
  <2>4. Modelled(new) \subseteq ModelsMade'
    BY <2>1 DEF ModelsMade, Modelled
  <2>5. new.query \subseteq QueryMade'
    BY <2>1 DEF QueryMade
  <2>6. /\ AcceptedSoFar' => Modelled(new) \cap Refused = {}
        /\ WellFormed' => new.path = ParamsIn[key[1]] /\ new.responses # {}
    BY <2>1 DEF AcceptedSoFar, WellFormed, Modelled
  <2> QED BY <2>2, <2>3, <2>4, <2>5, <2>6
<1>3. /\ old \in Doc /\ doc \in Doc
      /\ doc.path = old.path \cup new.path /\ doc.query = old.query \cup new.query
      /\ doc.id \in {old.id, new.id} /\ doc.request \in {old.request, new.request}
      /\ doc.responses \subseteq old.responses \cup new.responses
      /\ old.responses # {} \/ new.responses # {} => doc.responses # {}
  <2>1. old \in Doc
    BY <1>1, RouteAtLemma DEF Documented
  <2>2. doc \in {Merged(old, new), Configured(old, new)}
    OBVIOUS
  <2> HIDE DEF old, doc
  <2> QED BY <2>1, <2>2, DirectLemma
<1> HIDE DEF doc
<1>4. /\ DOMAIN routes' = DOMAIN routes \cup {key}
      /\ routes'[key] = doc
      /\ \A x \in DOMAIN routes : x # key => routes'[x] = routes[x]
  BY <1>2, SetRouteLemma
<1>5. RoutesRight'
  <2>1. doc.id = None \/ <<doc.id, key>> \in Ids'
    BY <1>1, <1>3, <1>10, RouteAtLemma DEF Documented
  <2>2. ChangesFit => doc.path \subseteq ParamsIn[key[1]]
    BY <1>1, <1>3, RouteAtLemma DEF Documented, ChangesFit
  <2>3. Modelled(doc) \subseteq Modelled(old) \cup Modelled(new)
    <3> HIDE DEF old, new
    <3> QED BY <1>3 DEF Modelled
  <2>4. /\ AcceptedSoFar => Modelled(old) \cap Refused = {}
        /\ Modelled(old) \subseteq Dto \cup ModelsMade /\ old.query \subseteq QueryMade
        /\ WellFormed => old.path \subseteq ParamsIn[key[1]]
    BY <1>1, RouteAtLemma DEF Documented
  <2> HIDE DEF old, new, key
  <2>5. AcceptedSoFar' => Modelled(doc) \cap Refused = {}
    BY <1>1, <1>10, <2>3, <2>4
  <2>6. WellFormed' => doc.path = ParamsIn[key[1]]
    BY <1>1, <1>3, <1>10, <2>4
  <2>7. Modelled(doc) \subseteq Dto \cup ModelsMade' /\ doc.query \subseteq QueryMade'
    BY <1>1, <1>3, <1>10, <2>3, <2>4
  <2> QED BY <1>1, <1>2, <1>3, <2>1, <2>2, <2>5, <2>6, <2>7, WriteRoute DEF Documented
<1>6. TypeOK'
  BY <1>2, <1>5 DEF Documented, TypeOK, RoutesRight
<1>7. Accepted' /\ Upserted' /\ CallMade'
  BY <1>2 DEF Accepted, Upserted, CallMade
<1>8. WellFormed' => Answered'
  <2>1. \A k \in DOMAIN routes : WellFormed => routes[k].responses # {}
    BY <1>2 DEF Documented, Answered, At
  <2> QED BY <1>1, <1>3, <1>4, <1>10, <2>1 DEF Answered
<1>9. ServedAnswered'
  <2>1. Serving' = Serving
    BY <1>2 DEF Serving, Routed, At
  <2>2. \A k \in DOMAIN routes : /\ k \in DOMAIN routes'
                                 /\ routes[k].responses # {} => routes'[k].responses # {}
                                 /\ routes[k].path \subseteq routes'[k].path
    BY <1>3, <1>4 DEF RouteAt
  <2> QED BY <2>1, <2>2 DEF Documented, ServedAnswered, KeyOf
<1> QED BY <1>5, <1>6, <1>7, <1>8, <1>9 DEF Documented

\* Export and stuttering.
LEMMA ExportKeeps ==
  ASSUME Documented, UNCHANGED <<routes, router, call, made>>,
         spec' \in {"none", "valid", "invalid", "panicked"}
  PROVE  Documented'
<1>1. TypeOK' /\ RoutesRight'
  BY RoutesUntouched DEF Documented, TypeOK, RoutesRight
<1>2. Accepted' /\ Upserted' /\ ServedAnswered' /\ CallMade'
  BY DEF Documented, Accepted, Upserted, ServedAnswered, Serving, Routed, At, KeyOf,
         CallMade, CallsMade
<1>3. WellFormed' => Answered'
  BY Growth DEF Documented, Answered, At, KeyOf
<1> QED BY <1>1, <1>2, <1>3 DEF Documented

\* Every step keeps the invariant.
LEMMA NextDocumented == Documented /\ [Next]_vars => Documented'
<1> SUFFICES ASSUME Documented, [Next]_vars PROVE Documented'
  OBVIOUS
<1>1. ASSUME NEW r \in Registration, MakeCall(r) PROVE Documented'
  BY <1>1, CallKeeps
<1>2. CASE RegisterModels
  BY <1>2, RegisterModelsKeeps
<1>3. CASE Upsert
  BY <1>3, UpsertKeeps
<1>4. CASE Describe
  BY <1>4, DescribeKeeps
<1>5. CASE Serve
  BY <1>5, ServeKeeps
<1>6. ASSUME NEW c \in Change, Direct(c) PROVE Documented'
  BY <1>6, DirectKeeps
<1>7. CASE Export \/ ExportPanics
  BY <1>7, ExportKeeps DEF Export, ExportPanics
<1>8. CASE UNCHANGED vars
  BY <1>8, ExportKeeps DEF vars, Documented, TypeOK
<1> QED BY <1>1, <1>2, <1>3, <1>4, <1>5, <1>6, <1>7, <1>8 DEF Next

-----------------------------------------------------------------------------
(* The theorems.                                                           *)

\* The invariant holds in every reachable state.
THEOREM AlwaysDocumented == Spec => []Documented
BY InitDocumented, NextDocumented, PTL DEF Spec

\* The state has its types.
THEOREM TypeCorrect == Spec => []TypeOK
<1>1. Documented => TypeOK
  BY DEF Documented
<1> QED BY <1>1, AlwaysDocumented, PTL

\* If the program itself brings in no model that cannot be registered, none is ever
\* documented: a call whose models are refused leaves none of them behind.
THEOREM RefusedLeaveNothing == ASSUME ChangesAccepted PROVE Spec => []RefusedNotDocumented
<1>1. Documented => RefusedNotDocumented
  BY DEF Documented, RoutesRight, AcceptedSoFar, ChangesMade, ChangesAccepted
<1> QED BY <1>1, AlwaysDocumented, PTL

\* Whatever Fiber serves is in the documentation, with responses and with the
\* parameters of its path, whichever calls panic on the way, and whatever parts the
\* program adds itself, as long as it adds no foreign path parameters.
THEOREM ServedAreDocumented == ASSUME ChangesFit PROVE Spec => []ServedIsDocumented
<1>1. Documented => ServedIsDocumented
  <2> SUFFICES ASSUME Documented, NEW r \in Routed
               PROVE  /\ KeyOf(r) \in DOMAIN routes
                      /\ routes[KeyOf(r)].responses # {}
                      /\ routes[KeyOf(r)].path = ParamsIn[Def[r].pattern]
    BY DEF ServedIsDocumented
  <2>1. /\ KeyOf(r) \in DOMAIN routes /\ routes[KeyOf(r)].responses # {}
        /\ ParamsIn[Def[r].pattern] \subseteq routes[KeyOf(r)].path
    BY DEF Documented, ServedAnswered, Serving
  <2>2. r \in Registration
    BY DEF Documented, TypeOK, Routed
  <2> QED BY <2>1, <2>2, KeysAreKeys DEF Documented, RoutesRight, PathsWithin
<1> QED BY <1>1, AlwaysDocumented, PTL

\* Whichever calls and changes are made, and whichever calls are refused or panic half
\* way, Spec() returns an error only if what was made is not well formed, and panics
\* only if it brought in an enum.
THEOREM SpecFailsRightly == Spec => []SpecFailsForCause
<1>1. Init => SpecFailsForCause
  BY DEF Init, SpecFailsForCause
<1>2. Documented /\ SpecFailsForCause /\ [Next]_vars => SpecFailsForCause'
  <2> SUFFICES ASSUME Documented, SpecFailsForCause, [Next]_vars PROVE SpecFailsForCause'
    OBVIOUS
  <2>1. made \subseteq made'
    BY DEF Next, MakeCall, RegisterModels, Upsert, Describe, Serve, Direct, Export,
           ExportPanics, vars
  <2>2. CASE Export
    <3> SUFFICES ASSUME WellFormed PROVE Valid
      BY <2>2, Growth DEF Export, SpecFailsForCause
    <3>1. AcceptedSoFar
      BY DEF WellFormed, AcceptedSoFar
    <3>2. ASSUME NEW k \in DOMAIN routes
          PROVE  /\ Modelled(routes[k]) \cap Refused = {}
                 /\ routes[k].responses # {}
                 /\ routes[k].path = ParamsIn[k[1]]
      <4>1. routes[k].responses # {}
        BY <2>2 DEF Export, Documented, Answered, At
      <4> QED BY <3>1, <4>1 DEF Documented, RoutesRight, RefusedNotDocumented, PathsRight
    <3>3. ASSUME NEW k \in DOMAIN routes, NEW l \in DOMAIN routes
          PROVE  /\ routes[k].id = routes[l].id /\ routes[k].id # None => k = l
                 /\ Template[k[1]] = Template[l[1]] => k[1] = l[1]
      <4>1. /\ k \in Keys /\ l \in Keys
            /\ routes[k].id = None \/ <<routes[k].id, k>> \in Ids
            /\ routes[l].id = None \/ <<routes[l].id, l>> \in Ids
        BY DEF Documented, RoutesRight, Owned
      <4>2. /\ \A i, j \in Ids : i[1] = j[1] /\ i[1] # None => i[2] = j[2]
            /\ \A x, y \in Keys : Template[x[1]] = Template[y[1]] => x[1] = y[1]
        BY DEF WellFormed
      <4>3. Template[k[1]] = Template[l[1]] => k[1] = l[1]
        BY <4>1, <4>2
      <4>4. ASSUME routes[k].id = routes[l].id, routes[k].id # None PROVE k = l
        <5>1. <<routes[k].id, k>> \in Ids /\ <<routes[l].id, l>> \in Ids
          BY <4>1, <4>4
        <5> QED BY <4>2, <4>4, <5>1
      <4> QED BY <4>3, <4>4
    <3> QED BY <3>2, <3>3 DEF Valid, Validates
  <2>3. CASE ExportPanics
    <3>1. PICK k \in DOMAIN routes :
            Modelled(routes[k]) \cap MayPanic # {} \/ routes[k].query \cap Enums # {}
      BY <2>3 DEF ExportPanics
    <3>2. /\ Modelled(routes[k]) \subseteq Dto \cup ModelsMade
          /\ routes[k].query \subseteq QueryMade
      BY DEF Documented, RoutesRight, Sourced
    <3>3. MayPanic \cap Dto = {}
      BY RegistrationAssumption
    <3>4. ModelsMade \cap MayPanic # {} \/ QueryMade \cap Enums # {}
      BY <3>1, <3>2, <3>3
    <3>5. ModelsMade \subseteq ModelsMade' /\ QueryMade \subseteq QueryMade'
      BY <2>1, Growth
    <3> QED BY <2>3, <3>4, <3>5 DEF ExportPanics, SpecFailsForCause
  <2>4. CASE UNCHANGED spec
    <3>1. /\ WellFormed' => WellFormed
          /\ ModelsMade \subseteq ModelsMade' /\ QueryMade \subseteq QueryMade'
      BY <2>1, Growth
    <3> QED BY <2>4, <3>1 DEF SpecFailsForCause
  <2> QED BY <2>2, <2>3, <2>4 DEF Next, MakeCall, RegisterModels, Upsert, Describe,
                                  Serve, Direct, vars
<1> QED BY <1>1, <1>2, AlwaysDocumented, PTL DEF Spec
=============================================================================
