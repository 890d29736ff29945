------------------------ MODULE RouteAgreementProofs ------------------------
(***************************************************************************)
(* That what is documented agrees with what is served, and is replaced by  *)
(* descriptions of the same route only.  A route may be described by       *)
(* several calls and changed by hand; the invariant says of each call that *)
(* is served, or is about to be, what of its own description the route     *)
(* still holds.                                                            *)
(***************************************************************************)
EXTENDS RouteTableProofs

\* Call r can go through the switch and on to Fiber.
Switches(r) ==
  /\ Def[r].serve
  /\ Def[r].method \in {"GET", "POST", "PUT", "DELETE"}
  /\ Def[r].method = "GET" => Def[r].in \notin Unsupported

\* What a route tells of call r: its output with the status of its method, and its
\* input as a query or as a body.
Tells(doc, r) ==
  /\ OutputsAgree /\ Def[r].out # None => <<OutputStatus(r), Def[r].out>> \in doc.responses
  /\ InputsAgree /\ Def[r].in # None /\ Def[r].method # "GET" => doc.request = Def[r].in
  /\ Def[r].in # None /\ Def[r].method = "GET" => Fields[Def[r].in] \subseteq doc.query

\* The route of a call that is served, or is next to be, still tells of it.
ServedTold ==
  \A r \in Serving :
    Switches(r) /\ KeyOf(r) \in DOMAIN routes /\ Tells(routes[KeyOf(r)], r)

\* A GET that takes an input has no body, before it is served as well as after.
Bodiless(r) == Def[r].serve /\ Def[r].in # None /\ Def[r].method = "GET"

NoBodies ==
  \A r \in Registration :
    Bodiless(r) /\ KeyOf(r) \in DOMAIN routes => routes[KeyOf(r)].request = None

Agreed == ServedTold /\ (InputsAgree => NoBodies)

\* Route `new' documents whatever `old' does, maybe with other models, ...
Extends(old, new) ==
  /\ old.path \subseteq new.path
  /\ old.query \subseteq new.query
  /\ old.header \subseteq new.header
  /\ old.content \subseteq new.content
  /\ \A p \in old.responses : \E q \in new.responses : p[1] = q[1]

\* ... or with the same ones.
KeepsModels(old, new) ==
  old.responses \subseteq new.responses /\ old.request \in {None, new.request}

-----------------------------------------------------------------------------
(* What a description makes of a route.                                    *)

\* The new responses and the old ones of other statuses, and nothing else.
LEMMA ResponsesLemma ==
  ASSUME NEW doc \in Doc, NEW new
  PROVE  /\ HasResponses(doc, new).responses =
              new \cup { p \in doc.responses : \A q \in new : q[1] # p[1] }
         /\ HasResponses(doc, new).path = doc.path
         /\ HasResponses(doc, new).query = doc.query
         /\ HasResponses(doc, new).header = doc.header
         /\ HasResponses(doc, new).content = doc.content
         /\ HasResponses(doc, new).request = doc.request
BY DEF HasResponses, Doc

\* The same for the statuses they are of.
LEMMA StatusesKept ==
  ASSUME NEW doc \in Doc, NEW new
  PROVE  LET all == HasResponses(doc, new).responses
         IN  /\ new \subseteq all
             /\ \A p \in doc.responses : p \in all \/ \E q \in new : q[1] = p[1]
             /\ \A p \in doc.responses : \E q \in all : p[1] = q[1]
<1> DEFINE all == HasResponses(doc, new).responses
<1>1. all = new \cup { p \in doc.responses : \A q \in new : q[1] # p[1] }
  BY ResponsesLemma
<1> HIDE DEF all
<1> QED BY <1>1 DEF all

\* The case of the switch for a call's method.
SwitchDoc(doc, r) ==
  CASE Def[r].method = "GET"  -> GetDoc(doc, r)
    [] Def[r].method = "POST" -> PostDoc(doc, r)
    [] Def[r].method = "PUT"  -> PutDoc(doc, r)
    [] OTHER                  -> DeleteDoc(doc, r)

\* An output is documented with the status of the method.
LEMMA OutputAnswers ==
  ASSUME NEW r \in Registration, Def[r].out # None
  PROVE  LET p == <<OutputStatus(r), Def[r].out>>
         IN  /\ Def[r].method = "GET" => p \in GetAnswers(r)
             /\ Def[r].method = "POST" => p \in PostAnswers(r)
             /\ Def[r].method = "PUT" => p \in PutAnswers(r)
             /\ Def[r].method = "DELETE" => p \in DeleteAnswers(r)
BY DEF OutputStatus, OutOr, GetAnswers, PostAnswers, PutAnswers, DeleteAnswers

\* Each case adds to the route, documents the output, and the input as a query or
\* as a body.
LEMMA SwitchLemma ==
  ASSUME NEW doc \in Doc, NEW r \in Registration,
         Def[r].method \in {"GET", "POST", "PUT", "DELETE"}
  PROVE  LET new == SwitchDoc(doc, r)
         IN  /\ new \in Described(doc, r)
             /\ Extends(doc, new)
             /\ Def[r].out # None => <<OutputStatus(r), Def[r].out>> \in new.responses
             /\ Def[r].method # "GET" => new.request = Def[r].in
             /\ Def[r].method = "GET" =>
                  /\ new.request = doc.request
                  /\ Def[r].in \in Type \ Unsupported => Fields[Def[r].in] \subseteq new.query
<1> DEFINE new == SwitchDoc(doc, r)
           method == Def[r].method
           output == <<OutputStatus(r), Def[r].out>>
           Keeps(d) ==
             /\ d.path = doc.path /\ d.query = doc.query /\ d.header = doc.header
             /\ d.content = doc.content /\ d.request = doc.request
             /\ \A p \in doc.responses : \E q \in d.responses : p[1] = q[1]
<1>1. ASSUME NEW set, Answers(r, set)
      PROVE  LET d == HasResponses(doc, set)
             IN  d \in Doc /\ Keeps(d) /\ set \subseteq d.responses
  <2>1. set \in SUBSET (Status \X Model) /\ set # {}
    BY <1>1 DEF Answers
  <2> DEFINE d == HasResponses(doc, set)
  <2>2. d \in Doc
    BY <2>1, HasResponsesLemma
  <2>3. Keeps(d) /\ set \subseteq d.responses
    BY ResponsesLemma, StatusesKept
  <2> QED BY <2>2, <2>3
<1>2. ASSUME NEW d \in Doc, NEW in
      PROVE  LET e == [d EXCEPT !.request = in]
             IN  /\ e.path = d.path /\ e.query = d.query /\ e.header = d.header
                 /\ e.content = d.content
                 /\ e.responses = d.responses /\ e.request = in
  BY DEF Doc
<1>3. ASSUME NEW set, Answers(r, set), Def[r].out # None => output \in set,
             new = [HasResponses(doc, set) EXCEPT !.request = Def[r].in]
      PROVE  /\ Extends(doc, new)
             /\ Def[r].out # None => output \in new.responses
             /\ new.request = Def[r].in
  <2> DEFINE d == HasResponses(doc, set)
  <2>1. d \in Doc /\ Keeps(d) /\ set \subseteq d.responses
    BY <1>1, <1>3
  <2>2. /\ new.path = d.path /\ new.query = d.query /\ new.header = d.header
        /\ new.content = d.content
        /\ new.responses = d.responses /\ new.request = Def[r].in
    BY <1>2, <1>3, <2>1
  <2> HIDE DEF d, new, output
  <2> QED BY <1>3, <2>1, <2>2 DEF Extends
<1>4. CASE method = "GET"
  <2> DEFINE d == HasResponses(doc, GetAnswers(r))
             more == QueryOf(r)
  <2>1. d \in Doc /\ Keeps(d) /\ GetAnswers(r) \subseteq d.responses
    BY <1>1, NewResponses
  <2>2. new = [d EXCEPT !.query = @ \cup more]
    BY <1>4 DEF SwitchDoc, GetDoc, GetAnswers
  <2>3. Def[r].out # None => output \in GetAnswers(r)
    BY <1>4, OutputAnswers
  <2>4. Def[r].in \in Type \ Unsupported => Fields[Def[r].in] \subseteq more
    BY DEF QueryOf
  <2> HIDE DEF d, more, new, output
  <2>5. /\ new.path = d.path /\ new.query = d.query \cup more /\ new.header = d.header
        /\ new.content = d.content
        /\ new.responses = d.responses /\ new.request = d.request
    BY <2>1, <2>2 DEF Doc
  <2>6. new \in Described(doc, r)
    BY <1>4 DEF new, SwitchDoc, Described
  <2>7. Extends(doc, new)
    BY <2>1, <2>5 DEF Extends
  <2>8. Def[r].out # None => output \in new.responses
    BY <2>1, <2>3, <2>5
  <2>9. /\ new.request = doc.request
        /\ Def[r].in \in Type \ Unsupported => Fields[Def[r].in] \subseteq new.query
    BY <2>1, <2>4, <2>5
  <2> QED BY <1>4, <2>6, <2>7, <2>8, <2>9 DEF new, output
<1>5. CASE method = "POST"
  <2>1. new = [HasResponses(doc, PostAnswers(r)) EXCEPT !.request = Def[r].in]
    BY <1>5 DEF SwitchDoc, PostDoc, PostAnswers
  <2>2. new \in Described(doc, r)
    BY <1>5 DEF SwitchDoc, Described
  <2>3. Def[r].out # None => output \in PostAnswers(r)
    BY <1>5, OutputAnswers
  <2> HIDE DEF new, output
  <2> QED BY <1>3, <1>5, <2>1, <2>2, <2>3, NewResponses DEF new, output
<1>6. CASE method = "PUT"
  <2>1. new = [HasResponses(doc, PutAnswers(r)) EXCEPT !.request = Def[r].in]
    BY <1>6 DEF SwitchDoc, PutDoc, PutAnswers
  <2>2. new \in Described(doc, r)
    BY <1>6 DEF SwitchDoc, Described
  <2>3. Def[r].out # None => output \in PutAnswers(r)
    BY <1>6, OutputAnswers
  <2> HIDE DEF new, output
  <2> QED BY <1>3, <1>6, <2>1, <2>2, <2>3, NewResponses DEF new, output
<1>7. CASE method = "DELETE"
  <2>1. new = [HasResponses(doc, DeleteAnswers(r)) EXCEPT !.request = Def[r].in]
    BY <1>7 DEF SwitchDoc, DeleteDoc, DeleteAnswers
  <2>2. new \in Described(doc, r)
    BY <1>7 DEF SwitchDoc, Described
  <2>3. Def[r].out # None => output \in DeleteAnswers(r)
    BY <1>7, OutputAnswers
  <2> HIDE DEF new, output
  <2> QED BY <1>3, <1>7, <2>1, <2>2, <2>3, NewResponses DEF new, output
<1> QED BY <1>4, <1>5, <1>6, <1>7

\* The step of the switch: a case of it, or a panic, and then perhaps Fiber.
LEMMA SwitchStep ==
  ASSUME Describe, call \in [of : Registration, step : Steps],
         KeyOf(call.of) \in DOMAIN routes
  PROVE  /\ UNCHANGED <<router, made, spec>>
         /\ \/ call' = None
            \/ /\ call' = [call EXCEPT !.step = "serve"]
               /\ Def[call.of].serve
               /\ Def[call.of].method = "GET" => Def[call.of].in \notin Unsupported
         /\ \/ UNCHANGED routes /\ call' = None
            \/ /\ Def[call.of].method \in {"GET", "POST", "PUT", "DELETE"}
               /\ SetRoute(KeyOf(call.of), SwitchDoc(routes[KeyOf(call.of)], call.of))
BY DEF Describe, At, Goto, Panic, SwitchDoc

\* The upsert changes neither query nor header, and what UpsertedLemma says.
LEMMA UpsertExtends ==
  ASSUME NEW doc \in Doc, NEW r \in Registration
  PROVE  LET new == UpsertedDoc(doc, r)
         IN  /\ Extends(doc, new)
             /\ new.responses = doc.responses /\ new.request = doc.request
             /\ new.query = doc.query
<1> DEFINE new == UpsertedDoc(doc, r)
<1>1. new.query = doc.query /\ new.header = doc.header /\ new.content = doc.content
  BY DEF UpsertedDoc, Doc
<1>2. /\ new.path = doc.path \cup ParamsIn[Def[r].pattern]
      /\ new.responses = doc.responses /\ new.request = doc.request
  BY UpsertedLemma
<1> HIDE DEF new
<1>3. Extends(doc, new)
  BY <1>1, <1>2 DEF Extends
<1> QED BY <1>1, <1>2, <1>3 DEF new

\* Merge adds what is not there.
LEMMA MergedLemma ==
  ASSUME NEW old \in Doc, NEW new \in Doc
  PROVE  LET doc == Merged(old, new)
         IN  /\ Extends(old, doc)
             /\ old.responses \subseteq doc.responses
             /\ doc.request = Or(old.request, new.request)
<1> DEFINE doc == Merged(old, new)
           all == HasResponses(new, old.responses).responses
<1>1. old.responses \subseteq all
  BY StatusesKept
<1>2. doc = [ old EXCEPT !.responses = all, !.path = @ \cup new.path,
                         !.query = @ \cup new.query, !.request = Or(@, new.request) ]
  BY DEF Merged
<1> HIDE DEF doc, all
<1>3. /\ doc.path = old.path \cup new.path /\ doc.query = old.query \cup new.query
      /\ doc.header = old.header /\ doc.content = old.content /\ doc.responses = all
      /\ doc.request = Or(old.request, new.request)
  BY <1>2 DEF Doc
<1>4. Extends(old, doc)
  BY <1>1, <1>3 DEF Extends
<1> QED BY <1>1, <1>3, <1>4 DEF doc

\* The Has... functions add, and take the places of responses and of a body.
LEMMA ConfiguredLemma ==
  ASSUME NEW old \in Doc, NEW new \in Doc
  PROVE  LET doc == Configured(old, new)
         IN  /\ Extends(old, doc)
             /\ new.responses \subseteq doc.responses
             /\ \A p \in old.responses :
                  p \in doc.responses \/ \E q \in new.responses : q[1] = p[1]
             /\ doc.request = Or(new.request, old.request)
<1> DEFINE doc == Configured(old, new)
           base == HasResponses(old, new.responses)
           all == base.responses
<1>1. /\ new.responses \subseteq all
      /\ \A p \in old.responses : p \in all \/ \E q \in new.responses : q[1] = p[1]
      /\ \A p \in old.responses : \E q \in all : p[1] = q[1]
  BY StatusesKept
<1>2. base = [old EXCEPT !.responses = all]
  BY DEF HasResponses, Doc
<1>3. doc = [ base EXCEPT
                !.tags = @ \o new.tags, !.id = Or(new.id, @), !.path = @ \cup new.path,
                !.query = @ \cup new.query, !.header = @ \cup new.header,
                !.content = @ \cup new.content, !.request = Or(new.request, @) ]
  BY DEF Configured
<1> HIDE DEF doc, base, all
<1>4. doc = [ [old EXCEPT !.responses = all] EXCEPT
                !.tags = @ \o new.tags, !.id = Or(new.id, @), !.path = @ \cup new.path,
                !.query = @ \cup new.query, !.header = @ \cup new.header,
                !.content = @ \cup new.content, !.request = Or(new.request, @) ]
  BY <1>2, <1>3
<1>5. /\ doc.path = old.path \cup new.path /\ doc.query = old.query \cup new.query
      /\ doc.header = old.header \cup new.header /\ doc.content = old.content \cup new.content
      /\ doc.responses = all
      /\ doc.request = Or(new.request, old.request)
  BY <1>4 DEF Doc
<1>6. Extends(old, doc)
  BY <1>1, <1>5 DEF Extends
<1> QED BY <1>1, <1>5, <1>6 DEF doc

\* A change by hand adds, too.
LEMMA DirectExtends ==
  ASSUME RoutesRight, NEW c \in Change, Direct(c)
  PROVE  LET key == Changed[c].key
             old == RouteAt(key)
             new == Changed[c].doc
         IN  /\ key \in RouteKey /\ old \in Doc /\ new \in Doc
             /\ call = None /\ UNCHANGED <<router, call>>
             /\ \E doc \in {Merged(old, new), Configured(old, new)} :
                  /\ SetRoute(key, doc)
                  /\ Extends(old, doc)
                  /\ Changed[c].by = "Merge" => doc = Merged(old, new)
                  /\ Changed[c].by # "Merge" => doc = Configured(old, new)
<1> DEFINE key == Changed[c].key
           old == RouteAt(key)
           new == Changed[c].doc
           doc == IF Changed[c].by = "Merge" THEN Merged(old, new) ELSE Configured(old, new)
<1>1. key \in RouteKey /\ new \in Doc
  BY ChangeAssumption
<1>2. old \in Doc
  BY <1>1, RouteAtLemma
<1>3. call = None /\ UNCHANGED <<router, call>> /\ SetRoute(key, doc)
  BY DEF Direct
<1> HIDE DEF key, old, new
<1>4. Extends(old, doc)
  BY <1>1, <1>2, MergedLemma, ConfiguredLemma
<1> QED BY <1>1, <1>2, <1>3, <1>4 DEF key, old, new

-----------------------------------------------------------------------------
(* What is replaced, and by whom.                                          *)

\* A step writes no route or one; that one is extended, and keeps its models unless
\* the step is a description of it.
LEMMA StepsExtend ==
  ASSUME Documented, Next
  PROVE  \/ UNCHANGED routes
         \/ \E key, doc : /\ SetRoute(key, doc) /\ Extends(RouteAt(key), doc)
                          /\ KeepsModels(RouteAt(key), doc) \/ Replaces(key)
<1>1. CASE Upsert
  <2> DEFINE r == call.of
             key == KeyOf(r)
             old == RouteAt(key)
  <2>1. r \in Registration
    BY <1>1 DEF Upsert, At, Documented, TypeOK
  <2>2. key \in RouteKey
    BY <2>1, KeysAreKeys
  <2>3. old \in Doc
    <3> HIDE DEF key
    <3> QED BY <2>2, RouteAtLemma DEF Documented
  <2>4. SetRoute(key, UpsertedDoc(old, r))
    BY <1>1 DEF Upsert, UpsertedDoc
  <2> HIDE DEF r, key, old
  <2>5. Extends(old, UpsertedDoc(old, r)) /\ KeepsModels(old, UpsertedDoc(old, r))
    BY <2>1, <2>3, UpsertExtends DEF KeepsModels
  <2> QED BY <2>4, <2>5 DEF old
<1>2. CASE Describe
  <2> DEFINE r == call.of
             key == KeyOf(r)
  <2>1. /\ call \in [of : Registration, step : Steps] /\ r \in Registration
        /\ key \in DOMAIN routes
    BY <1>2 DEF Describe, At, Documented, TypeOK, Upserted
  <2>2. routes[key] \in Doc /\ RouteAt(key) = routes[key]
    BY <2>1 DEF Documented, RoutesRight, RouteAt
  <2>3. \/ UNCHANGED routes
        \/ /\ Def[r].method \in {"GET", "POST", "PUT", "DELETE"}
           /\ SetRoute(key, SwitchDoc(routes[key], r))
    BY <1>2, <2>1, SwitchStep
  <2>5. Replaces(key)
    BY <1>2 DEF Describe, Replaces
  <2> HIDE DEF r, key
  <2>4. Def[r].method \in {"GET", "POST", "PUT", "DELETE"} =>
          Extends(routes[key], SwitchDoc(routes[key], r))
    BY <2>1, <2>2, SwitchLemma
  <2> QED BY <2>2, <2>3, <2>4, <2>5
<1>3. ASSUME NEW c \in Change, Direct(c)
      PROVE  \E key, doc : /\ SetRoute(key, doc) /\ Extends(RouteAt(key), doc)
                           /\ KeepsModels(RouteAt(key), doc) \/ Replaces(key)
  <2> DEFINE key == Changed[c].key
             old == RouteAt(key)
             new == Changed[c].doc
  <2>1. /\ old \in Doc /\ new \in Doc
        /\ \E doc : /\ SetRoute(key, doc) /\ Extends(old, doc)
                    /\ Changed[c].by = "Merge" => doc = Merged(old, new)
    BY <1>3, DirectExtends DEF Documented
  <2>2. Changed[c].by \in {"Has", "Merge"}
    BY ChangeAssumption
  <2>3. Changed[c].by = "Has" => Replaces(key)
    BY <1>3 DEF Direct, Replaces
  <2> HIDE DEF key, old, new
  <2>4. KeepsModels(old, Merged(old, new))
    BY <2>1, MergedLemma DEF KeepsModels, Or
  <2> QED BY <2>1, <2>2, <2>3, <2>4 DEF old
<1>4. CASE UNCHANGED routes
  BY <1>4
<1> QED BY <1>1, <1>2, <1>3, <1>4
        DEF Next, MakeCall, RegisterModels, Serve, Export, ExportPanics

\* Whoever describes, configures or merges a route, and whichever calls panic half
\* way: no parameter, content type or status that was documented is withdrawn, and the
\* model of a status or of the body is replaced only by a description of that route.
THEOREM OnlyDescriptionsReplace == Spec => ReplacedByDescriptionOnly
<1> DEFINE Kept == \A k \in DOMAIN routes :
              /\ k \in DOMAIN routes'
              /\ routes[k].path \subseteq routes'[k].path
              /\ routes[k].query \subseteq routes'[k].query
              /\ routes[k].header \subseteq routes'[k].header
              /\ routes[k].content \subseteq routes'[k].content
              /\ \A p \in routes[k].responses : \E q \in routes'[k].responses : p[1] = q[1]
              /\ \/ Replaces(k)
                 \/ /\ routes[k].responses \subseteq routes'[k].responses
                    /\ routes[k].request \in {None, routes'[k].request}
<1>1. Documented /\ [Next]_vars => [Kept]_vars
  <2> SUFFICES ASSUME Documented, Next PROVE Kept
    OBVIOUS
  <2>1. CASE UNCHANGED routes
    BY <2>1
  <2>2. ASSUME NEW key, NEW doc, SetRoute(key, doc), Extends(RouteAt(key), doc),
               KeepsModels(RouteAt(key), doc) \/ Replaces(key)
        PROVE  Kept
    <3>1. /\ DOMAIN routes' = DOMAIN routes \cup {key}
          /\ routes'[key] = doc
          /\ \A x \in DOMAIN routes : x # key => routes'[x] = routes[x]
      BY <2>2, SetRouteLemma
    <3>2. key \in DOMAIN routes =>
            /\ Extends(routes[key], doc)
            /\ KeepsModels(routes[key], doc) \/ Replaces(key)
      BY <2>2 DEF RouteAt
    <3> QED BY <3>1, <3>2 DEF Extends, KeepsModels
  <2> HIDE DEF Kept
  <2> QED BY <2>1, <2>2, StepsExtend
<1> QED BY <1>1, AlwaysDocumented, PTL DEF Spec, ReplacedByDescriptionOnly

-----------------------------------------------------------------------------
(* What is documented agrees with what is served.                          *)

\* The conditions are about constants, and so is what a route tells.
LEMMA AgreementConstant ==
  /\ OutputsAgree' <=> OutputsAgree
  /\ InputsAgree' <=> InputsAgree
BY DEF OutputsAgree, InputsAgree, OutputStatus, KeyOf

\* What has to be seen to in a step.
LEMMA AgreedForm ==
  ASSUME \A r \in Serving' :
           Switches(r) /\ KeyOf(r) \in DOMAIN routes' /\ Tells(routes'[KeyOf(r)], r),
         InputsAgree => \A r \in Registration :
           Bodiless(r) /\ KeyOf(r) \in DOMAIN routes' => routes'[KeyOf(r)].request = None
  PROVE  Agreed'
<1>1. NoBodies' <=> \A r \in Registration :
        Bodiless(r) /\ KeyOf(r) \in DOMAIN routes' => routes'[KeyOf(r)].request = None
  BY DEF NoBodies, Bodiless, KeyOf
<1>2. ServedTold'
  BY AgreementConstant DEF ServedTold, Switches, Tells, OutputStatus, KeyOf
<1> QED BY <1>1, <1>2, AgreementConstant DEF Agreed

\* It holds at the start.
LEMMA InitAgreed == Init => Agreed
BY DEF Init, Agreed, ServedTold, Serving, Routed, At, NoBodies

\* The steps that leave the routes alone, and serve nothing new.
LEMMA QuietAgreed ==
  ASSUME Agreed, UNCHANGED routes, Serving' \subseteq Serving
  PROVE  Agreed'
<1>1. \A r \in Serving' :
        Switches(r) /\ KeyOf(r) \in DOMAIN routes' /\ Tells(routes'[KeyOf(r)], r)
  BY DEF Agreed, ServedTold
<1>2. InputsAgree => \A r \in Registration :
        Bodiless(r) /\ KeyOf(r) \in DOMAIN routes' => routes'[KeyOf(r)].request = None
  BY DEF Agreed, NoBodies
<1> QED BY <1>1, <1>2, AgreedForm

\* A step that writes one route: that route must go on telling of the calls it told
\* of, tell of the call that comes to be served, and have no body if it may not.
LEMMA WriteAgreed ==
  ASSUME Agreed, NEW key, NEW doc, SetRoute(key, doc),
         \A r \in Serving' :
           r \in Serving \/ (Switches(r) /\ KeyOf(r) = key /\ Tells(doc, r)),
         \A r \in Serving :
           KeyOf(r) = key /\ key \in DOMAIN routes /\ Switches(r) /\ Tells(routes[key], r)
             => Tells(doc, r),
         InputsAgree =>
           \A r \in Registration : Bodiless(r) /\ KeyOf(r) = key => doc.request = None
  PROVE  Agreed'
<1>1. /\ DOMAIN routes' = DOMAIN routes \cup {key}
      /\ routes'[key] = doc
      /\ \A x \in DOMAIN routes : x # key => routes'[x] = routes[x]
  BY SetRouteLemma
<1> DEFINE Fine(r) ==
      Switches(r) /\ KeyOf(r) \in DOMAIN routes' /\ Tells(routes'[KeyOf(r)], r)
<1>2. ASSUME NEW r \in Serving PROVE Fine(r)
  <2>1. Switches(r) /\ KeyOf(r) \in DOMAIN routes /\ Tells(routes[KeyOf(r)], r)
    BY DEF Agreed, ServedTold
  <2>2. CASE KeyOf(r) = key
    BY <1>1, <2>1, <2>2
  <2>3. CASE KeyOf(r) # key
    BY <1>1, <2>1, <2>3
  <2> QED BY <2>2, <2>3
<1>3. ASSUME NEW r \in Serving' PROVE Fine(r)
  BY <1>1, <1>2
<1>4. ASSUME InputsAgree, NEW r \in Registration, Bodiless(r), KeyOf(r) \in DOMAIN routes'
      PROVE  routes'[KeyOf(r)].request = None
  <2>1. CASE KeyOf(r) = key
    BY <1>1, <1>4, <2>1
  <2>2. CASE KeyOf(r) # key
    BY <1>1, <1>4, <2>2 DEF Agreed, NoBodies
  <2> QED BY <2>1, <2>2
<1> QED BY <1>3, <1>4, AgreedForm

\* The calls of one route have one method, and their outputs one status.
LEMMA SameMethod ==
  ASSUME NEW r \in Registration, NEW s \in Registration, KeyOf(r) = KeyOf(s)
  PROVE  Def[r].method = Def[s].method /\ OutputStatus(r) = OutputStatus(s)
<1>1. Def[r].method = Def[s].method
  BY KeysAreKeys
<1> QED BY <1>1 DEF OutputStatus

\* A route that is made anew has no body, and one that is there none if it may not.
LEMMA NoBodyAt ==
  ASSUME Agreed, InputsAgree, NEW r \in Registration, Bodiless(r)
  PROVE  RouteAt(KeyOf(r)).request = None
BY DEF Agreed, NoBodies, RouteAt, NewRoute

\* The calls that are served are calls of the program.
LEMMA ServingTyped == Documented => Serving \subseteq Registration
BY DEF Documented, TypeOK, Serving, Routed

\* The upsert leaves alone what the route tells of calls.
LEMMA UpsertAgreed ==
  ASSUME Documented, Agreed, Upsert
  PROVE  Agreed'
<1> DEFINE c == call.of
           key == KeyOf(c)
           old == RouteAt(key)
           doc == UpsertedDoc(old, c)
<1>1. call \in [of : Registration, step : Steps] /\ call.step = "upsert" /\ c \in Registration
  BY DEF Upsert, At, Documented, TypeOK
<1>2. UNCHANGED router /\ SetRoute(key, doc)
  BY DEF Upsert, UpsertedDoc
<1>3. call'.step = "describe"
  BY <1>1 DEF Upsert, Goto
<1>4. Serving' \subseteq Serving
  BY <1>2, <1>3 DEF Serving, Routed, At
<1>5. key \in RouteKey
  BY <1>1, KeysAreKeys
<1>6. old \in Doc
  <2> HIDE DEF key
  <2> QED BY <1>5, RouteAtLemma DEF Documented
<1> HIDE DEF c, key, old
<1>7. doc.responses = old.responses /\ doc.request = old.request /\ doc.query = old.query
  BY <1>1, <1>6, UpsertExtends
<1> HIDE DEF doc
<1>8. ASSUME NEW r, key \in DOMAIN routes, Tells(routes[key], r) PROVE Tells(doc, r)
  BY <1>7, <1>8 DEF Tells, old, RouteAt
<1>9. ASSUME InputsAgree, NEW r \in Registration, Bodiless(r), KeyOf(r) = key
      PROVE  doc.request = None
  BY <1>7, <1>9, NoBodyAt DEF old
<1> QED BY <1>2, <1>4, <1>8, <1>9, WriteAgreed

\* What the switch makes of a route tells of its call, and still tells of the others
\* that it told of.
LEMMA SwitchTells ==
  ASSUME NEW doc \in Doc, NEW c \in Registration,
         Def[c].method \in {"GET", "POST", "PUT", "DELETE"},
         NEW r \in Registration, KeyOf(r) = KeyOf(c), Switches(r),
         r = c \/ Tells(doc, r)
  PROVE  Tells(SwitchDoc(doc, c), r)
<1> DEFINE new == SwitchDoc(doc, c)
<1>1. /\ Extends(doc, new)
      /\ Def[c].out # None => <<OutputStatus(c), Def[c].out>> \in new.responses
      /\ Def[c].method # "GET" => new.request = Def[c].in
      /\ Def[c].method = "GET" /\ Def[c].in \in Type \ Unsupported =>
           Fields[Def[c].in] \subseteq new.query
  BY SwitchLemma
<1>2. Def[r].method = Def[c].method /\ OutputStatus(r) = OutputStatus(c)
  BY SameMethod
<1> HIDE DEF new
<1>3. ASSUME OutputsAgree, Def[r].out # None
      PROVE  <<OutputStatus(r), Def[r].out>> \in new.responses
  <2>1. Def[c].out = Def[r].out
    BY <1>3 DEF OutputsAgree, Switches
  <2> QED BY <1>1, <1>2, <1>3, <2>1
<1>4. ASSUME InputsAgree, Def[r].in # None, Def[r].method # "GET"
      PROVE  new.request = Def[r].in
  <2>1. Def[c].in = Def[r].in
    BY <1>4 DEF InputsAgree, Switches
  <2> QED BY <1>1, <1>2, <1>4, <2>1
<1>5. ASSUME Def[r].in # None, Def[r].method = "GET"
      PROVE  Fields[Def[r].in] \subseteq new.query
  <2>1. CASE r = c
    <3>1. Def[c].in \in Type \ Unsupported
      BY <1>5, <2>1, RegistrationAssumption DEF Switches
    <3> QED BY <1>1, <1>5, <2>1, <3>1
  <2>2. CASE Tells(doc, r)
    BY <1>1, <1>5, <2>2 DEF Tells, Extends
  <2> QED BY <2>1, <2>2
<1> QED BY <1>3, <1>4, <1>5 DEF Tells, new

\* The switch documents the call that may come to be served; it may also panic.
LEMMA DescribeAgreed ==
  ASSUME Documented, Agreed, Describe
  PROVE  Agreed'
<1> DEFINE c == call.of
           key == KeyOf(c)
           doc == SwitchDoc(routes[key], c)
<1>1. /\ call \in [of : Registration, step : Steps] /\ c \in Registration
      /\ key \in DOMAIN routes /\ routes[key] \in Doc
  BY DEF Describe, At, Documented, TypeOK, Upserted, RoutesRight
<1>2. /\ UNCHANGED router
      /\ \/ call' = None
         \/ /\ call' = [call EXCEPT !.step = "serve"]
            /\ Def[c].serve
            /\ Def[c].method = "GET" => Def[c].in \notin Unsupported
      /\ \/ UNCHANGED routes /\ call' = None
         \/ /\ Def[c].method \in {"GET", "POST", "PUT", "DELETE"}
            /\ SetRoute(key, doc)
  BY <1>1, SwitchStep
<1>3. ASSUME NEW r \in Serving', r \notin Serving
      PROVE  r = c /\ Def[c].serve /\ (Def[c].method = "GET" => Def[c].in \notin Unsupported)
  BY <1>1, <1>2, <1>3 DEF Serving, Routed, At
<1> HIDE DEF c, key
<1>4. CASE UNCHANGED routes /\ call' = None
  <2>1. Serving' \subseteq Serving
    BY <1>2, <1>4 DEF Serving, Routed, At
  <2> QED BY <1>4, <2>1, QuietAgreed
<1>5. CASE /\ Def[c].method \in {"GET", "POST", "PUT", "DELETE"}
           /\ SetRoute(key, doc)
  <2>1. ASSUME NEW r \in Serving', r \notin Serving
        PROVE  Switches(r) /\ KeyOf(r) = key /\ Tells(doc, r)
    <3>1. r = c /\ Switches(r) /\ KeyOf(r) = KeyOf(c)
      BY <1>3, <1>5, <2>1 DEF Switches
    <3> HIDE DEF doc
    <3>2. Tells(doc, r)
      BY <1>1, <1>5, <3>1, SwitchTells DEF doc
    <3> QED BY <3>1, <3>2 DEF key
  <2>2. ASSUME NEW r \in Serving, KeyOf(r) = key, Switches(r), Tells(routes[key], r)
        PROVE  Tells(doc, r)
    <3>1. r \in Registration /\ KeyOf(r) = KeyOf(c)
      BY <2>2, ServingTyped DEF key
    <3> QED BY <1>1, <1>5, <2>2, <3>1, SwitchTells
  <2>3. ASSUME InputsAgree, NEW r \in Registration, Bodiless(r), KeyOf(r) = key
        PROVE  doc.request = None
    <3>1. Def[c].method = "GET"
      BY <1>1, <2>3, SameMethod DEF Bodiless, key
    <3>2. doc.request = routes[key].request
      BY <1>1, <1>5, <3>1, SwitchLemma
    <3> QED BY <1>1, <2>3, <3>2 DEF Agreed, NoBodies
  <2> HIDE DEF doc
  <2> QED BY <1>5, <2>1, <2>2, <2>3, WriteAgreed
<1> QED BY <1>2, <1>4, <1>5

\* A change by hand keeps what the route tells: Merge adds to it, and the Has...
\* functions put the same in its place.
LEMMA DirectAgreed ==
  ASSUME Documented, Agreed, NEW c \in Change, Direct(c)
  PROVE  Agreed'
<1> DEFINE key == Changed[c].key
           old == RouteAt(key)
           new == Changed[c].doc
<1>1. /\ old \in Doc /\ new \in Doc /\ call = None /\ UNCHANGED <<router, call>>
      /\ \E doc \in {Merged(old, new), Configured(old, new)} :
           /\ SetRoute(key, doc)
           /\ Extends(old, doc)
           /\ Changed[c].by = "Merge" => doc = Merged(old, new)
           /\ Changed[c].by # "Merge" => doc = Configured(old, new)
  BY DirectExtends DEF Documented
<1>2. PICK doc : /\ SetRoute(key, doc)
                 /\ Extends(old, doc)
                 /\ Changed[c].by = "Merge" => doc = Merged(old, new)
                 /\ Changed[c].by # "Merge" => doc = Configured(old, new)
  BY <1>1
<1>3. Serving' = Serving
  BY <1>1 DEF Serving, Routed, At
<1> HIDE DEF old, new
<1>4. CASE Changed[c].by = "Merge"
  <2>1. old.responses \subseteq doc.responses /\ doc.request = Or(old.request, new.request)
    BY <1>1, <1>2, <1>4, MergedLemma
  <2>2. ASSUME NEW r, Tells(old, r) PROVE Tells(doc, r)
    BY <1>2, <2>1, <2>2 DEF Tells, Extends, Or
  <2>3. ASSUME InputsAgree, NEW r \in Registration, Bodiless(r), KeyOf(r) = key
        PROVE  doc.request = None
    <3>1. old.request = None
      BY <2>3, NoBodyAt DEF old
    <3>2. new.request = None
      BY <2>3 DEF InputsAgree, Bodiless, new
    <3> QED BY <2>1, <3>1, <3>2 DEF Or
  <2>4. key \in DOMAIN routes => old = routes[key]
    BY DEF old, RouteAt
  <2> HIDE DEF key
  <2> QED BY <1>2, <1>3, <2>2, <2>3, <2>4, WriteAgreed
<1>5. CASE Changed[c].by # "Merge"
  <2>1. /\ new.responses \subseteq doc.responses
        /\ \A p \in old.responses :
             p \in doc.responses \/ \E q \in new.responses : q[1] = p[1]
        /\ doc.request = Or(new.request, old.request)
    BY <1>1, <1>2, <1>5, ConfiguredLemma
  <2>2. Changed[c].by = "Has"
    BY <1>5, ChangeAssumption
  <2>3. ASSUME NEW r \in Registration, KeyOf(r) = key, Switches(r), Tells(old, r)
        PROVE  Tells(doc, r)
    <3>1. ASSUME OutputsAgree, Def[r].out # None
          PROVE  <<OutputStatus(r), Def[r].out>> \in doc.responses
      <4> DEFINE p == <<OutputStatus(r), Def[r].out>>
      <4>1. p \in old.responses
        BY <2>3, <3>1 DEF Tells
      <4>2. ASSUME NEW q \in new.responses, q[1] = OutputStatus(r) PROVE q = p
        <5>1. q[2] = Def[r].out
          BY <2>2, <2>3, <3>1, <4>2 DEF OutputsAgree, Switches, new
        <5>2. q \in Status \X Model
          BY <1>1 DEF Doc
        <5> QED BY <4>2, <5>1, <5>2
      <4>3. p[1] = OutputStatus(r)
        OBVIOUS
      <4> HIDE DEF p
      <4> QED BY <2>1, <4>1, <4>2, <4>3 DEF p
    <3>2. ASSUME InputsAgree, Def[r].in # None, Def[r].method # "GET"
          PROVE  doc.request = Def[r].in
      <4>1. new.request \in {None, Def[r].in}
        BY <2>2, <2>3, <3>2 DEF InputsAgree, Switches, new
      <4>2. old.request = Def[r].in
        BY <2>3, <3>2 DEF Tells
      <4> QED BY <2>1, <4>1, <4>2 DEF Or
    <3>3. ASSUME Def[r].in # None, Def[r].method = "GET"
          PROVE  Fields[Def[r].in] \subseteq doc.query
      BY <1>2, <2>3, <3>3 DEF Tells, Extends
    <3> QED BY <3>1, <3>2, <3>3 DEF Tells
  <2>4. ASSUME InputsAgree, NEW r \in Registration, Bodiless(r), KeyOf(r) = key
        PROVE  doc.request = None
    <3>1. old.request = None
      BY <2>4, NoBodyAt DEF old
    <3>2. new.request = None
      BY <2>4 DEF InputsAgree, Bodiless, new
    <3> QED BY <2>1, <3>1, <3>2 DEF Or
  <2>5. key \in DOMAIN routes => old = routes[key]
    BY DEF old, RouteAt
  <2> HIDE DEF key
  <2> QED BY <1>2, <1>3, <2>3, <2>4, <2>5, ServingTyped, WriteAgreed
<1> QED BY <1>4, <1>5

\* A step that writes no route serves nothing that was not about to be served.
LEMMA RestAgreed ==
  ASSUME Documented, Agreed,
         \/ \E r \in Registration : MakeCall(r)
         \/ RegisterModels \/ Serve \/ Export \/ ExportPanics \/ UNCHANGED vars
  PROVE  Agreed'
<1>1. UNCHANGED routes
  BY DEF MakeCall, RegisterModels, Serve, Export, ExportPanics, vars
<1>2. Serving' \subseteq Serving
  <2>1. ASSUME NEW r \in Registration, MakeCall(r) PROVE Serving' \subseteq Serving
    BY <2>1 DEF MakeCall, Serving, Routed, At
  <2>2. CASE RegisterModels
    <3>1. call \in [of : Registration, step : Steps] /\ UNCHANGED router
      BY <2>2 DEF RegisterModels, At, Documented, TypeOK
    <3>2. call' = None \/ call'.step = "upsert"
      BY <2>2, <3>1 DEF RegisterModels, Goto, Panic
    <3> QED BY <3>1, <3>2 DEF Serving, Routed, At
  <2>3. CASE Serve
    <3>1. /\ call \in [of : Registration, step : Steps] /\ At("serve")
          /\ router \in Seq(Registration)
          /\ router' = Append(router, call.of) /\ call' = None
      BY <2>3 DEF Serve, At, Documented, TypeOK
    <3>2. Routed' = Routed \cup {call.of}
      BY <3>1 DEF Routed
    <3> QED BY <3>1, <3>2 DEF Serving, At
  <2>4. CASE Export \/ ExportPanics \/ UNCHANGED vars
    BY <2>4 DEF Export, ExportPanics, vars, Serving, Routed, At
  <2> QED BY <2>1, <2>2, <2>3, <2>4
<1> QED BY <1>1, <1>2, QuietAgreed

\* Every step keeps the invariant, and so it holds in every reachable state.
THEOREM AlwaysAgreed == Spec => []Agreed
<1>1. Documented /\ Agreed /\ [Next]_vars => Agreed'
  <2> SUFFICES ASSUME Documented, Agreed, [Next]_vars PROVE Agreed'
    OBVIOUS
  <2>1. CASE Upsert
    BY <2>1, UpsertAgreed
  <2>2. CASE Describe
    BY <2>2, DescribeAgreed
  <2>3. ASSUME NEW c \in Change, Direct(c) PROVE Agreed'
    BY <2>3, DirectAgreed
  <2>4. CASE \/ \E r \in Registration : MakeCall(r)
             \/ RegisterModels \/ Serve \/ Export \/ ExportPanics \/ UNCHANGED vars
    BY <2>4, RestAgreed
  <2> QED BY <2>1, <2>2, <2>3, <2>4 DEF Next
<1> QED BY InitAgreed, <1>1, AlwaysDocumented, PTL DEF Spec

\* The call that serves a route is one of the calls that Fiber has for it.
LEMMA DispatchedServe ==
  ASSUME NEW k, NEW r \in Dispatched(k)
  PROVE  r \in Serving /\ KeyOf(r) = k
BY DEF Dispatched, Serving, Routed

\* Between any two calls, the output documented for a route is that of the function
\* Fiber runs for it, whichever calls and changes were made and whichever calls
\* panicked, if all who describe the route agree on its output.
THEOREM OutputsAreServed == ASSUME OutputsAgree PROVE Spec => []DocumentedAsServed
<1>1. Documented /\ Agreed => DocumentedAsServed
  <2> SUFFICES ASSUME Documented, Agreed, NEW k \in DOMAIN routes, NEW r \in Dispatched(k),
                      Def[r].out # None
               PROVE  \E s \in {200, 201, 204} : <<s, Def[r].out>> \in routes[k].responses
    BY DEF DocumentedAsServed
  <2>1. r \in Serving /\ KeyOf(r) = k
    BY DispatchedServe
  <2>2. <<OutputStatus(r), Def[r].out>> \in routes[k].responses
    BY <2>1 DEF Agreed, ServedTold, Tells
  <2>3. OutputStatus(r) \in {200, 201, 204}
    BY DEF OutputStatus
  <2> QED BY <2>2, <2>3
<1> QED BY <1>1, AlwaysDocumented, AlwaysAgreed, PTL

\* Between any two calls, the input of the function that Fiber runs for a route is
\* documented as its method has it, a GET's in the query and any other as the body, if
\* all who describe the route agree on the input.
THEOREM InputsAreDocumented == ASSUME InputsAgree PROVE Spec => []InputDocumentedByMethod
<1>1. Documented /\ Agreed => InputDocumentedByMethod
  <2> SUFFICES ASSUME Documented, Agreed, NEW k \in DOMAIN routes, NEW r \in Dispatched(k),
                      Def[r].in # None
               PROVE  IF Def[r].method = "GET"
                      THEN routes[k].request = None /\ Fields[Def[r].in] \subseteq routes[k].query
                      ELSE routes[k].request = Def[r].in
    BY DEF InputDocumentedByMethod
  <2>1. r \in Registration /\ Switches(r) /\ Tells(routes[k], r) /\ KeyOf(r) = k
    BY DispatchedServe, ServingTyped DEF Agreed, ServedTold
  <2>2. CASE Def[r].method = "GET"
    <3>1. routes[k].request = None
      BY <2>1, <2>2 DEF Agreed, NoBodies, Bodiless, Switches
    <3> QED BY <2>1, <2>2, <3>1 DEF Tells
  <2>3. CASE Def[r].method # "GET"
    BY <2>1, <2>3 DEF Tells
  <2> QED BY <2>2, <2>3
<1> QED BY <1>1, AlwaysDocumented, AlwaysAgreed, PTL
=============================================================================
