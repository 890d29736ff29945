------------------------ MODULE SchemaRegistryProofs ------------------------
(***************************************************************************)
(* What TLAPS proves of SchemaRegistry, for every program and any bounds.  *)
(***************************************************************************)
EXTENDS SchemaRegistry, FiniteSetTheorems, SequenceTheorems, TLAPS

-----------------------------------------------------------------------------
(* The stack.                                                              *)

\* The innermost frame, and what is left when it is popped.
LEMMA FrontLemma ==
  ASSUME NEW S, NEW s, NEW n \in Nat \ {0}, \A i \in 1..n : s[i] \in S
  PROVE  /\ SubSeq(s, 1, n - 1) \in Seq(S)
         /\ Len(SubSeq(s, 1, n - 1)) = n - 1
         /\ \A i \in 1..(n - 1) : SubSeq(s, 1, n - 1)[i] = s[i]
<1> DEFINE front == SubSeq(s, 1, n - 1)
<1>1. /\ front \in Seq(S)
      /\ Len(front) = IF 1 <= n - 1 THEN n - 1 - 1 + 1 ELSE 0
      /\ \A i \in 1..(n - 1 - 1 + 1) : front[i] = s[1 + i - 1]
  <2>1. 1 \in Int /\ n - 1 \in Int /\ \A i \in 1..(n - 1) : s[i] \in S
    OBVIOUS
  <2>2. QED
    BY <2>1, SubSeqProperties
<1> HIDE DEF front
<1>2. Len(front) = n - 1
  BY <1>1
<1>3. ASSUME NEW i \in 1..(n - 1) PROVE front[i] = s[i]
  <2>1. i \in 1..(n - 1 - 1 + 1) /\ 1 + i - 1 = i
    OBVIOUS
  <2>2. QED
    BY <1>1, <2>1
<1>4. QED
  BY <1>1, <1>2, <1>3, Zenon DEF front

\* The top of a stack that is not empty, and what is below it.
LEMMA StackLemma ==
  ASSUME NEW S, NEW s \in Seq(S), s # <<>>
  PROVE  /\ Len(s) \in Nat \ {0}
         /\ s[Len(s)] \in S
         /\ SubSeq(s, 1, Len(s) - 1) \in Seq(S)
         /\ Len(SubSeq(s, 1, Len(s) - 1)) = Len(s) - 1
         /\ \A i \in 1..(Len(s) - 1) : SubSeq(s, 1, Len(s) - 1)[i] = s[i]
<1>1. Len(s) \in Nat \ {0}
  BY EmptySeq, Zenon
<1>2. \A i \in 1..Len(s) : s[i] \in S
  BY ElementOfSeq
<1>3. s[Len(s)] \in S
  BY <1>1, <1>2
<1> DEFINE n == Len(s)
<1>4. n \in Nat \ {0} /\ \A i \in 1..n : s[i] \in S
  BY <1>1, <1>2
<1> HIDE DEF n
<1>5. /\ SubSeq(s, 1, n - 1) \in Seq(S)
      /\ Len(SubSeq(s, 1, n - 1)) = n - 1
      /\ \A i \in 1..(n - 1) : SubSeq(s, 1, n - 1)[i] = s[i]
  BY <1>4, FrontLemma
<1>6. QED
  BY <1>1, <1>3, <1>5, Zenon DEF n

\* Replacing the innermost frame.
LEMMA ReplaceLemma ==
  ASSUME NEW S, NEW s \in Seq(S), s # <<>>, NEW a \in S
  PROVE  /\ [s EXCEPT ![Len(s)] = a] \in Seq(S)
         /\ Len([s EXCEPT ![Len(s)] = a]) = Len(s)
         /\ [s EXCEPT ![Len(s)] = a][Len(s)] = a
         /\ \A i \in 1..(Len(s) - 1) : [s EXCEPT ![Len(s)] = a][i] = s[i]
<1>1. Len(s) \in Nat \ {0}
  BY EmptySeq
<1>2. QED
  BY <1>1, ExceptSeq

\* Replacing the innermost frame and pushing another on top of it.
LEMMA PushLemma ==
  ASSUME NEW S, NEW s \in Seq(S), s # <<>>, NEW a \in S, NEW b \in S,
         NEW u, u = Append([s EXCEPT ![Len(s)] = a], b)
  PROVE  /\ u \in Seq(S)
         /\ Len(u) = Len(s) + 1
         /\ u[Len(s) + 1] = b
         /\ u[Len(s)] = a
         /\ \A i \in 1..(Len(s) - 1) : u[i] = s[i]
<1> DEFINE r == [s EXCEPT ![Len(s)] = a]
<1>1. Len(s) \in Nat \ {0}
  BY EmptySeq
<1>2. /\ r \in Seq(S)
      /\ Len(r) = Len(s)
      /\ r[Len(s)] = a
      /\ \A i \in 1..(Len(s) - 1) : r[i] = s[i]
  BY ReplaceLemma
<1> HIDE DEF r
<1>3. u = Append(r, b)
  BY DEF r
<1>4. QED
  BY <1>1, <1>2, <1>3, AppendProperties

-----------------------------------------------------------------------------
(* Schemas.                                                                *)

\* Only the refs of the old and the new properties are in their overlay.
LEMMA OverlayLemma ==
  ASSUME NEW P \in SUBSET Prop, NEW Q \in SUBSET Prop
  PROVE  Overlay(P, Q) \in SUBSET Prop
  BY DEF Overlay

\* The references of a schema are references.
LEMMA RefsLemma ==
  ASSUME NEW schema \in Schema
  PROVE  Refs(schema) \in SUBSET Ref
  BY DEF Refs, Schema, Prop

\* A schema that was just started is a schema.
LEMMA NewSchemaLemma ==
  ASSUME NEW t \in Type, NEW component \in BOOLEAN, NEW whole \in BOOLEAN
  PROVE  NewSchema(t, component, whole) \in Schema
  BY DEF NewSchema, Schema

\* A name that getModelName computes is a name of a component.
LEMMA NameLemma ==
  ASSUME NEW t \in Type, IsFiniteSet(DOMAIN models)
  PROVE  ModelName(t) \in Name
<1>1. Cardinality(DOMAIN models) \in Nat
  BY FS_CardinalityType
<1>2. GoName[t] \in Range(GoName)
  BY TypeAssumption DEF Range
<1>3. QED
  BY <1>1, <1>2 DEF ModelName, Named, Name

\* Filing a schema.
LEMMA FiledLemma ==
  ASSUME NEW f, f \in [DOMAIN f -> Schema], IsFiniteSet(DOMAIN f),
         DOMAIN f \subseteq Name, NEW name \in Name, NEW schema \in Schema
  PROVE  LET g == Filed(f, name, schema)
         IN  /\ g \in [DOMAIN g -> Schema]
             /\ DOMAIN g = DOMAIN f \cup {name}
             /\ DOMAIN g \subseteq Name
             /\ IsFiniteSet(DOMAIN g)
<1>1. DOMAIN Filed(f, name, schema) = DOMAIN f \cup {name}
  BY DEF Filed
<1>2. IsFiniteSet(DOMAIN f \cup {name})
  BY FS_AddElement
<1>3. QED
  BY <1>1, <1>2 DEF Filed

-----------------------------------------------------------------------------
(* Type correctness.                                                       *)

\* What TypeOK says of the innermost frame.
LEMMA TopLemma ==
  ASSUME TypeOK, stack # <<>>
  PROVE  /\ Top \in Frame
         /\ Pop \in Seq(Frame)
         /\ Len(stack) \in Nat \ {0}
         /\ Len(Pop) = Len(stack) - 1
         /\ Len(stack) - 1 <= MaxDepth
<1>1. stack \in Seq(Frame) /\ Len(stack) <= MaxDepth
  BY DEF TypeOK
<1>2. QED
  BY <1>1, StackLemma, BoundAssumption DEF Top, Pop

\* The field that a struct's call is at.
LEMMA FieldLemma ==
  ASSUME TypeOK, stack # <<>>, Top.next \in DOMAIN Fields[Top.type]
  PROVE  CurrentField \in Field
<1>1. Top.type \in Type
  BY TopLemma DEF Frame
<1>2. Fields[Top.type] \in Seq(Field)
  BY <1>1, TypeAssumption
<1>3. QED
  BY <1>2, ElementOfSeq, LenProperties DEF CurrentField

\* The frame of a call that was just entered is a frame.
LEMMA NewFrameLemma ==
  ASSUME TypeOK, NEW t \in Type, NEW opts \in SUBSET Option
  PROVE  NewFrame(t, opts) \in Frame
<1>1. ModelName(t) \in Name
  BY NameLemma DEF TypeOK
<1>2. NewSchema(t, TRUE, FALSE) \in Schema
  BY NewSchemaLemma
<1>3. QED
  BY <1>1, <1>2 DEF NewFrame, Frame

\* Calling RegisterModel on a part keeps the types.
LEMMA CallsTyped ==
  ASSUME TypeOK, stack # <<>>, NEW caller \in Frame, NEW t \in Type,
         NEW opts \in SUBSET Option, Calls(caller, t, opts)
  PROVE  TypeOK'
<1>1. NewFrame(t, opts) \in Frame
  BY NewFrameLemma
<1>2. CASE Len(stack) < MaxDepth
  <2>1. stack' = Append([stack EXCEPT ![Len(stack)] = caller], NewFrame(t, opts))
    BY <1>2 DEF Calls
  <2>2. stack' \in Seq(Frame) /\ Len(stack') = Len(stack) + 1
    BY <1>1, <2>1, PushLemma DEF TypeOK
  <2>3. Len(stack') <= MaxDepth
    BY <1>2, <2>2, TopLemma, BoundAssumption
  <2>4. QED
    BY <1>2, <2>2, <2>3 DEF Calls, TypeOK
<1>3. CASE ~(Len(stack) < MaxDepth)
  BY <1>3 DEF Calls, TypeOK
<1>4. QED
  BY <1>2, <1>3

\* So does returning from it ...
LEMMA ReturnsTyped ==
  ASSUME TypeOK, stack # <<>>, NEW r \in Return, Returns(r),
         (models \in [DOMAIN models -> Schema])',
         (DOMAIN models \subseteq Name)', IsFiniteSet(DOMAIN models)'
  PROVE  TypeOK'
<1>1. stack' \in Seq(Frame) /\ Len(stack') <= MaxDepth
  BY TopLemma DEF Returns
<1>2. QED
  BY <1>1 DEF Returns, TypeOK

\* ... and returning by way of the end of the function.
LEMMA FinishTyped ==
  ASSUME TypeOK, stack # <<>>, NEW t \in Type, NEW name \in Name,
         NEW schema \in Schema, NEW err \in BOOLEAN, Finish(t, name, schema, err)
  PROVE  TypeOK'
<1> DEFINE done == [schema EXCEPT !.applied = @ \cup Top.opts,
                                  !.component = @ \/ "enum" \in Top.opts]
<1>1. done \in Schema
  BY TopLemma DEF Schema, Frame
<1> HIDE DEF done
<1>2. /\ models' = IF done.component THEN Filed(models, name, done) ELSE models
      /\ Returns([type |-> t, name |-> name, schema |-> done, err |-> err])
  BY DEF Finish, done
<1>3. /\ (models \in [DOMAIN models -> Schema])'
      /\ (DOMAIN models \subseteq Name)'
      /\ IsFiniteSet(DOMAIN models)'
  BY <1>1, <1>2, FiledLemma DEF TypeOK
<1>4. [type |-> t, name |-> name, schema |-> done, err |-> err] \in Return
  BY <1>1 DEF Return
<1>5. QED
  BY <1>2, <1>3, <1>4, ReturnsTyped

-----------------------------------------------------------------------------
(* The shape of the call stack.                                            *)

\* Frame f waits for the result of a call on type t.
WaitsFor(f, t) ==
  /\ t \in Parts(f.type)
  /\ Kind[f.type] = "struct" =>
       /\ f.next \in DOMAIN Fields[f.type]
       /\ t = Fields[f.type][f.next].type

NamedFor(name, t) ==
  IF GoName[t] = NoName THEN name \in {"AnonymousType"} \X Nat ELSE name = Named(t)

\* r can be the result of a call on t: only a pointer's call answers for
\* another type, the one it points to.
Answers(r, t) ==
  /\ NamedFor(r.name, r.type)
  /\ Kind[t] # "pointer" => r.type = t

Shape ==
  /\ \A i \in 1..Len(stack) : NamedFor(stack[i].name, stack[i].type)
  /\ \A i \in 1..Len(stack) : stack[i].next > 0 => Kind[stack[i].type] = "struct"
  /\ \A i \in 1..(Len(stack) - 1) : WaitsFor(stack[i], stack[i + 1].type)
  /\ ret # None => NamedFor(ret.name, ret.type)
  /\ ret # None /\ stack # <<>> =>
       \E t \in Type : WaitsFor(stack[Len(stack)], t) /\ Answers(ret, t)
  /\ stack # <<>> \/ ret # None => request # None

\* getModelName gives a type its own name, or an anonymous one.
LEMMA ModelNameLemma ==
  ASSUME NEW t \in Type, TypeOK
  PROVE  NamedFor(ModelName(t), t)
<1>1. Cardinality(DOMAIN models) \in Nat
  BY FS_CardinalityType DEF TypeOK
<1>2. QED
  BY <1>1 DEF NamedFor, ModelName

\* The parts of a type are types.
LEMMA PartsLemma ==
  ASSUME NEW t \in Type
  PROVE  Parts(t) \subseteq Type
<1>1. Fields[t] \in Seq(Field) /\ Elem[t] \in Type
  BY TypeAssumption
<1>2. \A i \in DOMAIN Fields[t] : Fields[t][i] \in Field
  BY <1>1, ElementOfSeq, LenProperties
<1>3. QED
  BY <1>1, <1>2 DEF Parts, FieldTypes, Field

\* A call on a part, made by the innermost frame.
LEMMA CallsShape ==
  ASSUME TypeOK, Shape, stack # <<>>, ret = None,
         NEW caller \in Frame, caller.type = Top.type, caller.name = Top.name,
         caller.next = Top.next,
         NEW t \in Type, NEW opts \in SUBSET Option, WaitsFor(caller, t),
         Calls(caller, t, opts)
  PROVE  Shape'
<1> DEFINE callee == NewFrame(t, opts)
           n == Len(stack)
<1>1. CASE Len(stack) < MaxDepth
  <2>1. /\ callee \in Frame /\ callee.type = t /\ NamedFor(callee.name, t)
        /\ callee.next = 0
    BY NewFrameLemma, ModelNameLemma DEF NewFrame
  <2> HIDE DEF callee
  <2>2. /\ stack' = Append([stack EXCEPT ![Len(stack)] = caller], callee)
        /\ UNCHANGED <<ret, request>>
    BY <1>1 DEF Calls, callee
  <2>3. /\ n \in Nat \ {0}
        /\ Len(stack') = n + 1
        /\ stack'[n + 1] = callee
        /\ stack'[n] = caller
        /\ \A i \in 1..(n - 1) : stack'[i] = stack[i]
    BY <2>1, <2>2, PushLemma, TopLemma DEF TypeOK
  <2> HIDE DEF n
  <2>4. NamedFor(caller.name, caller.type)
    BY <2>3 DEF Shape, Top, n
  <2>5. ASSUME NEW i \in 1..(n + 1) PROVE NamedFor(stack'[i].name, stack'[i].type)
    BY <2>1, <2>3, <2>4, i \in 1..(n - 1) \/ i = n \/ i = n + 1 DEF Shape, n
  <2>6. ASSUME NEW i \in 1..n PROVE WaitsFor(stack'[i], stack'[i + 1].type)
    <3>1. CASE i = n
      BY <2>1, <2>3, <3>1
    <3>2. CASE i = n - 1
      BY <2>3, <3>2 DEF Shape, Top, n
    <3>3. CASE i \in 1..(n - 2)
      BY <2>3, <3>3 DEF Shape, n
    <3>4. QED
      BY <2>3, <3>1, <3>2, <3>3
  <2>7. request # None
    BY DEF Shape
  <2>8. ASSUME NEW i \in 1..(n + 1), stack'[i].next > 0
        PROVE  Kind[stack'[i].type] = "struct"
    <3>1. CASE i = n + 1
      BY <2>1, <2>3, <2>8, <3>1
    <3>2. CASE i = n
      BY <2>3, <2>8, <3>2 DEF Shape, Top, n
    <3>3. CASE i \in 1..(n - 1)
      BY <2>3, <2>8, <3>3 DEF Shape, n
    <3>4. QED
      BY <2>3, <3>1, <3>2, <3>3
  <2>9. QED
    BY <2>2, <2>3, <2>5, <2>6, <2>7, <2>8 DEF Shape
<1>2. CASE ~(Len(stack) < MaxDepth)
  BY <1>2 DEF Calls, Shape
<1>3. QED
  BY <1>1, <1>2

\* The innermost frame returns r.
LEMMA ReturnsShape ==
  ASSUME TypeOK, Shape, stack # <<>>, NEW r \in Return, Answers(r, Top.type),
         Returns(r)
  PROVE  Shape'
<1> DEFINE n == Len(stack)
<1>1. /\ n \in Nat \ {0}
      /\ Len(stack') = n - 1
      /\ \A i \in 1..(n - 1) : stack'[i] = stack[i]
      /\ Top.type \in Type
      /\ ret' = r /\ request' = request
  BY StackLemma, TopLemma DEF TypeOK, Returns, Pop, Frame
<1>2. stack' \in Seq(Frame)
  BY TopLemma DEF Returns
<1>3. stack' # <<>> => n - 1 \in 1..(n - 1)
  BY <1>1, <1>2, EmptySeq
<1>4. stack' # <<>> => WaitsFor(stack[n - 1], Top.type)
  BY <1>1, <1>3 DEF Shape, Top
<1>5. NamedFor(r.name, r.type)
  BY DEF Answers
<1>6. request # None
  BY DEF Shape
<1> HIDE DEF n
<1>7. \A i \in 1..(n - 1) : NamedFor(stack'[i].name, stack'[i].type)
  BY <1>1 DEF Shape, n
<1>8. \A i \in 1..(n - 2) : WaitsFor(stack'[i], stack'[i + 1].type)
  BY <1>1 DEF Shape, n
<1>9. stack' # <<>> => WaitsFor(stack'[Len(stack')], Top.type)
  BY <1>1, <1>3, <1>4
<1>10. \A i \in 1..(n - 1) : stack'[i].next > 0 => Kind[stack'[i].type] = "struct"
  BY <1>1 DEF Shape, n
<1>11. QED
  BY <1>1, <1>5, <1>6, <1>7, <1>8, <1>9, <1>10 DEF Shape

\* Reaching the end of RegisterModel keeps the types and the shape of the stack.
LEMMA FinishStep ==
  ASSUME TypeOK, Shape, stack # <<>>, NEW t \in Type, NEW name \in Name,
         NEW schema \in Schema, NEW err \in BOOLEAN,
         NamedFor(name, t), Kind[Top.type] # "pointer" => t = Top.type,
         Finish(t, name, schema, err)
  PROVE  TypeOK' /\ Shape'
<1>1. TypeOK'
  BY FinishTyped
<1> DEFINE done == [schema EXCEPT !.applied = @ \cup Top.opts,
                                  !.component = @ \/ "enum" \in Top.opts]
           r == [type |-> t, name |-> name, schema |-> done, err |-> err]
<1>2. done \in Schema
  BY TopLemma DEF Schema, Frame
<1>3. Returns(r)
  BY DEF Finish
<1> HIDE DEF done
<1>4. r \in Return /\ Answers(r, Top.type)
  BY <1>2 DEF Return, Answers
<1>5. QED
  BY <1>1, <1>3, <1>4, ReturnsShape

\* So does a return from the middle ...
LEMMA ReturnsStep ==
  ASSUME TypeOK, Shape, stack # <<>>, NEW r \in Return, Answers(r, Top.type),
         Returns(r), UNCHANGED models
  PROVE  TypeOK' /\ Shape'
<1>1. /\ (models \in [DOMAIN models -> Schema])'
      /\ (DOMAIN models \subseteq Name)'
      /\ IsFiniteSet(DOMAIN models)'
  BY DEF TypeOK
<1>2. QED
  BY <1>1, ReturnsTyped, ReturnsShape

\* ... and a call on a part.
LEMMA CallsStep ==
  ASSUME TypeOK, Shape, stack # <<>>, ret = None,
         NEW caller \in Frame, caller.type = Top.type, caller.name = Top.name,
         caller.next = Top.next,
         NEW t \in Type, NEW opts \in SUBSET Option, WaitsFor(caller, t),
         Calls(caller, t, opts)
  PROVE  TypeOK' /\ Shape'
  BY CallsTyped, CallsShape

\* What is known of the innermost call.
LEMMA TopShape ==
  ASSUME TypeOK, Shape, stack # <<>>
  PROVE  /\ Top.type \in Type /\ Top.name \in Name /\ Top.opts \in SUBSET Option
         /\ Top.schema \in Schema
         /\ NamedFor(Top.name, Top.type)
  BY TopLemma DEF Frame, Shape, Top

\* What a caller finds when a call on a part has returned.
LEMMA ReturnedShape ==
  ASSUME TypeOK, Shape, Returned
  PROVE  /\ stack # <<>>
         /\ ret \in Return /\ ret.type \in Type /\ ret.name \in Name
         /\ ret.schema \in Schema /\ ret.err \in BOOLEAN
         /\ NamedFor(ret.name, ret.type)
         /\ Kind[Top.type] = "struct" =>
              /\ Top.next \in DOMAIN Fields[Top.type]
              /\ CurrentField \in Field
              /\ Kind[CurrentField.type] # "pointer" => ret.type = CurrentField.type
         /\ RefsTo(ret) \in SUBSET Ref
<1>1. stack # <<>> /\ ret # None
  BY DEF Returned
<1>2. ret \in Return /\ NamedFor(ret.name, ret.type)
  BY <1>1 DEF TypeOK, Shape
<1>3. /\ ret.type \in Type /\ ret.name \in Name
      /\ ret.schema \in Schema /\ ret.err \in BOOLEAN
  BY <1>2 DEF Return
<1>4. PICK t \in Type : WaitsFor(Top, t) /\ Answers(ret, t)
  BY <1>1 DEF Shape, Top
<1>5. Kind[Top.type] = "struct" =>
        /\ Top.next \in DOMAIN Fields[Top.type]
        /\ CurrentField \in Field
        /\ Kind[CurrentField.type] # "pointer" => ret.type = CurrentField.type
  BY <1>1, <1>4, FieldLemma DEF WaitsFor, Answers, CurrentField
<1>6. RefsTo(ret) \in SUBSET Ref
  BY <1>3, RefsLemma DEF RefsTo, Ref
<1>7. QED
  BY <1>1, <1>2, <1>3, <1>5, <1>6

\* The innermost frame goes on to its next field.
LEMMA AdvanceStep ==
  ASSUME TypeOK, Shape, stack # <<>>,
         NEW frame \in Frame, frame.type = Top.type, frame.name = Top.name,
         Kind[Top.type] = "struct",
         stack' = [stack EXCEPT ![Len(stack)] = frame],
         ret' = None, UNCHANGED <<request, overflow>>,
         (models \in [DOMAIN models -> Schema])',
         (DOMAIN models \subseteq Name)', IsFiniteSet(DOMAIN models)'
  PROVE  TypeOK' /\ Shape'
<1> DEFINE n == Len(stack)
<1>1. /\ stack' \in Seq(Frame)
      /\ n \in Nat \ {0}
      /\ Len(stack') = n
      /\ stack'[n] = frame
      /\ \A i \in 1..(n - 1) : stack'[i] = stack[i]
  BY ReplaceLemma, TopLemma DEF TypeOK
<1>2. TypeOK'
  BY <1>1 DEF TypeOK
<1> HIDE DEF n
<1>3. \A i \in 1..n : NamedFor(stack'[i].name, stack'[i].type)
  BY <1>1 DEF Shape, Top, n
<1>4. ASSUME NEW i \in 1..(n - 1) PROVE WaitsFor(stack'[i], stack'[i + 1].type)
  BY <1>1, i \in 1..(n - 2) \/ i = n - 1 DEF Shape, Top, n
<1>5. request' # None
  BY DEF Shape
<1>6. ASSUME NEW i \in 1..n, stack'[i].next > 0
      PROVE  Kind[stack'[i].type] = "struct"
  BY <1>1, <1>6, i \in 1..(n - 1) \/ i = n DEF Shape, Top, n
<1>7. QED
  BY <1>1, <1>2, <1>3, <1>4, <1>5, <1>6 DEF Shape

-----------------------------------------------------------------------------
(* Every step keeps the types and the shape.                               *)

\* The returns of a call that was just entered keep types and shape.
LEMMA EntryStep ==
  ASSUME TypeOK, Shape,
         ReturnExisting \/ ReturnKnown \/ FinishLeaf \/ ReturnFile \/ RejectMap
  PROVE  TypeOK' /\ Shape'
<1>1. stack # <<>> /\ ret = None /\ Top.type \in Type
  BY TopShape DEF ReturnExisting, ReturnKnown, FinishLeaf, ReturnFile, RejectMap,
                  Missing, Running
<1>2. CASE ReturnExisting
  <2> DEFINE r == [type |-> Top.type, name |-> Top.name,
                   schema |-> models[Top.name], err |-> FALSE]
  <2>1. models[Top.name] \in Schema
    BY <1>2 DEF ReturnExisting, TypeOK
  <2>2. r \in Return /\ Answers(r, Top.type)
    BY <1>1, <2>1, TopShape DEF Return, Answers
  <2>3. Returns(r) /\ UNCHANGED models
    BY <1>2 DEF ReturnExisting
  <2>4. QED
    BY <1>1, <2>2, <2>3, ReturnsStep
<1>3. CASE ReturnKnown
  <2> DEFINE known == NewSchema(Top.type, Kind[Top.type] = "knownComponent", TRUE)
             r == [type |-> Top.type, name |-> Top.name,
                   schema |-> known, err |-> FALSE]
  <2>1. known \in Schema
    BY <1>1, NewSchemaLemma
  <2>2. /\ Returns(r)
        /\ models' = IF known.component THEN Filed(models, Top.name, known)
                                        ELSE models
    BY <1>3 DEF ReturnKnown
  <2> HIDE DEF known
  <2>3. r \in Return /\ Answers(r, Top.type)
    BY <1>1, <2>1, TopShape DEF Return, Answers
  <2>4. /\ (models \in [DOMAIN models -> Schema])'
        /\ (DOMAIN models \subseteq Name)'
        /\ IsFiniteSet(DOMAIN models)'
    BY <1>1, <2>1, <2>2, TopShape, FiledLemma DEF TypeOK
  <2>5. QED
    BY <1>1, <2>2, <2>3, <2>4, ReturnsTyped, ReturnsShape
<1>4. CASE FinishLeaf
  <2> DEFINE component == Kind[Top.type] \in {"enum", "opaque"}
             new == NewSchema(Top.type, component, TRUE)
  <2>1. new \in Schema
    <3>1. component \in BOOLEAN
      OBVIOUS
    <3> HIDE DEF component
    <3>2. QED
      BY <1>1, <3>1, NewSchemaLemma
  <2>2. Finish(Top.type, Top.name, new, FALSE)
    BY <1>4 DEF FinishLeaf
  <2> HIDE DEF new
  <2>3. QED
    BY <1>1, <2>1, <2>2, TopShape, FinishStep
<1>5. CASE ReturnFile
  <2> DEFINE new == NewSchema(Top.type, FALSE, TRUE)
             r == [type |-> Top.type, name |-> Top.name, schema |-> new, err |-> FALSE]
  <2>1. new \in Schema
    BY <1>1, NewSchemaLemma
  <2>2. Returns(r) /\ UNCHANGED models
    BY <1>5 DEF ReturnFile
  <2> HIDE DEF new
  <2>3. r \in Return /\ Answers(r, Top.type)
    BY <1>1, <2>1, TopShape DEF Return, Answers
  <2>4. QED
    BY <1>1, <2>2, <2>3, ReturnsStep
<1>6. CASE RejectMap
  <2> DEFINE r == [type |-> Top.type, name |-> Top.name,
                   schema |-> Top.schema, err |-> TRUE]
  <2>1. Returns(r) /\ UNCHANGED models
    BY <1>6 DEF RejectMap
  <2>2. r \in Return /\ Answers(r, Top.type)
    BY <1>1, TopShape DEF Return, Answers
  <2>3. QED
    BY <1>1, <2>1, <2>2, ReturnsStep
<1>7. QED
  BY <1>2, <1>3, <1>4, <1>5, <1>6

\* So do the steps that go down to a part, and a panic.
LEMMA DescendStep ==
  ASSUME TypeOK, Shape,
         PanicEnum \/ PanicOption \/ DescendElem \/ OpenStruct \/ VisitField
  PROVE  TypeOK' /\ Shape'
<1>1. stack # <<>> /\ ret = None /\ Top \in Frame /\ Top.type \in Type
  BY TopShape, TopLemma
     DEF PanicEnum, PanicOption, DescendElem, OpenStruct, VisitField, Missing, Looping, Running
<1>2. CASE PanicEnum \/ PanicOption
  <2>1. /\ stack' = <<>> /\ ret' = None /\ request' = None
        /\ UNCHANGED <<models, overflow>>
    BY <1>1, <1>2 DEF PanicEnum, PanicOption
  <2>2. stack' \in Seq(Frame) /\ Len(stack') = 0
    BY <2>1, EmptySeq
  <2>3. QED
    BY <2>1, <2>2, BoundAssumption DEF TypeOK, Shape
<1>3. CASE DescendElem
  <2> DEFINE opts == IF Kind[Top.type] = "pointer" THEN {"nullable"} ELSE {}
  <2>1. opts \in SUBSET Option
    BY DEF Option
  <2>2. Calls(Top, Elem[Top.type], opts) /\ Kind[Top.type] \in {"slice", "map", "pointer"}
    BY <1>3 DEF DescendElem
  <2>3. Elem[Top.type] \in Type /\ WaitsFor(Top, Elem[Top.type])
    BY <1>1, <2>2, TypeAssumption DEF WaitsFor, Parts
  <2> HIDE DEF opts
  <2>4. QED
    BY <1>1, <2>1, <2>2, <2>3, CallsStep
<1>4. CASE OpenStruct
  <2> DEFINE frame == [Top EXCEPT !.next = 1]
  <2>1. frame \in Frame /\ frame.type = Top.type /\ frame.name = Top.name
    BY <1>1 DEF Frame
  <2>2. /\ stack' = [stack EXCEPT ![Len(stack)] = frame]
        /\ Kind[Top.type] = "struct"
        /\ UNCHANGED <<models, ret, request, overflow>>
    BY <1>4 DEF OpenStruct, Top
  <2> HIDE DEF frame
  <2>3. /\ (models \in [DOMAIN models -> Schema])'
        /\ (DOMAIN models \subseteq Name)'
        /\ IsFiniteSet(DOMAIN models)'
    BY <2>2 DEF TypeOK
  <2>4. QED
    BY <1>1, <2>1, <2>2, <2>3, AdvanceStep
<1>5. CASE VisitField
  <2> DEFINE existed == ModelName(CurrentField.type) \in DOMAIN models
             caller == [Top EXCEPT !.existed = existed]
  <2>1. /\ Top.next \in DOMAIN Fields[Top.type]
        /\ CurrentField \in Field /\ CurrentField.type \in Type
    <3>1. Fields[Top.type] \in Seq(Field)
      BY <1>1, TypeAssumption
    <3>2. Top.next \in DOMAIN Fields[Top.type]
      BY <1>1, <1>5, <3>1, LenProperties DEF VisitField, Looping, Frame
    <3>3. QED
      BY <1>1, <3>2, FieldLemma DEF Field
  <2>2. Kind[Top.type] = "struct" => CurrentField.type \in Parts(Top.type)
    BY <2>1 DEF Parts, FieldTypes, CurrentField
  <2>3. /\ caller \in Frame /\ caller.type = Top.type /\ caller.name = Top.name
        /\ caller.next = Top.next
    <3>1. existed \in BOOLEAN
      OBVIOUS
    <3> HIDE DEF existed
    <3>2. QED
      BY <1>1, <3>1 DEF Frame
  <2>4. Calls(caller, CurrentField.type, {}) /\ {} \in SUBSET Option
    BY <1>5 DEF VisitField
  <2> HIDE DEF caller
  <2>5. Kind[Top.type] = "struct"
    <3>1. Top.next > 0
      BY <1>5 DEF VisitField, Looping
    <3>2. QED
      BY <1>1, <3>1, TopLemma DEF Shape, Top
  <2>6. WaitsFor(caller, CurrentField.type)
    BY <2>1, <2>2, <2>3, <2>5 DEF WaitsFor, CurrentField
  <2>7. QED
    BY <1>1, <2>1, <2>3, <2>4, <2>6, CallsStep
<1>6. QED
  BY <1>2, <1>3, <1>4, <1>5

\* So does going on to the next field of a struct.
LEMMA FieldDone ==
  ASSUME TypeOK, Shape, stack # <<>>, Kind[Top.type] = "struct",
         NEW props \in SUBSET Prop, NEW required \in SUBSET Key,
         Advance(props, required),
         (models \in [DOMAIN models -> Schema])',
         (DOMAIN models \subseteq Name)', IsFiniteSet(DOMAIN models)'
  PROVE  TypeOK' /\ Shape'
<1> DEFINE more == [Top.schema EXCEPT !.props = Overlay(@, props),
                                      !.required = @ \cup required]
           after == Top.next + 1
           frame == [Top EXCEPT !.schema = more, !.next = after]
<1>1. Top \in Frame /\ Top.schema \in Schema /\ Top.next \in Nat
  BY TopLemma DEF Frame
<1>2. more \in Schema
  <2>1. Overlay(Top.schema.props, props) \in SUBSET Prop
    BY <1>1, OverlayLemma DEF Schema
  <2>2. QED
    BY <1>1, <2>1 DEF Schema
<1>3. /\ stack' = [stack EXCEPT ![Len(stack)] = frame]
      /\ ret' = None /\ UNCHANGED <<request, overflow>>
  BY DEF Advance
<1>4. after \in Nat
  BY <1>1
<1> HIDE DEF more, after
<1>5. frame \in Frame /\ frame.type = Top.type /\ frame.name = Top.name
  BY <1>1, <1>2, <1>4 DEF Frame
<1> HIDE DEF frame
<1>6. QED
  BY <1>3, <1>5, AdvanceStep

\* So do the steps after a call on a part has returned.
LEMMA ResumeStep ==
  ASSUME TypeOK, Shape,
         FinishElem \/ FinishPointer \/ MergeEmbedded \/ AddProperty \/ PropagateError
  PROVE  TypeOK' /\ Shape'
<1>1. Returned /\ stack # <<>>
  BY DEF FinishElem, FinishPointer, MergeEmbedded, AddProperty, PropagateError, Returned
<1>2. /\ Top \in Frame /\ Top.type \in Type /\ Top.schema \in Schema
      /\ Top.next \in Nat
  BY <1>1, TopLemma DEF Frame
<1>3. CASE FinishElem
  <2> DEFINE new == [NewSchema(Top.type, FALSE, TRUE) EXCEPT
                       !.props = {[key |-> ItemSlot, refs |-> RefsTo(ret)]},
                       !.applied = {"nullable"}]
  <2>1. new \in Schema
    <3>1. RefsTo(ret) \in SUBSET Ref /\ ItemSlot \in Key
      BY <1>1, ReturnedShape, TypeAssumption
    <3>2. {[key |-> ItemSlot, refs |-> RefsTo(ret)]} \in SUBSET Prop
      BY <3>1 DEF Prop
    <3>3. QED
      BY <1>2, <3>2 DEF NewSchema, Schema, Option
  <2>2. Finish(Top.type, Top.name, new, FALSE)
    BY <1>3 DEF FinishElem
  <2> HIDE DEF new
  <2>3. QED
    BY <1>1, <2>1, <2>2, TopShape, FinishStep
<1>4. CASE FinishPointer
  <2>1. Finish(ret.type, ret.name, ret.schema, ret.err) /\ Kind[Top.type] = "pointer"
    BY <1>4 DEF FinishPointer
  <2>2. QED
    BY <1>1, <2>1, ReturnedShape, FinishStep
<1>5. CASE MergeEmbedded
  <2>1. Kind[Top.type] = "struct" /\ Advance(ret.schema.props, ret.schema.required)
    BY <1>5 DEF MergeEmbedded
  <2>2. ret.schema.props \in SUBSET Prop /\ ret.schema.required \in SUBSET Key
    BY <1>1, ReturnedShape DEF Schema
  <2>3. /\ (models \in [DOMAIN models -> Schema])'
        /\ (DOMAIN models \subseteq Name)'
        /\ IsFiniteSet(DOMAIN models)'
    <3>1. CASE UNCHANGED models
      BY <3>1 DEF TypeOK
    <3>2. CASE models' = Restrict(models, DOMAIN models \ {ret.name})
      <4>1. DOMAIN models' = DOMAIN models \ {ret.name}
        BY <3>2 DEF Restrict
      <4>2. IsFiniteSet(DOMAIN models \ {ret.name})
        BY FS_RemoveElement DEF TypeOK
      <4>3. QED
        BY <3>2, <4>1, <4>2 DEF TypeOK, Restrict
    <3>3. QED
      BY <1>5, <3>1, <3>2 DEF MergeEmbedded
  <2>4. QED
    BY <1>1, <2>1, <2>2, <2>3, FieldDone
<1>6. CASE AddProperty
  <2> DEFINE new == {[key |-> CurrentField.key, refs |-> RefsTo(ret)]}
             required == IF Required(CurrentField) THEN {CurrentField.key} ELSE {}
  <2>1. Kind[Top.type] = "struct" /\ Advance(new, required) /\ UNCHANGED models
    BY <1>6 DEF AddProperty
  <2>2. CurrentField.key \in Key /\ RefsTo(ret) \in SUBSET Ref
    BY <1>1, <2>1, ReturnedShape DEF Field
  <2>3. new \in SUBSET Prop /\ required \in SUBSET Key
    BY <2>2 DEF Prop
  <2> HIDE DEF new, required
  <2>4. /\ (models \in [DOMAIN models -> Schema])'
        /\ (DOMAIN models \subseteq Name)'
        /\ IsFiniteSet(DOMAIN models)'
    BY <2>1 DEF TypeOK
  <2>5. QED
    BY <1>1, <2>1, <2>3, <2>4, FieldDone
<1>7. CASE PropagateError
  <2> DEFINE r == [type |-> Top.type, name |-> Top.name,
                   schema |-> Top.schema, err |-> TRUE]
  <2>1. Returns(r) /\ UNCHANGED models
    BY <1>7 DEF PropagateError
  <2>2. r \in Return /\ Answers(r, Top.type)
    BY <1>1, TopShape DEF Return, Answers
  <2>3. QED
    BY <1>1, <2>1, <2>2, ReturnsStep
<1>8. QED
  BY <1>3, <1>4, <1>5, <1>6, <1>7

\* So does the end of the field loop.
LEMMA CloseStep ==
  ASSUME TypeOK, Shape, CloseStruct
  PROVE  TypeOK' /\ Shape'
<1> DEFINE whole == [Top.schema EXCEPT !.whole = TRUE]
<1>1. stack # <<>> /\ Finish(Top.type, Top.name, whole, FALSE)
  BY DEF CloseStruct, Looping, Running
<1>2. whole \in Schema
  BY <1>1, TopShape DEF Schema
<1> HIDE DEF whole
<1>3. QED
  BY <1>1, <1>2, TopShape, FinishStep

\* So do the beginning and the end of a top-level call.
LEMMA BoundaryStep ==
  ASSUME TypeOK, Shape, Deliver \/ \E c \in Call : Start(c)
  PROVE  TypeOK' /\ Shape'
<1>1. CASE Deliver
  <2>1. /\ stack' = <<>> /\ ret' = None /\ request' = None
        /\ UNCHANGED <<models, overflow>>
    BY <1>1 DEF Deliver
  <2>2. stack' \in Seq(Frame) /\ Len(stack') = 0
    BY <2>1, EmptySeq
  <2>3. QED
    BY <2>1, <2>2, BoundAssumption DEF TypeOK, Shape
<1>2. ASSUME NEW c \in Call, Start(c) PROVE TypeOK' /\ Shape'
  <2> DEFINE frame == NewFrame(c.type, c.opts)
             req == [type |-> c.type, opts |-> c.opts, before |-> DOMAIN models]
  <2>1. c.type \in Type /\ c.opts \in SUBSET Option
    BY CallAssumption
  <2>2. /\ frame \in Frame /\ frame.next = 0 /\ NamedFor(frame.name, frame.type)
    BY <2>1, NewFrameLemma, ModelNameLemma DEF NewFrame
  <2>3. req \in Request
    BY <2>1 DEF Request, TypeOK
  <2>4. /\ stack' = <<frame>> /\ request' = req /\ request = None
        /\ UNCHANGED <<models, ret, overflow>>
    BY <1>2 DEF Start
  <2> HIDE DEF frame, req
  <2>5. stack' \in Seq(Frame) /\ Len(stack') = 1 /\ stack'[1] = frame
    BY <2>2, <2>4
  <2>6. ret = None
    BY <2>4 DEF Shape
  <2>7. TypeOK'
    BY <2>3, <2>4, <2>5, BoundAssumption DEF TypeOK
  <2>8. request' # None
    BY <2>3, <2>4, NoneAssumption
  <2>9. Shape'
    BY <2>2, <2>4, <2>5, <2>6, <2>8 DEF Shape
  <2>10. QED
    BY <2>7, <2>9
<1>3. QED
  BY <1>1, <1>2

\* Types and shape hold at the start ...
LEMMA ShapeInit ==
  ASSUME Init
  PROVE  TypeOK /\ Shape
<1>1. stack \in Seq(Frame) /\ Len(stack) = 0
  BY EmptySeq DEF Init
<1>2. DOMAIN models = {} /\ IsFiniteSet(DOMAIN models)
  BY FS_EmptySet DEF Init
<1>3. models \in [DOMAIN models -> Schema]
  BY <1>2 DEF Init
<1>4. TypeOK
  <2>1. ret = None /\ request = None /\ overflow = FALSE
    BY DEF Init
  <2>2. DOMAIN models \subseteq Name
    BY <1>2, Zenon
  <2>3. Len(stack) <= MaxDepth
    BY <1>1, BoundAssumption
  <2>4. ret \in Return \cup {None} /\ request \in Request \cup {None}
    BY <2>1
  <2>5. QED
    BY <1>1, <1>2, <1>3, <2>1, <2>2, <2>3, <2>4, Zenon DEF TypeOK
<1>5. Shape
  <2>1. stack = <<>> /\ ret = None /\ Len(stack) = 0
    BY <1>1 DEF Init
  <2>2. QED
    BY <2>1 DEF Shape
<1>6. QED
  BY <1>4, <1>5

\* ... and every step keeps them.
LEMMA ShapeStep ==
  ASSUME TypeOK, Shape, [Next]_vars
  PROVE  TypeOK' /\ Shape'
<1>1. CASE Next
  BY <1>1, EntryStep, DescendStep, ResumeStep, CloseStep, BoundaryStep DEF Next, Step, InnerStep
<1>2. CASE UNCHANGED vars
  BY <1>2 DEF vars, TypeOK, Shape
<1>3. QED
  BY <1>1, <1>2

\* The state of the registry keeps its type, however the calls nest.
THEOREM TypeCorrect == Spec => []TypeOK
<1>1. Init => TypeOK /\ Shape
  BY ShapeInit
<1>2. TypeOK /\ Shape /\ [Next]_vars => TypeOK' /\ Shape'
  BY ShapeStep
<1>3. QED
  BY <1>1, <1>2, PTL DEF Spec

-----------------------------------------------------------------------------
(* What a step does to the stack and the models, in the few kinds that     *)
(* matter to the references.                                               *)

\* The names that r.schema's refs were made for are already referred to, or
\* are the name of the result just received.
Leads(refs) ==
  refs \subseteq Refs(Top.schema)
                 \cup (IF ret = None THEN {} ELSE Refs(ret.schema) \cup RefsTo(ret))
                 \cup UNION { Refs(models[n]) : n \in DOMAIN models }

\* The innermost call returns, and may file what it returns.
ReturnMove(r) ==
  /\ stack # <<>> /\ Returns(r)
  /\ models' = models \/ models' = Filed(models, r.name, r.schema)
  /\ r.schema.component /\ ~r.err => r.name \in DOMAIN models'
  /\ \/ r.type = Top.type
     \/ ret # None /\ r.type = ret.type
  /\ NamedFor(r.name, r.type)
  /\ ret # None /\ ret.err => Refs(r.schema) \subseteq Refs(Top.schema) \cup Refs(ret.schema)
  /\ Leads(Refs(r.schema))

\* A frame that waits for an embedded part whose entry it is going to delete,
\* and the name of that entry.
Dropping(f) ==
  /\ Kind[f.type] = "struct"
  /\ Fields[f.type][f.next].embedded
  /\ ~f.existed

Dropped(f) == Named(Fields[f.type][f.next].type)

CallMove(caller, callee) ==
  /\ stack # <<>> /\ ret = None
  /\ caller.type = Top.type /\ caller.schema = Top.schema
  /\ WaitsFor(caller, callee.type)
  /\ Refs(callee.schema) = {}
  /\ Dropping(caller) => Dropped(caller) \notin DOMAIN models
  /\ stack' = Append([stack EXCEPT ![Len(stack)] = caller], callee)
  /\ UNCHANGED <<models, ret, request>>

\* The innermost frame takes in the result of a part.
AdvanceMove(frame) ==
  /\ Returned /\ ~ret.err
  /\ frame.type = Top.type
  /\ Leads(Refs(frame.schema))
  /\ \/ models' = models
     \/ /\ Dropping(Top)
        /\ ret.name = Dropped(Top)
        /\ Refs(frame.schema) \subseteq Refs(Top.schema) \cup Refs(ret.schema)
        /\ models' = Restrict(models, DOMAIN models \ {ret.name})
  /\ stack' = [stack EXCEPT ![Len(stack)] = frame]
  /\ ret' = None /\ UNCHANGED request

OpenMove(frame) ==
  /\ stack # <<>> /\ ret = None
  /\ frame.type = Top.type /\ frame.schema = Top.schema
  /\ stack' = [stack EXCEPT ![Len(stack)] = frame]
  /\ UNCHANGED <<models, ret, request>>

StartMove(frame) ==
  /\ stack' = <<frame>> /\ Refs(frame.schema) = {}
  /\ ret = None /\ UNCHANGED <<models, ret>>
  /\ request'.before = DOMAIN models

ResetMove ==
  /\ stack' = <<>> /\ ret' = None /\ request' = None
  /\ UNCHANGED models

IdleMove == UNCHANGED <<models, stack, ret, request>>

\* A schema that was just started has no references.
LEMMA NoRefs ==
  ASSUME NEW t, NEW component, NEW whole
  PROVE  Refs(NewSchema(t, component, whole)) = {}
  BY DEF Refs, NewSchema

\* A schema gets no other references than those of the properties it is given.
LEMMA OverlayRefs ==
  ASSUME NEW schema \in Schema, NEW props \in SUBSET Prop, NEW required \in SUBSET Key
  PROVE  Refs([schema EXCEPT !.props = Overlay(@, props), !.required = @ \cup required])
           \subseteq Refs(schema) \cup UNION { p.refs : p \in props }
<1> DEFINE more == [schema EXCEPT !.props = Overlay(@, props),
                                  !.required = @ \cup required]
<1>1. more.props = Overlay(schema.props, props)
  BY DEF Schema
<1> HIDE DEF more
<1>2. more.props \subseteq schema.props \cup props
  BY <1>1 DEF Overlay
<1>3. Refs(more) \subseteq Refs(schema) \cup UNION { p.refs : p \in props }
  BY <1>2 DEF Refs
<1>4. QED
  BY <1>3 DEF more

\* Finish is a ReturnMove that returns the schema's own references.
LEMMA FinishMove ==
  ASSUME TypeOK, Shape, stack # <<>>, NEW t \in Type, NEW name \in Name,
         NEW schema \in Schema, NEW err \in BOOLEAN, NamedFor(name, t),
         t = Top.type \/ (ret # None /\ t = ret.type), Leads(Refs(schema)),
         ret # None /\ ret.err => Refs(schema) \subseteq Refs(Top.schema) \cup Refs(ret.schema),
         Finish(t, name, schema, err)
  PROVE  \E r \in Return : ReturnMove(r)
<1> DEFINE done == [schema EXCEPT !.applied = @ \cup Top.opts,
                                  !.component = @ \/ "enum" \in Top.opts]
           r == [type |-> t, name |-> name, schema |-> done, err |-> err]
<1>1. done \in Schema /\ Refs(done) = Refs(schema)
  <2>1. done \in Schema
    BY TopLemma DEF Schema, Frame
  <2>2. done.props = schema.props
    BY DEF Schema
  <2>3. QED
    BY <2>1, <2>2 DEF Refs
<1>2. /\ models' = IF done.component THEN Filed(models, name, done) ELSE models
      /\ Returns(r)
  BY DEF Finish
<1> HIDE DEF done
<1>3. done.component => name \in DOMAIN models'
  BY <1>2 DEF Filed
<1>4. r \in Return
  BY <1>1 DEF Return
<1>5. ReturnMove(r)
  BY <1>1, <1>2, <1>3 DEF ReturnMove
<1>6. QED
  BY <1>4, <1>5

\* The returns of a call that was just entered, and of a struct, are return moves.
LEMMA EntryMoves ==
  ASSUME TypeOK, Shape,
         ReturnExisting \/ ReturnKnown \/ FinishLeaf \/ ReturnFile \/ RejectMap
                        \/ CloseStruct
  PROVE  \E r \in Return : ReturnMove(r)
<1>1. stack # <<>> /\ ret = None /\ Top.type \in Type
  BY TopShape DEF ReturnExisting, ReturnKnown, FinishLeaf, ReturnFile, RejectMap,
                  CloseStruct, Looping, Missing, Running
<1>2. CASE ReturnExisting
  <2> DEFINE r == [type |-> Top.type, name |-> Top.name,
                   schema |-> models[Top.name], err |-> FALSE]
  <2>1. /\ models[Top.name] \in Schema /\ Top.name \in DOMAIN models
        /\ Returns(r) /\ models' = models
    BY <1>2 DEF ReturnExisting, TypeOK
  <2>2. r \in Return
    BY <1>1, <2>1, TopShape DEF Return
  <2>3. Leads(Refs(r.schema))
    BY <2>1 DEF Leads
  <2>4. ReturnMove(r)
    BY <1>1, <2>1, <2>3, TopShape DEF ReturnMove
  <2>5. QED
    BY <2>2, <2>4
<1>3. CASE ReturnKnown
  <2> DEFINE component == Kind[Top.type] = "knownComponent"
             known == NewSchema(Top.type, component, TRUE)
             r == [type |-> Top.type, name |-> Top.name,
                   schema |-> known, err |-> FALSE]
  <2>1. component \in BOOLEAN
    OBVIOUS
  <2>2. /\ Returns(r)
        /\ models' = IF known.component THEN Filed(models, Top.name, known)
                                        ELSE models
    BY <1>3 DEF ReturnKnown
  <2> HIDE DEF component
  <2>3. known \in Schema /\ Refs(known) = {}
    BY <1>1, <2>1, NewSchemaLemma, NoRefs
  <2> HIDE DEF known
  <2>4. known.component => Top.name \in DOMAIN models'
    BY <2>2 DEF Filed
  <2>5. r \in Return /\ ReturnMove(r)
    BY <1>1, <2>2, <2>3, <2>4, TopShape DEF Return, ReturnMove, Leads
  <2>6. QED
    BY <2>5
<1>4. CASE FinishLeaf
  <2> DEFINE component == Kind[Top.type] \in {"enum", "opaque"}
             new == NewSchema(Top.type, component, TRUE)
  <2>1. component \in BOOLEAN
    OBVIOUS
  <2>2. Finish(Top.type, Top.name, new, FALSE)
    BY <1>4 DEF FinishLeaf
  <2> HIDE DEF component
  <2>3. new \in Schema /\ Refs(new) = {}
    BY <1>1, <2>1, NewSchemaLemma, NoRefs
  <2> HIDE DEF new
  <2>4. Leads(Refs(new))
    BY <2>3 DEF Leads
  <2>5. QED
    BY <1>1, <2>2, <2>3, <2>4, TopShape, FinishMove
<1>5. CASE ReturnFile
  <2> DEFINE new == NewSchema(Top.type, FALSE, TRUE)
             r == [type |-> Top.type, name |-> Top.name, schema |-> new, err |-> FALSE]
  <2>1. new \in Schema /\ Refs(new) = {} /\ ~new.component
    BY <1>1, NewSchemaLemma, NoRefs DEF NewSchema
  <2>2. Returns(r) /\ models' = models
    BY <1>5 DEF ReturnFile
  <2> HIDE DEF new
  <2>3. r \in Return /\ ReturnMove(r)
    BY <1>1, <2>1, <2>2, TopShape DEF Return, ReturnMove, Leads
  <2>4. QED
    BY <2>3
<1>6. CASE RejectMap
  <2> DEFINE r == [type |-> Top.type, name |-> Top.name,
                   schema |-> Top.schema, err |-> TRUE]
  <2>1. Returns(r) /\ models' = models
    BY <1>6 DEF RejectMap
  <2>2. r \in Return /\ ReturnMove(r)
    BY <1>1, <2>1, TopShape DEF Return, ReturnMove, Leads
  <2>3. QED
    BY <2>2
<1>7. CASE CloseStruct
  <2> DEFINE whole == [Top.schema EXCEPT !.whole = TRUE]
  <2>1. Finish(Top.type, Top.name, whole, FALSE)
    BY <1>7 DEF CloseStruct
  <2>2. whole \in Schema /\ whole.props = Top.schema.props
    BY <1>1, TopShape DEF Schema
  <2> HIDE DEF whole
  <2>3. Leads(Refs(whole))
    BY <2>2 DEF Leads, Refs
  <2>4. QED
    BY <1>1, <2>1, <2>2, <2>3, TopShape, FinishMove
<1>8. QED
  BY <1>2, <1>3, <1>4, <1>5, <1>6, <1>7

\* So are the returns after a call on a part.
LEMMA ResumeMoves ==
  ASSUME TypeOK, Shape, FinishElem \/ FinishPointer \/ PropagateError
  PROVE  \E r \in Return : ReturnMove(r)
<1>1. Returned /\ stack # <<>> /\ Top.type \in Type
  BY TopShape DEF FinishElem, FinishPointer, PropagateError, Returned
<1>2. ret # None
  BY <1>1 DEF Returned
<1>3. CASE FinishElem
  <2> DEFINE new == [NewSchema(Top.type, FALSE, TRUE) EXCEPT
                       !.props = {[key |-> ItemSlot, refs |-> RefsTo(ret)]},
                       !.applied = {"nullable"}]
  <2>1. new \in Schema /\ Refs(new) = RefsTo(ret)
    <3>1. RefsTo(ret) \in SUBSET Ref /\ ItemSlot \in Key
      BY <1>1, ReturnedShape, TypeAssumption
    <3>2. {[key |-> ItemSlot, refs |-> RefsTo(ret)]} \in SUBSET Prop
      BY <3>1 DEF Prop
    <3>3. new \in Schema
      BY <1>1, <3>2 DEF NewSchema, Schema, Option
    <3>4. new.props = {[key |-> ItemSlot, refs |-> RefsTo(ret)]}
      BY DEF NewSchema
    <3>5. QED
      BY <3>3, <3>4 DEF Refs
  <2>2. Finish(Top.type, Top.name, new, FALSE) /\ ~ret.err
    BY <1>3 DEF FinishElem
  <2> HIDE DEF new
  <2>3. Leads(Refs(new))
    BY <1>2, <2>1 DEF Leads
  <2>4. QED
    BY <1>1, <2>1, <2>2, <2>3, TopShape, FinishMove
<1>4. CASE FinishPointer
  <2>1. Finish(ret.type, ret.name, ret.schema, ret.err)
    BY <1>4 DEF FinishPointer
  <2>2. Leads(Refs(ret.schema))
    BY <1>2 DEF Leads
  <2>3. QED
    BY <1>1, <1>2, <2>1, <2>2, ReturnedShape, FinishMove
<1>5. CASE PropagateError
  <2> DEFINE r == [type |-> Top.type, name |-> Top.name,
                   schema |-> Top.schema, err |-> TRUE]
  <2>1. Returns(r) /\ models' = models
    BY <1>5 DEF PropagateError
  <2>2. r \in Return /\ ReturnMove(r)
    BY <1>1, <2>1, TopShape DEF Return, ReturnMove, Leads
  <2>3. QED
    BY <2>2
<1>6. QED
  BY <1>3, <1>4, <1>5

\* A call that the stack has no room for changes nothing but overflow.
LEMMA CallMoves ==
  ASSUME TypeOK, Shape, DescendElem \/ VisitField, EmbedsByValue
  PROVE  \/ \E caller, callee \in Frame : CallMove(caller, callee)
         \/ IdleMove
<1>1. stack # <<>> /\ ret = None /\ Top \in Frame /\ Top.type \in Type
  BY TopShape, TopLemma DEF DescendElem, VisitField, Missing, Looping, Running
<1>2. CASE DescendElem
  <2> DEFINE opts == IF Kind[Top.type] = "pointer" THEN {"nullable"} ELSE {}
             callee == NewFrame(Elem[Top.type], opts)
  <2>1. /\ Calls(Top, Elem[Top.type], opts)
        /\ Kind[Top.type] \in {"slice", "map", "pointer"}
    BY <1>2 DEF DescendElem
  <2>2. /\ Elem[Top.type] \in Type /\ opts \in SUBSET Option
        /\ WaitsFor(Top, Elem[Top.type]) /\ ~Dropping(Top)
    BY <1>1, <2>1, TypeAssumption DEF WaitsFor, Parts, Option, Dropping
  <2> HIDE DEF opts
  <2>3. callee \in Frame /\ callee.type = Elem[Top.type] /\ Refs(callee.schema) = {}
    BY <2>2, NewFrameLemma, NoRefs DEF NewFrame
  <2>4. CASE Len(stack) < MaxDepth
    <3>1. CallMove(Top, callee)
      BY <1>1, <2>1, <2>2, <2>3, <2>4 DEF CallMove, Calls
    <3>2. QED
      BY <1>1, <2>3, <3>1
  <2>5. CASE ~(Len(stack) < MaxDepth)
    BY <2>1, <2>5 DEF Calls, IdleMove
  <2>6. QED
    BY <2>4, <2>5
<1>3. CASE VisitField
  <2> DEFINE existed == ModelName(CurrentField.type) \in DOMAIN models
             caller == [Top EXCEPT !.existed = existed]
             callee == NewFrame(CurrentField.type, {})
  <2>1. /\ Top.next \in DOMAIN Fields[Top.type]
        /\ CurrentField \in Field /\ CurrentField.type \in Type
    <3>1. Fields[Top.type] \in Seq(Field)
      BY <1>1, TypeAssumption
    <3>2. Top.next \in DOMAIN Fields[Top.type]
      BY <1>1, <1>3, <3>1, LenProperties DEF VisitField, Looping, Frame
    <3>3. QED
      BY <1>1, <3>2, FieldLemma DEF Field
  <2>2. Calls(caller, CurrentField.type, {})
    BY <1>3 DEF VisitField
  <2>3. existed \in BOOLEAN
    OBVIOUS
  <2>4. CurrentField.embedded => (existed <=> Named(CurrentField.type) \in DOMAIN models)
    <3>1. CurrentField.embedded => GoName[CurrentField.type] # NoName
      BY <1>1, <2>1 DEF EmbedsByValue, CurrentField
    <3>2. QED
      BY <3>1 DEF ModelName
  <2> HIDE DEF existed
  <2>5. /\ caller \in Frame /\ caller.type = Top.type /\ caller.next = Top.next
        /\ caller.schema = Top.schema /\ caller.existed = existed
    BY <1>1, <2>3 DEF Frame
  <2>6. Dropping(caller) => Dropped(caller) \notin DOMAIN models
    BY <2>4, <2>5 DEF Dropping, Dropped, CurrentField
  <2> HIDE DEF caller
  <2>7. WaitsFor(caller, CurrentField.type)
    <3>1. Kind[Top.type] = "struct"
      BY <1>1, <1>3, TopLemma DEF VisitField, Looping, Shape, Top
    <3>2. QED
      BY <2>1, <2>5, <3>1 DEF WaitsFor, Parts, FieldTypes, CurrentField
  <2>8. callee \in Frame /\ callee.type = CurrentField.type /\ Refs(callee.schema) = {}
    <3>1. {} \in SUBSET Option
      OBVIOUS
    <3>2. QED
      BY <2>1, <3>1, NewFrameLemma, NoRefs DEF NewFrame
  <2>9. CASE Len(stack) < MaxDepth
    <3>1. CallMove(caller, callee)
      BY <1>1, <2>2, <2>5, <2>6, <2>7, <2>8, <2>9 DEF CallMove, Calls
    <3>2. QED
      BY <2>5, <2>8, <3>1
  <2>10. CASE ~(Len(stack) < MaxDepth)
    BY <2>2, <2>10 DEF Calls, IdleMove
  <2>11. QED
    BY <2>9, <2>10
<1>4. QED
  BY <1>2, <1>3

\* The two ways to finish a field are advance moves.
LEMMA AdvanceMoves ==
  ASSUME TypeOK, Shape, MergeEmbedded \/ AddProperty, EmbedsByValue
  PROVE  \E frame \in Frame : AdvanceMove(frame)
<1> DEFINE more(props, required) ==
             [Top.schema EXCEPT !.props = Overlay(@, props), !.required = @ \cup required]
           frame(props, required) ==
             [Top EXCEPT !.schema = more(props, required), !.next = @ + 1]
<1>1. /\ Returned /\ stack # <<>> /\ ret # None /\ ~ret.err /\ Kind[Top.type] = "struct"
      /\ Top \in Frame /\ Top.type \in Type /\ Top.schema \in Schema /\ Top.next \in Nat
  BY TopLemma DEF MergeEmbedded, AddProperty, Returned, Frame
<1>2. ASSUME NEW props \in SUBSET Prop, NEW required \in SUBSET Key,
             Advance(props, required)
      PROVE  /\ frame(props, required) \in Frame
             /\ frame(props, required).type = Top.type
             /\ Refs(frame(props, required).schema)
                  \subseteq Refs(Top.schema) \cup UNION { p.refs : p \in props }
             /\ stack' = [stack EXCEPT ![Len(stack)] = frame(props, required)]
             /\ ret' = None /\ UNCHANGED request
  <2> DEFINE m == more(props, required)
             after == Top.next + 1
             f == [Top EXCEPT !.schema = m, !.next = after]
  <2>1. m \in Schema
    <3>1. Overlay(Top.schema.props, props) \in SUBSET Prop
      BY <1>1, OverlayLemma DEF Schema
    <3>2. QED
      BY <1>1, <3>1 DEF Schema
  <2>2. Refs(m) \subseteq Refs(Top.schema) \cup UNION { p.refs : p \in props }
    BY <1>1, OverlayRefs
  <2>3. after \in Nat
    BY <1>1
  <2>4. stack' = [stack EXCEPT ![Len(stack)] = f] /\ ret' = None /\ UNCHANGED request
    BY <1>2 DEF Advance
  <2> HIDE DEF m, after
  <2>5. f \in Frame /\ f.type = Top.type /\ f.schema = m
    BY <1>1, <2>1, <2>3 DEF Frame
  <2>6. f = frame(props, required)
    BY DEF m, after
  <2> HIDE DEF f, frame
  <2>7. QED
    BY <2>2, <2>4, <2>5, <2>6
<1> HIDE DEF frame
<1>3. CASE MergeEmbedded
  <2> DEFINE f == frame(ret.schema.props, ret.schema.required)
  <2>1. Advance(ret.schema.props, ret.schema.required) /\ CurrentField.embedded
    BY <1>3 DEF MergeEmbedded
  <2>2. ret.schema.props \in SUBSET Prop /\ ret.schema.required \in SUBSET Key
    BY <1>1, ReturnedShape DEF Schema
  <2>3. /\ f \in Frame /\ f.type = Top.type
        /\ Refs(f.schema) \subseteq Refs(Top.schema) \cup Refs(ret.schema)
        /\ stack' = [stack EXCEPT ![Len(stack)] = f]
        /\ ret' = None /\ UNCHANGED request
    BY <1>2, <2>1, <2>2 DEF Refs
  <2>4. ret.name = Named(CurrentField.type)
    <3>1. /\ Kind[CurrentField.type] # "pointer"
          /\ GoName[CurrentField.type] # NoName
      BY <1>1, <2>1, ReturnedShape DEF EmbedsByValue, CurrentField
    <3>2. ret.type = CurrentField.type /\ NamedFor(ret.name, ret.type)
      BY <1>1, <3>1, ReturnedShape
    <3>3. QED
      BY <3>1, <3>2 DEF NamedFor
  <2>5. \/ models' = models
        \/ ~Top.existed /\ models' = Restrict(models, DOMAIN models \ {ret.name})
    BY <1>3 DEF MergeEmbedded
  <2> HIDE DEF f
  <2>6. AdvanceMove(f)
    BY <1>1, <2>1, <2>3, <2>4, <2>5 DEF AdvanceMove, Leads, Dropping, Dropped, CurrentField
  <2>7. QED
    BY <2>3, <2>6
<1>4. CASE AddProperty
  <2> DEFINE new == {[key |-> CurrentField.key, refs |-> RefsTo(ret)]}
             required == IF Required(CurrentField) THEN {CurrentField.key} ELSE {}
             f == frame(new, required)
  <2>1. Advance(new, required) /\ models' = models
    BY <1>4 DEF AddProperty
  <2>2. CurrentField.key \in Key /\ RefsTo(ret) \in SUBSET Ref
    BY <1>1, ReturnedShape DEF Field
  <2>3. /\ new \in SUBSET Prop /\ required \in SUBSET Key
        /\ UNION { p.refs : p \in new } = RefsTo(ret)
    BY <2>2 DEF Prop
  <2> HIDE DEF new, required
  <2>4. /\ f \in Frame /\ f.type = Top.type
        /\ Refs(f.schema) \subseteq Refs(Top.schema) \cup RefsTo(ret)
        /\ stack' = [stack EXCEPT ![Len(stack)] = f]
        /\ ret' = None /\ UNCHANGED request
    BY <1>2, <2>1, <2>3
  <2> HIDE DEF f
  <2>5. AdvanceMove(f)
    BY <1>1, <2>1, <2>4 DEF AdvanceMove, Leads
  <2>6. QED
    BY <2>4, <2>5
<1>5. QED
  BY <1>3, <1>4

\* The other steps reset the stack, open a struct or start a call.
LEMMA OtherMoves ==
  ASSUME TypeOK, Shape,
         PanicEnum \/ PanicOption \/ OpenStruct \/ Deliver \/ \E c \in Call : Start(c)
  PROVE  ResetMove \/ \E frame \in Frame : OpenMove(frame) \/ StartMove(frame)
<1>1. CASE PanicEnum \/ PanicOption \/ Deliver
  BY <1>1 DEF PanicEnum, PanicOption, Deliver, Missing, Running, ResetMove
<1>2. CASE OpenStruct
  <2> DEFINE frame == [Top EXCEPT !.next = 1]
  <2>1. Top \in Frame /\ stack # <<>> /\ ret = None
    BY <1>2, TopLemma DEF OpenStruct, Missing, Running
  <2>2. frame \in Frame /\ frame.type = Top.type /\ frame.schema = Top.schema
    BY <2>1 DEF Frame
  <2>3. /\ stack' = [stack EXCEPT ![Len(stack)] = frame]
        /\ UNCHANGED <<models, ret, request>>
    BY <1>2 DEF OpenStruct, Top
  <2> HIDE DEF frame
  <2>4. QED
    BY <2>1, <2>2, <2>3 DEF OpenMove
<1>3. ASSUME NEW c \in Call, Start(c)
      PROVE  \E frame \in Frame : StartMove(frame)
  <2> DEFINE frame == NewFrame(c.type, c.opts)
  <2>1. frame \in Frame /\ Refs(frame.schema) = {}
    BY CallAssumption, NewFrameLemma, NoRefs DEF NewFrame
  <2>2. StartMove(frame)
    BY <1>3, <2>1 DEF Start, StartMove, Shape
  <2>3. QED
    BY <2>1, <2>2
<1>4. QED
  BY <1>1, <1>2, <1>3

-----------------------------------------------------------------------------
(* The moves, unfolded: what each makes of the stack.                      *)

\* What the moves do to the stack: a return pops it,
LEMMA ReturnMoveStack ==
  ASSUME TypeOK, NEW r \in Return, ReturnMove(r)
  PROVE  /\ Len(stack) \in Nat \ {0}
         /\ Len(stack') = Len(stack) - 1
         /\ \A i \in 1..(Len(stack) - 1) : stack'[i] = stack[i]
         /\ ret' = r /\ request' = request
         /\ DOMAIN models \subseteq DOMAIN models'
<1>1. /\ stack \in Seq(Frame) /\ stack # <<>> /\ Returns(r)
      /\ models' = models \/ models' = Filed(models, r.name, r.schema)
  BY DEF ReturnMove, TypeOK
<1>2. stack' = SubSeq(stack, 1, Len(stack) - 1) /\ ret' = r /\ request' = request
  BY <1>1 DEF Returns, Pop
<1>3. DOMAIN models \subseteq DOMAIN models'
  BY <1>1 DEF Filed
<1>4. /\ Len(stack) \in Nat \ {0}
      /\ Len(stack') = Len(stack) - 1
      /\ \A i \in 1..(Len(stack) - 1) : stack'[i] = stack[i]
  BY <1>1, <1>2, StackLemma
<1>5. QED
  BY <1>2, <1>3, <1>4

\* a call pushes a frame on it,
LEMMA CallMoveStack ==
  ASSUME TypeOK, NEW caller \in Frame, NEW callee \in Frame, CallMove(caller, callee)
  PROVE  /\ Len(stack) \in Nat \ {0}
         /\ Len(stack') = Len(stack) + 1
         /\ \A i \in 1..(Len(stack) - 1) : stack'[i] = stack[i]
         /\ stack'[Len(stack)] = caller
         /\ stack'[Len(stack) + 1] = callee
  BY PushLemma, TopLemma DEF CallMove, TypeOK

\* and the others replace its top.
LEMMA ReplaceMoveStack ==
  ASSUME TypeOK, NEW frame \in Frame, AdvanceMove(frame) \/ OpenMove(frame)
  PROVE  /\ Len(stack) \in Nat \ {0}
         /\ Len(stack') = Len(stack)
         /\ \A i \in 1..(Len(stack) - 1) : stack'[i] = stack[i]
         /\ stack'[Len(stack)] = frame
  BY ReplaceLemma, TopLemma DEF AdvanceMove, OpenMove, Returned, TypeOK

\* Every step is one of the moves.
LEMMA Moves ==
  ASSUME TypeOK, Shape, [Next]_vars, EmbedsByValue
  PROVE  \/ \E r \in Return : ReturnMove(r)
         \/ \E caller, callee \in Frame : CallMove(caller, callee)
         \/ \E frame \in Frame : AdvanceMove(frame)
         \/ \E frame \in Frame : OpenMove(frame) \/ StartMove(frame)
         \/ ResetMove
         \/ IdleMove
<1>1. CASE Next
  BY <1>1, EntryMoves, ResumeMoves, CallMoves, AdvanceMoves, OtherMoves DEF Next, Step, InnerStep
<1>2. CASE UNCHANGED vars
  BY <1>2 DEF vars, IdleMove
<1>3. QED
  BY <1>1, <1>2

-----------------------------------------------------------------------------
(* No registration takes a component away.                                 *)

\* Frame i has called for the part it is at and not yet taken in the result.
Waiting(i) == i < Len(stack) \/ ret # None

\* What an embedding struct is going to delete was not there when the program
\* made its call: it was not even there when the part was called for.
Kept ==
  /\ request # None => request.before \subseteq DOMAIN models
  /\ \A i \in 1..Len(stack) :
       Waiting(i) /\ Dropping(stack[i]) => Dropped(stack[i]) \notin request.before

\* Every step keeps what a later delete relies on.
LEMMA KeptStep ==
  ASSUME TypeOK, Shape, Kept, [Next]_vars, EmbedsByValue
  PROVE  Kept'
<1> DEFINE n == Len(stack)
<1> USE DEF Kept, Waiting
<1>1. ASSUME NEW r \in Return, ReturnMove(r) PROVE Kept'
  <2>1. /\ n \in Nat \ {0} /\ Len(stack') = n - 1
        /\ \A i \in 1..(n - 1) : stack'[i] = stack[i] /\ i < n
        /\ request' = request /\ DOMAIN models \subseteq DOMAIN models'
    BY <1>1, ReturnMoveStack
  <2>2. ASSUME NEW i \in 1..(n - 1), Dropping(stack'[i])
        PROVE  Dropped(stack'[i]) \notin request'.before
    BY <2>1, <2>2
  <2>3. QED
    BY <2>1, <2>2 DEF Dropping, Dropped
<1>2. ASSUME NEW caller \in Frame, NEW callee \in Frame, CallMove(caller, callee)
      PROVE  Kept'
  <2>1. /\ n \in Nat \ {0} /\ Len(stack') = n + 1
        /\ \A i \in 1..(n - 1) : stack'[i] = stack[i] /\ i < n
        /\ stack'[n] = caller
    BY <1>2, CallMoveStack
  <2>2. UNCHANGED <<models, ret, request>> /\ ret = None /\ request # None
    BY <1>2 DEF CallMove, Shape
  <2>3. ASSUME NEW i \in 1..n, Dropping(stack'[i])
        PROVE  Dropped(stack'[i]) \notin request'.before
    <3>1. CASE i = n
      BY <1>2, <2>1, <2>2, <2>3, <3>1 DEF CallMove
    <3>2. CASE i \in 1..(n - 1)
      BY <2>1, <2>2, <2>3, <3>2
    <3>3. QED
      BY <2>1, <3>1, <3>2
  <2>4. \A i \in 1..(n + 1) : (i < n + 1 \/ ret' # None) => i \in 1..n
    BY <2>1, <2>2
  <2>5. QED
    BY <2>1, <2>2, <2>3, <2>4 DEF Dropping, Dropped
<1>3. ASSUME NEW frame \in Frame, AdvanceMove(frame) \/ OpenMove(frame) PROVE Kept'
  <2>1. /\ n \in Nat \ {0} /\ Len(stack') = n
        /\ \A i \in 1..(n - 1) : stack'[i] = stack[i] /\ i < n
    BY <1>3, ReplaceMoveStack
  <2>2. ret' = None /\ request' = request
    BY <1>3 DEF AdvanceMove, OpenMove
  <2>3. ASSUME NEW i \in 1..(n - 1), Dropping(stack'[i])
        PROVE  Dropped(stack'[i]) \notin request'.before
    BY <2>1, <2>2, <2>3
  <2>4. request' # None => request'.before \subseteq DOMAIN models'
    <3>1. CASE models' = models
      BY <2>2, <3>1
    <3>2. CASE models' # models
      <4>1. /\ Dropping(Top) /\ ret.name = Dropped(Top) /\ ret # None
            /\ models' = Restrict(models, DOMAIN models \ {ret.name})
        BY <1>3, <3>2 DEF AdvanceMove, OpenMove, Returned
      <4>2. ret.name \notin request.before
        BY <2>1, <4>1 DEF Top
      <4>3. DOMAIN models' = DOMAIN models \ {ret.name}
        BY <4>1 DEF Restrict
      <4>4. QED
        BY <2>2, <4>2, <4>3
    <3>3. QED
      BY <3>1, <3>2
  <2>5. \A i \in 1..n : (i < n \/ ret' # None) => i \in 1..(n - 1)
    BY <2>1, <2>2
  <2>6. QED
    BY <2>1, <2>2, <2>3, <2>4, <2>5 DEF Dropping, Dropped
<1>4. ASSUME NEW frame \in Frame, StartMove(frame) PROVE Kept'
  <2>1. /\ stack' = <<frame>> /\ ret' = None
        /\ request'.before = DOMAIN models /\ models' = models
    BY <1>4 DEF StartMove
  <2>2. Len(stack') = 1
    BY <2>1
  <2>3. QED
    BY <2>1, <2>2
<1>5. CASE ResetMove
  <2>1. stack' = <<>> /\ request' = None
    BY <1>5 DEF ResetMove
  <2>2. Len(stack') = 0
    BY <2>1, EmptySeq
  <2>3. QED
    BY <2>1, <2>2
<1>6. CASE IdleMove
  BY <1>6 DEF IdleMove, Dropping, Dropped
<1>7. QED
  BY <1>1, <1>2, <1>3, <1>4, <1>5, <1>6, Moves

\* In a program that embeds no pointers, registering a type never removes a
\* component that was there before the call.
THEOREM ComponentsKept ==
  ASSUME EmbedsByValue
  PROVE  Spec => []NoComponentLost
<1>1. Init => TypeOK /\ Shape /\ Kept
  <2>1. ASSUME Init PROVE Kept
    <3>1. Len(stack) = 0 /\ request = None
      BY <2>1, EmptySeq DEF Init
    <3>2. QED
      BY <3>1 DEF Kept
  <2>2. QED
    BY <2>1, ShapeInit
<1>2. TypeOK /\ Shape /\ Kept /\ [Next]_vars => (TypeOK /\ Shape /\ Kept)'
  BY ShapeStep, KeptStep
<1>3. Kept => NoComponentLost
  BY DEF Kept, NoComponentLost
<1>4. QED
  BY <1>1, <1>2, <1>3, PTL DEF Spec

-----------------------------------------------------------------------------
(* Every reference of a published component resolves.                      *)

\* The references in the models, in the calls in progress and in the result.
Held ==
  (UNION { Refs(models[n]) : n \in DOMAIN models })
  \cup (UNION { Refs(stack[i].schema) : i \in 1..Len(stack) })
  \cup (IF ret = None THEN {} ELSE Refs(ret.schema))

Ranked(rank) ==
  /\ \A i, j \in 1..Len(stack) : i < j => rank[stack[j].type] < rank[stack[i].type]
  /\ ret # None /\ stack # <<>> => rank[ret.type] < rank[stack[Len(stack)].type]

\* All references resolve, those that are not in a model yet too; what a result
\* will be referred to as is there; and what is going to be deleted is neither
\* referred to nor, while it is being made, there.
Sound ==
  /\ \A x \in Held : x.to \in DOMAIN models
  /\ ret # None /\ ~ret.err /\ ret.schema.component => ret.name \in DOMAIN models
  /\ \A i \in 1..Len(stack) : Waiting(i) /\ Dropping(stack[i]) =>
       \A x \in Held : x.to # Dropped(stack[i])
  /\ \A i \in 1..(Len(stack) - 1) :
       Dropping(stack[i]) => Dropped(stack[i]) \notin DOMAIN models

\* x refers to the result just received.
FromRet(x) ==
  /\ ret # None /\ ~ret.err /\ ret.schema.component
  /\ x.to = ret.name /\ x.for = ret.type

\* The references a move goes on with were held before it.
LEMMA LeadsLemma ==
  ASSUME TypeOK, stack # <<>>, NEW refs, Leads(refs), NEW x \in refs,
         ret # None /\ ret.err => refs \subseteq Refs(Top.schema) \cup Refs(ret.schema)
  PROVE  x \in Held \/ FromRet(x)
<1>1. Refs(Top.schema) \subseteq Held
  BY TopLemma DEF Held, Top
<1>2. ret # None => Refs(ret.schema) \subseteq Held
  BY DEF Held
<1>3. UNION { Refs(models[n]) : n \in DOMAIN models } \subseteq Held
  BY DEF Held
<1>4. ret # None => RefsTo(ret) \subseteq Refs(ret.schema)
                    \/ (ret.schema.component
                        /\ \A y \in RefsTo(ret) : y.to = ret.name /\ y.for = ret.type)
  BY DEF RefsTo
<1>5. QED
  BY <1>1, <1>2, <1>3, <1>4 DEF Leads, FromRet

\* A return hands on only references that were held already.
LEMMA ReturnHeld ==
  ASSUME TypeOK, NEW r \in Return, ReturnMove(r), NEW x \in Held'
  PROVE  x \in Held \/ FromRet(x)
<1>1. /\ Len(stack) \in Nat \ {0} /\ Len(stack') = Len(stack) - 1
      /\ \A i \in 1..(Len(stack) - 1) : stack'[i] = stack[i]
      /\ ret' = r
  BY ReturnMoveStack
<1>2. ASSUME NEW y \in Refs(r.schema) PROVE y \in Held \/ FromRet(y)
  <2>1. /\ stack # <<>> /\ Leads(Refs(r.schema))
        /\ ret # None /\ ret.err =>
             Refs(r.schema) \subseteq Refs(Top.schema) \cup Refs(ret.schema)
    BY DEF ReturnMove
  <2>2. QED
    BY <2>1, LeadsLemma
<1>3. CASE x \in UNION { Refs(stack'[i].schema) : i \in 1..Len(stack') }
  BY <1>1, <1>3 DEF Held
<1>4. CASE x \in UNION { Refs(models'[n]) : n \in DOMAIN models' }
  <2>1. PICK n \in DOMAIN models' : x \in Refs(models'[n])
    BY <1>4
  <2>2. models'[n] = r.schema \/ (n \in DOMAIN models /\ models'[n] = models[n])
    BY <2>1 DEF ReturnMove, Filed
  <2>3. QED
    BY <1>2, <2>1, <2>2 DEF Held
<1>5. CASE ret' # None /\ x \in Refs(ret'.schema)
  BY <1>1, <1>2, <1>5
<1>6. x \in UNION { Refs(models'[n]) : n \in DOMAIN models' }
      \/ x \in UNION { Refs(stack'[i].schema) : i \in 1..Len(stack') }
      \/ (ret' # None /\ x \in Refs(ret'.schema))
  BY DEF Held
<1>7. QED
  BY <1>3, <1>4, <1>5, <1>6

\* A type below another does not have the name of the other.
LEMMA RankedNames ==
  ASSUME NEW rank, Descending(rank), NEW t \in Type, NEW u \in Type,
         rank[t] # rank[u], GoName[u] # NoName, NEW name, NamedFor(name, t)
  PROVE  name # Named(u)
<1>1. CASE GoName[t] = NoName
  BY <1>1 DEF NamedFor, Named
<1>2. CASE GoName[t] # NoName
  BY <1>2 DEF NamedFor, Named, Descending
<1>3. QED
  BY <1>1, <1>2

\* What frame i is going to delete is the type of the call above it.
LEMMA DroppedLemma ==
  ASSUME TypeOK, Shape, EmbedsByValue, NEW i \in 1..(Len(stack) - 1), Dropping(stack[i])
  PROVE  /\ stack[i].type \in Type /\ stack[i + 1].type \in Type
         /\ Dropped(stack[i]) = Named(stack[i + 1].type)
         /\ GoName[stack[i + 1].type] # NoName
<1>1. /\ stack \in Seq(Frame) /\ Len(stack) \in Nat
      /\ i \in 1..Len(stack) /\ i + 1 \in 1..Len(stack)
  BY LenProperties DEF TypeOK
<1>2. stack[i] \in Frame /\ stack[i + 1] \in Frame
  BY <1>1, ElementOfSeq
<1>3. stack[i].type \in Type /\ stack[i + 1].type \in Type
  BY <1>2 DEF Frame
<1>4. WaitsFor(stack[i], stack[i + 1].type)
  BY DEF Shape
<1>5. QED
  BY <1>3, <1>4 DEF WaitsFor, Dropping, Dropped, EmbedsByValue

\* A type named at or above the innermost call is not named by what is below.
LEMMA BelowDropped ==
  ASSUME TypeOK, Shape, EmbedsByValue, NEW rank, Descending(rank), Ranked(rank),
         rank \in [Type -> Nat],
         NEW i \in 1..(Len(stack) - 1), Dropping(stack[i]),
         NEW t \in Type, NEW name, NamedFor(name, t),
         \/ rank[t] < rank[stack[Len(stack)].type]
         \/ t = stack[Len(stack)].type /\ i + 1 < Len(stack)
  PROVE  name # Dropped(stack[i])
<1>1. /\ stack[i + 1].type \in Type
      /\ Dropped(stack[i]) = Named(stack[i + 1].type)
      /\ GoName[stack[i + 1].type] # NoName
  BY DroppedLemma
<1>2. Len(stack) \in Nat /\ stack[Len(stack)].type \in Type
  <2>1. stack # <<>> /\ Len(stack) \in Nat
    BY EmptySeq, LenProperties DEF TypeOK
  <2>2. QED
    BY <2>1, TopShape DEF Top
<1>3. i + 1 < Len(stack) => rank[stack[Len(stack)].type] < rank[stack[i + 1].type]
  BY <1>2 DEF Ranked
<1>4. i + 1 < Len(stack) \/ i + 1 = Len(stack)
  BY <1>2
<1>5. rank[t] < rank[stack[i + 1].type]
  <2>1. /\ rank[t] \in Nat /\ rank[stack[i + 1].type] \in Nat
        /\ rank[stack[Len(stack)].type] \in Nat
    BY <1>1, <1>2
  <2>2. QED
    BY <1>3, <1>4, <2>1
<1>6. rank[t] # rank[stack[i + 1].type]
  BY <1>1, <1>5
<1>7. QED
  BY <1>1, <1>6, RankedNames

\* The types of the frames are types.
LEMMA FrameTypes ==
  ASSUME TypeOK
  PROVE  \A i \in 1..Len(stack) : stack[i].type \in Type
<1>1. \A i \in 1..Len(stack) : stack[i] \in Frame
  BY ElementOfSeq DEF TypeOK
<1>2. QED
  BY <1>1 DEF Frame

\* Every step keeps the ranks of the stack descending.
LEMMA RankedStep ==
  ASSUME TypeOK, Shape, EmbedsByValue, NEW rank \in [Type -> Nat], Descending(rank),
         Ranked(rank), [Next]_vars
  PROVE  Ranked(rank)'
<1> DEFINE n == Len(stack)
<1>1. ASSUME NEW r \in Return, ReturnMove(r) PROVE Ranked(rank)'
  <2>1. /\ n \in Nat \ {0} /\ Len(stack') = n - 1
        /\ \A i \in 1..(n - 1) : stack'[i] = stack[i]
        /\ ret' = r
    BY <1>1, ReturnMoveStack
  <2>2. stack \in Seq(Frame) /\ stack' \in Seq(Frame) /\ stack # <<>>
    BY <1>1, TopLemma DEF TypeOK, ReturnMove, Returns
  <2>3. stack' # <<>> => n - 1 \in 1..(n - 1)
    BY <2>1, <2>2, EmptySeq
  <2>4. /\ r.type = stack[n].type \/ (ret # None /\ r.type = ret.type)
        /\ r.type \in Type
    BY <1>1 DEF ReturnMove, Top, Return
  <2>5. stack' # <<>> => rank[r.type] < rank[stack[n - 1].type]
    <3>1. SUFFICES ASSUME stack' # <<>>
                   PROVE  rank[r.type] < rank[stack[n - 1].type]
      OBVIOUS
    <3>2. n - 1 \in 1..n /\ n \in 1..n /\ n - 1 < n
      BY <2>1, <2>3, <3>1
    <3>3. /\ rank[stack[n].type] < rank[stack[n - 1].type]
          /\ ret # None => rank[ret.type] < rank[stack[n].type]
      BY <2>2, <3>2 DEF Ranked
    <3>4. /\ rank[stack[n].type] \in Nat /\ rank[stack[n - 1].type] \in Nat
          /\ rank[r.type] \in Nat
      BY <2>4, <3>2, FrameTypes
    <3>5. QED
      BY <2>4, <3>3, <3>4
  <2>6. \A i, j \in 1..(n - 1) : i < j => rank[stack'[j].type] < rank[stack'[i].type]
    BY <2>1 DEF Ranked
  <2>7. QED
    BY <2>1, <2>3, <2>5, <2>6 DEF Ranked
<1>2. ASSUME NEW caller \in Frame, NEW callee \in Frame, CallMove(caller, callee)
      PROVE  Ranked(rank)'
  <2>1. /\ n \in Nat \ {0} /\ Len(stack') = n + 1
        /\ \A i \in 1..(n - 1) : stack'[i] = stack[i]
        /\ stack'[n] = caller /\ stack'[n + 1] = callee
    BY <1>2, CallMoveStack
  <2>2. /\ caller.type = stack[n].type /\ ret' = None
        /\ callee.type \in Parts(caller.type)
        /\ callee.type \in Type /\ caller.type \in Type
    BY <1>2 DEF CallMove, Top, WaitsFor, Frame
  <2>3. rank[callee.type] < rank[stack[n].type]
    BY <2>2 DEF Descending
  <2>4. \A i \in 1..n : stack'[i].type = stack[i].type
    BY <2>1, <2>2
  <2>5. ASSUME NEW i \in 1..(n + 1), NEW j \in 1..(n + 1), i < j
        PROVE  rank[stack'[j].type] < rank[stack'[i].type]
    <3>1. CASE j \in 1..n
      <4>1. i \in 1..n
        BY <2>1, <2>5, <3>1
      <4>2. QED
        BY <2>4, <2>5, <3>1, <4>1 DEF Ranked
    <3>2. CASE j = n + 1
      <4>1. i \in 1..n /\ n \in 1..n /\ (i < n \/ i = n)
        BY <2>1, <2>5, <3>2
      <4>2. i < n => rank[stack[n].type] < rank[stack[i].type]
        BY <4>1 DEF Ranked
      <4>3. /\ rank[stack[n].type] \in Nat /\ rank[stack[i].type] \in Nat
            /\ rank[callee.type] \in Nat
        BY <2>2, <4>1, FrameTypes
      <4>4. rank[callee.type] < rank[stack[i].type]
        BY <2>3, <4>1, <4>2, <4>3
      <4>5. QED
        BY <2>1, <2>4, <3>2, <4>1, <4>4
    <3>3. QED
      BY <2>1, <3>1, <3>2
  <2>6. QED
    BY <2>1, <2>2, <2>5 DEF Ranked
<1>3. ASSUME NEW frame \in Frame, AdvanceMove(frame) \/ OpenMove(frame)
      PROVE  Ranked(rank)'
  <2>1. /\ n \in Nat \ {0} /\ Len(stack') = n
        /\ \A i \in 1..(n - 1) : stack'[i] = stack[i]
        /\ stack'[n] = frame
    BY <1>3, ReplaceMoveStack
  <2>2. ret' = None /\ frame.type = stack[n].type
    BY <1>3 DEF AdvanceMove, OpenMove, Top
  <2>3. \A i \in 1..n : stack'[i].type = stack[i].type
    BY <2>1, <2>2
  <2>4. QED
    BY <2>1, <2>2, <2>3 DEF Ranked
<1>4. ASSUME NEW frame \in Frame, StartMove(frame) PROVE Ranked(rank)'
  <2>1. stack' = <<frame>> /\ ret' = None
    BY <1>4 DEF StartMove
  <2>2. Len(stack') = 1
    BY <2>1
  <2>3. QED
    BY <2>1, <2>2 DEF Ranked
<1>5. CASE ResetMove
  <2>1. stack' = <<>> /\ ret' = None
    BY <1>5 DEF ResetMove
  <2>2. Len(stack') = 0
    BY <2>1, EmptySeq
  <2>3. QED
    BY <2>1, <2>2 DEF Ranked
<1>6. CASE IdleMove
  BY <1>6 DEF IdleMove, Ranked
<1>7. QED
  BY <1>1, <1>2, <1>3, <1>4, <1>5, <1>6, Moves

\* Finishing a field hands on only references that were held already.
LEMMA AdvanceHeld ==
  ASSUME TypeOK, NEW frame \in Frame, AdvanceMove(frame), NEW x \in Held'
  PROVE  /\ x \in Held \/ FromRet(x)
         /\ models' # models => x \in Held
<1>1. /\ Len(stack) \in Nat \ {0} /\ Len(stack') = Len(stack)
      /\ \A i \in 1..(Len(stack) - 1) : stack'[i] = stack[i]
      /\ stack'[Len(stack)] = frame
      /\ stack # <<>> /\ ret # None /\ ~ret.err /\ ret' = None
  BY ReplaceMoveStack DEF AdvanceMove, Returned
<1>2. ASSUME NEW y \in Refs(frame.schema)
      PROVE  (y \in Held \/ FromRet(y)) /\ (models' # models => y \in Held)
  <2>1. Leads(Refs(frame.schema))
    BY DEF AdvanceMove
  <2>2. y \in Held \/ FromRet(y)
    BY <1>1, <2>1, LeadsLemma
  <2>3. models' # models => y \in Refs(Top.schema) \cup Refs(ret.schema)
    BY DEF AdvanceMove
  <2>4. Refs(Top.schema) \cup Refs(ret.schema) \subseteq Held
    BY <1>1 DEF Held, Top
  <2>5. QED
    BY <2>2, <2>3, <2>4
<1>3. CASE x \in UNION { Refs(stack'[i].schema) : i \in 1..Len(stack') }
  <2>1. PICK i \in 1..Len(stack') : x \in Refs(stack'[i].schema)
    BY <1>3
  <2>2. i = Len(stack) \/ i \in 1..(Len(stack) - 1)
    BY <1>1
  <2>3. QED
    BY <1>1, <1>2, <2>1, <2>2 DEF Held
<1>4. CASE x \in UNION { Refs(models'[n]) : n \in DOMAIN models' }
  BY <1>4 DEF AdvanceMove, Restrict, Held
<1>5. x \in UNION { Refs(models'[n]) : n \in DOMAIN models' }
      \/ x \in UNION { Refs(stack'[i].schema) : i \in 1..Len(stack') }
  BY <1>1 DEF Held
<1>6. QED
  BY <1>3, <1>4, <1>5

\* Opening, starting and calling hand on only references that were held already.
LEMMA StillHeld ==
  ASSUME TypeOK, UNCHANGED <<models, ret>>, NEW x \in Held',
         NEW frame \in Frame, NEW callee \in Frame,
         OpenMove(frame) \/ StartMove(frame) \/ CallMove(frame, callee)
  PROVE  x \in Held
<1>0. ASSUME \A i \in 1..Len(stack') :
               \/ i \in 1..Len(stack) /\ stack'[i].schema = stack[i].schema
               \/ Refs(stack'[i].schema) = {}
      PROVE  x \in Held
  <2>1. CASE \E i \in 1..Len(stack') : x \in Refs(stack'[i].schema)
    <3>1. PICK i \in 1..Len(stack') : x \in Refs(stack'[i].schema)
      BY <2>1
    <3>2. i \in 1..Len(stack) /\ x \in Refs(stack[i].schema)
      BY <1>0, <3>1
    <3>3. QED
      BY <3>2 DEF Held
  <2>2. CASE ~ \E i \in 1..Len(stack') : x \in Refs(stack'[i].schema)
    BY <2>2 DEF Held, Refs
  <2>3. QED
    BY <2>1, <2>2
<1>1. CASE OpenMove(frame)
  <2>1. /\ Len(stack) \in Nat \ {0} /\ Len(stack') = Len(stack)
        /\ \A i \in 1..(Len(stack) - 1) : stack'[i] = stack[i]
        /\ stack'[Len(stack)] = frame
        /\ frame.schema = stack[Len(stack)].schema
    BY <1>1, ReplaceMoveStack DEF OpenMove, Top
  <2>2. \A i \in 1..Len(stack') : i \in 1..Len(stack) /\ stack'[i].schema = stack[i].schema
    BY <2>1
  <2>3. QED
    BY <1>0, <2>2
<1>2. CASE StartMove(frame)
  <2>1. stack' = <<frame>> /\ Refs(frame.schema) = {}
    BY <1>2 DEF StartMove
  <2>2. \A i \in 1..Len(stack') : Refs(stack'[i].schema) = {}
    BY <2>1
  <2>3. QED
    BY <1>0, <2>2
<1>3. CASE CallMove(frame, callee)
  <2>1. /\ Len(stack) \in Nat \ {0} /\ Len(stack') = Len(stack) + 1
        /\ \A i \in 1..(Len(stack) - 1) : stack'[i] = stack[i]
        /\ stack'[Len(stack)] = frame /\ stack'[Len(stack) + 1] = callee
        /\ frame.schema = stack[Len(stack)].schema /\ Refs(callee.schema) = {}
    BY <1>3, CallMoveStack DEF CallMove, Top
  <2>2. ASSUME NEW i \in 1..Len(stack')
        PROVE  \/ i \in 1..Len(stack) /\ stack'[i].schema = stack[i].schema
               \/ Refs(stack'[i].schema) = {}
    <3>1. /\ i \in 1..(Len(stack) - 1) \/ i = Len(stack) \/ i = Len(stack) + 1
          /\ i # Len(stack) + 1 => i \in 1..Len(stack)
      BY <2>1, <2>2
    <3>2. QED
      BY <2>1, <3>1, Zenon
  <2>3. QED
    BY <1>0, <2>2
<1>4. QED
  BY <1>1, <1>2, <1>3

\* Every step keeps the references that are held resolvable.
LEMMA SoundStep ==
  ASSUME TypeOK, Shape, EmbedsByValue, NEW rank \in [Type -> Nat], Descending(rank),
         Ranked(rank), Sound, [Next]_vars
  PROVE  Sound'
<1> DEFINE n == Len(stack)
<1>1. ASSUME NEW x, FromRet(x), stack # <<>>
      PROVE  /\ x.to \in DOMAIN models
             /\ \A i \in 1..(n - 1) : Dropping(stack[i]) => x.to # Dropped(stack[i])
  <2>1. /\ ret # None /\ x.to = ret.name /\ ret.name \in DOMAIN models
        /\ rank[ret.type] < rank[stack[n].type]
        /\ NamedFor(ret.name, ret.type) /\ ret.type \in Type
    BY <1>1 DEF FromRet, Sound, Ranked, Shape, TypeOK, Return
  <2>2. QED
    BY <2>1, BelowDropped
<1>2. ASSUME NEW r \in Return, ReturnMove(r) PROVE Sound'
  <2>1. /\ n \in Nat \ {0} /\ Len(stack') = n - 1
        /\ \A i \in 1..(n - 1) : stack'[i] = stack[i] /\ i < n /\ i \in 1..n
        /\ ret' = r /\ DOMAIN models \subseteq DOMAIN models' /\ stack # <<>>
    BY <1>2, ReturnMoveStack DEF ReturnMove
  <2>2. \A x \in Held' : x \in Held \/ FromRet(x)
    BY <1>2, ReturnHeld
  <2>3. \A x \in Held' : x.to \in DOMAIN models'
    BY <1>1, <2>1, <2>2 DEF Sound
  <2>4. r.schema.component /\ ~r.err => r.name \in DOMAIN models'
    BY <1>2 DEF ReturnMove
  <2>5. ASSUME NEW i \in 1..(n - 1), Dropping(stack[i]), NEW x \in Held'
        PROVE  x.to # Dropped(stack[i])
    BY <1>1, <2>1, <2>2, <2>5 DEF Sound, Waiting
  <2>6. ASSUME NEW i \in 1..(n - 2), Dropping(stack[i])
        PROVE  Dropped(stack[i]) \notin DOMAIN models'
    <3>1. i \in 1..(n - 1) /\ i + 1 < n
      BY <2>1
    <3>2. Dropped(stack[i]) \notin DOMAIN models
      BY <2>6, <3>1 DEF Sound
    <3>3. Dropped(stack[i]) # r.name
      <4>1. NamedFor(r.name, r.type) /\ r.type \in Type
        BY <1>2 DEF ReturnMove, Return
      <4>2. \/ r.type = stack[n].type
            \/ rank[r.type] < rank[stack[n].type]
        BY <1>2 DEF ReturnMove, Top, Ranked
      <4>3. QED
        BY <2>6, <3>1, <4>1, <4>2, BelowDropped
    <3>4. QED
      BY <1>2, <3>2, <3>3 DEF ReturnMove, Filed
  <2>7. ASSUME NEW i \in 1..Len(stack'), Dropping(stack'[i])
        PROVE  \A x \in Held' : x.to # Dropped(stack'[i])
    <3>1. i \in 1..(n - 1) /\ stack'[i] = stack[i]
      BY <2>1
    <3>2. QED
      BY <2>5, <2>7, <3>1
  <2>8. ASSUME NEW i \in 1..(Len(stack') - 1), Dropping(stack'[i])
        PROVE  Dropped(stack'[i]) \notin DOMAIN models'
    <3>1. i \in 1..(n - 2) /\ i \in 1..(n - 1)
      BY <2>1
    <3>2. stack'[i] = stack[i]
      BY <2>1, <3>1
    <3>3. QED
      BY <2>6, <2>8, <3>1, <3>2
  <2>9. ret'.schema.component /\ ~ret'.err => ret'.name \in DOMAIN models'
    BY <2>1, <2>4
  <2>10. QED
    BY <2>3, <2>7, <2>8, <2>9 DEF Sound, Dropping, Dropped
<1>3. ASSUME NEW caller \in Frame, NEW callee \in Frame, CallMove(caller, callee)
      PROVE  Sound'
  <2>1. /\ n \in Nat \ {0} /\ Len(stack') = n + 1
        /\ \A i \in 1..(n - 1) : stack'[i] = stack[i] /\ i < n /\ i \in 1..n
        /\ stack'[n] = caller
    BY <1>3, CallMoveStack
  <2>2. /\ UNCHANGED <<models, ret>> /\ ret = None
        /\ Dropping(caller) => Dropped(caller) \notin DOMAIN models
    BY <1>3 DEF CallMove
  <2>3. \A x \in Held' : x \in Held
    BY <1>3, <2>2, StillHeld
  <2>4. \A x \in Held' : x.to \in DOMAIN models'
    BY <2>2, <2>3 DEF Sound
  <2>5. ASSUME NEW i \in 1..n, Dropping(stack'[i])
        PROVE  /\ Dropped(stack'[i]) \notin DOMAIN models'
               /\ \A x \in Held' : x.to # Dropped(stack'[i])
    <3>1. CASE i = n
      BY <2>1, <2>2, <2>3, <2>5, <3>1 DEF Sound
    <3>2. CASE i \in 1..(n - 1)
      BY <2>1, <2>2, <2>3, <2>5, <3>2 DEF Sound, Waiting
    <3>3. QED
      BY <2>1, <3>1, <3>2
  <2>6. ASSUME NEW i \in 1..Len(stack'), Waiting(i)', Dropping(stack'[i])
        PROVE  \A x \in Held' : x.to # Dropped(stack'[i])
    <3>1. ret' = None
      BY <2>2
    <3>2. i \in 1..n
      BY <2>1, <2>6, <3>1 DEF Waiting
    <3>3. QED
      BY <2>5, <2>6, <3>2
  <2>7. ASSUME NEW i \in 1..(Len(stack') - 1), Dropping(stack'[i])
        PROVE  Dropped(stack'[i]) \notin DOMAIN models'
    <3>1. i \in 1..n
      BY <2>1
    <3>2. QED
      BY <2>5, <2>7, <3>1
  <2>8. ret' = None
    BY <2>2
  <2>9. QED
    BY <2>4, <2>6, <2>7, <2>8 DEF Sound, Dropping, Dropped
<1>4. ASSUME NEW frame \in Frame, AdvanceMove(frame) PROVE Sound'
  <2>1. /\ n \in Nat \ {0} /\ Len(stack') = n
        /\ \A i \in 1..(n - 1) : stack'[i] = stack[i] /\ i < n /\ i \in 1..n
    BY <1>4, ReplaceMoveStack
  <2>2. ret' = None /\ stack # <<>> /\ ret # None /\ n \in 1..n
    <3>1. n \in 1..n
      BY <2>1
    <3>2. ret' = None /\ stack # <<>> /\ ret # None
      BY <1>4 DEF AdvanceMove, Returned
    <3>3. QED
      BY <3>1, <3>2
  <2>3. /\ \A x \in Held' : x \in Held \/ FromRet(x)
        /\ models' # models => \A x \in Held' : x \in Held
    BY <1>4, AdvanceHeld
  <2>4. DOMAIN models' \subseteq DOMAIN models
    BY <1>4 DEF AdvanceMove, Restrict
  <2>5. ASSUME NEW x \in Held' PROVE x.to \in DOMAIN models'
    <3>1. CASE models' = models
      BY <1>1, <2>2, <2>3, <3>1 DEF Sound
    <3>2. CASE models' # models
      <4>1. /\ Dropping(stack[n]) /\ ret.name = Dropped(stack[n])
            /\ DOMAIN models' = DOMAIN models \ {ret.name}
        BY <1>4, <3>2 DEF AdvanceMove, Restrict, Top
      <4>2. x \in Held /\ x.to # ret.name
        BY <2>2, <2>3, <3>2, <4>1 DEF Sound, Waiting
      <4>3. QED
        BY <4>1, <4>2 DEF Sound
    <3>3. QED
      BY <3>1, <3>2
  <2>6. ASSUME NEW i \in 1..(n - 1), Dropping(stack[i])
        PROVE  /\ Dropped(stack[i]) \notin DOMAIN models'
               /\ \A x \in Held' : x.to # Dropped(stack[i])
    BY <1>1, <2>1, <2>2, <2>3, <2>4, <2>6 DEF Sound, Waiting
  <2>7. \A i \in 1..n : (i < n \/ ret' # None) => i \in 1..(n - 1)
    BY <2>1, <2>2
  <2>8. QED
    BY <2>1, <2>2, <2>5, <2>6, <2>7 DEF Sound, Dropping, Dropped, Waiting
<1>5. ASSUME NEW frame \in Frame, OpenMove(frame) PROVE Sound'
  <2>1. /\ n \in Nat \ {0} /\ Len(stack') = n
        /\ \A i \in 1..(n - 1) : stack'[i] = stack[i] /\ i < n /\ i \in 1..n
    BY <1>5, ReplaceMoveStack
  <2>2. UNCHANGED <<models, ret>> /\ ret = None
    BY <1>5 DEF OpenMove
  <2>3. \A x \in Held' : x \in Held
    BY <1>5, <2>2, StillHeld
  <2>4. \A i \in 1..n : (i < n \/ ret' # None) => i \in 1..(n - 1)
    BY <2>1, <2>2
  <2>5. QED
    BY <2>1, <2>2, <2>3, <2>4 DEF Sound, Dropping, Dropped, Waiting
<1>6. ASSUME NEW frame \in Frame, StartMove(frame) PROVE Sound'
  <2>1. stack' = <<frame>> /\ ret = None /\ UNCHANGED <<models, ret>>
    BY <1>6 DEF StartMove
  <2>2. Len(stack') = 1
    BY <2>1
  <2>3. \A x \in Held' : x \in Held
    BY <1>6, <2>1, StillHeld
  <2>4. QED
    BY <2>1, <2>2, <2>3 DEF Sound, Waiting
<1>7. CASE ResetMove
  <2>1. stack' = <<>> /\ ret' = None /\ models' = models
    BY <1>7 DEF ResetMove
  <2>2. Len(stack') = 0
    BY <2>1, EmptySeq
  <2>3. \A x \in Held' : x \in Held
    BY <2>1, <2>2 DEF Held
  <2>4. QED
    BY <2>1, <2>2, <2>3 DEF Sound
<1>8. CASE IdleMove
  BY <1>8 DEF IdleMove, Sound, Held, Dropping, Dropped, Waiting
<1>9. QED
  BY <1>2, <1>3, <1>4, <1>5, <1>6, <1>7, <1>8, Moves

\* In a program whose types do not contain themselves and that embeds no
\* pointers, every reference of every component resolves, at every moment.
THEOREM ReferencesResolve ==
  ASSUME EmbedsByValue, NEW rank \in [Type -> Nat], Descending(rank)
  PROVE  Spec => []RefsResolve
<1> DEFINE IInv == TypeOK /\ Shape /\ Ranked(rank) /\ Sound
<1>1. Init => IInv
  <2>1. ASSUME Init PROVE Ranked(rank) /\ Sound
    <3>1. Len(stack) = 0 /\ ret = None /\ DOMAIN models = {} /\ stack = <<>>
      BY <2>1, EmptySeq DEF Init
    <3>2. Held = {}
      BY <3>1 DEF Held
    <3>3. QED
      BY <3>1, <3>2 DEF Ranked, Sound
  <2>2. QED
    BY <2>1, ShapeInit
<1>2. IInv /\ [Next]_vars => IInv'
  <2>1. SUFFICES ASSUME IInv, [Next]_vars PROVE IInv'
    OBVIOUS
  <2>2. TypeOK' /\ Shape'
    BY <2>1, ShapeStep
  <2>3. Ranked(rank)'
    BY <2>1, RankedStep
  <2>4. Sound'
    BY <2>1, SoundStep
  <2>5. QED
    BY <2>2, <2>3, <2>4
<1>3. IInv => RefsResolve
  BY DEF Sound, Held, RefsResolve, RefNames
<1>4. QED
  BY <1>1, <1>2, <1>3, PTL DEF Spec
=============================================================================
