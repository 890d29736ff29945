------------------------ MODULE RegistryContentProofs ------------------------
(***************************************************************************)
(* What is in the components: that they have all parts of their type, that *)
(* references lead to the type they were made for, and that a component    *)
(* stays as it was filed.                                                  *)
(***************************************************************************)
EXTENDS SchemaRegistryProofs

-----------------------------------------------------------------------------
(* How the innermost call can end, with result r.                          *)

Files(r) == models' = IF r.schema.component THEN Filed(models, r.name, r.schema) ELSE models

\* The name was there.
Found(r) ==
  /\ ret = None /\ Top.next = 0 /\ Top.name \in DOMAIN models
  /\ r.type = Top.type /\ r.name = Top.name /\ r.schema = models[Top.name] /\ ~r.err
  /\ models' = models

\* What becomes a component: the types that are worth one, and what WithEnumValues
\* is given.
Worthy(f) ==
  \/ Kind[f.type] \in {"enum", "opaque", "knownComponent"}
  \/ Kind[f.type] = "struct" /\ f.schema.component
  \/ "enum" \in f.opts /\ Kind[f.type] \notin {"known", "file"}

\* All parts of the innermost call's type are in.
Complete ==
  /\ Kind[Top.type] \notin {"badmap", "pointer"}
  /\ Kind[Top.type] = "struct" => Top.next > Len(Fields[Top.type])
  /\ Kind[Top.type] \in {"slice", "map"} => ret # None /\ ~ret.err

\* The schema is complete; it is filed if it is a component.
Made(r) ==
  /\ Complete
  /\ r.type = Top.type /\ r.name = Top.name /\ ~r.err
  /\ r.schema.of \in {Top.type, Top.schema.of} /\ r.schema.whole
  /\ r.schema.component <=> Worthy(Top)
  /\ Top.name \notin DOMAIN models \/ ret # None \/ Top.next > 0
  /\ Files(r)

\* A pointer's call goes on with the result for the element.
Passed(r) ==
  /\ Kind[Top.type] = "pointer" /\ ret # None
  /\ r.type = ret.type /\ r.name = ret.name /\ r.err = ret.err
  /\ r.schema.of = ret.schema.of /\ r.schema.whole = ret.schema.whole
  /\ r.schema.props = ret.schema.props /\ r.schema.required = ret.schema.required
  /\ ret.schema.applied \subseteq r.schema.applied
  /\ r.schema.component <=> ret.schema.component \/ "enum" \in Top.opts
  /\ Files(r)

\* The type is refused.
Stopped(r) ==
  /\ r.type = Top.type /\ r.err
  /\ Kind[Top.type] = "badmap" \/ (ret # None /\ ret.err /\ Kind[Top.type] # "pointer")
  /\ models' = models

Ends(r) ==
  /\ stack # <<>> /\ Returns(r)
  /\ Found(r) \/ Made(r) \/ Passed(r) \/ Stopped(r)

(* The other things a step can do.                                         *)

\* The innermost call has a part registered.
Descends(caller, callee) ==
  /\ stack # <<>> /\ ret = None
  /\ caller.type = Top.type /\ caller.name = Top.name /\ caller.opts = Top.opts
  /\ caller.schema = Top.schema /\ caller.next = Top.next
  /\ Kind[Top.type] = "struct" =>
       (caller.existed <=> ModelName(CurrentField.type) \in DOMAIN models)
  /\ Top.name \notin DOMAIN models \/ Top.next > 0
  /\ callee.opts \subseteq {"nullable"} /\ callee.next = 0
  /\ callee.schema.of = callee.type /\ callee.schema.component
  /\ stack' = Append([stack EXCEPT ![Len(stack)] = caller], callee)
  /\ UNCHANGED <<models, ret, request>>

\* It takes in the result.
Takes(frame) ==
  /\ stack # <<>> /\ ret # None /\ ~ret.err /\ Kind[Top.type] = "struct"
  /\ frame.type = Top.type /\ frame.name = Top.name /\ frame.opts = Top.opts
  /\ frame.next = Top.next + 1
  /\ frame.schema.of = Top.schema.of /\ frame.schema.component = Top.schema.component
  /\ models' = IF CurrentField.embedded /\ ~Top.existed
               THEN Restrict(models, DOMAIN models \ {ret.name}) ELSE models
  /\ stack' = [stack EXCEPT ![Len(stack)] = frame]
  /\ ret' = None /\ UNCHANGED request

\* It starts on its fields.
Opens(frame) ==
  /\ stack # <<>> /\ ret = None /\ Top.name \notin DOMAIN models
  /\ frame.type = Top.type /\ frame.name = Top.name /\ frame.opts = Top.opts
  /\ frame.schema = Top.schema /\ Top.next = 0 /\ frame.next = 1
  /\ stack' = [stack EXCEPT ![Len(stack)] = frame]
  /\ UNCHANGED <<models, ret, request>>

\* The program makes a call.
Starts(frame) ==
  /\ ret = None /\ request = None
  /\ \E c \in Call : /\ frame.type = c.type /\ frame.opts = c.opts
                      /\ request' = [ type |-> c.type, opts |-> c.opts,
                                      before |-> DOMAIN models ]
  /\ frame.next = 0 /\ frame.schema.of = frame.type /\ frame.schema.component
  /\ stack' = <<frame>>
  /\ UNCHANGED <<models, ret>>

-----------------------------------------------------------------------------
(* Every step is one of these.                                             *)

\* The end of the function makes r of what it has.
Finished(r, t, name, schema, err) ==
  /\ Returns(r) /\ Files(r)
  /\ r.type = t /\ r.name = name /\ r.err = err
  /\ r.schema.of = schema.of /\ r.schema.whole = schema.whole
  /\ r.schema.props = schema.props /\ r.schema.required = schema.required
  /\ schema.applied \subseteq r.schema.applied
  /\ r.schema.component <=> schema.component \/ "enum" \in Top.opts

\* Coming to the end of the function.
LEMMA FinishEnds ==
  ASSUME TypeOK, stack # <<>>, NEW t \in Type, NEW name \in Name,
         NEW schema \in Schema, NEW err \in BOOLEAN, Finish(t, name, schema, err)
  PROVE  \E r \in Return : Finished(r, t, name, schema, err)
<1> DEFINE done == [schema EXCEPT !.applied = @ \cup Top.opts,
                                  !.component = @ \/ "enum" \in Top.opts]
           r == [type |-> t, name |-> name, schema |-> done, err |-> err]
<1>1. done \in Schema
  BY TopLemma DEF Schema, Frame
<1>2. /\ done.of = schema.of /\ done.whole = schema.whole
      /\ done.props = schema.props /\ done.required = schema.required
      /\ schema.applied \subseteq done.applied
      /\ done.component <=> schema.component \/ "enum" \in Top.opts
  BY DEF Schema
<1>3. /\ models' = IF done.component THEN Filed(models, name, done) ELSE models
      /\ Returns(r)
  BY DEF Finish
<1> HIDE DEF done
<1>4. r \in Return
  BY <1>1 DEF Return
<1>5. Files(r)
  BY <1>3 DEF Files
<1> QED BY <1>2, <1>3, <1>4, <1>5 DEF Finished

\* The returns of a call that has no result of a part to take in.
LEMMA EntryEnds ==
  ASSUME TypeOK, Shape,
         ReturnExisting \/ ReturnKnown \/ FinishLeaf \/ ReturnFile \/ RejectMap
                        \/ CloseStruct
  PROVE  \E r \in Return : Ends(r)
<1>1. stack # <<>> /\ ret = None /\ Top.type \in Type
  BY TopShape DEF ReturnExisting, ReturnKnown, FinishLeaf, ReturnFile, RejectMap,
                  CloseStruct, Looping, Missing, Running
<1>2. CASE ReturnExisting
  <2> DEFINE r == [type |-> Top.type, name |-> Top.name,
                   schema |-> models[Top.name], err |-> FALSE]
  <2>1. /\ models[Top.name] \in Schema /\ Top.name \in DOMAIN models
        /\ Returns(r) /\ models' = models /\ Top.next = 0
    BY <1>2 DEF ReturnExisting, TypeOK
  <2>2. r \in Return
    BY <1>1, <2>1, TopShape DEF Return
  <2>3. Ends(r)
    BY <1>1, <2>1 DEF Ends, Found
  <2> QED BY <2>2, <2>3
<1>3. CASE ReturnKnown
  <2> DEFINE known == NewSchema(Top.type, Kind[Top.type] = "knownComponent", TRUE)
             r == [type |-> Top.type, name |-> Top.name, schema |-> known, err |-> FALSE]
  <2>1. known \in Schema
    BY <1>1, NewSchemaLemma
  <2>2. /\ known.of = Top.type /\ known.whole
        /\ known.component <=> Kind[Top.type] = "knownComponent"
    BY DEF NewSchema
  <2>3. /\ Returns(r) /\ Top.name \notin DOMAIN models
        /\ models' = IF known.component THEN Filed(models, Top.name, known) ELSE models
        /\ Kind[Top.type] \in {"known", "knownComponent"}
    BY <1>3 DEF ReturnKnown, Missing
  <2> HIDE DEF known
  <2>4. r \in Return
    BY <1>1, <2>1, TopShape DEF Return
  <2>5. Ends(r)
    BY <1>1, <2>2, <2>3 DEF Ends, Made, Files, Complete, Worthy
  <2> QED BY <2>4, <2>5
<1>4. CASE FinishLeaf
  <2> DEFINE component == Kind[Top.type] \in {"enum", "opaque"}
             new == NewSchema(Top.type, component, TRUE)
  <2>1. /\ Finish(Top.type, Top.name, new, FALSE) /\ Top.name \notin DOMAIN models
        /\ Kind[Top.type] \in {"basic", "array", "enum", "opaque"}
    BY <1>4 DEF FinishLeaf, Missing
  <2>2. component \in BOOLEAN
    OBVIOUS
  <2>3. new.of = Top.type /\ new.whole /\ new.component = component
    BY DEF NewSchema
  <2> HIDE DEF component
  <2>4. new \in Schema
    BY <1>1, <2>2, NewSchemaLemma
  <2> HIDE DEF new
  <2>5. PICK r \in Return : Finished(r, Top.type, Top.name, new, FALSE)
    BY <1>1, <2>1, <2>4, TopShape, FinishEnds
  <2>6. Ends(r)
    BY <1>1, <2>1, <2>3, <2>5 DEF Ends, Made, Finished, component, Complete, Worthy
  <2> QED BY <2>6
<1>5. CASE ReturnFile
  <2> DEFINE new == NewSchema(Top.type, FALSE, TRUE)
             r == [type |-> Top.type, name |-> Top.name, schema |-> new, err |-> FALSE]
  <2>1. new \in Schema
    BY <1>1, NewSchemaLemma
  <2>2. new.of = Top.type /\ new.whole /\ ~new.component
    BY DEF NewSchema
  <2>3. /\ Returns(r) /\ models' = models /\ Top.name \notin DOMAIN models
        /\ Kind[Top.type] = "file"
    BY <1>5 DEF ReturnFile, Missing
  <2> HIDE DEF new
  <2>4. r \in Return
    BY <1>1, <2>1, TopShape DEF Return
  <2>5. Ends(r)
    BY <1>1, <2>2, <2>3 DEF Ends, Made, Files, Complete, Worthy
  <2> QED BY <2>4, <2>5
<1>6. CASE RejectMap
  <2> DEFINE r == [type |-> Top.type, name |-> Top.name, schema |-> Top.schema, err |-> TRUE]
  <2>1. Returns(r) /\ models' = models /\ Kind[Top.type] = "badmap"
    BY <1>6 DEF RejectMap
  <2>2. r \in Return
    BY <1>1, TopShape DEF Return
  <2>3. Ends(r)
    BY <1>1, <2>1 DEF Ends, Stopped
  <2> QED BY <2>2, <2>3
<1>7. CASE CloseStruct
  <2> DEFINE whole == [Top.schema EXCEPT !.whole = TRUE]
  <2>1. /\ Finish(Top.type, Top.name, whole, FALSE) /\ Top.next > 0
        /\ Top.next > Len(Fields[Top.type])
    BY <1>7 DEF CloseStruct, Looping
  <2>2. /\ whole \in Schema /\ whole.of = Top.schema.of /\ whole.whole
        /\ whole.component = Top.schema.component
    BY <1>1, TopShape DEF Schema
  <2>3. Kind[Top.type] = "struct"
    BY <1>1, <2>1, TopLemma DEF Shape, Top
  <2> HIDE DEF whole
  <2>4. PICK r \in Return : Finished(r, Top.type, Top.name, whole, FALSE)
    BY <1>1, <2>1, <2>2, TopShape, FinishEnds
  <2>5. Ends(r)
    BY <1>1, <2>1, <2>2, <2>3, <2>4 DEF Ends, Made, Finished, Complete, Worthy
  <2> QED BY <2>5
<1> QED BY <1>2, <1>3, <1>4, <1>5, <1>6, <1>7

\* The returns that take in the result of a part.
LEMMA ResumeEnds ==
  ASSUME TypeOK, Shape, FinishElem \/ FinishPointer \/ PropagateError
  PROVE  \E r \in Return : Ends(r)
<1>1. Returned /\ stack # <<>> /\ Top.type \in Type /\ ret # None
  BY TopShape DEF FinishElem, FinishPointer, PropagateError, Returned
<1>2. CASE FinishElem
  <2> DEFINE new == [NewSchema(Top.type, FALSE, TRUE) EXCEPT
                       !.props = {[key |-> ItemSlot, refs |-> RefsTo(ret)]},
                       !.applied = {"nullable"}]
  <2>1. new \in Schema
    <3>1. RefsTo(ret) \in SUBSET Ref /\ ItemSlot \in Key
      BY <1>1, ReturnedShape, TypeAssumption
    <3>2. {[key |-> ItemSlot, refs |-> RefsTo(ret)]} \in SUBSET Prop
      BY <3>1 DEF Prop
    <3> QED BY <1>1, <3>2 DEF NewSchema, Schema, Option
  <2>2. new.of = Top.type /\ new.whole /\ ~new.component
    BY DEF NewSchema
  <2>3. /\ Finish(Top.type, Top.name, new, FALSE)
        /\ Kind[Top.type] \in {"slice", "map"} /\ ~ret.err
    BY <1>2 DEF FinishElem
  <2> HIDE DEF new
  <2>4. PICK r \in Return : Finished(r, Top.type, Top.name, new, FALSE)
    BY <1>1, <2>1, <2>3, TopShape, FinishEnds
  <2>5. Ends(r)
    BY <1>1, <2>2, <2>3, <2>4 DEF Ends, Made, Finished, Complete, Worthy
  <2> QED BY <2>5
<1>3. CASE FinishPointer
  <2>1. Finish(ret.type, ret.name, ret.schema, ret.err) /\ Kind[Top.type] = "pointer"
    BY <1>3 DEF FinishPointer
  <2>2. PICK r \in Return : Finished(r, ret.type, ret.name, ret.schema, ret.err)
    BY <1>1, <2>1, ReturnedShape, FinishEnds
  <2>3. Ends(r)
    BY <1>1, <2>1, <2>2 DEF Ends, Passed, Finished
  <2> QED BY <2>3
<1>4. CASE PropagateError
  <2> DEFINE r == [type |-> Top.type, name |-> Top.name, schema |-> Top.schema, err |-> TRUE]
  <2>1. /\ Returns(r) /\ models' = models /\ ret.err
        /\ Kind[Top.type] # "pointer"
    BY <1>4 DEF PropagateError
  <2>2. r \in Return
    BY <1>1, TopShape DEF Return
  <2>3. Ends(r)
    BY <1>1, <2>1 DEF Ends, Stopped
  <2> QED BY <2>2, <2>3
<1> QED BY <1>2, <1>3, <1>4


\* The steps that call on a part.
LEMMA PartDescends ==
  ASSUME TypeOK, Shape, DescendElem \/ VisitField
  PROVE  IdleMove \/ \E caller, callee \in Frame : Descends(caller, callee)
<1>1. /\ stack # <<>> /\ ret = None /\ Top \in Frame /\ Top.type \in Type
      /\ Top.name \notin DOMAIN models \/ Top.next > 0
  BY TopShape, TopLemma DEF DescendElem, VisitField, Missing, Looping, Running
<1>2. ASSUME NEW caller \in Frame, NEW t \in Type, NEW opts \in SUBSET {"nullable"},
             caller.type = Top.type, caller.name = Top.name, caller.opts = Top.opts,
             caller.schema = Top.schema, caller.next = Top.next,
             Kind[Top.type] = "struct" =>
               (caller.existed <=> ModelName(CurrentField.type) \in DOMAIN models),
             Calls(caller, t, opts)
      PROVE  IdleMove \/ \E callee \in Frame : Descends(caller, callee)
  <2> DEFINE callee == NewFrame(t, opts)
  <2>1. opts \in SUBSET Option
    BY DEF Option
  <2>2. callee \in Frame
    BY <2>1, NewFrameLemma
  <2>3. /\ callee.opts = opts /\ callee.next = 0
        /\ callee.schema.of = callee.type /\ callee.schema.component
    BY DEF NewFrame, NewSchema
  <2>4. CASE Len(stack) < MaxDepth
    <3>1. /\ stack' = Append([stack EXCEPT ![Len(stack)] = caller], callee)
          /\ UNCHANGED <<models, ret, request>>
      BY <1>2, <2>4 DEF Calls
    <3> HIDE DEF callee
    <3> QED BY <1>1, <1>2, <2>2, <2>3, <3>1 DEF Descends
  <2>5. CASE ~(Len(stack) < MaxDepth)
    BY <1>2, <2>5 DEF Calls, IdleMove
  <2> QED BY <2>4, <2>5
<1>3. CASE DescendElem
  <2> DEFINE opts == IF Kind[Top.type] = "pointer" THEN {"nullable"} ELSE {}
  <2>1. Calls(Top, Elem[Top.type], opts) /\ Kind[Top.type] # "struct"
    BY <1>3 DEF DescendElem
  <2>2. Elem[Top.type] \in Type /\ opts \in SUBSET {"nullable"}
    BY <1>1, TypeAssumption
  <2> HIDE DEF opts
  <2> QED BY <1>1, <1>2, <2>1, <2>2
<1>4. CASE VisitField
  <2> DEFINE existed == ModelName(CurrentField.type) \in DOMAIN models
             caller == [Top EXCEPT !.existed = existed]
  <2>1. Calls(caller, CurrentField.type, {})
    BY <1>4 DEF VisitField
  <2>2. CurrentField.type \in Type
    <3>1. Fields[Top.type] \in Seq(Field)
      BY <1>1, TypeAssumption
    <3>2. Top.next \in DOMAIN Fields[Top.type]
      BY <1>1, <1>4, <3>1, LenProperties DEF VisitField, Looping, Frame
    <3> QED BY <1>1, <3>2, FieldLemma DEF Field
  <2>3. existed \in BOOLEAN
    OBVIOUS
  <2> HIDE DEF existed
  <2>4. /\ caller \in Frame /\ caller.type = Top.type /\ caller.name = Top.name
        /\ caller.opts = Top.opts /\ caller.schema = Top.schema
        /\ caller.next = Top.next /\ caller.existed = existed
    BY <1>1, <2>3 DEF Frame
  <2> HIDE DEF caller
  <2>5. {} \in SUBSET {"nullable"}
    OBVIOUS
  <2> QED BY <1>2, <2>1, <2>2, <2>4, <2>5 DEF existed
<1> QED BY <1>3, <1>4

\* The steps that finish a field.
LEMMA FieldTakes ==
  ASSUME TypeOK, Shape, MergeEmbedded \/ AddProperty
  PROVE  \E frame \in Frame : Takes(frame)
<1> DEFINE more(props, required) ==
             [Top.schema EXCEPT !.props = Overlay(@, props), !.required = @ \cup required]
           frame(props, required) ==
             [Top EXCEPT !.schema = more(props, required), !.next = @ + 1]
<1>1. /\ Returned /\ stack # <<>> /\ ret # None /\ ~ret.err /\ Kind[Top.type] = "struct"
      /\ Top \in Frame /\ Top.type \in Type /\ Top.schema \in Schema /\ Top.next \in Nat
  BY TopLemma DEF MergeEmbedded, AddProperty, Returned, Frame
<1>2. models' = IF CurrentField.embedded /\ ~Top.existed
                THEN Restrict(models, DOMAIN models \ {ret.name}) ELSE models
  BY DEF MergeEmbedded, AddProperty
<1>3. ASSUME NEW props \in SUBSET Prop, NEW required \in SUBSET Key,
             Advance(props, required)
      PROVE  \E f \in Frame : Takes(f)
  <2> DEFINE m == more(props, required)
             after == Top.next + 1
             f == [Top EXCEPT !.schema = m, !.next = after]
  <2>1. m \in Schema /\ m.of = Top.schema.of /\ m.component = Top.schema.component
    <3>1. Overlay(Top.schema.props, props) \in SUBSET Prop
      BY <1>1, OverlayLemma DEF Schema
    <3> QED BY <1>1, <3>1 DEF Schema
  <2>2. after \in Nat
    BY <1>1
  <2>3. stack' = [stack EXCEPT ![Len(stack)] = f] /\ ret' = None /\ UNCHANGED request
    BY <1>3 DEF Advance
  <2>4. after = Top.next + 1
    OBVIOUS
  <2> HIDE DEF m, after
  <2>5. /\ f \in Frame /\ f.type = Top.type /\ f.schema = m /\ f.next = after
        /\ f.name = Top.name /\ f.opts = Top.opts
    BY <1>1, <2>1, <2>2 DEF Frame
  <2> HIDE DEF f
  <2> QED BY <1>1, <1>2, <2>1, <2>3, <2>4, <2>5 DEF Takes
<1>4. CASE MergeEmbedded
  <2>1. Advance(ret.schema.props, ret.schema.required)
    BY <1>4 DEF MergeEmbedded
  <2>2. ret.schema.props \in SUBSET Prop /\ ret.schema.required \in SUBSET Key
    BY <1>1, ReturnedShape DEF Schema
  <2> QED BY <1>3, <2>1, <2>2
<1>5. CASE AddProperty
  <2> DEFINE new == {[key |-> CurrentField.key, refs |-> RefsTo(ret)]}
             required == IF Required(CurrentField) THEN {CurrentField.key} ELSE {}
  <2>1. Advance(new, required)
    BY <1>5 DEF AddProperty
  <2>2. CurrentField.key \in Key /\ RefsTo(ret) \in SUBSET Ref
    BY <1>1, ReturnedShape DEF Field
  <2>3. new \in SUBSET Prop /\ required \in SUBSET Key
    BY <2>2 DEF Prop
  <2> HIDE DEF new, required
  <2> QED BY <1>3, <2>1, <2>3
<1> QED BY <1>4, <1>5

\* The steps at the edge of a call of the program, and the start of the fields.
LEMMA EdgeWays ==
  ASSUME TypeOK, Shape,
         PanicEnum \/ PanicOption \/ OpenStruct \/ Deliver \/ \E c \in Call : Start(c)
  PROVE  ResetMove \/ \E frame \in Frame : Opens(frame) \/ Starts(frame)
<1>1. CASE PanicEnum \/ PanicOption \/ Deliver
  BY <1>1 DEF PanicEnum, PanicOption, Deliver, Missing, Running, ResetMove
<1>2. CASE OpenStruct
  <2> DEFINE frame == [Top EXCEPT !.next = 1]
  <2>1. /\ Top \in Frame /\ stack # <<>> /\ ret = None /\ Top.name \notin DOMAIN models
        /\ Top.next = 0
    BY <1>2, TopLemma DEF OpenStruct, Missing, Running
  <2>2. /\ frame \in Frame /\ frame.type = Top.type /\ frame.schema = Top.schema
        /\ frame.name = Top.name /\ frame.opts = Top.opts /\ frame.next = 1
    BY <2>1 DEF Frame
  <2>3. /\ stack' = [stack EXCEPT ![Len(stack)] = frame]
        /\ UNCHANGED <<models, ret, request>>
    BY <1>2 DEF OpenStruct, Top
  <2> HIDE DEF frame
  <2> QED BY <2>1, <2>2, <2>3 DEF Opens
<1>3. ASSUME NEW c \in Call, Start(c)
      PROVE  \E frame \in Frame : Starts(frame)
  <2> DEFINE frame == NewFrame(c.type, c.opts)
  <2>1. frame \in Frame
    BY CallAssumption, NewFrameLemma
  <2>2. /\ frame.type = c.type /\ frame.opts = c.opts /\ frame.next = 0
        /\ frame.schema.of = frame.type /\ frame.schema.component
    BY DEF NewFrame, NewSchema
  <2>3. /\ stack' = <<frame>> /\ UNCHANGED <<models, ret>> /\ ret = None
        /\ request = None
        /\ request' = [type |-> c.type, opts |-> c.opts, before |-> DOMAIN models]
    BY <1>3 DEF Start, Shape
  <2> HIDE DEF frame
  <2> QED BY <2>1, <2>2, <2>3 DEF Starts
<1> QED BY <1>1, <1>2, <1>3

\* Every step of the registry.
LEMMA Ways ==
  ASSUME TypeOK, Shape, [Next]_vars
  PROVE  \/ \E r \in Return : Ends(r)
         \/ \E caller, callee \in Frame : Descends(caller, callee)
         \/ \E frame \in Frame : Takes(frame)
         \/ \E frame \in Frame : Opens(frame) \/ Starts(frame)
         \/ ResetMove
         \/ IdleMove
<1>1. CASE Next
  BY <1>1, EntryEnds, ResumeEnds, PartDescends, FieldTakes, EdgeWays DEF Next, Step, InnerStep
<1>2. CASE UNCHANGED vars
  BY <1>2 DEF vars, IdleMove
<1> QED BY <1>1, <1>2


\* What the ways do to the stack: an end pops it,
LEMMA EndsStack ==
  ASSUME TypeOK, NEW r, Ends(r)
  PROVE  /\ Len(stack) \in Nat \ {0}
         /\ Len(stack') = Len(stack) - 1
         /\ \A i \in 1..(Len(stack) - 1) : stack'[i] = stack[i]
         /\ ret' = r
<1>1. /\ stack \in Seq(Frame) /\ stack # <<>>
      /\ stack' = SubSeq(stack, 1, Len(stack) - 1) /\ ret' = r
  BY DEF Ends, TypeOK, Returns, Pop
<1> QED BY <1>1, StackLemma

\* a descent pushes a frame on it,
LEMMA DescendsStack ==
  ASSUME TypeOK, NEW caller \in Frame, NEW callee \in Frame, Descends(caller, callee)
  PROVE  /\ Len(stack) \in Nat \ {0}
         /\ Len(stack') = Len(stack) + 1
         /\ \A i \in 1..(Len(stack) - 1) : stack'[i] = stack[i]
         /\ stack'[Len(stack)] = caller
         /\ stack'[Len(stack) + 1] = callee
  BY PushLemma, TopLemma DEF Descends, TypeOK

\* and taking in a result or opening a struct replaces its top.
LEMMA TakesStack ==
  ASSUME TypeOK, NEW frame \in Frame, Takes(frame) \/ Opens(frame)
  PROVE  /\ Len(stack) \in Nat \ {0}
         /\ Len(stack') = Len(stack)
         /\ \A i \in 1..(Len(stack) - 1) : stack'[i] = stack[i]
         /\ stack'[Len(stack)] = frame
  BY ReplaceLemma, TopLemma DEF Takes, Opens, TypeOK

\* A component after a step was one before, or is what the call that ends filed.
LEMMA WaysModels ==
  ASSUME TypeOK, Shape, [Next]_vars, NEW n \in DOMAIN models'
  PROVE  \/ n \in DOMAIN models /\ models'[n] = models[n]
         \/ \E r \in Return : /\ Ends(r)
                              /\ Made(r) \/ Passed(r)
                              /\ r.schema.component
                              /\ n = r.name /\ models'[n] = r.schema
<1>1. ASSUME NEW r \in Return, Ends(r)
      PROVE  \/ n \in DOMAIN models /\ models'[n] = models[n]
             \/ /\ Made(r) \/ Passed(r)
                /\ r.schema.component
                /\ n = r.name /\ models'[n] = r.schema
  BY <1>1 DEF Ends, Found, Made, Passed, Stopped, Files, Filed
<1>2. ASSUME models' = models \/ models' = Restrict(models, DOMAIN models \ {ret.name})
      PROVE  n \in DOMAIN models /\ models'[n] = models[n]
  BY <1>2 DEF Restrict
<1> QED BY <1>1, <1>2, Ways DEF Descends, Takes, Opens, Starts, ResetMove, IdleMove

-----------------------------------------------------------------------------
(* Only whole components.                                                  *)

\* What is filed or handed on without an error is whole, and an error is handed
\* only to a call on a refused type, which passes it on.
Wholly(refused) ==
  /\ OnlyWholeComponents
  /\ ret # None /\ ~ret.err => ret.schema.whole
  /\ ret # None /\ ret.err /\ stack # <<>> => \E t \in refused : WaitsFor(Top, t)

\* A pointer's call does not get an error.
LEMMA PointersGetNoError ==
  ASSUME TypeOK, Shape, NEW refused, Refusing(refused), Wholly(refused),
         NEW r \in Return, Ends(r), Passed(r)
  PROVE  ~ret.err /\ ret.schema.whole
<1>1. /\ stack # <<>> /\ ret # None /\ Kind[Top.type] = "pointer"
      /\ Top.type \in Type
  BY TopShape DEF Ends, Passed
<1>2. ASSUME ret.err PROVE FALSE
  <2>1. PICK t \in refused : t \in Parts(Top.type)
    BY <1>1, <1>2 DEF Wholly, WaitsFor
  <2> QED BY <1>1, <2>1 DEF Refusing
<1> QED BY <1>1, <1>2 DEF Wholly

\* What the innermost call refuses, it and the call below it do not get whole.
LEMMA RefusedIsAwaited ==
  ASSUME TypeOK, Shape, NEW refused, Refusing(refused), Wholly(refused),
         NEW r \in Return, Ends(r), Stopped(r), stack' # <<>>
  PROVE  \E t \in refused : WaitsFor(Top, t)'
<1> DEFINE n == Len(stack)
<1>1. /\ n \in Nat \ {0} /\ Len(stack') = n - 1
      /\ \A i \in 1..(n - 1) : stack'[i] = stack[i]
  BY EndsStack
<1>2. stack # <<>> /\ Top.type \in Type
  BY TopShape DEF Ends
<1>3. Top.type \in refused
  <2>1. CASE Kind[Top.type] = "badmap"
    BY <1>2, <2>1 DEF Refusing
  <2>2. CASE ret # None /\ ret.err
    <3>1. PICK t \in refused : t \in Parts(Top.type)
      BY <1>2, <2>2 DEF Wholly, WaitsFor
    <3> QED BY <1>2, <3>1 DEF Refusing
  <2> QED BY <2>1, <2>2 DEF Stopped
<1>4. n - 1 \in 1..(n - 1)
  <2>1. stack' \in Seq(Frame)
    BY <1>2, TopLemma DEF Ends, Returns
  <2>2. Len(stack') # 0
    BY <2>1, EmptySeq
  <2> QED BY <1>1, <2>2
<1>5. WaitsFor(stack[n - 1], stack[n].type)
  BY <1>4 DEF Shape
<1>6. Top' = stack[n - 1] /\ stack[n] = Top
  BY <1>1, <1>4 DEF Top
<1> QED BY <1>3, <1>5, <1>6 DEF WaitsFor

\* Every step keeps this.
LEMMA WhollyStep ==
  ASSUME TypeOK, Shape, NEW refused, Refusing(refused), Wholly(refused), [Next]_vars
  PROVE  Wholly(refused)'
<1>1. ASSUME NEW r \in Return, Made(r) \/ Passed(r), Ends(r)
      PROVE  r.schema.whole
  BY <1>1, PointersGetNoError DEF Made, Passed
<1>2. OnlyWholeComponents'
  <2>1. SUFFICES ASSUME NEW n \in DOMAIN models' PROVE models'[n].whole
    BY DEF OnlyWholeComponents
  <2> QED BY <1>1, WaysModels DEF Wholly, OnlyWholeComponents
<1>3. ASSUME NEW r \in Return, Ends(r) PROVE Wholly(refused)'
  <2>1. ret' = r
    BY <1>3, EndsStack
  <2>2. ~r.err => r.schema.whole
    BY <1>1, <1>3 DEF Ends, Found, Stopped, Wholly, OnlyWholeComponents
  <2>3. r.err => Stopped(r)
    BY <1>3, PointersGetNoError DEF Ends, Found, Made, Passed
  <2> QED BY <1>2, <1>3, <2>1, <2>2, <2>3, RefusedIsAwaited DEF Wholly
<1>4. CASE ret' = None
  BY <1>2, <1>4 DEF Wholly
<1>5. CASE IdleMove
  BY <1>2, <1>5 DEF IdleMove, Wholly, WaitsFor, Top
<1> QED BY <1>3, <1>4, <1>5, Ways DEF Descends, Takes, Opens, Starts, ResetMove

\* In a program that has the maps that are refused, and what contains them, behind
\* no pointer, only schemas with all parts of their type are ever published.
THEOREM OnlyWhole ==
  ASSUME NEW refused, Refusing(refused)
  PROVE  Spec => []OnlyWholeComponents
<1>1. Init => TypeOK /\ Shape /\ Wholly(refused)
  BY ShapeInit DEF Init, Wholly, OnlyWholeComponents
<1>2. TypeOK /\ Shape /\ Wholly(refused) /\ [Next]_vars
        => TypeOK' /\ Shape' /\ Wholly(refused)'
  BY ShapeStep, WhollyStep
<1>3. Wholly(refused) => OnlyWholeComponents
  BY DEF Wholly
<1> QED BY <1>1, <1>2, <1>3, PTL DEF Spec


-----------------------------------------------------------------------------
(* References lead to the type they were made for.                         *)

\* No step makes up a reference: it comes from what was held, or leads to the
\* result just received.
LEMMA HeldStep ==
  ASSUME TypeOK, Shape, EmbedsByValue, [Next]_vars, NEW x \in Held'
  PROVE  x \in Held \/ FromRet(x)
<1>1. ASSUME NEW r \in Return, ReturnMove(r) PROVE x \in Held \/ FromRet(x)
  BY <1>1, ReturnHeld
<1>2. ASSUME NEW caller \in Frame, NEW callee \in Frame, CallMove(caller, callee)
      PROVE  x \in Held
  <2>1. UNCHANGED <<models, ret>>
    BY <1>2 DEF CallMove
  <2> QED BY <1>2, <2>1, StillHeld
<1>3. ASSUME NEW frame \in Frame, AdvanceMove(frame) PROVE x \in Held \/ FromRet(x)
  BY <1>3, AdvanceHeld
<1>4. ASSUME NEW frame \in Frame, OpenMove(frame) \/ StartMove(frame) PROVE x \in Held
  <2>1. UNCHANGED <<models, ret>>
    BY <1>4 DEF OpenMove, StartMove
  <2> QED BY <1>4, <2>1, StillHeld
<1>5. ASSUME ResetMove PROVE x \in Held
  <2>1. stack' = <<>> /\ ret' = None /\ models' = models
    BY <1>5 DEF ResetMove
  <2>2. Len(stack') = 0
    BY <2>1, EmptySeq
  <2> QED BY <2>1, <2>2 DEF Held
<1>6. ASSUME IdleMove PROVE x \in Held
  BY <1>6 DEF IdleMove, Held
<1> QED BY <1>1, <1>2, <1>3, <1>4, <1>5, <1>6, Moves

\* A frame describes the type it was started for, and only a type with a name
\* is to be made an enum.
Candid(f) ==
  /\ f.schema.of = f.type /\ f.schema.component
  /\ "enum" \in f.opts => Kind[f.type] # "pointer" /\ GoName[f.type] # NoName

\* What is filed, referred to or handed on as a component goes by the name of its
\* type.
Told ==
  /\ \A n \in DOMAIN models : n = Named(models[n].of) /\ GoName[models[n].of] # NoName
  /\ \A x \in Held : x.to = Named(x.for) /\ GoName[x.for] # NoName
  /\ ret # None /\ ~ret.err =>
       /\ ret.schema.of = ret.type
       /\ ret.schema.component => GoName[ret.type] # NoName
  /\ \A i \in 1..Len(stack) : Candid(stack[i])

\* A call that ends without an error hands on a schema of the type it answers for.
LEMMA EndsTold ==
  ASSUME TypeOK, Shape, NamesTell, Told, NEW r \in Return, Ends(r), ~r.err
  PROVE  /\ r.schema.of = r.type
         /\ r.schema.component => GoName[r.type] # NoName
<1>1. Candid(Top) /\ Top.type \in Type /\ NamedFor(Top.name, Top.type)
  <2>1. Len(stack) \in 1..Len(stack) /\ stack # <<>>
    BY EndsStack DEF Ends
  <2> QED BY <2>1, TopShape DEF Told, Top
<1>2. CASE Found(r)
  <2> DEFINE t == models[Top.name].of
  <2>1. Top.name \in DOMAIN models /\ r.type = Top.type /\ r.schema.of = t
    BY <1>2 DEF Found
  <2>2. Top.name = Named(t) /\ GoName[t] # NoName /\ t \in Type
    BY <2>1 DEF Told, TypeOK, Schema
  <2>3. GoName[Top.type] = GoName[t]
    BY <1>1, <2>2 DEF NamedFor, Named
  <2> QED BY <1>1, <2>1, <2>2, <2>3 DEF NamesTell
<1>3. CASE Made(r)
  BY <1>1, <1>3 DEF Made, NamesTell, Candid, Worthy
<1>4. CASE Passed(r)
  BY <1>1, <1>4 DEF Passed, Told, Candid
<1> QED BY <1>2, <1>3, <1>4 DEF Ends, Stopped

\* Every step keeps the frames candid.
LEMMA CandidStep ==
  ASSUME TypeOK, Shape, NamesTell, Told, [Next]_vars
  PROVE  \A i \in 1..Len(stack') : Candid(stack'[i])
<1> DEFINE n == Len(stack)
<1>0. stack # <<>> => /\ Candid(Top)
                      /\ \A i \in 1..(n - 1) : Candid(stack[i])
  <2>1. stack # <<>> => n \in 1..n /\ \A i \in 1..(n - 1) : i \in 1..n
    BY TopLemma
  <2> QED BY <2>1 DEF Told, Top
<1>1. ASSUME NEW r, Ends(r) PROVE \A i \in 1..Len(stack') : Candid(stack'[i])
  BY <1>0, <1>1, EndsStack DEF Ends
<1>2. ASSUME NEW caller \in Frame, NEW callee \in Frame, Descends(caller, callee)
      PROVE  \A i \in 1..Len(stack') : Candid(stack'[i])
  <2>1. /\ n \in Nat \ {0} /\ Len(stack') = n + 1
        /\ \A i \in 1..(n - 1) : stack'[i] = stack[i]
        /\ stack'[n] = caller /\ stack'[n + 1] = callee
    BY <1>2, DescendsStack
  <2>2. Candid(caller) /\ Candid(callee)
    BY <1>0, <1>2 DEF Descends, Candid
  <2>3. \A i \in 1..(n + 1) : i \in 1..(n - 1) \/ i = n \/ i = n + 1
    BY <2>1
  <2> QED BY <1>0, <1>2, <2>1, <2>2, <2>3 DEF Descends
<1>3. ASSUME NEW frame \in Frame, Takes(frame) \/ Opens(frame)
      PROVE  \A i \in 1..Len(stack') : Candid(stack'[i])
  <2>1. /\ n \in Nat \ {0} /\ Len(stack') = n
        /\ \A i \in 1..(n - 1) : stack'[i] = stack[i]
        /\ stack'[n] = frame
    BY <1>3, TakesStack
  <2>2. Candid(frame) /\ stack # <<>>
    BY <1>0, <1>3 DEF Takes, Opens, Candid
  <2>3. \A i \in 1..n : i \in 1..(n - 1) \/ i = n
    BY <2>1
  <2> QED BY <1>0, <2>1, <2>2, <2>3
<1>4. ASSUME NEW frame \in Frame, Starts(frame)
      PROVE  \A i \in 1..Len(stack') : Candid(stack'[i])
  <2>1. PICK c \in Call : frame.type = c.type /\ frame.opts = c.opts
    BY <1>4 DEF Starts
  <2>2. Candid(frame)
    BY <1>4, <2>1 DEF Starts, Candid, NamesTell
  <2>3. stack' = <<frame>>
    BY <1>4 DEF Starts
  <2>4. Len(stack') = 1 /\ stack'[1] = frame
    BY <2>3
  <2> QED BY <2>2, <2>4
<1>5. CASE ResetMove
  <2>1. stack' = <<>>
    BY <1>5 DEF ResetMove
  <2>2. Len(stack') = 0
    BY <2>1, EmptySeq
  <2> QED BY <2>2
<1>6. CASE IdleMove
  BY <1>6 DEF IdleMove, Told
<1> QED BY <1>1, <1>2, <1>3, <1>4, <1>5, <1>6, Ways

\* Every step keeps the names telling.
LEMMA ToldStep ==
  ASSUME TypeOK, Shape, EmbedsByValue, NamesTell,
         NEW refused, Refusing(refused), Wholly(refused), Told, [Next]_vars
  PROVE  Told'
<1>1. ASSUME NEW n \in DOMAIN models'
      PROVE  n = Named(models'[n].of) /\ GoName[models'[n].of] # NoName
  <2>1. CASE n \in DOMAIN models /\ models'[n] = models[n]
    BY <2>1 DEF Told
  <2>2. ASSUME NEW r \in Return, Ends(r), Made(r) \/ Passed(r), r.schema.component,
               n = r.name, models'[n] = r.schema
        PROVE  n = Named(models'[n].of) /\ GoName[models'[n].of] # NoName
    <3>1. ~r.err
      BY <2>2, PointersGetNoError DEF Made, Passed
    <3>2. r.schema.of = r.type /\ GoName[r.type] # NoName
      BY <2>2, <3>1, EndsTold
    <3>3. NamedFor(r.name, r.type)
      <4>1. ret' = r /\ r # None
        BY <2>2, EndsStack, NoneAssumption
      <4>2. Shape'
        BY ShapeStep
      <4> QED BY <4>1, <4>2 DEF Shape
    <3> QED BY <2>2, <3>2, <3>3 DEF NamedFor
  <2> QED BY <2>1, <2>2, WaysModels
<1>2. ASSUME NEW x \in Held' PROVE x.to = Named(x.for) /\ GoName[x.for] # NoName
  <2>1. CASE x \in Held
    BY <2>1 DEF Told
  <2>2. CASE FromRet(x)
    <3>1. /\ ret # None /\ ~ret.err /\ ret.schema.component
          /\ x.to = ret.name /\ x.for = ret.type
      BY <2>2 DEF FromRet
    <3>2. NamedFor(ret.name, ret.type) /\ GoName[ret.type] # NoName
      BY <3>1 DEF Shape, Told
    <3> QED BY <3>1, <3>2 DEF NamedFor
  <2> QED BY <2>1, <2>2, HeldStep
<1>3. ret' # None /\ ~ret'.err =>
        /\ ret'.schema.of = ret'.type
        /\ ret'.schema.component => GoName[ret'.type] # NoName
  <2>1. ASSUME NEW r \in Return, Ends(r), ~r.err
        PROVE  /\ ret' = r /\ r.schema.of = r.type
               /\ r.schema.component => GoName[r.type] # NoName
    BY <2>1, EndsStack, EndsTold
  <2>2. ASSUME NEW r \in Return, Ends(r)
        PROVE  ret' = r
    BY <2>2, EndsStack
  <2>3. CASE ret' = ret
    BY <2>3 DEF Told
  <2> QED BY <2>1, <2>2, <2>3, Ways DEF Descends, Takes, Opens, Starts, ResetMove, IdleMove
<1>4. \A i \in 1..Len(stack') : Candid(stack'[i])
  BY CandidStep
<1> QED BY <1>1, <1>2, <1>3, <1>4 DEF Told, Candid

\* Where the names tell, a reference leads to the type it was made for.
LEMMA ToldIsFaithful ==
  ASSUME TypeOK, NamesTell, Told
  PROVE  RefsFaithful
<1>1. SUFFICES ASSUME NEW n \in DOMAIN models, NEW x \in Refs(models[n]),
                      x.to \in DOMAIN models
               PROVE  models[x.to].of = x.for
  BY DEF RefsFaithful
<1> DEFINE t == models[x.to].of
<1>2. x.for \in Type /\ t \in Type
  <2>1. models[n] \in Schema /\ models[x.to] \in Schema
    BY <1>1 DEF TypeOK
  <2> QED BY <1>1, <2>1, RefsLemma DEF Schema, Ref
<1>3. x.to = Named(t) /\ x.to = Named(x.for) /\ GoName[t] # NoName
  BY <1>1 DEF Told, Held
<1> QED BY <1>2, <1>3 DEF NamesTell, Named


\* In a program in which names tell types, that embeds no pointers, and that has
\* what is refused behind no pointer, a reference leads to the schema of the type
\* it was made for.
THEOREM ReferencesFaithful ==
  ASSUME EmbedsByValue, NamesTell, NEW refused, Refusing(refused)
  PROVE  Spec => []RefsFaithful
<1> DEFINE IInv == TypeOK /\ Shape /\ Wholly(refused) /\ Told
<1>1. Init => IInv
  <2>1. ASSUME Init PROVE Wholly(refused) /\ Told
    <3>1. Len(stack) = 0 /\ ret = None /\ DOMAIN models = {}
      BY <2>1, EmptySeq DEF Init
    <3>2. Held = {}
      BY <3>1 DEF Held
    <3> QED BY <3>1, <3>2 DEF Wholly, OnlyWholeComponents, Told
  <2> QED BY <2>1, ShapeInit
<1>2. IInv /\ [Next]_vars => IInv'
  BY ShapeStep, WhollyStep, ToldStep
<1>3. IInv => RefsFaithful
  BY ToldIsFaithful
<1> QED BY <1>1, <1>2, <1>3, PTL DEF Spec

-----------------------------------------------------------------------------
(* A component stays as it was filed.                                      *)

\* The result that is handed on is the component by its name, and none has the
\* name of a type that is still being registered.
Settled ==
  /\ ret # None /\ ~ret.err /\ ret.schema.component =>
       ret.name \in DOMAIN models /\ models[ret.name] = ret.schema
  /\ \A i \in 1..Len(stack) :
       Waiting(i) \/ stack[i].next > 0 => stack[i].name \notin DOMAIN models

\* What a call files does not have the name of a type that is still being
\* registered below it on the stack.
LEMMA FiledIsNotAwaited ==
  ASSUME TypeOK, Shape, Shape', EmbedsByValue, NamesTell, Told,
         NEW rank \in [Type -> Nat], Descending(rank), Ranked(rank),
         NEW r \in Return, Ends(r), ~r.err, r.schema.component,
         NEW i \in 1..(Len(stack) - 1)
  PROVE  r.name # stack[i].name
<1> DEFINE n == Len(stack)
<1>1. n \in Nat \ {0} /\ i \in 1..n /\ n \in 1..n /\ i < n /\ ret' = r /\ r # None
  BY EndsStack, NoneAssumption
<1>2. GoName[r.type] # NoName /\ r.type \in Type /\ r.name = Named(r.type)
  <2>1. GoName[r.type] # NoName
    BY EndsTold
  <2>2. NamedFor(r.name, r.type)
    BY <1>1 DEF Shape
  <2> QED BY <2>1, <2>2 DEF NamedFor, Return
<1>3. stack[i].type \in Type /\ stack[n].type \in Type
  BY <1>1, FrameTypes
<1>4. rank[stack[n].type] < rank[stack[i].type]
  BY <1>1 DEF Ranked
<1>5. r.type = stack[n].type \/ rank[r.type] < rank[stack[n].type]
  BY <1>1 DEF Ends, Found, Made, Passed, Stopped, Top, Ranked
<1>6. rank[r.type] # rank[stack[i].type]
  <2>1. /\ rank[r.type] \in Nat /\ rank[stack[i].type] \in Nat
        /\ rank[stack[n].type] \in Nat
    BY <1>2, <1>3
  <2> QED BY <1>4, <1>5, <2>1
<1>7. NamedFor(stack[i].name, stack[i].type)
  BY <1>1 DEF Shape
<1> QED BY <1>2, <1>3, <1>6, <1>7, RankedNames

\* Every step keeps the calls in progress settled.
LEMMA SettledStep ==
  ASSUME TypeOK, Shape, EmbedsByValue, NamesTell,
         NEW rank \in [Type -> Nat], Descending(rank), Ranked(rank),
         NEW refused, Refusing(refused), Wholly(refused), Told, Settled, [Next]_vars
  PROVE  Settled'
<1> DEFINE n == Len(stack)
<1>1. ASSUME NEW r \in Return, Ends(r) PROVE Settled'
  <2>1. /\ n \in Nat \ {0} /\ Len(stack') = n - 1 /\ ret' = r
        /\ \A i \in 1..(n - 1) : stack'[i] = stack[i] /\ i < n /\ i \in 1..n
    BY <1>1, EndsStack
  <2>2. r.schema.component /\ ~r.err =>
          r.name \in DOMAIN models' /\ models'[r.name] = r.schema
    BY <1>1 DEF Ends, Found, Made, Passed, Stopped, Files, Filed
  <2>3. ASSUME NEW i \in 1..(n - 1) PROVE stack[i].name \notin DOMAIN models'
    <3>1. stack[i].name \notin DOMAIN models
      BY <2>1 DEF Settled, Waiting
    <3>2. ASSUME NEW q \in Return, Ends(q), Made(q) \/ Passed(q), q.schema.component
          PROVE  q.name # stack[i].name
      <4>1. ~q.err
        BY <3>2, PointersGetNoError DEF Made, Passed
      <4>2. Shape'
        BY ShapeStep
      <4> QED BY <3>2, <4>1, <4>2, FiledIsNotAwaited
    <3> QED BY <3>1, <3>2, WaysModels
  <2> QED BY <2>1, <2>2, <2>3 DEF Settled
<1>2. ASSUME NEW caller \in Frame, NEW callee \in Frame, Descends(caller, callee)
      PROVE  Settled'
  <2>1. /\ n \in Nat \ {0} /\ Len(stack') = n + 1
        /\ \A i \in 1..(n - 1) : stack'[i] = stack[i] /\ i < n /\ i \in 1..n
        /\ stack'[n] = caller /\ stack'[n + 1] = callee
    BY <1>2, DescendsStack
  <2>2. models' = models /\ ret' = None /\ callee.next = 0
    BY <1>2 DEF Descends
  <2>3. caller.name \notin DOMAIN models
    <3>1. n \in 1..n
      BY <2>1
    <3> QED BY <1>2, <3>1 DEF Descends, Settled, Top
  <2>4. ASSUME NEW i \in 1..(n + 1), Waiting(i)' \/ stack'[i].next > 0
        PROVE  stack'[i].name \notin DOMAIN models'
    <3>1. i \in 1..(n - 1) \/ i = n \/ i = n + 1
      BY <2>1
    <3>2. CASE i \in 1..(n - 1)
      BY <2>1, <2>2, <3>2 DEF Settled, Waiting
    <3>3. CASE i = n
      BY <2>1, <2>2, <2>3, <3>3
    <3>4. CASE i = n + 1
      BY <2>1, <2>2, <2>4, <3>4 DEF Waiting
    <3> QED BY <3>1, <3>2, <3>3, <3>4
  <2> QED BY <2>1, <2>2, <2>4 DEF Settled
<1>3. ASSUME NEW frame \in Frame, Takes(frame) \/ Opens(frame) PROVE Settled'
  <2>1. /\ n \in Nat \ {0} /\ Len(stack') = n
        /\ \A i \in 1..(n - 1) : stack'[i] = stack[i] /\ i < n /\ i \in 1..n
        /\ stack'[n] = frame
    BY <1>3, TakesStack
  <2>2. frame.name = Top.name /\ ret' = None /\ DOMAIN models' \subseteq DOMAIN models
    BY <1>3 DEF Takes, Opens, Restrict
  <2>3. frame.name \notin DOMAIN models
    <3>1. n \in 1..n /\ stack[n] = Top
      BY <2>1 DEF Top
    <3> QED BY <1>3, <2>2, <3>1 DEF Takes, Opens, Settled, Waiting
  <2>4. ASSUME NEW i \in 1..n PROVE i \in 1..(n - 1) => stack[i].name \notin DOMAIN models
    BY <2>1 DEF Settled, Waiting
  <2>5. \A i \in 1..n : i \in 1..(n - 1) \/ i = n
    BY <2>1
  <2> QED BY <2>1, <2>2, <2>3, <2>4, <2>5 DEF Settled
<1>4. ASSUME NEW frame \in Frame, Starts(frame) PROVE Settled'
  <2>1. stack' = <<frame>> /\ ret' = None /\ frame.next = 0
    BY <1>4 DEF Starts
  <2>2. Len(stack') = 1 /\ stack'[1] = frame
    BY <2>1
  <2> QED BY <2>1, <2>2 DEF Settled, Waiting
<1>5. CASE ResetMove
  <2>1. stack' = <<>> /\ ret' = None
    BY <1>5 DEF ResetMove
  <2>2. Len(stack') = 0
    BY <2>1, EmptySeq
  <2> QED BY <2>1, <2>2 DEF Settled
<1>6. CASE IdleMove
  BY <1>6 DEF IdleMove, Settled, Waiting
<1> QED BY <1>1, <1>2, <1>3, <1>4, <1>5, <1>6, Ways

\* A component is as it was, but for options that were added.
StaysAsFiled ==
  \A n \in DOMAIN models \cap DOMAIN models' :
    /\ models'[n].of = models[n].of
    /\ models'[n].props = models[n].props
    /\ models'[n].required = models[n].required
    /\ models[n].applied \subseteq models'[n].applied

\* No step replaces a component by another.
LEMMA StableStep ==
  ASSUME TypeOK, Shape, NEW refused, Refusing(refused), Wholly(refused), Told,
         Settled, [Next]_vars
  PROVE  StaysAsFiled
<1>1. SUFFICES ASSUME NEW n \in DOMAIN models \cap DOMAIN models',
                      NEW r \in Return, Ends(r), Made(r) \/ Passed(r),
                      r.schema.component, n = r.name, models'[n] = r.schema
               PROVE  /\ models'[n].of = models[n].of
                      /\ models'[n].props = models[n].props
                      /\ models'[n].required = models[n].required
                      /\ models[n].applied \subseteq models'[n].applied
  BY WaysModels DEF StaysAsFiled
<1>2. Len(stack) \in 1..Len(stack) /\ stack # <<>>
  BY <1>1, EndsStack DEF Ends
<1>3. ~Made(r)
  BY <1>1, <1>2 DEF Made, Settled, Waiting, Top
<1>4. /\ Kind[Top.type] = "pointer" /\ ret # None /\ r.name = ret.name
      /\ r.schema.of = ret.schema.of
      /\ r.schema.props = ret.schema.props /\ r.schema.required = ret.schema.required
      /\ ret.schema.applied \subseteq r.schema.applied
      /\ ret.schema.component \/ "enum" \in Top.opts
  BY <1>1, <1>3 DEF Passed
<1>5. "enum" \notin Top.opts
  BY <1>2, <1>4 DEF Told, Candid, Top
<1>6. ~ret.err
  BY <1>1, <1>3, PointersGetNoError
<1>7. models[n] = ret.schema
  BY <1>1, <1>4, <1>5, <1>6 DEF Settled
<1> QED BY <1>1, <1>4, <1>7

\* Under the same conditions, and if no type is part of itself, a component keeps
\* its type, its properties and the options it was given for as long as it is there.
THEOREM ComponentsStay ==
  ASSUME EmbedsByValue, NamesTell, NEW rank \in [Type -> Nat], Descending(rank),
         NEW refused, Refusing(refused)
  PROVE  Spec => ComponentsStable
<1> DEFINE IInv == TypeOK /\ Shape /\ Ranked(rank) /\ Wholly(refused) /\ Told /\ Settled
<1>1. Init => IInv
  <2>1. ASSUME Init PROVE Ranked(rank) /\ Wholly(refused) /\ Told /\ Settled
    <3>1. Len(stack) = 0 /\ ret = None /\ DOMAIN models = {} /\ stack = <<>>
      BY <2>1, EmptySeq DEF Init
    <3>2. Held = {}
      BY <3>1 DEF Held
    <3> QED BY <3>1, <3>2 DEF Ranked, Wholly, OnlyWholeComponents, Told, Settled
  <2> QED BY <2>1, ShapeInit
<1>2. IInv /\ [Next]_vars => IInv'
  BY ShapeStep, RankedStep, WhollyStep, ToldStep, SettledStep
<1>3. IInv /\ [Next]_vars => [StaysAsFiled]_vars
  BY StableStep
<1>4. [][StaysAsFiled]_vars => ComponentsStable
  BY PTL DEF ComponentsStable, StaysAsFiled
<1> QED BY <1>1, <1>2, <1>3, <1>4, PTL DEF Spec
=============================================================================
