--------------------------- MODULE MCQueryParams ---------------------------
(***************************************************************************)
(* Small programs for TLC: the query types each declares.  A type is a     *)
(* tuple of names, so that structs of two fields can be enumerated.        *)
(***************************************************************************)
EXTENDS QueryParams, FiniteSets

CONSTANT Program   \* which of the programs below

Leaf(kind)     == [kind |-> kind, elem |-> "", fields |-> <<>>]
Of(kind, elem) == [kind |-> kind, elem |-> elem, fields |-> <<>>]
Struct(fields) == [kind |-> "struct", elem |-> "", fields |-> fields]

Tagged(type, tag) == [type |-> <<type>>, name |-> "Field", tag |-> tag]
Bare(type, name)  == [type |-> <<type>>, name |-> name, tag |-> None]

\* Every kind of value, alone and behind pointers and slices.
Declared ==
  "string"   :> Leaf("string") @@
  "int"      :> Leaf("int") @@
  "Level"    :> Leaf("uint") @@
  "word"     :> Leaf("word") @@
  "any"      :> Leaf("other") @@
  "labels"   :> Leaf("map") @@
  "*string"  :> Of("pointer", "string") @@
  "*Level"   :> Of("pointer", "Level") @@
  "**string" :> Of("pointer", "*string") @@
  "*word"    :> Of("pointer", "word") @@
  "*any"     :> Of("pointer", "any") @@
  "*labels"  :> Of("pointer", "labels") @@
  "[]int"    :> Of("slice", "int") @@
  "[][]int"  :> Of("slice", "[]int") @@
  "*[]int"   :> Of("pointer", "[]int") @@
  "[]*string" :> Of("slice", "*string") @@
  "Range"    :> Struct(<<Bare("*string", "From"), Tagged("string", "to")>>) @@
  "*Range"   :> Of("pointer", "Range") @@
  "Sort"     :> Struct(<<Tagged("*Level", "by"), Tagged("*Range", "in")>>) @@
  "[]Sort"   :> Of("slice", "Sort")

\* All structs with two fields of the types above; and what is not a struct.
Pairs == [ types |-> Declared,
           inputs |-> { <<s, t>> : s \in DOMAIN Declared, t \in DOMAIN Declared }
                      \cup { <<"[]int">>, <<"*Range">>, <<"Sort">> } ]

\* The input of tests/adapters/swaglay_fiber/http_test.go:158-161, "?name=test".
DataIn == [
  types |->
    "string" :> Leaf("string") @@
    "any"    :> Leaf("other") @@
    "AwareCtxStruct" :> Struct(<<Bare("any", "ctx")>>) @@
    "DataIn" :> Struct(<<Bare("AwareCtxStruct", "AwareCtxStruct"), Tagged("string", "name")>>),
  inputs |-> {<<"DataIn">>} ]

Chosen == CASE Program = "Pairs" -> Pairs [] Program = "DataIn" -> DataIn

Alone(t) == Chosen.types[t[1]]

MCInput  == Chosen.inputs
MCType   == { <<n>> : n \in DOMAIN Chosen.types } \cup MCInput
MCKind   == [t \in MCType |-> IF Len(t) = 2 THEN "struct" ELSE Alone(t).kind]
MCElem   == [t \in MCType |-> IF Len(t) = 2 \/ Alone(t).elem = "" THEN t ELSE <<Alone(t).elem>>]
MCFields == [t \in MCType |->
              IF Len(t) = 2 THEN <<Tagged(t[1], "a"), Tagged(t[2], "b")>> ELSE Alone(t).fields]
MCOwn    == {<<"Level">>} \cap MCType
MCFieldName ==
  {"a", "b", "by", "in", "to", "From", "name", "ctx", "Field", "AwareCtxStruct"}

\* The proofs are about programs of this kind.
ASSUME ProvedKind ==
  LET need[w \in {"flatten", "setResult"} \X Type] ==
        LET deeper == { need[v] : v \in Callees(w) }
        IN  IF deeper = {} THEN 0 ELSE 1 + Max(deeper)
      rank[t \in Type] ==
        LET parts == { rank[f.type] : f \in ToSet(Fields[t]) }
        IN  CASE Kind[t] \in {"pointer", "slice"} -> 1 + rank[Elem[t]]
              [] Kind[t] = "struct"               -> 1 + Max(parts)
              [] OTHER                            -> 0
  IN  NamesClear /\ EnoughStack(need) /\ Descending(rank)
=============================================================================
