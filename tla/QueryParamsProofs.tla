------------------------- MODULE QueryParamsProofs -------------------------
(***************************************************************************)
(* What a type is flattened into, for every program and every stack: the   *)
(* types of the variables, what the documented keys address, that all that *)
(* is optional or repeated is documented, and why a type is refused.       *)
(***************************************************************************)
EXTENDS QueryParams, SequenceTheorems, WellFoundedInduction, TLAPS

-----------------------------------------------------------------------------
(* The types of a program.                                                 *)

\* The fields of a type are fields of types.
LEMMA FieldsLemma ==
  ASSUME NEW t \in Type
  PROVE  /\ Fields[t] \in Seq(Field)
         /\ \A i \in DOMAIN Fields[t] : Fields[t][i] \in Field
         /\ \A f \in ToSet(Fields[t]) : f \in Field /\ f.type \in Type
<1>1. Fields[t] \in Seq(Field)
  BY TypeAssumption
<1>2. \A i \in DOMAIN Fields[t] : Fields[t][i] \in Field
  BY <1>1, ElementOfSeq, LenProperties
<1> QED BY <1>1, <1>2 DEF ToSet, Field

\* A type is one of those that the code tells apart, and what it points to or holds
\* is a type of the program.
LEMMA KindLemma ==
  ASSUME NEW t \in Type
  PROVE  /\ Kind[t] \in Kinds /\ Elem[t] \in Type
         /\ Kind[t] \notin Primitive => Kind[t] \in {"struct", "pointer", "slice", "map", "other"}
         /\ Kind[t] \in Primitive =>
              Kind[t] \notin {"struct", "pointer", "slice", "map", "other"}
         /\ Kind[t] \in Primitive /\ Kind[t] # "word" => Kind[t] \in DOMAIN SwaggerType
BY TypeAssumption DEF Kinds, Primitive, SwaggerType

\* The names of indices.
LEMMA IndexLemma ==
  /\ DOMAIN Index = 1..4 /\ "" \in ToSet(Index) /\ "" \in KeyPart
  /\ \A i \in 1..4 : Index[i] \in ToSet(Index)
  /\ \A n \in ToSet(Index) : n \in KeyPart /\ \E i \in 1..4 : n = Index[i]
<1>1. DOMAIN Index = 1..4 /\ Index[4] = ""
  BY DEF Index
<1>2. 4 \in DOMAIN Index
  BY DEF Index
<1> HIDE DEF Index
<1>3. Index[4] \in ToSet(Index)
  BY <1>2 DEF ToSet
<1>4. "" \in ToSet(Index) /\ "" \in KeyPart
  BY <1>1, <1>3 DEF KeyPart
<1> QED BY <1>1, <1>4 DEF ToSet, KeyPart

-----------------------------------------------------------------------------
(* The recursive functions that the properties compare with are what their *)
(* definitions say: a function with that property exists.                  *)

\* Behind pointers there is the value they lead to.
LEMMA ValueUnfolds ==
  \A t \in Type : Value[t] = IF Kind[t] = "pointer" THEN Value[Elem[t]] ELSE t
<1> DEFINE Unfolds(f) == f = [t \in Type |-> IF Kind[t] = "pointer" THEN f[Elem[t]] ELSE t]
           Closed(R) == \A t \in Type : IF Kind[t] = "pointer" THEN R[Elem[t]] \subseteq R[t]
                                                               ELSE t \in R[t]
           least == [t \in Type |-> { u \in Type : \A R \in [Type -> SUBSET Type] :
                                        Closed(R) => u \in R[t] }]
           \* What is there in the first place.
           goal(t) == IF Kind[t] = "pointer" THEN least[Elem[t]] ELSE {t}
           value == [t \in Type |-> CHOOSE u : u \in least[t]]
<1>1. \A t \in Type : Elem[t] \in Type
  BY KindLemma
<1>2. least \in [Type -> SUBSET Type] /\ Closed(least)
  BY <1>1
<1>3. ASSUME NEW t \in Type PROVE least[t] = goal(t)
  <2> DEFINE R == [least EXCEPT ![t] = goal(t)]
  <2>1. goal(t) \subseteq least[t]
    BY <1>2
  <2>2. /\ R \in [Type -> SUBSET Type] /\ R[t] = goal(t)
        /\ \A s \in Type : R[s] \subseteq least[s]
        /\ \A s \in Type : s # t => R[s] = least[s]
    BY <1>1, <1>2, <2>1
  <2> HIDE DEF R, least
  <2>3. Closed(R)
    BY <1>1, <1>2, <2>2
  <2>4. \A u \in least[t] : u \in R[t]
    <3> HIDE DEF Closed
    <3> QED BY <2>2, <2>3 DEF least
  <2> QED BY <2>1, <2>2, <2>4
<1> HIDE DEF least
<1>4. ASSUME NEW t \in Type
      PROVE  value[t] = IF Kind[t] = "pointer" THEN value[Elem[t]] ELSE t
  <2>1. CASE Kind[t] = "pointer"
    <3>1. least[t] = least[Elem[t]] /\ Elem[t] \in Type
      BY <1>1, <1>3, <2>1
    <3> QED BY <2>1, <3>1
  <2>2. CASE Kind[t] # "pointer"
    <3>1. least[t] = {t}
      BY <1>3, <2>2
    <3> QED BY <2>2, <3>1
  <2> QED BY <2>1, <2>2
<1>5. Unfolds(value)
  BY <1>4
<1> HIDE DEF value
<1>6. Unfolds(CHOOSE f : Unfolds(f))
  BY <1>5
<1>7. Unfolds(Value)
  BY <1>6 DEF Value
<1> QED BY <1>7

\* The types one step further in.
Inner(t) ==
  IF Kind[t] = "slice" THEN {Elem[t]}
  ELSE IF Kind[t] = "struct" THEN { Elem[f.type] : f \in {g \in ToSet(Fields[t]) : Indirect(g)} }
  ELSE {}

\* What is looked into is the type and what is looked into further in.
LEMMA LookedIntoUnfolds ==
  \A t \in Type : LookedInto[t] = {t} \cup UNION { LookedInto[p] : p \in Inner(t) }
<1> DEFINE Unfolds(f) == f = [t \in Type |-> {t} \cup UNION { f[p] : p \in Inner(t) }]
           Closed(S) == \A u \in S : Inner(u) \subseteq S
           least == [t \in Type |-> { u \in Type : \A S \in SUBSET Type :
                                        t \in S /\ Closed(S) => u \in S }]
<1>0. \A t \in Type : Inner(t) \subseteq Type
  <2> SUFFICES ASSUME NEW t \in Type PROVE Inner(t) \subseteq Type
    OBVIOUS
  <2>1. \A f \in ToSet(Fields[t]) : Elem[f.type] \in Type
    BY FieldsLemma, KindLemma
  <2> QED BY <2>1, KindLemma DEF Inner
<1>1. Unfolds(least)
  <2>1. ASSUME NEW t \in Type
        PROVE  least[t] = {t} \cup UNION { least[p] : p \in Inner(t) }
    <3> DEFINE reached == {t} \cup UNION { least[p] : p \in Inner(t) }
    <3>1. reached \subseteq least[t]
      BY <1>0
    <3>2. reached \in SUBSET Type /\ t \in reached
      BY <1>0
    <3>3. Closed(reached)
      <4>1. ASSUME NEW u \in reached PROVE Inner(u) \subseteq reached
        <5>1. CASE u = t
          BY <1>0, <5>1
        <5>2. CASE u # t
          <6>1. PICK p \in Inner(t) : u \in least[p]
            BY <5>2
          <6>2. u \in Type /\ Inner(u) \subseteq Type /\ p \in Type
            BY <1>0, <6>1
          <6>3. Inner(u) \subseteq least[p]
            BY <6>1, <6>2
          <6>4. least[p] \subseteq reached
            OBVIOUS
          <6> QED BY <6>3, <6>4
        <5> QED BY <5>1, <5>2
      <4> QED BY <4>1
    <3>4. least[t] \subseteq reached
      BY <3>2, <3>3
    <3> QED BY <3>1, <3>4
  <2> QED BY <2>1
<1> HIDE DEF least
<1>2. Unfolds(CHOOSE f : Unfolds(f))
  BY <1>1
<1>3. ASSUME NEW f, NEW t \in Type
      PROVE  UNION { f[p] : p \in Inner(t) } =
             CASE Kind[t] = "slice"  -> f[Elem[t]]
               [] Kind[t] = "struct" ->
                    UNION { f[Elem[g.type]] : g \in {h \in ToSet(Fields[t]) : Indirect(h)} }
               [] OTHER -> {}
  <2>1. CASE Kind[t] = "slice"
    BY <2>1 DEF Inner
  <2>2. CASE Kind[t] = "struct"
    BY <2>2 DEF Inner
  <2>3. CASE Kind[t] \notin {"slice", "struct"}
    BY <2>3 DEF Inner
  <2> QED BY <2>1, <2>2, <2>3
<1> DEFINE Written(f) == [t \in Type |-> {t} \cup
             CASE Kind[t] = "slice"  -> f[Elem[t]]
               [] Kind[t] = "struct" ->
                    UNION { f[Elem[g.type]] : g \in {h \in ToSet(Fields[t]) : Indirect(h)} }
               [] OTHER -> {}]
<1>4. \A f : Unfolds(f) <=> f = Written(f)
  BY <1>3
<1> HIDE DEF Unfolds, Written
<1>5. (CHOOSE f : f = Written(f)) = Written(CHOOSE f : f = Written(f))
  BY <1>2, <1>4
<1>6. LookedInto = Written(LookedInto)
  BY <1>5 DEF LookedInto, Written
<1> QED BY <1>4, <1>6 DEF Unfolds

\* The keys of the values below t, given the keys g below its parts.
KeysBy(only, g, t) ==
  IF Kind[t] \in Primitive THEN {<<>>}
  ELSE CASE Kind[t] = "pointer" -> g[Elem[t]]
         [] Kind[t] = "slice"   -> UNION { Further(n, g[Elem[t]]) : n \in ToSet(Index) }
         [] Kind[t] = "struct"  ->
              UNION { Further(JsonName(f), g[f.type]) : f \in ToSet(Fields[t]) \cap only }
         [] OTHER -> {}

LEMMA KeysByKind ==
  ASSUME NEW only, NEW g, NEW t \in Type
  PROVE  /\ Kind[t] \in Primitive => KeysBy(only, g, t) = {<<>>}
         /\ Kind[t] = "pointer" => KeysBy(only, g, t) = g[Elem[t]]
         /\ Kind[t] = "slice" =>
              KeysBy(only, g, t) = UNION { Further(n, g[Elem[t]]) : n \in ToSet(Index) }
         /\ Kind[t] = "struct" =>
              KeysBy(only, g, t) = UNION { Further(JsonName(f), g[f.type]) :
                                           f \in ToSet(Fields[t]) \cap only }
         /\ Kind[t] \in {"map", "other"} => KeysBy(only, g, t) = {}
<1>1. Kind[t] \in {"struct", "pointer", "slice", "map", "other"} => Kind[t] \notin Primitive
  BY KindLemma
<1>2. Kind[t] \in Primitive => KeysBy(only, g, t) = {<<>>}
  BY DEF KeysBy
<1>3. Kind[t] = "pointer" => KeysBy(only, g, t) = g[Elem[t]]
  BY <1>1 DEF KeysBy
<1>4. Kind[t] = "slice" =>
        KeysBy(only, g, t) = UNION { Further(n, g[Elem[t]]) : n \in ToSet(Index) }
  BY <1>1 DEF KeysBy
<1>5. Kind[t] = "struct" =>
        KeysBy(only, g, t) = UNION { Further(JsonName(f), g[f.type]) :
                                     f \in ToSet(Fields[t]) \cap only }
  BY <1>1 DEF KeysBy
<1>6. Kind[t] \in {"map", "other"} => KeysBy(only, g, t) = {}
  BY <1>1 DEF KeysBy
<1> QED BY <1>2, <1>3, <1>4, <1>5, <1>6

\* There are such keys: the smallest sets.
LEMMA KeysExist ==
  ASSUME NEW only
  PROVE  \E g : g = [t \in Type |-> KeysBy(only, g, t)]
<1> DEFINE Unfolds(g) == g = [t \in Type |-> KeysBy(only, g, t)]
           Keys == Seq(KeyPart)
           Closed(g) == \A t \in Type : KeysBy(only, g, t) \subseteq g[t]
           least == [t \in Type |-> { k \in Keys : \A g \in [Type -> SUBSET Keys] :
                                        Closed(g) => k \in g[t] }]
<1>0. ASSUME NEW t \in Type
      PROVE  /\ Elem[t] \in Type
             /\ \A f \in ToSet(Fields[t]) : f.type \in Type /\ JsonName(f) \in KeyPart
             /\ \A n \in ToSet(Index) : n \in KeyPart
  <2>1. ASSUME NEW f \in ToSet(Fields[t]) PROVE f.type \in Type /\ JsonName(f) \in KeyPart
    <3>1. f \in Field
      BY FieldsLemma
    <3>2. "" \in KeyPart
      BY IndexLemma
    <3> QED BY <3>1, <3>2 DEF Field, JsonName, KeyPart
  <2>2. \A n \in ToSet(Index) : n \in KeyPart
    BY IndexLemma
  <2> QED BY <2>1, <2>2, KindLemma
<1>1. ASSUME NEW g, NEW h, NEW t \in Type, \A p \in Type : g[p] \subseteq h[p]
      PROVE  KeysBy(only, g, t) \subseteq KeysBy(only, h, t)
  <2>1. CASE Kind[t] \in Primitive \cup {"map", "other"}
    BY <2>1, KeysByKind
  <2>2. CASE Kind[t] = "pointer"
    BY <1>0, <1>1, <2>2, KeysByKind
  <2>3. CASE Kind[t] = "slice"
    <3>1. \A n : Further(n, g[Elem[t]]) \subseteq Further(n, h[Elem[t]])
      BY <1>0, <1>1 DEF Further
    <3> QED BY <2>3, <3>1, KeysByKind
  <2>4. CASE Kind[t] = "struct"
    <3>1. \A f \in ToSet(Fields[t]) :
            Further(JsonName(f), g[f.type]) \subseteq Further(JsonName(f), h[f.type])
      BY <1>0, <1>1 DEF Further
    <3> QED BY <2>4, <3>1, KeysByKind
  <2> QED BY <2>1, <2>2, <2>3, <2>4, KindLemma
<1>2. ASSUME NEW g, NEW t \in Type, \A p \in Type : g[p] \subseteq Keys
      PROVE  KeysBy(only, g, t) \subseteq Keys
  <2>1. ASSUME NEW n \in KeyPart, NEW S \in SUBSET Keys PROVE Further(n, S) \subseteq Keys
    <3>1. <<n>> \in Seq(KeyPart)
      OBVIOUS
    <3>2. \A k \in S : <<n>> \o k \in Keys
      BY <3>1, ConcatProperties
    <3> QED BY <3>2 DEF Further
  <2>2. <<>> \in Keys
    OBVIOUS
  <2> HIDE DEF Keys
  <2>3. CASE Kind[t] \in Primitive \cup {"map", "other"}
    BY <2>2, <2>3, KeysByKind
  <2>4. CASE Kind[t] = "pointer"
    BY <1>0, <1>2, <2>4, KeysByKind
  <2>5. CASE Kind[t] = "slice"
    <3>1. \A n \in ToSet(Index) : Further(n, g[Elem[t]]) \subseteq Keys
      BY <1>0, <1>2, <2>1
    <3> QED BY <2>5, <3>1, KeysByKind
  <2>6. CASE Kind[t] = "struct"
    <3>1. \A f \in ToSet(Fields[t]) : Further(JsonName(f), g[f.type]) \subseteq Keys
      BY <1>0, <1>2, <2>1
    <3> QED BY <2>6, <3>1, KeysByKind
  <2> QED BY <2>3, <2>4, <2>5, <2>6, KindLemma
<1> HIDE DEF Keys
<1>3. least \in [Type -> SUBSET Keys]
  OBVIOUS
<1>4. Closed(least)
  <2>1. ASSUME NEW t \in Type, NEW g \in [Type -> SUBSET Keys], Closed(g)
        PROVE  KeysBy(only, least, t) \subseteq g[t]
    <3>1. \A p \in Type : least[p] \subseteq g[p]
      BY <2>1
    <3>2. KeysBy(only, least, t) \subseteq KeysBy(only, g, t)
      BY <1>1, <3>1
    <3> QED BY <2>1, <3>2
  <2>2. \A t \in Type : KeysBy(only, least, t) \subseteq Keys
    BY <1>2, <1>3
  <2> QED BY <2>1, <2>2
<1>5. ASSUME NEW t \in Type PROVE least[t] \subseteq KeysBy(only, least, t)
  <2> DEFINE g == [s \in Type |-> KeysBy(only, least, s)]
  <2>1. g \in [Type -> SUBSET Keys]
    BY <1>2, <1>3
  <2>2. \A s \in Type : g[s] \subseteq least[s]
    BY <1>4
  <2>3. Closed(g)
    <3>1. ASSUME NEW s \in Type PROVE KeysBy(only, g, s) \subseteq KeysBy(only, least, s)
      BY <1>1, <2>2
    <3> QED BY <3>1
  <2> HIDE DEF Closed
  <2> QED BY <2>1, <2>3
<1>6. Unfolds(least)
  BY <1>3, <1>4, <1>5
<1> HIDE DEF least
<1> QED BY <1>6

\* The values below a type are those below its parts, one name further down.
LEMMA LeavesUnfold ==
  ASSUME NEW only
  PROVE  \A t \in Type : Leaves(only)[t] = KeysBy(only, Leaves(only), t)
<1> DEFINE Unfolds(g) == g = [t \in Type |-> KeysBy(only, g, t)]
<1>1. Unfolds(CHOOSE g : Unfolds(g))
  BY KeysExist
<1>2. Leaves(only) = CHOOSE g : Unfolds(g)
  BY DEF Leaves, KeysBy
<1> HIDE DEF Unfolds
<1>3. Unfolds(Leaves(only))
  BY <1>1, <1>2
<1> QED BY <1>3 DEF Unfolds

\* Of some numbers, one is the smallest.
LEMMA SmallestNumber ==
  ASSUME NEW S \in SUBSET Nat, S # {}
  PROVE  \E m \in S : \A n \in S : m <= n
<1>1. PICK m \in S : \A n \in S : ~ (<<n, m>> \in OpToRel(<, Nat))
  BY NatLessThanWellFounded, WFMin
<1>2. \A n \in S : ~(n < m)
  BY <1>1 DEF OpToRel
<1> QED BY <1>2

\* The values on the way down key k, as far as n names.
Steps(g, t, k, n) ==
  g = [i \in 0..n |-> IF i = 0 THEN {t} ELSE UNION { Into(s, k[i]) : s \in g[i - 1] }]

\* There are such values ...
LEMMA StepsExist ==
  ASSUME NEW t, NEW k
  PROVE  \A n \in Nat : \E g : Steps(g, t, k, n)
<1> DEFINE Bad == { n \in Nat : ~ \E g : Steps(g, t, k, n) }
<1>1. \E g : Steps(g, t, k, 0)
  <2> DEFINE g == [i \in 0..0 |-> {t}]
  <2>1. Steps(g, t, k, 0)
    BY DEF Steps
  <2> QED BY <2>1
<1>2. ASSUME NEW n \in Nat, NEW g, Steps(g, t, k, n)
      PROVE  \E h : Steps(h, t, k, n + 1)
  <2> DEFINE h == [i \in 0..(n + 1) |->
                     IF i <= n THEN g[i] ELSE UNION { Into(s, k[i]) : s \in g[i - 1] }]
  <2>1. \A i \in 0..n : g[i] = IF i = 0 THEN {t} ELSE UNION { Into(s, k[i]) : s \in g[i - 1] }
    BY <1>2 DEF Steps
  <2>2. ASSUME NEW i \in 0..(n + 1)
        PROVE  h[i] = IF i = 0 THEN {t} ELSE UNION { Into(s, k[i]) : s \in h[i - 1] }
    <3>1. CASE i = 0
      <4>1. 0 \in 0..n /\ 0 \in 0..(n + 1)
        OBVIOUS
      <4>2. h[0] = g[0]
        BY <4>1
      <4>3. g[0] = {t}
        BY <2>1, <4>1
      <4> QED BY <3>1, <4>2, <4>3
    <3>2. CASE i # 0
      <4>1. i - 1 \in 0..(n + 1) /\ i - 1 <= n
        BY <3>2
      <4>2. h[i - 1] = g[i - 1]
        BY <4>1
      <4>3. i \in 0..n \/ ~(i <= n)
        OBVIOUS
      <4> QED BY <2>1, <3>2, <4>2, <4>3
    <3> QED BY <3>1, <3>2
  <2>3. Steps(h, t, k, n + 1)
    <3>1. h = [i \in 0..(n + 1) |-> h[i]]
      OBVIOUS
    <3> HIDE DEF h
    <3> QED BY <2>2, <3>1 DEF Steps
  <2> QED BY <2>3
<1>3. ASSUME Bad # {} PROVE FALSE
  <2>1. PICK n \in Bad : \A m \in Bad : n <= m
    BY <1>3, SmallestNumber
  <2>2. n \in Nat \ {0}
    BY <1>1
  <2>3. n - 1 \in Nat /\ n - 1 \notin Bad
    BY <2>1, <2>2
  <2>4. PICK g : Steps(g, t, k, n - 1)
    BY <2>3
  <2>5. (n - 1) + 1 = n
    BY <2>2
  <2> QED BY <1>2, <2>3, <2>4, <2>5
<1> QED BY <1>3

\* ... and no others.
LEMMA StepsUnique ==
  ASSUME NEW t, NEW k, NEW l, NEW n \in Nat, NEW m \in Nat, n <= m,
         \A i \in 1..n : k[i] = l[i],
         NEW g, Steps(g, t, k, n), NEW h, Steps(h, t, l, m)
  PROVE  g[n] = h[n]
<1> DEFINE Bad == { i \in 0..n : g[i] # h[i] }
<1>0. 0..n \subseteq 0..m
  OBVIOUS
<1>1. /\ \A i \in 0..n : g[i] = IF i = 0 THEN {t} ELSE UNION { Into(s, k[i]) : s \in g[i - 1] }
      /\ \A i \in 0..n : h[i] = IF i = 0 THEN {t} ELSE UNION { Into(s, l[i]) : s \in h[i - 1] }
  BY <1>0 DEF Steps
<1>2. ASSUME Bad # {} PROVE FALSE
  <2>1. PICK i \in Bad : \A j \in Bad : i <= j
    <3>1. Bad \in SUBSET Nat
      OBVIOUS
    <3> QED BY <1>2, <3>1, SmallestNumber
  <2>2. i # 0
    BY <1>1
  <2>3. i - 1 \in 0..n /\ i \in 1..n /\ i - 1 \notin Bad
    BY <2>1, <2>2
  <2>4. g[i - 1] = h[i - 1] /\ k[i] = l[i]
    BY <2>3
  <2>5. g[i] = UNION { Into(s, k[i]) : s \in g[i - 1] }
    BY <1>1, <2>2
  <2>6. h[i] = UNION { Into(s, l[i]) : s \in h[i - 1] }
    BY <1>1, <2>2
  <2>7. g[i] = h[i]
    BY <2>4, <2>5, <2>6
  <2> QED BY <2>7
<1> QED BY <1>2

\* What a key of no names addresses, and what one more name leads to.
LEMMA AddressedUnfolds ==
  ASSUME NEW t
  PROVE  /\ Addressed(t, <<>>) = {t}
         /\ \A k \in Seq(KeyPart), n \in KeyPart : \A u :
              u \in Addressed(t, Append(k, n)) <=> \E s \in Addressed(t, k) : u \in Into(s, n)
<1>1. ASSUME NEW k, Len(k) \in Nat
      PROVE  \E g : Steps(g, t, k, Len(k)) /\ Addressed(t, k) = g[Len(k)]
  <2> DEFINE way == CHOOSE g : Steps(g, t, k, Len(k))
  <2>1. Steps(way, t, k, Len(k))
    BY <1>1, StepsExist
  <2>2. Addressed(t, k) = way[Len(k)]
    BY DEF Addressed, Steps
  <2> QED BY <2>1, <2>2
<1>2. Addressed(t, <<>>) = {t}
  <2>1. PICK g : Steps(g, t, <<>>, 0) /\ Addressed(t, <<>>) = g[0]
    BY <1>1
  <2> QED BY <2>1 DEF Steps
<1>3. ASSUME NEW k \in Seq(KeyPart), NEW n \in KeyPart
      PROVE  Addressed(t, Append(k, n)) = UNION { Into(s, n) : s \in Addressed(t, k) }
  <2> DEFINE l == Append(k, n)
             m == Len(k)
  <2>1. m \in Nat /\ Len(l) = m + 1 /\ l[m + 1] = n /\ \A i \in 1..m : l[i] = k[i]
    OBVIOUS
  <2> HIDE DEF l, m
  <2>2. PICK g : Steps(g, t, k, m) /\ Addressed(t, k) = g[m]
    BY <1>1, <2>1 DEF m
  <2>3. PICK h : Steps(h, t, l, m + 1) /\ Addressed(t, l) = h[m + 1]
    BY <1>1, <2>1
  <2>4. g[m] = h[m]
    BY <2>1, <2>2, <2>3, StepsUnique
  <2>5. h[m + 1] = UNION { Into(s, l[m + 1]) : s \in h[m] }
    <3>1. m + 1 \in 0..(m + 1) /\ m + 1 # 0 /\ (m + 1) - 1 = m
      BY <2>1
    <3> QED BY <2>3, <3>1 DEF Steps
  <2> QED BY <2>1, <2>2, <2>3, <2>4, <2>5 DEF l
<1> QED BY <1>2, <1>3

-----------------------------------------------------------------------------
(* What one call does.                                                     *)

Works == ToSet(todo)

Rest == ToSet(Tail(todo))

\* The names that a key stands for.
Path(key) == IF key = NoKey THEN <<>> ELSE key

\* The calls of a struct, a slice that is not of primitive values.
FieldCalls ==
  { To("setResult", f.type, Append(Path(Now.key), KeyName(f))) : f \in ToSet(Fields[Now.type]) }

ElemCalls == { To("flatten", Elem[Now.type], Append(Now.key, n)) : n \in ToSet(Index) }

ElemKeys == { Append(Now.key, n) : n \in ToSet(Index) }

Overflows ==
  /\ Now.depth = MaxDepth
  /\ answer' = Without("overflow")
  /\ UNCHANGED <<input, todo, result>>

\* The calls S take its place.
GoesOn(S) ==
  /\ Now.depth = MaxDepth => S = {}
  /\ todo' \in Seq(Work) /\ Works' = S \cup Rest
  /\ UNCHANGED <<input, result, answer>>

\* It calls S, one after the other, if the stack is not full.
Makes(S) == (S # {} /\ Overflows) \/ GoesOn(S)

Puts(keys) ==
  /\ todo' \in Seq(Work) /\ Works' = Rest
  /\ DOMAIN result' = DOMAIN result \cup keys
  /\ \A k \in DOMAIN result' :
       result'[k] = IF k \in keys THEN Elem[Now.type] ELSE result[k]
  /\ UNCHANGED <<input, answer>>

\* What two sequences hold together.
LEMMA ConcatElements ==
  ASSUME NEW S, NEW s \in Seq(S), NEW u \in Seq(S)
  PROVE  s \o u \in Seq(S) /\ ToSet(s \o u) = ToSet(s) \cup ToSet(u)
<1>1. /\ s \o u \in Seq(S) /\ Len(s \o u) = Len(s) + Len(u)
      /\ \A i \in 1..(Len(s) + Len(u)) :
           (s \o u)[i] = IF i <= Len(s) THEN s[i] ELSE u[i - Len(s)]
  BY ConcatProperties
<1>2. /\ Len(s) \in Nat /\ Len(u) \in Nat /\ DOMAIN s = 1..Len(s) /\ DOMAIN u = 1..Len(u)
      /\ DOMAIN (s \o u) = 1..(Len(s) + Len(u))
  BY <1>1, LenProperties
<1> DEFINE both == s \o u
<1> HIDE DEF both
<1>3. ASSUME NEW i \in 1..(Len(s) + Len(u)) PROVE both[i] \in ToSet(s) \cup ToSet(u)
  <2>1. CASE i <= Len(s)
    <3>1. i \in DOMAIN s /\ both[i] = s[i]
      BY <1>1, <1>2, <2>1 DEF both
    <3> QED BY <3>1 DEF ToSet
  <2>2. CASE ~(i <= Len(s))
    <3>1. i - Len(s) \in DOMAIN u /\ both[i] = u[i - Len(s)]
      BY <1>1, <1>2, <2>2 DEF both
    <3> QED BY <3>1 DEF ToSet
  <2> QED BY <2>1, <2>2
<1>4. ASSUME NEW i \in DOMAIN s PROVE s[i] \in ToSet(both)
  <2>1. i \in DOMAIN both /\ both[i] = s[i]
    BY <1>1, <1>2 DEF both
  <2> QED BY <2>1 DEF ToSet
<1>5. ASSUME NEW i \in DOMAIN u PROVE u[i] \in ToSet(both)
  <2>1. Len(s) + i \in 1..(Len(s) + Len(u)) /\ ~(Len(s) + i <= Len(s)) /\ (Len(s) + i) - Len(s) = i
    BY <1>2
  <2>2. Len(s) + i \in DOMAIN both /\ both[Len(s) + i] = u[i]
    BY <1>1, <1>2, <2>1 DEF both
  <2> QED BY <2>2 DEF ToSet
<1>6. DOMAIN both = 1..(Len(s) + Len(u))
  BY <1>2 DEF both
<1>7. ToSet(both) = ToSet(s) \cup ToSet(u)
  BY <1>3, <1>4, <1>5, <1>6 DEF ToSet
<1> QED BY <1>1, <1>7 DEF both

\* The calls that are to be made are the next one and the rest.
LEMMA WorksLemma ==
  ASSUME todo \in Seq(Work), todo # <<>>
  PROVE  /\ Now \in Work /\ Now \in Works /\ Works = {Now} \cup Rest /\ Rest \subseteq Work
         /\ Tail(todo) \in Seq(Work)
         /\ \A new \in Seq(Work) : /\ new \o Tail(todo) \in Seq(Work)
                                   /\ ToSet(new \o Tail(todo)) = ToSet(new) \cup Rest
<1>1. /\ Len(todo) \in Nat \ {0} /\ DOMAIN todo = 1..Len(todo)
      /\ \A i \in 1..Len(todo) : todo[i] \in Work
  BY EmptySeq, LenProperties, ElementOfSeq
<1>2. Now = todo[1]
  BY DEF Now
<1>3. /\ Tail(todo) \in Seq(Work) /\ Len(Tail(todo)) = Len(todo) - 1
      /\ \A i \in 1..(Len(todo) - 1) : Tail(todo)[i] = todo[i + 1]
  BY <1>1
<1>4. DOMAIN Tail(todo) = 1..(Len(todo) - 1)
  BY <1>3, LenProperties
<1>5. Works = {Now} \cup Rest
  <2>1. ASSUME NEW i \in 1..Len(todo) PROVE todo[i] \in {Now} \cup Rest
    <3>1. CASE i = 1
      BY <1>2, <3>1
    <3>2. CASE i # 1
      <4>1. i - 1 \in 1..(Len(todo) - 1) /\ (i - 1) + 1 = i
        BY <1>1, <3>2
      <4>2. Tail(todo)[i - 1] = todo[i]
        BY <1>3, <4>1
      <4> QED BY <1>4, <4>1, <4>2 DEF Rest, ToSet
    <3> QED BY <3>1, <3>2
  <2>2. ASSUME NEW i \in 1..(Len(todo) - 1) PROVE Tail(todo)[i] \in Works
    <3>1. i + 1 \in DOMAIN todo /\ Tail(todo)[i] = todo[i + 1]
      BY <1>1, <1>3
    <3> QED BY <3>1 DEF Works, ToSet
  <2>3. Now \in Works
    <3>1. 1 \in DOMAIN todo
      BY <1>1
    <3> QED BY <1>2, <3>1 DEF Works, ToSet
  <2> QED BY <1>1, <1>4, <2>1, <2>2, <2>3 DEF Works, Rest, ToSet
<1>6. Works \subseteq Work
  BY <1>1 DEF Works, ToSet
<1>7. ASSUME NEW new \in Seq(Work)
      PROVE  /\ new \o Tail(todo) \in Seq(Work)
             /\ ToSet(new \o Tail(todo)) = ToSet(new) \cup Rest
  <2> DEFINE rest == Tail(todo)
  <2>1. rest \in Seq(Work)
    BY <1>3
  <2> HIDE DEF rest
  <2>2. new \o rest \in Seq(Work) /\ ToSet(new \o rest) = ToSet(new) \cup ToSet(rest)
    BY <2>1, ConcatElements
  <2> QED BY <2>2 DEF rest, Rest
<1> QED BY <1>3, <1>5, <1>6, <1>7

\* One call, as what it leaves to be made and what it puts into the map.
LEMMA ToWork ==
  ASSUME Now \in Work
  PROVE  /\ Now.type \in Type /\ Now.key \in Seq(KeyPart) /\ Now.depth \in Nat
         /\ Path(Now.key) \in Seq(KeyPart)
         /\ \A call \in {"flatten", "setResult"}, t \in Type, key \in Seq(KeyPart) :
              To(call, t, key) \in Work
         /\ \A t \in Type : Elem[t] \in Type
         /\ \A n \in KeyPart : /\ Append(Now.key, n) \in Seq(KeyPart)
                               /\ Append(Path(Now.key), n) \in Seq(KeyPart)
<1>1. Now.type \in Type /\ Now.key \in Seq(KeyPart) /\ Now.depth \in Nat
  BY DEF Work
<1>2. Path(Now.key) \in Seq(KeyPart)
  BY <1>1 DEF Path
<1>3. \A call \in {"flatten", "setResult"}, t \in Type, key \in Seq(KeyPart) :
        To(call, t, key) \in Work
  BY <1>1 DEF To, Work
<1>4. \A n \in KeyPart : /\ Append(Now.key, n) \in Seq(KeyPart)
                         /\ Append(Path(Now.key), n) \in Seq(KeyPart)
  BY <1>1, <1>2
<1> QED BY <1>1, <1>2, <1>3, <1>4, KindLemma

LEMMA CallsStep ==
  ASSUME todo \in Seq(Work), todo # <<>>, NEW new \in Seq(Work), Calls(new)
  PROVE  Makes(ToSet(new))
<1>1. CASE new # <<>> /\ Now.depth = MaxDepth
  <2>1. DOMAIN new = 1..Len(new) /\ Len(new) \in Nat \ {0}
    BY <1>1, EmptySeq, LenProperties
  <2>2. 1 \in DOMAIN new
    BY <2>1
  <2>3. new[1] \in ToSet(new)
    BY <2>2 DEF ToSet
  <2> QED BY <1>1, <2>3 DEF Calls, Overflows, Makes
<1>2. CASE ~(new # <<>> /\ Now.depth = MaxDepth)
  <2>1. todo' = new \o Tail(todo) /\ UNCHANGED <<input, result, answer>>
    BY <1>2 DEF Calls
  <2>2. todo' \in Seq(Work) /\ Works' = ToSet(new) \cup Rest
    BY <2>1, WorksLemma DEF Works
  <2>3. new = <<>> => ToSet(new) = {}
    BY DEF ToSet
  <2> QED BY <1>2, <2>1, <2>2, <2>3 DEF GoesOn, Makes
<1> QED BY <1>1, <1>2

LEMMA WritesStep ==
  ASSUME todo \in Seq(Work), todo # <<>>, NEW keys, Writes(keys, Elem[Now.type])
  PROVE  Puts(keys)
<1>1. todo' = Tail(todo)
  BY DEF Writes
<1>2. todo' \in Seq(Work) /\ Works' = Rest
  BY <1>1, WorksLemma DEF Works, Rest
<1> QED BY <1>2 DEF Writes, Puts

\* flattenValueStruct calls setResult for each field, with the key of the field.
LEMMA FlattenStructStep ==
  ASSUME todo \in Seq(Work), FlattenStruct
  PROVE  Makes(FieldCalls)
<1> DEFINE field(i) == To("setResult", Fields[Now.type][i].type,
                          Append(Path(Now.key), KeyName(Fields[Now.type][i])))
           new == [i \in DOMAIN Fields[Now.type] |-> field(i)]
<1>1. todo # <<>>
  BY DEF FlattenStruct, At
<1>2. Now \in Work /\ Now.type \in Type
  BY <1>1, WorksLemma, ToWork
<1>3. \A f \in Field : KeyName(f) \in KeyPart
  <2>1. "" \in KeyPart
    BY IndexLemma
  <2> QED BY <2>1 DEF Field, KeyName, KeyPart
<1>4. \A i \in DOMAIN Fields[Now.type] : field(i) \in Work
  BY <1>2, <1>3, FieldsLemma, ToWork DEF Field
<1>5. \A name \in KeyPart : Under(Now.key, name) = Append(Path(Now.key), name)
  <2>1. \A name \in KeyPart : Append(<<>>, name) = <<name>>
    OBVIOUS
  <2>2. CASE Now.key = NoKey
    BY <2>1, <2>2 DEF Under, Path
  <2>3. CASE Now.key # NoKey
    BY <2>3 DEF Under, Path
  <2> QED BY <2>2, <2>3
<1>6. Calls(new)
  <2>1. \A i \in DOMAIN Fields[Now.type] :
          Under(Now.key, KeyName(Fields[Now.type][i])) =
          Append(Path(Now.key), KeyName(Fields[Now.type][i]))
    BY <1>2, <1>3, <1>5, FieldsLemma
  <2>2. new = [ i \in DOMAIN Fields[Now.type] |->
                  LET f == Fields[Now.type][i]
                  IN  To("setResult", f.type, Under(Now.key, KeyName(f))) ]
    BY <2>1
  <2> QED BY <2>2 DEF FlattenStruct
<1>7. new \in Seq(Work)
  <2>1. DOMAIN Fields[Now.type] = 1..Len(Fields[Now.type]) /\ Len(Fields[Now.type]) \in Nat
    BY <1>2, FieldsLemma, LenProperties
  <2> HIDE DEF field
  <2> QED BY <1>4, <2>1
<1>8. ToSet(new) = FieldCalls
  BY DEF ToSet, FieldCalls
<1> HIDE DEF new
<1> QED BY <1>1, <1>6, <1>7, <1>8, CallsStep

\* flatten of a slice calls setResult with the same key.
LEMMA FlattenSliceStep ==
  ASSUME todo \in Seq(Work), FlattenSlice
  PROVE  Makes({To("setResult", Now.type, Now.key)})
<1> DEFINE new == <<To("setResult", Now.type, Now.key)>>
<1>1. todo # <<>> /\ Calls(new)
  BY DEF FlattenSlice, At
<1>2. Now \in Work
  BY <1>1, WorksLemma
<1>3. new \in Seq(Work)
  BY <1>2, ToWork
<1>4. ToSet(new) = {To("setResult", Now.type, Now.key)}
  BY DEF ToSet
<1> HIDE DEF new
<1> QED BY <1>1, <1>3, <1>4, CallsStep

\* Maps and plain fields make no call.
LEMMA NoCallStep ==
  ASSUME todo \in Seq(Work), DrainMap \/ SkipPlain
  PROVE  GoesOn({})
<1>1. todo # <<>> /\ Calls(<<>>)
  BY DEF DrainMap, SkipPlain, At
<1>2. todo' = <<>> \o Tail(todo) /\ UNCHANGED <<input, result, answer>>
  BY <1>1 DEF Calls
<1>3. <<>> \in Seq(Work)
  OBVIOUS
<1>4. todo' \in Seq(Work) /\ Works' = ToSet(<<>>) \cup Rest
  BY <1>1, <1>2, <1>3, WorksLemma DEF Works
<1>5. ToSet(<<>>) = {}
  BY DEF ToSet
<1> QED BY <1>2, <1>4, <1>5 DEF GoesOn

\* A pointer to a primitive value is written, another one is flattened under its key.
LEMMA SetPointerStep ==
  ASSUME todo \in Seq(Work), SetPointer
  PROVE  IF Kind[Elem[Now.type]] \in Primitive THEN Puts({Now.key})
         ELSE Makes({To("flatten", Elem[Now.type], Now.key)})
<1> DEFINE new == <<To("flatten", Elem[Now.type], Now.key)>>
<1>1. /\ todo # <<>>
      /\ IF Kind[Elem[Now.type]] \in Primitive THEN Writes({Now.key}, Elem[Now.type])
                                               ELSE Calls(new)
  BY DEF SetPointer, At
<1>2. Now \in Work
  BY <1>1, WorksLemma
<1>3. new \in Seq(Work)
  BY <1>2, ToWork
<1>4. ToSet(new) = {To("flatten", Elem[Now.type], Now.key)}
  BY DEF ToSet
<1> HIDE DEF new
<1> QED BY <1>1, <1>3, <1>4, CallsStep, WritesStep

\* The elements of a slice are written or flattened, each under its index.
LEMMA SetSliceStep ==
  ASSUME todo \in Seq(Work), SetSlice
  PROVE  IF Kind[Elem[Now.type]] \in Primitive THEN Puts(ElemKeys)
         ELSE Makes(ElemCalls)
<1> DEFINE elem(i) == To("flatten", Elem[Now.type], Append(Now.key, Index[i]))
           new == [i \in 1..4 |-> elem(i)]
           keys == {Append(Now.key, Index[i]) : i \in 1..4}
<1>1. /\ todo # <<>>
      /\ IF Kind[Elem[Now.type]] \in Primitive THEN Writes(keys, Elem[Now.type]) ELSE Calls(new)
  BY DEF SetSlice, At
<1>2. Now \in Work
  BY <1>1, WorksLemma
<1>3. \A i \in 1..4 : elem(i) \in Work
  BY <1>2, ToWork, IndexLemma
<1>4. ToSet(new) = ElemCalls
  <2>1. ToSet(new) = {elem(i) : i \in 1..4}
    BY DEF ToSet
  <2>2. ToSet(Index) = {Index[i] : i \in 1..4}
    BY IndexLemma
  <2> QED BY <2>1, <2>2 DEF ElemCalls
<1>5. new \in Seq(Work)
  <2> HIDE DEF elem
  <2> QED BY <1>3
<1>6. keys = ElemKeys
  BY IndexLemma DEF ElemKeys
<1> HIDE DEF new, keys
<1> QED BY <1>1, <1>4, <1>5, <1>6, CallsStep, WritesStep

-----------------------------------------------------------------------------
(* The types of the variables.                                             *)

\* A call that takes place, whichever it is.
OneCall ==
  \/ FlattenStruct \/ FlattenSlice \/ DrainMap \/ FlattenPanics
  \/ SetPointer \/ SetSlice \/ SkipPlain

\* What comes of it.
LEMMA OneCallStep ==
  ASSUME todo \in Seq(Work), OneCall
  PROVE  /\ Flattening /\ todo # <<>> /\ Now \in Work /\ input' = input
         /\ \/ Overflows
            \/ FlattenPanics
            \/ \E S : GoesOn(S)
            \/ /\ Kind[Elem[Now.type]] \in Primitive
               /\ \E keys \in SUBSET Seq(KeyPart) : Puts(keys)
<1>1. Flattening /\ todo # <<>>
  BY DEF OneCall, FlattenStruct, FlattenSlice, DrainMap, FlattenPanics, SetPointer, SetSlice,
         SkipPlain, At
<1>2. Now \in Work
  BY <1>1, WorksLemma
<1>3. {Now.key} \subseteq Seq(KeyPart) /\ ElemKeys \subseteq Seq(KeyPart)
  BY <1>2, ToWork, IndexLemma DEF ElemKeys
<1>4. CASE FlattenStruct
  BY <1>1, <1>2, <1>4, FlattenStructStep DEF Makes, Overflows, GoesOn
<1>5. CASE FlattenSlice
  BY <1>1, <1>2, <1>5, FlattenSliceStep DEF Makes, Overflows, GoesOn
<1>6. CASE DrainMap \/ SkipPlain
  BY <1>1, <1>2, <1>6, NoCallStep DEF GoesOn
<1>7. CASE FlattenPanics
  BY <1>1, <1>2, <1>7 DEF FlattenPanics
<1>8. CASE SetPointer
  BY <1>1, <1>2, <1>3, <1>8, SetPointerStep DEF Makes, Overflows, GoesOn, Puts
<1>9. CASE SetSlice
  BY <1>1, <1>2, <1>3, <1>9, SetSliceStep DEF Makes, Overflows, GoesOn, Puts
<1> QED BY <1>4, <1>5, <1>6, <1>7, <1>8, <1>9 DEF OneCall

\* The values that are written, and the parameters they become, are of types that
\* can be documented.
LEMMA InitTypes == Init => TypeOK
<1> SUFFICES ASSUME Init PROVE TypeOK
  OBVIOUS
<1>1. todo \in Seq(Work)
  BY DEF Init
<1> QED BY <1>1 DEF Init, TypeOK, Empty

LEMMA StepTypes == TypeOK /\ [Next]_vars => TypeOK'
<1> SUFFICES ASSUME TypeOK, [Next]_vars PROVE TypeOK'
  OBVIOUS
<1>0. <<>> \in Seq(Work)
  OBVIOUS
<1>1. ASSUME NEW how \in {"error", "panic", "overflow"}
      PROVE  /\ Without(how).how = how /\ DOMAIN Without(how).parameters = {}
  BY DEF Without, Empty
<1>2. ASSUME NEW t \in Input, Open(t) PROVE TypeOK'
  <2>1. t \in Type
    BY TypeAssumption
  <2>2. result' = result
    BY <1>2 DEF Open
  <2>3. CASE Kind[t] = "struct"
    <3>1. [call |-> "flatten", type |-> t, key |-> NoKey, depth |-> 1] \in Work
      <4>1. NoKey \in Seq(KeyPart)
        <5>1. \A n \in KeyPart : <<n>> \in Seq(KeyPart)
          OBVIOUS
        <5> QED BY <5>1, IndexLemma DEF NoKey
      <4> QED BY <2>1, <4>1 DEF Work
    <3>2. \A w \in Work : <<w>> \in Seq(Work)
      OBVIOUS
    <3>3. todo' \in Seq(Work) /\ answer' = answer /\ input' = t
      BY <1>2, <2>3, <3>1, <3>2 DEF Open
    <3> QED BY <2>1, <2>2, <3>3 DEF TypeOK
  <2>4. CASE Kind[t] # "struct"
    <3>1. answer' = Without("error") /\ todo' = todo /\ input' = t
      BY <1>2, <2>4 DEF Open
    <3> QED BY <1>1, <2>1, <2>2, <3>1 DEF TypeOK
  <2> QED BY <2>3, <2>4
<1>3. CASE Close
  BY <1>0, <1>3 DEF Close, TypeOK, Empty
<1>4. CASE Finish
  <2>1. UNCHANGED <<input, todo, result>>
    BY <1>4 DEF Finish
  <2>2. CASE \E k \in DOMAIN result : Kind[result[k]] = "word"
    <3>1. answer' = Without("panic")
      BY <1>4, <2>2 DEF Finish
    <3> QED BY <1>1, <2>1, <3>1 DEF TypeOK
  <2>3. CASE ~ \E k \in DOMAIN result : Kind[result[k]] = "word"
    <3> DEFINE parameters == [ k \in DOMAIN result |-> [type |-> SwaggerType[Kind[result[k]]],
                                                        enum |-> result[k] \in Own] ]
    <3>1. answer' = With(parameters)
      BY <1>4, <2>3 DEF Finish
    <3>2. \A k \in DOMAIN result : Kind[result[k]] \in DOMAIN SwaggerType
      BY <2>3 DEF TypeOK, Primitive
    <3>3. ASSUME NEW k \in DOMAIN result PROVE parameters[k] \in Parameter
      <4>1. SwaggerType[Kind[result[k]]] \in {SwaggerType[n] : n \in DOMAIN SwaggerType}
        BY <3>2
      <4> QED BY <4>1 DEF Parameter
    <3> HIDE DEF parameters
    <3>4. DOMAIN parameters = DOMAIN result
      BY DEF parameters
    <3>5. answer'.how = "returned" /\ answer'.parameters = parameters
      BY <3>1 DEF With
    <3> QED BY <2>1, <3>3, <3>4, <3>5 DEF TypeOK
  <2> QED BY <2>2, <2>3
<1>5. CASE OneCall
  <2>1. todo \in Seq(Work) /\ input' = input /\ Now \in Work /\ answer = None
    BY <1>5, OneCallStep DEF TypeOK, Flattening
  <2>2. CASE Overflows
    BY <1>1, <2>2 DEF Overflows, TypeOK
  <2>3. CASE FlattenPanics
    BY <1>1, <2>3 DEF FlattenPanics, TypeOK
  <2>4. ASSUME NEW S, GoesOn(S) PROVE TypeOK'
    BY <2>4 DEF GoesOn, TypeOK
  <2>5. ASSUME NEW keys \in SUBSET Seq(KeyPart), Puts(keys),
               Kind[Elem[Now.type]] \in Primitive
        PROVE  TypeOK'
    <3>1. Elem[Now.type] \in Type
      BY <2>1, ToWork
    <3>2. /\ DOMAIN result' \subseteq Seq(KeyPart)
          /\ \A k \in DOMAIN result' : result'[k] \in Type /\ Kind[result'[k]] \in Primitive
      BY <2>5, <3>1 DEF Puts, TypeOK
    <3> QED BY <2>1, <2>5, <3>2 DEF Puts, TypeOK
  <2> QED BY <1>5, <2>1, <2>2, <2>3, <2>4, <2>5, OneCallStep
<1>6. CASE UNCHANGED vars
  BY <1>6 DEF vars, TypeOK
<1> QED BY <1>2, <1>3, <1>4, <1>5, <1>6 DEF Next, Step, OneCall

\* The calls that wait, the values in the map and the answer keep their types.
THEOREM TypeCorrect == Spec => []TypeOK
BY InitTypes, StepTypes, PTL DEF Spec

-----------------------------------------------------------------------------
(* Where calls are made.                                                   *)

\* flatten is for what has parts, and only the call for the whole input has no key.
\* Between two conversions nothing is left.
Placed ==
  /\ \A w \in Works : /\ w.call = "flatten" => Kind[w.type] \notin Primitive
                      /\ w.key # <<>>
                      /\ w.key = NoKey => w.call = "flatten" /\ Kind[w.type] = "struct"
  /\ input = None => Works = {} /\ DOMAIN result = {} /\ answer = None

\* What was returned is the map.
Answered ==
  Returned =>
    /\ input # None
    /\ DOMAIN answer.parameters = DOMAIN result
    /\ \A k \in DOMAIN result :
         answer.parameters[k] = [type |-> SwaggerType[Kind[result[k]]], enum |-> result[k] \in Own]

\* The first call of a conversion.
LEMMA OpenStep ==
  ASSUME NEW t \in Input, Open(t)
  PROVE  /\ t \in Type /\ t # None /\ input' = t /\ result' = result
         /\ IF Kind[t] = "struct"
            THEN /\ Works' = {[call |-> "flatten", type |-> t, key |-> NoKey, depth |-> 1]}
                 /\ answer' = answer
            ELSE todo' = todo /\ answer' = Without("error")
<1>1. t \in Type /\ t # None
  BY TypeAssumption
<1>2. CASE Kind[t] = "struct"
  <2> DEFINE first == [call |-> "flatten", type |-> t, key |-> NoKey, depth |-> 1]
  <2>1. todo' = <<first>> /\ answer' = answer
    BY <1>2 DEF Open
  <2>2. ToSet(<<first>>) = {first}
    <3> HIDE DEF first
    <3> QED BY DEF ToSet
  <2>3. Works' = {first}
    BY <2>1, <2>2 DEF Works
  <2> QED BY <1>1, <1>2, <2>1, <2>3 DEF Open
<1>3. CASE Kind[t] # "struct"
  BY <1>1, <1>3 DEF Open
<1> QED BY <1>2, <1>3

\* The keys one name further down.
LEMMA KeyLemma ==
  ASSUME NEW key \in Seq(KeyPart), key # <<>>
  PROVE  /\ Path(key) \in Seq(KeyPart)
         /\ \A n \in KeyPart : n # "" \/ key # NoKey =>
              LET further == Append(Path(key), n)
              IN  further # <<>> /\ further # NoKey /\ Path(further) = further
<1>1. Path(key) \in Seq(KeyPart)
  BY DEF Path
<1>2. ASSUME NEW n \in KeyPart, n # "" \/ key # NoKey
      PROVE  Append(Path(key), n) # <<>> /\ Append(Path(key), n) # NoKey
  <2> DEFINE further == Append(Path(key), n)
  <2>1. Len(further) = Len(Path(key)) + 1 /\ further[Len(further)] = n
    BY <1>1
  <2>2. Len(Path(key)) \in Nat
    BY <1>1
  <2>3. Len(NoKey) = 1 /\ NoKey[1] = "" /\ Len(<<>>) = 0
    BY DEF NoKey
  <2>4. key # NoKey => Len(Path(key)) # 0
    BY <1>1 DEF Path
  <2> HIDE DEF further
  <2>5. further # <<>>
    <3>1. ASSUME further = <<>> PROVE FALSE
      <4>1. Len(further) = 0
        BY <2>3, <3>1
      <4> QED BY <2>1, <2>2, <4>1
    <3> QED BY <3>1
  <2>6. further # NoKey
    <3>1. CASE key = NoKey
      <4>1. Len(Path(key)) = 0
        BY <2>3, <3>1 DEF Path
      <4>2. further[1] = n
        BY <2>1, <4>1
      <4> QED BY <1>2, <2>3, <3>1, <4>2
    <3>2. CASE key # NoKey
      <4>1. ASSUME further = NoKey PROVE FALSE
        <5>1. Len(Path(key)) + 1 = 1
          BY <2>1, <2>3, <4>1
        <5>2. Len(Path(key)) # 0
          BY <2>4, <3>2
        <5>3. \A l \in Nat : l + 1 = 1 => l = 0
          OBVIOUS
        <5> QED BY <2>2, <5>1, <5>2, <5>3
      <4> QED BY <4>1
    <3> QED BY <3>1, <3>2
  <2> QED BY <2>5, <2>6 DEF further
<1>3. ASSUME NEW n \in KeyPart, n # "" \/ key # NoKey
      PROVE  Path(Append(Path(key), n)) = Append(Path(key), n)
  <2> DEFINE further == Append(Path(key), n)
  <2>1. further # NoKey
    BY <1>2, <1>3
  <2> HIDE DEF further
  <2>2. Path(further) = further
    BY <2>1 DEF Path
  <2> QED BY <2>2 DEF further
<1> QED BY <1>1, <1>2, <1>3

\* Decoder and documentation call a field of a struct the same.
LEMMA FieldNameLemma ==
  ASSUME NamesClear, NEW t \in Type, Kind[t] = "struct", NEW f \in ToSet(Fields[t])
  PROVE  /\ f.type \in Type
         /\ KeyName(f) = JsonName(f) /\ KeyName(f) \in KeyPart /\ KeyName(f) # ""
         /\ \A g \in ToSet(Fields[t]) : JsonName(g) = JsonName(f) => g = f
<1>1. ASSUME NEW g \in ToSet(Fields[t])
      PROVE  /\ g \in Field /\ g.type \in Type
             /\ KeyName(g) = JsonName(g) /\ KeyName(g) \in FieldName
  <2>1. g \in Field /\ g.tag # "" /\ g.type \in Type
    BY FieldsLemma DEF NamesClear
  <2> QED BY <2>1 DEF Field, KeyName, JsonName
<1>2. \A g \in ToSet(Fields[t]) : KeyName(g) = KeyName(f) => g = f
  BY DEF NamesClear
<1> QED BY <1>1, <1>2, TypeAssumption DEF KeyPart

\* The calls that one call makes keep to their places.
LEMMA CalleesPlaced ==
  ASSUME NamesClear, TypeOK, Placed, OneCall, NEW S, GoesOn(S),
         \/ FlattenStruct /\ S = FieldCalls
         \/ FlattenSlice /\ S = {To("setResult", Now.type, Now.key)}
         \/ (DrainMap \/ SkipPlain) /\ S = {}
         \/ /\ SetPointer /\ Kind[Elem[Now.type]] \notin Primitive
            /\ S = {To("flatten", Elem[Now.type], Now.key)}
         \/ /\ SetSlice /\ Kind[Elem[Now.type]] \notin Primitive
            /\ S = ElemCalls
  PROVE  Placed'
<1>1. /\ todo \in Seq(Work) /\ todo # <<>> /\ Now \in Work /\ Now \in Works
      /\ Works = {Now} \cup Rest /\ input # None /\ input' = input
  BY OneCallStep, WorksLemma DEF TypeOK, Flattening
<1>2. Now.key \in Seq(KeyPart) /\ Now.key # <<>> /\ Now.type \in Type
  BY <1>1, ToWork DEF Placed
<1>3. ASSUME NEW w \in S
      PROVE  /\ w.call = "flatten" => Kind[w.type] \notin Primitive
             /\ w.key # <<>> /\ w.key # NoKey
  <2>1. CASE FlattenStruct /\ S = FieldCalls
    <3>1. Kind[Now.type] = "struct"
      BY <2>1 DEF FlattenStruct, At
    <3>2. PICK f \in ToSet(Fields[Now.type]) :
            w = To("setResult", f.type, Append(Path(Now.key), KeyName(f)))
      BY <1>3, <2>1 DEF FieldCalls
    <3>3. w.call = "setResult" /\ w.key = Append(Path(Now.key), KeyName(f))
      BY <3>2 DEF To
    <3>4. KeyName(f) \in KeyPart /\ KeyName(f) # ""
      BY <1>2, <3>1, FieldNameLemma
    <3> QED BY <1>2, <3>3, <3>4, KeyLemma
  <2>2. CASE FlattenSlice /\ S = {To("setResult", Now.type, Now.key)}
    <3>1. Kind[Now.type] = "slice"
      BY <2>2 DEF FlattenSlice, At
    <3>2. w.call = "setResult" /\ w.key = Now.key
      BY <1>3, <2>2 DEF To
    <3> QED BY <1>1, <1>2, <3>1, <3>2 DEF Placed
  <2>3. CASE /\ SetPointer /\ Kind[Elem[Now.type]] \notin Primitive
             /\ S = {To("flatten", Elem[Now.type], Now.key)}
    <3>1. Now.call = "setResult"
      BY <2>3 DEF SetPointer, At
    <3>2. w.type = Elem[Now.type] /\ w.key = Now.key
      BY <1>3, <2>3 DEF To
    <3> QED BY <1>1, <1>2, <2>3, <3>1, <3>2 DEF Placed
  <2>4. CASE /\ SetSlice /\ Kind[Elem[Now.type]] \notin Primitive
             /\ S = ElemCalls
    <3>1. Now.call = "setResult"
      BY <2>4 DEF SetSlice, At
    <3>2. Now.key # NoKey
      BY <1>1, <3>1 DEF Placed
    <3>3. PICK n \in ToSet(Index) : w = To("flatten", Elem[Now.type], Append(Now.key, n))
      BY <1>3, <2>4 DEF ElemCalls
    <3>4. w.type = Elem[Now.type] /\ w.key = Append(Path(Now.key), n) /\ n \in KeyPart
      BY <3>2, <3>3, IndexLemma DEF To, Path
    <3> QED BY <1>2, <2>4, <3>2, <3>4, KeyLemma
  <2> QED BY <1>3, <2>1, <2>2, <2>3, <2>4
<1>4. Works' = S \cup Rest /\ input' # None
  BY <1>1 DEF GoesOn
<1> QED BY <1>1, <1>3, <1>4 DEF Placed

LEMMA StepPlaced ==
  ASSUME NamesClear
  PROVE  TypeOK /\ Placed /\ [Next]_vars => Placed'
<1> SUFFICES ASSUME TypeOK, Placed, [Next]_vars PROVE Placed'
  OBVIOUS
<1>1. ASSUME NEW t \in Input, Open(t) PROVE Placed'
  <2>1. input = None
    BY <1>1 DEF Open
  <2>2. CASE Kind[t] = "struct"
    <3> DEFINE first == [call |-> "flatten", type |-> t, key |-> NoKey, depth |-> 1]
    <3>1. Works' = {first} /\ input' # None
      BY <1>1, <2>2, OpenStep
    <3>2. first.call = "flatten" /\ first.type = t /\ first.key = NoKey
      OBVIOUS
    <3>3. NoKey # <<>>
      BY DEF NoKey
    <3>4. Kind[t] \notin Primitive
      BY <1>1, <2>2, OpenStep, KindLemma
    <3> HIDE DEF first
    <3> QED BY <2>2, <3>1, <3>2, <3>3, <3>4 DEF Placed
  <2>3. CASE Kind[t] # "struct"
    <3>1. todo' = todo /\ result' = result /\ input' # None
      BY <1>1, <2>3, OpenStep
    <3> QED BY <3>1 DEF Placed, Works
  <2> QED BY <2>2, <2>3
<1>2. CASE Close
  <2>1. ToSet(<<>>) = {} /\ DOMAIN Empty = {}
    BY DEF ToSet, Empty
  <2> QED BY <1>2, <2>1 DEF Close, Placed, Works
<1>3. CASE Finish
  BY <1>3 DEF Finish, Flattening, Placed, Works
<1>4. CASE OneCall
  <2>0. todo \in Seq(Work)
    BY DEF TypeOK
  <2>1. /\ Flattening /\ todo # <<>> /\ Now \in Work /\ input' = input /\ input # None
        /\ Works = {Now} \cup Rest
    BY <1>4, <2>0, OneCallStep, WorksLemma DEF Flattening
  <2>2. CASE Overflows \/ FlattenPanics
    BY <2>1, <2>2 DEF Overflows, FlattenPanics, Placed, Works
  <2>3. ASSUME NEW keys, Puts(keys) PROVE Placed'
    BY <2>1, <2>3 DEF Puts, Placed
  <2>4. CASE FlattenStruct
    BY <1>4, <2>0, <2>2, <2>4, FlattenStructStep, CalleesPlaced DEF Makes
  <2>5. CASE FlattenSlice
    BY <1>4, <2>0, <2>2, <2>5, FlattenSliceStep, CalleesPlaced DEF Makes
  <2>6. CASE DrainMap \/ SkipPlain
    BY <1>4, <2>0, <2>6, NoCallStep, CalleesPlaced
  <2>7. CASE SetPointer
    BY <1>4, <2>0, <2>2, <2>3, <2>7, SetPointerStep, CalleesPlaced DEF Makes
  <2>8. CASE SetSlice
    BY <1>4, <2>0, <2>2, <2>3, <2>8, SetSliceStep, CalleesPlaced DEF Makes
  <2> QED BY <1>4, <2>2, <2>4, <2>5, <2>6, <2>7, <2>8 DEF OneCall
<1>5. CASE UNCHANGED vars
  BY <1>5 DEF vars, Placed, Works
<1> QED BY <1>1, <1>2, <1>3, <1>4, <1>5 DEF Next, Step, OneCall

LEMMA StepAnswered == TypeOK /\ Placed /\ Answered /\ [Next]_vars => Answered'
<1> SUFFICES ASSUME TypeOK, Placed, Answered, [Next]_vars PROVE Answered'
  OBVIOUS
<1>0. \A how : Without(how).how = how
  BY DEF Without
<1>1. ASSUME NEW t \in Input, Open(t) PROVE Answered'
  <2>1. input = None /\ answer = None
    BY <1>1 DEF Open, Placed
  <2>2. answer' = answer \/ answer' = Without("error")
    BY <1>1, OpenStep
  <2> QED BY <1>0, <2>1, <2>2 DEF Answered, Returned
<1>2. CASE Close
  BY <1>2 DEF Close, Answered, Returned
<1>3. CASE Finish
  <2>1. input # None /\ input' = input /\ result' = result
    BY <1>3 DEF Finish, Flattening
  <2>2. CASE \E k \in DOMAIN result : Kind[result[k]] = "word"
    BY <1>0, <1>3, <2>2 DEF Finish, Answered, Returned
  <2>3. CASE ~ \E k \in DOMAIN result : Kind[result[k]] = "word"
    <3> DEFINE parameters == [ k \in DOMAIN result |-> [type |-> SwaggerType[Kind[result[k]]],
                                                        enum |-> result[k] \in Own] ]
    <3>1. answer' = With(parameters)
      BY <1>3, <2>3 DEF Finish
    <3>2. answer'.parameters = parameters
      BY <3>1 DEF With
    <3> QED BY <2>1, <3>2 DEF Answered
  <2> QED BY <2>2, <2>3
<1>4. CASE OneCall
  <2>1. todo \in Seq(Work) /\ answer = None
    BY <1>4, OneCallStep DEF TypeOK, Flattening
  <2>2. answer' = answer \/ answer' = Without("overflow") \/ answer' = Without("panic")
    BY <1>4, <2>1, OneCallStep DEF Overflows, FlattenPanics, GoesOn, Puts
  <2> QED BY <1>0, <2>1, <2>2 DEF Answered, Returned
<1>5. CASE UNCHANGED vars
  BY <1>5 DEF vars, Answered, Returned
<1> QED BY <1>1, <1>2, <1>3, <1>4, <1>5 DEF Next, Step, OneCall

-----------------------------------------------------------------------------
(* What keys address.                                                      *)

\* The key of a call addresses the value the call is about, and a key of the map the
\* value that was written: two calls that write to one key write the same.
Addresses ==
  input # None =>
    /\ \A w \in Works : Addressed(input, Path(w.key)) = {Value[w.type]}
    /\ \A k \in DOMAIN result : Addressed(input, k) = {result[k]}

\* What one name leads to.
LEMMA IntoField ==
  ASSUME NamesClear, NEW t \in Type, Kind[t] = "struct", NEW f \in ToSet(Fields[t])
  PROVE  Value[t] = t /\ Into(t, KeyName(f)) = {Value[f.type]}
<1>1. {g \in ToSet(Fields[t]) : JsonName(g) = KeyName(f)} = {f}
  <2>1. KeyName(f) = JsonName(f) /\ \A g \in ToSet(Fields[t]) : JsonName(g) = JsonName(f) => g = f
    BY FieldNameLemma
  <2> QED BY <2>1
<1>2. Into(t, KeyName(f)) = {Value[g.type] : g \in {f}}
  BY <1>1 DEF Into
<1> QED BY <1>2, ValueUnfolds

LEMMA IntoSlice ==
  ASSUME NEW t \in Type, Kind[t] = "slice", NEW n \in ToSet(Index)
  PROVE  Value[t] = t /\ Into(t, n) = {Value[Elem[t]]}
BY ValueUnfolds DEF Into

\* One name further down there is one value, if there is one here.
LEMMA AddressedFurther ==
  ASSUME NEW of, NEW k \in Seq(KeyPart), NEW n \in KeyPart, NEW t, Addressed(of, k) = {t}
  PROVE  Addressed(of, Append(k, n)) = Into(t, n)
<1>1. \A u : u \in Addressed(of, Append(k, n)) <=> \E s \in Addressed(of, k) : u \in Into(s, n)
  BY AddressedUnfolds
<1>2. \A u : u \in Addressed(of, Append(k, n)) <=> u \in Into(t, n)
  BY <1>1
<1> QED BY <1>2

\* What a call addresses, its callees and what it writes address one name further.
LEMMA CalleesAddressed ==
  ASSUME NamesClear, TypeOK, Placed, Addresses, OneCall
  PROVE  /\ FlattenStruct => \A w \in FieldCalls :
                               Addressed(input, Path(w.key)) = {Value[w.type]}
         /\ SetPointer => Addressed(input, Now.key) = {Value[Elem[Now.type]]}
         /\ SetSlice => /\ \A n \in ToSet(Index) :
                             /\ Path(Append(Now.key, n)) = Append(Now.key, n)
                             /\ Addressed(input, Append(Now.key, n)) = {Value[Elem[Now.type]]}
         /\ SetPointer \/ SetSlice => Path(Now.key) = Now.key
<1>1. /\ todo \in Seq(Work) /\ todo # <<>> /\ Now \in Work /\ Now \in Works
      /\ Works = {Now} \cup Rest /\ input # None /\ input' = input
  BY OneCallStep, WorksLemma DEF TypeOK, Flattening
<1>2. /\ Now.key \in Seq(KeyPart) /\ Now.key # <<>> /\ Now.type \in Type
      /\ Path(Now.key) \in Seq(KeyPart)
  BY <1>1, ToWork DEF Placed
<1>3. Addressed(input, Path(Now.key)) = {Value[Now.type]}
  BY <1>1 DEF Addresses
<1>4. SetPointer \/ SetSlice => Now.key # NoKey /\ Path(Now.key) = Now.key
  BY <1>1 DEF Placed, SetPointer, SetSlice, At, Path
<1>5. ASSUME FlattenStruct, NEW w \in FieldCalls
      PROVE  Addressed(input, Path(w.key)) = {Value[w.type]}
  <2>1. Kind[Now.type] = "struct"
    BY <1>5 DEF FlattenStruct, At
  <2>2. PICK f \in ToSet(Fields[Now.type]) :
          w = To("setResult", f.type, Append(Path(Now.key), KeyName(f)))
    BY <1>5 DEF FieldCalls
  <2>3. w.type = f.type /\ w.key = Append(Path(Now.key), KeyName(f))
    BY <2>2 DEF To
  <2>4. KeyName(f) \in KeyPart /\ KeyName(f) # ""
    BY <1>2, <2>1, FieldNameLemma
  <2>5. Path(w.key) = Append(Path(Now.key), KeyName(f))
    BY <1>2, <2>3, <2>4, KeyLemma
  <2>6. Value[Now.type] = Now.type /\ Into(Now.type, KeyName(f)) = {Value[f.type]}
    BY <1>2, <2>1, IntoField
  <2>7. Addressed(input, Path(Now.key)) = {Now.type}
    BY <1>3, <2>6
  <2>8. Addressed(input, Append(Path(Now.key), KeyName(f))) = Into(Now.type, KeyName(f))
    <3> DEFINE key == Path(Now.key)
               name == KeyName(f)
    <3>1. key \in Seq(KeyPart) /\ name \in KeyPart /\ Addressed(input, key) = {Now.type}
      BY <1>2, <2>4, <2>7
    <3> HIDE DEF key, name
    <3>2. Addressed(input, Append(key, name)) = Into(Now.type, name)
      BY <3>1, AddressedFurther
    <3> QED BY <3>2 DEF key, name
  <2> QED BY <2>3, <2>5, <2>6, <2>8
<1>6. ASSUME SetPointer PROVE Addressed(input, Now.key) = {Value[Elem[Now.type]]}
  <2>1. Kind[Now.type] = "pointer"
    BY <1>6 DEF SetPointer, At
  <2> QED BY <1>2, <1>3, <1>4, <1>6, <2>1, ValueUnfolds
<1>7. ASSUME SetSlice, NEW n \in ToSet(Index)
      PROVE  /\ Path(Append(Now.key, n)) = Append(Now.key, n)
             /\ Addressed(input, Append(Now.key, n)) = {Value[Elem[Now.type]]}
  <2>1. Kind[Now.type] = "slice"
    BY <1>7 DEF SetSlice, At
  <2>2. n \in KeyPart
    BY IndexLemma
  <2>3. Path(Append(Now.key, n)) = Append(Now.key, n)
    BY <1>2, <1>4, <1>7, <2>2, KeyLemma
  <2>4. Value[Now.type] = Now.type /\ Into(Now.type, n) = {Value[Elem[Now.type]]}
    BY <1>2, <2>1, IntoSlice
  <2>5. Addressed(input, Now.key) = {Now.type}
    BY <1>3, <1>4, <1>7, <2>4
  <2>6. Addressed(input, Append(Now.key, n)) = Into(Now.type, n)
    <3> DEFINE key == Now.key
    <3>1. key \in Seq(KeyPart) /\ Addressed(input, key) = {Now.type}
      BY <1>2, <2>5
    <3> HIDE DEF key
    <3>2. Addressed(input, Append(key, n)) = Into(Now.type, n)
      BY <2>2, <3>1, AddressedFurther
    <3> QED BY <3>2 DEF key
  <2> QED BY <2>3, <2>4, <2>6
<1> QED BY <1>4, <1>5, <1>6, <1>7

LEMMA StepAddresses ==
  ASSUME NamesClear
  PROVE  TypeOK /\ Placed /\ Addresses /\ [Next]_vars => Addresses'
<1> SUFFICES ASSUME TypeOK, Placed, Addresses, [Next]_vars PROVE Addresses'
  OBVIOUS
<1>1. ASSUME NEW t \in Input, Open(t) PROVE Addresses'
  <2>1. input = None /\ Works = {} /\ DOMAIN result = {}
    BY <1>1 DEF Open, Placed
  <2>2. t \in Type /\ input' = t /\ result' = result
    BY <1>1, OpenStep
  <2>3. CASE Kind[t] = "struct"
    <3> DEFINE first == [call |-> "flatten", type |-> t, key |-> NoKey, depth |-> 1]
    <3>1. Works' = {first}
      BY <1>1, <2>3, OpenStep
    <3>2. Addressed(t, Path(NoKey)) = {t}
      BY AddressedUnfolds DEF Path
    <3>3. Value[t] = t
      BY <2>2, <2>3, ValueUnfolds
    <3>4. first.type = t /\ first.key = NoKey
      OBVIOUS
    <3> HIDE DEF first
    <3> QED BY <2>1, <2>2, <3>1, <3>2, <3>3, <3>4 DEF Addresses
  <2>4. CASE Kind[t] # "struct"
    <3>1. Works' = Works
      BY <1>1, <2>4, OpenStep DEF Works
    <3> QED BY <2>1, <2>2, <3>1 DEF Addresses
  <2> QED BY <2>3, <2>4
<1>2. CASE Close
  BY <1>2 DEF Close, Addresses
<1>3. CASE Finish
  BY <1>3 DEF Finish, Addresses, Works
<1>4. CASE OneCall
  <2>0. todo \in Seq(Work)
    BY DEF TypeOK
  <2>1. /\ Flattening /\ todo # <<>> /\ Now \in Work /\ input' = input /\ input # None
        /\ Works = {Now} \cup Rest
    BY <1>4, <2>0, OneCallStep, WorksLemma DEF Flattening
  <2>2. CASE Overflows \/ FlattenPanics
    BY <2>1, <2>2 DEF Overflows, FlattenPanics, Addresses, Works
  <2>3. ASSUME NEW S, GoesOn(S),
               \A w \in S : Addressed(input, Path(w.key)) = {Value[w.type]}
        PROVE  Addresses'
    BY <2>1, <2>3 DEF GoesOn, Addresses
  <2>4. ASSUME NEW keys, Puts(keys), Kind[Elem[Now.type]] \in Primitive,
               \A k \in keys : Addressed(input, k) = {Value[Elem[Now.type]]}
        PROVE  Addresses'
    <3>1. Elem[Now.type] \in Type /\ Kind[Elem[Now.type]] # "pointer"
      BY <2>1, <2>4, ToWork, KindLemma
    <3>2. Value[Elem[Now.type]] = Elem[Now.type]
      BY <3>1, ValueUnfolds
    <3> QED BY <2>1, <2>4, <3>2 DEF Puts, Addresses
  <2>5. CASE FlattenStruct
    BY <1>4, <2>0, <2>2, <2>3, <2>5, FlattenStructStep, CalleesAddressed DEF Makes
  <2>6. CASE FlattenSlice
    <3>1. \A w \in {To("setResult", Now.type, Now.key)} : w.type = Now.type /\ w.key = Now.key
      BY DEF To
    <3>2. Addressed(input, Path(Now.key)) = {Value[Now.type]}
      BY <2>1 DEF Addresses
    <3> QED BY <2>0, <2>2, <2>3, <2>6, <3>1, <3>2, FlattenSliceStep DEF Makes
  <2>7. CASE DrainMap \/ SkipPlain
    BY <2>0, <2>3, <2>7, NoCallStep
  <2>8. CASE SetPointer
    <3>1. /\ Path(Now.key) = Now.key
          /\ Addressed(input, Now.key) = {Value[Elem[Now.type]]}
      BY <1>4, <2>8, CalleesAddressed
    <3>2. \A w \in {To("flatten", Elem[Now.type], Now.key)} :
            w.type = Elem[Now.type] /\ w.key = Now.key
      BY DEF To
    <3> QED BY <2>0, <2>2, <2>3, <2>4, <2>8, <3>1, <3>2, SetPointerStep DEF Makes
  <2>9. CASE SetSlice
    <3>1. \A n \in ToSet(Index) :
            /\ Path(Append(Now.key, n)) = Append(Now.key, n)
            /\ Addressed(input, Append(Now.key, n)) = {Value[Elem[Now.type]]}
      BY <1>4, <2>9, CalleesAddressed
    <3>2. \A w \in ElemCalls : \E n \in ToSet(Index) :
            w.type = Elem[Now.type] /\ w.key = Append(Now.key, n)
      BY DEF ElemCalls, To
    <3>3. \A w \in ElemCalls : Addressed(input, Path(w.key)) = {Value[w.type]}
      BY <3>1, <3>2
    <3>4. \A k \in ElemKeys : Addressed(input, k) = {Value[Elem[Now.type]]}
      BY <3>1 DEF ElemKeys
    <3> QED BY <2>0, <2>2, <2>3, <2>4, <2>9, <3>3, <3>4, SetSliceStep DEF Makes
  <2> QED BY <1>4, <2>5, <2>6, <2>7, <2>8, <2>9, <2>2 DEF OneCall
<1>5. CASE UNCHANGED vars
  BY <1>5 DEF vars, Addresses, Works
<1> QED BY <1>1, <1>2, <1>3, <1>4, <1>5 DEF Next, Step, OneCall

\* What an input's calls keep in place, until it is answered.
Right == TypeOK /\ Placed /\ Answered /\ Addresses

LEMMA AlwaysRight ==
  ASSUME NamesClear
  PROVE  /\ Init => Right
         /\ Right /\ [Next]_vars => Right'
<1>1. Init => Right
  <2> SUFFICES ASSUME Init PROVE Right
    OBVIOUS
  <2>1. Works = {} /\ DOMAIN result = {} /\ input = None /\ answer = None
    BY DEF Init, Works, ToSet, Empty
  <2> QED BY <2>1, InitTypes DEF Right, Placed, Answered, Returned, Addresses
<1>2. Right /\ [Next]_vars => Right'
  BY StepTypes, StepPlaced, StepAnswered, StepAddresses DEF Right
<1> QED BY <1>1, <1>2

\* In a program where no two fields of a struct have the same key, whichever fields are
\* pointers, slices or structs again, a documented parameter addresses one value of an
\* input and has its type.
THEOREM ParametersAddress == ASSUME NamesClear PROVE Spec => []ParametersAddressInput
<1>1. Right => ParametersAddressInput
  <2> SUFFICES ASSUME Right, Returned, NEW k \in DOMAIN answer.parameters
               PROVE  \E t \in Type :
                        /\ Addressed(input, k) = {t}
                        /\ answer.parameters[k] = [type |-> SwaggerType[Kind[t]],
                                                   enum |-> t \in Own]
    BY DEF ParametersAddressInput
  <2>1. input # None /\ k \in DOMAIN result
    BY DEF Right, Answered
  <2>2. result[k] \in Type /\ Addressed(input, k) = {result[k]}
    BY <2>1 DEF Right, TypeOK, Addresses
  <2> QED BY <2>1, <2>2 DEF Right, Answered
<1> QED BY <1>1, AlwaysRight, PTL DEF Spec

-----------------------------------------------------------------------------
(* Why a type is refused.                                                  *)

\* What cannot be passed in a query.
Unfit(S) == \E t \in S : Kind[t] \in {"pointer", "other", "word"}

\* What a call looks into.
Looked(w) ==
  IF w.call = "flatten" THEN LookedInto[w.type]
  ELSE IF Kind[w.type] \in {"pointer", "slice"} THEN LookedInto[Elem[w.type]] ELSE {}

\* The stack is enough for what the calls still make.
Room(need) == \A w \in Works : w.depth + need[<<w.call, w.type>>] <= MaxDepth

\* There is a cause below the input just when one was written or is still to be found.
Caused ==
  input # None /\ answer = None =>
    (Unfit(LookedInto[input]) <=>
       \/ \E k \in DOMAIN result : Kind[result[k]] = "word"
       \/ \E w \in Works : Unfit(Looked(w)))

\* The calls that one call makes look into what it looks into.
LEMMA CalleesLook ==
  ASSUME TypeOK, Placed, OneCall
  PROVE  /\ FlattenStruct => (Unfit(Looked(Now)) <=> \E w \in FieldCalls : Unfit(Looked(w)))
         /\ FlattenSlice => (Unfit(Looked(Now)) <=>
                               Unfit(Looked(To("setResult", Now.type, Now.key))))
         /\ DrainMap \/ SkipPlain => ~Unfit(Looked(Now))
         /\ FlattenPanics => Unfit(Looked(Now))
         /\ SetPointer => (Unfit(Looked(Now)) <=>
                             Unfit(Looked(To("flatten", Elem[Now.type], Now.key))))
         /\ SetSlice => (Unfit(Looked(Now)) <=> \E w \in ElemCalls : Unfit(Looked(w)))
         /\ SetPointer \/ SetSlice =>
              (Kind[Elem[Now.type]] \in Primitive =>
                 (Unfit(Looked(Now)) <=> Kind[Elem[Now.type]] = "word"))
<1>1. todo \in Seq(Work) /\ Now \in Work /\ Now \in Works /\ Now.type \in Type
  BY OneCallStep, WorksLemma, ToWork DEF TypeOK
<1>2. Elem[Now.type] \in Type
  BY <1>1, KindLemma
<1>3. ASSUME FlattenStruct
      PROVE  Unfit(Looked(Now)) <=> \E w \in FieldCalls : Unfit(Looked(w))
  <2>1. Kind[Now.type] = "struct" /\ Now.call = "flatten"
    BY <1>3 DEF FlattenStruct, At
  <2>2. Inner(Now.type) = { Elem[f.type] : f \in {g \in ToSet(Fields[Now.type]) : Indirect(g)} }
    BY <2>1 DEF Inner
  <2>3. Unfit(Looked(Now)) <=>
          \E f \in ToSet(Fields[Now.type]) : Indirect(f) /\ Unfit(LookedInto[Elem[f.type]])
    <3>1. Looked(Now) = {Now.type} \cup UNION { LookedInto[p] : p \in Inner(Now.type) }
      BY <1>1, <2>1, LookedIntoUnfolds DEF Looked
    <3>2. Unfit(Looked(Now)) <=> \E p \in Inner(Now.type) : Unfit(LookedInto[p])
      BY <2>1, <3>1 DEF Unfit
    <3> QED BY <2>2, <3>2
  <2>4. ASSUME NEW f \in ToSet(Fields[Now.type])
        PROVE  Unfit(Looked(To("setResult", f.type, Append(Path(Now.key), KeyName(f))))) <=>
                 Indirect(f) /\ Unfit(LookedInto[Elem[f.type]])
    BY DEF To, Looked, Indirect, Unfit
  <2>5. (\E w \in FieldCalls : Unfit(Looked(w))) <=>
          \E f \in ToSet(Fields[Now.type]) :
            Unfit(Looked(To("setResult", f.type, Append(Path(Now.key), KeyName(f)))))
    BY DEF FieldCalls
  <2> QED BY <2>3, <2>4, <2>5
<1>4. ASSUME Kind[Now.type] = "slice"
      PROVE  Unfit(LookedInto[Now.type]) <=> Unfit(LookedInto[Elem[Now.type]])
  <2>1. Inner(Now.type) = {Elem[Now.type]}
    BY <1>4 DEF Inner
  <2>2. LookedInto[Now.type] = {Now.type} \cup LookedInto[Elem[Now.type]]
    BY <1>1, <2>1, LookedIntoUnfolds
  <2> QED BY <1>4, <2>2 DEF Unfit
<1>5. ASSUME FlattenSlice
      PROVE  Unfit(Looked(Now)) <=> Unfit(Looked(To("setResult", Now.type, Now.key)))
  <2>1. Kind[Now.type] = "slice" /\ Now.call = "flatten"
    BY <1>5 DEF FlattenSlice, At
  <2> QED BY <1>4, <2>1 DEF Looked, To
<1>6. ASSUME DrainMap \/ SkipPlain PROVE ~Unfit(Looked(Now))
  <2>1. CASE DrainMap
    <3>1. Kind[Now.type] = "map" /\ Now.call = "flatten"
      BY <2>1 DEF DrainMap, At
    <3>2. LookedInto[Now.type] = {Now.type}
      BY <1>1, <3>1, LookedIntoUnfolds DEF Inner
    <3> QED BY <3>1, <3>2 DEF Looked, Unfit
  <2>2. CASE SkipPlain
    <3>1. Kind[Now.type] \notin {"pointer", "slice"} /\ Now.call = "setResult"
      BY <2>2 DEF SkipPlain, At
    <3> QED BY <3>1 DEF Looked, Unfit
  <2> QED BY <1>6, <2>1, <2>2
<1>7. ASSUME FlattenPanics PROVE Unfit(Looked(Now))
  <2>1. Kind[Now.type] \in {"pointer", "other"} /\ Now.call = "flatten"
    BY <1>1, <1>7 DEF FlattenPanics, At, Placed
  <2>2. Now.type \in LookedInto[Now.type]
    BY <1>1, LookedIntoUnfolds
  <2> QED BY <2>1, <2>2 DEF Looked, Unfit
<1>8. ASSUME SetPointer
      PROVE  Unfit(Looked(Now)) <=> Unfit(Looked(To("flatten", Elem[Now.type], Now.key)))
  <2>1. Kind[Now.type] = "pointer" /\ Now.call = "setResult"
    BY <1>8 DEF SetPointer, At
  <2> QED BY <2>1 DEF Looked, To
<1>9. ASSUME SetSlice
      PROVE  Unfit(Looked(Now)) <=> \E w \in ElemCalls : Unfit(Looked(w))
  <2>1. Kind[Now.type] = "slice" /\ Now.call = "setResult"
    BY <1>9 DEF SetSlice, At
  <2>2. Looked(Now) = LookedInto[Elem[Now.type]]
    BY <2>1 DEF Looked
  <2>3. \A n : Looked(To("flatten", Elem[Now.type], Append(Now.key, n))) =
               LookedInto[Elem[Now.type]]
    BY DEF Looked, To
  <2>4. "" \in ToSet(Index)
    BY IndexLemma
  <2> QED BY <2>2, <2>3, <2>4 DEF ElemCalls
<1>10. ASSUME SetPointer \/ SetSlice, Kind[Elem[Now.type]] \in Primitive
       PROVE  Unfit(Looked(Now)) <=> Kind[Elem[Now.type]] = "word"
  <2>1. Kind[Now.type] \in {"pointer", "slice"} /\ Now.call = "setResult"
    BY <1>10 DEF SetPointer, SetSlice, At
  <2>2. Looked(Now) = LookedInto[Elem[Now.type]]
    BY <2>1 DEF Looked
  <2>3. Kind[Elem[Now.type]] \notin {"struct", "pointer", "slice", "other"}
    BY <1>2, <1>10, KindLemma
  <2>4. LookedInto[Elem[Now.type]] = {Elem[Now.type]}
    BY <1>2, <2>3, LookedIntoUnfolds DEF Inner
  <2> QED BY <2>2, <2>3, <2>4 DEF Unfit
<1> QED BY <1>3, <1>5, <1>6, <1>7, <1>8, <1>9, <1>10

\* A call makes the calls that Callees says.
LEMMA CalleesMade ==
  ASSUME TypeOK, OneCall, NEW S, Makes(S),
         \/ FlattenStruct /\ S = FieldCalls
         \/ FlattenSlice /\ S = {To("setResult", Now.type, Now.key)}
         \/ (DrainMap \/ SkipPlain) /\ S = {}
         \/ /\ SetPointer /\ Kind[Elem[Now.type]] \notin Primitive
            /\ S = {To("flatten", Elem[Now.type], Now.key)}
         \/ /\ SetSlice /\ Kind[Elem[Now.type]] \notin Primitive
            /\ S = ElemCalls
  PROVE  \A w \in S : /\ w.depth = Now.depth + 1
                      /\ w.call \in {"flatten", "setResult"} /\ w.type \in Type
                      /\ <<w.call, w.type>> \in Callees(<<Now.call, Now.type>>)
<1>1. Now \in Work /\ Now.type \in Type /\ Elem[Now.type] \in Type
  BY OneCallStep, ToWork DEF TypeOK
<1>2. CASE FlattenStruct /\ S = FieldCalls
  <2>1. Kind[Now.type] = "struct" /\ Now.call = "flatten"
    BY <1>2 DEF FlattenStruct, At
  <2>2. Callees(<<Now.call, Now.type>>) =
          { <<"setResult", f.type>> : f \in ToSet(Fields[Now.type]) }
    BY <2>1 DEF Callees
  <2>3. ASSUME NEW w \in FieldCalls
        PROVE  \E f \in ToSet(Fields[Now.type]) :
                 w.depth = Now.depth + 1 /\ w.call = "setResult" /\ w.type = f.type
    BY DEF FieldCalls, To
  <2> QED BY <1>1, <1>2, <2>2, <2>3, FieldsLemma
<1>3. CASE FlattenSlice /\ S = {To("setResult", Now.type, Now.key)}
  <2>1. Kind[Now.type] = "slice" /\ Now.call = "flatten"
    BY <1>3 DEF FlattenSlice, At
  <2>2. Callees(<<Now.call, Now.type>>) = {<<"setResult", Now.type>>}
    BY <2>1 DEF Callees
  <2> QED BY <1>1, <1>3, <2>2 DEF To
<1>4. CASE (SetPointer \/ SetSlice) /\ Kind[Elem[Now.type]] \notin Primitive
  <2>1. Kind[Now.type] \in {"pointer", "slice"} /\ Now.call = "setResult"
    BY <1>4 DEF SetPointer, SetSlice, At
  <2>2. Callees(<<Now.call, Now.type>>) = {<<"flatten", Elem[Now.type]>>}
    BY <1>4, <2>1 DEF Callees
  <2>3. CASE S = {To("flatten", Elem[Now.type], Now.key)}
    BY <1>1, <2>2, <2>3 DEF To
  <2>4. CASE S = ElemCalls
    BY <1>1, <2>2, <2>4 DEF To, ElemCalls
  <2>5. CASE S # ElemCalls /\ S # {To("flatten", Elem[Now.type], Now.key)}
    <3>1. ~FlattenStruct /\ ~FlattenSlice
      BY <2>1 DEF FlattenStruct, FlattenSlice, At
    <3> QED BY <2>5, <3>1
  <2> QED BY <2>3, <2>4, <2>5
<1>5. CASE (DrainMap \/ SkipPlain) /\ S = {}
  BY <1>5
<1> QED BY <1>2, <1>3, <1>4, <1>5

\* So the stack is enough for them, too, and is not full if there are any.
LEMMA CalleesFit ==
  ASSUME NEW need \in [{"flatten", "setResult"} \X Type -> Nat], EnoughStack(need),
         TypeOK, Room(need), OneCall, NEW S, Makes(S),
         \A w \in S : /\ w.depth = Now.depth + 1
                      /\ w.call \in {"flatten", "setResult"} /\ w.type \in Type
                      /\ <<w.call, w.type>> \in Callees(<<Now.call, Now.type>>)
  PROVE  GoesOn(S) /\ Room(need)'
<1>1. /\ Now \in Work /\ Now \in Works /\ Works = {Now} \cup Rest
      /\ Now.type \in Type /\ Now.depth \in Nat
      /\ Now.call \in {"flatten", "setResult"}
  BY OneCallStep, WorksLemma, ToWork DEF TypeOK, Work
<1> DEFINE here == need[<<Now.call, Now.type>>]
<1>2. here \in Nat /\ Now.depth + here <= MaxDepth
  BY <1>1 DEF Room
<1>3. ASSUME NEW w \in S
      PROVE  /\ need[<<w.call, w.type>>] \in Nat /\ need[<<w.call, w.type>>] < here
             /\ w.depth + need[<<w.call, w.type>>] <= MaxDepth
  <2> DEFINE there == need[<<w.call, w.type>>]
  <2>1. there \in Nat /\ there < here
    BY <1>1 DEF EnoughStack
  <2> HIDE DEF here, there
  <2>2. w.depth = Now.depth + 1 /\ MaxDepth \in Nat
    BY BoundAssumption
  <2>3. w.depth + there <= MaxDepth
    BY <1>1, <1>2, <2>1, <2>2
  <2> QED BY <2>1, <2>3 DEF there
<1> HIDE DEF here
<1>4. ASSUME S # {} PROVE Now.depth # MaxDepth
  <2>1. PICK w \in S : TRUE
    BY <1>4
  <2> DEFINE there == need[<<w.call, w.type>>]
  <2>2. there \in Nat /\ there < here
    BY <1>3
  <2> HIDE DEF there
  <2> QED BY <1>1, <1>2, <2>2, BoundAssumption
<1>5. GoesOn(S)
  BY <1>4 DEF Makes, Overflows
<1>6. Room(need)'
  <2>1. Works' = S \cup Rest
    BY <1>5 DEF GoesOn
  <2> QED BY <1>1, <1>3, <2>1 DEF Room
<1> QED BY <1>5, <1>6

\* Why a type is refused, with what the proof goes along.
Refused(need) == Right /\ Room(need) /\ Caused /\ RefusedForCause

\* A call that makes others leaves their causes to be found, ...
LEMMA CausedGoesOn ==
  ASSUME TypeOK, Caused, OneCall, NEW S, GoesOn(S),
         Unfit(Looked(Now)) <=> \E w \in S : Unfit(Looked(w))
  PROVE  Caused'
<1>1. input' = input /\ answer' = answer /\ result' = result /\ Works' = S \cup Rest
  BY DEF GoesOn
<1>2. Works = {Now} \cup Rest
  BY OneCallStep, WorksLemma DEF TypeOK
<1>3. (\E w \in Works : Unfit(Looked(w))) <=> (\E w \in Works' : Unfit(Looked(w)))
  BY <1>1, <1>2
<1> HIDE DEF Works
<1> QED BY <1>1, <1>3 DEF Caused

\* ... and what is written is a cause if it was one, also where something else had been
\* written: the key addresses one value.
LEMMA CausedPuts ==
  ASSUME TypeOK, Caused, Addresses, Addresses', OneCall, NEW keys, keys # {}, Puts(keys),
         Unfit(Looked(Now)) <=> Kind[Elem[Now.type]] = "word"
  PROVE  Caused'
<1>1. /\ input' = input /\ answer' = answer /\ Works' = Rest
      /\ DOMAIN result' = DOMAIN result \cup keys
      /\ \A k \in DOMAIN result' : result'[k] = IF k \in keys THEN Elem[Now.type] ELSE result[k]
  BY DEF Puts
<1>2. Works = {Now} \cup Rest /\ input # None /\ answer = None
  BY OneCallStep, WorksLemma DEF TypeOK, Flattening
<1>3. \A k \in DOMAIN result : result'[k] = result[k]
  <2>1. ASSUME NEW k \in DOMAIN result PROVE result'[k] = result[k]
    <3>1. {result'[k]} = {result[k]}
      BY <1>1, <1>2 DEF Addresses
    <3> QED BY <3>1
  <2> QED BY <2>1
<1>4. (\E k \in DOMAIN result' : Kind[result'[k]] = "word") <=>
        \/ \E k \in DOMAIN result : Kind[result[k]] = "word"
        \/ Kind[Elem[Now.type]] = "word"
  <2>1. PICK k \in keys : TRUE
    OBVIOUS
  <2> QED BY <1>1, <1>3, <2>1
<1>5. (\E w \in Works : Unfit(Looked(w))) <=>
        Unfit(Looked(Now)) \/ \E w \in Works' : Unfit(Looked(w))
  BY <1>1, <1>2
<1> QED BY <1>1, <1>2, <1>4, <1>5 DEF Caused

LEMMA StepRefused ==
  ASSUME NamesClear,
         NEW need \in [{"flatten", "setResult"} \X Type -> Nat], EnoughStack(need)
  PROVE  Refused(need) /\ [Next]_vars => Refused(need)'
<1> SUFFICES ASSUME Refused(need), [Next]_vars PROVE Refused(need)'
  OBVIOUS
<1>0. /\ TypeOK /\ Placed /\ Answered /\ Addresses /\ Room(need) /\ Caused /\ RefusedForCause
      /\ Right' /\ Addresses'
  BY AlwaysRight DEF Refused, Right
<1>w. \A how : Without(how).how = how
  BY DEF Without
<1> SUFFICES Room(need)' /\ Caused' /\ RefusedForCause'
  BY <1>0 DEF Refused
<1>1. ASSUME NEW t \in Input, Open(t) PROVE Room(need)' /\ Caused' /\ RefusedForCause'
  <2>1. input = None /\ answer = None /\ Works = {} /\ DOMAIN result = {}
    BY <1>0, <1>1 DEF Open, Placed
  <2>2. t \in Type /\ input' = t /\ result' = result
    BY <1>1, OpenStep
  <2>3. CASE Kind[t] = "struct"
    <3> DEFINE first == [call |-> "flatten", type |-> t, key |-> NoKey, depth |-> 1]
    <3>1. Works' = {first} /\ answer' = None
      BY <1>1, <2>1, <2>3, OpenStep
    <3>2. first.call = "flatten" /\ first.type = t /\ first.depth = 1
      OBVIOUS
    <3> HIDE DEF first
    <3>3. Room(need)'
      <4> DEFINE there == need[<<"flatten", t>>]
      <4>1. there \in Nat /\ there < MaxDepth
        BY <2>2 DEF EnoughStack
      <4> HIDE DEF there
      <4>2. 1 + there <= MaxDepth
        BY <4>1, BoundAssumption
      <4> QED BY <3>1, <3>2, <4>2 DEF Room, there
    <3>4. Caused'
      <4>1. Looked(first) = LookedInto[t]
        BY <3>2 DEF Looked
      <4> QED BY <2>1, <2>2, <3>1, <4>1 DEF Caused
    <3> QED BY <3>1, <3>3, <3>4 DEF RefusedForCause
  <2>4. CASE Kind[t] # "struct"
    <3>1. Works' = Works /\ answer' = Without("error")
      BY <1>1, <2>4, OpenStep DEF Works
    <3>2. answer'.how = "error" /\ Works' = {} /\ DOMAIN result' = {}
      BY <1>w, <2>1, <2>2, <3>1
    <3>3. Room(need)' /\ RefusedForCause'
      BY <3>2 DEF Room, RefusedForCause
    <3>4. Caused'
      BY <3>1, AnswerAssumption DEF Caused
    <3> QED BY <3>3, <3>4
  <2> QED BY <2>3, <2>4
<1>2. CASE Close
  <2>1. input' = None /\ answer' = None /\ Works' = {}
    BY <1>2 DEF Close, Works, ToSet
  <2> QED BY <2>1 DEF Room, Caused, RefusedForCause
<1>3. CASE Finish
  <2>1. /\ UNCHANGED <<input, todo, result>> /\ todo = <<>> /\ input # None /\ answer = None
        /\ Works' = Works /\ Works = {}
    BY <1>3 DEF Finish, Flattening, Works, ToSet
  <2>2. Unfit(LookedInto[input]) <=> \E k \in DOMAIN result : Kind[result[k]] = "word"
    BY <1>0, <2>1 DEF Caused
  <2>3. answer'.how = "panic" <=> \E k \in DOMAIN result : Kind[result[k]] = "word"
    BY <1>3, <1>w DEF Finish, With
  <2>4. Room(need)'
    BY <1>0, <2>1 DEF Room
  <2>5. Caused'
    BY <2>1, <2>2 DEF Caused
  <2>6. RefusedForCause'
    BY <2>1, <2>2, <2>3 DEF RefusedForCause, Unfit
  <2> QED BY <2>4, <2>5, <2>6
<1>4. CASE OneCall
  <2>0. /\ todo \in Seq(Work) /\ answer = None /\ input # None /\ input' = input
        /\ Works = {Now} \cup Rest
    BY <1>0, <1>4, OneCallStep, WorksLemma DEF TypeOK, Flattening
  <2>1. ASSUME NEW S, Makes(S),
               Unfit(Looked(Now)) <=> \E w \in S : Unfit(Looked(w)),
               \A w \in S : /\ w.depth = Now.depth + 1
                            /\ w.call \in {"flatten", "setResult"} /\ w.type \in Type
                            /\ <<w.call, w.type>> \in Callees(<<Now.call, Now.type>>)
        PROVE  Room(need)' /\ Caused' /\ RefusedForCause'
    <3>1. GoesOn(S) /\ Room(need)'
      BY <1>0, <1>4, <2>1, CalleesFit
    <3>2. Caused'
      BY <1>0, <1>4, <2>1, <3>1, CausedGoesOn
    <3>3. answer' = None
      BY <2>0, <3>1 DEF GoesOn
    <3> QED BY <3>1, <3>2, <3>3 DEF RefusedForCause
  <2>2. ASSUME NEW keys, keys # {}, Puts(keys),
               Unfit(Looked(Now)) <=> Kind[Elem[Now.type]] = "word"
        PROVE  Room(need)' /\ Caused' /\ RefusedForCause'
    <3>1. Caused'
      BY <1>0, <1>4, <2>2, CausedPuts
    <3>2. answer' = None /\ Room(need)'
      BY <1>0, <2>0, <2>2 DEF Puts, Room
    <3> QED BY <3>1, <3>2 DEF RefusedForCause
  <2>3. CASE FlattenPanics
    <3>1. answer' = Without("panic") /\ Works' = Works /\ result' = result
      BY <2>3 DEF FlattenPanics, Works
    <3>2. Unfit(LookedInto[input])
      BY <1>0, <1>4, <2>0, <2>3, CalleesLook DEF Caused
    <3> QED BY <1>0, <1>w, <2>0, <3>1, <3>2 DEF Room, Caused, RefusedForCause, Unfit
  <2>4. CASE FlattenStruct
    BY <1>0, <1>4, <2>0, <2>1, <2>4, FlattenStructStep, CalleesLook, CalleesMade
  <2>5. CASE FlattenSlice
    BY <1>0, <1>4, <2>0, <2>1, <2>5, FlattenSliceStep, CalleesLook, CalleesMade
  <2>6. CASE DrainMap \/ SkipPlain
    <3>1. Makes({})
      BY <2>0, <2>6, NoCallStep DEF Makes
    <3>2. ~Unfit(Looked(Now))
      BY <1>0, <1>4, <2>6, CalleesLook
    <3> QED BY <2>1, <3>1, <3>2
  <2>7. CASE SetPointer
    <3>1. CASE Kind[Elem[Now.type]] \in Primitive
      BY <1>0, <1>4, <2>0, <2>2, <2>7, <3>1, SetPointerStep, CalleesLook
    <3>2. CASE Kind[Elem[Now.type]] \notin Primitive
      BY <1>0, <1>4, <2>0, <2>1, <2>7, <3>2, SetPointerStep, CalleesLook, CalleesMade
    <3> QED BY <3>1, <3>2
  <2>8. CASE SetSlice
    <3>1. CASE Kind[Elem[Now.type]] \in Primitive
      <4>1. ElemKeys # {}
        BY IndexLemma DEF ElemKeys
      <4> QED BY <1>0, <1>4, <2>0, <2>2, <2>8, <3>1, <4>1, SetSliceStep, CalleesLook
    <3>2. CASE Kind[Elem[Now.type]] \notin Primitive
      BY <1>0, <1>4, <2>0, <2>1, <2>8, <3>2, SetSliceStep, CalleesLook, CalleesMade
    <3> QED BY <3>1, <3>2
  <2> QED BY <1>4, <2>3, <2>4, <2>5, <2>6, <2>7, <2>8 DEF OneCall
<1>5. CASE UNCHANGED vars
  BY <1>0, <1>5 DEF vars, Works, Room, Caused, RefusedForCause
<1> QED BY <1>1, <1>2, <1>3, <1>4, <1>5 DEF Next, Step, OneCall

\* If moreover the stack is enough, a type is refused just when a value that cannot be
\* passed in a query hangs below it, in whichever order it is found.
THEOREM RefusedRightly ==
  ASSUME NamesClear,
         NEW need \in [{"flatten", "setResult"} \X Type -> Nat], EnoughStack(need)
  PROVE  Spec => []RefusedForCause
<1>1. Init => Refused(need)
  <2> SUFFICES ASSUME Init PROVE Refused(need)
    OBVIOUS
  <2>1. Works = {} /\ input = None /\ answer = None
    BY DEF Init, Works, ToSet
  <2> QED BY <2>1, AlwaysRight DEF Refused, Room, Caused, RefusedForCause
<1>2. Refused(need) /\ [Next]_vars => Refused(need)'
  BY StepRefused
<1>3. Refused(need) => RefusedForCause
  BY DEF Refused
<1> QED BY <1>1, <1>2, <1>3, PTL DEF Spec

-----------------------------------------------------------------------------
(* What is documented.                                                     *)

\* The keys of the optional and repeated values below a type.
Optional == Leaves({f \in AllFields : Indirect(f)})

\* Those that a call is there to find.
Keys(w) ==
  IF w.call = "flatten" \/ Kind[w.type] \in {"pointer", "slice"}
  THEN { Path(w.key) \o k : k \in Optional[w.type] } ELSE {}

\* Each of them is in the map or still to be found.
Gathered ==
  input # None /\ answer = None =>
    Optional[input] = DOMAIN result \cup UNION { Keys(w) : w \in Works }

\* Where types do not contain themselves, there is no other solution than keys.
LEMMA LeavesAreKeys ==
  ASSUME NEW rank \in [Type -> Nat], Descending(rank), NEW only
  PROVE  \A t \in Type : Leaves(only)[t] \subseteq Seq(KeyPart)
<1> DEFINE below == Leaves(only)
           Keyed == Seq(KeyPart)
           Bad == { rank[t] : t \in {s \in Type : ~(below[s] \subseteq Keyed)} }
<1>1. ASSUME Bad # {} PROVE FALSE
  <2>1. PICK m \in Bad : \A n \in Bad : m <= n
    <3>1. Bad \in SUBSET Nat
      OBVIOUS
    <3> QED BY <1>1, <3>1, SmallestNumber
  <2>2. PICK t \in Type : rank[t] = m /\ ~(below[t] \subseteq Keyed)
    BY <2>1
  <2>3. ASSUME NEW p \in Type, rank[p] < rank[t] PROVE below[p] \subseteq Keyed
    <3>1. rank[p] \in Nat /\ rank[t] \in Nat
      OBVIOUS
    <3>2. CASE rank[p] \in Bad
      <4>1. rank[t] <= rank[p]
        BY <2>1, <2>2, <3>2
      <4> QED BY <2>3, <3>1, <4>1
    <3>3. CASE rank[p] \notin Bad
      BY <3>3
    <3> QED BY <3>2, <3>3
  <2>4. below[t] = KeysBy(only, below, t)
    BY LeavesUnfold
  <2>5. \A n \in KeyPart, S \in SUBSET Keyed : Further(n, S) \subseteq Keyed
    <3>1. ASSUME NEW n \in KeyPart, NEW S \in SUBSET Keyed, NEW k \in S PROVE <<n>> \o k \in Keyed
      <4>1. <<n>> \in Seq(KeyPart)
        OBVIOUS
      <4> QED BY <4>1, ConcatProperties
    <3> QED BY <3>1 DEF Further
  <2>6. <<>> \in Keyed
    OBVIOUS
  <2> HIDE DEF below, Keyed, Bad
  <2>7. /\ Kind[t] \in {"pointer", "slice"} => below[Elem[t]] \subseteq Keyed
        /\ Kind[t] = "struct" => \A f \in ToSet(Fields[t]) : below[f.type] \subseteq Keyed
    BY <2>3, KindLemma, FieldsLemma DEF Descending
  <2>8. CASE Kind[t] \in Primitive \cup {"map", "other"}
    BY <2>2, <2>4, <2>6, <2>8, KeysByKind
  <2>9. CASE Kind[t] = "pointer"
    BY <2>2, <2>4, <2>7, <2>9, KeysByKind
  <2>10. CASE Kind[t] = "slice"
    <3>1. \A n \in ToSet(Index) : Further(n, below[Elem[t]]) \subseteq Keyed
      BY <2>5, <2>7, <2>10, IndexLemma
    <3> QED BY <2>2, <2>4, <2>10, <3>1, KeysByKind
  <2>11. CASE Kind[t] = "struct"
    <3>1. ASSUME NEW f \in ToSet(Fields[t]) PROVE JsonName(f) \in KeyPart
      BY FieldsLemma, IndexLemma DEF Field, JsonName, KeyPart
    <3>2. \A f \in ToSet(Fields[t]) : Further(JsonName(f), below[f.type]) \subseteq Keyed
      BY <2>5, <2>7, <2>11, <3>1
    <3> QED BY <2>2, <2>4, <2>11, <3>2, KeysByKind
  <2> QED BY <2>8, <2>9, <2>10, <2>11, KindLemma
<1> QED BY <1>1

\* A name further down, in front or behind.
LEMMA NameFurther ==
  ASSUME NEW p \in Seq(KeyPart), NEW n \in KeyPart, NEW S \in SUBSET Seq(KeyPart)
  PROVE  { p \o k : k \in Further(n, S) } = { Append(p, n) \o m : m \in S }
<1>1. <<n>> \in Seq(KeyPart) /\ Append(p, n) = p \o <<n>>
  BY AppendIsConcat
<1>2. ASSUME NEW m \in S PROVE p \o (<<n>> \o m) = Append(p, n) \o m
  BY <1>1, ConcatAssociative
<1>3. { p \o k : k \in Further(n, S) } = { p \o (<<n>> \o m) : m \in S }
  BY DEF Further
<1> QED BY <1>2, <1>3

\* A call finds what the calls it makes find, or what it writes.
LEMMA CalleesFind ==
  ASSUME NamesClear, NEW rank \in [Type -> Nat], Descending(rank),
         TypeOK, Placed, OneCall
  PROVE  /\ FlattenStruct => Keys(Now) = UNION { Keys(w) : w \in FieldCalls }
         /\ FlattenSlice => Keys(Now) = Keys(To("setResult", Now.type, Now.key))
         /\ DrainMap \/ SkipPlain => Keys(Now) = {}
         /\ SetPointer => Keys(Now) = Keys(To("flatten", Elem[Now.type], Now.key))
         /\ SetSlice => Keys(Now) = UNION { Keys(w) : w \in ElemCalls }
         /\ SetPointer /\ Kind[Elem[Now.type]] \in Primitive => Keys(Now) = {Now.key}
         /\ SetSlice /\ Kind[Elem[Now.type]] \in Primitive => Keys(Now) = ElemKeys
<1> DEFINE only == {f \in AllFields : Indirect(f)}
           p == Path(Now.key)
           below(n) == { Append(p, n) \o m : m \in Optional[Elem[Now.type]] }
<1>1. /\ todo \in Seq(Work) /\ Now \in Work /\ Now \in Works
      /\ Now.type \in Type /\ Elem[Now.type] \in Type
      /\ Now.key \in Seq(KeyPart) /\ Now.key # <<>> /\ p \in Seq(KeyPart)
  BY OneCallStep, WorksLemma, ToWork DEF TypeOK, Placed
<1>2. \A t \in Type : Optional[t] \subseteq Seq(KeyPart)
  BY LeavesAreKeys DEF Optional
<1>3. \A t \in Type : Optional[t] = KeysBy(only, Optional, t)
  BY LeavesUnfold DEF Optional
<1>4. SetPointer \/ SetSlice =>
        /\ Now.call = "setResult" /\ Kind[Now.type] \in {"pointer", "slice"}
        /\ Now.key # NoKey /\ p = Now.key
  BY <1>1 DEF Placed, SetPointer, SetSlice, At, Path
<1>5. ASSUME NEW n \in KeyPart, NEW t \in Type
      PROVE  { p \o k : k \in Further(n, Optional[t]) } =
             { Append(p, n) \o m : m \in Optional[t] }
  BY <1>1, <1>2, NameFurther
<1> HIDE DEF p, only
<1>6. ASSUME FlattenStruct
      PROVE  Keys(Now) = UNION { Keys(w) : w \in FieldCalls }
  <2>1. Kind[Now.type] = "struct" /\ Now.call = "flatten"
    BY <1>6 DEF FlattenStruct, At
  <2>2. Optional[Now.type] = UNION { Further(JsonName(f), Optional[f.type]) :
                                     f \in ToSet(Fields[Now.type]) \cap only }
    BY <1>1, <1>3, <2>1, KeysByKind
  <2> DEFINE call(f) == To("setResult", f.type, Append(p, KeyName(f)))
  <2>3. ASSUME NEW f \in ToSet(Fields[Now.type])
        PROVE  Keys(call(f)) = IF f \in only
                               THEN { p \o k : k \in Further(JsonName(f), Optional[f.type]) }
                               ELSE {}
    <3>1. /\ f.type \in Type /\ KeyName(f) = JsonName(f) /\ KeyName(f) \in KeyPart
          /\ KeyName(f) # ""
      BY <1>1, <2>1, FieldNameLemma
    <3>2. f \in only <=> Kind[f.type] \in {"pointer", "slice"}
      BY <1>1 DEF only, AllFields, Indirect
    <3>3. Path(Append(p, KeyName(f))) = Append(p, KeyName(f))
      BY <1>1, <3>1, KeyLemma DEF p
    <3>4. call(f).call = "setResult" /\ call(f).type = f.type /\ call(f).key = Append(p, KeyName(f))
      BY DEF To
    <3>5. Keys(call(f)) = IF f \in only THEN { Append(p, KeyName(f)) \o m : m \in Optional[f.type] }
                          ELSE {}
      <4> HIDE DEF call
      <4> QED BY <3>2, <3>3, <3>4 DEF Keys
    <3> HIDE DEF call
    <3> QED BY <1>5, <3>1, <3>5
  <2>4. FieldCalls = { call(f) : f \in ToSet(Fields[Now.type]) }
    BY DEF FieldCalls, p
  <2>5. Keys(Now) = { p \o k : k \in Optional[Now.type] }
    BY <2>1 DEF Keys, p
  <2> HIDE DEF call
  <2>6. ASSUME NEW x
        PROVE  x \in Keys(Now) <=> \E w \in FieldCalls : x \in Keys(w)
    <3>1. x \in Keys(Now) <=>
            \E f \in ToSet(Fields[Now.type]) \cap only :
              \E k \in Further(JsonName(f), Optional[f.type]) : x = p \o k
      BY <2>2, <2>5
    <3>2. (\E w \in FieldCalls : x \in Keys(w)) <=>
            \E f \in ToSet(Fields[Now.type]) : x \in Keys(call(f))
      BY <2>4
    <3>3. ASSUME NEW f \in ToSet(Fields[Now.type])
          PROVE  x \in Keys(call(f)) <=>
                   f \in only /\ \E k \in Further(JsonName(f), Optional[f.type]) : x = p \o k
      BY <2>3
    <3> QED BY <3>1, <3>2, <3>3
  <2> QED BY <2>6
<1>7. ASSUME FlattenSlice PROVE Keys(Now) = Keys(To("setResult", Now.type, Now.key))
  <2>1. Kind[Now.type] = "slice" /\ Now.call = "flatten"
    BY <1>7 DEF FlattenSlice, At
  <2> QED BY <2>1 DEF Keys, To
<1>8. ASSUME DrainMap \/ SkipPlain PROVE Keys(Now) = {}
  <2>1. CASE DrainMap
    <3>1. Kind[Now.type] = "map"
      BY <2>1 DEF DrainMap, At
    <3>2. Optional[Now.type] = {}
      BY <1>1, <1>3, <3>1, KeysByKind
    <3> QED BY <3>2 DEF Keys
  <2>2. CASE SkipPlain
    <3>1. Kind[Now.type] \notin {"pointer", "slice"} /\ Now.call = "setResult"
      BY <2>2 DEF SkipPlain, At
    <3> QED BY <3>1 DEF Keys
  <2> QED BY <1>8, <2>1, <2>2
<1>9. ASSUME SetPointer PROVE Keys(Now) = Keys(To("flatten", Elem[Now.type], Now.key))
  <2>1. Kind[Now.type] = "pointer"
    BY <1>9 DEF SetPointer, At
  <2>2. Optional[Now.type] = Optional[Elem[Now.type]]
    BY <1>1, <1>3, <2>1, KeysByKind
  <2> QED BY <2>1, <2>2 DEF Keys, To
<1>10. ASSUME SetSlice
       PROVE  /\ Keys(Now) = UNION { below(n) : n \in ToSet(Index) }
              /\ \A n \in ToSet(Index) : Path(Append(Now.key, n)) = Append(p, n)
  <2>1. Kind[Now.type] = "slice"
    BY <1>10 DEF SetSlice, At
  <2>2. Optional[Now.type] = UNION { Further(n, Optional[Elem[Now.type]]) : n \in ToSet(Index) }
    BY <1>1, <1>3, <2>1, KeysByKind
  <2>3. Keys(Now) = { p \o k : k \in Optional[Now.type] }
    BY <2>1 DEF Keys, p
  <2>4. ASSUME NEW n \in ToSet(Index)
        PROVE  /\ { p \o k : k \in Further(n, Optional[Elem[Now.type]]) } = below(n)
               /\ Path(Append(Now.key, n)) = Append(p, n)
    <3>1. n \in KeyPart
      BY IndexLemma
    <3> QED BY <1>1, <1>4, <1>5, <1>10, <3>1, KeyLemma DEF p
  <2> HIDE DEF below
  <2>5. ASSUME NEW x
        PROVE  x \in Keys(Now) <=>
                 \E n \in ToSet(Index) : x \in below(n)
    <3>1. x \in Keys(Now) <=>
            \E n \in ToSet(Index) : \E k \in Further(n, Optional[Elem[Now.type]]) : x = p \o k
      BY <2>2, <2>3
    <3>2. ASSUME NEW n \in ToSet(Index)
          PROVE  x \in below(n) <=>
                   \E k \in Further(n, Optional[Elem[Now.type]]) : x = p \o k
      BY <2>4
    <3> QED BY <3>1, <3>2
  <2> QED BY <2>4, <2>5
<1>11. ASSUME SetSlice PROVE Keys(Now) = UNION { Keys(w) : w \in ElemCalls }
  <2> DEFINE call(n) == To("flatten", Elem[Now.type], Append(Now.key, n))
  <2>1. ASSUME NEW n \in ToSet(Index)
        PROVE  Keys(call(n)) = below(n)
    <3>1. /\ call(n).call = "flatten" /\ call(n).type = Elem[Now.type]
          /\ call(n).key = Append(Now.key, n)
      BY DEF To
    <3> HIDE DEF call
    <3> QED BY <1>10, <1>11, <3>1 DEF Keys
  <2>2. ElemCalls = { call(n) : n \in ToSet(Index) }
    BY DEF ElemCalls
  <2> HIDE DEF call, below
  <2> QED BY <1>10, <1>11, <2>1, <2>2
<1>12. ASSUME SetPointer \/ SetSlice, Kind[Elem[Now.type]] \in Primitive
       PROVE  /\ SetPointer => Keys(Now) = {Now.key}
              /\ SetSlice => Keys(Now) = ElemKeys
  <2>1. Optional[Elem[Now.type]] = {<<>>}
    BY <1>1, <1>3, <1>12, KeysByKind
  <2>2. ASSUME SetPointer PROVE Keys(Now) = {Now.key}
    <3>1. Kind[Now.type] = "pointer"
      BY <2>2 DEF SetPointer, At
    <3>2. Optional[Now.type] = {<<>>}
      <4>1. Optional[Now.type] = Optional[Elem[Now.type]]
        BY <1>1, <1>3, <3>1, KeysByKind
      <4> QED BY <2>1, <4>1
    <3>3. Keys(Now) = {p \o <<>>}
      BY <3>1, <3>2 DEF Keys, p
    <3> QED BY <1>1, <1>4, <2>2, <3>3, ConcatEmptySeq
  <2>3. ASSUME SetSlice PROVE Keys(Now) = ElemKeys
    <3>1. Keys(Now) = { Append(p, n) \o <<>> : n \in ToSet(Index) }
      BY <1>10, <2>1, <2>3
    <3>2. \A n \in ToSet(Index) : Append(p, n) \o <<>> = Append(Now.key, n)
      <4>1. ASSUME NEW n \in ToSet(Index) PROVE Append(Now.key, n) \in Seq(KeyPart)
        BY <1>1, ToWork, IndexLemma
      <4> QED BY <1>4, <2>3, <4>1, ConcatEmptySeq
    <3> QED BY <3>1, <3>2 DEF ElemKeys
  <2> QED BY <2>2, <2>3
<1> QED BY <1>6, <1>7, <1>8, <1>9, <1>11, <1>12

\* Why all is documented, with what the proof goes along.
Listed == Right /\ Gathered /\ IndirectInputDocumented

LEMMA StepListed ==
  ASSUME NamesClear, NEW rank \in [Type -> Nat], Descending(rank)
  PROVE  Listed /\ [Next]_vars => Listed'
<1> SUFFICES ASSUME Listed, [Next]_vars PROVE Listed'
  OBVIOUS
<1>0. /\ TypeOK /\ Placed /\ Answered /\ Gathered /\ IndirectInputDocumented
      /\ Right' /\ Answered'
  BY AlwaysRight DEF Listed, Right
<1>w. \A how : Without(how).how = how
  BY DEF Without
<1> SUFFICES Gathered' /\ IndirectInputDocumented'
  BY <1>0 DEF Listed
<1>a. ASSUME ~(Returned') PROVE IndirectInputDocumented'
  BY <1>a DEF IndirectInputDocumented
<1>1. ASSUME NEW t \in Input, Open(t) PROVE Gathered' /\ IndirectInputDocumented'
  <2>1. input = None /\ answer = None /\ Works = {} /\ DOMAIN result = {}
    BY <1>0, <1>1 DEF Open, Placed
  <2>2. t \in Type /\ input' = t /\ result' = result
    BY <1>1, OpenStep
  <2>3. CASE Kind[t] = "struct"
    <3> DEFINE first == [call |-> "flatten", type |-> t, key |-> NoKey, depth |-> 1]
    <3>1. Works' = {first} /\ answer' = None
      BY <1>1, <2>1, <2>3, OpenStep
    <3>2. first.call = "flatten" /\ first.type = t /\ first.key = NoKey
      OBVIOUS
    <3> HIDE DEF first
    <3>3. Keys(first) = Optional[t]
      <4>1. Optional[t] \subseteq Seq(KeyPart)
        BY <2>2, LeavesAreKeys DEF Optional
      <4>2. Path(NoKey) = <<>>
        BY DEF Path
      <4>3. Keys(first) = { <<>> \o k : k \in Optional[t] }
        BY <3>2, <4>2 DEF Keys
      <4>4. \A k \in Optional[t] : <<>> \o k = k
        BY <4>1, ConcatEmptySeq
      <4> QED BY <4>3, <4>4
    <3>4. Gathered'
      BY <2>1, <2>2, <3>1, <3>3 DEF Gathered
    <3> QED BY <1>a, <3>1, <3>4 DEF Returned
  <2>4. CASE Kind[t] # "struct"
    <3>1. answer' = Without("error")
      BY <1>1, <2>4, OpenStep
    <3> QED BY <1>a, <1>w, <3>1, AnswerAssumption DEF Gathered, Returned
  <2> QED BY <2>3, <2>4
<1>2. CASE Close
  BY <1>a, <1>2 DEF Close, Gathered, Returned
<1>3. CASE Finish
  <2>1. /\ UNCHANGED <<input, todo, result>> /\ input # None /\ answer = None
        /\ Works' = Works /\ Works = {}
    BY <1>3 DEF Finish, Flattening, Works, ToSet
  <2>2. Optional[input] = DOMAIN result
    BY <1>0, <2>1 DEF Gathered
  <2>3. Gathered'
    BY <1>0, <2>1 DEF Gathered
  <2>4. Returned' => DOMAIN answer'.parameters = DOMAIN result
    BY <1>0, <2>1 DEF Answered
  <2>5. IndirectInputDocumented'
    BY <2>1, <2>2, <2>4 DEF IndirectInputDocumented, Optional
  <2> QED BY <2>3, <2>5
<1>4. CASE OneCall
  <2>0. /\ todo \in Seq(Work) /\ answer = None /\ input # None /\ input' = input
        /\ Works = {Now} \cup Rest
    BY <1>0, <1>4, OneCallStep, WorksLemma DEF TypeOK, Flattening
  <2>1. CASE Overflows \/ FlattenPanics
    <3>1. \/ answer' = Without("overflow")
          \/ answer' = Without("panic")
      BY <2>1 DEF Overflows, FlattenPanics
    <3>2. ~(Returned')
      BY <1>w, <3>1 DEF Returned
    <3>3. Gathered'
      BY <1>0, <2>0, <2>1 DEF Overflows, FlattenPanics, Gathered, Works
    <3> QED BY <1>a, <3>2, <3>3
  <2>2. ASSUME NEW S, GoesOn(S), Keys(Now) = UNION { Keys(w) : w \in S }
        PROVE  Gathered' /\ IndirectInputDocumented'
    <3>1. answer' = None /\ result' = result /\ Works' = S \cup Rest
      BY <2>0, <2>2 DEF GoesOn
    <3>2. UNION { Keys(w) : w \in Works } = UNION { Keys(w) : w \in Works' }
      BY <2>0, <2>2, <3>1
    <3> HIDE DEF Works
    <3> QED BY <1>0, <1>a, <2>0, <3>1, <3>2 DEF Gathered, Returned
  <2>3. ASSUME NEW keys, Puts(keys), Keys(Now) = keys
        PROVE  Gathered' /\ IndirectInputDocumented'
    <3>1. answer' = None /\ DOMAIN result' = DOMAIN result \cup keys /\ Works' = Rest
      BY <2>0, <2>3 DEF Puts
    <3>2. UNION { Keys(w) : w \in Works } = keys \cup UNION { Keys(w) : w \in Works' }
      BY <2>0, <2>3, <3>1
    <3> HIDE DEF Works
    <3> QED BY <1>0, <1>a, <2>0, <3>1, <3>2 DEF Gathered, Returned
  <2>4. CASE FlattenStruct
    BY <1>0, <1>4, <2>0, <2>1, <2>2, <2>4, FlattenStructStep, CalleesFind DEF Makes
  <2>5. CASE FlattenSlice
    BY <1>0, <1>4, <2>0, <2>1, <2>2, <2>5, FlattenSliceStep, CalleesFind DEF Makes
  <2>6. CASE DrainMap \/ SkipPlain
    BY <1>0, <1>4, <2>0, <2>2, <2>6, NoCallStep, CalleesFind
  <2>7. CASE SetPointer
    <3>1. CASE Kind[Elem[Now.type]] \in Primitive
      BY <1>0, <1>4, <2>0, <2>3, <2>7, <3>1, SetPointerStep, CalleesFind
    <3>2. CASE Kind[Elem[Now.type]] \notin Primitive
      BY <1>0, <1>4, <2>0, <2>1, <2>2, <2>7, <3>2, SetPointerStep, CalleesFind DEF Makes
    <3> QED BY <3>1, <3>2
  <2>8. CASE SetSlice
    <3>1. CASE Kind[Elem[Now.type]] \in Primitive
      BY <1>0, <1>4, <2>0, <2>3, <2>8, <3>1, SetSliceStep, CalleesFind
    <3>2. CASE Kind[Elem[Now.type]] \notin Primitive
      BY <1>0, <1>4, <2>0, <2>1, <2>2, <2>8, <3>2, SetSliceStep, CalleesFind DEF Makes
    <3> QED BY <3>1, <3>2
  <2> QED BY <1>4, <2>1, <2>4, <2>5, <2>6, <2>7, <2>8 DEF OneCall
<1>5. CASE UNCHANGED vars
  BY <1>0, <1>5 DEF vars, Works, Gathered, Returned, IndirectInputDocumented
<1> QED BY <1>1, <1>2, <1>3, <1>4, <1>5 DEF Next, Step, OneCall

\* In a program where types do not contain themselves and no two fields of a struct have
\* the same key, what is documented is all that is optional or repeated, and no more.
THEOREM IndirectDocumented ==
  ASSUME NamesClear, NEW rank \in [Type -> Nat], Descending(rank)
  PROVE  Spec => []IndirectInputDocumented
<1>1. Init => Listed
  <2> SUFFICES ASSUME Init PROVE Listed
    OBVIOUS
  <2>1. input = None /\ answer = None
    BY DEF Init
  <2> QED BY <2>1, AlwaysRight DEF Listed, Gathered, Returned, IndirectInputDocumented
<1>2. Listed /\ [Next]_vars => Listed'
  BY StepListed
<1>3. Listed => IndirectInputDocumented
  BY DEF Listed
<1> QED BY <1>1, <1>2, <1>3, PTL DEF Spec
=============================================================================
