--------------------------- MODULE CatalogueProofs ---------------------------
(***************************************************************************)
(* The registry implements the catalogue it promises, and refuses what has *)
(* a map with a key that is no string.  Both compare with functions that   *)
(* go down a type recursively; what a recursive function is at a type, its *)
(* own definition says.                                                    *)
(***************************************************************************)
EXTENDS RegistryContentProofs, WellFoundedInduction

-----------------------------------------------------------------------------
(* The recursive functions are what their definitions say: such a function *)
(* exists, the smallest one.                                               *)

\* What is below a type is the type and what is below its parts.
LEMMA BelowUnfolds ==
  \A t \in Type : Below[t] = {t} \cup UNION { Below[p] : p \in Parts(t) }
<1> DEFINE Unfolds(f) == f = [t \in Type |-> {t} \cup UNION { f[p] : p \in Parts(t) }]
           Closed(S) == \A u \in S : Parts(u) \subseteq S
           least == [t \in Type |-> { u \in Type : \A S \in SUBSET Type :
                                        t \in S /\ Closed(S) => u \in S }]
<1>1. Unfolds(least)
  <2>1. ASSUME NEW t \in Type
        PROVE  least[t] = {t} \cup UNION { least[p] : p \in Parts(t) }
    <3> DEFINE below == {t} \cup UNION { least[p] : p \in Parts(t) }
    <3>0. Parts(t) \subseteq Type
      BY PartsLemma
    <3>1. below \subseteq least[t]
      BY <3>0
    <3>2. below \in SUBSET Type /\ t \in below
      BY <3>0
    <3>3. Closed(below)
      <4>1. ASSUME NEW u \in below PROVE Parts(u) \subseteq below
        <5>1. CASE u = t
          BY <3>0, <5>1
        <5>2. CASE u # t
          <6>1. PICK p \in Parts(t) : u \in least[p]
            BY <5>2
          <6>2. u \in Type /\ Parts(u) \subseteq Type /\ p \in Type
            BY <3>0, <6>1, PartsLemma
          <6>3. Parts(u) \subseteq least[p]
            BY <6>1, <6>2
          <6>4. least[p] \subseteq below
            OBVIOUS
          <6> QED BY <6>3, <6>4
        <5> QED BY <5>1, <5>2
      <4> QED BY <4>1
    <3>4. least[t] \subseteq below
      BY <3>2, <3>3
    <3> QED BY <3>1, <3>4
  <2> QED BY <2>1
<1> HIDE DEF least
<1>2. Unfolds(CHOOSE f : Unfolds(f))
  BY <1>1
<1>3. Unfolds(Below)
  BY <1>2 DEF Below
<1> QED BY <1>3

\* The component of the type itself, and what a field adds to a struct's needs.
Own(t) == IF Kind[t] \in {"enum", "opaque", "knownComponent", "struct"} THEN {t} ELSE {}

FieldNeeds(f) == IF f.embedded THEN Needs[f.type] \ {f.type} ELSE Needs[f.type]

\* What a type needs is its own component and what its parts need.
LEMMA NeedsUnfolds ==
  \A t \in Type :
    Needs[t] = Own(t) \cup
               (IF Kind[t] = "struct"
                THEN UNION { FieldNeeds(Fields[t][i]) : i \in DOMAIN Fields[t] }
                ELSE UNION { Needs[p] : p \in Parts(t) })
<1> DEFINE field(g, f) == IF f.embedded THEN g[f.type] \ {f.type} ELSE g[f.type]
           parts(g, t) == IF Kind[t] = "struct"
                          THEN UNION { field(g, Fields[t][i]) : i \in DOMAIN Fields[t] }
                          ELSE UNION { g[p] : p \in Parts(t) }
           Unfolds(g) == g = [t \in Type |-> Own(t) \cup parts(g, t)]
           \* g is closed under the rules by which a type is needed.
           Closed(g) == \A t \in Type : Own(t) \cup parts(g, t) \subseteq g[t]
           least == [t \in Type |-> { u \in Type : \A g \in [Type -> SUBSET Type] :
                                        Closed(g) => u \in g[t] }]
<1>0. ASSUME NEW t \in Type
      PROVE  /\ Parts(t) \subseteq Type
             /\ \A i \in DOMAIN Fields[t] : Fields[t][i].type \in Type
             /\ Own(t) \subseteq Type
  <2>1. Fields[t] \in Seq(Field)
    BY TypeAssumption
  <2>2. \A i \in DOMAIN Fields[t] : Fields[t][i] \in Field
    BY <2>1, ElementOfSeq, LenProperties
  <2> QED BY <2>2, PartsLemma DEF Field, Own
<1>1. ASSUME NEW g, NEW h, NEW t \in Type, \A p \in Type : g[p] \subseteq h[p]
      PROVE  parts(g, t) \subseteq parts(h, t)
  BY <1>0, <1>1
<1>2. ASSUME NEW g, NEW t \in Type, \A p \in Type : g[p] \subseteq Type
      PROVE  parts(g, t) \subseteq Type
  BY <1>0, <1>2
<1> HIDE DEF parts
<1>3. least \in [Type -> SUBSET Type]
  OBVIOUS
<1>4. Closed(least)
  <2>1. ASSUME NEW t \in Type, NEW g \in [Type -> SUBSET Type], Closed(g)
        PROVE  Own(t) \cup parts(least, t) \subseteq g[t]
    <3>1. \A p \in Type : least[p] \subseteq g[p]
      BY <2>1
    <3>2. parts(least, t) \subseteq parts(g, t)
      BY <1>1, <3>1
    <3> QED BY <2>1, <3>2
  <2>2. \A t \in Type : Own(t) \cup parts(least, t) \subseteq Type
    BY <1>0, <1>2, <1>3
  <2> QED BY <2>1, <2>2
<1>5. ASSUME NEW t \in Type PROVE least[t] \subseteq Own(t) \cup parts(least, t)
  <2> DEFINE g == [s \in Type |-> Own(s) \cup parts(least, s)]
  <2>1. g \in [Type -> SUBSET Type]
    BY <1>0, <1>2, <1>3
  <2>2. \A s \in Type : g[s] \subseteq least[s]
    BY <1>4
  <2>3. Closed(g)
    <3>1. ASSUME NEW s \in Type PROVE parts(g, s) \subseteq parts(least, s)
      BY <1>1, <2>2
    <3> QED BY <3>1
  <2> HIDE DEF Closed
  <2> QED BY <2>1, <2>3
<1>6. Unfolds(least)
  BY <1>3, <1>4, <1>5
<1> HIDE DEF least
<1>7. Unfolds(CHOOSE g : Unfolds(g))
  BY <1>6
<1>8. Unfolds(Needs)
  BY <1>7 DEF Needs, Own, parts
<1> HIDE DEF Unfolds
<1>9. Needs = [t \in Type |-> Own(t) \cup parts(Needs, t)]
  BY <1>8 DEF Unfolds
<1> QED BY <1>9 DEF parts, FieldNeeds

\* A type that is no pointer is its own pointee.
LEMMA PointeeOfValue ==
  \A t \in Type : Kind[t] # "pointer" => Pointee[t] = t
<1> DEFINE Unfolds(f) == f = [t \in Type |-> IF Kind[t] = "pointer" THEN f[Elem[t]] ELSE t]
           Closed(R) == /\ \A t \in Type : Kind[t] # "pointer" => t \in R[t]
                        /\ \A t \in Type : Kind[t] = "pointer" => R[Elem[t]] \subseteq R[t]
           least == [t \in Type |-> { u \in Type : \A R \in [Type -> SUBSET Type] :
                                        Closed(R) => u \in R[t] }]
           first == [t \in Type |-> CHOOSE u : u \in least[t]]
<1>1. least \in [Type -> SUBSET Type] /\ Closed(least)
  BY TypeAssumption
<1>2. ASSUME NEW t \in Type, NEW S \in SUBSET least[t],
             Kind[t] = "pointer" => \A u \in least[Elem[t]] : u \in S,
             Kind[t] # "pointer" => t \in S
      PROVE  least[t] = S
  <2> DEFINE R == [least EXCEPT ![t] = S]
  <2>1. /\ R \in [Type -> SUBSET Type] /\ R[t] = S
        /\ \A s \in Type : R[s] \subseteq least[s]
        /\ \A s \in Type : s # t => R[s] = least[s]
    BY <1>1
  <2> HIDE DEF R, least
  <2>2. Closed(R)
    <3>1. \A s \in Type : Kind[s] # "pointer" => s \in R[s]
      BY <1>1, <1>2, <2>1
    <3>2. \A s \in Type : Kind[s] = "pointer" => R[Elem[s]] \subseteq R[s]
      BY <1>1, <1>2, <2>1, TypeAssumption
    <3> QED BY <3>1, <3>2
  <2>3. \A u \in least[t] : u \in R[t]
    <3> HIDE DEF Closed
    <3> QED BY <2>1, <2>2 DEF least
  <2> QED BY <1>2, <2>1, <2>3
<1> HIDE DEF least
<1>3. ASSUME NEW t \in Type, Kind[t] # "pointer" PROVE least[t] = {t}
  <2>1. {t} \in SUBSET least[t]
    BY <1>1, <1>3
  <2> QED BY <1>2, <1>3, <2>1
<1>4. ASSUME NEW t \in Type, Kind[t] = "pointer" PROVE least[t] = least[Elem[t]]
  <2>1. least[Elem[t]] \in SUBSET least[t]
    BY <1>1, <1>4
  <2>2. \A u \in least[Elem[t]] : u \in least[Elem[t]]
    OBVIOUS
  <2> QED BY <1>2, <1>4, <2>1, <2>2
<1>5. Unfolds(first)
  <2>1. \A t \in Type : Elem[t] \in Type
    BY TypeAssumption
  <2>2. ASSUME NEW t \in Type
        PROVE  first[t] = IF Kind[t] = "pointer" THEN first[Elem[t]] ELSE t
    <3>1. CASE Kind[t] = "pointer"
      BY <1>4, <2>1, <3>1
    <3>2. CASE Kind[t] # "pointer"
      BY <1>3, <3>2
    <3> QED BY <3>1, <3>2
  <2> QED BY <2>2
<1> HIDE DEF first
<1>6. Unfolds(CHOOSE f : Unfolds(f))
  BY <1>5
<1>7. Unfolds(Pointee)
  BY <1>6 DEF Pointee
<1> QED BY <1>7

-----------------------------------------------------------------------------
(* Types that do not contain themselves: induction along the ranks.        *)

\* Of some types, one has the smallest rank.
LEMMA RankMin ==
  ASSUME NEW rank \in [Type -> Nat], NEW T \in SUBSET Type, T # {}
  PROVE  \E t \in T : \A u \in T : ~(rank[u] < rank[t])
<1> DEFINE Ranks == { rank[t] : t \in T }
<1>1. Ranks \subseteq Nat /\ Ranks # {}
  OBVIOUS
<1>2. PICK m \in Ranks : \A n \in Ranks : ~ (<<n, m>> \in OpToRel(<, Nat))
  BY <1>1, NatLessThanWellFounded, WFMin
<1>3. \A n \in Ranks : ~(n < m)
  BY <1>1, <1>2 DEF OpToRel
<1> QED BY <1>3

\* What is below a type is of smaller rank, but for the type itself, and what is
\* below that is below the type, too.
LEMMA BelowRanked ==
  ASSUME NEW rank \in [Type -> Nat], Descending(rank)
  PROVE  \A t \in Type : \A u \in Below[t] :
           /\ u \in Type
           /\ u = t \/ rank[u] < rank[t]
           /\ Below[u] \subseteq Below[t]
<1> DEFINE Good(t) == \A u \in Below[t] : /\ u \in Type
                                          /\ u = t \/ rank[u] < rank[t]
                                          /\ Below[u] \subseteq Below[t]
           Bad == { t \in Type : ~Good(t) }
<1>1. ASSUME NEW t \in Type, \A p \in Parts(t) : Good(p)
      PROVE  Good(t)
  <2>1. ASSUME NEW u \in Below[t], u # t
        PROVE  /\ u \in Type /\ rank[u] < rank[t]
               /\ Below[u] \subseteq Below[t]
    <3>1. PICK p \in Parts(t) : u \in Below[p]
      BY <2>1, BelowUnfolds
    <3>2. u \in Type /\ (u = p \/ rank[u] < rank[p]) /\ Below[u] \subseteq Below[p]
      BY <1>1, <3>1
    <3>3. p \in Type /\ rank[p] < rank[t] /\ Below[p] \subseteq Below[t]
      BY <3>1, PartsLemma, BelowUnfolds DEF Descending
    <3>4. rank[u] \in Nat /\ rank[p] \in Nat /\ rank[t] \in Nat
      BY <3>2, <3>3
    <3> QED BY <3>2, <3>3, <3>4
  <2> QED BY <2>1
<1> HIDE DEF Good
<1>2. ASSUME Bad # {} PROVE FALSE
  <2>1. PICK t \in Bad : \A u \in Bad : ~(rank[u] < rank[t])
    BY <1>2, RankMin
  <2>2. \A p \in Parts(t) : p \in Type /\ rank[p] < rank[t]
    BY PartsLemma DEF Descending
  <2> QED BY <1>1, <2>1, <2>2
<1> QED BY <1>2 DEF Good

\* A type needs only what is below it.
LEMMA NeedsBelow ==
  ASSUME NEW rank \in [Type -> Nat], Descending(rank)
  PROVE  \A t \in Type : Needs[t] \subseteq Below[t]
<1> DEFINE Bad == { t \in Type : ~(Needs[t] \subseteq Below[t]) }
<1>1. ASSUME NEW t \in Type, \A p \in Parts(t) : Needs[p] \subseteq Below[p]
      PROVE  Needs[t] \subseteq Below[t]
  <2>1. Own(t) \subseteq Below[t]
    BY BelowUnfolds DEF Own
  <2>2. \A p \in Parts(t) : Needs[p] \subseteq Below[t]
    BY <1>1, BelowUnfolds
  <2>3. Kind[t] = "struct" =>
          \A i \in DOMAIN Fields[t] : FieldNeeds(Fields[t][i]) \subseteq Below[t]
    BY <2>2 DEF FieldNeeds, Parts, FieldTypes
  <2> QED BY <2>1, <2>2, <2>3, NeedsUnfolds
<1>2. ASSUME Bad # {} PROVE FALSE
  <2>1. PICK t \in Bad : \A u \in Bad : ~(rank[u] < rank[t])
    BY <1>2, RankMin
  <2>2. \A p \in Parts(t) : p \in Type /\ rank[p] < rank[t]
    BY PartsLemma DEF Descending
  <2> QED BY <1>1, <2>1, <2>2
<1> QED BY <1>2

\* What a needed type needs is needed: an embedded part, which is left out of the
\* needs, is not below any of the types that are left in.
LEMMA NeedsTransitive ==
  ASSUME NEW rank \in [Type -> Nat], Descending(rank)
  PROVE  \A t \in Type : \A u \in Needs[t] : Needs[u] \subseteq Needs[t]
<1> DEFINE Good(t) == \A u \in Needs[t] : Needs[u] \subseteq Needs[t]
           Bad == { t \in Type : ~Good(t) }
<1>1. ASSUME NEW t \in Type, \A p \in Parts(t) : Good(p)
      PROVE  Good(t)
  <2>1. ASSUME NEW u \in Needs[t], u \notin Own(t)
        PROVE  Needs[u] \subseteq Needs[t]
    <3>1. CASE Kind[t] # "struct"
      BY <1>1, <2>1, <3>1, NeedsUnfolds
    <3>2. CASE Kind[t] = "struct"
      <4>1. PICK i \in DOMAIN Fields[t] : u \in FieldNeeds(Fields[t][i])
        BY <2>1, <3>2, NeedsUnfolds
      <4> DEFINE f == Fields[t][i]
      <4>2. f.type \in Parts(t) /\ f.type \in Type
        BY <3>2, PartsLemma DEF Parts, FieldTypes
      <4>3. Needs[u] \subseteq Needs[f.type] /\ u \in Needs[f.type]
        BY <1>1, <4>1, <4>2 DEF FieldNeeds
      <4>4. FieldNeeds(f) \subseteq Needs[t]
        BY <3>2, NeedsUnfolds
      <4>5. f.embedded => f.type \notin Needs[u]
        <5>1. SUFFICES ASSUME u # f.type, f.type \in Needs[u] PROVE FALSE
          BY <4>1 DEF FieldNeeds
        <5>2. u \in Type /\ rank[u] < rank[f.type]
          BY <4>2, <4>3, <5>1, NeedsBelow, BelowRanked
        <5>3. rank[f.type] < rank[u]
          BY <4>2, <5>1, <5>2, NeedsBelow, BelowRanked
        <5>4. rank[u] \in Nat /\ rank[f.type] \in Nat
          BY <4>2, <5>2
        <5> QED BY <5>2, <5>3, <5>4
      <4>6. Needs[u] \subseteq FieldNeeds(f)
        BY <4>3, <4>5 DEF FieldNeeds
      <4> QED BY <4>4, <4>6
    <3> QED BY <3>1, <3>2
  <2> QED BY <2>1 DEF Own
<1> HIDE DEF Good
<1>2. ASSUME Bad # {} PROVE FALSE
  <2>1. PICK t \in Bad : \A u \in Bad : ~(rank[u] < rank[t])
    BY <1>2, RankMin
  <2>2. \A p \in Parts(t) : p \in Type /\ rank[p] < rank[t]
    BY PartsLemma DEF Descending
  <2> QED BY <1>1, <2>1, <2>2
<1> QED BY <1>2 DEF Good


-----------------------------------------------------------------------------
(* The calls on the stack belong to the call of the program.               *)

\* The part that a call waits for.
Awaited(f) == IF Kind[f.type] = "struct" THEN Fields[f.type][f.next].type ELSE Elem[f.type]

\* The type that the result at hand was asked for.
Answered == IF stack = <<>> THEN request.type ELSE Awaited(Top)

\* The first frame is the program's own call, only that one may carry options
\* other than WithNullable, and the loop of a struct ends behind its last field.
Rooted ==
  request # None =>
    /\ [type |-> request.type, opts |-> request.opts] \in Call
    /\ stack # <<>> => stack[1].type = request.type /\ stack[1].opts = request.opts
    /\ \A i \in 1..Len(stack) :
         /\ i > 1 => stack[i].opts \subseteq {"nullable"}
         /\ stack[i].next <= Len(Fields[stack[i].type]) + 1

\* A call waits for one part only.
LEMMA AwaitedLemma ==
  ASSUME NEW f, NEW t, f.type \in Type, WaitsFor(f, t)
  PROVE  t = Awaited(f) /\ t \in Parts(f.type)
  BY DEF WaitsFor, Awaited, Parts

\* The innermost call, when it has been given a result.
LEMMA TopAwaits ==
  ASSUME TypeOK, Shape, stack # <<>>, ret # None
  PROVE  WaitsFor(Top, Awaited(Top)) /\ Awaited(Top) \in Parts(Top.type)
<1>1. PICK t \in Type : WaitsFor(Top, t)
  BY DEF Shape, Top
<1> QED BY <1>1, TopShape, AwaitedLemma

\* What a call that ends was asked for is the type it was called on.
LEMMA EndsAnswers ==
  ASSUME TypeOK, Shape, Rooted, NEW r, Ends(r)
  PROVE  /\ Answered' = Top.type
         /\ stack' = <<>> => /\ Len(stack) = 1 /\ Top = stack[1]
                             /\ Top.type = request.type /\ Top.opts = request.opts
         /\ request' = request /\ request # None
<1> DEFINE n == Len(stack)
<1>1. /\ n \in Nat \ {0} /\ Len(stack') = n - 1 /\ stack # <<>> /\ request' = request
      /\ \A i \in 1..(n - 1) : stack'[i] = stack[i]
      /\ request # None
  BY EndsStack DEF Ends, Returns, Shape
<1>2. stack' \in Seq(Frame)
  BY <1>1, TopLemma DEF Ends, Returns
<1>3. CASE stack' = <<>>
  <2>1. n = 1
    BY <1>1, <1>3, EmptySeq
  <2> QED BY <1>1, <1>3, <2>1 DEF Rooted, Answered, Top
<1>4. CASE stack' # <<>>
  <2>1. n - 1 \in 1..(n - 1)
    <3>1. Len(stack') # 0
      BY <1>2, <1>4, EmptySeq
    <3> QED BY <1>1, <3>1
  <2>2. Top' = stack[n - 1] /\ Top = stack[n] /\ n - 1 \in 1..n
    BY <1>1, <2>1 DEF Top
  <2>3. WaitsFor(stack[n - 1], stack[n].type)
    BY <2>1, <1>1 DEF Shape
  <2>4. stack[n].type = Awaited(stack[n - 1])
    BY <2>2, <2>3, FrameTypes, AwaitedLemma
  <2>5. Answered' = Awaited(Top')
    BY <1>4 DEF Answered, Awaited
  <2> QED BY <1>1, <1>4, <2>2, <2>4, <2>5
<1> QED BY <1>3, <1>4

\* Every step keeps the stack rooted.
LEMMA RootedStep ==
  ASSUME TypeOK, Shape, Rooted, [Next]_vars
  PROVE  Rooted'
<1> DEFINE n == Len(stack)
<1>0. /\ \A i \in 1..n : stack[i].next \in Nat /\ stack[i].type \in Type
      /\ \A t \in Type : Len(Fields[t]) \in Nat
  <2>1. \A t \in Type : Len(Fields[t]) \in Nat
    BY TypeAssumption, LenProperties
  <2>2. \A i \in 1..n : stack[i] \in Frame
    BY ElementOfSeq DEF TypeOK
  <2> QED BY <2>1, <2>2 DEF Frame
<1>1. ASSUME NEW r, Ends(r) PROVE Rooted'
  <2>1. /\ n \in Nat \ {0} /\ Len(stack') = n - 1 /\ request' = request /\ stack # <<>>
        /\ \A i \in 1..(n - 1) : stack'[i] = stack[i] /\ i \in 1..n
    BY <1>1, EndsStack DEF Ends, Returns
  <2>2. stack' \in Seq(Frame)
    BY <1>1, <2>1, TopLemma DEF Ends, Returns
  <2>3. stack' # <<>> => 1 \in 1..(n - 1)
    <3>1. stack' # <<>> => Len(stack') # 0
      BY <2>2, EmptySeq
    <3> QED BY <2>1, <3>1
  <2> QED BY <2>1, <2>3 DEF Rooted
<1>2. ASSUME NEW caller \in Frame, NEW callee \in Frame, Descends(caller, callee)
      PROVE  Rooted'
  <2>1. /\ n \in Nat \ {0} /\ Len(stack') = n + 1 /\ request' = request /\ stack # <<>>
        /\ \A i \in 1..(n - 1) : stack'[i] = stack[i] /\ i \in 1..n
        /\ stack'[n] = caller /\ stack'[n + 1] = callee
    BY <1>2, DescendsStack DEF Descends
  <2>2. /\ caller.type = stack[n].type /\ caller.opts = stack[n].opts
        /\ caller.next = stack[n].next
        /\ callee.opts \subseteq {"nullable"} /\ callee.next = 0 /\ callee.type \in Type
    BY <1>2 DEF Descends, Top, Frame
  <2>3. stack'[1].type = stack[1].type /\ stack'[1].opts = stack[1].opts
    <3> HIDE DEF n
    <3>1. 1 \in 1..(n - 1) \/ n = 1
      BY <2>1
    <3> QED BY <2>1, <2>2, <3>1
  <2>4. ASSUME NEW i \in 1..(n + 1), request # None
        PROVE  /\ i > 1 => stack'[i].opts \subseteq {"nullable"}
               /\ stack'[i].next <= Len(Fields[stack'[i].type]) + 1
    <3>1. i \in 1..(n - 1) \/ i = n \/ i = n + 1
      BY <2>1
    <3>2. CASE i \in 1..(n - 1)
      BY <2>1, <2>4, <3>2 DEF Rooted
    <3>3. CASE i = n
      BY <2>1, <2>2, <2>4, <3>3 DEF Rooted
    <3>4. CASE i = n + 1
      <4>1. 0 <= Len(Fields[callee.type]) + 1
        BY <1>0, <2>2
      <4> QED BY <2>1, <2>2, <3>4, <4>1
    <3> QED BY <3>1, <3>2, <3>3, <3>4
  <2> QED BY <2>1, <2>3, <2>4 DEF Rooted
<1>3. ASSUME NEW frame \in Frame, Takes(frame) \/ Opens(frame) PROVE Rooted'
  <2>1. /\ n \in Nat \ {0} /\ Len(stack') = n /\ request' = request /\ stack # <<>>
        /\ \A i \in 1..(n - 1) : stack'[i] = stack[i] /\ i \in 1..n
        /\ stack'[n] = frame /\ n \in 1..n /\ Top = stack[n]
    BY <1>3, TakesStack DEF Takes, Opens, Top
  <2>2. frame.type = stack[n].type /\ frame.opts = stack[n].opts
    BY <1>3, <2>1 DEF Takes, Opens
  <2>3. frame.next <= Len(Fields[frame.type]) + 1
    <3>1. Len(Fields[frame.type]) \in Nat
      BY <1>0, <2>1, <2>2
    <3>2. CASE Opens(frame)
      BY <3>1, <3>2 DEF Opens
    <3>3. CASE Takes(frame)
      <4>1. Top.next \in DOMAIN Fields[Top.type] /\ frame.next = Top.next + 1
        BY <3>3, TopAwaits DEF Takes, WaitsFor
      <4>2. Fields[Top.type] \in Seq(Field)
        BY <1>0, <2>1, TypeAssumption
      <4>3. Top.next \in 1..Len(Fields[Top.type])
        BY <4>1, <4>2, LenProperties
      <4> QED BY <2>1, <2>2, <3>1, <4>1, <4>3
    <3> QED BY <1>3, <3>2, <3>3
  <2>4. stack'[1].type = stack[1].type /\ stack'[1].opts = stack[1].opts
    <3>1. 1 \in 1..(n - 1) \/ n = 1
      BY <2>1
    <3> QED BY <2>1, <2>2, <3>1
  <2>5. \A i \in 1..n : i \in 1..(n - 1) \/ i = n
    BY <2>1
  <2> QED BY <2>1, <2>2, <2>3, <2>4, <2>5 DEF Rooted
<1>4. ASSUME NEW frame \in Frame, Starts(frame) PROVE Rooted'
  <2>1. PICK c \in Call : /\ frame.type = c.type /\ frame.opts = c.opts
                          /\ request' = [ type |-> c.type, opts |-> c.opts,
                                          before |-> DOMAIN models ]
    BY <1>4 DEF Starts
  <2>2. [type |-> c.type, opts |-> c.opts] = c /\ frame.type \in Type
    BY <2>1, CallAssumption
  <2>3. stack' = <<frame>> /\ frame.next = 0
    BY <1>4 DEF Starts
  <2>4. Len(stack') = 1 /\ stack'[1] = frame
    BY <2>3
  <2>5. 0 <= Len(Fields[frame.type]) + 1
    BY <1>0, <2>2
  <2> QED BY <2>1, <2>2, <2>3, <2>4, <2>5 DEF Rooted
<1>5. CASE ResetMove
  BY <1>5 DEF ResetMove, Rooted
<1>6. CASE IdleMove
  BY <1>6 DEF IdleMove, Rooted
<1> QED BY <1>1, <1>2, <1>3, <1>4, <1>5, <1>6, Ways


-----------------------------------------------------------------------------
(* What has a map with a key that is no string is refused.                 *)

Clean(t) == \A u \in Below[t] : Kind[u] # "badmap"

\* All that is published or handed on is clean, and so are the fields that the
\* structs that are being registered have got behind them.
Checked ==
  /\ \A n \in DOMAIN models : Clean(models[n].of)
  /\ \A i \in 1..Len(stack) : \A j \in 1..(stack[i].next - 1) :
       Clean(Fields[stack[i].type][j].type)
  /\ ret # None /\ ~ret.err => Clean(ret.type) /\ Clean(Answered)

\* What has clean parts and is no such map is clean.
LEMMA CleanParts ==
  ASSUME NEW t \in Type, Kind[t] # "badmap", \A p \in Parts(t) : Clean(p)
  PROVE  Clean(t)
  BY BelowUnfolds DEF Clean

\* A call that ends without an error was on a clean type.
LEMMA EndsClean ==
  ASSUME TypeOK, Shape, NamesTell, NEW refused, Refusing(refused), Wholly(refused),
         Told, Rooted, Checked, NEW r \in Return, Ends(r), ~r.err
  PROVE  Clean(Top.type) /\ Clean(r.type)
<1> DEFINE n == Len(stack)
<1>1. stack # <<>> /\ n \in 1..n /\ Top = stack[n] /\ Top.type \in Type
  BY EndsStack, TopShape DEF Ends, Top
<1>2. CASE Found(r)
  <2>1. Top.name \in DOMAIN models /\ r.type = Top.type /\ r.schema = models[Top.name]
    BY <1>2 DEF Found
  <2>2. r.schema.of = r.type
    BY EndsTold
  <2> QED BY <2>1, <2>2 DEF Checked
<1>3. CASE Made(r)
  <2>1. Kind[Top.type] \notin {"badmap", "pointer"} /\ r.type = Top.type
    BY <1>3 DEF Made, Complete
  <2>2. ASSUME NEW p \in Parts(Top.type) PROVE Clean(p)
    <3>1. CASE Kind[Top.type] = "struct"
      <4>1. Top.next > Len(Fields[Top.type]) /\ Top.next \in Nat
        BY <1>1, <1>3, <3>1, TopLemma DEF Made, Complete, Frame
      <4>2. PICK j \in DOMAIN Fields[Top.type] : p = Fields[Top.type][j].type
        BY <2>2, <3>1 DEF Parts, FieldTypes
      <4>3. Fields[Top.type] \in Seq(Field)
        BY <1>1, TypeAssumption
      <4>4. j \in 1..Len(Fields[Top.type]) /\ Len(Fields[Top.type]) \in Nat
        BY <4>2, <4>3, LenProperties
      <4>5. j \in 1..(Top.next - 1)
        BY <4>1, <4>4
      <4> QED BY <1>1, <4>2, <4>5 DEF Checked
    <3>2. CASE Kind[Top.type] \in {"slice", "map"}
      <4>1. ret # None /\ ~ret.err
        BY <1>3, <3>2 DEF Made, Complete
      <4> QED BY <1>1, <2>2, <3>2, <4>1 DEF Checked, Answered, Awaited, Parts
    <3> QED BY <2>1, <2>2, <3>1, <3>2 DEF Parts
  <2> QED BY <1>1, <2>1, <2>2, CleanParts
<1>4. CASE Passed(r)
  <2>1. Kind[Top.type] = "pointer" /\ ret # None /\ ~ret.err /\ r.type = ret.type
    BY <1>4, PointersGetNoError DEF Passed
  <2>2. \A p \in Parts(Top.type) : Clean(p)
    BY <1>1, <2>1 DEF Checked, Answered, Awaited, Parts
  <2>3. Clean(ret.type)
    BY <2>1 DEF Checked
  <2> QED BY <1>1, <2>1, <2>2, <2>3, CleanParts
<1> QED BY <1>2, <1>3, <1>4 DEF Ends, Stopped

\* Every step keeps it so.
LEMMA CheckedStep ==
  ASSUME TypeOK, Shape, NamesTell, NEW refused, Refusing(refused), Wholly(refused),
         Told, Rooted, Checked, [Next]_vars
  PROVE  Checked'
<1> DEFINE n == Len(stack)
           Behind(f) == \A j \in 1..(f.next - 1) : Clean(Fields[f.type][j].type)
<1>0. \A i \in 1..n : Behind(stack[i])
  BY DEF Checked
<1>1. ASSUME NEW m \in DOMAIN models' PROVE Clean(models'[m].of)
  <2>1. CASE m \in DOMAIN models /\ models'[m] = models[m]
    BY <2>1 DEF Checked
  <2>2. ASSUME NEW r \in Return, Ends(r), Made(r) \/ Passed(r), r.schema.component,
               models'[m] = r.schema
        PROVE  Clean(models'[m].of)
    <3>1. ~r.err
      BY <2>2, PointersGetNoError DEF Made, Passed
    <3>2. r.schema.of = r.type /\ Clean(r.type)
      BY <2>2, <3>1, EndsTold, EndsClean
    <3> QED BY <2>2, <3>2
  <2> QED BY <2>1, <2>2, WaysModels
<1>2. ASSUME NEW r \in Return, Ends(r) PROVE Checked'
  <2>1. /\ Len(stack') = n - 1 /\ ret' = r /\ n \in Nat
        /\ \A i \in 1..(n - 1) : stack'[i] = stack[i] /\ i \in 1..n
    BY <1>2, EndsStack
  <2>2. ~r.err => Clean(r.type) /\ Clean(Answered')
    BY <1>2, EndsClean, EndsAnswers
  <2>3. \A i \in 1..Len(stack') : Behind(stack'[i])
    BY <1>0, <2>1
  <2> HIDE DEF Behind
  <2>4. Clean(Answered') => Clean(Answered)'
    BY DEF Clean
  <2> QED BY <1>1, <2>1, <2>2, <2>3, <2>4 DEF Checked, Behind, Clean
<1>3. ASSUME NEW caller \in Frame, NEW callee \in Frame, Descends(caller, callee)
      PROVE  Checked'
  <2>1. /\ n \in Nat \ {0} /\ Len(stack') = n + 1 /\ ret' = None
        /\ \A i \in 1..(n - 1) : stack'[i] = stack[i] /\ i \in 1..n
        /\ stack'[n] = caller /\ stack'[n + 1] = callee /\ n \in 1..n
    BY <1>3, DescendsStack DEF Descends
  <2>2. Behind(caller) /\ Behind(callee)
    <3>1. caller.type = stack[n].type /\ caller.next = stack[n].next /\ callee.next = 0
      BY <1>3 DEF Descends, Top
    <3>2. \A j : j \notin 1..(0 - 1)
      OBVIOUS
    <3> QED BY <1>0, <2>1, <3>1, <3>2
  <2>3. \A i \in 1..(n + 1) : Behind(stack'[i])
    <3>1. \A i \in 1..(n + 1) : i \in 1..(n - 1) \/ i = n \/ i = n + 1
      BY <2>1
    <3> HIDE DEF Behind
    <3> QED BY <1>0, <2>1, <2>2, <3>1
  <2> QED BY <1>1, <2>1, <2>3 DEF Checked, Clean
<1>4. ASSUME NEW frame \in Frame, Takes(frame) \/ Opens(frame) PROVE Checked'
  <2>1. /\ n \in Nat \ {0} /\ Len(stack') = n /\ ret' = None /\ stack # <<>>
        /\ \A i \in 1..(n - 1) : stack'[i] = stack[i] /\ i \in 1..n
        /\ stack'[n] = frame /\ n \in 1..n /\ Top = stack[n]
    BY <1>4, TakesStack DEF Takes, Opens, Top
  <2>2. Behind(frame)
    <3>1. CASE Opens(frame)
      <4>1. frame.next = 1 /\ \A j : j \notin 1..(1 - 1)
        BY <3>1 DEF Opens
      <4> QED BY <4>1
    <3>2. CASE Takes(frame)
      <4>1. /\ ret # None /\ ~ret.err /\ Kind[Top.type] = "struct"
            /\ frame.type = Top.type /\ frame.next = Top.next + 1
        BY <3>2 DEF Takes
      <4>2. Clean(Fields[Top.type][Top.next].type)
        BY <2>1, <4>1 DEF Checked, Answered, Awaited
      <4>3. Top.next \in Nat
        BY <2>1, TopLemma DEF Frame
      <4>4. \A j \in 1..(frame.next - 1) : j \in 1..(Top.next - 1) \/ j = Top.next
        BY <4>1, <4>3
      <4>5. Behind(Top)
        BY <1>0, <2>1
      <4> QED BY <4>1, <4>2, <4>4, <4>5
    <3> QED BY <1>4, <3>1, <3>2
  <2>3. \A i \in 1..n : Behind(stack'[i])
    <3>1. \A i \in 1..n : i \in 1..(n - 1) \/ i = n
      BY <2>1
    <3> HIDE DEF Behind
    <3> QED BY <1>0, <2>1, <2>2, <3>1
  <2> QED BY <1>1, <2>1, <2>3 DEF Checked, Clean
<1>5. ASSUME NEW frame \in Frame, Starts(frame) PROVE Checked'
  <2>1. stack' = <<frame>> /\ frame.next = 0 /\ ret' = None
    BY <1>5 DEF Starts
  <2>2. Len(stack') = 1 /\ stack'[1] = frame /\ \A j : j \notin 1..(0 - 1)
    BY <2>1
  <2> QED BY <1>1, <2>1, <2>2 DEF Checked, Clean
<1>6. CASE ResetMove
  <2>1. stack' = <<>> /\ ret' = None
    BY <1>6 DEF ResetMove
  <2>2. Len(stack') = 0
    BY <2>1, EmptySeq
  <2> QED BY <1>1, <2>1, <2>2 DEF Checked, Clean
<1>7. CASE IdleMove
  BY <1>7 DEF IdleMove, Checked, Clean, Answered, Awaited, Top
<1> QED BY <1>2, <1>3, <1>4, <1>5, <1>6, <1>7, Ways

\* In a program in which names tell types, that embeds no pointers, and that has
\* what is refused behind no pointer, no call is answered without an error whose
\* type has a map with a key that is no string somewhere below it: neither by a
\* call that looked at that map, nor by one that found a component.
THEOREM MapsRefused ==
  ASSUME EmbedsByValue, NamesTell, NEW refused, Refusing(refused)
  PROVE  Spec => []MapKeysChecked
<1> DEFINE IInv == TypeOK /\ Shape /\ Wholly(refused) /\ Told /\ Rooted /\ Checked
<1>1. Init => IInv
  <2>1. ASSUME Init PROVE Wholly(refused) /\ Told /\ Rooted /\ Checked
    <3>1. Len(stack) = 0 /\ ret = None /\ DOMAIN models = {} /\ request = None
      BY <2>1, EmptySeq DEF Init
    <3>2. Held = {}
      BY <3>1 DEF Held
    <3> QED BY <3>1, <3>2 DEF Wholly, OnlyWholeComponents, Told, Rooted, Checked
  <2> QED BY <2>1, ShapeInit
<1>2. IInv /\ [Next]_vars => IInv'
  BY ShapeStep, WhollyStep, ToldStep, RootedStep, CheckedStep
<1>3. IInv => MapKeysChecked
  BY DEF Checked, Answered, Clean, MapKeysChecked
<1> QED BY <1>1, <1>2, <1>3, PTL DEF Spec


-----------------------------------------------------------------------------
(* What there is in the registry, type by type.                            *)

Present == { models[n].of : n \in DOMAIN models }

\* What there was when the program made its call.
Base == { models[n].of : n \in request.before }

\* What the fields need that a struct's call is done with.
Done(f) == UNION { FieldNeeds(Fields[f.type][j]) : j \in 1..(f.next - 1) }

\* What the first i calls on the stack are done with.
Upto(i) == Base \cup UNION { Done(stack[j]) : j \in 1..i }

\* What the call that returned last has brought.
Granted == Needs[Answered] \cup (IF stack = <<>> THEN MadeEnum(request) ELSE {})

NeedsClosed(S) == \A t \in S : Needs[t] \subseteq S

\* The call waits for a part it embeds.
Embeds(f) == Kind[f.type] = "struct" /\ Fields[f.type][f.next].embedded

\* All that was looked at is below the type that the program registers, and some
\* map was refused if there is an error.
Within ==
  /\ Present \subseteq Base \cup Below[request.type]
  /\ \A i \in 1..Len(stack) : stack[i].type \in Below[request.type]
  /\ ret # None /\ ret.err => \E t \in Below[request.type] : Kind[t] = "badmap"

\* alreadyExists, read before the call on an embedded part, still says when that
\* call has returned whether the part belongs to what was there before it.
Foreseen ==
  \A i \in 1..Len(stack) : Waiting(i) /\ Embeds(stack[i]) =>
    (stack[i].existed <=> Awaited(stack[i]) \in Upto(i))

\* As long as there is no error the registry has what it had, what the calls in
\* progress are done with, and what the call that returned last has brought.
Filled ==
  ~(ret # None /\ ret.err) =>
    Present = Upto(Len(stack)) \cup (IF ret = None THEN {} ELSE Granted)

Accounted ==
  /\ NeedsClosed(Present)
  /\ request # None => NeedsClosed(Base) /\ Within /\ Foreseen /\ Filled

\* What a field needs, needs nothing else.
LEMMA FieldNeedsClosed ==
  ASSUME NEW rank \in [Type -> Nat], Descending(rank),
         NEW f, f.type \in Type
  PROVE  NeedsClosed(FieldNeeds(f))
<1>1. SUFFICES ASSUME NEW u \in FieldNeeds(f) PROVE Needs[u] \subseteq FieldNeeds(f)
  BY DEF NeedsClosed
<1>2. u \in Needs[f.type] /\ Needs[u] \subseteq Needs[f.type]
  BY NeedsTransitive DEF FieldNeeds
<1>3. f.embedded => f.type \notin Needs[u]
  <2>1. SUFFICES ASSUME u # f.type, f.type \in Needs[u] PROVE FALSE
    BY <1>1 DEF FieldNeeds
  <2>2. u \in Type /\ rank[u] < rank[f.type]
    BY <1>2, <2>1, NeedsBelow, BelowRanked
  <2>3. rank[f.type] < rank[u]
    BY <2>1, <2>2, NeedsBelow, BelowRanked
  <2>4. rank[u] \in Nat /\ rank[f.type] \in Nat
    BY <2>2
  <2> QED BY <2>2, <2>3, <2>4
<1> QED BY <1>2, <1>3 DEF FieldNeeds

\* A type that has a name of its own is present when there is an entry by it.
LEMMA NamedPresent ==
  ASSUME TypeOK, NamesTell, Told, NEW t \in Type, GoName[t] # NoName
  PROVE  /\ Named(t) \in DOMAIN models <=> t \in Present
         /\ \A n \in DOMAIN models : models[n].of = t <=> n = Named(t)
<1>1. ASSUME NEW n \in DOMAIN models PROVE models[n].of = t <=> n = Named(t)
  <2>1. n = Named(models[n].of) /\ models[n].of \in Type
    BY DEF Told, TypeOK, Schema
  <2> QED BY <2>1 DEF NamesTell, Named
<1> QED BY <1>1 DEF Present

\* What there was when the program made its call is still the same.
LEMMA BaseStays ==
  ASSUME request # None, Kept, Kept', StaysAsFiled, request' = request
  PROVE  Base' = Base
<1>1. ASSUME NEW n \in request.before PROVE models'[n].of = models[n].of
  BY DEF Kept, StaysAsFiled
<1> QED BY <1>1 DEF Base

\* The fields a frame is done with are fields.
LEMMA DoneFields ==
  ASSUME TypeOK, Shape, Rooted, request # None, NEW i \in 1..Len(stack),
         NEW j \in 1..(stack[i].next - 1)
  PROVE  /\ stack[i].type \in Type /\ Kind[stack[i].type] = "struct"
         /\ j \in DOMAIN Fields[stack[i].type]
         /\ Fields[stack[i].type][j].type \in Type
<1>0. stack[i] \in Frame
  BY ElementOfSeq DEF TypeOK
<1>1. stack[i].type \in Type /\ stack[i].next \in Nat
  BY <1>0 DEF Frame
<1>2. stack[i].next > 0
  BY <1>1
<1>3. Fields[stack[i].type] \in Seq(Field)
  BY <1>1, TypeAssumption
<1>4. stack[i].next <= Len(Fields[stack[i].type]) + 1 /\ Len(Fields[stack[i].type]) \in Nat
  BY <1>3, LenProperties DEF Rooted
<1>5. j \in 1..Len(Fields[stack[i].type])
  BY <1>1, <1>4
<1>6. Fields[stack[i].type][j] \in Field
  BY <1>3, <1>5, ElementOfSeq
<1> QED BY <1>1, <1>2, <1>3, <1>5, <1>6, LenProperties DEF Shape, Field

\* What the first calls are done with needs nothing else.
LEMMA UptoClosed ==
  ASSUME TypeOK, Shape, Rooted, request # None, NeedsClosed(Base),
         NEW rank \in [Type -> Nat], Descending(rank), NEW i \in 0..Len(stack)
  PROVE  NeedsClosed(Upto(i))
<1>1. ASSUME NEW t \in Upto(i), t \notin Base PROVE Needs[t] \subseteq Upto(i)
  <2>1. PICK j \in 1..i : t \in Done(stack[j])
    BY <1>1 DEF Upto
  <2>2. PICK k \in 1..(stack[j].next - 1) : t \in FieldNeeds(Fields[stack[j].type][k])
    BY <2>1 DEF Done
  <2>3. j \in 1..Len(stack)
    BY DEF TypeOK
  <2>4. NeedsClosed(FieldNeeds(Fields[stack[j].type][k]))
    BY <2>3, DoneFields, FieldNeedsClosed
  <2> QED BY <2>2, <2>4 DEF NeedsClosed, Upto, Done
<1> QED BY <1>1 DEF NeedsClosed, Upto

\* The innermost call counted apart.
LEMMA UptoTop ==
  ASSUME TypeOK, stack # <<>>
  PROVE  Upto(Len(stack)) = Upto(Len(stack) - 1) \cup Done(Top)
<1> DEFINE n == Len(stack)
<1>1. n \in Nat \ {0}
  BY TopLemma
<1> HIDE DEF n
<1>2. 1..n = 1..(n - 1) \cup {n}
  BY <1>1
<1> QED BY <1>2 DEF Upto, Top, n

\* Calls that are done with the same count the same.
LEMMA UptoStays ==
  ASSUME Base' = Base, NEW k, \A j \in 1..k : Done(stack'[j]) = Done(stack[j]),
         NEW i, 1..i \subseteq 1..k
  PROVE  Upto(i)' = Upto(i)
  BY DEF Upto, Done


-----------------------------------------------------------------------------
(* A call that ends has brought what its type needs.                       *)

\* What WithEnumValues makes a component.
LEMMA MadeEnumOfTop ==
  ASSUME TypeOK, Shape, stack # <<>>, Candid(Top),
         Top.type = request.type, Top.opts = request.opts
  PROVE  MadeEnum(request) =
           IF "enum" \in Top.opts /\ Kind[Top.type] \notin {"known", "file"}
           THEN {Top.type} ELSE {}
<1>1. Top.type \in Type
  BY TopShape
<1> QED BY <1>1, PointeeOfValue DEF MadeEnum, Candid

\* A call that is complete is done with all that its type needs but the type.
LEMMA CompleteNeeds ==
  ASSUME TypeOK, Shape, Rooted, stack # <<>>, Complete
  PROVE  /\ ret = None \/ ~ret.err
         /\ Needs[Top.type] = Own(Top.type) \cup Done(Top) \cup
                              (IF ret = None THEN {} ELSE Needs[Awaited(Top)])
<1> DEFINE t == Top.type
<1>1. t \in Type /\ Top.next \in Nat /\ Len(stack) \in 1..Len(stack) /\ Top = stack[Len(stack)]
  BY TopLemma, TopShape DEF Frame, Top
<1>2. request # None
  BY DEF Shape
<1>3. Kind[t] \notin {"badmap", "pointer"} /\ Kind[t] \in Kinds
  BY <1>1, TypeAssumption DEF Complete
<1>4. CASE Kind[t] = "struct"
  <2>1. Top.next > Len(Fields[t])
    BY <1>4 DEF Complete
  <2>2. Fields[t] \in Seq(Field)
    BY <1>1, TypeAssumption
  <2>3. DOMAIN Fields[t] = 1..Len(Fields[t]) /\ Len(Fields[t]) \in Nat
    BY <2>2, LenProperties
  <2>4. Top.next <= Len(Fields[t]) + 1
    BY <1>1, <1>2 DEF Rooted
  <2>5. 1..(Top.next - 1) = DOMAIN Fields[t]
    BY <1>1, <2>1, <2>3, <2>4
  <2>6. ret = None
    <3>1. ASSUME ret # None PROVE FALSE
      <4>1. Top.next \in DOMAIN Fields[t]
        BY <1>4, <3>1, TopAwaits DEF WaitsFor
      <4> QED BY <1>1, <2>1, <2>3, <4>1
    <3> QED BY <3>1
  <2> QED BY <1>1, <1>4, <2>5, <2>6, NeedsUnfolds DEF Done
<1>5. CASE Kind[t] # "struct"
  <2>1. Top.next = 0
    BY <1>1, <1>5 DEF Shape
  <2>2. Done(Top) = {}
    <3>1. \A j : j \notin 1..(0 - 1)
      OBVIOUS
    <3> QED BY <2>1, <3>1 DEF Done
  <2>3. CASE Kind[t] \in {"slice", "map"}
    <3>1. ret # None /\ ~ret.err
      BY <2>3 DEF Complete
    <3> QED BY <1>1, <1>5, <2>2, <2>3, <3>1, NeedsUnfolds DEF Awaited, Parts
  <2>4. CASE Kind[t] \notin {"slice", "map"}
    <3>1. Parts(t) = {}
      BY <1>3, <1>5, <2>4 DEF Parts
    <3>2. ret = None
      BY <3>1, TopAwaits
    <3> QED BY <1>1, <1>5, <2>2, <3>1, <3>2, NeedsUnfolds
  <2> QED BY <2>3, <2>4
<1> QED BY <1>4, <1>5

\* A call that ends without an error leaves in the registry what there was before
\* it, what its type needs, and what WithEnumValues makes of it.
LEMMA EndsGrants ==
  ASSUME TypeOK, Shape, NamesTell,
         NEW refused, Refusing(refused), Wholly(refused), Told, Settled, Rooted,
         Accounted, NEW r \in Return, Ends(r), ~r.err
  PROVE  Present' = Upto(Len(stack) - 1) \cup Needs[Top.type] \cup
                    (IF stack' = <<>> THEN MadeEnum(request) ELSE {})
<1> DEFINE n == Len(stack)
           t == Top.type
           made == IF stack' = <<>> THEN MadeEnum(request) ELSE {}
           before == Upto(n - 1)
<1>1. stack # <<>> /\ n \in 1..n /\ Top = stack[n] /\ t \in Type /\ Candid(Top)
      /\ NamedFor(Top.name, t) /\ Top.next \in Nat
  BY EndsStack, TopShape, TopLemma DEF Ends, Top, Told, Frame
<1>2. request # None /\ Rooted /\ Filled /\ NeedsClosed(Present)
  BY EndsAnswers DEF Accounted
<1>3. made = IF stack' = <<>> /\ "enum" \in Top.opts /\ Kind[t] \notin {"known", "file"}
             THEN {t} ELSE {}
  BY <1>1, EndsAnswers, MadeEnumOfTop
<1>4. Upto(n) = before \cup Done(Top)
  BY <1>1, UptoTop
<1> HIDE DEF made, before
<1>5. CASE Found(r)
  <2>1. /\ ret = None /\ Top.next = 0 /\ Top.name \in DOMAIN models /\ models' = models
        /\ models[Top.name].of = t
    BY <1>5, EndsTold DEF Found
  <2>2. Done(Top) = {}
    <3>1. \A j : j \notin 1..(0 - 1)
      OBVIOUS
    <3> QED BY <2>1, <3>1 DEF Done
  <2>3. Present = before /\ t \in Present
    BY <1>2, <1>4, <2>1, <2>2 DEF Filled, Present
  <2>4. Needs[t] \subseteq Present
    BY <1>2, <2>3 DEF NeedsClosed
  <2>5. Present' = Present
    BY <2>1 DEF Present
  <2> QED BY <1>3, <2>3, <2>4, <2>5 DEF made, before
<1>6. CASE Made(r)
  <2>1. /\ Complete /\ r.schema.of = t /\ r.name = Top.name /\ Files(r)
        /\ r.schema.component <=> Worthy(Top)
        /\ Top.name \notin DOMAIN models
    <3>1. Top.name \notin DOMAIN models
      BY <1>1, <1>6 DEF Made, Settled, Waiting
    <3> QED BY <1>1, <1>6, <3>1 DEF Made, Candid
  <2>2. /\ ret = None \/ ~ret.err
        /\ Needs[t] = Own(t) \cup Done(Top) \cup
                      (IF ret = None THEN {} ELSE Needs[Awaited(Top)])
    BY <1>1, <2>1, CompleteNeeds
  <2>3. Present = before \cup Done(Top) \cup
                  (IF ret = None THEN {} ELSE Needs[Awaited(Top)])
    BY <1>1, <1>2, <1>4, <2>2 DEF Filled, Granted, Answered
  <2>4. Present' = Present \cup (IF Worthy(Top) THEN {t} ELSE {})
    <3>1. CASE Worthy(Top)
      <4>1. /\ DOMAIN models' = DOMAIN models \cup {Top.name}
            /\ models'[Top.name] = r.schema
            /\ \A m \in DOMAIN models : models'[m] = models[m]
        BY <2>1, <3>1 DEF Files, Filed
      <4> QED BY <2>1, <3>1, <4>1 DEF Present
    <3>2. CASE ~Worthy(Top)
      BY <2>1, <3>2 DEF Files, Present
    <3> QED BY <3>1, <3>2
  <2>5. (IF Worthy(Top) THEN {t} ELSE {}) = Own(t) \cup made
    <3>1. Worthy(Top) <=> \/ Kind[t] \in {"enum", "opaque", "knownComponent", "struct"}
                          \/ "enum" \in Top.opts /\ Kind[t] \notin {"known", "file"}
      BY <1>1 DEF Worthy, Candid
    <3>2. "enum" \in Top.opts => stack' = <<>>
      <4>1. ASSUME "enum" \in Top.opts PROVE n = 1
        <5>1. ~(n > 1)
          BY <1>1, <1>2, <4>1 DEF Rooted
        <5>2. n \in Nat \ {0}
          BY <1>1, TopLemma
        <5> HIDE DEF n
        <5> QED BY <5>1, <5>2
      <4>2. n = 1 => stack' = <<>>
        <5>1. stack' \in Seq(Frame) /\ Len(stack') = n - 1
          BY <1>1, EndsStack, TopLemma DEF Ends, Returns
        <5> QED BY <5>1, EmptySeq
      <4> QED BY <4>1, <4>2
    <3> QED BY <1>3, <3>1, <3>2 DEF Own
  <2> QED BY <2>2, <2>3, <2>4, <2>5 DEF made, before
<1>7. CASE Passed(r)
  <2>1. /\ Kind[t] = "pointer" /\ ret # None /\ ~ret.err
        /\ r.name = ret.name /\ r.schema.of = ret.schema.of /\ Files(r)
        /\ r.schema.component <=> ret.schema.component
    BY <1>1, <1>7, PointersGetNoError DEF Passed, Candid
  <2>2. Done(Top) = {}
    <3>1. Top.next = 0
      BY <1>1, <2>1 DEF Shape
    <3>2. \A j : j \notin 1..(0 - 1)
      OBVIOUS
    <3> QED BY <3>1, <3>2 DEF Done
  <2>3. Present = before \cup Needs[Elem[t]]
    BY <1>1, <1>2, <1>4, <2>1, <2>2 DEF Filled, Granted, Answered, Awaited
  <2>4. Present' = Present
    <3>1. r.schema.component => r.name \in DOMAIN models /\ models[r.name].of = r.schema.of
      BY <2>1 DEF Settled
    <3> QED BY <2>1, <3>1 DEF Files, Filed, Present
  <2>5. Needs[t] = Needs[Elem[t]]
    <3>1. Parts(t) = {Elem[t]} /\ Own(t) = {}
      BY <2>1 DEF Own, Parts
    <3>2. Needs[t] = UNION { Needs[p] : p \in {Elem[t]} }
      BY <1>1, <2>1, <3>1, NeedsUnfolds
    <3> QED BY <3>2
  <2>6. made = {}
    BY <1>1, <1>3, <2>1 DEF Candid
  <2> QED BY <2>3, <2>4, <2>5, <2>6 DEF made, before
<1> QED BY <1>5, <1>6, <1>7 DEF Ends, Stopped


-----------------------------------------------------------------------------
(* Every step keeps the account.                                           *)

\* A type that becomes present is the one that the innermost call was on.
LEMMA PresentStep ==
  ASSUME TypeOK, Shape, NEW refused, Refusing(refused), Wholly(refused), Told,
         Settled, [Next]_vars, NEW u \in Present', u \notin Present
  PROVE  \E r \in Return : Ends(r) /\ u = Top.type
<1>1. PICK m \in DOMAIN models' : u = models'[m].of
  BY DEF Present
<1>2. PICK r \in Return : /\ Ends(r)
                          /\ Made(r) \/ Passed(r)
                          /\ r.schema.component /\ models'[m] = r.schema
  BY <1>1, WaysModels DEF Present
<1>3. Candid(Top) /\ stack # <<>>
  <2>1. Len(stack) \in 1..Len(stack) /\ stack # <<>>
    BY <1>2, EndsStack DEF Ends
  <2> QED BY <2>1 DEF Told, Top
<1>4. CASE Made(r)
  BY <1>1, <1>2, <1>3, <1>4 DEF Made, Candid
<1>5. CASE Passed(r)
  <2>1. /\ ret # None /\ r.schema.of = ret.schema.of /\ ret.schema.component
        /\ ~ret.err
    BY <1>2, <1>3, <1>5, PointersGetNoError DEF Passed, Candid
  <2>2. ret.schema.of \in Present
    BY <2>1 DEF Settled, Present
  <2> QED BY <1>1, <1>2, <2>1, <2>2
<1> QED BY <1>2, <1>4, <1>5

\* An end with an error files nothing.
LEMMA ErrorFilesNothing ==
  ASSUME TypeOK, Shape, NEW refused, Refusing(refused), Wholly(refused),
         NEW r \in Return, Ends(r), r.err
  PROVE  Stopped(r) /\ models' = models
  BY PointersGetNoError DEF Ends, Found, Made, Passed, Stopped

\* The registry stays within the type that is registered.
LEMMA WithinStep ==
  ASSUME TypeOK, Shape, NEW rank \in [Type -> Nat], Descending(rank),
         NEW refused, Refusing(refused), Wholly(refused), Told, Settled,
         Within, request # None, request' = request, Base' = Base, [Next]_vars
  PROVE  Within'
<1> DEFINE n == Len(stack)
           below == Below[request.type]
<1>0. request.type \in Type /\ Below' = Below
  BY DEF TypeOK, Request
<1>1. stack # <<>> => /\ Top.type \in below /\ Top.type \in Type /\ n \in 1..n
                      /\ Top = stack[n]
  BY TopLemma, TopShape DEF Within, Top
<1>2. Present' \subseteq Base \cup below
  BY <1>1, PresentStep DEF Within, Ends
<1>3. ASSUME NEW r \in Return, Ends(r) PROVE Within'
  <2>1. /\ Len(stack') = n - 1 /\ ret' = r /\ n \in Nat
        /\ \A i \in 1..(n - 1) : stack'[i] = stack[i] /\ i \in 1..n
    BY <1>3, EndsStack
  <2>2. r.err => \E t \in below : Kind[t] = "badmap"
    BY <1>1, <1>3, ErrorFilesNothing DEF Within, Stopped, Ends
  <2> QED BY <1>2, <2>1, <2>2 DEF Within
<1>4. ASSUME NEW caller \in Frame, NEW callee \in Frame, Descends(caller, callee)
      PROVE  Within'
  <2>1. /\ n \in Nat \ {0} /\ Len(stack') = n + 1 /\ ret' = None /\ stack # <<>>
        /\ \A i \in 1..(n - 1) : stack'[i] = stack[i] /\ i \in 1..n
        /\ stack'[n] = caller /\ stack'[n + 1] = callee /\ n \in 1..n
        /\ caller.type = Top.type
    BY <1>4, DescendsStack DEF Descends
  <2>2. callee.type \in Parts(Top.type)
    <3>1. Shape'
      BY ShapeStep
    <3>2. WaitsFor(stack'[n], stack'[n + 1].type)
      <4>1. n \in 1..(Len(stack') - 1)
        BY <2>1
      <4> QED BY <3>1, <4>1 DEF Shape
    <3> QED BY <2>1, <3>2 DEF WaitsFor
  <2>3. callee.type \in below
    <3>1. callee.type \in Below[callee.type]
      BY <1>1, <2>1, <2>2, PartsLemma, BelowUnfolds
    <3>2. callee.type \in Below[Top.type]
      BY <1>1, <2>1, <2>2, <3>1, BelowUnfolds
    <3> QED BY <1>0, <1>1, <2>1, <3>2, BelowRanked
  <2>4. \A i \in 1..(n + 1) : i \in 1..(n - 1) \/ i = n \/ i = n + 1
    BY <2>1
  <2>5. \A i \in 1..(n + 1) : stack'[i].type \in below
    BY <1>1, <2>1, <2>3, <2>4 DEF Within
  <2> QED BY <1>2, <2>1, <2>5 DEF Within
<1>5. ASSUME NEW frame \in Frame, Takes(frame) \/ Opens(frame) PROVE Within'
  <2>1. /\ n \in Nat \ {0} /\ Len(stack') = n /\ ret' = None /\ stack # <<>>
        /\ \A i \in 1..(n - 1) : stack'[i] = stack[i] /\ i \in 1..n
        /\ stack'[n] = frame /\ n \in 1..n
        /\ frame.type = Top.type
    BY <1>5, TakesStack DEF Takes, Opens
  <2>2. \A i \in 1..n : i \in 1..(n - 1) \/ i = n
    BY <2>1
  <2>3. \A i \in 1..n : stack'[i].type \in below
    BY <1>1, <2>1, <2>2 DEF Within
  <2> QED BY <1>2, <2>1, <2>3 DEF Within
<1>6. CASE IdleMove
  BY <1>2, <1>6 DEF IdleMove, Within
<1> QED BY <1>3, <1>4, <1>5, <1>6, Ways DEF Starts, ResetMove

\* A call that ends is accounted for.
LEMMA EndsAccounted ==
  ASSUME TypeOK, Shape, NamesTell, NEW rank \in [Type -> Nat], Descending(rank),
         NEW refused, Refusing(refused), Wholly(refused), Told, Settled, Rooted,
         Accounted, Base' = Base, NEW r \in Return, Ends(r)
  PROVE  NeedsClosed(Present)' /\ Foreseen' /\ Filled'
<1> DEFINE n == Len(stack)
           made == IF stack' = <<>> THEN MadeEnum(request) ELSE {}
<1>1. /\ n \in Nat \ {0} /\ Len(stack') = n - 1 /\ ret' = r /\ r # None
      /\ \A i \in 1..(n - 1) : stack'[i] = stack[i] /\ i \in 1..n /\ i < n
      /\ stack # <<>> /\ Top.type \in Type
  BY EndsStack, NoneAssumption, TopShape DEF Ends
<1>2. request' = request /\ request # None /\ Answered' = Top.type
  BY EndsAnswers
<1>3. ASSUME NEW i, 1..i \subseteq 1..(n - 1) PROVE Upto(i)' = Upto(i)
  BY <1>1, <1>3, UptoStays
<1>4. Foreseen'
  <2>1. ASSUME NEW i \in 1..(n - 1) PROVE 1..i \subseteq 1..(n - 1) /\ Waiting(i)
    BY <1>1 DEF Waiting
  <2>2. ASSUME NEW i \in 1..(n - 1), Embeds(stack'[i])
        PROVE  stack'[i].existed <=> Awaited(stack'[i]) \in Upto(i)'
    BY <1>1, <1>2, <1>3, <2>1, <2>2 DEF Accounted, Foreseen
  <2> QED BY <1>1, <2>2 DEF Foreseen, Embeds, Awaited
<1>5. CASE ~r.err
  <2>1. Present' = Upto(n - 1) \cup Needs[Top.type] \cup made
    BY <1>5, EndsGrants
  <2>2. Granted' = Needs[Top.type] \cup made
    BY <1>2 DEF Granted, MadeEnum
  <2>3. Filled'
    BY <1>1, <1>3, <2>1, <2>2 DEF Filled
  <2>4. NeedsClosed(Upto(n - 1))
    <3>1. n - 1 \in 0..n
      BY <1>1
    <3> QED BY <1>2, <3>1, UptoClosed DEF Accounted
  <2>5. made \subseteq {Top.type}
    BY <1>1, EndsAnswers, MadeEnumOfTop, TopLemma DEF Told, Top
  <2>6. NeedsClosed(Present')
    BY <1>1, <2>1, <2>4, <2>5, NeedsTransitive DEF NeedsClosed
  <2> QED BY <1>4, <2>3, <2>6 DEF NeedsClosed
<1>6. CASE r.err
  <2>1. models' = models
    BY <1>6, ErrorFilesNothing
  <2> QED BY <1>1, <1>4, <1>6, <2>1 DEF Filled, Accounted, NeedsClosed, Present
<1> QED BY <1>5, <1>6


\* A call on a part is accounted for: what the field loop reads before it says
\* whether an embedded part is already there.
LEMMA DescendsAccounted ==
  ASSUME TypeOK, Shape, EmbedsByValue, NamesTell, Told, Rooted, Accounted, Base' = Base,
         [Next]_vars, NEW caller \in Frame, NEW callee \in Frame, Descends(caller, callee)
  PROVE  NeedsClosed(Present)' /\ Foreseen' /\ Filled'
<1>0. PICK n \in Nat \ {0} : n = Len(stack)
  BY DescendsStack
<1>1. /\ n = Len(stack) /\ Len(stack') = n + 1 /\ ret' = None /\ ret = None
      /\ \A i \in 1..(n - 1) : stack'[i] = stack[i] /\ i \in 1..n /\ i < n
      /\ stack'[n] = caller /\ stack'[n + 1] = callee /\ n \in 1..n
      /\ stack # <<>> /\ Top = stack[n] /\ models' = models /\ request # None
  BY <1>0, DescendsStack DEF Descends, Top, Shape
<1>2. /\ caller.type = Top.type /\ caller.next = Top.next /\ callee.next = 0
      /\ Kind[Top.type] = "struct" =>
           (caller.existed <=> ModelName(CurrentField.type) \in DOMAIN models)
  BY DEF Descends
<1>3. Done(caller) = Done(Top) /\ Done(callee) = {}
  <2>1. \A j : j \notin 1..(0 - 1)
    OBVIOUS
  <2> QED BY <1>2, <2>1 DEF Done
<1>4. Present' = Present
  BY <1>1 DEF Present
<1>5. ASSUME NEW i, 1..i \subseteq 1..n PROVE Upto(i)' = Upto(i)
  <2>1. \A j \in 1..n : j \in 1..(n - 1) \/ j = n
    BY <1>1
  <2>2. \A j \in 1..n : Done(stack'[j]) = Done(stack[j])
    BY <1>1, <1>3, <2>1
  <2> QED BY <1>5, <2>2, UptoStays
<1>6. Present = Upto(n)
  BY <1>1 DEF Accounted, Filled
<1>7. Filled'
  <2>1. Upto(n + 1)' = Upto(n)' \cup Done(callee)
    <3>1. \A j \in 1..(n + 1) : j \in 1..n \/ j = n + 1
      BY <1>1
    <3>2. 1..n \subseteq 1..(n + 1) /\ n + 1 \in 1..(n + 1)
      BY <1>1
    <3>3. Done(callee) = Done(stack'[n + 1])
      BY <1>1
    <3> QED BY <3>1, <3>2, <3>3 DEF Upto, Done
  <2>2. Upto(n)' = Upto(n)
    BY <1>5
  <2> QED BY <1>1, <1>3, <1>4, <1>6, <2>1, <2>2 DEF Filled
<1>8. ASSUME NEW i \in 1..(n + 1), Waiting(i)', Embeds(stack'[i])
      PROVE  stack'[i].existed <=> Awaited(stack'[i]) \in Upto(i)'
  <2>1. i \in 1..(n - 1) \/ i = n
    BY <1>1, <1>8 DEF Waiting
  <2>2. Upto(i)' = Upto(i)
    <3>1. 1..i \subseteq 1..n
      BY <1>1, <2>1
    <3> QED BY <1>5, <3>1
  <2>3. CASE i \in 1..(n - 1)
    BY <1>1, <1>8, <2>2, <2>3 DEF Accounted, Foreseen, Waiting
  <2>4. CASE i = n
    <3> DEFINE t == CurrentField.type
    <3>1. Kind[Top.type] = "struct" /\ CurrentField.embedded /\ Awaited(caller) = t
      BY <1>1, <1>2, <1>8, <2>4 DEF Embeds, Awaited, CurrentField
    <3>2. t \in Type /\ Top.next \in DOMAIN Fields[Top.type] /\ Top.type \in Type
      <4>1. Shape'
        BY ShapeStep
      <4>2. WaitsFor(stack'[n], stack'[n + 1].type)
        <5>1. n \in 1..(Len(stack') - 1)
          BY <1>1
        <5> QED BY <4>1, <5>1 DEF Shape
      <4> QED BY <1>1, <1>2, <3>1, <4>2, TopShape DEF WaitsFor, CurrentField, Frame
    <3>3. GoName[t] # NoName
      BY <3>1, <3>2 DEF EmbedsByValue, CurrentField
    <3>4. ModelName(t) = Named(t)
      BY <3>3 DEF ModelName
    <3>5. caller.existed <=> t \in Present
      BY <1>2, <3>1, <3>2, <3>3, <3>4, NamedPresent
    <3> QED BY <1>1, <1>6, <2>2, <2>4, <3>1, <3>5
  <2> QED BY <2>1, <2>3, <2>4
<1>9. Foreseen'
  BY <1>1, <1>8 DEF Foreseen, Embeds, Awaited
<1> QED BY <1>4, <1>7, <1>9 DEF Accounted, NeedsClosed

\* What a struct has when it has taken in the result for a field.
LEMMA TakesGrants ==
  ASSUME TypeOK, Shape, EmbedsByValue, NamesTell,
         NEW rank \in [Type -> Nat], Descending(rank), Told, Rooted, Accounted,
         NEW frame \in Frame, Takes(frame)
  PROVE  /\ CurrentField.type \in Type
         /\ Present' = Upto(Len(stack)) \cup FieldNeeds(CurrentField)
<1> DEFINE n == Len(stack)
           t == CurrentField.type
<1>1. /\ stack # <<>> /\ ret # None /\ ~ret.err /\ Kind[Top.type] = "struct"
      /\ n \in 1..n /\ Top = stack[n] /\ Top.type \in Type /\ request # None
      /\ models' = IF CurrentField.embedded /\ ~Top.existed
                   THEN Restrict(models, DOMAIN models \ {ret.name}) ELSE models
  BY TopLemma, TopShape DEF Takes, Top, Shape
<1>2. Awaited(Top) = t /\ t \in Type /\ Top.next \in DOMAIN Fields[Top.type]
  <2>1. Awaited(Top) = t
    BY <1>1 DEF Awaited, CurrentField
  <2> QED BY <1>1, <2>1, TopAwaits, PartsLemma DEF WaitsFor
<1>3. Present = Upto(n) \cup Needs[t]
  BY <1>1, <1>2 DEF Accounted, Filled, Granted, Answered
<1>4. CASE ~CurrentField.embedded
  BY <1>1, <1>2, <1>3, <1>4 DEF FieldNeeds, Present
<1>5. CASE CurrentField.embedded
  <2>1. Top.existed <=> t \in Upto(n)
    BY <1>1, <1>2, <1>5 DEF Accounted, Foreseen, Waiting, Embeds, CurrentField
  <2>2. CASE Top.existed
    <3>1. Present' = Present
      BY <1>1, <2>2 DEF Present
    <3>2. NeedsClosed(Upto(n))
      <4>1. n \in 0..n
        BY <1>1, TopLemma
      <4> QED BY <1>1, <4>1, UptoClosed DEF Accounted
    <3>3. Needs[t] \subseteq Upto(n)
      BY <2>1, <2>2, <3>2 DEF NeedsClosed
    <3> QED BY <1>2, <1>3, <1>5, <3>1, <3>3 DEF FieldNeeds
  <2>3. CASE ~Top.existed
    <3>1. GoName[t] # NoName /\ Kind[t] # "pointer"
      BY <1>1, <1>2, <1>5 DEF EmbedsByValue, CurrentField
    <3>2. ret.name = Named(t)
      <4>1. PICK s \in Type : WaitsFor(Top, s) /\ Answers(ret, s)
        BY <1>1 DEF Shape
      <4>2. s = t
        BY <1>1, <1>2, <4>1, AwaitedLemma
      <4> QED BY <3>1, <4>1, <4>2 DEF Answers, NamedFor
    <3>3. models' = Restrict(models, DOMAIN models \ {Named(t)})
      BY <1>1, <1>5, <2>3, <3>2
    <3>4. Present' = Present \ {t}
      <4>1. \A m \in DOMAIN models : models[m].of = t <=> m = Named(t)
        BY <1>2, <3>1, NamedPresent
      <4>2. /\ DOMAIN models' = DOMAIN models \ {Named(t)}
            /\ \A m \in DOMAIN models' : models'[m] = models[m]
        BY <3>3 DEF Restrict
      <4> QED BY <4>1, <4>2 DEF Present
    <3> QED BY <1>2, <1>3, <1>5, <2>1, <2>3, <3>4 DEF FieldNeeds
  <2> QED BY <2>2, <2>3
<1> QED BY <1>2, <1>4, <1>5


\* Taking in the result for a field, and starting on the fields, is accounted for.
LEMMA LoopAccounted ==
  ASSUME TypeOK, Shape, EmbedsByValue, NamesTell,
         NEW rank \in [Type -> Nat], Descending(rank), Told, Rooted, Accounted,
         Base' = Base, NEW frame \in Frame, Takes(frame) \/ Opens(frame)
  PROVE  NeedsClosed(Present)' /\ Foreseen' /\ Filled'
<1>0. PICK n \in Nat \ {0} : n = Len(stack)
  BY TakesStack
<1>1. /\ n = Len(stack) /\ Len(stack') = n /\ ret' = None /\ stack # <<>>
      /\ \A i \in 1..(n - 1) : stack'[i] = stack[i] /\ i \in 1..n /\ i < n
      /\ stack'[n] = frame /\ n \in 1..n /\ Top = stack[n] /\ request # None
  BY <1>0, TakesStack DEF Takes, Opens, Top, Shape
<1>8. Top.next \in Nat
  BY <1>1, TopLemma DEF Frame
<1>2. ASSUME NEW i, 1..i \subseteq 1..(n - 1) PROVE Upto(i)' = Upto(i)
  BY <1>1, <1>2, UptoStays
<1>3. Foreseen'
  <2>1. ASSUME NEW i \in 1..(n - 1) PROVE 1..i \subseteq 1..(n - 1) /\ Waiting(i)
    BY <1>1 DEF Waiting
  <2>2. ASSUME NEW i \in 1..(n - 1), Embeds(stack'[i])
        PROVE  stack'[i].existed <=> Awaited(stack'[i]) \in Upto(i)'
    BY <1>1, <1>2, <2>1, <2>2 DEF Accounted, Foreseen
  <2>3. ASSUME NEW i \in 1..n, Waiting(i)' PROVE i \in 1..(n - 1)
    BY <1>1, <2>3 DEF Waiting
  <2> QED BY <1>1, <2>2, <2>3 DEF Foreseen, Embeds, Awaited
<1>4. Upto(n)' = Upto(n - 1) \cup Done(frame)
  <2>1. 1..n = 1..(n - 1) \cup {n}
    BY <1>1
  <2>2. Upto(n)' = Upto(n - 1)' \cup Done(stack'[n])
    BY <2>1 DEF Upto, Done
  <2>3. Upto(n - 1)' = Upto(n - 1)
    BY <1>2
  <2> QED BY <1>1, <2>2, <2>3
<1>5. Upto(n) = Upto(n - 1) \cup Done(Top) /\ NeedsClosed(Upto(n))
  <2>1. n \in 0..n
    BY <1>1
  <2> QED BY <1>1, <2>1, UptoTop, UptoClosed DEF Accounted
<1>6. CASE Takes(frame)
  <2>1. CurrentField.type \in Type /\ Present' = Upto(n) \cup FieldNeeds(CurrentField)
    BY <1>1, <1>6, TakesGrants
  <2>2. Done(frame) = Done(Top) \cup FieldNeeds(CurrentField)
    <3>1. frame.type = Top.type /\ frame.next = Top.next + 1
          /\ Kind[Top.type] = "struct" /\ ret # None
      BY <1>6 DEF Takes
    <3>2. Top.next # 0
      <4>1. Top.next \in DOMAIN Fields[Top.type]
        BY <1>1, <3>1, TopAwaits DEF WaitsFor
      <4>2. Fields[Top.type] \in Seq(Field)
        BY <1>1, TopShape, TypeAssumption
      <4>3. Top.next \in 1..Len(Fields[Top.type])
        BY <4>1, <4>2, LenProperties
      <4> QED BY <4>3
    <3>3. 1..(frame.next - 1) = 1..(Top.next - 1) \cup {Top.next}
      BY <1>8, <3>1, <3>2
    <3> QED BY <3>1, <3>3 DEF Done, CurrentField
  <2>3. Filled'
    BY <1>1, <1>4, <1>5, <2>1, <2>2 DEF Filled
  <2>4. NeedsClosed(Present')
    BY <1>5, <2>1, FieldNeedsClosed DEF NeedsClosed
  <2> QED BY <1>3, <2>3, <2>4 DEF NeedsClosed
<1>7. CASE Opens(frame)
  <2>1. /\ ret = None /\ Top.next = 0 /\ frame.next = 1 /\ models' = models
        /\ frame.type = Top.type
    BY <1>7 DEF Opens
  <2>2. Done(frame) = Done(Top)
    <3>1. \A j : j \notin 1..(0 - 1) /\ j \notin 1..(1 - 1)
      OBVIOUS
    <3> QED BY <2>1, <3>1 DEF Done
  <2>3. Present' = Present /\ Present = Upto(n) /\ NeedsClosed(Present)
    BY <1>1, <2>1 DEF Present, Accounted, Filled
  <2>4. Filled'
    BY <1>1, <1>4, <1>5, <2>2, <2>3 DEF Filled
  <2> QED BY <1>3, <2>3, <2>4 DEF NeedsClosed
<1> QED BY <1>6, <1>7

\* A call of the program finds what it is counted against.
LEMMA StartsAccounted ==
  ASSUME TypeOK, Accounted, NEW frame \in Frame, Starts(frame)
  PROVE  Accounted'
<1>1. /\ stack' = <<frame>> /\ ret' = None /\ models' = models /\ frame.next = 0
      /\ request'.before = DOMAIN models /\ request'.type = frame.type
      /\ frame.type \in Type
  BY DEF Starts, Frame
<1>2. Len(stack') = 1 /\ stack'[1] = frame
  BY <1>1
<1>3. Present' = Present /\ Base' = Present
  BY <1>1 DEF Present, Base
<1>4. Done(frame) = {}
  <2>1. \A j : j \notin 1..(0 - 1)
    OBVIOUS
  <2> QED BY <1>1, <2>1 DEF Done
<1>5. Upto(1)' = Present
  <2>1. \A j \in 1..1 : Done(stack'[j]) = {}
    BY <1>2, <1>4
  <2> QED BY <1>3, <2>1 DEF Upto, Done
<1>6. Within'
  BY <1>1, <1>2, <1>3, BelowUnfolds DEF Within
<1>7. Foreseen'
  BY <1>1, <1>2 DEF Foreseen, Waiting
<1>8. Filled'
  BY <1>1, <1>2, <1>3, <1>5 DEF Filled
<1> QED BY <1>3, <1>6, <1>7, <1>8 DEF Accounted, NeedsClosed

\* Every step keeps the account.
LEMMA AccountedStep ==
  ASSUME TypeOK, Shape, EmbedsByValue, NamesTell,
         NEW rank \in [Type -> Nat], Descending(rank), Ranked(rank),
         NEW refused, Refusing(refused), Wholly(refused), Told, Settled, Rooted, Kept,
         Accounted, [Next]_vars
  PROVE  Accounted'
<1>1. ASSUME request # None, request' = request
      PROVE  Base' = Base /\ Within'
  <2>1. Base' = Base
    BY <1>1, KeptStep, StableStep, BaseStays
  <2> QED BY <1>1, <2>1, WithinStep DEF Accounted
<1>2. ASSUME request # None, request' = request,
             NeedsClosed(Present)' /\ Foreseen' /\ Filled'
      PROVE  Accounted'
  <2>1. NeedsClosed(Base') /\ Within'
    BY <1>1, <1>2 DEF Accounted
  <2> QED BY <1>2, <2>1 DEF Accounted, NeedsClosed
<1>3. stack # <<>> => request # None
  BY DEF Shape
<1>4. ASSUME NEW r \in Return, Ends(r) PROVE Accounted'
  <2>1. request # None /\ request' = request
    BY <1>4, EndsAnswers
  <2> QED BY <1>1, <1>2, <1>4, <2>1, EndsAccounted
<1>5. ASSUME NEW caller \in Frame, NEW callee \in Frame, Descends(caller, callee)
      PROVE  Accounted'
  <2>1. request # None /\ request' = request
    BY <1>3, <1>5 DEF Descends
  <2> QED BY <1>1, <1>2, <1>5, <2>1, DescendsAccounted
<1>6. ASSUME NEW frame \in Frame, Takes(frame) \/ Opens(frame) PROVE Accounted'
  <2>1. request # None /\ request' = request
    BY <1>3, <1>6 DEF Takes, Opens
  <2> QED BY <1>1, <1>2, <1>6, <2>1, LoopAccounted
<1>7. ASSUME NEW frame \in Frame, Starts(frame) PROVE Accounted'
  BY <1>7, StartsAccounted
<1>8. CASE ResetMove
  BY <1>8 DEF ResetMove, Accounted, NeedsClosed, Present
<1>9. CASE IdleMove
  <2>1. Present' = Present /\ Base' = Base /\ Granted' = Granted
    BY <1>9 DEF IdleMove, Present, Base, Granted, Answered, Awaited, Top, MadeEnum
  <2>2. ASSUME NEW i PROVE Upto(i)' = Upto(i)
    BY <1>9, <2>1 DEF IdleMove, Upto, Done
  <2>3. Within' <=> Within
    BY <1>9, <2>1 DEF IdleMove, Within
  <2>4. Foreseen' <=> Foreseen
    BY <1>9, <2>2 DEF IdleMove, Foreseen, Waiting, Embeds, Awaited
  <2>5. Filled' <=> Filled
    BY <1>9, <2>1, <2>2 DEF IdleMove, Filled
  <2> QED BY <1>9, <2>1, <2>3, <2>4, <2>5 DEF IdleMove, Accounted, NeedsClosed
<1> QED BY <1>4, <1>5, <1>6, <1>7, <1>8, <1>9, Ways


-----------------------------------------------------------------------------
(* The refinement.                                                         *)

\* What the catalogue shows of the registry.
Shown == { models[n].of : n \in IF stack = <<>> THEN DOMAIN models ELSE request.before }

Pending == IF request = None THEN None ELSE [type |-> request.type, opts |-> request.opts]

Answer == IF stack # <<>> \/ ret = None THEN None
          ELSE IF ret.err THEN "refused" ELSE "published"

Fallible == { c \in Call : \/ \E t \in Below[c.type] : Kind[t] \in {"badmap", "enum"}
                           \/ "constants" \in c.opts }

Brings(c) == Needs[c.type] \cup MadeEnum(c)

\* The steps of the catalogue.
Accepts == \E c \in Call : /\ Pending = None /\ Pending' = c
                           /\ Shown' = Shown /\ Answer' = Answer

Publishes ==
  /\ Pending # None /\ Pending \in Call /\ Answer = None
  /\ Shown' = Shown \cup Brings(Pending)
  /\ Answer' = "published" /\ Pending' = Pending

Fails ==
  /\ Pending \in Fallible /\ Answer = None
  /\ \E some \in SUBSET Below[Pending.type] : Shown' = Shown \cup some
  /\ \/ Answer' = "refused" /\ Pending' = Pending
     \/ Answer' = Answer /\ Pending' = None

Acknowledges ==
  /\ Answer # None /\ Pending' = None /\ Answer' = None /\ Shown' = Shown

Stutters == Shown' = Shown /\ Pending' = Pending /\ Answer' = Answer

\* These are steps of the catalogue, indeed.
LEMMA CatalogueSteps ==
  ASSUME Accepts \/ Publishes \/ Fails \/ Acknowledges \/ Stutters
  PROVE  [Catalogue!Next]_(Catalogue!vars)
<1>1. CASE Accepts
  BY <1>1 DEF Accepts, Catalogue!Next, Catalogue!Accept, Shown, Pending, Answer
<1>2. CASE Publishes
  <2>1. Catalogue!Publish
    BY <1>2 DEF Publishes, Catalogue!Publish, Shown, Pending, Answer, Brings
  <2> QED BY <2>1 DEF Catalogue!Next
<1>3. CASE Fails
  <2>1. Pending \in Call
    BY <1>3 DEF Fails, Fallible
  <2>2. Catalogue!PublishSome
    BY <1>3, <2>1 DEF Fails, Fallible, Catalogue!PublishSome, Shown, Pending, Answer
  <2>3. Catalogue!Refuse \/ Catalogue!Panic
    BY <1>3, <2>2 DEF Fails, Catalogue!Refuse, Catalogue!Panic, Pending, Answer
  <2> QED BY <2>3 DEF Catalogue!Next
<1>4. CASE Acknowledges
  BY <1>4 DEF Acknowledges, Catalogue!Next, Catalogue!Acknowledge, Shown, Pending, Answer
<1>5. CASE Stutters
  BY <1>5 DEF Stutters, Catalogue!vars, Shown, Pending, Answer
<1> QED BY <1>1, <1>2, <1>3, <1>4, <1>5


\* A call inside goes on with the program's call.
LEMMA InnerKeepsRequest ==
  ASSUME InnerStep
  PROVE  request' = request /\ stack # <<>>
  BY DEF InnerStep, ReturnExisting, ReturnKnown, FinishLeaf, ReturnFile, RejectMap,
         DescendElem, OpenStruct, VisitField, CloseStruct, FinishElem, FinishPointer,
         MergeEmbedded, AddProperty, PropagateError, Missing, Looping, Running,
         Returned, Returns, Finish, Calls, Advance

\* What a call that stops half-way has added is below its type.
LEMMA SomeAdded ==
  ASSUME Within, Kept, request # None
  PROVE  \E some \in SUBSET Below[request.type] : Present = Base \cup some
<1>1. Base \subseteq Present
  BY DEF Base, Present, Kept
<1>2. Present = Base \cup (Present \ Base)
  BY <1>1
<1>3. Present \ Base \in SUBSET Below[request.type]
  BY DEF Within
<1> QED BY <1>2, <1>3

\* A step of the registry is a step of the catalogue, or none.
LEMMA CatalogueStep ==
  ASSUME TypeOK, Shape, EmbedsByValue, NamesTell,
         NEW rank \in [Type -> Nat], Descending(rank), Ranked(rank),
         NEW refused, Refusing(refused), Wholly(refused), Told, Settled, Rooted, Kept,
         Accounted, [Next]_vars
  PROVE  Accepts \/ Publishes \/ Fails \/ Acknowledges \/ Stutters
<1>1. /\ request # None => /\ Pending = [type |-> request.type, opts |-> request.opts]
                           /\ Pending \in Call /\ Pending.type = request.type
                           /\ Brings(Pending) = Needs[request.type] \cup MadeEnum(request)
                           /\ Pending # None
      /\ stack # <<>> => request # None /\ Shown = Base /\ Answer = None
      /\ stack = <<>> => Shown = Present
      /\ Present' = { models'[n].of : n \in DOMAIN models' }
  BY AnswerAssumption
     DEF Pending, Rooted, Brings, MadeEnum, Shape, Shown, Base, Present, Answer
<1>2. request # None /\ request' = request =>
        /\ Base' = Base /\ Pending' = Pending /\ Within' /\ Kept'
  <2>1. ASSUME request # None, request' = request PROVE Base' = Base
    BY <2>1, KeptStep, StableStep, BaseStays
  <2> QED BY <2>1, WithinStep, KeptStep DEF Pending, Accounted
<1>3. /\ stack' # <<>> => Shown' = Base' /\ Answer' = None
      /\ stack' = <<>> => Shown' = Present'
  BY DEF Shown, Base, Present, Answer
<1>4. CASE PanicEnum \/ PanicOption
  <2>1. /\ stack # <<>> /\ stack' = <<>> /\ request' = None /\ ret = None /\ ret' = ret
        /\ models' = models
        /\ Kind[Top.type] = "enum" \/ "constants" \in Top.opts
    BY <1>4 DEF PanicEnum, PanicOption, Missing, Running
  <2>2. Len(stack) \in 1..Len(stack)
    BY <2>1, TopLemma
  <2>3. ASSUME Kind[Top.type] = "enum" PROVE Pending \in Fallible
    <3>1. Top.type \in Below[request.type]
      BY <1>1, <2>1, <2>2 DEF Accounted, Within, Top
    <3> QED BY <1>1, <2>1, <2>3, <3>1 DEF Fallible
  <2>4. ASSUME "constants" \in Top.opts PROVE Pending \in Fallible
    <3>1. ~(Len(stack) > 1)
      BY <1>1, <2>1, <2>2, <2>4 DEF Rooted, Top
    <3>2. Top.opts = request.opts
      BY <1>1, <2>1, <2>2, <3>1 DEF Rooted, Top
    <3> QED BY <1>1, <2>1, <2>4, <3>2 DEF Fallible
  <2>5. Pending \in Fallible
    BY <2>1, <2>3, <2>4
  <2>6. PICK some \in SUBSET Below[request.type] : Present = Base \cup some
    BY <1>1, <2>1, SomeAdded DEF Accounted
  <2>7. Shown' = Shown \cup some
    BY <1>1, <1>3, <2>1, <2>6 DEF Present
  <2>8. Answer' = Answer /\ Pending' = None /\ Answer = None
    BY <2>1 DEF Answer, Pending
  <2> QED BY <1>1, <2>1, <2>5, <2>7, <2>8 DEF Fails
<1>5. CASE Deliver
  <2>1. /\ stack = <<>> /\ ret # None /\ stack' = <<>> /\ ret' = None /\ request' = None
        /\ models' = models
    BY <1>5 DEF Deliver
  <2>2. Answer # None /\ Pending' = None /\ Answer' = None /\ Shown' = Shown
    BY <2>1, AnswerAssumption DEF Answer, Pending, Shown
  <2> QED BY <2>2 DEF Acknowledges
<1>6. ASSUME NEW c \in Call, Start(c) PROVE Accepts
  <2>1. /\ request = None /\ stack' # <<>> /\ ret' = ret /\ models' = models
        /\ request' = [type |-> c.type, opts |-> c.opts, before |-> DOMAIN models]
    <3>1. stack' = <<NewFrame(c.type, c.opts)>>
      BY <1>6 DEF Start
    <3> QED BY <1>6, <3>1 DEF Start
  <2>2. stack = <<>> /\ ret = None
    BY <2>1 DEF Shape
  <2>3. c = [type |-> c.type, opts |-> c.opts]
    BY CallAssumption
  <2>4. request' # None
    <3>1. request' \in Request
      BY <2>1, CallAssumption DEF Request, TypeOK
    <3> QED BY <3>1, NoneAssumption
  <2>5. Pending = None /\ Pending' = c
    BY <2>1, <2>3, <2>4 DEF Pending
  <2>6. Shown' = Shown /\ Answer' = Answer
    BY <1>1, <1>3, <2>1, <2>2 DEF Base, Present, Answer
  <2> QED BY <2>5, <2>6 DEF Accepts
<1>7. CASE InnerStep
  <2>1. request' = request /\ stack # <<>> /\ request # None
    BY <1>1, <1>7, InnerKeepsRequest
  <2>2. CASE stack' # <<>>
    BY <1>1, <1>2, <1>3, <2>1, <2>2 DEF Stutters
  <2>3. CASE stack' = <<>>
    <3>1. PICK r \in Return : Ends(r)
      <4>1. ASSUME NEW caller \in Frame, NEW callee \in Frame, Descends(caller, callee)
            PROVE  FALSE
        <5>1. Len(stack') # 0
          BY <4>1, DescendsStack
        <5> QED BY <2>3, <5>1, EmptySeq
      <4>2. ASSUME NEW frame \in Frame, Takes(frame) \/ Opens(frame) PROVE FALSE
        <5>1. Len(stack') # 0
          BY <4>2, TakesStack
        <5> QED BY <2>3, <5>1, EmptySeq
      <4> QED BY <2>1, <2>3, <4>1, <4>2, Ways DEF Starts, ResetMove, IdleMove
    <3>2. /\ ret' = r /\ r # None /\ Len(stack) = 1
          /\ Top.type = request.type
      BY <2>3, <3>1, EndsStack, EndsAnswers, NoneAssumption
    <3>3. CASE ~r.err
      <4>1. Present' = Upto(0) \cup Needs[request.type] \cup MadeEnum(request)
        BY <2>3, <3>1, <3>2, <3>3, EndsGrants
      <4>2. Upto(0) = Base
        BY DEF Upto
      <4>3. Answer' = "published"
        BY <2>3, <3>2, <3>3 DEF Answer
      <4> QED BY <1>1, <1>2, <1>3, <2>1, <2>3, <4>1, <4>2, <4>3 DEF Publishes
    <3>4. CASE r.err
      <4>1. Pending \in Fallible
        <5>1. \E t \in Below[request.type] : Kind[t] = "badmap"
          BY <1>2, <2>1, <3>2, <3>4 DEF Within
        <5> QED BY <1>1, <2>1, <5>1 DEF Fallible
      <4>2. \E some \in SUBSET Below[request.type] : Present' = Base \cup some
        <5>1. Present' = Present
          BY <3>1, <3>4, ErrorFilesNothing DEF Present
        <5> QED BY <2>1, <5>1, SomeAdded DEF Accounted
      <4>3. Answer' = "refused"
        BY <2>3, <3>2, <3>4 DEF Answer
      <4> QED BY <1>1, <1>2, <1>3, <2>1, <2>3, <4>1, <4>2, <4>3 DEF Fails
    <3> QED BY <3>3, <3>4
  <2> QED BY <2>2, <2>3
<1>8. CASE UNCHANGED vars
  BY <1>8 DEF vars, Stutters, Shown, Pending, Answer
<1> QED BY <1>4, <1>5, <1>6, <1>7, <1>8 DEF Next, Step

\* In a program in which names tell types, no type is part of itself, no pointers
\* are embedded, and what is refused is behind no pointer, the registry does what
\* the catalogue promises: a call that succeeds adds the components that its type
\* needs and no other, one that fails only some of the types it has looked at, and
\* neither withdraws any.
THEOREM RegistryImplementsCatalogue ==
  ASSUME EmbedsByValue, NamesTell, NEW rank \in [Type -> Nat], Descending(rank),
         NEW refused, Refusing(refused)
  PROVE  Spec => ImplementsCatalogue
<1> DEFINE IInv == /\ TypeOK /\ Shape /\ Ranked(rank) /\ Wholly(refused) /\ Told
                   /\ Settled /\ Rooted /\ Kept /\ Accounted
<1>1. Init => IInv /\ Catalogue!Init
  <2>1. SUFFICES ASSUME Init PROVE IInv /\ Catalogue!Init
    OBVIOUS
  <2>2. Len(stack) = 0 /\ ret = None /\ DOMAIN models = {} /\ stack = <<>> /\ request = None
    BY <2>1, EmptySeq DEF Init
  <2>3. Held = {} /\ Present = {}
    BY <2>2 DEF Held, Present
  <2>4. /\ Ranked(rank) /\ Wholly(refused) /\ Told /\ Settled /\ Rooted /\ Kept
        /\ Accounted
    BY <2>2, <2>3 DEF Ranked, Wholly, OnlyWholeComponents, Told, Settled, Rooted, Kept,
                      Accounted, NeedsClosed
  <2>5. Catalogue!Init
    BY <2>2 DEF Catalogue!Init
  <2> QED BY <2>1, <2>4, <2>5, ShapeInit
<1>2. IInv /\ [Next]_vars => IInv'
  BY ShapeStep, RankedStep, WhollyStep, ToldStep, SettledStep, RootedStep, KeptStep,
     AccountedStep
<1>3. IInv /\ [Next]_vars => [Catalogue!Next]_(Catalogue!vars)
  BY CatalogueStep, CatalogueSteps
<1> QED BY <1>1, <1>2, <1>3, PTL DEF Spec, ImplementsCatalogue, Catalogue!Spec
=============================================================================
