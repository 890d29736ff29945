-------------------------- MODULE MCSchemaRegistry --------------------------
(***************************************************************************)
(* Small programs for TLC: the Go types each declares, and the calls of    *)
(* RegisterModel it makes, in any order and any number of times.           *)
(***************************************************************************)
EXTENDS SchemaRegistry, TLC

CONSTANT Program   \* which of the programs below

Part(t, k)    == [type |-> t, key |-> k, embedded |-> FALSE, omitempty |-> FALSE]
Optional(t, k) == [Part(t, k) EXCEPT !.omitempty = TRUE]
Embed(t)      == [Part(t, t) EXCEPT !.embedded = TRUE]

Leaf(kind, name)   == [kind |-> kind, elem |-> "", fields |-> <<>>, name |-> name]
Of(kind, elem, name) == [kind |-> kind, elem |-> elem, fields |-> <<>>, name |-> name]
Struct(fields, name) == [kind |-> "struct", elem |-> "", fields |-> fields, name |-> name]

Plain(t) == [type |-> t, opts |-> {}]
With(t, opts) == [type |-> t, opts |-> opts]

\* A shop's DTOs: every kind of type, embedding, sharing, a type that is
\* refused, structs without a name (none inside another), an interface without one,
\* and calls that find some of their parts registered already.
Shop == [
  types |->
    "string"   :> Leaf("basic", "string") @@
    "UUID"     :> Leaf("array", "UUID") @@
    "Time"     :> Leaf("known", "Time") @@
    "Decimal"  :> Leaf("knownComponent", "Decimal") @@
    "any"      :> Leaf("opaque", NoName) @@
    "File"     :> Leaf("file", "FileWithHeader") @@
    "Status"   :> Leaf("enum", "Status") @@
    "Level"    :> Leaf("basic", "Level") @@
    "Rates"    :> Leaf("badmap", "map_int_string") @@
    "Money"    :> Struct(<<Part("Decimal", "amount"), Part("Level", "level")>>, "Money") @@
    "*Money"   :> Of("pointer", "Money", "MoneyPtr") @@
    "Audit"    :> Struct(<<Part("Time", "at"), Part("User", "by")>>, "Audit") @@
    "User"     :> Struct(<<Part("UUID", "id"), Part("string", "name")>>, "User") @@
    "Line"     :> Struct(<<Part("*Money", "price"), Optional("string", "note")>>, "Line") @@
    "[]Line"   :> Of("slice", "Line", NoName) @@
    "Labels"   :> Of("map", "Status", "map_string_Status") @@
    "Order"    :> Struct(<<Embed("Audit"), Part("[]Line", "lines"), Part("Money", "total")>>,
                         "Order") @@
    "Ticket"   :> Struct(<<Part("File", "scan"), Embed("User"), Part("Labels", "labels"),
                           Optional("any", "extra")>>, "Ticket") @@
    "Quote"    :> Struct(<<Embed("Line"), Part("Rates", "rates")>>, "Quote") @@
    "{row}"    :> Struct(<<Part("User", "user")>>, NoName) @@
    "[]{row}"  :> Of("slice", "{row}", NoName) @@
    "{page}"   :> Struct(<<Part("string", "next")>>, NoName) @@
    "Header"   :> Struct(<<Part("{page}", "page")>>, "Header") @@
    "List"     :> Struct(<<Embed("Header"), Part("[]{row}", "rows")>>, "List"),
  calls |->
    { Plain("Order"), With("Audit", {"description"}), Plain("Ticket"), Plain("Quote"),
      Plain("*Money"), With("Level", {"enum", "constants"}), Plain("List"), Plain("Header") } ]

\* Types that contain themselves, next to types that do not.
Recursive == [
  types |->
    "string"  :> Leaf("basic", "string") @@
    "Tag"     :> Struct(<<Part("string", "text")>>, "Tag") @@
    "Meta"    :> Struct(<<Part("Tag", "tag")>>, "Meta") @@
    "Node"    :> Struct(<<Embed("Meta"), Part("Tag", "tag"), Part("[]Node", "children")>>,
                        "Node") @@
    "[]Node"  :> Of("slice", "Node", NoName) @@
    "Post"    :> Struct(<<Part("Author", "author"), Part("Meta", "meta")>>, "Post") @@
    "Author"  :> Struct(<<Part("*Post", "best")>>, "Author") @@
    "*Post"   :> Of("pointer", "Post", "PostPtr"),
  calls |-> { Plain("Node"), Plain("Post"), Plain("Meta"), Plain("Tag") } ]

\* A struct that embeds a pointer to another struct.
EmbeddedPointer == [
  types |->
    "string" :> Leaf("basic", "string") @@
    "Base"   :> Struct(<<Part("string", "id")>>, "Base") @@
    "*Base"  :> Of("pointer", "Base", "BasePtr") @@
    "Owner"  :> Struct(<<Embed("*Base"), Part("string", "name")>>, "Owner"),
  calls |-> { Plain("Base"), Plain("Owner") } ]

Chosen ==
  CASE Program = "Shop"            -> Shop
    [] Program = "Recursive"       -> Recursive
    [] Program = "EmbeddedPointer" -> EmbeddedPointer

MCType   == DOMAIN Chosen.types
MCKind   == [t \in MCType |-> Chosen.types[t].kind]
MCElem   == [t \in MCType |-> IF Chosen.types[t].elem = "" THEN t ELSE Chosen.types[t].elem]
MCFields == [t \in MCType |-> Chosen.types[t].fields]
MCGoName == [t \in MCType |-> Chosen.types[t].name]
MCKey    == {ItemSlot} \cup { MCFields[t][i].key :
                              <<t, i>> \in {p \in MCType \X (1..4) : p[2] \in DOMAIN MCFields[p[1]]} }
MCCall   == Chosen.calls

\* The shop is of the kind that the theorems of SchemaRegistryProofs speak of.
ASSUME ProvedKind ==
  Program = "Shop" =>
    /\ EmbedsByValue /\ Descending([t \in Type |-> Cardinality(Below[t])])
    /\ Refusing({"Rates", "Quote"})
=============================================================================
