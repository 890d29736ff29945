--------------------------- MODULE MCDocumentation ---------------------------
(***************************************************************************)
(* A small program for TLC: two routes of one pattern that share types,    *)
(* one whose output is refused, and one with a refused model that is       *)
(* documented by hand.  An enum, of an input, of a query parameter and of  *)
(* a route documented by hand, may fail to load.                           *)
(***************************************************************************)
EXTENDS Documentation, TLC

Part(t, k) == [type |-> t, key |-> k, embedded |-> FALSE, omitempty |-> FALSE]
Embed(t)   == [Part(t, t) EXCEPT !.embedded = TRUE]

Of(kind, elem, name) == [kind |-> kind, elem |-> elem, fields |-> <<>>, name |-> name]
Struct(fields, name) == [kind |-> "struct", elem |-> "", fields |-> fields, name |-> name]

MCTypes ==
  "Audit"    :> Struct(<<Part("User", "by")>>, "Audit") @@
  "User"     :> Struct(<<>>, "User") @@
  "Status"   :> Of("enum", "", "Status") @@
  "Level"    :> Of("basic", "", "Level") @@
  "*Level"   :> Of("pointer", "Level", "LevelPtr") @@
  "Search"   :> Struct(<<Part("*User", "by"), Part("*Level", "level")>>, "Search") @@
  "*User"    :> Of("pointer", "User", "UserPtr") @@
  "Order"    :> Struct(<<Embed("Audit"), Part("Status", "status")>>, "Order") @@
  "[]Order"  :> Of("slice", "Order", NoName) @@
  "Rates"    :> Of("badmap", "", "map_int_string") @@
  "Quote"    :> Struct(<<Part("User", "by"), Part("Rates", "rates")>>, "Quote") @@
  [ dto \in {"NotFound", "BadRequest", "UnprocessableEntity", "OK", "Created"} |->
      Struct(<<>>, dto) ]

MCType   == DOMAIN MCTypes
MCKind   == [t \in MCType |-> MCTypes[t].kind]
MCElem   == [t \in MCType |-> IF MCTypes[t].elem = "" THEN t ELSE MCTypes[t].elem]
MCFields == [t \in MCType |-> MCTypes[t].fields]
MCGoName == [t \in MCType |-> MCTypes[t].name]
MCKey    == {ItemSlot, "by", "level", "status", "rates", "Audit"}
MCCall   == { Plain(t) : t \in MCType } \cup { SetupCalls[i] : i \in 1..3 }

Serves(method, pattern, in, out) ==
  [ method |-> method, pattern |-> pattern, id |-> <<method, pattern>>, resource |-> "shop",
    in |-> in, out |-> out, serve |-> TRUE ]

MCDef ==
  "list"  :> Serves("GET", "/orders", "Search", "[]Order") @@
  "order" :> Serves("POST", "/orders", "Order", None) @@
  "quote" :> Serves("PUT", "/quotes", "Audit", "Quote")

\* A response for a route that is documented by hand.
Answers(status, type) ==
  [ tags |-> <<>>, id |-> None, path |-> {}, query |-> {}, header |-> {},
    content |-> {"application/json"}, request |-> None, responses |-> {<<status, type>>} ]

MCChanged ==
  "legacy" :> [ by |-> "Has", key |-> <<"/rates", "GET">>,
                doc |-> Answers(200, "Rates") ] @@
  "health" :> [ by |-> "Has", key |-> <<"/health", "GET">>,
                doc |-> Answers(200, "Status") ]

MCRegistration == DOMAIN MCDef
MCChange       == DOMAIN MCChanged
MCPattern      == {"/orders", "/quotes", "/rates", "/health"}
MCParamsIn     == [p \in MCPattern |-> {}]
MCTemplate     == [p \in MCPattern |-> p]
MCId           == { MCDef[r].id : r \in MCRegistration }
MCQueryFields  == [t \in MCType |-> IF t = "Search" THEN {"level"} ELSE {}]
MCUnsupported  == { t \in MCType : MCKind[t] # "struct" }

\* The program is of the kind that the theorems of RegistryContentProofs speak of.
ASSUME ProvedKind ==
  /\ EmbedsByValue /\ Descending([t \in Type |-> Cardinality(Below[t])])
  /\ Refusing({"Rates", "Quote"}) /\ NamesTell
=============================================================================
