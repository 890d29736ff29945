---------------------------- MODULE MCRouteTable ----------------------------
(***************************************************************************)
(* Small programs for TLC: the calls each makes, in any order.             *)
(***************************************************************************)
EXTENDS RouteTable, TLC

CONSTANT Program   \* which of the programs below

Serves(method, pattern, id, in, out) ==
  [ method |-> method, pattern |-> pattern, id |-> id, resource |-> "shop",
    in |-> in, out |-> out, serve |-> TRUE ]

Documents(method, pattern, id, in, out) ==
  [Serves(method, pattern, id, in, out) EXCEPT !.serve = FALSE]

\* A change by Has... or Merge.
ByHas(key, doc)   == [by |-> "Has", key |-> key, doc |-> doc]
ByMerge(key, doc) == [by |-> "Merge", key |-> key, doc |-> doc]

\* A well-formed program: each route once.  One call is refused for its input's type,
\* one has an enum in its body and one in its query, which may fail to load, and one
\* documents a route that is served elsewhere.
Shop ==
  "search"  :> Serves("GET", "/orders", "list", "Search", "Orders") @@
  "order"   :> Serves("POST", "/orders", "order", "Order", "Orders") @@
  "replace" :> Serves("PUT", "/orders/{id}", "replace", "Level", "Orders") @@
  "remove"  :> Serves("DELETE", "/orders/{id}", "remove", "Search", None) @@
  "score"   :> Serves("POST", "/scores", "score", "Scores", None) @@
  "hook"    :> Documents("POST", "/hook", "hook", "Order", "Orders")

\* A router's own idea of a route that is registered as well, and a route that
\* is only described by hand.
ShopChanges ==
  "router" :> ByMerge(<<"/orders/{id}", "PUT">>,
                [NewRoute EXCEPT !.path = {"id"}, !.request = "Order",
                                 !.responses = {<<200, "OK">>, <<404, "NotFound">>}]) @@
  "health" :> ByHas(<<"/health", "GET">>,
                [NewRoute EXCEPT !.header = {"token"}, !.query = {"limit"},
                                 !.responses = {<<200, "OK">>}])

\* Calls that panic half way, and routes that are registered twice: with another input
\* and output, and without an input the second time.  Two routes have one name.
Panicking ==
  "odd"     :> Serves("GET", "/odd", "odd", None, "Scores") @@
  "flags"   :> Serves("GET", "/flags/{id}", "flags", "Flags", "Orders") @@
  "patch"   :> Documents("PATCH", "/orders/{id}", "patch", "Order", None) @@
  "find"    :> Serves("GET", "/orders/{id}", "order", None, "Order") @@
  "refind"  :> Serves("GET", "/orders/{id}", "order", "Search", "Orders") @@
  "replace" :> Serves("PUT", "/orders/{id}", "order", "Order", "Order") @@
  "reset"   :> Documents("PUT", "/orders/{id}", "order", None, None)

\* Responses and parameters by hand, for routes that are registered too.  The first is
\* complete, the second lacks the parameter of its path.
PanickingChanges ==
  "more" :> ByHas(<<"/orders/{id}", "GET">>,
              [NewRoute EXCEPT !.responses = {<<200, "Orders">>, <<422, "UnprocessableEntity">>},
                               !.id = "order", !.path = {"id"}, !.request = "Order"]) @@
  "put"  :> ByMerge(<<"/orders/{id}", "PUT">>,
              [NewRoute EXCEPT !.query = {"limit"}, !.responses = {<<200, "OK">>}])

\* The calls of tests/adapters/swaglay_fiber/http_test.go:297 and :301.
Adapter ==
  "DeleteI"  :> Serves("DELETE", "/endpoint-14", "endpoint-14", "DataIn", None) @@
  "DeleteIO" :> Serves("DELETE", "/endpoint-16", "endpoint-16", "DataIn", "DataOut")

MCDef ==
  CASE Program = "Shop"      -> Shop
    [] Program = "Panicking" -> Panicking
    [] Program = "Adapter"   -> Adapter

MCChanged ==
  CASE Program = "Shop"      -> ShopChanges
    [] Program = "Panicking" -> PanickingChanges
    [] OTHER                 -> [c \in {} |-> None]

MCRegistration == DOMAIN MCDef
MCChange       == DOMAIN MCChanged
MCPattern      == { MCDef[r].pattern : r \in MCRegistration }
                  \cup { MCChanged[c].key[1] : c \in MCChange }
MCId           == { MCDef[r].id : r \in MCRegistration }
MCParamsIn     == [ p \in MCPattern |->
                      IF p \in {"/orders/{id}", "/flags/{id}"} THEN {"id"} ELSE {} ]
\* No two patterns differ only in the names of their parameters.
MCTemplate     == [ p \in MCPattern |-> p ]
MCType         == {"Search", "Order", "Orders", "Scores", "Flags", "Level", "DataIn", "DataOut"}
MCRefused      == {"Scores"}
MCMayPanic     == {"Level"}
MCUnsupported  == {"Flags", "Orders"}
MCFields       == [ t \in MCType |-> IF t = "Search" THEN {"text", "limit"} ELSE {} ]
MCParam        == {"id", "text", "limit", "token"}
MCEnums        == {"text"}

\* RoutesShop is of the kind that the theorems of RouteTableProofs and
\* RouteAgreementProofs with a condition speak of.
ASSUME ProvedKind ==
  Program = "Shop" => ChangesAccepted /\ ChangesFit /\ OutputsAgree /\ InputsAgree
=============================================================================
