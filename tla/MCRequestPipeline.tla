------------------------- MODULE MCRequestPipeline --------------------------
(***************************************************************************)
(* Small programs for TLC: the routes each registers and their options.    *)
(***************************************************************************)
EXTENDS RequestPipeline, TLC

CONSTANT Program   \* which of the programs below

Fn(method, in, out, opts) == [method |-> method, in |-> in, out |-> out, opts |-> opts]

Opts(use, n, withInput) == [use |-> use, uses |-> n, withInput |-> withInput]

\* Every form of route: with and without input and output, decoded early or by
\* the action, from the query and from the body.  No two share a slice of Opts.
Shop == [
  routes  |->
    "me"     :> Fn("GET", None, TRUE, None) @@
    "search" :> Fn("GET", "Search", TRUE, "guarded") @@
    "remove" :> Fn("DELETE", "Search", FALSE, None) @@
    "email"  :> Fn("POST", "Email", FALSE, None) @@
    "order"  :> Fn("PUT", "Order", TRUE, "checked") @@
    "ping"   :> Fn("POST", None, FALSE, "open"),
  options |->
    "guarded" :> Opts(TRUE, 1, TRUE) @@
    "checked" :> Opts(FALSE, 1, TRUE) @@
    "open"    :> Opts(FALSE, 1, FALSE) ]

\* Two routes that are passed the same slice of Opts, and two with none.
SharedOpts == [
  routes  |->
    "order"  :> Fn("POST", "Order", TRUE, "shared") @@
    "search" :> Fn("GET", "Search", TRUE, "shared") @@
    "remove" :> Fn("DELETE", "Search", FALSE, None) @@
    "email"  :> Fn("POST", "Email", FALSE, None),
  options |-> "shared" :> Opts(FALSE, 0, TRUE) ]

\* A route whose middlewares are to look at the input.
EarlyQuery == [
  routes  |-> "search" :> Fn("GET", "Search", TRUE, "guarded"),
  options |-> "guarded" :> Opts(TRUE, 1, TRUE) ]

Chosen ==
  CASE Program = "Shop"       -> Shop
    [] Program = "SharedOpts" -> SharedOpts
    [] Program = "EarlyQuery" -> EarlyQuery

MCRoute     == DOMAIN Chosen.routes
MCDef       == Chosen.routes
MCOptsSlice == DOMAIN Chosen.options
MCOptions   == Chosen.options
\* A part that is not read may be anything: here it is bad.
MCSent      == { <<q, "bad">> : q \in Quality } \cup { <<"bad", b>> : b \in Quality }
MCType      == {"Search", "Email", "Order"}

\* The shop is of the kind of program that RequestPipelineProofs is about
\* throughout, and the program that shares a slice of the kind for which its
\* inputs are accepted ones.
ASSUME ProvedKind ==
  /\ Program = "Shop" => OwnOpts /\ HasValidator /\ SharedReadAlike /\ TypesTellSources
  /\ Program = "SharedOpts" => TypesTellSources /\ ~SharedReadAlike
=============================================================================
