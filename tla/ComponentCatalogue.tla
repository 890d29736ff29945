------------------------- MODULE ComponentCatalogue -------------------------
(***************************************************************************)
(* What rest.API.RegisterModel promises a program that registers a type:   *)
(* when the call has been answered, every type the documentation of that   *)
(* type needs is published as a component, nothing that was published has  *)
(* been withdrawn, and nothing else has been added.  A call that is        *)
(* refused, or that panics, may have published some of the types it        *)
(* reached; it withdraws nothing either.                                   *)
(***************************************************************************)
CONSTANTS
  Call,     \* the calls the program makes
  Needed,   \* Needed[c]: the types a successful call c publishes
  Reached,  \* Reached[c]: every type call c looks at
  MayFail,  \* the calls that can be refused or panic
  None      \* no call, no answer

VARIABLES
  published,  \* the types that have a component
  pending,    \* the call in progress
  answer      \* what it was answered

vars == <<published, pending, answer>>

Init ==
  /\ published = {}
  /\ pending = None
  /\ answer = None

Accept(c) ==
  /\ pending = None
  /\ pending' = c
  /\ UNCHANGED <<published, answer>>

Publish ==
  /\ pending # None /\ answer = None
  /\ published' = published \cup Needed[pending]
  /\ answer' = "published"
  /\ UNCHANGED pending

PublishSome ==
  /\ pending \in MayFail /\ answer = None
  /\ \E some \in SUBSET Reached[pending] : published' = published \cup some

Refuse ==
  /\ PublishSome
  /\ answer' = "refused"
  /\ UNCHANGED pending

Panic ==
  /\ PublishSome
  /\ pending' = None
  /\ UNCHANGED answer

Acknowledge ==
  /\ answer # None
  /\ pending' = None
  /\ answer' = None
  /\ UNCHANGED published

Next ==
  \/ \E c \in Call : Accept(c)
  \/ Publish \/ Refuse \/ Panic \/ Acknowledge

Spec == Init /\ [][Next]_vars
=============================================================================
