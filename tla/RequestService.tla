--------------------------- MODULE RequestService ---------------------------
(***************************************************************************)
(* What an endpoint promises its clients: a request is refused, or its     *)
(* function runs, once; a refused one never runs.  The answer says which:  *)
(* success only for a function that succeeded, an error for a refusal and  *)
(* for a function that failed.  A middleware of the program may answer in  *)
(* its own way, but only instead of the function.                          *)
(***************************************************************************)
CONSTANT Client

VARIABLES
  stage,   \* what has become of each client's request
  answer   \* what it has been answered

vars == <<stage, answer>>

Init ==
  /\ stage = [c \in Client |-> "idle"]
  /\ answer = [c \in Client |-> "none"]

\* Client c's request goes from a stage of `from' to stage `to' ...
Becomes(c, from, to) ==
  /\ stage[c] \in from
  /\ answer[c] = "none"
  /\ stage' = [stage EXCEPT ![c] = to]

\* ... and is answered, or is not yet.
With(c, a) == answer' = [answer EXCEPT ![c] = a]

Open(c) == Becomes(c, {"idle"}, "open") /\ With(c, "none")

\* A refusal may be answered later, when the middlewares have had their turn.
Refuse(c) ==
  /\ Becomes(c, {"open", "refused"}, "refused")
  /\ With(c, "none") \/ With(c, "error")

Stop(c) == Becomes(c, {"open", "refused"}, "stopped") /\ With(c, "own")

Run(c) == Becomes(c, {"open"}, "running") /\ With(c, "none")

Succeed(c) == Becomes(c, {"running"}, "succeeded") /\ With(c, "success")

Fail(c) == Becomes(c, {"running"}, "failed") /\ With(c, "error")

Close(c) ==
  /\ answer[c] # "none"
  /\ stage' = [stage EXCEPT ![c] = "idle"]
  /\ With(c, "none")

Next ==
  \E c \in Client :
    Open(c) \/ Refuse(c) \/ Stop(c) \/ Run(c) \/ Succeed(c) \/ Fail(c) \/ Close(c)

Spec == Init /\ [][Next]_vars
=============================================================================
