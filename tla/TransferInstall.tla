--------------------------- MODULE TransferInstall ---------------------------
(***************************************************************************)
(* What a model download promises, with journals, workers, locks and       *)
(* recovery left out.  A task is open, installed or discarded.  While it   *)
(* is open its file may come, go and change in any way.  It is installed   *)
(* only with the reviewed content under the model's name, it is discarded  *)
(* only when no file is left, and neither is ever revised.                 *)
(***************************************************************************)
CONSTANTS Task, Content, Reviewed, Nothing

VARIABLES
  verdict,      \* open, installed or discarded
  model         \* the content under the model's name, or Nothing

vars == <<verdict, model>>

Init ==
  /\ verdict = [t \in Task |-> "open"]
  /\ model = [t \in Task |-> Nothing]

Change(t) ==
  /\ verdict[t] = "open"
  /\ model' = [model EXCEPT ![t] = model'[t]]
  /\ model'[t] \in Content \/ model'[t] = Nothing
  /\ UNCHANGED verdict

Install(t) ==
  /\ verdict[t] = "open" /\ model[t] = Reviewed
  /\ verdict' = [verdict EXCEPT ![t] = "installed"]
  /\ UNCHANGED model

Discard(t) ==
  /\ verdict[t] = "open" /\ model[t] = Nothing
  /\ verdict' = [verdict EXCEPT ![t] = "discarded"]
  /\ UNCHANGED model

Next == \E t \in Task : Change(t) \/ Install(t) \/ Discard(t)

Spec == Init /\ [][Next]_vars
=============================================================================
