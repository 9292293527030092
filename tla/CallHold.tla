------------------------------- MODULE CallHold -------------------------------
(***************************************************************************)
(* What the dispatch ledger promises for one request, with budgets,        *)
(* prices, jobs' threads and reconciliation requests left out.  A hold is  *)
(* taken once.  The provider is called at most once, and only while the    *)
(* hold is armed for it.  A hold is given back only if nothing was called. *)
(* Once it is billed, or known to be unknown, nothing is called any more,  *)
(* and what is unknown is only ended by a bill.                            *)
(***************************************************************************)
CONSTANTS Key, Job

VARIABLES
  hold,         \* none, held, armed, free, unknown or billed
  called        \* the jobs that called the provider for the request

vars == <<hold, called>>

Init == hold = [k \in Key |-> "none"] /\ called = [k \in Key |-> {}]

Move(k, from, to) ==
  /\ hold[k] \in from
  /\ hold' = [hold EXCEPT ![k] = to]
  /\ UNCHANGED called

Take(k)   == Move(k, {"none"}, "held")
Arm(k)    == Move(k, {"held"}, "armed")
Free(k)   == called[k] = {} /\ Move(k, {"held"}, "free")
Forget(k) == Move(k, {"armed"}, "unknown")
Charge(k) == Move(k, {"held", "armed", "unknown"}, "billed")

Call(k, j) ==
  /\ hold[k] = "armed" /\ called[k] = {}
  /\ called' = [called EXCEPT ![k] = {j}]
  /\ UNCHANGED hold

Next ==
  \E k \in Key : \/ Take(k) \/ Arm(k) \/ Free(k) \/ Forget(k) \/ Charge(k)
                 \/ \E j \in Job : Call(k, j)

Spec == Init /\ [][Next]_vars
=============================================================================
