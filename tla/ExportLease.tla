----------------------------- MODULE ExportLease -----------------------------
(***************************************************************************)
(* What the export queue promises about one row and its execution, with    *)
(* processes, pools, threads and files left out: a job is run, recovered,  *)
(* completed or failed only by the current owner of its lease, anybody may *)
(* cancel it while it is open, its result appears together with success,   *)
(* and nothing leaves a terminal status.                                   *)
(***************************************************************************)
EXTENDS Naturals

CONSTANTS Proc, Job, None

VARIABLES status, owner, result

vars == <<status, owner, result>>

Open == {"queued", "running"}

Init ==
  /\ status = [j \in Job |-> "absent"]
  /\ owner = [j \in Job |-> None]
  /\ result = [j \in Job |-> None]

Move(j, from, to) ==
  /\ status[j] \in from
  /\ status' = [status EXCEPT ![j] = to]

Owned(j, p) == owner[j] = p

Create(j) == Move(j, {"absent"}, "queued") /\ UNCHANGED <<owner, result>>

Cancel(j) == Move(j, Open, "cancelled") /\ UNCHANGED <<owner, result>>

Acquire(j, p) ==
  /\ owner[j] = None
  /\ owner' = [owner EXCEPT ![j] = p]
  /\ UNCHANGED <<status, result>>

Yield(j, p) ==
  /\ Owned(j, p)
  /\ owner' = [owner EXCEPT ![j] = None]
  /\ UNCHANGED <<status, result>>

Requeue(j, p) ==
  Owned(j, p) /\ Move(j, Open, "queued") /\ UNCHANGED <<owner, result>>

Begin(j, p) ==
  Owned(j, p) /\ Move(j, {"queued"}, "running") /\ UNCHANGED <<owner, result>>

\* A closed pool fails the job and gives the lease back in one step.
Fail(j, p) ==
  /\ Owned(j, p) /\ Move(j, Open, "failed")
  /\ owner' \in {owner, [owner EXCEPT ![j] = None]}
  /\ UNCHANGED result

Succeed(j, p) ==
  /\ Owned(j, p) /\ Move(j, {"running"}, "succeeded")
  /\ result' = [result EXCEPT ![j] = result'[j]]
  /\ result'[j] \in {p} \X Nat
  /\ UNCHANGED owner

\* A process dies with everything it owns.
Lose(p) ==
  /\ owner' = [j \in Job |-> IF owner[j] = p THEN None ELSE owner[j]]
  /\ UNCHANGED <<status, result>>

Next ==
  \/ \E j \in Job : Create(j) \/ Cancel(j)
  \/ \E j \in Job, p \in Proc : \/ Acquire(j, p) \/ Yield(j, p)
                                \/ Requeue(j, p) \/ Begin(j, p)
                                \/ Fail(j, p) \/ Succeed(j, p)
  \/ \E p \in Proc : Lose(p)

Spec == Init /\ [][Next]_vars
=============================================================================
