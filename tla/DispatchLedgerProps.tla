-------------------------- MODULE DispatchLedgerProps --------------------------
(***************************************************************************)
(* What the dispatch ledger must guarantee.                                *)
(***************************************************************************)
EXTENDS DispatchLedger

\* The type of every variable of DispatchLedger.
TypeOK ==
  /\ budget \in [version : Nat, limit : Nat \cup {None}, max : Nat]
  /\ tariff \in Tariff
  /\ row \in [Key -> Row \cup {None}]
  /\ claim \in [Bound -> Job \cup {None}]
  /\ req \in [Job -> Request]
  /\ worker \in [Job -> [pc : {"none", "authorize", "call", "wait", "hook"},
                         bill : Nat \cup {None}]]
  /\ manager \in [Job -> {"absent", "live", "settled", "lost"}]
  /\ upstream \subseteq Job
  /\ recon \in [Key -> Recon \cup {None}]
  /\ faults \in Nat

Owns(j) == req[j].key # None /\ row[req[j].key] # None /\ row[req[j].key].job = j

\* Whoever is past the reservation owns its row: a run only after it claimed it.
Ownership ==
  \A j \in Job :
    /\ req[j].pc \in {"link", "start"} \/ manager[j] # "absent" => Owns(j)
    /\ worker[j].pc # "none" => manager[j] = "live"
    /\ req[j].pc \in {"reserve", "link", "start"} =>
         manager[j] = "absent" /\ req[j].key # None
    /\ req[j].pc = "idle" => req[j].key = None /\ manager[j] = "absent"
    /\ req[j].key \in Bound => claim[req[j].key] = j

\* A row belongs to a request for its key.
RowsOwned == \A k \in Rows : req[row[k].job].key = k

\* The provider is called under a dispatched row of the caller, which nobody
\* settles or reconciles before the caller is back or dead.
CallsHeld ==
  \A j \in Job :
    /\ j \in upstream => Owns(j) /\ row[req[j].key].dispatched
    /\ worker[j].pc \in {"authorize", "call"} => j \notin upstream
    /\ worker[j].pc \in {"call", "wait"} =>
         Owns(j) /\ row[req[j].key].status = "DISPATCHED"
    /\ req[j].pc # "done" => j \notin upstream
    /\ Owns(j) /\ (manager[j] = "absent" \/ worker[j].pc = "authorize") =>
         ~row[req[j].key].dispatched
    /\ worker[j].bill # None =>
         worker[j].pc = "hook" /\ Reserve(req[j].key) # None

\* Status and amounts of a row agree.
RowsConsistent ==
  \A k \in Rows :
    /\ row[k].status = "DISPATCHED" => row[k].dispatched
    /\ row[k].status \in {"RESERVED", "RELEASED"} => ~row[k].dispatched
    /\ row[k].status \in Inflight => row[k].accounted = Reserve(k)
    /\ row[k].status \notin Inflight => row[k].accounted # None
    /\ row[k].status = "SETTLED" =>
         Reserve(k) # None /\ row[k].overrun = (row[k].accounted > Reserve(k))
    /\ row[k].version >= IF row[k].status = "RESERVED" THEN 1 ELSE 2

\* A reconciliation of a row that a worker may still send can only succeed
\* while the row is as it was read.
ReconSeesVersions ==
  \A k \in Key : recon[k] # None =>
    /\ row[k] # None /\ recon[k].version <= row[k].version
    /\ recon[k].orphan /\ row[k].status = "DISPATCHED"
         /\ recon[k].version = row[k].version =>
       worker[row[k].job].pc \notin {"call", "wait"}

Core ==
  /\ TypeOK /\ Ownership /\ RowsOwned /\ CallsHeld
  /\ RowsConsistent /\ ReconSeesVersions

\* A hold that counts against the budget has a thread that will settle it, or a
\* user may reconcile it: no end of a job leaves one that nobody can close.
HoldsOwned ==
  /\ \A k \in Key : IsPending(k) => Orphan(k) \/ worker[row[k].job].pc # "none"
  /\ \A j \in Job : manager[j] = "live" => worker[j].pc # "none"

\* The inductive invariant behind the safety properties.
IInv == Core /\ HoldsOwned

\* What a bill came out above its own reservation.
Excess ==
  [k \in Key |-> IF k \in Rows /\ row[k].accounted # None
                    /\ row[k].accounted > OrZero(Reserve(k))
                  THEN row[k].accounted - OrZero(Reserve(k)) ELSE 0]

\* What the project has committed exceeds the limit by no more than bills came
\* out above their own reservations: whatever requests, settlements and changes
\* of the budget interleave, no admission and no configuration exceeds it.
WithinBudget ==
  budget.limit # None => Total(Spent) <= budget.limit + Total(Excess)

HoldOf(k) ==
  IF row[k] = None THEN "none"
  ELSE CASE row[k].status = "RESERVED" -> "held"
         [] row[k].status = "DISPATCHED" -> "armed"
         [] row[k].status = "RELEASED" -> "free"
         [] row[k].status = "UNKNOWN_UPSTREAM" -> "unknown"
         [] OTHER -> "billed"

Hold == INSTANCE CallHold WITH
  hold <- [k \in Key |-> HoldOf(k)],
  called <- [k \in Key |-> {j \in upstream : req[j].key = k}]

\* Each request is held once, called at most once and only while it is armed,
\* given back only if it was never called, whatever is replayed, crashes or is
\* reconciled in between.
HoldContract == Hold!Spec

\* A hold is settled, or offered for reconciliation: no end of a job, failing
\* settlement or crash leaves one that counts against the budget for ever.
HoldsEnd ==
  \A k \in Key :
    IsPending(k) ~> ~IsPending(k) \/ Orphan(k)
=============================================================================
