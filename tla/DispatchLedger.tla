---------------------------- MODULE DispatchLedger ----------------------------
(***************************************************************************)
(* The money side of a model call (app/experimental/model_broker.py): a    *)
(* preview names a route and its price, a reservation holds the price in   *)
(* the ledger of the project, the job marks it dispatched immediately      *)
(* before the provider is called, its end settles it, and a user           *)
(* reconciles what the program cannot know.  The callers are the broker's  *)
(* own API (model_broker_api.py) and the bound runs of workflows and of    *)
(* the simulator (declarative_model.py, story_simulator_model.py), which   *)
(* claim the run durably before they reserve.                              *)
(*                                                                         *)
(* Every change of the ledger, of the budget, of a price or of a claim is  *)
(* one transaction of the scope's document under the workspace lock: one   *)
(* action.  Between two of them anything may happen.  Routes, sources and  *)
(* permissions are checked again at each step by the code; here any of     *)
(* these checks may refuse.  Of the jobs (GenerationJob) only what the     *)
(* ledger sees is kept, and one manager, the process that answers          *)
(* execution_state, has them all.  Image and OCR profiles, which have rows *)
(* and recoveries of their own, are left out.                              *)
(***************************************************************************)
EXTENDS Naturals, FiniteSets

CONSTANTS
  Key,          \* idempotency keys of one actor
  Bound,        \* the keys that belong to a run and are claimed first
  Builtin,      \* the keys whose request may name the builtin route
  Job,          \* jobs, one for each request that prepares one
  Amount,       \* prices a user may configure, in microusd
  Bill,         \* what calls may cost
  Limit,        \* limits a user may configure
  MaxInflight,  \* bound on max_inflight
  MaxChanges,   \* bound on changes of the budget, and on those of the price
  MaxFaults,    \* bound on crashes and failing saves
  None

Pending  == {"RESERVED", "DISPATCHED"}
Inflight == Pending \cup {"UNKNOWN_UPSTREAM"}
Status   == Inflight \cup {"RELEASED", "SETTLED", "RECONCILED"}

\* The price of the route; it has no amount before a user configures it and
\* after it expires.
Tariff == [version: Nat, amount: Nat \cup {None}]

\* What a request carries from its preview.
Seen == [budget: Nat, price: Tariff]

Row == [job: Job, status: Status, price: Tariff, accounted: Nat \cup {None},
        dispatched: BOOLEAN, overrun: BOOLEAN, acknowledged: BOOLEAN, version: Nat]

\* Where the request is that prepared a job.
Request == [pc: {"idle", "reserve", "link", "start", "done"},
            key: Key \cup {None}, seen: Seen]

\* What a reconciliation read of the row and of its job.
Recon == [version: Nat, orphan: BOOLEAN]

ASSUME LedgerOK ==
  /\ IsFiniteSet(Key) /\ Bound \subseteq Key /\ Builtin \subseteq Key
  /\ Amount \subseteq Nat /\ Bill \subseteq Nat /\ Limit \subseteq Nat
  /\ MaxInflight \in Nat /\ MaxChanges \in Nat /\ MaxFaults \in Nat
  /\ None \notin Job \cup Key \cup Nat \cup Row \cup Recon

VARIABLES
  budget,       \* limit, max_inflight and their version
  tariff,       \* the price in force
  row,          \* the ledger
  claim,        \* model_execution of a run: the only job it will ever have
  req,          \* the request of each job
  worker,       \* where the thread of each job is, with the bill it knows
  manager,      \* the job as execution_state sees it
  upstream,     \* jobs whose call reached the provider
  recon,        \* reconcile requests between reading the job and the ledger
  faults

ledger == <<budget, tariff, row, claim>>
vars == <<ledger, req, worker, manager, upstream, recon, faults>>

NoTariff == [version |-> 0, amount |-> None]
\* The price of a builtin route, of which no invoice comes (actual_known_zero):
\* nobody configures it and it does not expire.
NoInvoice == [version |-> 0, amount |-> 0]

NoPreview == [budget |-> 0, price |-> NoTariff]

Init ==
  /\ budget = [version |-> 0, limit |-> None, max |-> 1]
  /\ tariff = NoTariff
  /\ row = [k \in Key |-> None]
  /\ claim = [k \in Bound |-> None]
  /\ req = [j \in Job |-> [pc |-> "idle", key |-> None, seen |-> NoPreview]]
  /\ worker = [j \in Job |-> [pc |-> "none", bill |-> None]]
  /\ manager = [j \in Job |-> "absent"]
  /\ upstream = {}
  /\ recon = [k \in Key |-> None]
  /\ faults = 0

----------------------------------------------------------------------------
(* The totals of the ledger. *)

Rows == {k \in Key : row[k] # None}
Fault == faults < MaxFaults /\ faults' = faults + 1

\* _price: a price without an amount is no price, whatever its version.
Price == IF tariff.amount = None THEN NoTariff ELSE tariff

\* A route still has the price it was reviewed or reserved with.
Current(price) == price \in {Price, NoInvoice}

OrZero(n) == IF n = None THEN 0 ELSE n

Reserve(k) == row[k].price.amount
InflightRows == {k \in Rows : row[k].status \in Inflight}
Unpriced == {k \in InflightRows : Reserve(k) = None}

\* The sum of a function, counted microusd by microusd.
Total(f) == Cardinality(UNION {{k} \X (1..f[k]) : k \in DOMAIN f})

Spent == [k \in Key |-> IF k \in Rows THEN OrZero(row[k].accounted) ELSE 0]

\* Mutant: settled bills are not counted against the limit.
MutCommitted == Total([k \in InflightRows |-> Spent[k]])

Committed == Total(Spent)
Overruns == {k \in Rows : row[k].overrun /\ ~row[k].acknowledged}

----------------------------------------------------------------------------
(* Budget and price. *)

ConfigureBudget(limit, max) ==
  /\ budget.version < MaxChanges
  /\ limit # None => limit >= Committed
  /\ budget' = [version |-> budget.version + 1, limit |-> limit, max |-> max]
  /\ UNCHANGED <<tariff, row, claim, req, worker, manager, upstream, recon, faults>>

ConfigurePrice(amount) ==
  /\ tariff.version < MaxChanges
  /\ tariff' = [version |-> tariff.version + 1, amount |-> amount]
  /\ UNCHANGED <<budget, row, claim, req, worker, manager, upstream, recon, faults>>

PriceExpires ==
  /\ tariff.amount # None
  /\ tariff' = [tariff EXCEPT !.amount = None]
  /\ UNCHANGED <<budget, row, claim, req, worker, manager, upstream, recon, faults>>

----------------------------------------------------------------------------
(* A request: preview, claim of the run, reservation, link, start. *)

\* The preview is read once more by reserve, and not after it.
Proceed(j, pc) == req' = [req EXCEPT ![j].pc = pc, ![j].seen = NoPreview]

\* The preview the user reviewed, and the job prepared for it.
Prepare(j, k) ==
  /\ req[j].pc = "idle"
  /\ \E price \in {Price, NoInvoice} :
       /\ price = NoInvoice => k \in Builtin
       /\ req' = [req EXCEPT ![j] =
            [pc |-> "reserve", key |-> k,
             seen |-> [budget |-> budget.version, price |-> price]]]

Generate(j, k) ==
  /\ k \notin Bound /\ Prepare(j, k)
  /\ UNCHANGED <<ledger, worker, manager, upstream, recon, faults>>

\* Mutant: a run that has no reservation yet may be dispatched again.
MutClaimRun(j, k) ==
  /\ k \in Bound /\ Prepare(j, k)
  /\ claim' = [claim EXCEPT ![k] = j]
  /\ UNCHANGED <<budget, tariff, row, worker, manager, upstream, recon, faults>>

\* A claim is never taken back, whatever happens to the job.
ClaimRun(j, k) ==
  /\ k \in Bound /\ claim[k] = None /\ Prepare(j, k)
  /\ claim' = [claim EXCEPT ![k] = j]
  /\ UNCHANGED <<budget, tariff, row, worker, manager, upstream, recon, faults>>

\* The admission rules of reserve; require_known_estimate refuses more.
Affordable(seen) ==
  LET amount == seen.price.amount IN
  /\ budget.version = seen.budget /\ Current(seen.price)
  /\ amount # None \/ budget.limit = None
  /\ Cardinality(InflightRows) < budget.max
  /\ Unpriced = {} /\ Overruns = {}
  /\ budget.limit # None => Committed + OrZero(amount) <= budget.limit

NewRow(j) ==
  [job |-> j, status |-> "RESERVED", price |-> req[j].seen.price,
   accounted |-> req[j].seen.price.amount, dispatched |-> FALSE,
   overrun |-> FALSE, acknowledged |-> FALSE, version |-> 1]

ReserveNew(j) ==
  LET k == req[j].key IN
  /\ req[j].pc = "reserve" /\ row[k] = None /\ Affordable(req[j].seen)
  /\ row' = [row EXCEPT ![k] = NewRow(j)]
  /\ Proceed(j, IF k \in Bound THEN "link" ELSE "start")
  /\ UNCHANGED <<budget, tariff, claim, worker, manager, upstream, recon, faults>>

\* A replay returns the row of the first request; anything else is refused.
ReserveEnds(j) ==
  /\ req[j].pc = "reserve"
  /\ Proceed(j, "done")
  /\ UNCHANGED <<ledger, worker, manager, upstream, recon, faults>>

\* The run learns its reservation, or the save is refused: the hold stays.
Link(j) ==
  /\ req[j].pc = "link"
  /\ Proceed(j, "start") \/ Proceed(j, "done")
  /\ UNCHANGED <<ledger, worker, manager, upstream, recon, faults>>

Start(j) ==
  /\ req[j].pc = "start"
  /\ Proceed(j, "done")
  /\ manager' = [manager EXCEPT ![j] = "live"]
  /\ worker' = [worker EXCEPT ![j].pc = "authorize"]
  /\ UNCHANGED <<ledger, upstream, recon, faults>>

----------------------------------------------------------------------------
(* Settlement. *)

\* Without an invoice the call cost nothing, however it ended.
Actual(r, bill) == IF r.price = NoInvoice THEN 0 ELSE bill

\* finalize with what the job's end knows of its bill.
Finalized(r, bill) ==
  IF r.status \notin Pending THEN r
  ELSE IF ~r.dispatched
  THEN [r EXCEPT !.status = "RELEASED", !.accounted = 0, !.version = r.version + 1]
  ELSE IF Actual(r, bill) = None
  THEN [r EXCEPT !.status = "UNKNOWN_UPSTREAM", !.accounted = r.price.amount,
                 !.version = r.version + 1]
  ELSE [r EXCEPT !.status = "SETTLED", !.accounted = Actual(r, bill),
                 !.overrun = Actual(r, bill) > r.price.amount,
                 !.version = r.version + 1]

Settle(j, bill) ==
  LET k == req[j].key IN
  row' = [row EXCEPT ![k] = Finalized(row[k], bill)]

\* start_prepared raised before there was a thread.  The broker's own API gives
\* the hold back, a bound run keeps it; with a thread that does not start the
\* job is in the list and its hook gives the hold back.
StartRefused(j) ==
  /\ req[j].pc = "start"
  /\ Proceed(j, "done")
  /\ \/ req[j].key \notin Bound /\ Settle(j, None) /\ UNCHANGED manager
     \/ req[j].key \in Bound /\ UNCHANGED <<row, manager>>
     \/ Settle(j, None) /\ manager' = [manager EXCEPT ![j] = "settled"]
  /\ UNCHANGED <<budget, tariff, claim, worker, upstream, recon, faults>>

\* ... and a settlement fails, too: the hook's, or the request's, or both.
StartRefusedFault(j) ==
  /\ Fault /\ req[j].pc = "start"
  /\ Proceed(j, "done")
  /\ UNCHANGED manager \/ manager' = [manager EXCEPT ![j] = "lost"]
  /\ UNCHANGED row \/ (req[j].key \notin Bound /\ Settle(j, None))
  /\ UNCHANGED <<budget, tariff, claim, worker, upstream, recon>>

----------------------------------------------------------------------------
(* The worker. *)

Walk(j, pc) == worker' = [worker EXCEPT ![j].pc = pc]

Dispatchable(r) == r.status \in Pending /\ Current(r.price)

\* guard_dispatch, the last thing before the provider is called.
GuardDispatch(j) ==
  LET k == req[j].key IN
  /\ worker[j].pc = "authorize" /\ Dispatchable(row[k])
  /\ row' = IF row[k].status = "DISPATCHED" THEN row
            ELSE [row EXCEPT ![k].status = "DISPATCHED", ![k].dispatched = TRUE,
                             ![k].version = row[k].version + 1]
  /\ Walk(j, "call")
  /\ UNCHANGED <<budget, tariff, claim, req, manager, upstream, recon, faults>>

\* Refused, cancelled, or failed before the call.
Quit(j) ==
  /\ worker[j].pc \in {"authorize", "call"}
  /\ Walk(j, "hook")
  /\ UNCHANGED <<ledger, req, manager, upstream, recon, faults>>

Call(j) ==
  /\ worker[j].pc = "call"
  /\ upstream' = upstream \cup {j}
  /\ Walk(j, "wait")
  /\ UNCHANGED <<ledger, req, manager, recon, faults>>

\* The end of the call.  The bill is known if it completed with usage and the
\* price has rates; only a price that the user configured has them.
Answer(j, bill) ==
  LET k == req[j].key IN
  /\ worker[j].pc = "wait"
  /\ bill # None => Reserve(k) # None /\ row[k].price # NoInvoice
  /\ worker' = [worker EXCEPT ![j] = [pc |-> "hook", bill |-> bill]]
  /\ UNCHANGED <<ledger, req, manager, upstream, recon, faults>>

\* _finish_terminal_hook calls finalize once.
Hook(j) ==
  /\ worker[j].pc = "hook"
  /\ Settle(j, worker[j].bill)
  /\ manager' = [manager EXCEPT ![j] = "settled"]
  /\ worker' = [worker EXCEPT ![j] = [pc |-> "none", bill |-> None]]
  /\ UNCHANGED <<budget, tariff, claim, req, upstream, recon, faults>>

\* The settlement fails, or the save that records it: RECONCILIATION_REQUIRED,
\* and nobody tries again.
HookFault(j) ==
  /\ Fault /\ worker[j].pc = "hook"
  /\ UNCHANGED row \/ Settle(j, worker[j].bill)
  /\ manager' = [manager EXCEPT ![j] = "lost"]
  /\ worker' = [worker EXCEPT ![j] = [pc |-> "none", bill |-> None]]
  /\ UNCHANGED <<budget, tariff, claim, req, upstream, recon>>

----------------------------------------------------------------------------
(* Reconciliation, by a user who knows the provider's bill. *)

IsPending(k) == row[k] # None /\ row[k].status \in Pending

\* Mutant: a job whose settlement failed is not offered for reconciliation.
MutOrphan(k) == IsPending(k) /\ manager[row[k].job] = "absent"

\* execution_state: nobody will settle the row any more.
Orphan(k) == IsPending(k) /\ manager[row[k].job] \in {"absent", "lost"}

\* The job is looked up outside of the transaction; what is closed by then is
\* refused by it.
ReconcileRead(k) ==
  /\ row[k] # None /\ recon[k] = None
  /\ row[k].status \in Inflight \cup {"SETTLED"}
  /\ recon' = [recon EXCEPT ![k] = [version |-> row[k].version, orphan |-> Orphan(k)]]
  /\ UNCHANGED <<ledger, req, worker, manager, upstream, faults>>

\* Mutant: the version the user saw is not compared.
MutReconcilable(k) ==
  \/ recon[k].orphan /\ row[k].status \in Pending
  \/ row[k].status = "UNKNOWN_UPSTREAM"
  \/ row[k].status = "SETTLED" /\ row[k].overrun

\* A user may confirm that the executor stopped although it did not.
Reconcilable(k) ==
  /\ recon[k].version = row[k].version
  /\ \/ recon[k].orphan /\ row[k].status \in Pending
     \/ row[k].status = "UNKNOWN_UPSTREAM"
     \/ row[k].status = "SETTLED" /\ row[k].overrun

Reconcile(k, actual) ==
  /\ recon[k] # None /\ Reconcilable(k)
  /\ row' = [row EXCEPT ![k] =
       [row[k] EXCEPT !.status = "RECONCILED", !.accounted = actual,
                      !.overrun = actual > OrZero(Reserve(k)), !.acknowledged = TRUE,
                      !.version = row[k].version + 1]]
  /\ recon' = [recon EXCEPT ![k] = None]
  /\ UNCHANGED <<budget, tariff, claim, req, worker, manager, upstream, faults>>

ReconcileRefused(k) ==
  /\ recon[k] # None
  /\ recon' = [recon EXCEPT ![k] = None]
  /\ UNCHANGED <<ledger, req, worker, manager, upstream, faults>>

----------------------------------------------------------------------------

\* Requests and threads are gone; restored jobs have no hooks.
Crash ==
  /\ Fault
  /\ req' = [j \in Job |-> IF req[j].pc = "idle" THEN req[j]
                           ELSE [req[j] EXCEPT !.pc = "done", !.seen = NoPreview]]
  /\ worker' = [j \in Job |-> [pc |-> "none", bill |-> None]]
  /\ manager' = [j \in Job |-> IF manager[j] = "absent" THEN "absent" ELSE "lost"]
  /\ recon' = [k \in Key |-> None]
  /\ UNCHANGED <<ledger, upstream>>

Handle(j) == ReserveNew(j) \/ ReserveEnds(j) \/ Link(j) \/ Start(j) \/ StartRefused(j)

Work(j) ==
  GuardDispatch(j) \/ Quit(j) \/ Call(j) \/ Hook(j)
  \/ \E bill \in Bill \cup {None} : Answer(j, bill)

Next ==
  \/ \E limit \in Limit \cup {None}, max \in 1..MaxInflight : ConfigureBudget(limit, max)
  \/ \E amount \in Amount : ConfigurePrice(amount)
  \/ PriceExpires
  \/ \E j \in Job :
       \/ \E k \in Key : Generate(j, k) \/ ClaimRun(j, k)
       \/ Handle(j) \/ StartRefusedFault(j) \/ Work(j) \/ HookFault(j)
  \/ \E k \in Key :
       \/ ReconcileRead(k) \/ ReconcileRefused(k)
       \/ \E actual \in Bill : Reconcile(k, actual)
  \/ Crash

Spec == Init /\ [][Next]_vars

\* Requests and threads that run do not stop, and providers answer or time out.
\* Nobody owes a reconciliation.
FairSpec == Spec /\ \A j \in Job : WF_vars(Handle(j)) /\ WF_vars(Work(j))
=============================================================================
