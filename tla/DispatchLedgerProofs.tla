------------------------- MODULE DispatchLedgerProofs -------------------------
(***************************************************************************)
(* The dispatch ledger keeps its invariant and its budget, and implements  *)
(* CallHold.                                                               *)
(***************************************************************************)
EXTENDS DispatchLedgerProps, FiniteSetTheorems, TLAPS

----------------------------------------------------------------------------
(* Sums. *)

\* The units that Total counts.
Units(f) == UNION {{k} \X (1..f[k]) : k \in DOMAIN f}

LEMMA ColumnCounts ==
  ASSUME NEW k, NEW n \in Nat
  PROVE  IsFiniteSet({k} \X (1..n)) /\ Cardinality({k} \X (1..n)) = n
<1>1. IsFiniteSet({k}) /\ Cardinality({k}) = 1
  BY FS_Singleton
<1>2. IsFiniteSet(1..n) /\ Cardinality(1..n) = n
  BY FS_Interval
<1>3. /\ IsFiniteSet({k} \X (1..n))
      /\ Cardinality({k} \X (1..n)) = Cardinality({k}) * Cardinality(1..n)
  BY <1>1, <1>2, FS_Product
<1> QED
  BY <1>1, <1>2, <1>3

LEMMA UnitsFinite ==
  ASSUME NEW S, IsFiniteSet(S), NEW f \in [S -> Nat]
  PROVE  IsFiniteSet(Units(f))
<1> DEFINE T == {{k} \X (1..f[k]) : k \in S}
           g == [k \in S |-> {k} \X (1..f[k])]
<1>1. g \in Surjection(S, T)
  <2>1. g \in [S -> T]
    OBVIOUS
  <2>2. \A t \in T : \E k \in S : g[k] = t
    OBVIOUS
  <2> QED
    BY <2>1, <2>2, Zenon DEF Surjection
<1>2. IsFiniteSet(T)
  BY <1>1, FS_Surjection
<1>3. ASSUME NEW t \in T PROVE IsFiniteSet(t)
  <2>1. PICK k \in S : t = {k} \X (1..f[k])
    OBVIOUS
  <2>2. f[k] \in Nat
    OBVIOUS
  <2> QED
    BY <2>1, <2>2, ColumnCounts
<1> QED
  BY <1>2, <1>3, FS_UNION DEF Units

\* A sum of natural numbers is one.
LEMMA TotalTyped ==
  ASSUME NEW S, IsFiniteSet(S), NEW f \in [S -> Nat]
  PROVE  Total(f) \in Nat
<1>1. Total(f) = Cardinality(Units(f))
  BY DEF Total, Units
<1> QED
  BY <1>1, UnitsFinite, FS_CardinalityType

\* One summand and the sum of the others.
LEMMA TotalSplits ==
  ASSUME NEW S, IsFiniteSet(S), NEW f \in [S -> Nat], NEW k \in S
  PROVE  LET rest == [i \in S \ {k} |-> f[i]] IN
         Total(rest) \in Nat /\ Total(f) = f[k] + Total(rest)
<1> DEFINE rest == [i \in S \ {k} |-> f[i]]
           column == {k} \X (1..f[k])
<1>1. IsFiniteSet(S \ {k}) /\ rest \in [S \ {k} -> Nat]
  BY FS_RemoveElement
<1>2. Units(f) = column \cup Units(rest)
  BY DEF Units
<1>3. column \cap Units(rest) = {}
  BY DEF Units
<1>4. IsFiniteSet(column) /\ Cardinality(column) = f[k]
  BY ColumnCounts
<1>5. IsFiniteSet(Units(rest)) /\ Cardinality(Units(rest)) \in Nat
  BY <1>1, UnitsFinite, FS_CardinalityType
<1>6. Cardinality({}) = 0
  BY FS_EmptySet
<1> HIDE DEF rest, column
<1>7. Cardinality(column \cup Units(rest)) =
        Cardinality(column) + Cardinality(Units(rest)) - Cardinality(column \cap Units(rest))
  BY <1>4, <1>5, FS_Union
<1>8. Total(f) = Cardinality(Units(f)) /\ Total(rest) = Cardinality(Units(rest))
  BY DEF Total, Units
<1>9. f[k] \in Nat
  OBVIOUS
<1>10. Total(rest) \in Nat /\ Total(f) = f[k] + Total(rest)
  BY <1>2, <1>3, <1>4, <1>5, <1>6, <1>7, <1>8, <1>9
<1> QED
  BY <1>10 DEF rest

\* One summand changes.
LEMMA TotalChanges ==
  ASSUME NEW S, IsFiniteSet(S), NEW f \in [S -> Nat], NEW g \in [S -> Nat], NEW k \in S,
         \A i \in S \ {k} : g[i] = f[i]
  PROVE  Total(g) + f[k] = Total(f) + g[k]
<1> DEFINE rest(h) == [i \in S \ {k} |-> h[i]]
<1>1. rest(f) = rest(g)
  OBVIOUS
<1>2. Total(rest(f)) \in Nat /\ Total(f) = f[k] + Total(rest(f))
  BY TotalSplits
<1>3. Total(rest(g)) \in Nat /\ Total(g) = g[k] + Total(rest(g))
  BY TotalSplits
<1>4. f[k] \in Nat /\ g[k] \in Nat
  OBVIOUS
<1> HIDE DEF rest
<1> QED
  BY <1>1, <1>2, <1>3, <1>4

----------------------------------------------------------------------------
(* Types. *)

LEMMA PriceTyped == TypeOK => Price \in Tariff /\ NoTariff \in Tariff /\ NoPreview \in Seen
BY DEF TypeOK, Price, NoTariff, NoPreview, Tariff, Seen

\* A row of a request.
LEMMA RowTyped ==
  ASSUME TypeOK, NEW k \in Key, row[k] # None
  PROVE  /\ row[k] \in Row /\ row[k].job \in Job /\ row[k].status \in Status
         /\ row[k].price \in Tariff /\ row[k].version \in Nat
         /\ row[k].price.amount \in Nat \cup {None}
BY DEF TypeOK, Row, Tariff

LEMMA RequestTyped ==
  ASSUME TypeOK, NEW j \in Job
  PROVE  /\ req[j].key \in Key \cup {None} /\ req[j].seen \in Seen
         /\ req[j].seen.price \in Tariff
         /\ req[j].seen.price.amount \in Nat \cup {None}
         /\ worker[j].bill \in Nat \cup {None}
BY DEF TypeOK, Request, Seen, Tariff

\* A settled row is a row with the same owner and price.
LEMMA FinalizedTyped ==
  ASSUME NEW r \in Row, NEW bill \in Nat \cup {None},
         bill # None => r.price.amount \in Nat
  PROVE  LET f == Finalized(r, bill) IN
         /\ f \in Row /\ f.job = r.job /\ f.price = r.price /\ f.dispatched = r.dispatched
         /\ f.version \in {r.version, r.version + 1}
         /\ r.status \notin Pending => f = r
         /\ r.status \in Pending =>
              /\ f.status \notin Pending /\ f.version = r.version + 1
              /\ f.status = IF ~r.dispatched THEN "RELEASED"
                            ELSE IF Actual(r, bill) = None THEN "UNKNOWN_UPSTREAM"
                            ELSE "SETTLED"
              /\ f.accounted = IF ~r.dispatched THEN 0
                               ELSE IF Actual(r, bill) = None THEN r.price.amount
                               ELSE Actual(r, bill)
              /\ r.dispatched /\ Actual(r, bill) # None =>
                   /\ Actual(r, bill) \in Nat /\ r.price.amount \in Nat
                   /\ f.overrun = (Actual(r, bill) > r.price.amount)
<1> DEFINE f == Finalized(r, bill)
           cost == Actual(r, bill)
<1>b. cost \in Nat \cup {None} /\ (cost # None => r.price.amount \in Nat)
  BY DEF Actual, NoInvoice
<1> HIDE DEF cost
<1>0. /\ r.job \in Job /\ r.price \in Tariff /\ r.price.amount \in Nat \cup {None}
      /\ r.dispatched \in BOOLEAN /\ r.version \in Nat /\ r.version + 1 \in Nat
  BY DEF Row, Tariff
<1>a. {"RELEASED", "UNKNOWN_UPSTREAM", "SETTLED"} \subseteq Status \ Pending
  BY DEF Status, Inflight, Pending
<1>1. CASE r.status \notin Pending
  BY <1>0, <1>1 DEF Finalized
<1>2. CASE r.status \in Pending /\ ~r.dispatched
  <2>1. f = [r EXCEPT !.status = "RELEASED", !.accounted = 0, !.version = r.version + 1]
    BY <1>2 DEF Finalized
  <2>2. f \in Row
    <3>1. \A n \in Nat \cup {None} :
            [r EXCEPT !.status = "RELEASED", !.accounted = n, !.version = r.version + 1] \in Row
      BY <1>0, <1>a DEF Row
    <3> QED
      BY <2>1, <3>1
  <2> QED
    BY <1>0, <1>2, <1>a, <2>1, <2>2 DEF Row
<1>3. CASE r.status \in Pending /\ r.dispatched /\ cost = None
  <2>1. f = [r EXCEPT !.status = "UNKNOWN_UPSTREAM", !.accounted = r.price.amount,
                      !.version = r.version + 1]
    BY <1>3 DEF Finalized, cost
  <2>2. \A x \in Status, n \in Nat :
          [r EXCEPT !.status = x, !.accounted = r.price.amount, !.version = n] \in Row
    BY <1>0 DEF Row
  <2>3. f \in Row
    BY <1>0, <1>a, <2>1, <2>2
  <2>4. /\ f.job = r.job /\ f.price = r.price /\ f.dispatched = r.dispatched
        /\ f.version = r.version + 1 /\ f.status = "UNKNOWN_UPSTREAM"
        /\ f.accounted = r.price.amount
    BY <2>1 DEF Row
  <2> QED
    BY <1>3, <1>a, <2>3, <2>4 DEF cost
<1>4. CASE r.status \in Pending /\ r.dispatched /\ cost # None
  <2>1. f = [r EXCEPT !.status = "SETTLED", !.accounted = cost,
                      !.overrun = cost > r.price.amount, !.version = r.version + 1]
    BY <1>4 DEF Finalized, cost
  <2>2. cost \in Nat /\ r.price.amount \in Nat /\ (cost > r.price.amount) \in BOOLEAN
    BY <1>4, <1>b
  <2> QED
    BY <1>0, <1>4, <1>a, <2>1, <2>2 DEF Row, cost
<1> QED
  BY <1>1, <1>2, <1>3, <1>4 DEF cost

LEMMA InitTyped == Init => TypeOK
BY PriceTyped, LedgerOK DEF Init, TypeOK, NoTariff, NoPreview, Tariff, Seen, Request

\* A settlement keeps the rows of their type.
LEMMA SettleTyped ==
  ASSUME Core, NEW j \in Job, Owns(j), NEW bill \in Nat \cup {None},
         bill # None => Reserve(req[j].key) # None, Settle(j, bill)
  PROVE  LET k == req[j].key IN
         /\ k \in Key /\ row[k] \in Row /\ row[k].job = j
         /\ row' = [row EXCEPT ![k] = Finalized(row[k], bill)]
         /\ row'[k] = Finalized(row[k], bill) /\ row'[k] \in Row /\ row'[k] # None
         /\ row' \in [Key -> Row \cup {None}]
         /\ bill # None => row[k].price.amount \in Nat
<1> DEFINE k == req[j].key
<1>1. k \in Key /\ row[k] # None /\ row[k].job = j
  BY RequestTyped DEF Owns, Core
<1>2. row[k] \in Row /\ row[k].price.amount \in Nat \cup {None}
  BY <1>1, RowTyped DEF Core
<1>3. bill # None => row[k].price.amount \in Nat
  BY <1>2 DEF Reserve
<1>4. row' = [row EXCEPT ![k] = Finalized(row[k], bill)]
  BY DEF Settle
<1>5. Finalized(row[k], bill) \in Row
  BY <1>2, <1>3, FinalizedTyped
<1>6. row \in [Key -> Row \cup {None}]
  BY DEF Core, TypeOK
<1>7. row' \in [Key -> Row \cup {None}] /\ row'[k] = Finalized(row[k], bill)
  BY <1>1, <1>4, <1>5, <1>6
<1>8. row'[k] # None
  BY <1>1, <1>2, <1>3, <1>5, <1>7, FinalizedTyped, LedgerOK DEF Row
<1> QED
  BY <1>1, <1>2, <1>3, <1>4, <1>5, <1>7, <1>8

\* A request moves on.
LEMMA ProceedTyped ==
  ASSUME TypeOK, NEW j \in Job, NEW pc \in {"idle", "reserve", "link", "start", "done"},
         Proceed(j, pc)
  PROVE  /\ req' \in [Job -> Request]
         /\ req'[j].pc = pc /\ req'[j].key = req[j].key
         /\ \A i \in Job \ {j} : req'[i] = req[i]
<1>1. req'[j] = [req[j] EXCEPT !.pc = pc, !.seen = NoPreview]
  BY DEF Proceed, TypeOK
<1>2. req[j] \in Request
  BY DEF TypeOK
<1>3. req'[j] \in Request /\ req'[j].pc = pc /\ req'[j].key = req[j].key
  BY <1>1, <1>2, PriceTyped DEF Request
<1> QED
  BY <1>3 DEF Proceed, TypeOK

LEMMA WalkTyped ==
  ASSUME TypeOK, NEW j \in Job, NEW pc \in {"none", "authorize", "call", "wait", "hook"},
         Walk(j, pc)
  PROVE  /\ worker' \in [Job -> [pc : {"none", "authorize", "call", "wait", "hook"},
                                 bill : Nat \cup {None}]]
         /\ worker'[j].pc = pc /\ worker'[j].bill = worker[j].bill
         /\ \A i \in Job \ {j} : worker'[i] = worker[i]
BY DEF Walk, TypeOK

\* A request begins.
LEMMA PrepareTyped ==
  ASSUME TypeOK, NEW j \in Job, NEW k \in Key, Prepare(j, k)
  PROVE  /\ req' \in [Job -> Request]
         /\ req[j].pc = "idle" /\ req'[j].pc = "reserve" /\ req'[j].key = k
         /\ \A i \in Job \ {j} : req'[i] = req[i]
<1>1. budget.version \in Nat /\ {Price, NoInvoice} \subseteq Tariff
  BY PriceTyped DEF TypeOK, NoInvoice, Tariff
<1>2. PICK price \in {Price, NoInvoice} :
        req' = [req EXCEPT ![j] =
          [pc |-> "reserve", key |-> k,
           seen |-> [budget |-> budget.version, price |-> price]]]
  BY DEF Prepare
<1>3. req[j].pc = "idle"
  BY DEF Prepare
<1> QED
  BY <1>1, <1>2, <1>3 DEF TypeOK, Request, Seen

----------------------------------------------------------------------------
(* What the contract sees. *)

HoldBar == [k \in Key |-> HoldOf(k)]
CalledBar == [k \in Key |-> {j \in upstream : req[j].key = k}]
Mapped == [Hold!Next]_(Hold!vars)
Keeps == Core' /\ Mapped

LEMMA CalledStays ==
  ASSUME Core, upstream' = upstream, \A j \in upstream : req'[j].key = req[j].key
  PROVE  CalledBar' = CalledBar
BY DEF CalledBar

LEMMA StutterMaps ==
  ASSUME Core, upstream' = upstream, \A j \in upstream : req'[j].key = req[j].key,
         \A k \in Key : HoldOf(k)' = HoldOf(k)
  PROVE  Mapped
<1>1. CalledBar' = CalledBar /\ HoldBar' = HoldBar
  BY CalledStays DEF HoldBar
<1> QED
  BY <1>1 DEF Mapped, Hold!vars, HoldBar, CalledBar

\* One hold moves.
LEMMA MoveMaps ==
  ASSUME Core, upstream' = upstream, \A j \in upstream : req'[j].key = req[j].key,
         NEW k \in Key, \A i \in Key \ {k} : HoldOf(i)' = HoldOf(i),
         \/ HoldOf(k)' = HoldOf(k)
         \/ HoldOf(k) = "none" /\ HoldOf(k)' = "held"
         \/ HoldOf(k) = "held" /\ HoldOf(k)' = "armed"
         \/ HoldOf(k) = "held" /\ HoldOf(k)' = "free" /\ \A j \in upstream : req[j].key # k
         \/ HoldOf(k) = "armed" /\ HoldOf(k)' = "unknown"
         \/ HoldOf(k) \in {"held", "armed", "unknown"} /\ HoldOf(k)' = "billed"
  PROVE  Mapped
<1>1. CalledBar' = CalledBar
  BY CalledStays
<1>2. HoldBar' = [HoldBar EXCEPT ![k] = HoldOf(k)'] /\ HoldBar[k] = HoldOf(k)
  BY DEF HoldBar
<1>3. CASE HoldOf(k)' = HoldOf(k)
  BY <1>3, StutterMaps
<1>4. CASE HoldOf(k) = "held" /\ HoldOf(k)' = "free" /\ \A j \in upstream : req[j].key # k
  <2>1. CalledBar[k] = {}
    BY <1>4 DEF CalledBar
  <2>2. Hold!Free(k)
    BY <1>1, <1>2, <1>4, <2>1 DEF Hold!Free, Hold!Move, HoldBar, CalledBar
  <2> QED
    BY <2>2 DEF Mapped, Hold!Next
<1>5. CASE HoldOf(k) = "none" /\ HoldOf(k)' = "held"
  BY <1>1, <1>2, <1>5 DEF Mapped, Hold!Next, Hold!Take, Hold!Move, HoldBar, CalledBar
<1>6. CASE HoldOf(k) = "held" /\ HoldOf(k)' = "armed"
  BY <1>1, <1>2, <1>6 DEF Mapped, Hold!Next, Hold!Arm, Hold!Move, HoldBar, CalledBar
<1>7. CASE HoldOf(k) = "armed" /\ HoldOf(k)' = "unknown"
  BY <1>1, <1>2, <1>7 DEF Mapped, Hold!Next, Hold!Forget, Hold!Move, HoldBar, CalledBar
<1>8. CASE HoldOf(k) \in {"held", "armed", "unknown"} /\ HoldOf(k)' = "billed"
  BY <1>1, <1>2, <1>8 DEF Mapped, Hold!Next, Hold!Charge, Hold!Move, HoldBar, CalledBar
<1> QED
  BY <1>3, <1>4, <1>5, <1>6, <1>7, <1>8

----------------------------------------------------------------------------
(* Steps that leave the ledger's rows alone. *)

\* Requests and threads change, rows do not.
LEMMA RowsStayInv ==
  ASSUME Core, TypeOK', row' = row, Ownership', CallsHeld',
         \A k \in Rows : req'[row[k].job].key = req[row[k].job].key,
         \A k \in Key : recon'[k] # None =>
           \/ /\ recon'[k] = recon[k] /\ row[k] # None
              /\ worker'[row[k].job].pc \in {"call", "wait"} =>
                   worker[row[k].job].pc \in {"call", "wait"}
           \/ /\ row[k] # None /\ recon'[k].version = row[k].version
              /\ recon'[k].orphan => worker'[row[k].job].pc \notin {"call", "wait"}
  PROVE  Core'
<1>1. RowsOwned'
  BY DEF Core, RowsOwned, Rows
<1>2. RowsConsistent'
  BY DEF Core, RowsConsistent, Rows, Reserve
<1>3. ReconSeesVersions'
  <2> SUFFICES ASSUME NEW k \in Key, recon'[k] # None
               PROVE  /\ row'[k] # None /\ recon'[k].version <= row'[k].version
                      /\ recon'[k].orphan /\ row'[k].status = "DISPATCHED"
                           /\ recon'[k].version = row'[k].version =>
                         worker'[row'[k].job].pc \notin {"call", "wait"}
    BY DEF ReconSeesVersions
  <2>1. CASE row[k] # None /\ recon'[k].version = row[k].version
             /\ (recon'[k].orphan => worker'[row[k].job].pc \notin {"call", "wait"})
    BY <2>1, RowTyped DEF Core
  <2>2. CASE recon'[k] = recon[k] /\ row[k] # None
             /\ (worker'[row[k].job].pc \in {"call", "wait"} =>
                   worker[row[k].job].pc \in {"call", "wait"})
    BY <2>2 DEF Core, ReconSeesVersions
  <2> QED
    BY <2>1, <2>2
<1> QED
  BY <1>1, <1>2, <1>3 DEF Core

\* Nor does what was called.
LEMMA RowsStay ==
  ASSUME Core, TypeOK', UNCHANGED <<row, upstream>>, Ownership', CallsHeld',
         \A k \in Rows : req'[row[k].job].key = req[row[k].job].key,
         \A j \in upstream : req'[j].key = req[j].key,
         \A k \in Key : recon'[k] # None =>
           \/ /\ recon'[k] = recon[k] /\ row[k] # None
              /\ worker'[row[k].job].pc \in {"call", "wait"} =>
                   worker[row[k].job].pc \in {"call", "wait"}
           \/ /\ row[k] # None /\ recon'[k].version = row[k].version
              /\ recon'[k].orphan => worker'[row[k].job].pc \notin {"call", "wait"}
  PROVE  Keeps
<1>1. \A k \in Key : HoldOf(k)' = HoldOf(k)
  BY DEF HoldOf
<1>2. Mapped
  BY <1>1, StutterMaps
<1> QED
  BY <1>2, RowsStayInv DEF Keeps

\* A user configures a budget or a price, or the price expires.
LEMMA ConfigureKeeps ==
  ASSUME Core,
         \/ \E limit \in Limit \cup {None}, max \in 1..MaxInflight : ConfigureBudget(limit, max)
         \/ \E amount \in Amount : ConfigurePrice(amount)
         \/ PriceExpires
  PROVE  Keeps
<1>1. UNCHANGED <<row, claim, req, worker, manager, upstream, recon, faults>>
  BY DEF ConfigureBudget, ConfigurePrice, PriceExpires
<1>2. budget' \in [version : Nat, limit : Nat \cup {None}, max : Nat] /\ tariff' \in Tariff
  BY LedgerOK DEF ConfigureBudget, ConfigurePrice, PriceExpires, Core, TypeOK, Tariff
<1>3. TypeOK' /\ Ownership' /\ CallsHeld'
  BY <1>1, <1>2 DEF Core, TypeOK, Ownership, CallsHeld, Owns, Reserve
<1>4. \A k \in Key : recon[k] # None => row[k] # None
  BY DEF Core, ReconSeesVersions
<1> QED
  BY <1>1, <1>3, <1>4, RowsStay

\* Ownership and CallsHeld of one job.
JobOK(j) ==
  /\ req[j].pc \in {"link", "start"} \/ manager[j] # "absent" => Owns(j)
  /\ worker[j].pc # "none" => manager[j] = "live"
  /\ req[j].pc \in {"reserve", "link", "start"} => manager[j] = "absent" /\ req[j].key # None
  /\ req[j].pc = "idle" => req[j].key = None /\ manager[j] = "absent"
  /\ req[j].key \in Bound => claim[req[j].key] = j
  /\ j \in upstream => Owns(j) /\ row[req[j].key].dispatched
  /\ worker[j].pc \in {"authorize", "call"} => j \notin upstream
  /\ worker[j].pc \in {"call", "wait"} => Owns(j) /\ row[req[j].key].status = "DISPATCHED"
  /\ req[j].pc # "done" => j \notin upstream
  /\ Owns(j) /\ (manager[j] = "absent" \/ worker[j].pc = "authorize") =>
       ~row[req[j].key].dispatched
  /\ worker[j].bill # None => worker[j].pc = "hook" /\ Reserve(req[j].key) # None

LEMMA JobHolds == ASSUME Core, NEW j \in Job PROVE JobOK(j)
BY DEF Core, Ownership, CallsHeld, JobOK

LEMMA JobsCollect == (\A j \in Job : JobOK(j)') => Ownership' /\ CallsHeld'
BY DEF Ownership, CallsHeld, JobOK

\* A job whose request, thread and row are not touched.
LEMMA JobStays ==
  ASSUME Core, NEW j \in Job, req'[j] = req[j], worker'[j] = worker[j],
         manager'[j] = manager[j], j \in upstream' <=> j \in upstream,
         req[j].key \in Bound => claim'[req[j].key] = claim[req[j].key],
         req[j].key # None => row'[req[j].key] = row[req[j].key]
  PROVE  JobOK(j)'
<1>1. JobOK(j)
  BY JobHolds
<1>2. Owns(j)' = Owns(j)
  BY DEF Owns
<1>3. req[j].pc = "idle" => req[j].key = None
  BY <1>1 DEF JobOK
<1>4. CASE req[j].key # None
  BY <1>1, <1>2, <1>4 DEF JobOK, Reserve
<1>5. CASE req[j].key = None
  <2>1. ~Owns(j) /\ ~Owns(j)'
    BY <1>2, <1>5 DEF Owns
  <2>2. None \notin Bound
    BY LedgerOK
  <2>3. worker[j].bill = None
    BY <1>1, <2>1 DEF JobOK
  <2> QED
    BY <1>1, <1>5, <2>1, <2>2, <2>3 DEF JobOK
<1> QED
  BY <1>4, <1>5

LEMMA PrepareKeeps ==
  ASSUME Core, NEW j \in Job, NEW k \in Key, Generate(j, k) \/ ClaimRun(j, k)
  PROVE  Keeps
<1>1. /\ Prepare(j, k)
      /\ UNCHANGED <<budget, tariff, row, worker, manager, upstream, recon, faults>>
      /\ \/ k \notin Bound /\ claim' = claim
         \/ k \in Bound /\ claim[k] = None /\ claim' = [claim EXCEPT ![k] = j]
  BY DEF Generate, ClaimRun, ledger
<1>2. /\ req' \in [Job -> Request] /\ req[j].pc = "idle" /\ req'[j].pc = "reserve"
      /\ req'[j].key = k /\ \A i \in Job \ {j} : req'[i] = req[i]
  BY <1>1, PrepareTyped DEF Core
<1>3. TypeOK'
  BY <1>1, <1>2 DEF Core, TypeOK
<1>4. JobOK(j) /\ req[j].key = None /\ manager[j] = "absent" /\ ~Owns(j)
      /\ j \notin upstream /\ worker[j].pc = "none" /\ worker[j].bill = None
  BY <1>2, JobHolds DEF JobOK, Owns
<1>5. ~Owns(j)'
  <2>1. row[k] # None => row[k].job # j
    BY <1>4, LedgerOK DEF Core, RowsOwned, Rows
  <2> QED
    BY <1>1, <1>2, <2>1 DEF Owns
<1>6. JobOK(j)'
  <2>1. k \in Bound => claim'[k] = j
    BY <1>1 DEF Core, TypeOK
  <2> QED
    BY <1>1, <1>2, <1>4, <1>5, <2>1, LedgerOK DEF JobOK
<1>7. ASSUME NEW i \in Job \ {j} PROVE JobOK(i)'
  <2>1. req[i].key \in Bound => claim'[req[i].key] = claim[req[i].key]
    <3>1. req[i].key \in Bound => claim[req[i].key] = i
      BY JobHolds DEF JobOK
    <3> QED
      BY <1>1, <3>1, LedgerOK DEF Core, TypeOK
  <2> QED
    BY <1>1, <1>2, <2>1, JobStays
<1>8. Ownership' /\ CallsHeld'
  BY <1>6, <1>7, JobsCollect
<1>9. \A i \in Rows : req'[row[i].job].key = req[row[i].job].key
  <2>1. \A i \in Rows : row[i].job \in Job /\ row[i].job # j
    BY <1>4, RowTyped, LedgerOK DEF Core, RowsOwned, Rows
  <2> QED
    BY <1>2, <2>1
<1>10. \A i \in upstream : req'[i].key = req[i].key
  BY <1>2, <1>4 DEF Core, TypeOK
<1>11. \A i \in Key : recon[i] # None => row[i] # None
  BY DEF Core, ReconSeesVersions
<1> QED
  BY <1>1, <1>3, <1>8, <1>9, <1>10, <1>11, RowsStay

\* A request goes on to, or ends at, a place that needs nothing new.
LEMMA ProceedKeeps ==
  ASSUME Core, NEW j \in Job,
         \/ ReserveEnds(j)
         \/ Link(j)
         \/ req[j].pc = "start" /\ Proceed(j, "done")
              /\ UNCHANGED <<ledger, worker, manager, upstream, recon>> /\ faults' \in Nat
  PROVE  Keeps
<1>1. /\ UNCHANGED <<budget, tariff, row, claim, worker, manager, upstream, recon>>
      /\ faults' \in Nat
  BY DEF ReserveEnds, Link, ledger, Core, TypeOK
<1>2. /\ req' \in [Job -> Request] /\ req'[j].key = req[j].key
      /\ \A i \in Job \ {j} : req'[i] = req[i]
      /\ \/ req'[j].pc = "done" /\ req[j].pc \in {"reserve", "link", "start"}
         \/ req'[j].pc = "start" /\ req[j].pc = "link"
  <2>1. PICK pc \in {"start", "done"} :
          /\ Proceed(j, pc)
          /\ \/ pc = "done" /\ req[j].pc \in {"reserve", "link", "start"}
             \/ pc = "start" /\ req[j].pc = "link"
    BY DEF ReserveEnds, Link
  <2> QED
    BY <2>1, ProceedTyped DEF Core
<1>3. TypeOK'
  BY <1>1, <1>2 DEF Core, TypeOK
<1>4. JobOK(j)'
  <2>1. Owns(j)' = Owns(j)
    BY <1>1, <1>2 DEF Owns
  <2> QED
    BY <1>1, <1>2, <2>1, JobHolds DEF JobOK, Reserve
<1>5. ASSUME NEW i \in Job \ {j} PROVE JobOK(i)'
  BY <1>1, <1>2, JobStays
<1>6. Ownership' /\ CallsHeld'
  BY <1>4, <1>5, JobsCollect
<1>7. \A i \in Job : req'[i].key = req[i].key
  BY <1>2
<1>8. (\A k \in Rows : row[k].job \in Job) /\ upstream \subseteq Job
  BY RowTyped DEF Core, Rows, TypeOK
<1>9. \A k \in Key : recon[k] # None => row[k] # None
  BY DEF Core, ReconSeesVersions
<1> QED
  BY <1>1, <1>3, <1>6, <1>7, <1>8, <1>9, RowsStay

\* A thread starts; its row was never dispatched.
LEMMA StartKeeps == ASSUME Core, NEW j \in Job, Start(j) PROVE Keeps
<1>1. /\ req[j].pc = "start" /\ Proceed(j, "done")
      /\ UNCHANGED <<budget, tariff, row, claim, upstream, recon, faults>>
      /\ manager' = [manager EXCEPT ![j] = "live"]
      /\ worker' = [worker EXCEPT ![j].pc = "authorize"]
  BY DEF Start, ledger
<1>2. /\ req' \in [Job -> Request] /\ req'[j].pc = "done" /\ req'[j].key = req[j].key
      /\ \A i \in Job \ {j} : req'[i] = req[i]
  BY <1>1, ProceedTyped DEF Core
<1>3. /\ manager'[j] = "live" /\ worker'[j].pc = "authorize"
      /\ worker'[j].bill = worker[j].bill
      /\ \A i \in Job \ {j} : worker'[i] = worker[i] /\ manager'[i] = manager[i]
  BY <1>1 DEF Core, TypeOK
<1>4. TypeOK'
  BY <1>1, <1>2 DEF Core, TypeOK
<1>5. JobOK(j)'
  <2>1. Owns(j)' = Owns(j) /\ Owns(j) /\ worker[j].bill = None /\ j \notin upstream
        /\ manager[j] = "absent"
    BY <1>1, <1>2, JobHolds DEF JobOK, Owns
  <2> QED
    BY <1>1, <1>2, <1>3, <2>1, JobHolds DEF JobOK
<1>6. ASSUME NEW i \in Job \ {j} PROVE JobOK(i)'
  BY <1>1, <1>2, <1>3, JobStays
<1>7. Ownership' /\ CallsHeld'
  BY <1>5, <1>6, JobsCollect
<1>8. (\A k \in Rows : row[k].job \in Job) /\ upstream \subseteq Job
  BY RowTyped DEF Core, Rows, TypeOK
<1>9. \A k \in Key : recon[k] # None => row[k] # None /\ row[k].job \in Job
  BY RowTyped DEF Core, ReconSeesVersions
<1> QED
  BY <1>1, <1>2, <1>3, <1>4, <1>7, <1>8, <1>9, RowsStay

\* A thread gives up, or has its answer.
LEMMA LeaveKeeps ==
  ASSUME Core, NEW j \in Job, Quit(j) \/ \E bill \in Bill \cup {None} : Answer(j, bill)
  PROVE  Keeps
<1>1. /\ UNCHANGED <<budget, tariff, row, claim, req, manager, upstream, recon, faults>>
      /\ worker[j].pc \in {"authorize", "call", "wait"}
  BY DEF Quit, Answer, ledger
<1>2. JobOK(j) /\ Owns(j) /\ worker[j].bill = None
  BY <1>1, JobHolds DEF JobOK
<1>3. /\ worker' \in [Job -> [pc : {"none", "authorize", "call", "wait", "hook"},
                              bill : Nat \cup {None}]]
      /\ worker'[j].pc = "hook"
      /\ worker'[j].bill # None => Reserve(req[j].key) # None
      /\ \A i \in Job \ {j} : worker'[i] = worker[i]
  <2>1. CASE Quit(j)
    BY <1>2, <2>1, WalkTyped DEF Quit, Core
  <2>2. CASE \E bill \in Bill \cup {None} : Answer(j, bill)
    <3>1. PICK bill \in Bill \cup {None} : Answer(j, bill)
      BY <2>2
    <3> QED
      BY <3>1, LedgerOK DEF Answer, Core, TypeOK
  <2> QED
    BY <2>1, <2>2
<1>4. TypeOK'
  BY <1>1, <1>3 DEF Core, TypeOK
<1>5. JobOK(j)'
  BY <1>1, <1>2, <1>3 DEF JobOK, Owns, Reserve
<1>6. ASSUME NEW i \in Job \ {j} PROVE JobOK(i)'
  BY <1>1, <1>3, JobStays
<1>7. Ownership' /\ CallsHeld'
  BY <1>5, <1>6, JobsCollect
<1>8. \A k \in Key : recon[k] # None => row[k] # None /\ row[k].job \in Job
  BY RowTyped DEF Core, ReconSeesVersions
<1> QED
  BY <1>1, <1>3, <1>4, <1>7, <1>8, RowsStay

\* The provider is called: nobody else's row has the key.
LEMMA CallKeeps ==
  ASSUME Core, NEW j \in Job, NEW k, k = req[j].key, Call(j)
  PROVE  Keeps
<1>1. /\ UNCHANGED <<budget, tariff, row, claim, req, manager, recon, faults>>
      /\ upstream' = upstream \cup {j} /\ worker[j].pc = "call" /\ Walk(j, "wait")
  BY DEF Call, ledger
<1>2. /\ JobOK(j) /\ Owns(j) /\ row[k].status = "DISPATCHED" /\ row[k].dispatched
      /\ k \in Key /\ manager[j] = "live" /\ req[j].pc = "done" /\ j \notin upstream
  <2>1. /\ JobOK(j) /\ Owns(j) /\ row[k].status = "DISPATCHED" /\ manager[j] = "live"
        /\ j \notin upstream
    BY <1>1, JobHolds DEF JobOK
  <2>2. k \in Key /\ row[k] # None
    BY <2>1, RequestTyped DEF Owns, Core
  <2>3. row[k].dispatched
    BY <2>1, <2>2 DEF Core, RowsConsistent, Rows
  <2>4. req[j].pc = "done"
    BY <2>1 DEF JobOK, Core, TypeOK, Request
  <2> QED
    BY <2>1, <2>2, <2>3, <2>4
<1>3. /\ worker' \in [Job -> [pc : {"none", "authorize", "call", "wait", "hook"},
                              bill : Nat \cup {None}]]
      /\ worker'[j].pc = "wait" /\ worker'[j].bill = worker[j].bill
      /\ \A i \in Job \ {j} : worker'[i] = worker[i]
  BY <1>1, WalkTyped DEF Core
<1>4. TypeOK'
  BY <1>1, <1>3 DEF Core, TypeOK
<1>5. JobOK(j)'
  BY <1>1, <1>2, <1>3 DEF JobOK, Owns, Reserve
<1>6. ASSUME NEW i \in Job \ {j} PROVE JobOK(i)'
  BY <1>1, <1>3, JobStays
<1>7. Ownership' /\ CallsHeld'
  BY <1>5, <1>6, JobsCollect
<1>8. \A i \in Key : recon[i] # None => row[i] # None /\ row[i].job \in Job
  BY RowTyped DEF Core, ReconSeesVersions
<1>9. Core'
  BY <1>1, <1>3, <1>4, <1>7, <1>8, RowsStayInv
<1>10. \A i \in upstream : req[i].key # k
  <2>1. \A i \in upstream : i \in Job /\ Owns(i)
    BY JobHolds DEF JobOK, Core, TypeOK
  <2> QED
    BY <1>2, <2>1 DEF Owns
<1>11. Hold!Call(k, j)
  <2>1. CalledBar[k] = {} /\ HoldBar[k] = "armed"
    BY <1>2, <1>10 DEF CalledBar, HoldBar, HoldOf, Owns
  <2>2. CalledBar' = [CalledBar EXCEPT ![k] = {j}]
    <3>1. ASSUME NEW i \in Key \ {k} PROVE CalledBar'[i] = CalledBar[i]
      BY <1>1 DEF CalledBar
    <3>2. CalledBar'[k] = {j}
      BY <1>1, <1>2, <1>10 DEF CalledBar
    <3> QED
      BY <3>1, <3>2 DEF CalledBar
  <2>3. HoldBar' = HoldBar
    BY <1>1 DEF HoldBar, HoldOf
  <2> QED
    BY <2>1, <2>2, <2>3 DEF Hold!Call, HoldBar, CalledBar
<1>12. Hold!Next
  BY <1>2, <1>11 DEF Hold!Next
<1> QED
  BY <1>9, <1>12 DEF Keeps, Mapped

----------------------------------------------------------------------------
(* Steps that change one row. *)

\* RowsOwned, RowsConsistent and ReconSeesVersions of one key.
RowOK(k) ==
  /\ row[k] # None =>
       /\ req[row[k].job].key = k
       /\ row[k].status = "DISPATCHED" => row[k].dispatched
       /\ row[k].status \in {"RESERVED", "RELEASED"} => ~row[k].dispatched
       /\ row[k].status \in Inflight => row[k].accounted = Reserve(k)
       /\ row[k].status \notin Inflight => row[k].accounted # None
       /\ row[k].status = "SETTLED" =>
            Reserve(k) # None /\ row[k].overrun = (row[k].accounted > Reserve(k))
       /\ row[k].version >= IF row[k].status = "RESERVED" THEN 1 ELSE 2
  /\ recon[k] # None =>
       /\ row[k] # None /\ recon[k].version <= row[k].version
       /\ recon[k].orphan /\ row[k].status = "DISPATCHED"
            /\ recon[k].version = row[k].version =>
          worker[row[k].job].pc \notin {"call", "wait"}

LEMMA RowHolds == ASSUME Core, NEW k \in Key PROVE RowOK(k)
BY DEF Core, RowsOwned, RowsConsistent, ReconSeesVersions, Rows, RowOK

LEMMA RowsCollect ==
  (\A k \in Key : RowOK(k)') => RowsOwned' /\ RowsConsistent' /\ ReconSeesVersions'
BY DEF RowsOwned, RowsConsistent, ReconSeesVersions, Rows, RowOK

\* A row that is not touched, of a job whose thread does not come to its call.
LEMMA RowStays ==
  ASSUME Core, NEW k \in Key, row'[k] = row[k], recon'[k] = recon[k],
         row[k] # None =>
           /\ req'[row[k].job].key = req[row[k].job].key
           /\ worker'[row[k].job].pc \in {"call", "wait"} =>
                worker[row[k].job].pc \in {"call", "wait"}
  PROVE  RowOK(k)'
BY RowHolds DEF RowOK, Reserve

\* Collects what is shown of the row and the job a step is about.
LEMMA RowStep ==
  ASSUME Core, TypeOK', NEW k \in Key, NEW j \in Job, req'[j].key = k, RowOK(k)', JobOK(j)',
         \A i \in Key \ {k} : row'[i] = row[i] /\ recon'[i] = recon[i],
         \A i \in Job \ {j} : /\ req'[i] = req[i] /\ worker'[i] = worker[i]
                              /\ manager'[i] = manager[i],
         req[j].key = k, claim' = claim, upstream' = upstream,
         \A i \in Job \ {j} : req[i].key = k /\ Owns(i) => row'[k] = row[k],
         \A i \in Job \ {j} : req[i].key = k => ~(Owns(i)' /\ ~Owns(i))
  PROVE  Core'
<1>1. ASSUME NEW i \in Key \ {k} PROVE RowOK(i)'
  <2>1. row[i] # None => row[i].job \in Job /\ row[i].job # j
    BY RowTyped, RowHolds DEF RowOK, Core
  <2> QED
    BY <2>1, RowStays
<1>2. ASSUME NEW i \in Job \ {j} PROVE JobOK(i)'
  <2>1. CASE req[i].key # k \/ row'[k] = row[k]
    BY <2>1, JobStays, RequestTyped DEF Core
  <2>2. CASE req[i].key = k /\ row'[k] # row[k]
    <3>1. ~Owns(i) /\ ~Owns(i)' /\ JobOK(i)
      BY <2>2, JobHolds
    <3>2. worker[i].bill = None
      BY <3>1 DEF JobOK
    <3> QED
      BY <3>1, <3>2 DEF JobOK
  <2> QED
    BY <2>1, <2>2
<1> QED
  BY <1>1, <1>2, RowsCollect, JobsCollect DEF Core

LEMMA NewRowTyped ==
  ASSUME TypeOK, NEW j \in Job
  PROVE  /\ NewRow(j) \in Row /\ NewRow(j).job = j /\ NewRow(j).status = "RESERVED"
         /\ NewRow(j).dispatched = FALSE /\ NewRow(j).version = 1
         /\ NewRow(j).accounted = NewRow(j).price.amount
         /\ NewRow(j).accounted = req[j].seen.price.amount /\ NewRow(j) # None
<1>1. /\ "RESERVED" \in Status /\ req[j].seen.price \in Tariff
      /\ req[j].seen.price.amount \in Nat \cup {None}
  BY RequestTyped DEF Status, Inflight, Pending
<1>2. NewRow(j) \in Row
  BY <1>1 DEF NewRow, Row
<1> QED
  BY <1>2, LedgerOK DEF NewRow

\* A reservation takes a hold that nobody has.
LEMMA ReserveKeeps ==
  ASSUME Core, NEW j \in Job, NEW k, k = req[j].key, ReserveNew(j)
  PROVE  Keeps
<1>1. /\ req[j].pc = "reserve" /\ row[k] = None
      /\ row' = [row EXCEPT ![k] = NewRow(j)]
      /\ Proceed(j, IF k \in Bound THEN "link" ELSE "start")
      /\ UNCHANGED <<budget, tariff, claim, worker, manager, upstream, recon, faults>>
  BY DEF ReserveNew
<1>2. /\ JobOK(j) /\ k \in Key /\ ~Owns(j) /\ manager[j] = "absent" /\ j \notin upstream
      /\ worker[j].pc = "none" /\ worker[j].bill = None
  BY <1>1, JobHolds, RequestTyped DEF JobOK, Owns, Core
<1>3. /\ req' \in [Job -> Request] /\ req'[j].pc \in {"link", "start"} /\ req'[j].key = k
      /\ \A i \in Job \ {j} : req'[i] = req[i]
  BY <1>1, ProceedTyped DEF Core
<1>4. /\ NewRow(j) \in Row /\ NewRow(j).job = j /\ NewRow(j).status = "RESERVED"
      /\ NewRow(j).dispatched = FALSE /\ NewRow(j).version = 1
      /\ NewRow(j).accounted = NewRow(j).price.amount
  BY NewRowTyped DEF Core
<1>5. row'[k] = NewRow(j) /\ row'[k] # None /\ row' \in [Key -> Row \cup {None}]
      /\ \A i \in Key \ {k} : row'[i] = row[i]
  BY <1>1, <1>2, <1>4, LedgerOK DEF Core, TypeOK
<1>6. TypeOK'
  BY <1>1, <1>3, <1>5 DEF Core, TypeOK
<1>7. recon[k] = None
  BY <1>1, <1>2, RowHolds DEF RowOK
<1>8. RowOK(k)'
  BY <1>1, <1>3, <1>4, <1>5, <1>7 DEF RowOK, Reserve, Inflight, Pending
<1>9. JobOK(j)'
  <2>1. Owns(j)'
    BY <1>2, <1>3, <1>4, <1>5, LedgerOK DEF Owns
  <2> QED
    BY <1>1, <1>2, <1>3, <1>4, <1>5, <2>1 DEF JobOK
<1>10. \A i \in Job \ {j} : req[i].key = k => ~Owns(i) /\ ~Owns(i)'
  BY <1>1, <1>3, <1>4, <1>5 DEF Owns
<1>11. Core'
  BY <1>1, <1>2, <1>3, <1>5, <1>6, <1>8, <1>9, <1>10, RowStep
<1>12. HoldOf(k) = "none" /\ HoldOf(k)' = "held"
  BY <1>1, <1>4, <1>5 DEF HoldOf
<1>13. \A i \in Key \ {k} : HoldOf(i)' = HoldOf(i)
  BY <1>5 DEF HoldOf
<1>14. \A i \in upstream : req'[i].key = req[i].key
  BY <1>2, <1>3 DEF Core, TypeOK
<1>15. Mapped
  BY <1>1, <1>2, <1>12, <1>13, <1>14, MoveMaps
<1> QED
  BY <1>11, <1>15 DEF Keeps

\* A row that is armed.
LEMMA ArmedTyped ==
  ASSUME NEW r \in Row
  PROVE  LET a == [r EXCEPT !.status = "DISPATCHED", !.dispatched = TRUE,
                            !.version = r.version + 1]
         IN  /\ a \in Row /\ a.job = r.job /\ a.status = "DISPATCHED"
             /\ a.dispatched = TRUE /\ a.version = r.version + 1
             /\ a.accounted = r.accounted /\ a.price = r.price
<1>1. "DISPATCHED" \in Status /\ r.version + 1 \in Nat
  BY DEF Row, Status, Inflight, Pending
<1>2. ASSUME NEW s \in Status, NEW b \in BOOLEAN, NEW v \in Nat
      PROVE  [r EXCEPT !.status = s, !.dispatched = b, !.version = v] \in Row
  BY DEF Row
<1>3. [r EXCEPT !.status = "DISPATCHED", !.dispatched = TRUE, !.version = r.version + 1] \in Row
  BY <1>1, <1>2
<1> QED
  BY <1>3 DEF Row

\* The thread arms its hold; it never did before.
LEMMA DispatchKeeps ==
  ASSUME Core, NEW j \in Job, NEW k, k = req[j].key, GuardDispatch(j)
  PROVE  Keeps
<1>1. /\ worker[j].pc = "authorize" /\ row[k].status \in Pending /\ Walk(j, "call")
      /\ row' = IF row[k].status = "DISPATCHED" THEN row
                ELSE [row EXCEPT ![k].status = "DISPATCHED", ![k].dispatched = TRUE,
                                 ![k].version = row[k].version + 1]
      /\ UNCHANGED <<budget, tariff, claim, req, manager, upstream, recon, faults>>
  BY DEF GuardDispatch, Dispatchable
<1>2. /\ JobOK(j) /\ Owns(j) /\ k \in Key /\ row[k] # None /\ row[k].job = j
      /\ manager[j] = "live" /\ ~row[k].dispatched /\ worker[j].bill = None
  BY <1>1, JobHolds, RequestTyped DEF JobOK, Owns, Core
<1>3. row[k] \in Row /\ row[k].version \in Nat /\ row[k].status = "RESERVED"
  BY <1>1, <1>2, RowTyped, RowHolds DEF RowOK, Core, Pending
<1>4. row' = [row EXCEPT ![k] = [row[k] EXCEPT !.status = "DISPATCHED", !.dispatched = TRUE,
                                               !.version = row[k].version + 1]]
  BY <1>1, <1>2, <1>3 DEF Core, TypeOK
<1> DEFINE r == [row[k] EXCEPT !.status = "DISPATCHED", !.dispatched = TRUE,
                               !.version = row[k].version + 1]
<1>5. /\ r \in Row /\ r.job = j /\ r.status = "DISPATCHED" /\ r.dispatched = TRUE
      /\ r.version = row[k].version + 1 /\ r.accounted = row[k].accounted
      /\ r.price = row[k].price
  BY <1>2, <1>3, ArmedTyped
<1> HIDE DEF r
<1>6. row'[k] = r /\ row'[k] # None /\ row' \in [Key -> Row \cup {None}]
      /\ \A i \in Key \ {k} : row'[i] = row[i]
  BY <1>2, <1>4, <1>5, LedgerOK DEF Core, TypeOK, r
<1>7. /\ worker' \in [Job -> [pc : {"none", "authorize", "call", "wait", "hook"},
                              bill : Nat \cup {None}]]
      /\ worker'[j].pc = "call" /\ worker'[j].bill = None
      /\ \A i \in Job \ {j} : worker'[i] = worker[i]
  BY <1>1, <1>2, WalkTyped DEF Core
<1>8. TypeOK'
  BY <1>1, <1>6, <1>7 DEF Core, TypeOK
<1>9. RowOK(k)'
  <2>1. recon[k] # None => recon[k].version <= row[k].version /\ recon[k].version \in Nat
    BY <1>2, RowHolds DEF RowOK, Core, TypeOK, Recon
  <2>2. row[k].accounted = row[k].price.amount /\ row[k].version >= 1
    BY <1>2, <1>3, RowHolds DEF RowOK, Reserve, Inflight, Pending
  <2>3. /\ row'[k] # None /\ row'[k].job = j /\ row'[k].status = "DISPATCHED"
        /\ row'[k].dispatched /\ row'[k].accounted = row'[k].price.amount
        /\ row'[k].version = row[k].version + 1
    BY <1>5, <1>6, <2>2
  <2>4. /\ row'[k].version >= 2
        /\ recon[k] # None => recon[k].version <= row'[k].version
                              /\ recon[k].version # row'[k].version
    BY <1>3, <2>1, <2>2, <2>3
  <2>5. req' = req /\ recon' = recon /\ req'[j].key = k
    BY <1>1
  <2>6. row'[k].accounted = Reserve(k)'
    BY <2>3 DEF Reserve
  <2> QED
    BY <2>3, <2>4, <2>5, <2>6 DEF RowOK, Inflight, Pending
<1>10. JobOK(j)'
  <2>1. Owns(j)' /\ j \notin upstream
    BY <1>1, <1>2, <1>5, <1>6 DEF Owns, JobOK
  <2> QED
    BY <1>1, <1>2, <1>5, <1>6, <1>7, <2>1 DEF JobOK
<1>11. \A i \in Job \ {j} : req[i].key = k => ~Owns(i) /\ ~Owns(i)'
  <2>1. req' = req /\ row[k].job = j /\ row'[k].job = j
    BY <1>1, <1>2, <1>5, <1>6
  <2> QED
    BY <2>1 DEF Owns
<1>12. Core'
  BY <1>1, <1>2, <1>6, <1>7, <1>8, <1>9, <1>10, <1>11, RowStep
<1>13. HoldOf(k) = "held" /\ HoldOf(k)' = "armed"
  BY <1>2, <1>3, <1>5, <1>6 DEF HoldOf
<1>14. \A i \in Key \ {k} : HoldOf(i)' = HoldOf(i)
  BY <1>6 DEF HoldOf
<1>15. Mapped
  BY <1>1, <1>2, <1>13, <1>14, MoveMaps
<1> QED
  BY <1>12, <1>15 DEF Keeps

\* What happens to a hold that is settled.
LEMMA SettleMoves ==
  ASSUME Core, NEW j \in Job, NEW k, k = req[j].key, Owns(j), NEW bill \in Nat \cup {None},
         bill # None => Reserve(k) # None, Settle(j, bill), UNCHANGED <<upstream, recon>>
  PROVE  /\ row'[k] # None /\ row'[k].job = j /\ row'[k].dispatched = row[k].dispatched
         /\ row'[k].price = row[k].price /\ row'[k].status # "DISPATCHED"
         /\ req'[j].key = k => RowOK(k)'
         /\ (\A i \in upstream : req'[i].key = req[i].key) => Mapped
<1>1. /\ k \in Key /\ row[k] \in Row /\ row[k] # None /\ row[k].job = j
      /\ row' = [row EXCEPT ![k] = Finalized(row[k], bill)]
      /\ row'[k] = Finalized(row[k], bill) /\ row'[k] # None
      /\ bill # None => row[k].price.amount \in Nat
  BY SettleTyped DEF Owns
<1> DEFINE r == row[k]
           f == row'[k]
           cost == Actual(r, bill)
<1>2. /\ f.job = j /\ f.price = r.price /\ f.dispatched = r.dispatched
      /\ r.version \in Nat /\ f.version \in {r.version, r.version + 1}
      /\ r.status \notin Pending => f = r
      /\ r.status \in Pending =>
           /\ f.status \notin Pending /\ f.version = r.version + 1
           /\ f.status = IF ~r.dispatched THEN "RELEASED"
                         ELSE IF cost = None THEN "UNKNOWN_UPSTREAM" ELSE "SETTLED"
           /\ f.accounted = IF ~r.dispatched THEN 0
                            ELSE IF cost = None THEN r.price.amount ELSE cost
           /\ r.dispatched /\ cost # None =>
                cost \in Nat /\ r.price.amount \in Nat /\ f.overrun = (cost > r.price.amount)
  <2>1. r.version \in Nat
    BY <1>1, RowTyped DEF Core
  <2> DEFINE g == Finalized(r, bill)
  <2>2. /\ g.job = r.job /\ g.price = r.price /\ g.dispatched = r.dispatched
        /\ g.version \in {r.version, r.version + 1}
        /\ r.status \notin Pending => g = r
        /\ r.status \in Pending =>
             /\ g.status \notin Pending /\ g.version = r.version + 1
             /\ g.status = IF ~r.dispatched THEN "RELEASED"
                           ELSE IF cost = None THEN "UNKNOWN_UPSTREAM" ELSE "SETTLED"
             /\ g.accounted = IF ~r.dispatched THEN 0
                              ELSE IF cost = None THEN r.price.amount ELSE cost
             /\ r.dispatched /\ cost # None =>
                  cost \in Nat /\ r.price.amount \in Nat /\ g.overrun = (cost > r.price.amount)
    BY <1>1, FinalizedTyped
  <2>3. f = g
    BY <1>1
  <2> HIDE DEF g, f, cost
  <2> QED
    BY <1>1, <2>1, <2>2, <2>3
<1> HIDE DEF cost
<1>3. RowOK(k)
  BY <1>1, RowHolds
<1>4. f.status # "DISPATCHED"
  BY <1>2 DEF Pending
<1>5. ASSUME req'[j].key = k PROVE RowOK(k)'
  <2>1. recon[k] # None => recon[k].version \in Nat /\ recon[k].version <= r.version
    BY <1>1, <1>3 DEF RowOK, Core, TypeOK, Recon
  <2>2. CASE r.status \notin Pending
    BY <1>1, <1>2, <1>3, <1>4, <1>5, <2>1, <2>2 DEF RowOK, Reserve
  <2>3. CASE r.status \in Pending
    <3>1. r.version >= 1 /\ f.version >= 2
      BY <1>2, <1>3, <1>1, <2>3 DEF RowOK
    <3>2. f.accounted = r.price.amount \/ f.status \notin Inflight
      BY <1>2, <2>3 DEF Inflight, Pending
    <3>3. f.status \in Inflight => f.accounted = r.price.amount
      BY <3>2
    <3>4. f.status \notin Inflight => f.accounted # None
      BY <1>2, <2>3, LedgerOK DEF Inflight, Pending
    <3>5. f.status = "SETTLED" =>
            r.price.amount # None /\ f.overrun = (f.accounted > r.price.amount)
      BY <1>1, <1>2, <2>3, LedgerOK
    <3>6. f.status \in {"RESERVED", "RELEASED"} => ~f.dispatched
      BY <1>2, <2>3 DEF Pending
    <3> QED
      BY <1>1, <1>2, <1>4, <1>5, <2>1, <3>1, <3>3, <3>4, <3>5, <3>6 DEF RowOK, Reserve
  <2> QED
    BY <2>2, <2>3
<1>6. ASSUME \A i \in upstream : req'[i].key = req[i].key PROVE Mapped
  <2>1. \A i \in Key \ {k} : HoldOf(i)' = HoldOf(i)
    BY <1>1 DEF HoldOf, Core, TypeOK
  <2>2. CASE r.status \notin Pending
    <3>1. HoldOf(k)' = HoldOf(k)
      BY <1>1, <1>2, <2>2 DEF HoldOf
    <3> QED
      BY <1>1, <1>6, <2>1, <3>1, MoveMaps
  <2>3. CASE r.status \in Pending /\ ~r.dispatched
    <3>1. HoldOf(k) = "held" /\ HoldOf(k)' = "free"
      BY <1>1, <1>2, <1>3, <2>3 DEF HoldOf, RowOK, Pending
    <3>2. \A i \in upstream : req[i].key # k
      BY <2>3, JobHolds DEF JobOK, Core, TypeOK
    <3> QED
      BY <1>1, <1>6, <2>1, <3>1, <3>2, MoveMaps
  <2>4. CASE r.status \in Pending /\ r.dispatched
    <3>1. HoldOf(k) = "armed" /\ HoldOf(k)' \in {"unknown", "billed"}
      BY <1>1, <1>2, <1>3, <2>4 DEF HoldOf, RowOK, Pending
    <3> QED
      BY <1>1, <1>6, <2>1, <3>1, MoveMaps
  <2> QED
    BY <2>2, <2>3, <2>4
<1> QED
  BY <1>1, <1>2, <1>4, <1>5, <1>6

\* However a job ends, settled or not.
LEMMA EndKeeps ==
  ASSUME Core, NEW j \in Job, NEW k, k = req[j].key, Owns(j),
         NEW bill \in Nat \cup {None}, bill # None => Reserve(k) # None,
         Settle(j, bill) \/ row' = row,
         UNCHANGED <<budget, tariff, claim, upstream, recon>>, faults' \in Nat,
         req' \in [Job -> Request], req'[j].pc = "done", req'[j].key = k,
         \A i \in Job \ {j} : req'[i] = req[i],
         worker' \in [Job -> [pc : {"none", "authorize", "call", "wait", "hook"},
                              bill : Nat \cup {None}]],
         worker'[j] = [pc |-> "none", bill |-> None],
         \A i \in Job \ {j} : worker'[i] = worker[i],
         manager' \in [Job -> {"absent", "live", "settled", "lost"}],
         manager'[j] = "absent" => manager[j] = "absent",
         \A i \in Job \ {j} : manager'[i] = manager[i]
  PROVE  Keeps
<1>1. /\ k \in Key /\ row[k] \in Row /\ row[k] # None /\ row[k].job = j
      /\ row' \in [Key -> Row \cup {None}]
      /\ \A i \in Key \ {k} : row'[i] = row[i]
  <2>1. k \in Key /\ row[k] \in Row /\ row[k] # None /\ row[k].job = j
    BY RequestTyped, RowTyped DEF Owns, Core
  <2>2. CASE Settle(j, bill)
    BY <2>1, <2>2, SettleTyped DEF Core, TypeOK
  <2>3. CASE row' = row
    BY <2>1, <2>3 DEF Core, TypeOK
  <2> QED
    BY <2>1, <2>2, <2>3
<1>2. TypeOK'
  BY <1>1 DEF Core, TypeOK
<1>3. \A i \in upstream : req'[i].key = req[i].key
  BY DEF Core, TypeOK
<1>4. /\ row'[k] # None /\ row'[k].job = j /\ row'[k].dispatched = row[k].dispatched
      /\ RowOK(k)' /\ Mapped
  <2>1. CASE Settle(j, bill)
    BY <1>3, <2>1, SettleMoves
  <2>2. CASE row' = row
    <3>1. RowOK(k)'
      BY <1>1, <2>2, RowStays
    <3>2. \A i \in Key : HoldOf(i)' = HoldOf(i)
      BY <2>2 DEF HoldOf
    <3> QED
      BY <1>1, <1>3, <2>2, <3>1, <3>2, StutterMaps
  <2> QED
    BY <2>1, <2>2
<1>5. JobOK(j)'
  <2>1. Owns(j)'
    BY <1>1, <1>4, LedgerOK DEF Owns
  <2> QED
    BY <1>4, <2>1, JobHolds DEF JobOK
<1>6. \A i \in Job \ {j} : req[i].key = k => ~Owns(i) /\ ~Owns(i)'
  BY <1>1, <1>4 DEF Owns
<1>7. Core'
  BY <1>1, <1>2, <1>4, <1>5, <1>6, RowStep
<1> QED
  BY <1>4, <1>7 DEF Keeps

\* A job that is not started gives its hold back, or keeps it.
LEMMA StartRefusedKeeps ==
  ASSUME Core, NEW j \in Job, StartRefused(j) \/ StartRefusedFault(j)
  PROVE  Keeps
<1>1. /\ req[j].pc = "start" /\ Proceed(j, "done")
      /\ UNCHANGED <<budget, tariff, claim, worker, upstream, recon>> /\ faults' \in Nat
      /\ Settle(j, None) \/ row' = row
      /\ \/ manager' = manager
         \/ manager' = [manager EXCEPT ![j] = "settled"]
         \/ manager' = [manager EXCEPT ![j] = "lost"]
  BY DEF StartRefused, StartRefusedFault, Fault, Core, TypeOK
<1>2. JobOK(j) /\ Owns(j) /\ worker[j].pc = "none" /\ worker[j].bill = None
      /\ worker[j] = [pc |-> "none", bill |-> None]
  <2>1. JobOK(j) /\ Owns(j) /\ worker[j].pc = "none" /\ worker[j].bill = None
    BY <1>1, JobHolds DEF JobOK
  <2>2. worker[j] \in [pc : {"none", "authorize", "call", "wait", "hook"},
                       bill : Nat \cup {None}]
    BY DEF Core, TypeOK
  <2> QED
    BY <2>1, <2>2
<1>3. /\ req' \in [Job -> Request] /\ req'[j].pc = "done" /\ req'[j].key = req[j].key
      /\ \A i \in Job \ {j} : req'[i] = req[i]
  BY <1>1, ProceedTyped DEF Core
<1>4. /\ manager' \in [Job -> {"absent", "live", "settled", "lost"}]
      /\ manager'[j] = "absent" => manager[j] = "absent"
      /\ \A i \in Job \ {j} : manager'[i] = manager[i]
  BY <1>1 DEF Core, TypeOK
<1>5. worker' \in [Job -> [pc : {"none", "authorize", "call", "wait", "hook"},
                           bill : Nat \cup {None}]]
  BY <1>1 DEF Core, TypeOK
<1> QED
  BY <1>1, <1>2, <1>3, <1>4, <1>5, EndKeeps

\* The hook settles a job with what its thread knows, or fails.
LEMMA HookKeeps ==
  ASSUME Core, NEW j \in Job, Hook(j) \/ HookFault(j)
  PROVE  Keeps
<1>1. /\ worker[j].pc = "hook" /\ UNCHANGED <<budget, tariff, claim, req, upstream, recon>>
      /\ faults' \in Nat
      /\ Settle(j, worker[j].bill) \/ row' = row
      /\ worker' = [worker EXCEPT ![j] = [pc |-> "none", bill |-> None]]
      /\ \/ manager' = [manager EXCEPT ![j] = "settled"]
         \/ manager' = [manager EXCEPT ![j] = "lost"]
  BY DEF Hook, HookFault, Fault, Core, TypeOK
<1>2. /\ JobOK(j) /\ Owns(j) /\ manager[j] = "live" /\ req[j].pc = "done"
      /\ worker[j].bill \in Nat \cup {None}
      /\ worker[j].bill # None => Reserve(req[j].key) # None
  <2>1. JobOK(j) /\ manager[j] = "live"
    BY <1>1, JobHolds DEF JobOK
  <2>2. Owns(j) /\ (worker[j].bill # None => Reserve(req[j].key) # None)
    BY <2>1 DEF JobOK
  <2>3. req[j].pc = "done"
    BY <2>1 DEF JobOK, Core, TypeOK, Request
  <2> QED
    BY <2>1, <2>2, <2>3, RequestTyped DEF Core
<1>3. /\ manager' \in [Job -> {"absent", "live", "settled", "lost"}]
      /\ manager'[j] # "absent" /\ \A i \in Job \ {j} : manager'[i] = manager[i]
      /\ worker' \in [Job -> [pc : {"none", "authorize", "call", "wait", "hook"},
                              bill : Nat \cup {None}]]
      /\ worker'[j] = [pc |-> "none", bill |-> None]
      /\ \A i \in Job \ {j} : worker'[i] = worker[i]
      /\ req' \in [Job -> Request]
  BY <1>1 DEF Core, TypeOK
<1>4. PICK bill \in Nat \cup {None} : bill = worker[j].bill
  BY <1>2
<1>5. Settle(j, bill) \/ row' = row
  BY <1>1, <1>4 DEF Settle
<1>6. PICK k : k = req[j].key
  OBVIOUS
<1>7. Owns(j) /\ (bill # None => Reserve(k) # None)
  BY <1>2, <1>4, <1>6
<1>8. /\ UNCHANGED <<budget, tariff, claim, upstream, recon>> /\ faults' \in Nat
      /\ req'[j].pc = "done" /\ req'[j].key = k /\ \A i \in Job \ {j} : req'[i] = req[i]
  <2>1. UNCHANGED <<budget, tariff, claim, upstream, recon>> /\ req' = req
    BY DEF Hook, HookFault
  <2>2. req[j].pc = "done" /\ faults' \in Nat
    BY <1>1, <1>2
  <2> QED
    BY <1>6, <2>1, <2>2
<1> QED
  BY <1>3, <1>5, <1>6, <1>7, <1>8, EndKeeps

----------------------------------------------------------------------------
(* The budget. *)

LEMMA SumsTyped ==
  ASSUME TypeOK
  PROVE  /\ Spent \in [Key -> Nat] /\ Excess \in [Key -> Nat]
         /\ Total(Spent) \in Nat /\ Total(Excess) \in Nat
<1>1. \A k \in Key : k \in Rows => row[k].accounted \in Nat \cup {None}
                               /\ OrZero(row[k].accounted) \in Nat /\ OrZero(Reserve(k)) \in Nat
  BY RowTyped DEF Rows, Row, OrZero, Reserve
<1>2. Spent \in [Key -> Nat]
  BY <1>1 DEF Spent
<1>3. Excess \in [Key -> Nat]
  BY <1>1 DEF Excess
<1> QED
  BY <1>2, <1>3, TotalTyped, LedgerOK

SumsNat == Spent \in [Key -> Nat] /\ Excess \in [Key -> Nat]

LEMMA SumsAreNat == TypeOK => SumsNat
BY SumsTyped DEF SumsNat

\* What a row counts against the limit: its bill, up to its reservation.
Net(k) == Spent[k] - Excess[k]

NetIsBill(k) ==
  /\ Net(k) = IF OrZero(row[k].accounted) > OrZero(Reserve(k))
              THEN OrZero(Reserve(k)) ELSE OrZero(row[k].accounted)
  /\ OrZero(row[k].accounted) \in Nat /\ OrZero(Reserve(k)) \in Nat

NetsAreBills == \A k \in Key : row[k] # None => NetIsBill(k)

LEMMA NetBounded == TypeOK => NetsAreBills
<1> SUFFICES ASSUME TypeOK, NEW k \in Key, row[k] # None PROVE NetIsBill(k)
  BY DEF NetsAreBills
<1>1. /\ row[k].accounted \in Nat \cup {None}
      /\ OrZero(row[k].accounted) \in Nat /\ OrZero(Reserve(k)) \in Nat
  BY RowTyped DEF Row, OrZero, Reserve
<1>2. Spent[k] = OrZero(row[k].accounted)
  BY DEF Spent, Rows
<1>3. Excess[k] = IF row[k].accounted # None /\ row[k].accounted > OrZero(Reserve(k))
                  THEN row[k].accounted - OrZero(Reserve(k)) ELSE 0
  BY DEF Excess, Rows
<1> QED
  BY <1>1, <1>2, <1>3 DEF Net, NetIsBill, OrZero

\* A hold in flight, and a bill above its reservation, count the reservation.
LEMMA NetOfHold ==
  ASSUME Core, NEW k \in Key, row[k] # None,
         \/ row[k].status \in Inflight
         \/ row[k].status = "SETTLED" /\ row[k].overrun
  PROVE  Net(k) = OrZero(Reserve(k))
<1>1. RowOK(k) /\ TypeOK
  BY RowHolds DEF Core
<1>2. CASE row[k].status \in Inflight
  BY <1>1, <1>2, NetBounded DEF RowOK, NetIsBill, NetsAreBills
<1>3. CASE row[k].status = "SETTLED" /\ row[k].overrun
  <2>1. Reserve(k) # None /\ row[k].accounted # None /\ row[k].accounted > Reserve(k)
    BY <1>1, <1>3 DEF RowOK, Inflight, Pending
  <2> QED
    BY <1>1, <2>1, NetBounded DEF NetIsBill, NetsAreBills, OrZero
<1> QED
  BY <1>2, <1>3

\* A row that counts no more than before leaves the budget kept.
LEMMA RowKeepsBudget ==
  ASSUME TypeOK, TypeOK', WithinBudget, budget' = budget, NEW k \in Key,
         \A i \in Key \ {k} : row'[i] = row[i], Net(k)' <= Net(k)
  PROVE  WithinBudget'
<1>1. /\ Spent \in [Key -> Nat] /\ Excess \in [Key -> Nat]
      /\ Total(Spent) \in Nat /\ Total(Excess) \in Nat
  BY SumsTyped
<1>2. /\ Spent' \in [Key -> Nat] /\ Excess' \in [Key -> Nat]
      /\ Total(Spent') \in Nat /\ Total(Excess') \in Nat
  <2>1. TypeOK' => SumsNat'
    BY SumsAreNat, PTL
  <2> QED
    BY <2>1, TotalTyped, LedgerOK DEF SumsNat
<1>3. \A i \in Key \ {k} : Spent'[i] = Spent[i] /\ Excess'[i] = Excess[i]
  BY DEF Spent, Excess, Rows, Reserve
<1>4. Total(Spent') + Spent[k] = Total(Spent) + Spent'[k]
  BY <1>1, <1>2, <1>3, TotalChanges, LedgerOK
<1>5. Total(Excess') + Excess[k] = Total(Excess) + Excess'[k]
  BY <1>1, <1>2, <1>3, TotalChanges, LedgerOK
<1>6. Spent'[k] - Excess'[k] <= Spent[k] - Excess[k]
  BY DEF Net
<1>7. Total(Spent') + Total(Excess) <= Total(Spent) + Total(Excess')
  <2>1. Spent[k] \in Nat /\ Spent'[k] \in Nat /\ Excess[k] \in Nat /\ Excess'[k] \in Nat
    BY <1>1, <1>2
  <2> QED
    BY <1>1, <1>2, <1>4, <1>5, <1>6, <2>1
<1>8. budget.limit # None => budget.limit \in Nat
  BY DEF TypeOK
<1>9. Total(Spent)' = Total(Spent') /\ Total(Excess)' = Total(Excess')
  BY DEF Total
<1> QED
  BY <1>1, <1>2, <1>7, <1>8, <1>9 DEF WithinBudget

\* So does a row that is left alone, and one that keeps its price although its
\* bill comes in.
LEMMA BillKeepsBudget ==
  ASSUME Core, Core', WithinBudget, budget' = budget, NEW k \in Key,
         row[k] # None, row'[k] # None, \A i \in Key \ {k} : row'[i] = row[i],
         row'[k].price = row[k].price,
         \/ row'[k].accounted = row[k].accounted
         \/ row[k].status \in Inflight
         \/ row[k].status = "SETTLED" /\ row[k].overrun
  PROVE  WithinBudget'
<1>1. TypeOK /\ TypeOK' /\ Reserve(k)' = Reserve(k)
  BY DEF Core, Reserve
<1>2. /\ Net(k)' = IF OrZero(row'[k].accounted) > OrZero(Reserve(k))
                   THEN OrZero(Reserve(k)) ELSE OrZero(row'[k].accounted)
      /\ OrZero(row'[k].accounted) \in Nat /\ OrZero(Reserve(k)) \in Nat
  <2>1. TypeOK' => NetsAreBills'
    BY NetBounded, PTL
  <2> QED
    BY <1>1, <2>1 DEF NetIsBill, NetsAreBills, OrZero
<1>3. Net(k)' <= Net(k)
  <2>1. CASE row'[k].accounted = row[k].accounted
    BY <1>1, <1>2, <2>1, NetBounded DEF NetIsBill, NetsAreBills
  <2>2. CASE row[k].status \in Inflight \/ (row[k].status = "SETTLED" /\ row[k].overrun)
    BY <1>2, <2>2, NetOfHold
  <2> QED
    BY <2>1, <2>2
<1> QED
  BY <1>1, <1>3, RowKeepsBudget

LEMMA RowsKeepBudget ==
  ASSUME WithinBudget, row' = row, budget' = budget
  PROVE  WithinBudget'
<1>1. Spent' = Spent /\ Excess' = Excess
  BY DEF Spent, Excess, Rows, Reserve
<1> QED
  BY <1>1 DEF WithinBudget, Total

----------------------------------------------------------------------------
(* Reconciliation, crashes. *)

\* A user reads a row: nobody who will call is taken for lost.
LEMMA ReconcileReadKeeps ==
  ASSUME Core, NEW k \in Key, ReconcileRead(k) \/ ReconcileRefused(k)
  PROVE  Keeps
<1>1. UNCHANGED <<budget, tariff, row, claim, req, worker, manager, upstream, faults>>
  BY DEF ReconcileRead, ReconcileRefused, ledger
<1>2. CASE ReconcileRefused(k)
  <2>1. TypeOK'
    BY <1>1, <1>2 DEF ReconcileRefused, Core, TypeOK
  <2>2. Ownership' /\ CallsHeld'
    BY <1>1, JobStays, JobsCollect
  <2>3. \A i \in Key : recon'[i] # None => recon'[i] = recon[i] /\ row[i] # None
    BY <1>2 DEF ReconcileRefused, Core, TypeOK, ReconSeesVersions
  <2> QED
    BY <1>1, <2>1, <2>2, <2>3, RowsStay
<1>3. CASE ReconcileRead(k)
  <2>1. row[k] # None /\ row[k].version \in Nat /\ row[k].job \in Job
        /\ Orphan(k) \in BOOLEAN
    BY <1>3, RowTyped DEF ReconcileRead, Core, Orphan, IsPending
  <2>2. /\ recon' \in [Key -> Recon \cup {None}]
        /\ recon'[k].version = row[k].version /\ recon'[k].orphan = Orphan(k)
        /\ \A i \in Key \ {k} : recon'[i] = recon[i]
    BY <1>3, <2>1 DEF ReconcileRead, Core, TypeOK, Recon
  <2>3. TypeOK'
    BY <1>1, <2>2 DEF Core, TypeOK
  <2>4. Ownership' /\ CallsHeld'
    BY <1>1, JobStays, JobsCollect
  <2>5. Orphan(k) => worker[row[k].job].pc = "none"
    BY <2>1, JobHolds DEF Orphan, JobOK
  <2>6. \A i \in Key \ {k} : recon[i] # None => row[i] # None
    BY DEF Core, ReconSeesVersions
  <2> QED
    BY <1>1, <2>1, <2>2, <2>3, <2>4, <2>5, <2>6, RowsStay
<1> QED
  BY <1>2, <1>3

Reconciled(r, actual, reserve) ==
  [r EXCEPT !.status = "RECONCILED", !.accounted = actual, !.overrun = actual > reserve,
            !.acknowledged = TRUE, !.version = r.version + 1]

LEMMA ReconciledTyped ==
  ASSUME NEW r \in Row, NEW actual \in Nat, NEW reserve \in Nat
  PROVE  LET f == Reconciled(r, actual, reserve) IN
         /\ f \in Row /\ f.job = r.job /\ f.status = "RECONCILED" /\ f.accounted = actual
         /\ f.version = r.version + 1 /\ f.dispatched = r.dispatched /\ f.price = r.price
<1> DEFINE f == Reconciled(r, actual, reserve)
<1>1. "RECONCILED" \in Status /\ r.version + 1 \in Nat /\ (actual > reserve) \in BOOLEAN
  BY DEF Status, Row
<1>2. ASSUME NEW x \in BOOLEAN, NEW y \in BOOLEAN, NEW v \in Nat, NEW s \in Status
      PROVE  [r EXCEPT !.status = s, !.accounted = actual, !.overrun = x,
                       !.acknowledged = y, !.version = v] \in Row
  BY DEF Row
<1>3. f \in Row
  BY <1>1, <1>2 DEF Reconciled
<1> QED
  BY <1>3 DEF Row, Reconciled

\* A row that nobody will settle is closed with the user's bill.
LEMMA ReconcileKeeps ==
  ASSUME Core, NEW k \in Key, NEW actual \in Bill, Reconcile(k, actual)
  PROVE  Keeps
<1> DEFINE r == row[k]
           f == Reconciled(r, actual, OrZero(Reserve(k)))
<1>1. /\ recon[k] # None /\ Reconcilable(k) /\ row' = [row EXCEPT ![k] = f]
      /\ recon' = [recon EXCEPT ![k] = None]
      /\ UNCHANGED <<budget, tariff, claim, req, worker, manager, upstream, faults>>
  BY DEF Reconcile, Reconciled
<1>2. RowOK(k) /\ r # None /\ r \in Row /\ r.job \in Job /\ r.version \in Nat
      /\ actual \in Nat /\ OrZero(Reserve(k)) \in Nat
  BY <1>1, RowHolds, RowTyped, LedgerOK DEF RowOK, Core, OrZero, Reserve
<1>3. /\ f \in Row /\ f.job = r.job /\ f.status = "RECONCILED" /\ f.accounted = actual
      /\ f.version = r.version + 1 /\ f.dispatched = r.dispatched /\ f.price = r.price
  BY <1>2, ReconciledTyped
<1> HIDE DEF f
<1>4. /\ row'[k] = f /\ f # None /\ row' \in [Key -> Row \cup {None}] /\ recon'[k] = None
      /\ recon' \in [Key -> Recon \cup {None}]
      /\ \A i \in Key \ {k} : row'[i] = row[i] /\ recon'[i] = recon[i]
  BY <1>1, <1>3, LedgerOK DEF Core, TypeOK
<1>5. TypeOK'
  BY <1>1, <1>4 DEF Core, TypeOK
<1>6. PICK j \in Job : j = r.job
  BY <1>2
<1>7. req[j].key = k /\ Owns(j)
  BY <1>2, <1>6, LedgerOK DEF RowOK, Owns
<1>8. r.version >= 1
  BY <1>2 DEF RowOK
<1>9. RowOK(k)'
  BY <1>1, <1>2, <1>3, <1>4, <1>6, <1>7, <1>8, LedgerOK DEF RowOK, Inflight, Pending
<1>10. JobOK(j)'
  <2>1. Owns(j)'
    BY <1>1, <1>3, <1>4, <1>6, <1>7, LedgerOK DEF Owns
  <2>2. worker[j].pc \notin {"call", "wait"}
    <3>1. CASE r.status \in Pending
      <4>1. recon[k].orphan /\ recon[k].version = r.version
        BY <1>1, <3>1 DEF Reconcilable, Pending
      <4>2. r.status = "DISPATCHED" => worker[j].pc \notin {"call", "wait"}
        BY <1>1, <1>2, <1>6, <4>1 DEF RowOK
      <4> QED
        BY <1>6, <1>7, <4>2, JobHolds DEF JobOK
    <3>2. CASE r.status \notin Pending
      BY <1>6, <1>7, <3>2, JobHolds DEF JobOK, Pending
    <3> QED
      BY <3>1, <3>2
  <2> QED
    BY <1>1, <1>3, <1>4, <1>7, <2>1, <2>2, JobHolds DEF JobOK, Reserve
<1>11. \A i \in Job \ {j} : req[i].key = k => ~Owns(i) /\ ~Owns(i)'
  BY <1>1, <1>3, <1>4, <1>6 DEF Owns
<1>12. Core'
  BY <1>1, <1>4, <1>5, <1>7, <1>9, <1>10, <1>11, RowStep
<1>13. HoldOf(k)' = "billed" /\ HoldOf(k) \in {"held", "armed", "unknown", "billed"}
  <2>1. HoldOf(k)' = "billed"
    BY <1>3, <1>4 DEF HoldOf
  <2>2. r.status \in {"RESERVED", "DISPATCHED", "UNKNOWN_UPSTREAM", "SETTLED"}
    BY <1>1 DEF Reconcilable, Pending
  <2> QED
    BY <1>2, <2>1, <2>2 DEF HoldOf
<1>14. \A i \in Key \ {k} : HoldOf(i)' = HoldOf(i)
  BY <1>4 DEF HoldOf
<1>15. Mapped
  BY <1>1, <1>13, <1>14, MoveMaps
<1> QED
  BY <1>12, <1>15 DEF Keeps

\* A restart has no thread and no request.
LEMMA CrashKeeps == ASSUME Core, Crash PROVE Keeps
<1>1. /\ UNCHANGED <<budget, tariff, row, claim, upstream>> /\ faults' \in Nat
      /\ req' = [j \in Job |-> IF req[j].pc = "idle" THEN req[j]
                               ELSE [req[j] EXCEPT !.pc = "done", !.seen = NoPreview]]
      /\ worker' = [j \in Job |-> [pc |-> "none", bill |-> None]]
      /\ manager' = [j \in Job |-> IF manager[j] = "absent" THEN "absent" ELSE "lost"]
      /\ recon' = [k \in Key |-> None]
  <2>1. faults' \in Nat
    <3>1. faults \in Nat
      BY DEF Core, TypeOK
    <3>2. faults' = faults + 1
      BY DEF Crash, Fault
    <3> QED
      BY <3>1, <3>2
  <2> QED
    BY <2>1 DEF Crash, ledger
<1>2. ASSUME NEW j \in Job
      PROVE  /\ req'[j] \in Request /\ req'[j].key = req[j].key
             /\ req[j].pc = "idle" => req'[j] = req[j]
             /\ req[j].pc # "idle" => req'[j].pc = "done"
             /\ manager'[j] = "absent" <=> manager[j] = "absent"
             /\ worker'[j].pc = "none" /\ worker'[j].bill = None
  <2>1. req[j] \in Request /\ NoPreview \in Seen
    BY PriceTyped DEF Core, TypeOK
  <2>2. [req[j] EXCEPT !.pc = "done", !.seen = NoPreview] \in Request
    BY <2>1 DEF Request
  <2>3. req'[j] = IF req[j].pc = "idle" THEN req[j]
                  ELSE [req[j] EXCEPT !.pc = "done", !.seen = NoPreview]
    BY <1>1
  <2>4. manager'[j] = IF manager[j] = "absent" THEN "absent" ELSE "lost"
    BY <1>1
  <2>5. worker'[j] = [pc |-> "none", bill |-> None]
    BY <1>1
  <2> QED
    BY <2>1, <2>2, <2>3, <2>4, <2>5 DEF Request
<1>3. TypeOK'
  <2>1. req' \in [Job -> Request]
    BY <1>1, <1>2
  <2> QED
    BY <1>1, <2>1 DEF Core, TypeOK
<1>4. ASSUME NEW j \in Job PROVE JobOK(j)'
  <2>1. row' = row /\ claim' = claim /\ upstream' = upstream
    BY <1>1
  <2>2. PICK k : k = req[j].key /\ k = req'[j].key
    BY <1>2
  <2>3. Owns(j)' <=> Owns(j)
    BY <2>1, <2>2 DEF Owns
  <2>4. JobOK(j) /\ (req[j].pc \in {"link", "start"} => req[j].pc # "idle")
    BY JobHolds
  <2>5. /\ req'[j].pc \notin {"link", "start", "reserve"}
        /\ req'[j].pc = "idle" => req[j].pc = "idle" /\ manager'[j] = "absent"
        /\ manager'[j] # "absent" => Owns(j)
    BY <1>2, <2>4 DEF JobOK
  <2>6. /\ k \in Bound => claim[k] = j
        /\ j \in upstream => Owns(j) /\ row[k].dispatched
        /\ req[j].pc # "done" => j \notin upstream
        /\ Owns(j) /\ manager[j] = "absent" => ~row[k].dispatched
        /\ req[j].pc = "idle" => k = None
    BY <2>2, <2>4 DEF JobOK
  <2> QED
    BY <1>2, <2>1, <2>2, <2>3, <2>5, <2>6 DEF JobOK
<1>5. Ownership' /\ CallsHeld'
  BY <1>4, JobsCollect
<1>6. (\A k \in Rows : row[k].job \in Job) /\ upstream \subseteq Job
  BY RowTyped DEF Core, Rows, TypeOK
<1> QED
  BY <1>1, <1>2, <1>3, <1>5, <1>6, RowsStay

----------------------------------------------------------------------------

\* Every step keeps the invariant and shows as a step of CallHold or none.
LEMMA CoreStep == ASSUME Core, [Next]_vars PROVE Keeps
<1>1. CASE UNCHANGED vars
  <2>1. UNCHANGED <<row, req, upstream>>
    BY <1>1 DEF vars, ledger
  <2>2. Core'
    BY <1>1 DEF vars, ledger, Core, TypeOK, Ownership, RowsOwned, CallsHeld, RowsConsistent,
      ReconSeesVersions, Owns, Rows, Reserve
  <2>3. \A k \in Key : HoldOf(k)' = HoldOf(k)
    BY <2>1 DEF HoldOf
  <2> QED
    BY <2>1, <2>2, <2>3, StutterMaps DEF Keeps
<1>2. ASSUME NEW j \in Job,
             \/ \E k \in Key : Generate(j, k) \/ ClaimRun(j, k)
             \/ Handle(j) \/ StartRefusedFault(j) \/ Work(j) \/ HookFault(j)
      PROVE  Keeps
  <2>1. PICK k : k = req[j].key
    OBVIOUS
  <2> QED
    BY <1>2, <2>1, PrepareKeeps, ReserveKeeps, ProceedKeeps, StartKeeps, StartRefusedKeeps,
       DispatchKeeps, LeaveKeeps, CallKeeps, HookKeeps DEF Handle, Work
<1>3. ASSUME NEW k \in Key,
             \/ ReconcileRead(k) \/ ReconcileRefused(k)
             \/ \E actual \in Bill : Reconcile(k, actual)
      PROVE  Keeps
  BY <1>3, ReconcileReadKeeps, ReconcileKeeps
<1> QED
  BY <1>1, <1>2, <1>3, ConfigureKeeps, CrashKeeps DEF Next

LEMMA InitCore == Init => Core
<1> SUFFICES ASSUME Init PROVE Core
  OBVIOUS
<1>1. TypeOK
  BY InitTyped
<1>2. Ownership /\ RowsOwned /\ CallsHeld
  BY LedgerOK DEF Init, Ownership, RowsOwned, CallsHeld, Owns, Rows
<1>3. RowsConsistent /\ ReconSeesVersions
  BY DEF Init, RowsConsistent, ReconSeesVersions, Rows
<1> QED
  BY <1>1, <1>2, <1>3 DEF Core

\* What a step may do to the ledger and the budget.
LedgerStep ==
  \/ UNCHANGED <<row, budget>>
  \/ \E limit \in Limit \cup {None}, max \in 1..MaxInflight : ConfigureBudget(limit, max)
  \/ \E j \in Job : ReserveNew(j)
  \/ \E k \in Key :
       /\ budget' = budget /\ row[k] # None /\ row'[k] # None
       /\ \A i \in Key \ {k} : row'[i] = row[i]
       /\ row'[k].price = row[k].price
       /\ \/ row'[k].accounted = row[k].accounted
          \/ row[k].status \in Inflight
          \/ row[k].status = "SETTLED" /\ row[k].overrun

\* A settlement.
LEMMA SettleIsLedgerStep ==
  ASSUME Core, NEW j \in Job, Owns(j), NEW bill \in Nat \cup {None},
         bill # None => Reserve(req[j].key) # None, Settle(j, bill), budget' = budget
  PROVE  LedgerStep
<1> DEFINE k == req[j].key
<1>1. /\ k \in Key /\ row[k] \in Row /\ row[k] # None /\ row'[k] # None
      /\ row' = [row EXCEPT ![k] = Finalized(row[k], bill)]
      /\ row'[k] = Finalized(row[k], bill)
      /\ bill # None => row[k].price.amount \in Nat
  BY SettleTyped, LedgerOK DEF Owns
<1>2. /\ row'[k].price = row[k].price
      /\ row[k].status \notin Pending => row'[k] = row[k]
  BY <1>1, FinalizedTyped
<1>3. \A i \in Key \ {k} : row'[i] = row[i]
  BY <1>1 DEF Core, TypeOK
<1> QED
  BY <1>1, <1>2, <1>3 DEF LedgerStep, Inflight

LEMMA LedgerSteps == ASSUME Core, [Next]_vars PROVE LedgerStep
<1>1. ASSUME NEW j \in Job, GuardDispatch(j) PROVE LedgerStep
  <2> DEFINE k == req[j].key
  <2>1. /\ budget' = budget /\ row[k].status \in Pending
        /\ row' = IF row[k].status = "DISPATCHED" THEN row
                  ELSE [row EXCEPT ![k].status = "DISPATCHED", ![k].dispatched = TRUE,
                                   ![k].version = row[k].version + 1]
    BY <1>1 DEF GuardDispatch, Dispatchable
  <2>2. Owns(j) /\ k \in Key /\ row[k] # None
    BY <1>1, JobHolds, RequestTyped DEF GuardDispatch, JobOK, Owns, Core
  <2>3. row[k] \in Row /\ row \in [Key -> Row \cup {None}]
    BY <2>2, RowTyped DEF Core, TypeOK
  <2> DEFINE a == [row[k] EXCEPT !.status = "DISPATCHED", !.dispatched = TRUE,
                                 !.version = row[k].version + 1]
  <2>4. CASE row[k].status = "DISPATCHED"
    BY <2>1, <2>4 DEF LedgerStep
  <2>5. CASE row[k].status # "DISPATCHED"
    <3>1. a \in Row /\ a.price = row[k].price /\ a.accounted = row[k].accounted
      BY <2>3, ArmedTyped
    <3> HIDE DEF a
    <3>2. row' = [row EXCEPT ![k] = a]
      BY <2>1, <2>2, <2>3, <2>5 DEF a
    <3>3. row'[k] = a /\ a # None /\ \A i \in Key \ {k} : row'[i] = row[i]
      BY <2>2, <2>3, <3>1, <3>2, LedgerOK
    <3> QED
      BY <2>1, <2>2, <3>1, <3>3 DEF LedgerStep
  <2> QED
    BY <2>4, <2>5
<1>2. ASSUME NEW j \in Job, StartRefused(j) \/ StartRefusedFault(j) PROVE LedgerStep
  <2>1. budget' = budget /\ req[j].pc = "start" /\ (row' = row \/ Settle(j, None))
    BY <1>2 DEF StartRefused, StartRefusedFault
  <2>2. Owns(j)
    BY <2>1, JobHolds DEF JobOK
  <2>3. CASE row' = row
    BY <2>1, <2>3 DEF LedgerStep
  <2>4. CASE Settle(j, None)
    BY <2>1, <2>2, <2>4, SettleIsLedgerStep
  <2> QED
    BY <2>1, <2>3, <2>4
<1>3. ASSUME NEW j \in Job, Hook(j) \/ HookFault(j) PROVE LedgerStep
  <2>1. /\ budget' = budget /\ worker[j].pc = "hook"
        /\ row' = row \/ Settle(j, worker[j].bill)
    BY <1>3 DEF Hook, HookFault
  <2>2. /\ Owns(j) /\ worker[j].bill \in Nat \cup {None}
        /\ worker[j].bill # None => Reserve(req[j].key) # None
    BY <2>1, JobHolds, RequestTyped DEF JobOK, Core
  <2>3. CASE row' = row
    BY <2>1, <2>3 DEF LedgerStep
  <2>4. CASE Settle(j, worker[j].bill)
    BY <2>1, <2>2, <2>4, SettleIsLedgerStep
  <2> QED
    BY <2>1, <2>3, <2>4
<1>4. ASSUME NEW k \in Key, NEW actual \in Bill, Reconcile(k, actual) PROVE LedgerStep
  <2> DEFINE f == Reconciled(row[k], actual, OrZero(Reserve(k)))
  <2>1. /\ recon[k] # None /\ Reconcilable(k) /\ budget' = budget
        /\ row' = [row EXCEPT ![k] = f]
    BY <1>4 DEF Reconcile, Reconciled
  <2>2. /\ row[k] # None /\ row[k] \in Row /\ row \in [Key -> Row \cup {None}]
        /\ OrZero(Reserve(k)) \in Nat /\ actual \in Nat
    BY <2>1, RowHolds, RowTyped, LedgerOK DEF RowOK, Core, TypeOK, OrZero, Reserve
  <2>3. f \in Row /\ f.price = row[k].price
    BY <2>2, ReconciledTyped
  <2> HIDE DEF f
  <2>5. row'[k] = f /\ f # None /\ \A i \in Key \ {k} : row'[i] = row[i]
    BY <2>1, <2>2, <2>3, LedgerOK
  <2>4. row[k].status \in Inflight \/ (row[k].status = "SETTLED" /\ row[k].overrun)
    BY <2>1 DEF Reconcilable, Inflight
  <2> QED
    BY <2>1, <2>2, <2>3, <2>4, <2>5 DEF LedgerStep
<1>5. CASE UNCHANGED <<row, budget>>
  BY <1>5 DEF LedgerStep
<1>6. CASE \E limit \in Limit \cup {None}, max \in 1..MaxInflight : ConfigureBudget(limit, max)
  BY <1>6 DEF LedgerStep
<1>7. CASE \E j \in Job : ReserveNew(j)
  BY <1>7 DEF LedgerStep
<1>8. ASSUME NEW j \in Job, NEW k \in Key, Generate(j, k) \/ ClaimRun(j, k)
      PROVE  UNCHANGED <<row, budget>>
  BY <1>8 DEF Generate, ClaimRun, ledger
<1>9. ASSUME NEW j \in Job,
             \/ ReserveEnds(j) \/ Link(j) \/ Start(j) \/ Quit(j) \/ Call(j)
             \/ \E bill \in Bill \cup {None} : Answer(j, bill)
      PROVE  UNCHANGED <<row, budget>>
  BY <1>9 DEF ReserveEnds, Link, Start, Quit, Call, Answer, ledger
<1>10. ASSUME NEW k \in Key, ReconcileRead(k) \/ ReconcileRefused(k)
       PROVE  UNCHANGED <<row, budget>>
  BY <1>10 DEF ReconcileRead, ReconcileRefused, ledger
<1>11. ASSUME \/ UNCHANGED vars \/ PriceExpires \/ Crash
              \/ \E amount \in Amount : ConfigurePrice(amount)
       PROVE  UNCHANGED <<row, budget>>
  BY <1>11 DEF vars, PriceExpires, Crash, ConfigurePrice, ledger
<1>12. ASSUME NEW j \in Job, Handle(j) \/ Work(j) PROVE LedgerStep
  BY <1>1, <1>2, <1>3, <1>5, <1>7, <1>9, <1>12 DEF Handle, Work
<1> QED
  BY <1>2, <1>3, <1>4, <1>5, <1>6, <1>8, <1>10, <1>11, <1>12 DEF Next

\* An admission fits the limit in force, whatever the request saw before.
LEMMA ReserveKeepsBudget ==
  ASSUME Core, Core', NEW j \in Job, ReserveNew(j)
  PROVE  WithinBudget'
<1>1. PICK k : k = req[j].key
  OBVIOUS
<1>2. /\ row[k] = None /\ Affordable(req[j].seen) /\ row' = [row EXCEPT ![k] = NewRow(j)]
      /\ budget' = budget /\ req[j].pc = "reserve"
  BY <1>1 DEF ReserveNew
<1>3. k \in Key /\ req[j].seen.price.amount \in Nat \cup {None}
  BY <1>1, <1>2, JobHolds, RequestTyped DEF JobOK, Core
<1>4. /\ row'[k] = NewRow(j) /\ row'[k] # None
      /\ NewRow(j).accounted = req[j].seen.price.amount
      /\ \A i \in Key \ {k} : row'[i] = row[i]
  BY <1>2, <1>3, NewRowTyped DEF Core, TypeOK
<1>5. /\ Spent \in [Key -> Nat] /\ Total(Spent) \in Nat
      /\ SumsNat' /\ Total(Excess') \in Nat
  <2>1. TypeOK' => SumsNat'
    BY SumsAreNat, PTL
  <2>2. SumsNat'
    BY <2>1 DEF Core
  <2> QED
    BY <2>2, SumsTyped, TotalTyped, LedgerOK DEF Core, SumsNat
<1>6. Spent[k] = 0
  BY <1>2, <1>3 DEF Spent, Rows
<1>7. Spent'[k] = OrZero(req[j].seen.price.amount)
  BY <1>3, <1>4 DEF Spent, Rows
<1>8. \A i \in Key \ {k} : Spent'[i] = Spent[i]
  BY <1>4 DEF Spent, Rows
<1>9. Total(Spent') + Spent[k] = Total(Spent) + Spent'[k] /\ Total(Spent') \in Nat
  BY <1>3, <1>5, <1>8, TotalChanges, TotalTyped, LedgerOK DEF SumsNat
<1>10. budget.limit # None =>
         budget.limit \in Nat /\ Total(Spent) + OrZero(req[j].seen.price.amount) <= budget.limit
  BY <1>2 DEF Affordable, Committed, Core, TypeOK
<1>11. OrZero(req[j].seen.price.amount) \in Nat
  BY <1>3 DEF OrZero
<1>12. Total(Spent)' = Total(Spent') /\ Total(Excess)' = Total(Excess')
  BY DEF Total
<1>13. budget'.limit # None => Total(Spent') <= budget'.limit + Total(Excess')
  BY <1>2, <1>5, <1>6, <1>7, <1>9, <1>10, <1>11
<1> QED
  BY <1>12, <1>13 DEF WithinBudget

\* A limit is not configured below what is committed.
LEMMA ConfigureKeepsBudget ==
  ASSUME Core, NEW limit \in Limit \cup {None}, NEW max \in 1..MaxInflight,
         ConfigureBudget(limit, max)
  PROVE  WithinBudget'
<1>1. /\ limit # None => limit >= Total(Spent)
      /\ budget'.limit = limit /\ row' = row
  BY DEF ConfigureBudget, Committed
<1>2. Spent' = Spent /\ Excess' = Excess
  BY <1>1 DEF Spent, Excess, Rows, Reserve
<1>3. Total(Spent) \in Nat /\ Total(Excess) \in Nat /\ (limit # None => limit \in Nat)
  BY SumsTyped, LedgerOK DEF Core
<1>4. Total(Spent)' = Total(Spent) /\ Total(Excess)' = Total(Excess)
  BY <1>2 DEF Total
<1> QED
  BY <1>1, <1>3, <1>4 DEF WithinBudget

LEMMA BudgetStep == ASSUME Core, WithinBudget, [Next]_vars PROVE WithinBudget'
<1>1. Core' /\ LedgerStep
  BY CoreStep, LedgerSteps DEF Keeps
<1>2. CASE UNCHANGED <<row, budget>>
  BY <1>2, RowsKeepBudget
<1>3. CASE \E limit \in Limit \cup {None}, max \in 1..MaxInflight : ConfigureBudget(limit, max)
  BY <1>3, ConfigureKeepsBudget
<1>4. CASE \E j \in Job : ReserveNew(j)
  BY <1>1, <1>4, ReserveKeepsBudget
<1>5. ASSUME NEW k \in Key,
             budget' = budget, row[k] # None, row'[k] # None,
             \A i \in Key \ {k} : row'[i] = row[i], row'[k].price = row[k].price,
             \/ row'[k].accounted = row[k].accounted
             \/ row[k].status \in Inflight
             \/ row[k].status = "SETTLED" /\ row[k].overrun
      PROVE  WithinBudget'
  BY <1>1, <1>5, BillKeepsBudget
<1> QED
  BY <1>1, <1>2, <1>3, <1>4, <1>5 DEF LedgerStep

LEMMA CoreInvariance == Spec => []Core
<1>1. Core /\ [Next]_vars => Core'
  BY CoreStep DEF Keeps
<1> QED
  BY <1>1, InitCore, PTL DEF Spec

\* Every variable keeps its type.
THEOREM Typing == Spec => []TypeOK
<1>1. Core => TypeOK
  BY DEF Core
<1> QED
  BY <1>1, CoreInvariance, PTL

\* What is committed exceeds the limit by no more than bills exceeded their own
\* reservations: admission, settlement, reconciliation and configuration keep
\* it in whatever order they come.
THEOREM BudgetKept == Spec => []WithinBudget
<1>1. Init => WithinBudget
  BY DEF Init, WithinBudget
<1>2. Core /\ WithinBudget /\ [Next]_vars => WithinBudget'
  BY BudgetStep
<1> QED
  BY <1>1, <1>2, CoreInvariance, PTL DEF Spec

----------------------------------------------------------------------------
(* Nobody's hold. *)

\* HoldsOwned, given who owns what: a settled job has no pending row.
Attended ==
  /\ \A k \in Key : IsPending(k) => manager[row[k].job] # "settled"
  /\ \A j \in Job : manager[j] = "live" => worker[j].pc # "none"

LEMMA AttendedIsOwned == Core => (Attended <=> HoldsOwned)
<1> SUFFICES ASSUME Core PROVE Attended <=> HoldsOwned
  OBVIOUS
<1>1. \A k \in Key : IsPending(k) => row[k].job \in Job
  BY RowTyped DEF Core, IsPending
<1>2. \A j \in Job : /\ manager[j] \in {"absent", "live", "settled", "lost"}
                     /\ worker[j].pc # "none" => manager[j] = "live"
  BY DEF Core, TypeOK, Ownership
<1> QED
  BY <1>1, <1>2 DEF Attended, HoldsOwned, Orphan

\* The end of a job closes its row, or leaves it to a user.
LEMMA EndAttends ==
  ASSUME Core, Attended, NEW j \in Job, Owns(j), NEW bill \in Nat \cup {None},
         bill # None => Reserve(req[j].key) # None,
         \/ Settle(j, bill) /\ manager'[j] \in {"settled", "lost", manager[j]}
         \/ row' = row /\ manager'[j] \in {"lost", manager[j]},
         \A i \in Job \ {j} : manager'[i] = manager[i] /\ worker'[i] = worker[i],
         manager'[j] # "live"
  PROVE  Attended'
<1>0. PICK k \in Key : k = req[j].key
  BY RequestTyped DEF Owns, Core
<1>1. row[k] # None /\ row[k].job = j
  BY <1>0 DEF Owns
<1>2. ASSUME NEW i \in Key \ {k}
      PROVE  row'[i] = row[i] /\ (IsPending(i) => row[i].job \in Job \ {j})
  <2>1. row'[i] = row[i]
    BY <1>0 DEF Settle, Core, TypeOK
  <2>2. IsPending(i) => row[i].job \in Job /\ req[row[i].job].key = i
    BY RowTyped, RowHolds DEF RowOK, Core, IsPending
  <2> QED
    BY <1>0, <2>1, <2>2
<1>3. IsPending(k)' => row'[k].job = j /\ manager'[j] # "settled"
  <2>1. CASE Settle(j, bill)
    <3>1. /\ row[k] \in Row /\ row'[k] = Finalized(row[k], bill)
          /\ bill # None => row[k].price.amount \in Nat
      BY <1>0, <2>1, SettleTyped DEF Core
    <3>2. row'[k].status \notin Pending
      BY <3>1, FinalizedTyped
    <3> QED
      BY <3>2 DEF IsPending
  <2>2. CASE row' = row /\ manager'[j] \in {"lost", manager[j]}
    BY <1>1, <2>2 DEF IsPending, Attended
  <2> QED
    BY <2>1, <2>2
<1>4. \A i \in Key : IsPending(i)' => manager'[row'[i].job] # "settled"
  BY <1>2, <1>3 DEF IsPending, Attended
<1> QED
  BY <1>4 DEF Attended

LEMMA AttendedStep == ASSUME Core, Attended, [Next]_vars PROVE Attended'
<1>1. CASE UNCHANGED <<row, manager, worker>>
  BY <1>1 DEF Attended, IsPending
<1>2. ASSUME NEW j \in Job,
             \/ Quit(j) \/ Call(j) \/ \E bill \in Bill \cup {None} : Answer(j, bill)
      PROVE  Attended'
  <2>1. UNCHANGED <<row, manager>>
    BY <1>2 DEF Quit, Call, Answer, ledger
  <2>2. \A i \in Job : worker[i].pc # "none" => worker'[i].pc # "none"
    BY <1>2 DEF Quit, Call, Answer, Walk, Core, TypeOK
  <2> QED
    BY <2>1, <2>2 DEF Attended, IsPending
<1>3. ASSUME NEW j \in Job, Start(j) PROVE Attended'
  <2>1. /\ row' = row /\ manager' = [manager EXCEPT ![j] = "live"]
        /\ worker' = [worker EXCEPT ![j].pc = "authorize"]
    BY <1>3 DEF Start, ledger
  <2>2. /\ \A i \in Job : manager'[i] \in {"live", manager[i]}
        /\ worker'[j].pc # "none" /\ \A i \in Job \ {j} :
             worker'[i] = worker[i] /\ manager'[i] = manager[i]
    BY <2>1 DEF Core, TypeOK
  <2>3. \A k \in Key : IsPending(k) => row[k].job \in Job
    BY RowTyped DEF Core, IsPending
  <2> QED
    BY <2>1, <2>2, <2>3 DEF Attended, IsPending
<1>4. ASSUME NEW j \in Job, ReserveNew(j) PROVE Attended'
  <2>1. PICK k : k = req[j].key
    OBVIOUS
  <2>2. /\ row' = [row EXCEPT ![k] = NewRow(j)] /\ UNCHANGED <<manager, worker>>
        /\ req[j].pc = "reserve"
    BY <1>4, <2>1 DEF ReserveNew
  <2>3. manager[j] = "absent" /\ NewRow(j).job = j /\ row \in [Key -> Row \cup {None}]
    BY <2>2, JobHolds, NewRowTyped DEF JobOK, Core, TypeOK
  <2>4. \A i \in Key : row'[i] = row[i] \/ row'[i] = NewRow(j)
    BY <2>2, <2>3
  <2> QED
    BY <2>2, <2>3, <2>4 DEF Attended, IsPending
<1>5. ASSUME NEW j \in Job, GuardDispatch(j) PROVE Attended'
  <2>1. PICK k : k = req[j].key
    OBVIOUS
  <2>2. /\ row' = IF row[k].status = "DISPATCHED" THEN row
                  ELSE [row EXCEPT ![k].status = "DISPATCHED", ![k].dispatched = TRUE,
                                   ![k].version = row[k].version + 1]
        /\ UNCHANGED manager /\ Walk(j, "call") /\ row[k].status \in Pending
    BY <1>5, <2>1 DEF GuardDispatch, Dispatchable
  <2>3. k \in Key /\ row[k] # None
    BY <1>5, <2>1, JobHolds, RequestTyped DEF GuardDispatch, JobOK, Owns, Core
  <2>4. row[k] \in Row /\ row \in [Key -> Row \cup {None}]
    BY <2>3, RowTyped DEF Core, TypeOK
  <2>5. row'[k].job = row[k].job /\ \A i \in Key \ {k} : row'[i] = row[i]
    <3>1. CASE row[k].status = "DISPATCHED"
      BY <2>2, <3>1
    <3>2. CASE row[k].status # "DISPATCHED"
      <4> DEFINE a == [row[k] EXCEPT !.status = "DISPATCHED", !.dispatched = TRUE,
                                     !.version = row[k].version + 1]
      <4>1. a.job = row[k].job
        BY <2>4, ArmedTyped
      <4> HIDE DEF a
      <4>2. row' = [row EXCEPT ![k] = a]
        BY <2>2, <2>3, <2>4, <3>2 DEF a
      <4> QED
        BY <2>3, <2>4, <4>1, <4>2
    <3> QED
      BY <3>1, <3>2
  <2>6. \A i \in Job : worker[i].pc # "none" => worker'[i].pc # "none"
    BY <2>2 DEF Walk, Core, TypeOK
  <2>7. \A i \in Key : IsPending(i)' => IsPending(i) /\ row'[i].job = row[i].job
    BY <2>2, <2>3, <2>5 DEF IsPending
  <2> QED
    BY <2>2, <2>6, <2>7 DEF Attended
<1>6. ASSUME NEW j \in Job, StartRefused(j) \/ StartRefusedFault(j) PROVE Attended'
  <2>1. /\ req[j].pc = "start" /\ worker' = worker
        /\ \/ Settle(j, None) /\ manager' = manager
           \/ row' = row /\ manager' = manager
           \/ Settle(j, None) /\ manager' = [manager EXCEPT ![j] = "settled"]
           \/ (row' = row \/ Settle(j, None)) /\ manager' = [manager EXCEPT ![j] = "lost"]
    BY <1>6 DEF StartRefused, StartRefusedFault
  <2>2. /\ Owns(j) /\ manager[j] = "absent"
        /\ manager \in [Job -> {"absent", "live", "settled", "lost"}]
    BY <2>1, JobHolds DEF JobOK, Core, TypeOK
  <2>3. /\ \A i \in Job \ {j} : manager'[i] = manager[i] /\ worker'[i] = worker[i]
        /\ manager'[j] # "live"
        /\ \/ Settle(j, None) /\ manager'[j] \in {"settled", "lost", manager[j]}
           \/ row' = row /\ manager'[j] \in {"lost", manager[j]}
    BY <2>1, <2>2
  <2> QED
    BY <2>2, <2>3, EndAttends
<1>7. ASSUME NEW j \in Job, Hook(j) \/ HookFault(j) PROVE Attended'
  <2>1. /\ worker[j].pc = "hook"
        /\ worker' = [worker EXCEPT ![j] = [pc |-> "none", bill |-> None]]
        /\ \/ Settle(j, worker[j].bill) /\ manager' = [manager EXCEPT ![j] = "settled"]
           \/ /\ row' = row \/ Settle(j, worker[j].bill)
              /\ manager' = [manager EXCEPT ![j] = "lost"]
    BY <1>7 DEF Hook, HookFault
  <2>2. /\ Owns(j) /\ worker[j].bill \in Nat \cup {None}
        /\ worker[j].bill # None => Reserve(req[j].key) # None
    BY <2>1, JobHolds, RequestTyped DEF JobOK, Core
  <2>3. /\ \A i \in Job \ {j} : manager'[i] = manager[i] /\ worker'[i] = worker[i]
        /\ manager'[j] # "live"
        /\ \/ Settle(j, worker[j].bill) /\ manager'[j] \in {"settled", "lost", manager[j]}
           \/ row' = row /\ manager'[j] \in {"lost", manager[j]}
    BY <2>1 DEF Core, TypeOK
  <2>4. PICK bill \in Nat \cup {None} : bill = worker[j].bill
    BY <2>2
  <2> QED
    BY <2>2, <2>3, <2>4, EndAttends
<1>8. ASSUME NEW k \in Key, NEW actual \in Bill, Reconcile(k, actual) PROVE Attended'
  <2> DEFINE f == Reconciled(row[k], actual, OrZero(Reserve(k)))
  <2>1. /\ recon[k] # None /\ row' = [row EXCEPT ![k] = f] /\ UNCHANGED <<manager, worker>>
    BY <1>8 DEF Reconcile, Reconciled
  <2>2. row[k] \in Row /\ row \in [Key -> Row \cup {None}]
        /\ OrZero(Reserve(k)) \in Nat /\ actual \in Nat
    BY <2>1, RowHolds, RowTyped, LedgerOK DEF RowOK, Core, TypeOK, OrZero, Reserve
  <2>3. f.status = "RECONCILED"
    BY <2>2, ReconciledTyped
  <2> HIDE DEF f
  <2>4. ~IsPending(k)' /\ \A i \in Key \ {k} : row'[i] = row[i]
    BY <2>1, <2>2, <2>3 DEF IsPending, Pending
  <2> QED
    BY <2>1, <2>4 DEF Attended, IsPending
<1>9. CASE Crash
  <2>1. /\ row' = row
        /\ manager' = [j \in Job |-> IF manager[j] = "absent" THEN "absent" ELSE "lost"]
    BY <1>9 DEF Crash, ledger
  <2>2. \A k \in Key : IsPending(k) => row[k].job \in Job
    BY RowTyped DEF Core, IsPending
  <2> QED
    BY <2>1, <2>2 DEF Attended, IsPending
<1>10. ASSUME NEW j \in Job, NEW k \in Key, Generate(j, k) \/ ClaimRun(j, k)
       PROVE  UNCHANGED <<row, manager, worker>>
  BY <1>10 DEF Generate, ClaimRun, ledger
<1>11. ASSUME NEW j \in Job, ReserveEnds(j) \/ Link(j)
       PROVE  UNCHANGED <<row, manager, worker>>
  BY <1>11 DEF ReserveEnds, Link, ledger
<1>12. ASSUME NEW k \in Key, ReconcileRead(k) \/ ReconcileRefused(k)
       PROVE  UNCHANGED <<row, manager, worker>>
  BY <1>12 DEF ReconcileRead, ReconcileRefused, ledger
<1>13. ASSUME \/ UNCHANGED vars \/ PriceExpires
              \/ \E amount \in Amount : ConfigurePrice(amount)
              \/ \E limit \in Limit \cup {None}, max \in 1..MaxInflight :
                   ConfigureBudget(limit, max)
       PROVE  UNCHANGED <<row, manager, worker>>
  BY <1>13 DEF vars, PriceExpires, ConfigureBudget, ConfigurePrice, ledger
<1>14. ASSUME NEW j \in Job, Handle(j) \/ Work(j) PROVE Attended'
  BY <1>1, <1>2, <1>3, <1>4, <1>5, <1>6, <1>7, <1>11, <1>14 DEF Handle, Work
<1> QED
  BY <1>1, <1>6, <1>7, <1>8, <1>9, <1>10, <1>12, <1>13, <1>14 DEF Next

LEMMA AttendedInvariance == Spec => []Attended
<1>1. Init => Attended
  BY DEF Init, Attended, IsPending
<1>2. Core /\ Attended /\ [Next]_vars => Attended'
  BY AttendedStep
<1> QED
  BY <1>1, <1>2, CoreInvariance, PTL DEF Spec

\* A hold that counts against the budget has a thread that will settle it or is
\* offered to a user, through refusals, failing settlements and crashes: the
\* safety core of HoldsEnd.
THEOREM HoldsStayOwned == Spec => []HoldsOwned
<1>1. Core => (Attended <=> HoldsOwned)
  BY AttendedIsOwned
<1> QED
  BY <1>1, CoreInvariance, AttendedInvariance, PTL

\* Rows, their owners, threads and reconciliations stay as the invariant says.
THEOREM Invariance == Spec => []IInv
<1>1. Core /\ HoldsOwned => IInv
  BY DEF IInv
<1> QED
  BY <1>1, CoreInvariance, HoldsStayOwned, PTL


----------------------------------------------------------------------------

\* A request is held once and called at most once, while its hold is armed; it
\* is given back only uncalled: the ledger implements the hold.
THEOREM Implementation == Spec => HoldContract
<1>1. Init => Hold!Init
  BY DEF Init, Hold!Init, HoldOf
<1>2. Core /\ [Next]_vars => [Hold!Next]_(Hold!vars)
  BY CoreStep DEF Keeps, Mapped
<1> QED
  BY <1>1, <1>2, CoreInvariance, PTL DEF Spec, HoldContract, Hold!Spec
=============================================================================
