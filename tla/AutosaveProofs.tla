----------------------------- MODULE AutosaveProofs -----------------------------
(***************************************************************************)
(* What holds of the save coordinator for every number of threads,         *)
(* documents, edits and faults.                                            *)
(***************************************************************************)
EXTENDS AutosaveProps, TLAPS

\* Everybody but one thread stays where it is.
Others(t) == \A u \in Thread : u # t => call'[u] = call[u]

\* A thread that moves on changes nothing but where it is.
LEMMA GotoAt ==
  ASSUME call \in [Thread -> Call], NEW t \in Thread, NEW to \in Pc, Goto(t, to)
  PROVE  /\ call' \in [Thread -> Call] /\ Others(t)
         /\ call'[t].pc = to
         /\ call'[t].task = call[t].task /\ call'[t].doc = call[t].doc
         /\ call'[t].gen = call[t].gen /\ call'[t].floor = call[t].floor
         /\ call'[t].good = call[t].good /\ call'[t].todo = call[t].todo
         /\ call'[t].all = call[t].all
<1>1. call[t] \in Call /\ [call[t] EXCEPT !.pc = to] \in Call
  BY DEF Call
<1>2. call' = [call EXCEPT ![t] = [call[t] EXCEPT !.pc = to]]
  BY DEF Goto
<1> QED
  BY <1>1, <1>2 DEF Call, Others

\* The calls a thread may begin are typed.
LEMMA NewCalls ==
  /\ Quiet \in Call
  /\ \A d \in Doc : FlushOf(d) \in Call
  /\ \A task \in Task : AllOf(task) \in Call
  /\ \A d \in Doc : [Quiet EXCEPT !.pc = "arming", !.task = "edit", !.doc = d] \in Call
BY DEF Quiet, FlushOf, AllOf, Call, Pc, Looping, Task

\* A thread gets a new call.
LEMMA CallAt ==
  ASSUME call \in [Thread -> Call], NEW t \in Thread, NEW c \in Call,
         call' = [call EXCEPT ![t] = c]
  PROVE  call' \in [Thread -> Call] /\ Others(t) /\ call'[t] = c
BY DEF Others

-----------------------------------------------------------------------------
(* What a step of one thread leaves alone.                                  *)

\* Edits and saves only go forward, and a close stays.
Onward ==
  /\ \A d \in Doc : generation[d] <= generation'[d] /\ stored[d] <= stored'[d]
  /\ closed => closed' /\ generation' = generation

\* What another thread was promised still holds.
LEMMA OtherThread ==
  ASSUME Core, TypeOK', Onward, \A d \in Doc : stored'[d] <= generation'[d],
         NEW u \in Thread, call'[u] = call[u]
  PROVE  ThreadInv(u)'
<1>1. ThreadInv(u)
  BY DEF Core
<1>2. \A d \in Doc : /\ generation[d] \in Nat /\ generation'[d] \in Nat
                     /\ stored[d] \in Nat /\ stored'[d] \in Nat
  BY DEF Core, TypeOK
<1>3. /\ call[u].doc \in Doc \cup {None} /\ call[u].floor \in Nat
      /\ call[u].pc = "returned" => call[u].doc \in Doc
  BY <1>1 DEF ThreadInv, Promise, Core, TypeOK, Call
<1>4. Promise(u)'
  <2>1. call[u].doc # None => call[u].floor <= generation'[call[u].doc]
    BY <1>1, <1>2, <1>3 DEF ThreadInv, Promise, Onward
  <2>2. call[u].pc = "returned" /\ call[u].good =>
          stored'[call[u].doc] >= call[u].floor
    BY <1>1, <1>2, <1>3 DEF ThreadInv, Promise, Onward
  <2> QED
    BY <1>1, <2>1, <2>2 DEF ThreadInv, Promise
<1>5. Closing(u)'
  <2> SUFFICES ASSUME call[u].task = "close" PROVE Closing(u)'
    BY DEF Closing
  <2>1. closed' /\ generation' = generation
    BY <1>1 DEF ThreadInv, Closing, Onward
  <2>2. ASSUME NEW d \in Doc, stored[d] = generation[d]
        PROVE  stored'[d] = generation'[d]
    BY <1>2, <2>1, <2>2 DEF Onward
  <2> QED
    BY <1>1, <2>1, <2>2 DEF ThreadInv, Closing
<1> QED
  BY <1>4, <1>5 DEF ThreadInv

\* What the close reported still holds.
LEMMA ReportStays ==
  ASSUME Core, TypeOK', Onward, \A d \in Doc : stored'[d] <= generation'[d],
         closeResult' = closeResult
  PROVE  CloseHonest'
<1>1. \A d \in Doc : /\ generation[d] \in Nat /\ generation'[d] \in Nat
                     /\ stored[d] \in Nat /\ stored'[d] \in Nat
  BY DEF Core, TypeOK
<1>2. CASE closeResult
  <2>1. closed' /\ generation' = generation /\ \A d \in Doc : stored[d] = generation[d]
    BY <1>2 DEF Core, CloseHonest, Onward
  <2>2. \A d \in Doc : stored'[d] = generation'[d]
    BY <1>1, <2>1 DEF Onward
  <2> QED
    BY <2>1, <2>2 DEF CloseHonest
<1> QED
  BY <1>2 DEF CloseHonest

\* One thread steps: its own promise and the documents are all there is to show.
LEMMA StepKeeps ==
  ASSUME Core, TypeOK', NEW t \in Thread, Others(t), Onward,
         closeResult' = closeResult \/ CloseHonest',
         \A d \in Doc : DocInv(d)', ThreadInv(t)'
  PROVE  Core'
<1>1. \A d \in Doc : stored'[d] <= generation'[d]
  BY DEF DocInv, Snapshots
<1>2. ASSUME NEW u \in Thread PROVE ThreadInv(u)'
  BY <1>1, OtherThread DEF Others
<1>3. CloseHonest'
  BY <1>1, ReportStays
<1> QED
  BY <1>2, <1>3 DEF Core

SameDoc(d) ==
  /\ generation'[d] = generation[d] /\ status'[d] = status[d]
  /\ stored'[d] = stored[d] /\ (d \in saving') = (d \in saving)

\* A document whose loop is not concerned.
LEMMA OtherDoc ==
  ASSUME NEW d \in Doc, DocInv(d), NEW t \in Thread, Others(t), SameDoc(d),
         ~InLoop(t, d), ~InLoop(t, d)'
  PROVE  DocInv(d)'
<1>1. \A u \in Thread : /\ InLoop(u, d)' <=> InLoop(u, d)
                        /\ InLoop(u, d) => call'[u] = call[u]
  BY DEF Others, InLoop
<1>2. Serialized(d)'
  BY <1>1 DEF DocInv, Serialized, SameDoc
<1>3. Snapshots(d)'
  BY <1>1 DEF DocInv, Snapshots, SameDoc
<1>4. Indicator(d)'
  BY <1>1 DEF DocInv, Indicator, SameDoc, Dirty
<1> QED
  BY <1>2, <1>3, <1>4 DEF DocInv

\* A step of a thread that is in no loop before and after it.
LEMMA OutsideKeeps ==
  ASSUME Core, TypeOK', NEW t \in Thread, Others(t),
         call[t].pc \notin Looping, call'[t].pc \notin Looping,
         ThreadInv(t)',
         UNCHANGED <<tracker, saving, stored>>, closed => closed',
         closeResult' = closeResult \/ CloseHonest'
  PROVE  Core'
<1>1. ASSUME NEW d \in Doc PROVE DocInv(d)'
  BY <1>1, OtherDoc DEF Core, SameDoc, InLoop, tracker
<1>2. Onward
  BY DEF Onward, tracker, Core, TypeOK
<1> QED
  BY <1>1, <1>2, StepKeeps

\* A document's loop is alone.
LEMMA LoopAlone ==
  ASSUME Core, NEW t \in Thread, call[t].pc \in Looping
  PROVE  /\ call[t].doc \in Doc /\ call[t].doc # None
         /\ InLoop(t, call[t].doc)
         /\ DocInv(call[t].doc)
         /\ \A u \in Thread : u # t => ~InLoop(u, call[t].doc)
         /\ call[t].floor <= generation[call[t].doc]
         /\ generation[call[t].doc] \in Nat /\ stored[call[t].doc] \in Nat
         /\ call[t].gen \in Nat /\ call[t].floor \in Nat
<1>1. call[t].pc \notin {"idle", "listing", "next"}
  BY DEF Looping
<1>2. /\ call[t].doc \in Doc /\ call[t].doc # None
      /\ call[t].floor <= generation[call[t].doc]
  BY <1>1 DEF Core, ThreadInv, Promise, TypeOK, Call
<1>3. InLoop(t, call[t].doc) /\ DocInv(call[t].doc)
  BY <1>2 DEF InLoop, Core
<1>4. \A u \in Thread : u # t => ~InLoop(u, call[t].doc)
  BY <1>3 DEF DocInv, Serialized
<1> QED
  BY <1>2, <1>3, <1>4 DEF Core, TypeOK, Call

\* A step inside the loop: the document's generations and its indicator remain
\* to be shown.
LEMMA LoopKeeps ==
  ASSUME Core, TypeOK', NEW t \in Thread, Others(t), Onward,
         call[t].pc \in Looping, call'[t].pc \in Looping,
         call'[t].doc = call[t].doc,
         \A d \in Doc \ {call[t].doc} :
           /\ generation'[d] = generation[d] /\ status'[d] = status[d]
           /\ stored'[d] = stored[d],
         UNCHANGED <<saving, closeResult>>,
         Snapshots(call[t].doc)', Indicator(call[t].doc)', ThreadInv(t)'
  PROVE  Core'
<1> DEFINE d == call[t].doc
<1>1. /\ d \in Doc /\ InLoop(t, d) /\ DocInv(d)
      /\ \A u \in Thread : u # t => ~InLoop(u, d)
  BY LoopAlone
<1>2. d' = d /\ InLoop(t, d)'
  BY DEF InLoop
<1>3. \A u \in Thread : u # t => ~InLoop(u, d)'
  BY <1>1, <1>2 DEF Others, InLoop
<1>4. Serialized(d)'
  BY <1>1, <1>2, <1>3 DEF DocInv, Serialized
<1>5. ASSUME NEW i \in Doc \ {d} PROVE DocInv(i)'
  BY <1>1, <1>2, <1>5, OtherDoc DEF Core, SameDoc, InLoop
<1>6. \A i \in Doc : DocInv(i)'
  BY <1>4, <1>5 DEF DocInv
<1> QED
  BY <1>6, StepKeeps

-----------------------------------------------------------------------------
(* The ways into flush and flush_all.                                       *)

\* Types of everything but the calls.
Typed ==
  /\ generation \in [Doc -> Nat] /\ status \in [Doc -> Status]
  /\ idle \in [Doc -> Timer] /\ periodic \in Timer
  /\ saving \subseteq Doc /\ pending \subseteq Doc /\ closed \in BOOLEAN
  /\ known \in [Doc -> Nat \cup {None}]
  /\ version \in [Doc -> Nat] /\ stored \in [Doc -> Nat]
  /\ faults \in Nat /\ closeResult \in BOOLEAN

\* A step keeps the types when it keeps those of the calls and of the rest.
LEMMA TypedNext == Typed' /\ call' \in [Thread -> Call] => TypeOK'
BY DEF TypeOK, Typed

\* A call that was just begun has promised nothing.
LEMMA FreshCall ==
  ASSUME NEW t \in Thread, TypeOK',
         call'[t].pc \in {"listing", "entering", "arming"},
         call'[t].doc = None <=> call'[t].pc = "listing",
         call'[t].floor = 0,
         call'[t].task = "close" => closed' /\ call'[t].pc = "listing"
  PROVE  ThreadInv(t)'
<1>1. call'[t].doc \in Doc \cup {None} /\ \A d \in Doc : generation'[d] \in Nat
  BY DEF TypeOK, Call
<1>2. Promise(t)'
  BY <1>1 DEF Promise
<1>3. Closing(t)'
  BY DEF Closing, Looping
<1> QED
  BY <1>2, <1>3 DEF ThreadInv

\* flush and flush_all by a caller, a debounce timer, a tick or the close.
LEMMA BeginKeeps ==
  ASSUME Core, NEW t \in Thread, NEW c \in Call, Begin(t, c), Typed',
         UNCHANGED <<tracker, saving, stored, closeResult>>, closed => closed',
         \/ \E d \in Doc : c = FlushOf(d)
         \/ \E task \in Task \ {"close"} : c = AllOf(task)
         \/ c = AllOf("close") /\ closed'
  PROVE  Core'
<1>1. /\ call' = [call EXCEPT ![t] = c] /\ call[t].pc = "idle"
      /\ call \in [Thread -> Call]
  BY DEF Begin, Core, TypeOK
<1>2. Others(t) /\ call'[t] = c /\ TypeOK'
  BY <1>1, CallAt, TypedNext
<1>3. /\ c.pc \in {"listing", "entering"} /\ (c.doc = None <=> c.pc = "listing")
      /\ c.floor = 0 /\ (c.task = "close" => closed' /\ c.pc = "listing")
  BY AutosaveOK DEF FlushOf, AllOf, Quiet
<1>4. ThreadInv(t)'
  BY <1>2, <1>3, FreshCall
<1> QED
  BY <1>1, <1>2, <1>3, <1>4, OutsideKeeps DEF Looping

\* content_changed marks the document and goes on to its timer.
LEMMA EditKeeps ==
  ASSUME Core, NEW t \in Thread, NEW d \in Doc, Edit(t, d)
  PROVE  Core'
<1> DEFINE c == [Quiet EXCEPT !.pc = "arming", !.task = "edit", !.doc = d]
<1>1. /\ call' = [call EXCEPT ![t] = c] /\ call[t].pc = "idle"
      /\ call \in [Thread -> Call] /\ c \in Call
  BY NewCalls DEF Edit, Begin, Core, TypeOK
<1>2. Others(t) /\ call'[t] = c
  BY <1>1, CallAt
<1>3. /\ c.pc = "arming" /\ c.doc = d /\ c.floor = 0 /\ c.task = "edit"
      /\ d # None
  BY AutosaveOK DEF Quiet
<1>g. /\ generation \in [Doc -> Nat] /\ stored \in [Doc -> Nat]
      /\ generation' = [generation EXCEPT ![d] = generation[d] + 1]
      /\ stored' = stored
  BY DEF Core, TypeOK, Edit, durable
<1>4. TypeOK'
  <2>1. Typed'
    BY <1>g DEF Core, TypeOK, Typed, Edit, Status, timers, guards, durable
  <2> QED
    BY <1>1, <2>1, CallAt, TypedNext
<1>5. Onward
  BY <1>g DEF Onward, Edit, guards
<1>6. ThreadInv(t)'
  BY <1>2, <1>3, <1>4, FreshCall
<1>7. ASSUME NEW i \in Doc, i # d PROVE DocInv(i)'
  <2>1. SameDoc(i)
    BY <1>7 DEF SameDoc, Edit, Core, TypeOK, guards, durable
  <2>2. ~InLoop(t, i) /\ ~InLoop(t, i)'
    BY <1>1, <1>2, <1>3 DEF InLoop, Looping
  <2> QED
    BY <1>2, <2>1, <2>2, OtherDoc DEF Core
<1>8. DocInv(d)'
  <2>a. DocInv(d)
    BY DEF Core
  <2>1. \A u \in Thread : /\ InLoop(u, d)' <=> InLoop(u, d)
                          /\ InLoop(u, d) => call'[u] = call[u]
    BY <1>1, <1>2, <1>3 DEF InLoop, Others, Looping
  <2>2. /\ generation'[d] = generation[d] + 1 /\ generation[d] \in Nat
        /\ stored'[d] = stored[d] /\ stored[d] \in Nat /\ stored[d] <= generation[d]
        /\ status'[d] = "unsaved"
    BY <1>g, <2>a DEF DocInv, Snapshots, Edit, Core, TypeOK
  <2>3. Serialized(d)'
    BY <2>1, <2>a DEF DocInv, Serialized, Edit, guards
  <2>4. Snapshots(d)'
    <3> SUFFICES ASSUME NEW u \in Thread, InLoop(u, d)',
                        call'[u].pc \in {"marking", "saving", "saved", "failed"}
                 PROVE  /\ call'[u].gen <= generation'[d]
                        /\ call'[u].pc = "saved" => stored'[d] = call'[u].gen
                        /\ call'[u].pc # "saved" => stored'[d] < call'[u].gen
      BY <2>2 DEF Snapshots
    <3>1. call'[u] = call[u] /\ InLoop(u, d) /\ call[u].gen \in Nat
      BY <2>1 DEF Core, TypeOK, Call
    <3>2. /\ call[u].gen <= generation[d]
          /\ call[u].pc = "saved" => stored[d] = call[u].gen
          /\ call[u].pc # "saved" => stored[d] < call[u].gen
      BY <3>1, <2>a DEF DocInv, Snapshots
    <3> QED
      BY <2>2, <3>1, <3>2
  <2>5. stored'[d] < generation'[d]
    BY <2>2
  <2>6. Indicator(d)'
    BY <2>2, <2>5 DEF Indicator
  <2> QED
    BY <2>3, <2>4, <2>6 DEF DocInv
<1> QED
  BY <1>2, <1>4, <1>5, <1>6, <1>7, <1>8, StepKeeps DEF Edit

\* Every request of a caller keeps the invariant.
LEMMA RequestKeeps ==
  ASSUME Core, NEW t \in Thread, Request(t)
  PROVE  Core'
<1> USE DEF tracker, timers, guards, durable
<1>a. Typed
  BY DEF Core, TypeOK, Typed
<1>1. ASSUME NEW d \in Doc, Flush(t, d) PROVE Core'
  <2>1. Typed'
    BY <1>1, <1>a DEF Flush, Typed
  <2> QED
    BY <1>1, <2>1, NewCalls, BeginKeeps DEF Flush
<1>2. ASSUME FlushAll(t) PROVE Core'
  <2>1. Typed' /\ "all" \in Task \ {"close"}
    BY <1>2, <1>a DEF FlushAll, Typed, Task
  <2> QED
    BY <1>2, <2>1, NewCalls, BeginKeeps DEF FlushAll
<1>3. ASSUME Close(t) PROVE Core'
  <2>1. Typed' /\ "close" \in Task
    BY <1>3, <1>a DEF Close, Typed, Timer, Task
  <2> QED
    BY <1>3, <2>1, NewCalls, BeginKeeps DEF Close
<1> QED
  BY <1>1, <1>2, <1>3, EditKeeps DEF Request

\* So does every timer.
LEMMA FireKeeps ==
  ASSUME Core, NEW t \in Thread, Fire(t)
  PROVE  Core'
<1> USE DEF tracker, timers, guards, durable
<1>a. Typed
  BY DEF Core, TypeOK, Typed
<1>1. ASSUME NEW d \in Doc, IdleFires(t, d) PROVE Core'
  <2>1. Typed'
    BY <1>1, <1>a DEF IdleFires, Typed, Timer
  <2> QED
    BY <1>1, <2>1, NewCalls, BeginKeeps DEF IdleFires
<1>2. ASSUME PeriodicFires(t) PROVE Core'
  <2>1. Typed' /\ "periodic" \in Task \ {"close"}
    BY <1>2, <1>a DEF PeriodicFires, Typed, Timer, Task
  <2> QED
    BY <1>2, <2>1, NewCalls, BeginKeeps DEF PeriodicFires
<1> QED
  BY <1>1, <1>2 DEF Fire

\* Other writers and editors do not touch what the coordinator keeps.
LEMMA OutsiderKeeps ==
  ASSUME Core, NEW d \in Doc, ForeignWrite(d) \/ Track(d)
  PROVE  Core'
<1>1. UNCHANGED <<generation, status, saving, closed, call, stored, closeResult>>
  BY DEF ForeignWrite, Track, tracker, guards
<1>2. TypeOK'
  BY DEF Core, TypeOK, ForeignWrite, Track, Faulty, tracker, timers, guards
<1>3. \A i \in Doc : DocInv(i)'
  BY <1>1 DEF Core, DocInv, Serialized, Snapshots, Indicator, InLoop, Dirty
<1>4. \A u \in Thread : ThreadInv(u)'
  BY <1>1 DEF Core, ThreadInv, Promise, Closing
<1>5. CloseHonest'
  BY <1>1 DEF Core, CloseHonest
<1> QED
  BY <1>2, <1>3, <1>4, <1>5 DEF Core

-----------------------------------------------------------------------------
(* The loop.                                                                *)

\* What the loop of a document may rely on.
LEMMA LoopFacts ==
  ASSUME Core, NEW t \in Thread, call[t].pc \in Looping,
         NEW d, d = call[t].doc
  PROVE  /\ stored[d] <= generation[d]
         /\ call[t].pc \in {"marking", "saving", "saved", "failed"} =>
              /\ call[t].gen <= generation[d]
              /\ call[t].pc = "saved" => stored[d] = call[t].gen
              /\ call[t].pc # "saved" => stored[d] < call[t].gen
         /\ status[d] = "none" => generation[d] = 0
         /\ status[d] = "saved" => stored[d] = generation[d]
         /\ Dirty(d) => \/ stored[d] < generation[d]
                        \/ call[t].pc = "saved" /\ call[t].gen = generation[d]
         /\ status[d] = "saving" => /\ call[t].gen = generation[d]
                                    /\ call[t].pc \in {"saving", "saved", "failed"}
<1>1. /\ InLoop(t, d) /\ DocInv(d)
      /\ \A u \in Thread : InLoop(u, d) => u = t
  BY LoopAlone
<1>2. Snapshots(d) /\ Indicator(d)
  BY <1>1 DEF DocInv
<1> QED
  BY <1>1, <1>2 DEF Snapshots, Indicator

\* What a thread in a loop was promised when it stays there.
LEMMA LoopThread ==
  ASSUME Core, TypeOK', NEW t \in Thread, Onward,
         call[t].pc \in Looping, call'[t].pc \in Looping,
         call'[t].doc = call[t].doc, call'[t].task = call[t].task,
         call'[t].floor = call[t].floor, call'[t].todo = call[t].todo,
         call'[t].all = call[t].all,
         \A d \in Doc : stored'[d] <= generation'[d]
  PROVE  ThreadInv(t)'
<1> DEFINE d == call[t].doc
<1>1. /\ d \in Doc /\ d # None /\ call[t].floor <= generation[d]
      /\ call[t].floor \in Nat
  BY LoopAlone
<1>2. \A i \in Doc : /\ generation[i] \in Nat /\ generation'[i] \in Nat
                     /\ stored[i] \in Nat /\ stored'[i] \in Nat
  BY DEF Core, TypeOK
<1>3. Promise(t)'
  <2>1. call[t].floor <= generation'[d]
    BY <1>1, <1>2 DEF Onward
  <2>2. call'[t].pc \notin {"idle", "listing", "next", "returned"}
    BY DEF Looping
  <2> QED
    BY <1>1, <2>1, <2>2 DEF Promise
<1>4. Closing(t)'
  <2> SUFFICES ASSUME call[t].task = "close" PROVE Closing(t)'
    BY DEF Closing
  <2>1. Closing(t) /\ call[t].pc # "listing"
    BY DEF Core, ThreadInv, Looping
  <2>2. closed' /\ generation' = generation
    BY <2>1 DEF Closing, Onward
  <2>3. ASSUME NEW i \in Doc, stored[i] = generation[i]
        PROVE  stored'[i] = generation'[i]
    BY <1>2, <2>2, <2>3 DEF Onward
  <2>4. call'[t].pc # "returned"
    BY DEF Looping
  <2> QED
    BY <2>1, <2>2, <2>3, <2>4 DEF Closing
<1> QED
  BY <1>3, <1>4 DEF ThreadInv

\* A step of a loop, in terms of its own document.
LEMMA LoopStep ==
  ASSUME Core, TypeOK', NEW t \in Thread, Others(t), NEW d, d = call[t].doc,
         call[t].pc \in Looping, call'[t].pc \in Looping,
         call'[t].doc = call[t].doc, call'[t].task = call[t].task,
         call'[t].floor = call[t].floor, call'[t].todo = call[t].todo,
         call'[t].all = call[t].all,
         UNCHANGED <<generation, saving, closed, closeResult>>,
         \A i \in Doc \ {d} : status'[i] = status[i] /\ stored'[i] = stored[i],
         stored[d] <= stored'[d] /\ stored'[d] <= generation[d],
         call'[t].pc \in {"marking", "saving", "saved", "failed"} =>
           /\ call'[t].gen <= generation[d]
           /\ call'[t].pc = "saved" => stored'[d] = call'[t].gen
           /\ call'[t].pc # "saved" => stored'[d] < call'[t].gen,
         status'[d] = "none" => generation[d] = 0,
         status'[d] = "saved" => stored'[d] = generation[d],
         status'[d] \in {"unsaved", "saving", "failed"} =>
           \/ stored'[d] < generation[d]
           \/ call'[t].pc = "saved" /\ call'[t].gen = generation[d],
         status'[d] = "saving" => /\ call'[t].gen = generation[d]
                                  /\ call'[t].pc \in {"saving", "saved", "failed"}
  PROVE  Core'
<1>1. d \in Doc /\ \A u \in Thread : u # t => ~InLoop(u, d)
  BY LoopAlone
<1>2. /\ \A u \in Thread : u # t => ~InLoop(u, d)'
      /\ InLoop(t, d)'
  BY <1>1 DEF Others, InLoop
<1>3. \A i \in Doc : /\ generation[i] \in Nat /\ stored[i] \in Nat
                     /\ stored[i] <= generation[i]
  BY DEF Core, TypeOK, DocInv, Snapshots
<1>4. \A i \in Doc : stored'[i] <= generation'[i]
  BY <1>3
<1>5. Onward
  <2>1. ASSUME NEW i \in Doc PROVE generation[i] <= generation'[i] /\ stored[i] <= stored'[i]
    BY <1>3
  <2> QED
    BY <2>1 DEF Onward
<1>6. ThreadInv(t)'
  BY <1>4, <1>5, LoopThread
<1>7. Snapshots(call[t].doc)'
  <2>1. Snapshots(d)'
    BY <1>1, <1>2, <1>4 DEF Snapshots
  <2> QED
    BY <2>1
<1>8. Indicator(call[t].doc)'
  <2>1. Indicator(d)'
    BY <1>1, <1>2 DEF Indicator, Dirty
  <2> QED
    BY <2>1
<1> QED
  BY <1>5, <1>6, <1>7, <1>8, LoopKeeps

\* A step of a loop that only moves on, or only to another snapshot.
LEMMA LoopMoves ==
  ASSUME Core, NEW t \in Thread, NEW c \in Call, call' = [call EXCEPT ![t] = c],
         call[t].pc \in Looping, c.pc \in Looping, Typed',
         c.doc = call[t].doc, c.task = call[t].task, c.floor = call[t].floor,
         c.todo = call[t].todo, c.all = call[t].all,
         UNCHANGED <<tracker, saving, closed, stored, closeResult>>,
         \/ /\ call[t].pc \in {"reading", "draining", "latest"}
            /\ c.pc \in {"reading", "latest", "leaving"}
         \/ /\ call[t].pc = "reading" /\ c.pc = "marking"
            /\ c.gen = generation[call[t].doc] /\ Dirty(call[t].doc)
         \/ /\ call[t].pc = "saving" /\ c.pc \in {"saving", "failed"}
            /\ c.gen = call[t].gen
  PROVE  Core'
<1> PICK d \in Doc : d = call[t].doc
  BY LoopAlone
<1>1. call \in [Thread -> Call]
  BY DEF Core, TypeOK
<1>2. call'[t] = c /\ Others(t) /\ TypeOK'
  BY <1>1, CallAt, TypedNext
<1>3. /\ generation[d] \in Nat /\ stored[d] \in Nat /\ call[t].gen \in Nat
  BY LoopAlone
<1>4. /\ stored[d] <= stored'[d] /\ stored'[d] <= generation[d]
      /\ UNCHANGED <<generation, saving, closed, closeResult>>
      /\ \A i \in Doc : status'[i] = status[i] /\ stored'[i] = stored[i]
  BY <1>3, LoopFacts DEF tracker
<1>5. c.pc \in {"marking", "saving", "saved", "failed"} =>
        /\ c.gen <= generation[d]
        /\ c.pc = "saved" => stored'[d] = c.gen
        /\ c.pc # "saved" => stored'[d] < c.gen
  <2>1. CASE c.pc = "marking"
    BY <1>3, <1>4, <2>1, LoopFacts
  <2>2. CASE c.pc \in {"saving", "failed"}
    BY <1>3, <1>4, <2>2, LoopFacts
  <2> QED
    BY <2>1, <2>2
<1>6. /\ status'[d] = "none" => generation[d] = 0
      /\ status'[d] = "saved" => stored'[d] = generation[d]
      /\ status'[d] \in {"unsaved", "saving", "failed"} =>
           \/ stored'[d] < generation[d]
           \/ c.pc = "saved" /\ c.gen = generation[d]
      /\ status'[d] = "saving" => /\ c.gen = generation[d]
                                  /\ c.pc \in {"saving", "saved", "failed"}
  <2>1. /\ status[d] = "none" => generation[d] = 0
        /\ status[d] = "saved" => stored[d] = generation[d]
        /\ status[d] \in {"unsaved", "saving", "failed"} => stored[d] < generation[d]
        /\ status[d] = "saving" => /\ call[t].gen = generation[d]
                                   /\ call[t].pc \in {"saving", "saved", "failed"}
    BY LoopFacts DEF Dirty
  <2> QED
    BY <1>4, <2>1
<1> QED
  BY <1>2, <1>4, <1>5, <1>6, LoopStep

\* The head of the loop, its snapshot, and its two ways round again.
LEMMA RoundKeeps ==
  ASSUME Core, NEW t \in Thread,
         ReadState(t) \/ Drain(t) \/ CheckLatest(t)
  PROVE  Core'
<1>a. call[t].pc \in {"reading", "draining", "latest"}
  BY DEF ReadState, Drain, CheckLatest
<1>b. call[t].pc \in Looping /\ call[t] \in Call /\ Typed
  BY <1>a DEF Looping, Core, TypeOK, Typed
<1>c. call[t].doc \in Doc /\ generation[call[t].doc] \in Nat
  BY <1>b, LoopAlone
<1>d. Typed'
  BY <1>b, <1>c DEF Typed, ReadState, Drain, CheckLatest, tracker, timers, guards, durable
<1>e. UNCHANGED <<tracker, saving, closed, stored, closeResult>>
  BY DEF ReadState, Drain, CheckLatest, guards, durable
<1>1. ASSUME NEW to \in {"reading", "latest", "leaving"}, Goto(t, to) PROVE Core'
  <2> DEFINE c == [call[t] EXCEPT !.pc = to]
  <2>1. /\ c \in Call /\ c.pc = to /\ c.doc = call[t].doc /\ c.task = call[t].task
        /\ c.floor = call[t].floor /\ c.todo = call[t].todo /\ c.all = call[t].all
    BY <1>b DEF Call, Pc, Looping
  <2>2. call' = [call EXCEPT ![t] = c]
    BY <1>1 DEF Goto
  <2>3. c.pc \in Looping
    BY <2>1 DEF Looping
  <2> HIDE DEF c
  <2> QED
    BY <1>a, <1>b, <1>d, <1>e, <2>1, <2>2, <2>3, LoopMoves
<1>2. CASE ReadState(t) /\ Dirty(call[t].doc)
  <2> DEFINE c == [call[t] EXCEPT !.pc = "marking", !.gen = generation[call[t].doc]]
  <2>1. /\ c \in Call /\ c.pc = "marking" /\ c.gen = generation[call[t].doc]
        /\ c.doc = call[t].doc /\ c.task = call[t].task
        /\ c.floor = call[t].floor /\ c.todo = call[t].todo /\ c.all = call[t].all
    BY <1>b, <1>c DEF Call, Pc, Looping
  <2>2. call' = [call EXCEPT ![t] = c] /\ call[t].pc = "reading"
    BY <1>2 DEF ReadState, Core, TypeOK
  <2>3. c.pc \in Looping
    BY <2>1 DEF Looping
  <2> HIDE DEF c
  <2> QED
    BY <1>2, <1>b, <1>d, <1>e, <2>1, <2>2, <2>3, LoopMoves
<1> QED
  BY <1>1, <1>2 DEF ReadState, Drain, CheckLatest

\* The load of an unknown version, and a save that is refused or raises.
LEMMA UnsavedKeeps ==
  ASSUME Core, NEW t \in Thread,
         LoadVersion(t) \/ SaveConflicts(t) \/ SaveRaises(t)
  PROVE  Core'
<1>a. call[t].pc = "saving"
  BY DEF LoadVersion, SaveConflicts, SaveRaises
<1>b. call[t].pc \in Looping /\ call[t] \in Call /\ Typed
  BY <1>a DEF Looping, Core, TypeOK, Typed
<1>d. Typed'
  BY <1>b DEF Typed, LoadVersion, SaveConflicts, SaveRaises, Faulty, tracker, timers, guards, durable
<1>e. UNCHANGED <<tracker, saving, closed, stored, closeResult>>
  BY DEF LoadVersion, SaveConflicts, SaveRaises, guards, durable
<1>1. ASSUME NEW to \in {"saving", "failed"}, Goto(t, to) PROVE Core'
  <2> DEFINE c == [call[t] EXCEPT !.pc = to]
  <2>1. /\ c \in Call /\ c.pc = to /\ c.doc = call[t].doc /\ c.task = call[t].task
        /\ c.floor = call[t].floor /\ c.todo = call[t].todo /\ c.all = call[t].all
        /\ c.gen = call[t].gen
    BY <1>b DEF Call, Pc, Looping
  <2>2. call' = [call EXCEPT ![t] = c]
    BY <1>1 DEF Goto
  <2>3. c.pc \in Looping
    BY <2>1 DEF Looping
  <2> HIDE DEF c
  <2> QED
    BY <1>a, <1>b, <1>d, <1>e, <2>1, <2>2, <2>3, LoopMoves
<1>2. CASE LoadVersion(t)
  <2>1. call' = call /\ call \in [Thread -> Call]
    BY <1>2 DEF LoadVersion, Core, TypeOK
  <2>2. call' = [call EXCEPT ![t].pc = "saving"]
    BY <1>a, <1>b, <2>1 DEF Call
  <2> QED
    BY <2>2, <1>1 DEF Goto
<1> QED
  BY <1>1, <1>2 DEF SaveConflicts, SaveRaises

\* A save that succeeds: the snapshot is the newest generation stored.
LEMMA SaveKeeps ==
  ASSUME Core, NEW t \in Thread, SaveSucceeds(t)
  PROVE  Core'
<1>a. call[t].pc = "saving" /\ call[t].pc \in Looping
  BY DEF SaveSucceeds, Looping
<1> PICK d \in Doc : d = call[t].doc
  BY <1>a, LoopAlone
<1>1. /\ call \in [Thread -> Call] /\ "saved" \in Pc /\ Typed
      /\ stored \in [Doc -> Nat] /\ Goto(t, "saved")
      /\ generation[d] \in Nat /\ stored[d] \in Nat /\ call[t].gen \in Nat
  BY <1>a, LoopAlone DEF Core, TypeOK, Typed, Pc, Looping, SaveSucceeds
<1>2. /\ call' \in [Thread -> Call] /\ Others(t)
      /\ call'[t].pc = "saved" /\ call'[t].gen = call[t].gen
      /\ call'[t].task = call[t].task /\ call'[t].doc = call[t].doc
      /\ call'[t].floor = call[t].floor /\ call'[t].todo = call[t].todo
      /\ call'[t].all = call[t].all
  BY <1>1, GotoAt
<1>3. TypeOK'
  <2>1. Typed'
    BY <1>1 DEF Typed, SaveSucceeds, tracker, timers, guards
  <2> QED
    BY <1>2, <2>1, TypedNext
<1>4. /\ stored'[d] = call[t].gen
      /\ \A i \in Doc \ {d} : stored'[i] = stored[i]
      /\ UNCHANGED <<generation, status, saving, closed, closeResult>>
  BY <1>1 DEF SaveSucceeds, tracker, guards
<1>5. stored[d] < call[t].gen /\ call[t].gen <= generation[d]
  BY <1>a, LoopFacts
<1>6. stored[d] <= stored'[d] /\ stored'[d] <= generation[d]
  BY <1>1, <1>4, <1>5
<1>7. /\ status[d] # "saved"
      /\ status[d] = "none" => generation[d] = 0
      /\ status[d] = "saving" => call[t].gen = generation[d]
  BY <1>a, <1>1, <1>5, LoopFacts
<1>8. stored'[d] < generation[d] \/ call[t].gen = generation[d]
  BY <1>1, <1>4, <1>5
<1>9. call'[t].pc \in Looping
  BY <1>2 DEF Looping
<1> QED
  BY <1>a, <1>2, <1>3, <1>4, <1>5, <1>6, <1>7, <1>8, <1>9, LoopStep

\* The three marks: only the snapshot's own generation moves the indicator.
LEMMA MarkKeeps ==
  ASSUME Core, NEW t \in Thread,
         MarkSaving(t) \/ MarkSaved(t) \/ MarkFailed(t)
  PROVE  Core'
<1>a. call[t].pc \in {"marking", "saved", "failed"}
  BY DEF MarkSaving, MarkSaved, MarkFailed
<1>b. call[t].pc \in Looping /\ call[t] \in Call /\ call \in [Thread -> Call] /\ Typed
  BY <1>a DEF Looping, Core, TypeOK, Typed
<1> PICK d \in Doc : d = call[t].doc
  BY <1>b, LoopAlone
<1> DEFINE s == CASE call[t].pc = "marking" -> "saving"
                  [] call[t].pc = "saved"   -> "saved"
                  [] call[t].pc = "failed"  -> "failed"
<1>1. /\ s \in Status \ {"none"} /\ Mark(t, s)
      /\ UNCHANGED <<generation, timers, guards, durable, closeResult>>
  BY <1>a DEF MarkSaving, MarkSaved, MarkFailed, Status
<1>2. /\ status \in [Doc -> Status]
      /\ status' \in [Doc -> Status]
      /\ \A i \in Doc \ {d} : status'[i] = status[i]
      /\ status'[d] = IF generation[d] = call[t].gen THEN s ELSE status[d]
  BY <1>1, <1>b DEF Mark, Typed
<1>3. /\ call' \in [Thread -> Call] /\ Others(t)
      /\ call'[t].pc = CASE call[t].pc = "marking" -> "saving"
                         [] call[t].pc = "saved"   -> "draining"
                         [] call[t].pc = "failed"  -> "leaving"
      /\ call'[t].task = call[t].task /\ call'[t].doc = call[t].doc
      /\ call'[t].gen = call[t].gen /\ call'[t].floor = call[t].floor
      /\ call'[t].todo = call[t].todo /\ call'[t].all = call[t].all
  <2>1. CASE MarkSaving(t)
    <3>1. Goto(t, "saving") /\ "saving" \in Pc /\ call[t].pc = "marking"
      BY <2>1 DEF MarkSaving, Pc, Looping
    <3> QED
      BY <3>1, <1>b, GotoAt
  <2>2. CASE MarkSaved(t)
    <3>1. Goto(t, "draining") /\ "draining" \in Pc /\ call[t].pc = "saved"
      BY <2>2 DEF MarkSaved, Pc, Looping
    <3> QED
      BY <3>1, <1>b, GotoAt
  <2>3. CASE MarkFailed(t)
    <3> DEFINE c == [call[t] EXCEPT !.pc = "leaving", !.good = FALSE]
    <3>1. c \in Call /\ call' = [call EXCEPT ![t] = c] /\ call[t].pc = "failed"
      BY <2>3, <1>b DEF MarkFailed, Call, Pc, Looping
    <3>2. call' \in [Thread -> Call] /\ Others(t) /\ call'[t] = c
      BY <3>1, <1>b, CallAt
    <3>3. /\ c.pc = "leaving" /\ c.task = call[t].task /\ c.doc = call[t].doc
          /\ c.gen = call[t].gen /\ c.floor = call[t].floor
          /\ c.todo = call[t].todo /\ c.all = call[t].all
      BY <1>b DEF Call
    <3> HIDE DEF c
    <3> QED
      BY <3>1, <3>2, <3>3
  <2> QED
    BY <2>1, <2>2, <2>3
<1>4. TypeOK'
  <2>1. Typed'
    BY <1>1, <1>2, <1>b DEF Typed, timers, guards, durable
  <2> QED
    BY <1>3, <2>1, TypedNext
<1>5. /\ generation[d] \in Nat /\ stored[d] \in Nat /\ call[t].gen \in Nat
      /\ stored[d] <= generation[d] /\ call[t].gen <= generation[d]
      /\ call[t].pc = "saved" => stored[d] = call[t].gen
      /\ call[t].pc # "saved" => stored[d] < call[t].gen
  BY <1>a, <1>b, LoopAlone, LoopFacts
<1>6. /\ status[d] = "none" => generation[d] = 0
      /\ status[d] = "saved" => stored[d] = generation[d]
      /\ status[d] \in {"unsaved", "saving", "failed"} =>
           \/ stored[d] < generation[d]
           \/ call[t].pc = "saved" /\ call[t].gen = generation[d]
      /\ status[d] = "saving" => /\ call[t].gen = generation[d]
                                 /\ call[t].pc \in {"saving", "saved", "failed"}
  BY <1>b, LoopFacts DEF Dirty
<1>7. UNCHANGED <<generation, saving, closed, stored, closeResult>>
  BY <1>1 DEF guards, durable
<1>8. /\ stored[d] <= stored'[d] /\ stored'[d] <= generation[d]
      /\ \A i \in Doc \ {d} : status'[i] = status[i] /\ stored'[i] = stored[i]
  BY <1>2, <1>5, <1>7
<1>9. /\ call'[t].pc \in Looping
      /\ call'[t].pc \in {"marking", "saving", "saved", "failed"} =>
           call[t].pc = "marking" /\ call'[t].pc = "saving"
  BY <1>a, <1>3 DEF Looping
<1>10. call'[t].pc \in {"marking", "saving", "saved", "failed"} =>
         /\ call'[t].gen <= generation[d]
         /\ call'[t].pc = "saved" => stored'[d] = call'[t].gen
         /\ call'[t].pc # "saved" => stored'[d] < call'[t].gen
  BY <1>3, <1>5, <1>7, <1>9
<1>11. CASE generation[d] = call[t].gen
  <2>1. status'[d] = s /\ s \in {"saving", "saved", "failed"}
    BY <1>a, <1>2, <1>11
  <2>2. s = "saved" => stored'[d] = generation[d]
    BY <1>a, <1>5, <1>7, <1>11
  <2>3. s # "saved" => stored'[d] < generation[d]
    BY <1>a, <1>5, <1>7, <1>11
  <2>4. s = "saving" => call'[t].gen = generation[d] /\ call'[t].pc = "saving"
    BY <1>a, <1>3, <1>11
  <2> HIDE DEF s
  <2> QED
    BY <1>b, <1>3, <1>4, <1>7, <1>8, <1>9, <1>10, <2>1, <2>2, <2>3, <2>4, LoopStep
<1>12. CASE generation[d] # call[t].gen
  <2>1. status'[d] = status[d] /\ status[d] # "saving"
    BY <1>2, <1>6, <1>12
  <2>2. /\ status'[d] = "none" => generation[d] = 0
        /\ status'[d] = "saved" => stored'[d] = generation[d]
        /\ status'[d] \in {"unsaved", "saving", "failed"} => stored'[d] < generation[d]
    BY <1>6, <1>7, <1>12, <2>1
  <2> QED
    BY <1>b, <1>3, <1>4, <1>7, <1>8, <1>9, <1>10, <2>1, <2>2, LoopStep
<1> QED
  BY <1>11, <1>12

-----------------------------------------------------------------------------
(* Outside of the loop.                                                     *)

\* A thread whose call is over has promised nothing.
LEMMA QuietCall ==
  ASSUME NEW t \in Thread, call'[t] = Quiet
  PROVE  ThreadInv(t)' /\ call'[t].pc = "idle"
BY DEF Quiet, ThreadInv, Promise, Closing

\* The end of an edit.
LEMMA ArmKeeps ==
  ASSUME Core, NEW t \in Thread, Arm(t)
  PROVE  Core'
<1>1. /\ call \in [Thread -> Call] /\ call[t].pc \notin Looping
      /\ call' = [call EXCEPT ![t] = Quiet]
      /\ UNCHANGED <<tracker, saving, stored, closeResult, closed>>
  BY DEF Core, TypeOK, Arm, Looping, guards, durable
<1>2. Others(t) /\ call'[t] = Quiet /\ call' \in [Thread -> Call]
  BY <1>1, CallAt, NewCalls
<1>3. TypeOK'
  <2>1. Typed'
    BY DEF Core, TypeOK, Typed, Arm, Timer, tracker, guards, durable
  <2> QED
    BY <1>2, <2>1, TypedNext
<1>4. ThreadInv(t)' /\ call'[t].pc \notin Looping
  BY <1>2, QuietCall DEF Looping
<1> QED
  BY <1>1, <1>2, <1>3, <1>4, OutsideKeeps

\* A document that is not dirty is stored.
LEMMA CleanStored ==
  ASSUME Core, NEW d \in Doc, ~Dirty(d)
  PROVE  stored[d] = generation[d] /\ stored[d] \in Nat
<1>1. status[d] \in {"none", "saved"}
  BY DEF Core, TypeOK, Status, Dirty
<1>2. Indicator(d) /\ stored[d] <= generation[d] /\ stored[d] \in Nat /\ generation[d] \in Nat
  BY DEF Core, TypeOK, DocInv, Snapshots
<1> QED
  BY <1>1, <1>2 DEF Indicator

\* flush_all lists the dirty documents: all others are stored.
LEMMA ListKeeps ==
  ASSUME Core, NEW t \in Thread, List(t)
  PROVE  Core'
<1> DEFINE Dirties == {d \in Doc : Dirty(d)}
           c == [call[t] EXCEPT !.todo = Dirties, !.pc = "next"]
<1>1. /\ call \in [Thread -> Call] /\ call[t] \in Call /\ call[t].pc = "listing"
      /\ call' = [call EXCEPT ![t] = c]
      /\ UNCHANGED <<tracker, timers, guards, durable, closeResult>>
  BY DEF Core, TypeOK, List
<1>2. /\ c \in Call /\ c.pc = "next" /\ c.todo = Dirties /\ c.doc = call[t].doc
      /\ c.floor = call[t].floor /\ c.task = call[t].task
  BY <1>1 DEF Call, Pc
<1> HIDE DEF c
<1>3. Others(t) /\ call'[t] = c /\ call' \in [Thread -> Call]
  BY <1>1, <1>2, CallAt
<1>4. TypeOK'
  <2>1. Typed'
    BY <1>1 DEF Core, TypeOK, Typed, tracker, timers, guards, durable
  <2> QED
    BY <1>3, <2>1, TypedNext
<1>5. ThreadInv(t)'
  <2>1. Promise(t) /\ Closing(t)
    BY DEF Core, ThreadInv
  <2>2. Promise(t)'
    BY <1>1, <1>2, <1>3, <2>1 DEF Promise
  <2>3. \A d \in Doc \ Dirties : stored'[d] = generation'[d]
    BY <1>1, CleanStored DEF tracker, durable
  <2>4. Closing(t)'
    BY <1>1, <1>2, <1>3, <2>1, <2>3 DEF Closing, Looping, guards
  <2> QED
    BY <2>2, <2>4 DEF ThreadInv
<1>6. call[t].pc \notin Looping /\ call'[t].pc \notin Looping
  BY <1>1, <1>2, <1>3 DEF Looping
<1> QED
  BY <1>1, <1>3, <1>4, <1>5, <1>6, OutsideKeeps DEF guards, durable

\* flush_all goes on to its next document.
LEMMA NextDocKeeps ==
  ASSUME Core, NEW t \in Thread, NEW d \in Doc, NextDoc(t, d)
  PROVE  Core'
<1> DEFINE c == [call[t] EXCEPT !.pc = "entering", !.doc = d, !.todo = call[t].todo \ {d}]
<1>1. /\ call \in [Thread -> Call] /\ call[t] \in Call /\ call[t].pc = "next"
      /\ call' = [call EXCEPT ![t] = c]
      /\ UNCHANGED <<tracker, timers, guards, durable, closeResult>>
  BY DEF Core, TypeOK, NextDoc
<1>2. /\ c \in Call /\ c.pc = "entering" /\ c.doc = d /\ c.todo = call[t].todo \ {d}
      /\ c.floor = call[t].floor /\ c.task = call[t].task /\ c.all = call[t].all
  BY <1>1 DEF Call, Pc
<1> HIDE DEF c
<1>3. Others(t) /\ call'[t] = c /\ call' \in [Thread -> Call]
  BY <1>1, <1>2, CallAt
<1>4. TypeOK'
  <2>1. Typed'
    BY <1>1 DEF Core, TypeOK, Typed, tracker, timers, guards, durable
  <2> QED
    BY <1>3, <2>1, TypedNext
<1>5. ThreadInv(t)'
  <2>1. Promise(t) /\ Closing(t) /\ d # None /\ call[t].doc = None /\ None \notin Doc
    BY <1>1, AutosaveOK DEF Core, ThreadInv, Promise
  <2>2. call[t].floor = 0 /\ generation'[d] = generation[d] /\ generation[d] \in Nat
    BY <1>1, <2>1 DEF Promise, tracker, Core, TypeOK
  <2>3. Promise(t)'
    BY <1>2, <1>3, <2>1, <2>2 DEF Promise
  <2>4. Closing(t)'
    BY <1>1, <1>2, <1>3, <2>1 DEF Closing, Looping, guards, tracker, durable
  <2> QED
    BY <2>3, <2>4 DEF ThreadInv
<1>6. call[t].pc \notin Looping /\ call'[t].pc \notin Looping
  BY <1>1, <1>2, <1>3 DEF Looping
<1> QED
  BY <1>1, <1>3, <1>4, <1>5, <1>6, OutsideKeeps DEF guards, durable

\* The end of flush_all; the close reports what it achieved.
LEMMA EndAllKeeps ==
  ASSUME Core, NEW t \in Thread, EndAll(t)
  PROVE  Core'
<1>1. /\ call \in [Thread -> Call] /\ call[t] \in Call
      /\ call[t].pc = "next" /\ call[t].todo = {}
      /\ call' = [call EXCEPT ![t] = Quiet]
      /\ UNCHANGED <<tracker, idle, guards, durable>>
  BY DEF Core, TypeOK, EndAll
<1>2. Others(t) /\ call'[t] = Quiet /\ call' \in [Thread -> Call]
  BY <1>1, CallAt, NewCalls
<1>3. TypeOK'
  <2>1. closeResult' \in BOOLEAN /\ periodic' \in Timer
    BY <1>1 DEF EndAll, NextTick, Core, TypeOK, Call, Timer
  <2>2. Typed'
    BY <1>1, <2>1 DEF Core, TypeOK, Typed, tracker, guards, durable
  <2> QED
    BY <1>2, <2>2, TypedNext
<1>4. closeResult' = closeResult \/ CloseHonest'
  <2> SUFFICES ASSUME call[t].task = "close" PROVE CloseHonest'
    BY DEF EndAll
  <2>1. Closing(t) /\ Promise(t) /\ None \notin Doc
    BY AutosaveOK DEF Core, ThreadInv
  <2>2. closed /\ (call[t].all => \A d \in Doc : stored[d] = generation[d])
    BY <1>1, <2>1 DEF Closing, Promise
  <2>3. closeResult' = call[t].all
    BY DEF EndAll
  <2> QED
    BY <1>1, <2>2, <2>3 DEF CloseHonest, guards, tracker, durable
<1>5. /\ ThreadInv(t)'
      /\ call[t].pc \notin Looping /\ call'[t].pc \notin Looping
  BY <1>1, <1>2, QuietCall DEF Looping
<1> QED
  BY <1>1, <1>2, <1>3, <1>4, <1>5, OutsideKeeps DEF guards, durable

\* flush returns: what flush_all adds up stays true.
LEMMA ReturnKeeps ==
  ASSUME Core, NEW t \in Thread, Return(t)
  PROVE  Core'
<1> DEFINE c == [call[t] EXCEPT !.pc = "next", !.all = call[t].all /\ call[t].good,
                                !.good = TRUE, !.doc = None, !.gen = 0, !.floor = 0]
<1>1. /\ call \in [Thread -> Call] /\ call[t] \in Call /\ call[t].pc = "returned"
      /\ UNCHANGED <<tracker, timers, guards, durable, closeResult>>
  BY DEF Core, TypeOK, Return
<1>a. call[t].all \in BOOLEAN /\ call[t].good \in BOOLEAN
  BY <1>1 DEF Call
<1>2. /\ c \in Call /\ c.pc = "next" /\ c.doc = None /\ c.todo = call[t].todo
      /\ c.floor = 0 /\ c.task = call[t].task
      /\ c.all = (call[t].all /\ call[t].good)
  <2>1. (call[t].all /\ call[t].good) \in BOOLEAN
    BY <1>a
  <2> QED
    BY <1>1, <2>1 DEF Call, Pc
<1>3. call' = [call EXCEPT ![t] = IF call[t].task = "flush" THEN Quiet ELSE c]
  BY <1>1 DEF Return
<1> HIDE DEF c
<1>4. /\ Others(t) /\ call' \in [Thread -> Call]
      /\ call'[t] = IF call[t].task = "flush" THEN Quiet ELSE c
  BY <1>1, <1>2, <1>3, CallAt, NewCalls
<1>5. TypeOK'
  <2>1. Typed'
    BY <1>1 DEF Core, TypeOK, Typed, tracker, timers, guards, durable
  <2> QED
    BY <1>4, <2>1, TypedNext
<1>6. CASE call[t].task = "flush"
  <2>1. ThreadInv(t)' /\ call'[t].pc \notin Looping /\ call[t].pc \notin Looping
    BY <1>1, <1>4, <1>6, QuietCall DEF Looping
  <2> QED
    BY <1>1, <1>4, <1>5, <2>1, OutsideKeeps DEF guards, durable
<1>7. CASE call[t].task # "flush"
  <2>1. call'[t] = c
    BY <1>4, <1>7
  <2>2. Promise(t)'
    BY <1>2, <2>1 DEF Promise
  <2>3. Closing(t)'
    <3> SUFFICES ASSUME call[t].task = "close", call[t].all, call[t].good
                 PROVE  \A d \in Doc \ call[t].todo : stored[d] = generation[d]
      <4>1. call[t].task = "close" => closed
        BY DEF Core, ThreadInv, Closing
      <4> QED
        BY <1>1, <1>2, <2>1, <4>1 DEF Closing, Looping, tracker, guards, durable
    <3>1. Closing(t) /\ Promise(t)
      BY DEF Core, ThreadInv
    <3>2. /\ call[t].doc \in Doc /\ call[t].floor \in Nat
          /\ call[t].floor = generation[call[t].doc]
          /\ stored[call[t].doc] >= call[t].floor
      BY <1>1, <3>1 DEF Closing, Promise, Call
    <3>3. \A d \in Doc : /\ stored[d] <= generation[d]
                         /\ stored[d] \in Nat /\ generation[d] \in Nat
      BY DEF Core, TypeOK, DocInv, Snapshots
    <3>4. stored[call[t].doc] = generation[call[t].doc]
      BY <3>2, <3>3
    <3> QED
      BY <1>1, <3>1, <3>4 DEF Closing
  <2>4. call[t].pc \notin Looping /\ call'[t].pc \notin Looping
    BY <1>1, <1>2, <2>1 DEF Looping
  <2>5. ThreadInv(t)'
    BY <2>2, <2>3 DEF ThreadInv
  <2> QED
    BY <1>1, <1>4, <1>5, <2>4, <2>5, OutsideKeeps DEF guards, durable
<1> QED
  BY <1>6, <1>7

\* flush is refused, finds nothing to do, or opens a loop nobody else is in.
LEMMA EnterKeeps ==
  ASSUME Core, NEW t \in Thread, Enter(t)
  PROVE  Core'
<1>a. /\ call \in [Thread -> Call] /\ call[t] \in Call /\ call[t].pc = "entering"
      /\ call[t].doc \in Doc /\ call[t].doc # None /\ None \notin Doc
      /\ Promise(t) /\ Closing(t) /\ Typed
  BY AutosaveOK DEF Core, TypeOK, Typed, Enter, ThreadInv, Promise, Call
<1> PICK d \in Doc : d = call[t].doc
  BY <1>a
<1>b. /\ generation[d] \in Nat /\ stored[d] \in Nat
      /\ call[t].floor \in Nat /\ call[t].floor <= generation[d]
  BY <1>a DEF Promise, Core, TypeOK, Call
<1>c. UNCHANGED <<tracker, periodic, closed, durable, closeResult>> /\ EnterFlush(t, d)
  BY DEF Enter
<1>d. Typed'
  BY <1>a DEF Typed, Enter, EnterFlush, tracker, durable, Timer
<1>1. CASE d \in saving
  <2> DEFINE c == [call[t] EXCEPT !.pc = "returned", !.good = FALSE]
  <2>1. c \in Call /\ call' = [call EXCEPT ![t] = c] /\ saving' = saving
    BY <1>1, <1>a, <1>c DEF EnterFlush, Call, Pc
  <2>2. /\ c.pc = "returned" /\ c.good = FALSE /\ c.task = call[t].task
        /\ c.doc = call[t].doc /\ c.floor = call[t].floor
        /\ c.todo = call[t].todo /\ c.all = call[t].all
    BY <1>a DEF Call
  <2> HIDE DEF c
  <2>3. Others(t) /\ call'[t] = c /\ TypeOK'
    BY <1>a, <1>d, <2>1, CallAt, TypedNext
  <2>4. Promise(t)'
    BY <1>a, <1>b, <1>c, <2>2, <2>3 DEF Promise, tracker
  <2>5. Closing(t)'
    BY <1>a, <1>c, <2>2, <2>3 DEF Closing, Looping, tracker, durable
  <2>6. call[t].pc \notin Looping /\ call'[t].pc \notin Looping /\ ThreadInv(t)'
    BY <1>a, <2>2, <2>3, <2>4, <2>5 DEF Looping, ThreadInv
  <2> QED
    BY <1>c, <2>1, <2>3, <2>6, OutsideKeeps DEF durable
<1>2. CASE d \notin saving /\ ~Dirty(d)
  <2> DEFINE c == [call[t] EXCEPT !.pc = "returned", !.floor = generation[d]]
  <2>1. c \in Call /\ call' = [call EXCEPT ![t] = c] /\ saving' = saving
    BY <1>2, <1>a, <1>b, <1>c DEF EnterFlush, Call, Pc
  <2>2. /\ c.pc = "returned" /\ c.task = call[t].task
        /\ c.doc = call[t].doc /\ c.floor = generation[d]
        /\ c.todo = call[t].todo /\ c.all = call[t].all
    BY <1>a DEF Call
  <2> HIDE DEF c
  <2>3. Others(t) /\ call'[t] = c /\ TypeOK'
    BY <1>a, <1>d, <2>1, CallAt, TypedNext
  <2>4. stored[d] = generation[d]
    BY <1>2, CleanStored
  <2>5. Promise(t)'
    <3>1. /\ generation[d] <= generation'[d] /\ stored'[d] >= generation[d]
      BY <1>b, <1>c, <2>4 DEF tracker, durable
    <3> QED
      BY <1>a, <2>2, <2>3, <3>1 DEF Promise
  <2>6. Closing(t)'
    BY <1>a, <1>c, <2>2, <2>3 DEF Closing, Looping, tracker, durable
  <2>7. call[t].pc \notin Looping /\ call'[t].pc \notin Looping /\ ThreadInv(t)'
    BY <1>a, <2>2, <2>3, <2>5, <2>6 DEF Looping, ThreadInv
  <2> QED
    BY <1>c, <2>1, <2>3, <2>7, OutsideKeeps DEF durable
<1>3. CASE d \notin saving /\ Dirty(d)
  <2> DEFINE c == [call[t] EXCEPT !.pc = "reading", !.floor = generation[d]]
  <2>1. /\ c \in Call /\ call' = [call EXCEPT ![t] = c]
        /\ saving' = saving \cup {d}
    BY <1>3, <1>a, <1>b, <1>c DEF EnterFlush, Call, Pc, Looping
  <2>2. /\ c.pc = "reading" /\ c.task = call[t].task
        /\ c.doc = call[t].doc /\ c.floor = generation[d]
        /\ c.todo = call[t].todo /\ c.all = call[t].all
    BY <1>a DEF Call
  <2> HIDE DEF c
  <2>3. Others(t) /\ call'[t] = c /\ TypeOK'
    BY <1>a, <1>d, <2>1, CallAt, TypedNext
  <2>4. /\ DocInv(d) /\ stored[d] <= generation[d]
        /\ \A u \in Thread : ~InLoop(u, d)
    BY <1>3 DEF Core, DocInv, Serialized, Snapshots
  <2>5. InLoop(t, d)' /\ \A u \in Thread : u # t => ~InLoop(u, d)'
    BY <2>2, <2>3, <2>4 DEF InLoop, Others, Looping
  <2>6. Serialized(d)'
    BY <2>1, <2>5 DEF Serialized
  <2>7. Snapshots(d)'
    BY <1>c, <2>2, <2>3, <2>4, <2>5 DEF Snapshots, tracker, durable
  <2>8. Indicator(d)'
    BY <1>c, <2>4 DEF DocInv, Indicator, Dirty, tracker, durable
  <2>9. ASSUME NEW i \in Doc, i # d PROVE DocInv(i)'
    <3>1. SameDoc(i) /\ ~InLoop(t, i) /\ ~InLoop(t, i)'
      BY <1>a, <1>c, <2>1, <2>2, <2>3, <2>9 DEF SameDoc, InLoop, Looping, tracker, durable
    <3> QED
      BY <2>3, <3>1, OtherDoc DEF Core
  <2>10. Onward
    BY <1>c DEF Onward, tracker, durable, Core, TypeOK
  <2>11. ThreadInv(t)'
    <3>1. Promise(t)'
      <4>1. generation[d] <= generation'[d]
        BY <1>b, <1>c DEF tracker
      <4> QED
        BY <1>a, <2>2, <2>3, <4>1 DEF Promise
    <3>2. Closing(t)'
      BY <1>a, <1>c, <2>2, <2>3 DEF Closing, tracker, durable
    <3> QED
      BY <3>1, <3>2 DEF ThreadInv
  <2>12. \A i \in Doc : DocInv(i)'
    BY <2>6, <2>7, <2>8, <2>9 DEF DocInv
  <2> QED
    BY <1>c, <2>3, <2>10, <2>11, <2>12, StepKeeps
<1> QED
  BY <1>1, <1>2, <1>3

\* The loop is left; nobody is in one for the document then.
LEMMA LeaveKeeps ==
  ASSUME Core, NEW t \in Thread, LeaveSaving(t)
  PROVE  Core'
<1>a. call[t].pc = "leaving" /\ call[t].pc \in Looping /\ Goto(t, "judging")
  BY DEF LeaveSaving, Looping
<1> PICK d \in Doc : d = call[t].doc
  BY <1>a, LoopAlone
<1>1. /\ call \in [Thread -> Call] /\ "judging" \in Pc /\ Typed
      /\ generation[d] \in Nat /\ stored[d] \in Nat
      /\ DocInv(d) /\ InLoop(t, d) /\ d # None
      /\ \A u \in Thread : u # t => ~InLoop(u, d)
      /\ call[t].floor <= generation[d]
  BY <1>a, LoopAlone DEF Core, TypeOK, Typed, Pc
<1>2. /\ call' \in [Thread -> Call] /\ Others(t)
      /\ call'[t].pc = "judging" /\ call'[t].doc = call[t].doc
      /\ call'[t].task = call[t].task /\ call'[t].floor = call[t].floor
      /\ call'[t].todo = call[t].todo /\ call'[t].all = call[t].all
  BY <1>a, <1>1, GotoAt
<1>3. /\ saving' = saving \ {d}
      /\ UNCHANGED <<tracker, timers, pending, closed, durable, closeResult>>
  BY DEF LeaveSaving
<1>4. TypeOK'
  <2>1. Typed'
    BY <1>1, <1>3 DEF Typed, tracker, timers, durable
  <2> QED
    BY <1>2, <2>1, TypedNext
<1>5. \A u \in Thread : ~InLoop(u, d)'
  BY <1>1, <1>2 DEF Others, InLoop, Looping
<1>6. DocInv(d)'
  <2>1. Serialized(d)'
    BY <1>3, <1>5 DEF Serialized
  <2>2. /\ stored[d] <= generation[d] /\ status[d] # "saving"
        /\ status[d] = "none" => generation[d] = 0
        /\ status[d] = "saved" => stored[d] = generation[d]
        /\ Dirty(d) => stored[d] < generation[d]
    BY <1>a, LoopFacts
  <2>3. Snapshots(d)'
    BY <1>3, <1>5, <2>2 DEF Snapshots, tracker, durable
  <2>4. Indicator(d)'
    BY <1>3, <2>2 DEF Indicator, Dirty, tracker, durable
  <2> QED
    BY <2>1, <2>3, <2>4 DEF DocInv
<1>7. ASSUME NEW i \in Doc, i # d PROVE DocInv(i)'
  <2>1. SameDoc(i) /\ ~InLoop(t, i) /\ ~InLoop(t, i)'
    BY <1>2, <1>3, <1>7 DEF SameDoc, InLoop, tracker, durable
  <2> QED
    BY <1>2, <2>1, OtherDoc DEF Core
<1>8. Onward
  BY <1>3 DEF Onward, tracker, durable, Core, TypeOK
<1>9. ThreadInv(t)'
  <2>1. Promise(t)'
    BY <1>1, <1>2, <1>3 DEF Promise, tracker
  <2>2. Closing(t) /\ call[t].pc # "listing"
    BY <1>a DEF Core, ThreadInv
  <2>3. Closing(t)'
    BY <1>a, <1>2, <1>3, <2>2 DEF Closing, tracker, durable
  <2> QED
    BY <2>1, <2>3 DEF ThreadInv
<1> QED
  BY <1>2, <1>3, <1>4, <1>6, <1>7, <1>8, <1>9, StepKeeps

\* What flush returns.
LEMMA JudgeKeeps ==
  ASSUME Core, NEW t \in Thread, Judge(t)
  PROVE  Core'
<1>a. /\ call \in [Thread -> Call] /\ call[t] \in Call /\ call[t].pc = "judging"
      /\ call[t].doc \in Doc /\ call[t].doc # None
      /\ Promise(t) /\ Closing(t) /\ Typed
  BY DEF Core, TypeOK, Typed, Judge, ThreadInv, Promise, Call
<1> PICK d \in Doc : d = call[t].doc
  BY <1>a
<1> DEFINE g == call[t].good /\ ~Dirty(d)
           c == [call[t] EXCEPT !.pc = "returned", !.good = g]
<1>b. /\ generation[d] \in Nat /\ stored[d] \in Nat
      /\ call[t].floor \in Nat /\ call[t].floor <= generation[d]
  BY <1>a DEF Promise, Core, TypeOK, Call
<1>c. g \in BOOLEAN
  BY <1>a DEF Call
<1>1. /\ call' = [call EXCEPT ![t] = c]
      /\ UNCHANGED <<tracker, timers, guards, durable, closeResult>>
  BY <1>a DEF Judge
<1>2. g => stored[d] >= call[t].floor
  BY <1>b, CleanStored
<1> HIDE DEF g
<1>3. /\ c \in Call /\ c.pc = "returned" /\ c.good = g /\ c.task = call[t].task
      /\ c.doc = call[t].doc /\ c.floor = call[t].floor
      /\ c.todo = call[t].todo /\ c.all = call[t].all
  BY <1>a, <1>c DEF Call, Pc
<1> HIDE DEF c
<1>4. Others(t) /\ call'[t] = c /\ TypeOK'
  <2>1. Typed'
    BY <1>1, <1>a DEF Typed, tracker, timers, guards, durable
  <2> QED
    BY <1>1, <1>3, <1>a, <2>1, CallAt, TypedNext
<1>5. Promise(t)'
  BY <1>a, <1>b, <1>1, <1>2, <1>3, <1>4 DEF Promise, tracker, durable
<1>6. Closing(t)'
  BY <1>a, <1>1, <1>3, <1>4 DEF Closing, Looping, tracker, guards, durable
<1>7. call[t].pc \notin Looping /\ call'[t].pc \notin Looping /\ ThreadInv(t)'
  BY <1>a, <1>3, <1>4, <1>5, <1>6 DEF Looping, ThreadInv
<1> QED
  BY <1>1, <1>4, <1>7, OutsideKeeps DEF guards, durable

-----------------------------------------------------------------------------
(* The theorems.                                                            *)

\* The invariant is inductive.
LEMMA CoreStep == Core /\ [Next]_vars => Core'
<1> SUFFICES ASSUME Core, [Next]_vars PROVE Core'
  OBVIOUS
<1>1. ASSUME NEW t \in Thread, Run(t) PROVE Core'
  BY <1>1, ArmKeeps, ListKeeps, NextDocKeeps, EndAllKeeps, EnterKeeps, RoundKeeps,
     UnsavedKeeps, SaveKeeps, MarkKeeps, LeaveKeeps, JudgeKeeps, ReturnKeeps DEF Run
<1>2. CASE UNCHANGED vars
  BY <1>2 DEF vars, tracker, timers, guards, durable, Core, TypeOK, CloseHonest, DocInv, Serialized, Snapshots, Indicator, InLoop, Dirty, ThreadInv, Promise, Closing
<1> QED
  BY <1>1, <1>2, RequestKeeps, FireKeeps, OutsiderKeeps DEF Next

\* Every step keeps the chain of ticks.
LEMMA TickStep == Core /\ Ticks /\ [Next]_vars => Ticks'
<1> SUFFICES ASSUME Core, Ticks, [Next]_vars PROVE Ticks'
  OBVIOUS
<1> USE DEF tracker, timers, guards, durable
<1>1. TypeOK
  BY DEF Core
<1>2. Quiet.task = "none" /\ Quiet.pc = "idle"
  BY DEF Quiet
<1>3. ASSUME NEW t \in Thread, \A u \in Thread : u # t => call'[u] = call[u],
             call'[t].task = call[t].task,
             call[t].task = "periodic" => call'[t].pc \notin {"idle", "arming"},
             UNCHANGED <<periodic, closed>>
      PROVE  Ticks'
  BY <1>3 DEF Ticks, Ticking
<1>4. ASSUME NEW t \in Thread, \A u \in Thread : u # t => call'[u] = call[u],
             call[t].task # "periodic", call'[t].task # "periodic",
             UNCHANGED <<periodic, closed>>
      PROVE  Ticks'
  BY <1>4 DEF Ticks, Ticking
<1>5. ASSUME NEW t \in Thread, NEW c, Begin(t, c)
      PROVE  /\ \A u \in Thread : u # t => call'[u] = call[u]
             /\ call'[t] = c /\ call[t].task # "periodic"
  BY <1>1, <1>5 DEF Begin, TypeOK, Ticks, Ticking
<1>6. ASSUME NEW t \in Thread, NEW pc \in Pc \ {"idle", "arming"}, Goto(t, pc)
      PROVE  /\ \A u \in Thread : u # t => call'[u] = call[u]
             /\ call'[t].task = call[t].task
             /\ call'[t].pc \notin {"idle", "arming"}
  BY <1>1, <1>6, GotoAt DEF TypeOK, Others
<1>7. ASSUME NEW t \in Thread, NEW c, call[t].task = c.task, c.pc \notin {"idle", "arming"},
             call' = [call EXCEPT ![t] = c], UNCHANGED <<periodic, closed>>
      PROVE  Ticks'
  <2>1. call'[t] = c /\ \A u \in Thread : u # t => call'[u] = call[u]
    BY <1>1, <1>7 DEF TypeOK
  <2> QED
    BY <1>3, <1>7, <2>1
<1>8. ASSUME NEW t \in Thread, Request(t) PROVE Ticks'
  <2>1. CASE FlushAll(t) \/ \E d \in Doc : Edit(t, d) \/ Flush(t, d)
    <3>1. PICK c : Begin(t, c) /\ c.task # "periodic"
      <4>1. \A d \in Doc : [Quiet EXCEPT !.pc = "arming", !.task = "edit", !.doc = d].task = "edit"
        BY DEF Quiet
      <4>2. AllOf("all").task = "all" /\ \A d \in Doc : FlushOf(d).task = "flush"
        BY DEF AllOf, FlushOf, Quiet
      <4> QED
        BY <2>1, <4>1, <4>2 DEF FlushAll, Edit, Flush
    <3>2. UNCHANGED <<periodic, closed>>
      BY <2>1 DEF FlushAll, Edit, Flush
    <3> QED
      BY <1>4, <1>5, <3>1, <3>2
  <2>2. CASE Close(t)
    <3>1. AllOf("close").task = "close"
      BY DEF AllOf, Quiet
    <3>2. /\ \A u \in Thread : u # t => call'[u] = call[u]
          /\ call[t].task # "periodic" /\ call'[t].task # "periodic"
      BY <1>5, <2>2, <3>1 DEF Close
    <3>3. closed' /\ periodic' = IF periodic = "armed" THEN "none" ELSE periodic
      BY <2>2 DEF Close
    <3> QED
      BY <3>2, <3>3 DEF Ticks, Ticking
  <2> QED
    BY <1>8, <2>1, <2>2 DEF Request
<1>9. ASSUME NEW t \in Thread, Fire(t) PROVE Ticks'
  <2>1. ASSUME NEW d \in Doc, IdleFires(t, d) PROVE Ticks'
    <3>1. FlushOf(d).task = "flush"
      BY DEF FlushOf, Quiet
    <3> QED
      BY <1>4, <1>5, <2>1, <3>1 DEF IdleFires
  <2>2. CASE PeriodicFires(t)
    <3>1. AllOf("periodic").task = "periodic" /\ AllOf("periodic").pc = "listing"
      BY DEF AllOf, Quiet
    <3>2. /\ \A u \in Thread : u # t => call'[u] = call[u]
          /\ call'[t] = AllOf("periodic")
      BY <1>5, <2>2 DEF PeriodicFires
    <3>3. periodic = "armed" /\ periodic' = "spent" /\ closed' = closed
      BY <2>2 DEF PeriodicFires
    <3> QED
      BY <3>1, <3>2, <3>3 DEF Ticks, Ticking
  <2> QED
    BY <1>9, <2>1, <2>2 DEF Fire
<1>10. ASSUME NEW t \in Thread, EndAll(t) PROVE Ticks'
  <2>1. call'[t] = Quiet /\ \A u \in Thread : u # t => call'[u] = call[u]
    BY <1>1, <1>10 DEF EndAll, TypeOK
  <2>2. periodic' = NextTick(t) /\ closed' = closed
    BY <1>10 DEF EndAll
  <2>3. CASE Ticking(t)
    <3>1. periodic' = IF closed THEN "none" ELSE "armed"
      BY <2>2, <2>3 DEF NextTick, Ticking
    <3>2. \A u \in Thread : ~Ticking(u)'
      BY <1>2, <2>1, <2>3 DEF Ticks, Ticking
    <3> QED
      BY <2>2, <2>3, <3>1, <3>2 DEF Ticks
  <2>4. CASE ~Ticking(t)
    <3>1. periodic' = periodic
      BY <2>2, <2>4 DEF NextTick, Ticking
    <3> QED
      BY <1>2, <1>4, <2>1, <2>2, <2>4, <3>1 DEF Ticking
  <2> QED
    BY <2>3, <2>4
<1>11. ASSUME NEW t \in Thread, Arm(t) PROVE Ticks'
  BY <1>1, <1>2, <1>4, <1>11 DEF Arm, Ticks, Ticking, TypeOK
<1>12. ASSUME NEW t \in Thread, Return(t) PROVE Ticks'
  <2>1. CASE call[t].task = "flush"
    <3>1. call'[t] = Quiet /\ \A u \in Thread : u # t => call'[u] = call[u]
      BY <1>1, <1>12, <2>1 DEF Return, TypeOK
    <3> QED
      BY <1>2, <1>4, <1>12, <2>1, <3>1 DEF Return
  <2>2. CASE call[t].task # "flush"
    <3> DEFINE c == [call[t] EXCEPT !.pc = "next", !.all = call[t].all /\ call[t].good,
                                    !.good = TRUE, !.doc = None, !.gen = 0, !.floor = 0]
    <3>1. c.task = call[t].task /\ c.pc = "next"
      BY <1>1 DEF TypeOK, Call
    <3>2. call' = [call EXCEPT ![t] = c] /\ UNCHANGED <<periodic, closed>>
      BY <1>12, <2>2 DEF Return
    <3> HIDE DEF c
    <3> QED
      BY <1>7, <3>1, <3>2
  <2> QED
    BY <2>1, <2>2
<1>13. ASSUME NEW t \in Thread, UNCHANGED <<periodic, closed>>,
              \E pc \in Pc \ {"idle", "arming"} : Goto(t, pc)
       PROVE  Ticks'
  BY <1>3, <1>6, <1>13
<1>14. ASSUME NEW t \in Thread,
              \/ MarkSaving(t) \/ SaveSucceeds(t) \/ SaveConflicts(t)
              \/ SaveRaises(t) \/ MarkSaved(t) \/ Drain(t) \/ CheckLatest(t)
              \/ LeaveSaving(t)
       PROVE  Ticks'
  <2>1. {"saving", "saved", "failed", "draining", "reading", "latest", "leaving", "judging"}
          \subseteq Pc \ {"idle", "arming"}
    BY DEF Pc, Looping
  <2> QED
    BY <1>13, <1>14, <2>1 DEF MarkSaving, SaveSucceeds, SaveConflicts, SaveRaises, MarkSaved, Drain, CheckLatest, LeaveSaving
<1>15. ASSUME NEW t \in Thread, LoadVersion(t) PROVE Ticks'
  BY <1>15 DEF LoadVersion, Ticks, Ticking
<1>16. ASSUME NEW t \in Thread,
              \/ List(t) \/ (\E d \in Doc : NextDoc(t, d)) \/ Enter(t)
              \/ ReadState(t) \/ MarkFailed(t) \/ Judge(t)
       PROVE  Ticks'
  <2>1. call[t] \in Call
    BY <1>1 DEF TypeOK
  <2>2. /\ call'[t].task = call[t].task /\ call'[t].pc \notin {"idle", "arming"}
        /\ \A u \in Thread : u # t => call'[u] = call[u]
    <3>1. CASE List(t)
      BY <1>1, <2>1, <3>1 DEF List, Call, TypeOK
    <3>2. CASE \E d \in Doc : NextDoc(t, d)
      BY <1>1, <2>1, <3>2 DEF NextDoc, Call, TypeOK
    <3>3. CASE Enter(t)
      BY <1>1, <2>1, <3>3 DEF Enter, EnterFlush, Call, TypeOK
    <3>4. CASE ReadState(t)
      BY <1>1, <2>1, <3>4 DEF ReadState, Goto, Call, TypeOK
    <3>5. CASE MarkFailed(t)
      BY <1>1, <2>1, <3>5 DEF MarkFailed, Call, TypeOK
    <3>6. CASE Judge(t)
      BY <1>1, <2>1, <3>6 DEF Judge, Call, TypeOK
    <3> QED
      BY <1>16, <3>1, <3>2, <3>3, <3>4, <3>5, <3>6
  <2>3. UNCHANGED <<periodic, closed>>
    BY <1>16 DEF List, NextDoc, Enter, EnterFlush, ReadState, MarkFailed, Judge
  <2> QED
    BY <1>3, <2>2, <2>3
<1>17. ASSUME NEW d \in Doc, ForeignWrite(d) \/ Track(d) PROVE Ticks'
  BY <1>17 DEF ForeignWrite, Track, Ticks, Ticking
<1>18. CASE UNCHANGED vars
  BY <1>18 DEF vars, Ticks, Ticking
<1> QED
  BY <1>8, <1>9, <1>10, <1>11, <1>12, <1>14, <1>15, <1>16, <1>17, <1>18 DEF Next, Run

\* The inductive invariant survives every step.
LEMMA InvStep == IInv /\ [Next]_vars => IInv'
BY CoreStep, TickStep DEF IInv

\* Documents, loops, the tracker and the repository agree in every reachable
\* state.
THEOREM Invariance == Spec => []IInv
<1>1. Init => IInv
  <2> SUFFICES ASSUME Init PROVE IInv
    OBVIOUS
  <2>1. call = [t \in Thread |-> Quiet] /\ Quiet \in Call
    BY NewCalls DEF Init
  <2>2. TypeOK
    <3>1. call \in [Thread -> Call] /\ known \in [Doc -> Nat \cup {None}]
      BY <2>1 DEF Init
    <3>2. periodic \in Timer /\ closed \in BOOLEAN /\ closeResult \in BOOLEAN
      BY DEF Init, Timer
    <3> QED
      BY <3>1, <3>2 DEF Init, TypeOK, Status, Timer
  <2>3. \A d \in Doc : DocInv(d)
    BY <2>1 DEF Init, DocInv, Serialized, Snapshots, Indicator, InLoop, Looping, Dirty, Quiet
  <2>4. \A t \in Thread : ThreadInv(t)
    BY <2>1 DEF ThreadInv, Promise, Closing, Quiet
  <2>5. CloseHonest
    BY DEF Init, CloseHonest
  <2>6. Ticks
    <3>1. periodic = IF Periodic THEN "armed" ELSE "none"
      BY DEF Init
    <3>2. \A t \in Thread : ~Ticking(t)
      BY <2>1 DEF Ticking, Quiet
    <3> QED
      BY <3>1, <3>2 DEF Init, Ticks
  <2> QED
    BY <2>2, <2>3, <2>4, <2>5, <2>6 DEF IInv, Core
<1> QED
  BY <1>1, InvStep, PTL DEF Spec

\* Every variable of the coordinator keeps its type.
THEOREM Typing == Spec => []TypeOK
<1>1. IInv => TypeOK
  BY DEF IInv, Core
<1> QED
  BY <1>1, Invariance, PTL

\* What is shown as saved is stored, for any number of threads and edits.
THEOREM SavedMeansStored == Spec => []SavedIsStored
<1>1. IInv => SavedIsStored
  BY DEF IInv, Core, DocInv, Indicator, SavedIsStored
<1> QED
  BY <1>1, Invariance, PTL

\* What is shown as being saved is being saved.
THEOREM SavingMeansSaving == Spec => []SavingIsReal
<1>1. IInv => SavingIsReal
  BY DEF IInv, Core, DocInv, Indicator, SavingIsReal
<1> QED
  BY <1>1, Invariance, PTL

\* A flush that returns True stored every edit made before it was called.
THEOREM FlushKeepsItsWord == Spec => []FlushHonest
<1>1. IInv => FlushHonest
  BY DEF IInv, Core, ThreadInv, Promise, FlushHonest
<1> QED
  BY <1>1, Invariance, PTL

\* A close that returns True left no edit behind, and never will have.
THEOREM CloseKeepsItsWord == Spec => []CloseHonest
<1>1. IInv => CloseHonest
  BY DEF IInv, Core
<1> QED
  BY <1>1, Invariance, PTL

\* The chain of ticks breaks at the close only.
THEOREM LookStaysDue == Spec => []LookDue
<1>1. IInv => LookDue
  <2> SUFFICES ASSUME IInv, Periodic, ~closed, periodic # "armed"
               PROVE  \E t \in Thread : Ticking(t)
    BY DEF IInv, Ticks, LookDue
  <2>1. periodic = "spent"
    BY DEF IInv, Core, TypeOK, Ticks, Timer
  <2> QED
    BY <2>1 DEF IInv, Ticks
<1> QED
  BY <1>1, Invariance, PTL

\* No save overwrites a newer generation, or stores one twice.
THEOREM LatestContentWins == Spec => SavesInOrder
<1> DEFINE Rises(t) == stored'[call[t].doc] > stored[call[t].doc]
<1>1. ASSUME Core, NEW t \in Thread, SaveSucceeds(t) PROVE Rises(t)
  <2>1. call[t].pc = "saving" /\ call[t].pc \in Looping
    BY <1>1 DEF SaveSucceeds, Looping
  <2> PICK d \in Doc : d = call[t].doc
    BY <1>1, <2>1, LoopAlone
  <2>2. stored[d] < call[t].gen /\ stored[d] \in Nat /\ call[t].gen \in Nat
    BY <1>1, <2>1, LoopFacts, LoopAlone
  <2>3. stored'[d] = call[t].gen
    BY <1>1 DEF SaveSucceeds, Core, TypeOK
  <2> QED
    BY <2>2, <2>3
<1>2. IInv /\ [Next]_vars => [\A t \in Thread : SaveSucceeds(t) => Rises(t)]_vars
  BY <1>1 DEF IInv
<1> QED
  BY <1>2, Invariance, PTL DEF Spec, SavesInOrder
=============================================================================
