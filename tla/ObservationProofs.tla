------------------------- MODULE ObservationProofs --------------------------
(***************************************************************************)
(* Proofs about what the sensor records: that every event is in the log or *)
(* counted lost, that no loss is counted that did not happen, and that the *)
(* process an event names is the one that decided.                         *)
(***************************************************************************)
EXTENDS EventPipeline, ProcTable, WellFoundedInduction, TLAPS

(***************************************************************************)
(* Proof that the loss records of the log are true, for buffers of any     *)
(* size and any number of events, starts, replacements, kills and faults.  *)
(*                                                                         *)
(* Each loss record follows a chain of copies: what the log claims is at   *)
(* most what the observer has recorded, that at most the counter it was    *)
(* copied from, and the counters only grow.  ChainInv says so of the       *)
(* kernel's counter, also of a set that is being replaced, and DropInv of  *)
(* the channel's.                                                          *)
(***************************************************************************)
Count == 0..MaxEmit
Kernel == [ring : Int, lost : Count]
OldSet == [on : BOOLEAN, ring : Int, lost : Count, before : Count]
DrainState == [pc : {"gone", "wait", "pass"}, batch : Nat, stopping : BOOLEAN, late : BOOLEAN]
WorkerState == [pc : {"gone", "recv", "records", "drop"}, left : Int,
                budget : {"none", "running", "spent"}]
Stats == [drained : Count, userspace_drops : Count, handled : Count]
Log == [events : Count, kernel : Count, channel : Count]

TypeInv ==
  /\ setting \in Settings
  /\ kernel \in Kernel
  /\ old \in OldSet
  /\ kernel_losses \in Count /\ stop \in BOOLEAN
  /\ main \in {"down", "attach", "oldring", "up", "join", "stopped"}
  /\ drain \in DrainState
  /\ channel \in Seq(Nat)
  /\ worker \in WorkerState
  /\ stats \in Stats
  /\ recorded \in [kernel : Count, channel : Count]
  /\ log \in Log
  /\ DOMAIN ghost = {"emitted", "ended", "before", "runs", "replaced", "kills", "faults"}
  /\ ghost.before \in Count /\ ghost.faults \in Nat

\* While an observer is open.
Open == main \in {"oldring", "up", "join", "stopped"}

\* When the threads run.
ThreadInv ==
  /\ main \notin {"up", "join"} => worker.pc = "gone"
  /\ main \notin {"up", "join"} \/ worker.pc \in {"drop", "gone"} => drain.pc = "gone"

\* From the log to the kernel's counter.
ChainInv ==
  /\ ghost.before + log.kernel <= kernel.lost
  /\ Open => ghost.before + log.kernel <= recorded.kernel
  /\ Open => recorded.kernel <= kernel_losses /\ kernel_losses <= kernel.lost
  /\ old.on => old.before <= old.lost

\* From the log to the channel's drops.
DropInv ==
  /\ log.channel <= stats.userspace_drops
  /\ main = "attach" => log.channel = 0 /\ stats.userspace_drops = 0
  /\ Open => log.channel <= recorded.channel /\ recorded.channel <= stats.userspace_drops
  /\ Open /\ ghost.faults = 0 => log.channel = recorded.channel
  /\ main \in {"up", "join", "stopped"} /\ worker.pc = "gone" => recorded.channel = stats.userspace_drops

IInv == TypeInv /\ ThreadInv /\ ChainInv /\ DropInv
-----------------------------------------------------------------------------
\* A counter grows by what is added, up to its bound.
LEMMA PlusFacts ==
  ASSUME TypeInv, NEW c \in Count, NEW n \in Nat
  PROVE  /\ Plus(c, n) \in Count /\ c <= Plus(c, n) /\ Plus(c, n) <= c + n
         /\ c + n \in Count => Plus(c, n) = c + n
  <1> USE DEF Kernel, OldSet, DrainState, WorkerState, Stats, Log
  <1> DEFINE P(x) == x \in {c + n, MaxEmit} /\ \A y \in {c + n, MaxEmit} : x <= y
  <1>1. MaxEmit \in Nat
    BY PipelineAssumption DEF TypeInv, MaxEmit
  <1>2. c \in Nat /\ c <= MaxEmit /\ c + n \in Nat
    BY <1>1 DEF Count
  <1>3. \E x : P(x)
    <2>1. CASE c + n <= MaxEmit
      <3>1. P(c + n)
        BY <2>1, <1>1, <1>2
      <3> QED BY <3>1
    <2>2. CASE ~(c + n <= MaxEmit)
      <3>1. P(MaxEmit)
        BY <2>2, <1>1, <1>2
      <3> QED BY <3>1
    <2> QED BY <2>1, <2>2
  <1>4. Plus(c, n) = CHOOSE x : P(x)
    BY Zenon DEF Plus, Min
  <1>5. P(Plus(c, n))
    BY <1>3, <1>4, Zenon
  <1> QED BY <1>1, <1>2, <1>5 DEF Count

\* How far a counter is ahead.
LEMMA Ahead ==
  ASSUME NEW x \in Int
  PROVE  Max({0, x}) = IF x >= 0 THEN x ELSE 0
  <1> DEFINE P(m) == m \in {0, x} /\ \A y \in {0, x} : m >= y
  <1>1. \E m : P(m)
    <2>1. CASE x >= 0
      <3>1. P(x)
        BY <2>1
      <3> QED BY <3>1
    <2>2. CASE ~(x >= 0)
      <3>1. P(0)
        BY <2>2
      <3> QED BY <3>1
    <2> QED BY <2>1, <2>2
  <1>2. Max({0, x}) = CHOOSE m : P(m)
    BY Zenon DEF Max
  <1>3. P(Max({0, x}))
    BY <1>1, <1>2, Zenon
  <1> QED BY <1>3

\* The bound of the counters is the behaviour's.
LEMMA CountFacts ==
  ASSUME TypeInv
  PROVE  MaxEmit \in Nat /\ Count \subseteq Nat /\ 0 \in Count
  <1>1. MaxEmit \in Nat
    BY PipelineAssumption DEF TypeInv, MaxEmit
  <1> QED BY <1>1 DEF Count

\* The bound does not change, and neither do the types.
LEMMA TypesStay ==
  ASSUME TypeInv, UNCHANGED setting
  PROVE  /\ Count' = Count /\ Kernel' = Kernel /\ OldSet' = OldSet /\ DrainState' = DrainState
         /\ WorkerState' = WorkerState /\ Stats' = Stats /\ Log' = Log
  BY DEF Count, MaxEmit, Kernel, OldSet, DrainState, WorkerState, Stats, Log

\* The updates of the steps keep a record what it is.
LEMMA Updates ==
  /\ \A k \in Kernel : /\ k.ring \in Int /\ k.lost \in Count
                       /\ \A i \in Int : [k EXCEPT !.ring = i] \in Kernel /\ [k EXCEPT !.ring = i].lost = k.lost
                       /\ \A c \in Count : [k EXCEPT !.lost = c] \in Kernel /\ [k EXCEPT !.lost = c].lost = c
  /\ \A o \in OldSet : /\ o.ring \in Int /\ o.lost \in Count /\ o.before \in Count
                       /\ \A i \in Int : LET n == [o EXCEPT !.ring = i]
                                         IN  n \in OldSet /\ n.lost = o.lost /\ n.before = o.before /\ n.on = o.on
                       /\ \A c \in Count : LET n == [o EXCEPT !.lost = c]
                                           IN  n \in OldSet /\ n.lost = c /\ n.before = o.before /\ n.on = o.on
  BY Zenon DEF Kernel, OldSet

\* The initial state satisfies the invariant.
LEMMA InitIInv == Init => IInv
  <1> SUFFICES ASSUME Init PROVE IInv OBVIOUS
  <1> USE DEF Kernel, OldSet, DrainState, WorkerState, Stats, Log
  <1>1. MaxEmit \in Nat /\ 0 \in Count
    BY PipelineAssumption DEF Init, MaxEmit, Count
  <1>2. TypeInv
    <2>1. kernel \in Kernel /\ old \in OldSet /\ drain \in DrainState /\ worker \in WorkerState
      BY <1>1 DEF Init, NoOld, DrainAt, WorkerAt
    <2>2. stats \in Stats /\ log \in Log /\ recorded \in [kernel : Count, channel : Count]
      BY <1>1 DEF Init
    <2>3. /\ DOMAIN ghost = {"emitted", "ended", "before", "runs", "replaced", "kills", "faults"}
          /\ ghost.before = 0 /\ ghost.faults = 0 /\ channel \in Seq(Nat)
      BY DEF Init
    <2>4. /\ setting \in Settings /\ kernel_losses = 0 /\ main = "down" /\ stop \in BOOLEAN
      BY Zenon DEF Init
    <2> HIDE DEF Kernel, OldSet, DrainState, WorkerState, Stats, Log
    <2> QED BY <1>1, <2>1, <2>2, <2>3, <2>4 DEF TypeInv
  <1>3. ThreadInv /\ ChainInv /\ DropInv
    BY DEF Init, ThreadInv, ChainInv, DropInv, NoOld, DrainAt, WorkerAt, Open
  <1> QED BY <1>2, <1>3 DEF IInv

-----------------------------------------------------------------------------
\* rk_emit: a loss counter only grows.
LEMMA EmitStep ==
  ASSUME IInv, rk_emit \/ rk_emit_old
  PROVE  IInv'
  <1> USE DEF IInv, Kernel, OldSet, DrainState, WorkerState, Stats, Log
  <1>0. 1 \in Nat /\ Count' = Count /\ Count \subseteq Nat
    BY CountFacts DEF Count, MaxEmit, rk_emit, rk_emit_old
  <1>1. /\ DOMAIN ghost' = DOMAIN ghost /\ ghost'.before = ghost.before /\ ghost'.faults = ghost.faults
    BY DEF rk_emit, rk_emit_old, Emitted, TypeInv
  <1>2. CASE rk_emit
    <2>1. kernel' \in Kernel /\ kernel'.lost >= kernel.lost
      <3>1. Plus(kernel.lost, 1) \in Count /\ Plus(kernel.lost, 1) >= kernel.lost
        BY PlusFacts, <1>0, Zenon DEF TypeInv
      <3>2. kernel \in Kernel /\ kernel.ring \in Int /\ kernel.lost \in Nat
        BY CountFacts DEF TypeInv
      <3>3. kernel.ring + 1 \in Int /\ kernel.lost >= kernel.lost
        BY <3>2
      <3>4. \/ kernel' = [kernel EXCEPT !.ring = kernel.ring + 1]
            \/ kernel' = [kernel EXCEPT !.lost = Plus(kernel.lost, 1)]
        BY <1>2 DEF rk_emit
      <3> HIDE DEF Kernel, OldSet, IInv
      <3>5. CASE kernel' = [kernel EXCEPT !.ring = kernel.ring + 1]
        BY <3>2, <3>3, <3>5, Updates, Zenon
      <3>6. CASE kernel' = [kernel EXCEPT !.lost = Plus(kernel.lost, 1)]
        BY <3>1, <3>2, <3>6, Updates, Zenon
      <3> QED BY <3>4, <3>5, <3>6
    <2>2. TypeInv'
      BY <1>0, <1>1, <1>2, <2>1 DEF rk_emit, TypeInv, threads, observer
    <2>3. kernel.lost \in Nat /\ kernel'.lost \in Nat /\ kernel_losses \in Nat
            /\ ghost.before \in Nat /\ log.kernel \in Nat
      BY <1>0, <2>1, Zenon DEF TypeInv
    <2>4. ThreadInv' /\ ChainInv' /\ DropInv'
      BY <1>1, <1>2, <2>1, <2>3 DEF rk_emit, threads, observer, ThreadInv, ChainInv, DropInv, Open
    <2> QED BY <2>2, <2>4
  <1>3. CASE rk_emit_old
    <2>1. /\ old' \in OldSet
          /\ old'.lost >= old.lost /\ old'.before = old.before /\ old'.on = old.on
      <3>1. Plus(old.lost, 1) \in Count /\ Plus(old.lost, 1) >= old.lost
        BY PlusFacts, <1>0, Zenon DEF TypeInv
      <3>2. old \in OldSet /\ old.ring \in Int /\ old.lost \in Nat
        BY CountFacts DEF TypeInv
      <3>3. old.ring + 1 \in Int /\ old.lost >= old.lost
        BY <3>2
      <3>4. \/ old' = [old EXCEPT !.ring = old.ring + 1]
            \/ old' = [old EXCEPT !.lost = Plus(old.lost, 1)]
        BY <1>3 DEF rk_emit_old
      <3> HIDE DEF Kernel, OldSet, IInv
      <3>5. CASE old' = [old EXCEPT !.ring = old.ring + 1]
        BY <3>2, <3>3, <3>5, Updates, Zenon
      <3>6. CASE old' = [old EXCEPT !.lost = Plus(old.lost, 1)]
        BY <3>1, <3>2, <3>6, Updates, Zenon
      <3> QED BY <3>4, <3>5, <3>6
    <2>2. TypeInv'
      BY <1>0, <1>1, <1>3, <2>1 DEF rk_emit_old, TypeInv, threads, observer
    <2>3. old.lost \in Nat /\ old'.lost \in Nat /\ old.before \in Nat
      BY <1>0, <2>1, Zenon DEF TypeInv
    <2>4. ThreadInv' /\ ChainInv' /\ DropInv'
      BY <1>1, <1>3, <2>1, <2>3 DEF rk_emit_old, threads, observer, ThreadInv, ChainInv, DropInv, Open
    <2> QED BY <2>2, <2>4
  <1> QED BY <1>2, <1>3

\* What the observer writes for a record or a failed one claims no loss.
LEMMA RecordFacts ==
  ASSUME TypeInv, Handle(1), record
  PROVE  /\ stats' \in Stats
         /\ log' \in Log
         /\ stats'.userspace_drops = stats.userspace_drops
         /\ log'.kernel = log.kernel /\ log'.channel = log.channel
         /\ DOMAIN ghost' = DOMAIN ghost /\ ghost'.before = ghost.before
         /\ ghost'.faults \in Nat /\ (ghost'.faults = 0 => ghost.faults = 0)
  <1> USE DEF Kernel, OldSet, DrainState, WorkerState, Stats, Log
  <1>1. Plus(stats.handled, 1) \in Count /\ Plus(log.events, 1) \in Count
    BY PlusFacts DEF TypeInv
  <1>2. stats' \in Stats /\ stats'.userspace_drops = stats.userspace_drops
    BY <1>1 DEF TypeInv, Handle
  <1>3. log' \in Log /\ log'.kernel = log.kernel /\ log'.channel = log.channel
    BY <1>1 DEF TypeInv, record
  <1>4. /\ DOMAIN ghost' = DOMAIN ghost /\ ghost'.before = ghost.before
        /\ ghost'.faults \in Nat /\ (ghost'.faults = 0 => ghost.faults = 0)
    BY DEF TypeInv, record, Fault
  <1> QED BY <1>2, <1>3, <1>4

\* record_losses: both counters count as recorded, and the log claims no more than that.
LEMMA LossFacts ==
  ASSUME IInv, Open, record_losses
  PROVE  /\ recorded' \in [kernel : Count, channel : Count]
         /\ log' \in Log
         /\ DOMAIN ghost' = DOMAIN ghost /\ ghost'.before = ghost.before /\ ghost'.faults \in Nat
         /\ recorded'.kernel = kernel_losses /\ recorded'.channel = stats.userspace_drops
         /\ ghost.before + log'.kernel <= recorded'.kernel
         /\ log'.channel <= recorded'.channel
         /\ ghost'.faults = 0 => ghost.faults = 0 /\ log'.channel = recorded'.channel
  <1> USE DEF Kernel, OldSet, DrainState, WorkerState, Stats, Log
  <1> DEFINE dk == kernel_losses - recorded.kernel
             dc == stats.userspace_drops - recorded.channel
  <1>1. /\ kernel_losses \in Nat /\ recorded.kernel \in Nat /\ recorded.channel \in Nat
        /\ stats.userspace_drops \in Nat /\ log.kernel \in Nat /\ log.channel \in Nat
        /\ ghost.before \in Nat /\ log.kernel \in Count /\ log.channel \in Count
    BY CountFacts DEF IInv, TypeInv
  <1>2. dk \in Nat /\ dc \in Nat
    BY <1>1 DEF IInv, ChainInv, DropInv
  <1>3. Max({0, dk}) = dk /\ Max({0, dc}) = dc
    BY <1>2, Ahead
  <1>4. /\ \/ dk = 0 /\ dc = 0 /\ UNCHANGED <<log, ghost>> /\ recorded' = recorded
           \/ /\ recorded' = [kernel |-> kernel_losses, channel |-> stats.userspace_drops]
              /\ \/ log' = [log EXCEPT !.kernel = Plus(@, dk), !.channel = Plus(@, dc)] /\ ghost' = ghost
                 \/ Fault /\ log' = log
    BY <1>3, Zenon DEF record_losses
  <1>5. CASE dk = 0 /\ dc = 0 /\ UNCHANGED <<log, ghost>> /\ recorded' = recorded
    BY <1>5, <1>1 DEF IInv, TypeInv, ChainInv, DropInv
  <1>6. CASE /\ recorded' = [kernel |-> kernel_losses, channel |-> stats.userspace_drops]
             /\ log' = [log EXCEPT !.kernel = Plus(@, dk), !.channel = Plus(@, dc)] /\ ghost' = ghost
    <2>1. /\ Plus(log.kernel, dk) \in Count /\ Plus(log.kernel, dk) <= log.kernel + dk
          /\ Plus(log.channel, dc) \in Count /\ Plus(log.channel, dc) <= log.channel + dc
          /\ log.channel + dc \in Count => Plus(log.channel, dc) = log.channel + dc
      BY <1>1, <1>2, PlusFacts, Zenon DEF IInv
    <2>2. /\ log' \in Log
          /\ log'.kernel = Plus(log.kernel, dk) /\ log'.channel = Plus(log.channel, dc)
      BY <1>6, <2>1, Zenon DEF IInv, TypeInv
    <2>3. recorded' \in [kernel : Count, channel : Count] /\ stats.userspace_drops \in Count
      BY <1>6 DEF IInv, TypeInv
    <2>4. Plus(log.kernel, dk) \in Nat /\ Plus(log.channel, dc) \in Nat
      BY <2>1, CountFacts DEF IInv
    <2>5. ghost.before + log'.kernel <= kernel_losses /\ log'.channel <= stats.userspace_drops
      BY <1>1, <2>1, <2>2, <2>4 DEF IInv, ChainInv, DropInv
    <2>6. ghost.faults = 0 => log.channel + dc = stats.userspace_drops
      BY <1>1 DEF IInv, DropInv
    <2> QED BY <1>6, <2>1, <2>2, <2>3, <2>5, <2>6 DEF IInv, TypeInv
  <1>7. CASE /\ recorded' = [kernel |-> kernel_losses, channel |-> stats.userspace_drops]
             /\ Fault /\ log' = log
    <2>1. /\ DOMAIN ghost' = DOMAIN ghost /\ ghost'.before = ghost.before
          /\ ghost'.faults = ghost.faults + 1 /\ ghost.faults \in Nat
      BY <1>7 DEF Fault, IInv, TypeInv
    <2> QED BY <1>1, <1>7, <2>1 DEF IInv, TypeInv, ChainInv, DropInv
  <1> QED BY <1>4, <1>5, <1>6, <1>7

-----------------------------------------------------------------------------
\* send: what is not taken is dropped and counted.
LEMMA SendFacts ==
  ASSUME TypeInv, NEW n \in Nat, send(n)
  PROVE  /\ channel' \in Seq(Nat)
         /\ stats' \in Stats
         /\ stats'.userspace_drops >= stats.userspace_drops
  <1> USE DEF Kernel, OldSet, DrainState, WorkerState, Stats, Log
  <1>1. /\ Plus(stats.drained, n) \in Count /\ Plus(stats.userspace_drops, n) \in Count
        /\ Plus(stats.userspace_drops, n) >= stats.userspace_drops
    BY PlusFacts DEF TypeInv
  <1>2. channel' \in Seq(Nat)
    BY DEF TypeInv, send
  <1>3. stats.userspace_drops \in Nat
    BY CountFacts DEF TypeInv
  <1>4. \E d \in {stats.userspace_drops, Plus(stats.userspace_drops, n)} :
          stats' = [stats EXCEPT !.drained = Plus(stats.drained, n), !.userspace_drops = d]
    BY Zenon DEF send
  <1>5. stats \in Stats /\ stats.userspace_drops \in Count
    BY DEF TypeInv, Stats
  <1>6. \A d \in Count, e \in Count : LET t == [stats EXCEPT !.drained = e, !.userspace_drops = d]
                                      IN  t \in Stats /\ t.userspace_drops = d
    BY <1>5, Zenon DEF Stats
  <1>7. stats.userspace_drops >= stats.userspace_drops
    BY <1>3
  <1> QED BY <1>1, <1>2, <1>4, <1>5, <1>6, <1>7, Zenon

\* The drain thread only adds to the drops, and while it runs the worker has not ended.
LEMMA DrainStep ==
  ASSUME IInv, Drain \/ DrainFails \/ StopDrainElapses
  PROVE  IInv'
  <1> USE DEF IInv, Kernel, OldSet, DrainState, WorkerState, Stats, Log
  <1>0. Count' = Count /\ Count \subseteq Nat
    BY CountFacts DEF Count, MaxEmit, Drain, DrainWake, DrainNext, DrainEmpty, DrainFails, StopDrainElapses
  <1>1. drain.pc # "gone" /\ main \in {"up", "join"} /\ worker.pc \notin {"drop", "gone"}
    BY DEF Drain, DrainWake, DrainNext, DrainEmpty, DrainFails, StopDrainElapses, ThreadInv, TypeInv
  <1>2. /\ UNCHANGED <<setting, old, kernel_losses, main, stop, worker, recorded, log>>
        /\ DOMAIN ghost' = DOMAIN ghost /\ ghost'.before = ghost.before
        /\ ghost'.faults \in Nat /\ (ghost'.faults = 0 => ghost.faults = 0)
    BY DEF Drain, DrainWake, DrainNext, DrainEmpty, DrainFails, StopDrainElapses, Fault, observer, TypeInv
  <1>3. kernel' \in Kernel /\ kernel'.lost = kernel.lost
    BY DEF Drain, DrainWake, DrainNext, DrainEmpty, DrainFails, StopDrainElapses, TypeInv
  <1>4. drain' \in DrainState
    <2>1. CASE DrainWake
      BY <2>1, Zenon DEF DrainWake, TypeInv
    <2>2. CASE DrainNext
      <3>1. drain.batch + 1 \in Nat
        BY DEF TypeInv, DrainState
      <3>2. \/ drain' = [drain EXCEPT !.batch = drain.batch + 1]
            \/ \E pc \in {"gone", drain.pc} : drain' = [drain EXCEPT !.batch = 0, !.pc = pc]
        BY <2>2, Zenon DEF DrainNext, PassEnds
      <3>3. 0 \in Nat /\ drain \in DrainState
        BY DEF TypeInv
      <3> HIDE DEF IInv
      <3> QED BY <3>1, <3>2, <3>3, Zenon DEF DrainState
    <2>3. CASE DrainEmpty
      <3>1. \E pc \in {"gone", "wait"} : drain' = [drain EXCEPT !.batch = 0, !.pc = pc]
        BY <2>3, Zenon DEF DrainEmpty, PassEnds
      <3>2. 0 \in Nat /\ drain \in DrainState
        BY DEF TypeInv
      <3> HIDE DEF IInv
      <3> QED BY <3>1, <3>2, Zenon DEF DrainState
    <2>4. CASE DrainFails \/ StopDrainElapses
      BY <2>4, Zenon DEF DrainFails, StopDrainElapses, TypeInv
    <2> QED BY <2>1, <2>2, <2>3, <2>4 DEF Drain
  <1>5. /\ channel' \in Seq(Nat)
        /\ stats' \in Stats
        /\ stats'.userspace_drops >= stats.userspace_drops
    <2>1. BATCH \in Nat /\ drain.batch \in Nat /\ stats.userspace_drops \in Nat
      BY <1>0, PipelineAssumption, Zenon DEF TypeInv
    <2>2. UNCHANGED <<channel, stats>> \/ send(BATCH) \/ send(drain.batch)
      BY DEF Drain, DrainWake, DrainNext, DrainEmpty, DrainFails, StopDrainElapses
    <2> QED BY <2>1, <2>2, SendFacts DEF TypeInv
  <1>6. TypeInv'
    BY <1>0, <1>2, <1>3, <1>4, <1>5 DEF TypeInv
  <1>7. /\ stats.userspace_drops \in Nat /\ stats'.userspace_drops \in Nat
        /\ log.channel \in Nat /\ recorded.channel \in Nat
    BY <1>0, <1>5, Zenon DEF TypeInv
  <1>8. ThreadInv' /\ ChainInv' /\ DropInv'
    BY <1>1, <1>2, <1>3, <1>5, <1>7 DEF ThreadInv, ChainInv, DropInv, Open
  <1> QED BY <1>6, <1>8

\* The worker: a batch beyond the budget is counted as dropped, and after its last tick
\* nothing is dropped any more.
LEMMA WorkerStep ==
  ASSUME IInv, Worker \/ StopBudgetElapses
  PROVE  IInv'
  <1> USE DEF IInv, Kernel, OldSet, DrainState, WorkerState, Stats, Log
  <1>0. Count' = Count /\ Count \subseteq Nat
    BY CountFacts DEF Count, MaxEmit, Worker, WorkerRecv, WorkerRecord, WorkerTick, WorkerDisconnected,
       ObserverDrop, StopBudgetElapses
  <1>1. worker.pc # "gone" /\ main \in {"up", "join"} /\ Open
    BY DEF Worker, WorkerRecv, WorkerRecord, WorkerTick, WorkerDisconnected, ObserverDrop,
       StopBudgetElapses, ThreadInv, TypeInv, Open
  <1>2. UNCHANGED <<setting, kernel, old, kernel_losses, main, stop, drain>>
    BY DEF Worker, WorkerRecv, WorkerRecord, WorkerTick, WorkerDisconnected, ObserverDrop, StopBudgetElapses
  <1>3. /\ stats.userspace_drops \in Nat /\ log.channel \in Nat /\ recorded.channel \in Nat
        /\ log.kernel \in Nat /\ recorded.kernel \in Nat /\ kernel_losses \in Nat
        /\ kernel.lost \in Nat /\ ghost.before \in Nat
    BY <1>0, Zenon DEF TypeInv
  <1>4. CASE WorkerRecv \/ StopBudgetElapses
    <2>1. /\ UNCHANGED <<recorded, log, ghost>> /\ worker' \in WorkerState
          /\ worker'.pc \in {worker.pc, "records"} /\ worker.pc # "gone"
      <3>1. CASE WorkerRecv
        BY <3>1 DEF WorkerRecv, TypeInv, observer
      <3>2. CASE StopBudgetElapses
        BY <3>2 DEF StopBudgetElapses, TypeInv, observer
      <3> QED BY <1>4, <3>1, <3>2
    <2>2. /\ channel' \in Seq(Nat) /\ stats' \in Stats
          /\ stats'.userspace_drops >= stats.userspace_drops
      <3>1. CASE WorkerRecv
        <4>1. Head(channel) \in Nat /\ Tail(channel) \in Seq(Nat)
          BY <3>1 DEF WorkerRecv, TypeInv
        <4>2. /\ Plus(stats.userspace_drops, Head(channel)) \in Count
              /\ Plus(stats.userspace_drops, Head(channel)) >= stats.userspace_drops
          BY <4>1, PlusFacts, Zenon DEF TypeInv
        <4>3. \/ stats' = stats
              \/ stats' = [stats EXCEPT !.userspace_drops = Plus(stats.userspace_drops, Head(channel))]
          BY <3>1 DEF WorkerRecv
        <4>4. \A d \in Count : LET t == [stats EXCEPT !.userspace_drops = d]
                               IN  t \in Stats /\ t.userspace_drops = d
          BY Zenon DEF TypeInv, Stats
        <4>5. channel' = Tail(channel) /\ stats.userspace_drops >= stats.userspace_drops /\ stats \in Stats
          BY <1>3, <3>1 DEF WorkerRecv, TypeInv
        <4> QED BY <4>1, <4>2, <4>3, <4>4, <4>5, Zenon
      <3>2. CASE StopBudgetElapses
        BY <1>3, <3>2 DEF StopBudgetElapses, TypeInv
      <3> QED BY <1>4, <3>1, <3>2
    <2>3. TypeInv'
      BY <1>0, <1>2, <2>1, <2>2 DEF TypeInv
    <2>4. stats'.userspace_drops \in Nat
      BY <1>0, <2>2, Zenon
    <2>5. worker'.pc = "drop" => worker.pc = "drop"
      BY <2>1
    <2>6. ThreadInv' /\ ChainInv' /\ DropInv'
      BY <1>1, <1>2, <1>3, <2>1, <2>2, <2>4, <2>5 DEF ThreadInv, ChainInv, DropInv, Open
    <2> QED BY <2>3, <2>6
  <1>5. CASE WorkerRecord
    <2>1. /\ UNCHANGED <<channel, recorded>> /\ Handle(1) /\ record
          /\ worker' \in WorkerState /\ worker'.pc = "records"
      <3>1. worker \in WorkerState /\ worker.left - 1 \in Int
        BY DEF TypeInv
      <3>2. worker' = [worker EXCEPT !.left = worker.left - 1] /\ worker.pc = "records"
        BY <1>5 DEF WorkerRecord
      <3>3. worker' \in WorkerState /\ worker'.pc = "records"
        BY <3>1, <3>2
      <3> QED BY <1>5, <3>3 DEF WorkerRecord
    <2>2. TypeInv'
      BY <1>0, <1>2, <2>1, RecordFacts DEF TypeInv
    <2>3. ThreadInv' /\ ChainInv' /\ DropInv'
      BY <1>1, <1>2, <2>1, RecordFacts DEF ThreadInv, ChainInv, DropInv, Open
    <2> QED BY <2>2, <2>3
  <1>6. CASE WorkerTick \/ WorkerDisconnected \/ ObserverDrop
    <2>1. /\ UNCHANGED <<channel, stats>> /\ record_losses /\ worker' \in WorkerState
          /\ worker'.pc \in {"recv", "drop", "gone"}
          /\ worker'.pc \in {"drop", "gone"} => drain.pc = "gone"
      BY <1>6 DEF WorkerTick, WorkerDisconnected, ObserverDrop, TypeInv, ThreadInv
    <2>2. TypeInv'
      BY <1>0, <1>1, <1>2, <2>1, LossFacts DEF TypeInv
    <2>3. ghost.before + log'.kernel <= kernel_losses /\ log'.kernel \in Nat
      BY <1>0, <1>1, <2>1, LossFacts, Zenon
    <2>4. ThreadInv'
      BY <1>1, <1>2, <2>1 DEF ThreadInv
    <2>5. ChainInv'
      BY <1>1, <1>2, <1>3, <2>1, <2>3, LossFacts DEF ChainInv, Open
    <2>6. DropInv'
      BY <1>1, <1>2, <1>3, <2>1, LossFacts DEF DropInv, Open
    <2> QED BY <2>2, <2>4, <2>5, <2>6
  <1> QED BY <1>4, <1>5, <1>6 DEF Worker

-----------------------------------------------------------------------------
\* A start: the new observer's baseline is not set yet, and what earlier ones claimed of
\* the set's counter is kept in `before`, or with the set that is replaced.
LEMMA StartStep ==
  ASSUME IInv, StartAdopt \/ StartReplace
  PROVE  IInv'
  <1> USE DEF IInv, Kernel, OldSet, DrainState, WorkerState, Stats, Log
  <1>0. Count' = Count /\ Count \subseteq Nat /\ 0 \in Count
    BY CountFacts DEF Count, MaxEmit, StartAdopt, StartReplace, Attaching
  <1>1. PICK replaced \in BOOLEAN : /\ Attaching(replaced)
                                    /\ replaced => StartReplace
                                    /\ ~replaced => StartAdopt
    BY Zenon DEF StartAdopt, StartReplace
  <1>2. /\ log.kernel \in Nat /\ kernel.lost \in Nat /\ ghost.before \in Nat
        /\ ghost.before \in Count /\ kernel.lost \in Count
    BY <1>0, Zenon DEF TypeInv
  <1>3. LET b == Plus(ghost.before, log.kernel)
        IN  b \in Count /\ b <= ghost.before + log.kernel /\ b \in Nat
    BY <1>0, <1>2, PlusFacts, Zenon
  <1>4. /\ DOMAIN ghost' = DOMAIN ghost /\ ghost'.faults = ghost.faults /\ ghost.faults \in Nat
        /\ ghost'.before = IF replaced THEN 0 ELSE Plus(ghost.before, log.kernel)
    BY <1>1 DEF Attaching, TypeInv
  <1>5. /\ UNCHANGED <<setting, kernel_losses, drain, channel, worker, recorded>>
        /\ main \in {"down", "stopped"} /\ main' = "attach" /\ stop' \in BOOLEAN
        /\ stats' = [drained |-> 0, userspace_drops |-> 0, handled |-> 0]
        /\ log' = [events |-> 0, kernel |-> 0, channel |-> 0]
    BY <1>1, Zenon DEF Attaching, threads
  <1>6. /\ kernel' \in Kernel /\ ghost'.before \in Count /\ ghost'.before <= kernel'.lost
        /\ old' \in OldSet /\ (old'.on => old'.before <= old'.lost)
    <2>1. CASE ~replaced
      BY <1>1, <1>2, <1>3, <1>4, <2>1 DEF StartAdopt, TypeInv, ChainInv
    <2>2. CASE replaced
      <3>1. kernel' = [ring |-> 0, lost |-> 0] /\ ghost'.before = 0
        BY <1>1, <1>4, <2>2 DEF StartReplace
      <3>2. old' = [on |-> TRUE, ring |-> kernel.ring, lost |-> kernel.lost,
                    before |-> Plus(ghost.before, log.kernel)]
        BY <1>1, <2>2 DEF StartReplace
      <3>3. kernel.ring \in Int /\ Plus(ghost.before, log.kernel) <= kernel.lost
        BY <1>2, <1>3 DEF TypeInv, ChainInv
      <3> QED BY <1>0, <1>2, <1>3, <3>1, <3>2, <3>3
    <2> QED BY <2>1, <2>2
  <1>7. TypeInv'
    <2>1. stats' \in Stats /\ log' \in Log
      BY <1>0, <1>5
    <2>2. TypeInv
      OBVIOUS
    <2> HIDE DEF IInv, Kernel, OldSet, DrainState, WorkerState, Stats, Log
    <2> QED BY <1>4, <1>5, <1>6, <2>1, <2>2, TypesStay DEF TypeInv
  <1>8. ghost'.before \in Nat /\ log'.kernel = 0 /\ log'.channel = 0 /\ stats'.userspace_drops = 0
    BY <1>0, <1>5, <1>6, Zenon
  <1>9. ThreadInv' /\ ChainInv' /\ DropInv'
    BY <1>5, <1>6, <1>8 DEF ThreadInv, ChainInv, DropInv, Open
  <1> QED BY <1>7, <1>9

\* The observer opens with the counters as they are, and reads the replaced ring.
LEMMA OpenStep ==
  ASSUME IInv, OpenObserver \/ DrainOldRing \/ StartConsumer
  PROVE  IInv'
  <1> USE DEF IInv, Kernel, OldSet, DrainState, WorkerState, Stats, Log
  <1>0. Count' = Count /\ Count \subseteq Nat /\ 0 \in Count
    BY CountFacts DEF Count, MaxEmit, OpenObserver, DrainOldRing, StartConsumer
  <1>1. CASE OpenObserver
    <2>1. kernel.lost \in Count /\ kernel.lost \in Nat /\ stats.userspace_drops \in Count
      BY <1>0, Zenon DEF TypeInv
    <2>2. TypeInv'
      BY <1>0, <1>1, <2>1 DEF OpenObserver, TypeInv, threads
    <2>3. ThreadInv' /\ ChainInv' /\ DropInv'
      BY <1>1, <2>1 DEF OpenObserver, threads, ThreadInv, ChainInv, DropInv, Open
    <2> QED BY <2>2, <2>3
  <1>2. CASE DrainOldRing
    <2>1. /\ old' \in OldSet /\ old'.on = old.on /\ old'.lost = old.lost /\ old'.before = old.before
      <3>1. old \in OldSet /\ old.ring - 1 \in Int
        BY DEF TypeInv
      <3>2. old' = [old EXCEPT !.ring = old.ring - 1]
        BY <1>2 DEF DrainOldRing
      <3> QED BY <3>1, <3>2
    <2>2. /\ UNCHANGED <<setting, kernel, kernel_losses, main, stop, drain, channel, worker, recorded>>
          /\ Handle(1) /\ record
      BY <1>2 DEF DrainOldRing, threads
    <2>3. TypeInv'
      BY <1>0, <2>1, <2>2, RecordFacts DEF TypeInv
    <2>4. ThreadInv' /\ ChainInv' /\ DropInv'
      BY <1>2, <2>1, <2>2, RecordFacts DEF DrainOldRing, ThreadInv, ChainInv, DropInv, Open
    <2> QED BY <2>3, <2>4
  <1>3. CASE StartConsumer
    <2>1. DOMAIN ghost' = DOMAIN ghost /\ ghost'.before = ghost.before /\ ghost'.faults = ghost.faults
      BY <1>3 DEF StartConsumer, TypeInv
    <2>2. old' \in OldSet /\ ~old'.on /\ drain' \in DrainState /\ worker' \in WorkerState
      BY <1>0, <1>3 DEF StartConsumer, NoOld, DrainAt, WorkerAt
    <2>3. worker'.pc = "recv" /\ main = "oldring" /\ main' = "up"
            /\ UNCHANGED <<setting, kernel, kernel_losses, stop, channel, stats, recorded, log>>
      BY <1>3 DEF StartConsumer, WorkerAt, observer
    <2>4. TypeInv'
      <3>1. TypeInv
        OBVIOUS
      <3> HIDE DEF IInv, Kernel, OldSet, DrainState, WorkerState, Stats, Log
      <3> QED BY <2>1, <2>2, <2>3, <3>1, TypesStay DEF TypeInv
    <2>5. ThreadInv' /\ ChainInv' /\ DropInv'
      BY <2>1, <2>2, <2>3 DEF ThreadInv, ChainInv, DropInv, Open
    <2> QED BY <2>4, <2>5
  <1> QED BY <1>1, <1>2, <1>3

\* The main loop copies the kernel's counter, and ends the threads.
LEMMA LoopStep ==
  ASSUME IInv, LossTick \/ shutdown \/ Joined
  PROVE  IInv'
  <1> USE DEF IInv, Kernel
  <1>0. Count' = Count /\ Count \subseteq Nat
    BY CountFacts DEF Count, MaxEmit, LossTick, shutdown, Joined
  <1>1. /\ UNCHANGED <<setting, kernel, old, drain, channel, worker, stats, recorded, log, ghost>>
        /\ kernel_losses' \in {kernel_losses, kernel.lost} /\ stop' \in BOOLEAN
        /\ main \in {"up", "join"} /\ main' \in {main, "join", "stopped"}
        /\ main' = "stopped" => worker.pc = "gone" /\ drain.pc = "gone"
    BY Zenon DEF LossTick, shutdown, Joined, threads, observer, TypeInv
  <1>2. /\ kernel.lost \in Nat /\ kernel_losses \in Nat /\ kernel.lost \in Count /\ recorded.kernel \in Nat
    BY <1>0, Zenon DEF TypeInv
  <1>3. TypeInv'
    BY <1>0, <1>1, <1>2 DEF TypeInv, OldSet, DrainState, WorkerState, Stats, Log
  <1>4. ThreadInv' /\ ChainInv' /\ DropInv'
    BY <1>1, <1>2 DEF ThreadInv, ChainInv, DropInv, Open
  <1> QED BY <1>3, <1>4

\* A kill: in a replacement the old set is back, with what was claimed of it.
LEMMA KillStep ==
  ASSUME IInv, Kill
  PROVE  IInv'
  <1> USE DEF IInv, Kernel, OldSet, DrainState, WorkerState, Stats, Log
  <1>0. Count' = Count /\ Count \subseteq Nat /\ 0 \in Count
    BY CountFacts DEF Count, MaxEmit, Kill
  <1>1. /\ UNCHANGED <<setting, kernel_losses, stats, recorded>> /\ main' = "down" /\ stop' \in BOOLEAN
        /\ drain' \in DrainState /\ drain'.pc = "gone" /\ channel' \in Seq(Nat)
        /\ worker' \in WorkerState /\ worker'.pc = "gone" /\ old' \in OldSet /\ ~old'.on
    <2>1. /\ UNCHANGED <<setting, kernel_losses, stats, recorded>> /\ main' = "down" /\ stop' \in BOOLEAN
          /\ drain' = DrainAt("gone") /\ channel' = << >> /\ worker' = WorkerAt("gone") /\ old' = NoOld
      BY Zenon DEF Kill
    <2>2. drain' \in DrainState /\ drain'.pc = "gone" /\ worker' \in WorkerState /\ worker'.pc = "gone"
      BY <2>1 DEF DrainAt, WorkerAt
    <2>3. old' \in OldSet /\ ~old'.on /\ channel' \in Seq(Nat)
      BY <1>0, <2>1 DEF NoOld
    <2> QED BY <2>1, <2>2, <2>3
  <1>2. /\ kernel' \in Kernel /\ log' \in Log /\ DOMAIN ghost' = DOMAIN ghost
        /\ ghost'.faults = ghost.faults /\ ghost'.before \in Count
        /\ ghost'.before + log'.kernel <= kernel'.lost /\ log'.channel = log.channel
    <2>1. CASE old.on
      <3>1. kernel' = [ring |-> old.ring, lost |-> old.lost] /\ log' = [log EXCEPT !.kernel = 0]
        BY <2>1 DEF Kill
      <3>2. DOMAIN ghost' = DOMAIN ghost /\ ghost'.faults = ghost.faults /\ ghost'.before = old.before
        BY <2>1, Zenon DEF Kill, TypeInv
      <3>3. /\ old.ring \in Int /\ old.lost \in Count /\ old.before \in Count /\ old.before \in Nat
            /\ old.lost \in Nat /\ old.before <= old.lost
        BY <1>0, <2>1, Zenon DEF TypeInv, ChainInv
      <3>4. log' \in Log /\ log'.kernel = 0 /\ log'.channel = log.channel
        BY <1>0, <3>1, Zenon DEF TypeInv
      <3> QED BY <3>1, <3>2, <3>3, <3>4
    <2>2. CASE ~old.on
      <3>1. DOMAIN ghost' = DOMAIN ghost /\ ghost'.faults = ghost.faults /\ ghost'.before = ghost.before
        BY <2>2, Zenon DEF Kill, TypeInv
      <3>2. UNCHANGED <<kernel, log>>
        BY <2>2 DEF Kill
      <3> QED BY <3>1, <3>2 DEF TypeInv, ChainInv
    <2> QED BY <2>1, <2>2
  <1>3. TypeInv'
    <2>1. TypeInv
      OBVIOUS
    <2> HIDE DEF IInv, Kernel, OldSet, DrainState, WorkerState, Stats, Log
    <2> QED BY <1>1, <1>2, <2>1, TypesStay DEF TypeInv
  <1>4. ThreadInv' /\ ChainInv' /\ DropInv'
    BY <1>1, <1>2, Zenon DEF ThreadInv, ChainInv, DropInv, Open
  <1> QED BY <1>3, <1>4

\* Every step keeps the invariant.
LEMMA Step == IInv /\ [Next]_vars => IInv'
  <1> SUFFICES ASSUME IInv, [Next]_vars PROVE IInv' OBVIOUS
  <1>1. CASE Next
    BY <1>1, EmitStep, DrainStep, WorkerStep, StartStep, OpenStep, LoopStep, KillStep DEF Next, Main
  <1>2. CASE UNCHANGED vars
    <2>1. TypeInv'
      BY <1>2 DEF vars, IInv, TypeInv, Kernel, OldSet, DrainState, WorkerState, Stats, Log, Count, MaxEmit
    <2>2. ThreadInv' /\ ChainInv' /\ DropInv'
      BY <1>2 DEF vars, IInv, ThreadInv, ChainInv, DropInv, Open
    <2> QED BY <2>1, <2>2 DEF IInv
  <1> QED BY <1>1, <1>2

\* The loss records never claim a loss that the counters do not hold, across restarts,
\* kills and replacements, and after an orderly stop they claim every drop
\* (record_losses, the baseline of Observer::new).
THEOREM LossesRecordedOnce == Spec => []LossRecordsTrue
  <1>1. IInv => LossRecordsTrue
    BY DEF IInv, TypeInv, ThreadInv, ChainInv, DropInv, LossRecordsTrue, Open
  <1> QED BY <1>1, InitIInv, Step, PTL DEF Spec

-----------------------------------------------------------------------------
(***************************************************************************)
(* No event goes unaccounted. The invariant counts the events where they   *)
(* are: in a ring, in flight in the pipeline, handled, or in a counter of  *)
(* what was lost. Each step moves some from one place to the next, and     *)
(* Total, what the channel's batches add up to, is followed by induction   *)
(* over the batches.                                                       *)
(***************************************************************************)
\* The elements of a sequence over S are in S.
LEMMA SeqElements ==
  ASSUME NEW T, NEW q \in Seq(T), NEW i \in 1..Len(q)
  PROVE  q[i] \in T
  OBVIOUS

\* The empty sequence, and the length of any other.
LEMMA SeqEmpty ==
  ASSUME NEW T
  PROVE  << >> \in Seq(T) /\ Len(<< >>) = 0 /\ \A q \in Seq(T) : q # << >> => Len(q) \in Nat \ {0}
  OBVIOUS

\* A sequence is a function of the numbers up to its length.
LEMMA SeqLength ==
  ASSUME NEW T, NEW q \in Seq(T)
  PROVE  Len(q) \in Nat /\ q \in [1..Len(q) -> T] /\ DOMAIN q = 1..Len(q)
  OBVIOUS

\* Concatenation puts one sequence after the other.
LEMMA SeqConcat ==
  ASSUME NEW T, NEW p \in Seq(T), NEW q \in Seq(T)
  PROVE  /\ p \o q \in Seq(T) /\ Len(p \o q) = Len(p) + Len(q)
         /\ \A i \in 1..(Len(p) + Len(q)) : (p \o q)[i] = IF i <= Len(p) THEN p[i] ELSE q[i - Len(p)]
  OBVIOUS

\* Append puts an element at the end.
LEMMA SeqAppend ==
  ASSUME NEW T, NEW q \in Seq(T), NEW e \in T
  PROVE  /\ Append(q, e) \in Seq(T) /\ Append(q, e) # << >> /\ Len(Append(q, e)) = Len(q) + 1
         /\ \A i \in 1..Len(q) : Append(q, e)[i] = q[i]
         /\ Append(q, e)[Len(q) + 1] = e
  OBVIOUS

\* SubSeq takes the elements from m to n.
LEMMA SeqSubSeq ==
  ASSUME NEW T, NEW q, NEW m \in Int, NEW n \in Int, \A i \in m..n : q[i] \in T
  PROVE  /\ SubSeq(q, m, n) \in Seq(T) /\ Len(SubSeq(q, m, n)) = IF m <= n THEN n - m + 1 ELSE 0
         /\ \A i \in 1..(n - m + 1) : SubSeq(q, m, n)[i] = q[m + i - 1]
  OBVIOUS

\* Head takes the first element and Tail leaves the rest.
LEMMA SeqTail ==
  ASSUME NEW T, NEW q \in Seq(T), q # << >>
  PROVE  /\ Head(q) \in T /\ Tail(q) \in Seq(T) /\ Len(Tail(q)) = Len(q) - 1
         /\ \A i \in 1..Len(Tail(q)) : Tail(q)[i] = q[i + 1]
  OBVIOUS

\* Induction over the numbers, for a property given as a set.
LEMMA Induction ==
  ASSUME NEW S \in SUBSET Nat, 0 \in S, \A n \in S : n + 1 \in S
  PROVE  \A n \in Nat : n \in S
  <1> DEFINE R == {ss \in Nat \X Nat : ss[1] < ss[2]}
             T == Nat \ S
  <1> SUFFICES ASSUME T # {} PROVE FALSE
    OBVIOUS
  <1>1. \E x \in T : \A y \in T : ~ (<<y, x>> \in R)
    <2>1. IsWellFoundedOn(R, Nat)
      BY NatLessThanWellFounded, Zenon DEF OpToRel
    <2>2. T \subseteq Nat
      OBVIOUS
    <2> HIDE DEF R, T
    <2> QED BY <2>1, <2>2, WFMin, Zenon
  <1>2. PICK x \in T : \A y \in T : ~ (<<y, x>> \in R)
    BY <1>1
  <1>3. x \in Nat /\ x # 0 /\ x \notin S
    OBVIOUS
  <1>4. x - 1 \in Nat /\ x - 1 < x /\ (x - 1) + 1 = x
    BY <1>3
  <1>5. <<x - 1, x>> \in R
    BY <1>3, <1>4
  <1>6. x - 1 \in S
    BY <1>2, <1>4, <1>5
  <1> QED BY <1>3, <1>4, <1>6

\* The running totals of a sequence of batches.
IsTotals(f, c) ==
  /\ f \in [0..Len(c) -> Nat]
  /\ f[0] = 0
  /\ \A i \in 1..Len(c) : f[i] = f[i - 1] + c[i]

\* Total is the last of the running totals.
LEMMA TotalFacts ==
  ASSUME NEW c \in Seq(Nat)
  PROVE  \E f : IsTotals(f, c) /\ Total(c) = f[Len(c)]
  <1>0. Len(c) \in Nat /\ \A i \in 1..Len(c) : c[i] \in Nat
    BY SeqLength, SeqElements
  <1> DEFINE P(n) == \E f \in [0..n -> Nat] : f[0] = 0 /\ \A i \in 1..n : f[i] = f[i - 1] + c[i]
             S == {n \in Nat : n <= Len(c) => P(n)}
  <1>1. 0 \in S
    <2>1. [i \in 0..0 |-> 0] \in [0..0 -> Nat]
      OBVIOUS
    <2>2. P(0)
      <3> DEFINE z == [i \in 0..0 |-> 0]
      <3>1. z[0] = 0 /\ \A i \in 1..0 : z[i] = z[i - 1] + c[i]
        OBVIOUS
      <3> HIDE DEF z
      <3> QED BY <2>1, <3>1 DEF z
    <2> QED BY <2>2
  <1>2. ASSUME NEW n \in S PROVE n + 1 \in S
    <2> SUFFICES ASSUME n + 1 <= Len(c) PROVE P(n + 1)
      <3> HIDE DEF P
      <3> QED OBVIOUS
    <2>1. PICK f \in [0..n -> Nat] : f[0] = 0 /\ \A i \in 1..n : f[i] = f[i - 1] + c[i]
      BY <1>0, <1>2
    <2> DEFINE g == [i \in 0..(n + 1) |-> IF i = n + 1 THEN f[n] + c[n + 1] ELSE f[i]]
    <2>2. n \in Nat /\ c[n + 1] \in Nat /\ f[n] \in Nat
      BY <1>0, <2>1
    <2>3. g \in [0..(n + 1) -> Nat]
      BY <2>1, <2>2
    <2>4. g[0] = 0 /\ \A i \in 1..(n + 1) : g[i] = g[i - 1] + c[i]
      BY <2>1, <2>2
    <2> HIDE DEF g
    <2> QED BY <2>3, <2>4
  <1>3. P(Len(c))
    <2> HIDE DEF P
    <2>1. S \in SUBSET Nat
      OBVIOUS
    <2>2. \A n \in Nat : n \in S
      <3> HIDE DEF S
      <3> QED BY <1>1, <1>2, <2>1, Induction, Zenon
    <2> QED BY <1>0, <2>2
  <1>4. PICK f \in [0..Len(c) -> Nat] : f[0] = 0 /\ \A i \in 1..Len(c) : f[i] = f[i - 1] + c[i]
    BY <1>3
  <1> DEFINE Q(u) == u = [n \in 0..Len(c) |-> IF n = 0 THEN 0 ELSE u[n - 1] + c[n]]
             u == CHOOSE v : Q(v)
  <1>5. Q(f)
    BY <1>0, <1>4
  <1>6. Q(u)
    BY <1>5, Zenon
  <1>7. Total(c) = u[Len(c)]
    BY DEF Total
  <1> HIDE DEF u
  <1> DEFINE E == {i \in Nat : i <= Len(c) => u[i] = f[i]}
  <1>8. 0 \in E
    BY <1>0, <1>4, <1>6
  <1>9. ASSUME NEW n \in E PROVE n + 1 \in E
    BY <1>0, <1>4, <1>6, <1>9
  <1>10. \A n \in Nat : n \in E
    <2>1. E \in SUBSET Nat
      OBVIOUS
    <2> HIDE DEF E
    <2> QED BY <1>8, <1>9, <2>1, Induction, Zenon
  <1>11. u[Len(c)] = f[Len(c)]
    BY <1>0, <1>10
  <1> QED BY <1>4, <1>7, <1>11 DEF IsTotals

\* A sequence has one list of running totals.
LEMMA TotalsUnique ==
  ASSUME NEW c \in Seq(Nat), NEW d \in Seq(Nat), NEW f, NEW g, IsTotals(f, c), IsTotals(g, d),
         Len(c) <= Len(d), \A i \in 1..Len(c) : c[i] = d[i]
  PROVE  f[Len(c)] = g[Len(c)]
  <1>0. Len(c) \in Nat /\ Len(d) \in Nat
    BY SeqLength
  <1> DEFINE E == {i \in Nat : i <= Len(c) => f[i] = g[i]}
  <1>1. 0 \in E
    BY DEF IsTotals
  <1>2. ASSUME NEW n \in E PROVE n + 1 \in E
    BY <1>0, <1>2 DEF IsTotals
  <1>3. \A n \in Nat : n \in E
    <2>1. E \in SUBSET Nat
      OBVIOUS
    <2> HIDE DEF E
    <2> QED BY <1>1, <1>2, <2>1, Induction, Zenon
  <1> QED BY <1>0, <1>3

\* No batch, no record.
LEMMA TotalEmpty == Total(<< >>) = 0
  <1>1. << >> \in Seq(Nat) /\ Len(<< >>) = 0
    OBVIOUS
  <1> QED BY <1>1, TotalFacts DEF IsTotals

\* What is queued grows and shrinks by whole batches.
LEMMA TotalSteps ==
  ASSUME NEW c \in Seq(Nat)
  PROVE  /\ Total(c) \in Nat
         /\ \A n \in Nat : Total(Append(c, n)) = Total(c) + n
         /\ c # << >> => Total(c) = Head(c) + Total(Tail(c))
  <1>0. Len(c) \in Nat /\ \A i \in 1..Len(c) : c[i] \in Nat
    BY SeqLength, SeqElements
  <1>1. PICK f : IsTotals(f, c) /\ Total(c) = f[Len(c)]
    BY TotalFacts
  <1>2. Total(c) \in Nat
    BY <1>0, <1>1 DEF IsTotals
  <1>4. ASSUME NEW n \in Nat PROVE Total(Append(c, n)) = Total(c) + n
    <2> DEFINE d == Append(c, n)
    <2>1. /\ d \in Seq(Nat) /\ Len(d) = Len(c) + 1
          /\ \A i \in 1..Len(c) : d[i] = c[i]
          /\ d[Len(c) + 1] = n
      BY SeqAppend
    <2> HIDE DEF d
    <2>2. PICK g : IsTotals(g, d) /\ Total(d) = g[Len(d)]
      BY <2>1, TotalFacts
    <2>3. f[Len(c)] = g[Len(c)]
      BY <1>0, <1>1, <2>1, <2>2, TotalsUnique
    <2>4. g[Len(c) + 1] = g[Len(c)] + n
      BY <1>0, <2>1, <2>2 DEF IsTotals
    <2> QED BY <1>1, <2>1, <2>2, <2>3, <2>4 DEF d
  <1>5. ASSUME c # << >> PROVE Total(c) = Head(c) + Total(Tail(c))
    <2> DEFINE d == Tail(c)
    <2>1. /\ d \in Seq(Nat) /\ Len(d) = Len(c) - 1 /\ Len(c) # 0 /\ Head(c) = c[1]
          /\ \A i \in 1..Len(d) : d[i] = c[i + 1]
      BY <1>0, <1>5, SeqTail
    <2> HIDE DEF d
    <2>2. PICK g : IsTotals(g, d) /\ Total(d) = g[Len(d)]
      BY <2>1, TotalFacts
    <2> DEFINE h == [i \in 0..Len(d) |-> f[i + 1] - c[1]]
               E == {i \in Nat : i <= Len(d) => g[i] = f[i + 1] - c[1]}
    <2>3. 0 \in E
      <3>1. f[1] = f[0] + c[1] /\ f[0] = 0
        BY <1>0, <1>1, <2>1 DEF IsTotals
      <3> QED BY <1>0, <2>1, <2>2, <3>1 DEF IsTotals
    <2>4. ASSUME NEW n \in E PROVE n + 1 \in E
      <3> SUFFICES ASSUME n + 1 <= Len(d) PROVE g[n + 1] = f[(n + 1) + 1] - c[1]
        OBVIOUS
      <3>1. g[n + 1] = g[n] + d[n + 1] /\ d[n + 1] = c[(n + 1) + 1] /\ g[n] = f[n + 1] - c[1]
        BY <1>0, <2>1, <2>2, <2>4 DEF IsTotals
      <3>2. f[(n + 1) + 1] = f[n + 1] + c[(n + 1) + 1] /\ f[n + 1] \in Nat /\ c[(n + 1) + 1] \in Nat
        <4>1. (n + 1) + 1 \in 1..Len(c) /\ n + 1 \in 0..Len(c) /\ ((n + 1) + 1) - 1 = n + 1
          BY <1>0, <2>1
        <4> QED BY <1>0, <1>1, <4>1 DEF IsTotals
      <3> QED BY <1>0, <2>1, <3>1, <3>2
    <2>5. \A n \in Nat : n \in E
      <3>1. E \in SUBSET Nat
        OBVIOUS
      <3> HIDE DEF E
      <3> QED BY <2>3, <2>4, <3>1, Induction, Zenon
    <2>6. g[Len(d)] = f[Len(d) + 1] - c[1]
      BY <1>0, <2>1, <2>5
    <2>7. Len(d) + 1 = Len(c)
      BY <1>0, <2>1
    <2> QED BY <1>0, <1>1, <1>2, <2>1, <2>2, <2>6, <2>7 DEF d
  <1> QED BY <1>2, <1>4, <1>5
-----------------------------------------------------------------------------
\* What the counts are.
NumInv ==
  /\ kernel.ring \in Nat /\ old.ring \in Nat /\ worker.left \in Nat
  /\ drain.batch < BATCH
  /\ ghost.emitted \in Count /\ ghost.ended \in Count

\* Where nothing can be on its way.
IdleInv ==
  /\ drain.pc # "pass" => drain.batch = 0
  /\ worker.pc # "records" => worker.left = 0
  /\ worker.pc \in {"drop", "gone"} => channel = << >>
  /\ old.on => main \in {"attach", "oldring"}
  /\ ~old.on => old.ring = 0 /\ old.lost = 0

\* Where the events are.
Accounted == kernel.ring + kernel.lost + old.ring + old.lost + InFlight
         + stats.handled + stats.userspace_drops + ghost.ended

ExactInv == NumInv /\ IdleInv /\ (~Endless => ghost.emitted = Accounted)

\* The counts are numbers, and none exceeds the bound of a finite behaviour.
LEMMA Numbers ==
  ASSUME IInv, ExactInv
  PROVE  /\ kernel.ring \in Nat /\ kernel.lost \in Nat /\ old.ring \in Nat /\ old.lost \in Nat
         /\ drain.batch \in Nat /\ Queued \in Nat /\ worker.left \in Nat
         /\ stats.handled \in Nat /\ stats.userspace_drops \in Nat
         /\ ghost.ended \in Nat /\ ghost.emitted \in Nat /\ MaxEmit \in Nat
         /\ ghost.emitted <= MaxEmit
  <1>1. Count \subseteq Nat /\ MaxEmit \in Nat
    BY CountFacts DEF IInv
  <1>2. /\ kernel.lost \in Nat /\ old.lost \in Nat /\ drain.batch \in Nat
        /\ stats.handled \in Nat /\ stats.userspace_drops \in Nat
    BY <1>1, Zenon DEF IInv, TypeInv, Kernel, OldSet, DrainState, Stats
  <1>3. Queued \in Nat
    BY TotalSteps DEF IInv, TypeInv, Queued
  <1>4. ghost.emitted <= MaxEmit
    BY <1>1 DEF ExactInv, NumInv, Count
  <1> QED BY <1>1, <1>2, <1>3, <1>4, Zenon DEF ExactInv, NumInv

\* Counting n events that are somewhere already: in a finite behaviour the bound is not met.
LEMMA Counting ==
  ASSUME IInv, ExactInv, NEW c \in Count, NEW n \in Nat
  PROVE  /\ Plus(c, n) \in Count
         /\ c + n <= MaxEmit => Plus(c, n) = c + n
  <1>1. c \in Nat /\ c + n \in Nat /\ MaxEmit \in Nat
    BY CountFacts DEF IInv
  <1>2. c + n <= MaxEmit => c + n \in Count
    BY <1>1 DEF Count
  <1> QED BY <1>2, PlusFacts DEF IInv

\* rk_emit: one event more, in a ring or in a loss counter.
LEMMA EmitExact ==
  ASSUME IInv, ExactInv, rk_emit \/ rk_emit_old
  PROVE  ExactInv'
  <1>0. /\ UNCHANGED <<setting, main, drain, channel, worker, stats>>
        /\ Count' = Count /\ Endless' = Endless /\ Queued' = Queued
    BY DEF rk_emit, rk_emit_old, threads, Count, MaxEmit, Endless, Queued
  <1>1. ghost' = [ghost EXCEPT !.emitted = Plus(ghost.emitted, 1)] /\ MayEmit
    BY DEF rk_emit, rk_emit_old, Emitted
  <1>2. /\ ghost'.emitted = Plus(ghost.emitted, 1) /\ ghost'.ended = ghost.ended
        /\ (~Endless => ghost.emitted + 1 <= MaxEmit)
    BY <1>1, Numbers DEF IInv, TypeInv, MayEmit
  <1>3. /\ ghost'.emitted \in Count
        /\ (~Endless => ghost'.emitted = ghost.emitted + 1)
    BY <1>2, Counting DEF ExactInv, NumInv
  <1>4. kernel.lost \in Count /\ old.lost \in Count
    BY DEF IInv, TypeInv, Kernel, OldSet
  <1>5. /\ (~Endless => Plus(kernel.lost, 1) = kernel.lost + 1)
        /\ (~Endless => Plus(old.lost, 1) = old.lost + 1)
    <2>1. ~Endless => kernel.lost + 1 <= MaxEmit /\ old.lost + 1 <= MaxEmit
      BY <1>2, Numbers DEF ExactInv, Accounted, InFlight
    <2> QED BY <1>4, <2>1, Counting
  <1>6. CASE rk_emit
    <2>1. \/ kernel' = [kernel EXCEPT !.ring = kernel.ring + 1]
          \/ kernel' = [kernel EXCEPT !.lost = Plus(kernel.lost, 1)]
      BY <1>6 DEF rk_emit
    <2>2. old' = old
      BY <1>6 DEF rk_emit
    <2>3. /\ \/ kernel'.ring = kernel.ring + 1 /\ kernel'.lost = kernel.lost
             \/ kernel'.ring = kernel.ring /\ kernel'.lost = Plus(kernel.lost, 1)
      BY <2>1 DEF IInv, TypeInv, Kernel
    <2>4. NumInv'
      BY <1>0, <1>2, <1>3, <2>2, <2>3, Numbers DEF ExactInv, NumInv
    <2>5. IdleInv'
      BY <1>0, <2>2 DEF ExactInv, IdleInv
    <2>6. ~Endless => ghost'.emitted = Accounted'
      <3> SUFFICES ASSUME ~Endless PROVE ghost'.emitted = Accounted' OBVIOUS
      <3>1. ghost.emitted = Accounted
        BY DEF ExactInv
      <3>2. ghost'.emitted = ghost.emitted + 1 /\ ghost'.ended = ghost.ended
        BY <1>2, <1>3
      <3>3. kernel'.ring + kernel'.lost + old'.ring + old'.lost = kernel.ring + kernel.lost + old.ring + old.lost + 1
              /\ kernel'.ring \in Nat /\ kernel'.lost \in Nat /\ old'.ring \in Nat /\ old'.lost \in Nat
        BY <1>5, <2>2, <2>3, Numbers
      <3> QED BY <1>0, <3>1, <3>2, <3>3, Numbers DEF Accounted, InFlight
    <2> QED BY <1>0, <2>4, <2>5, <2>6 DEF ExactInv
  <1>7. CASE rk_emit_old
    <2>1. \/ old' = [old EXCEPT !.ring = old.ring + 1]
          \/ old' = [old EXCEPT !.lost = Plus(old.lost, 1)]
      BY <1>7 DEF rk_emit_old
    <2>2. kernel' = kernel /\ old.on
      BY <1>7 DEF rk_emit_old
    <2>3. /\ \/ old'.ring = old.ring + 1 /\ old'.lost = old.lost
             \/ old'.ring = old.ring /\ old'.lost = Plus(old.lost, 1)
          /\ old'.on = old.on
      BY <2>1 DEF IInv, TypeInv, OldSet
    <2>4. NumInv'
      BY <1>0, <1>2, <1>3, <2>2, <2>3, Numbers DEF ExactInv, NumInv
    <2>5. IdleInv'
      BY <1>0, <2>2, <2>3 DEF ExactInv, IdleInv
    <2>6. ~Endless => ghost'.emitted = Accounted'
      <3> SUFFICES ASSUME ~Endless PROVE ghost'.emitted = Accounted' OBVIOUS
      <3>1. ghost.emitted = Accounted
        BY DEF ExactInv
      <3>2. ghost'.emitted = ghost.emitted + 1 /\ ghost'.ended = ghost.ended
        BY <1>2, <1>3
      <3>3. kernel'.ring + kernel'.lost + old'.ring + old'.lost = kernel.ring + kernel.lost + old.ring + old.lost + 1
              /\ kernel'.ring \in Nat /\ kernel'.lost \in Nat /\ old'.ring \in Nat /\ old'.lost \in Nat
        BY <1>5, <2>2, <2>3, Numbers
      <3> QED BY <1>0, <3>1, <3>2, <3>3, Numbers DEF Accounted, InFlight
    <2> QED BY <1>0, <2>4, <2>5, <2>6 DEF ExactInv
  <1> QED BY <1>6, <1>7

\* send: the batch is in the channel, or counted as dropped.
LEMMA SendExact ==
  ASSUME IInv, ExactInv, NEW n \in Nat, send(n), n <= drain.batch + kernel.ring, UNCHANGED setting
  PROVE  /\ stats'.handled = stats.handled
         /\ Queued' \in Nat /\ stats'.userspace_drops \in Nat
         /\ ~Endless => Queued' + stats'.userspace_drops = Queued + stats.userspace_drops + n
  <1>1. stats \in Stats /\ stats.drained \in Count /\ stats.userspace_drops \in Count /\ channel \in Seq(Nat)
    BY DEF IInv, TypeInv, Stats
  <1>2. ~Endless => stats.userspace_drops + n <= MaxEmit
    BY Numbers DEF ExactInv, Accounted, InFlight
  <1>3. /\ Plus(stats.userspace_drops, n) \in Nat
        /\ (~Endless => Plus(stats.userspace_drops, n) = stats.userspace_drops + n)
    BY <1>1, <1>2, Counting, CountFacts DEF IInv
  <1>4. \/ channel' = Append(channel, n) /\ stats' = [stats EXCEPT !.drained = Plus(@, n)]
        \/ /\ channel' = channel
           /\ stats' = [stats EXCEPT !.drained = Plus(@, n), !.userspace_drops = Plus(@, n)]
    BY <1>1 DEF send, Stats
  <1>5. CASE channel' = Append(channel, n) /\ stats' = [stats EXCEPT !.drained = Plus(@, n)]
    <2>1. Queued' = Queued + n
      BY <1>1, <1>5, TotalSteps DEF Queued
    <2>2. stats'.handled = stats.handled /\ stats'.userspace_drops = stats.userspace_drops
      BY <1>1, <1>5 DEF Stats
    <2> QED BY <2>1, <2>2, Numbers
  <1>6. CASE /\ channel' = channel
             /\ stats' = [stats EXCEPT !.drained = Plus(@, n), !.userspace_drops = Plus(@, n)]
    <2>1. Queued' = Queued
      BY <1>6 DEF Queued
    <2>2. stats'.handled = stats.handled /\ stats'.userspace_drops = Plus(stats.userspace_drops, n)
      BY <1>1, <1>6 DEF Stats
    <2> QED BY <1>3, <2>1, <2>2, Numbers
  <1> QED BY <1>4, <1>5, <1>6

\* The drain thread: a record moves from the ring to the batch, and the batch is sent whole.
LEMMA DrainExact ==
  ASSUME IInv, ExactInv, Drain \/ DrainFails \/ StopDrainElapses
  PROVE  ExactInv'
  <1>0. /\ UNCHANGED <<setting, old, main, worker>>
        /\ Count' = Count /\ Endless' = Endless
    BY DEF Drain, DrainWake, DrainNext, DrainEmpty, DrainFails, StopDrainElapses, Count, MaxEmit, Endless
  <1>1. ghost'.emitted = ghost.emitted /\ ghost'.ended = ghost.ended
    BY DEF Drain, DrainWake, DrainNext, DrainEmpty, DrainFails, StopDrainElapses, Fault, IInv, TypeInv
  <1>2. worker.pc \notin {"drop", "gone"} /\ drain.pc # "gone"
    BY DEF Drain, DrainWake, DrainNext, DrainEmpty, DrainFails, StopDrainElapses, IInv, ThreadInv, TypeInv
  <1>3. drain \in DrainState /\ kernel \in Kernel /\ BATCH \in Nat \ {0}
    BY PipelineAssumption DEF IInv, TypeInv
  <1>4. CASE DrainWake \/ DrainFails \/ StopDrainElapses
    <2>1. UNCHANGED <<kernel, channel, stats>> /\ Queued' = Queued
      BY <1>4 DEF DrainWake, DrainFails, StopDrainElapses, Queued
    <2>2. drain'.batch = drain.batch /\ (drain'.pc # "pass" => drain.batch = 0)
      BY <1>3, <1>4 DEF DrainWake, DrainFails, StopDrainElapses, DrainState, ExactInv, IdleInv
    <2>3. NumInv' /\ IdleInv'
      BY <1>0, <1>1, <1>2, <2>1, <2>2 DEF ExactInv, NumInv, IdleInv
    <2> QED BY <1>0, <1>1, <2>1, <2>2, <2>3 DEF ExactInv, Accounted, InFlight
  <1>5. CASE DrainNext
    <2>1. /\ drain.pc = "pass" /\ kernel.ring > 0
          /\ kernel'.ring = kernel.ring - 1 /\ kernel'.lost = kernel.lost
      BY <1>3, <1>5 DEF DrainNext, Kernel
    <2>2. CASE drain.batch + 1 < BATCH
      <3>1. /\ UNCHANGED <<channel, stats>> /\ Queued' = Queued
            /\ drain'.batch = drain.batch + 1 /\ drain'.pc = "pass"
        BY <1>3, <1>5, <2>1, <2>2 DEF DrainNext, Queued, DrainState
      <3>2. NumInv'
        BY <1>0, <1>1, <1>3, <2>1, <2>2, <3>1, Numbers DEF ExactInv, NumInv
      <3>3. IdleInv'
        BY <1>0, <1>1, <1>2, <2>1, <2>2, <3>1 DEF ExactInv, IdleInv
      <3>4. ~Endless => ghost'.emitted = Accounted'
        BY <1>0, <1>1, <2>1, <3>1, Numbers DEF ExactInv, Accounted, InFlight
      <3> QED BY <1>0, <3>2, <3>3, <3>4 DEF ExactInv
    <2>3. CASE ~(drain.batch + 1 < BATCH)
      <3>1. send(BATCH) /\ drain'.batch = 0 /\ BATCH = drain.batch + 1
        <4>1. BATCH = drain.batch + 1
          BY <1>3, <2>3, Numbers DEF ExactInv, NumInv
        <4>2. send(BATCH)
          BY <1>5, <2>3 DEF DrainNext
        <4>3. \E pc : drain' = [drain EXCEPT !.batch = 0, !.pc = pc]
          BY <1>5, <2>3, Zenon DEF DrainNext
        <4>4. drain'.batch = 0
          BY <1>3, <4>3 DEF DrainState
        <4> QED BY <4>1, <4>2, <4>4
      <3>2. /\ stats'.handled = stats.handled
            /\ Queued' \in Nat /\ stats'.userspace_drops \in Nat
            /\ ~Endless => Queued' + stats'.userspace_drops = Queued + stats.userspace_drops + BATCH
        <4>1. BATCH <= drain.batch + kernel.ring
          BY <2>1, <3>1, Numbers
        <4> QED BY <1>0, <1>3, <3>1, <4>1, SendExact
      <3>3. NumInv'
        BY <1>0, <1>1, <1>3, <2>1, <3>1, Numbers DEF ExactInv, NumInv
      <3>4. IdleInv'
        BY <1>0, <1>1, <1>2, <3>1 DEF ExactInv, IdleInv
      <3>5. ~Endless => ghost'.emitted = Accounted'
        <4> SUFFICES ASSUME ~Endless PROVE ghost'.emitted = Accounted' OBVIOUS
        <4>1. /\ ghost.emitted = kernel.ring + kernel.lost + old.ring + old.lost + (drain.batch + Queued + worker.left)
                               + stats.handled + stats.userspace_drops + ghost.ended
              /\ Queued' + stats'.userspace_drops = Queued + stats.userspace_drops + BATCH
          BY <3>2 DEF ExactInv, Accounted, InFlight
        <4>2. Accounted' = (kernel.ring - 1) + kernel.lost + old.ring + old.lost + (0 + Queued' + worker.left)
                       + stats.handled + stats'.userspace_drops + ghost.ended
          BY <1>0, <1>1, <2>1, <3>1, <3>2 DEF Accounted, InFlight
        <4>3. ghost'.emitted = ghost.emitted /\ BATCH = drain.batch + 1
          BY <1>1, <3>1
        <4>4. Queued' \in Nat /\ stats'.userspace_drops \in Nat
          BY <3>2
        <4>5. /\ kernel.ring \in Int /\ kernel.lost \in Int /\ old.ring \in Int /\ old.lost \in Int
              /\ drain.batch \in Int /\ Queued \in Int /\ worker.left \in Int /\ stats.handled \in Int
              /\ stats.userspace_drops \in Int /\ ghost.ended \in Int /\ ghost.emitted \in Int
          BY Numbers
        <4>6. Queued' = Queued + stats.userspace_drops + drain.batch + 1 - stats'.userspace_drops
          BY <4>1, <4>3, <4>4, <4>5
        <4> QED BY <4>1, <4>2, <4>3, <4>4, <4>5, <4>6
      <3> QED BY <1>0, <3>3, <3>4, <3>5 DEF ExactInv
    <2> QED BY <2>2, <2>3
  <1>6. CASE DrainEmpty
    <2>1. kernel' = kernel /\ drain'.batch = 0
      BY <1>3, <1>6 DEF DrainEmpty, DrainState
    <2>2. /\ stats'.handled = stats.handled
          /\ Queued' \in Nat /\ stats'.userspace_drops \in Nat
          /\ ~Endless => Queued' + stats'.userspace_drops = Queued + stats.userspace_drops + drain.batch
      <3>1. CASE drain.batch > 0
        <4>1. send(drain.batch) /\ drain.batch <= drain.batch + kernel.ring
          BY <1>6, <3>1, Numbers DEF DrainEmpty
        <4> QED BY <1>0, <4>1, Numbers, SendExact
      <3>2. CASE ~(drain.batch > 0)
        <4>1. UNCHANGED <<channel, stats>> /\ Queued' = Queued /\ drain.batch = 0
          BY <1>6, <3>2, Numbers DEF DrainEmpty, Queued
        <4> QED BY <4>1, Numbers
      <3> QED BY <3>1, <3>2
    <2>3. NumInv'
      BY <1>0, <1>1, <1>3, <2>1, Numbers DEF ExactInv, NumInv
    <2>4. IdleInv'
      BY <1>0, <1>1, <1>2, <2>1 DEF ExactInv, IdleInv
    <2>5. ~Endless => ghost'.emitted = Accounted'
      BY <1>0, <1>1, <2>1, <2>2, Numbers DEF ExactInv, Accounted, InFlight
    <2> QED BY <1>0, <2>3, <2>4, <2>5 DEF ExactInv
  <1> QED BY <1>4, <1>5, <1>6 DEF Drain

\* A record is handled once, whatever the write does.
LEMMA HandleExact ==
  ASSUME IInv, ExactInv, Handle(1), record, worker.left + old.ring > 0
  PROVE  /\ stats'.handled \in Nat /\ stats'.userspace_drops = stats.userspace_drops
         /\ ~Endless => stats'.handled = stats.handled + 1
         /\ ghost'.emitted = ghost.emitted /\ ghost'.ended = ghost.ended
  <1>1. stats \in Stats /\ stats.handled \in Count
    BY DEF IInv, TypeInv, Stats
  <1>2. /\ stats'.handled = Plus(stats.handled, 1) /\ stats'.userspace_drops = stats.userspace_drops
    BY <1>1 DEF Handle, Stats
  <1>3. ~Endless => stats.handled + 1 <= MaxEmit
    BY Numbers DEF ExactInv, Accounted, InFlight
  <1>4. Plus(stats.handled, 1) \in Nat /\ (~Endless => Plus(stats.handled, 1) = stats.handled + 1)
    BY <1>1, <1>3, Counting, CountFacts DEF IInv
  <1>5. ghost'.emitted = ghost.emitted /\ ghost'.ended = ghost.ended
    BY DEF record, Fault, IInv, TypeInv
  <1> QED BY <1>2, <1>4, <1>5

\* The worker: a batch is taken whole or counted as dropped, and each record is handled once.
LEMMA WorkerExact ==
  ASSUME IInv, ExactInv, Worker \/ StopBudgetElapses
  PROVE  ExactInv'
  <1>0. /\ UNCHANGED <<setting, kernel, old, main, drain>>
        /\ Count' = Count /\ Endless' = Endless
    BY DEF Worker, WorkerRecv, WorkerRecord, WorkerTick, WorkerDisconnected, ObserverDrop,
       StopBudgetElapses, Count, MaxEmit, Endless
  <1>1. worker \in WorkerState /\ stats \in Stats /\ channel \in Seq(Nat) /\ worker.pc # "gone"
    BY DEF IInv, TypeInv, Worker, WorkerRecv, WorkerRecord, WorkerTick, WorkerDisconnected, ObserverDrop,
       StopBudgetElapses
  <1>2. CASE WorkerRecv
    <2>0. ghost' = ghost /\ channel # << >> /\ channel' = Tail(channel) /\ worker.left = 0 /\ worker.pc = "recv"
      BY <1>2 DEF WorkerRecv, ExactInv, IdleInv
    <2>1. Queued = Head(channel) + Queued' /\ Queued' \in Nat /\ Head(channel) \in Nat
      <3>1. Head(channel) \in Nat /\ Tail(channel) \in Seq(Nat)
        BY <1>1, <2>0
      <3> QED BY <1>1, <2>0, <3>1, TotalSteps DEF Queued
    <2>2. CASE stop /\ worker.budget = "spent"
      <3>1. /\ worker' = worker
            /\ stats' = [stats EXCEPT !.userspace_drops = Plus(stats.userspace_drops, Head(channel))]
        BY <1>2, <2>2 DEF WorkerRecv
      <3>2. /\ stats'.handled = stats.handled /\ stats.userspace_drops \in Count
            /\ stats'.userspace_drops = Plus(stats.userspace_drops, Head(channel))
        BY <1>1, <3>1 DEF Stats
      <3>3. ~Endless => stats.userspace_drops + Head(channel) <= MaxEmit
        BY <2>1, Numbers DEF ExactInv, Accounted, InFlight
      <3>4. ~Endless => stats'.userspace_drops = stats.userspace_drops + Head(channel)
        BY <2>1, <3>2, <3>3, Counting
      <3>5. NumInv' /\ IdleInv'
        BY <1>0, <1>1, <2>0, <3>1 DEF ExactInv, NumInv, IdleInv
      <3>6. ~Endless => ghost'.emitted = Accounted'
        <4> SUFFICES ASSUME ~Endless PROVE ghost'.emitted = Accounted' OBVIOUS
        <4>1. ghost.emitted = Accounted /\ stats'.userspace_drops = stats.userspace_drops + Head(channel)
          BY <3>4 DEF ExactInv
        <4>2. Accounted' = kernel.ring + kernel.lost + old.ring + old.lost + (drain.batch + Queued' + worker.left)
                       + stats.handled + stats'.userspace_drops + ghost.ended
          BY <1>0, <2>0, <3>1, <3>2 DEF Accounted, InFlight
        <4>3. ghost'.emitted = ghost.emitted
          BY <2>0
        <4> QED BY <2>1, <4>1, <4>2, <4>3, Numbers DEF Accounted, InFlight
      <3> QED BY <1>0, <3>5, <3>6 DEF ExactInv
    <2>3. CASE ~(stop /\ worker.budget = "spent")
      <3>1. worker'.pc = "records" /\ worker'.left = Head(channel) /\ stats' = stats
        BY <1>2, <2>3 DEF WorkerRecv
      <3>2. NumInv' /\ IdleInv'
        BY <1>0, <1>1, <2>0, <2>1, <3>1 DEF ExactInv, NumInv, IdleInv
      <3>3. ~Endless => ghost'.emitted = Accounted'
        BY <1>0, <2>0, <2>1, <3>1, Numbers DEF ExactInv, Accounted, InFlight
      <3> QED BY <1>0, <3>2, <3>3 DEF ExactInv
    <2> QED BY <2>2, <2>3
  <1>3. CASE StopBudgetElapses
    <2>1. /\ UNCHANGED <<channel, stats, ghost>> /\ worker'.pc = worker.pc /\ worker'.left = worker.left
          /\ Queued' = Queued
      BY <1>1, <1>3 DEF StopBudgetElapses, WorkerState, Queued
    <2>2. NumInv' /\ IdleInv'
      BY <1>0, <2>1 DEF ExactInv, NumInv, IdleInv
    <2> QED BY <1>0, <2>1, <2>2 DEF ExactInv, Accounted, InFlight
  <1>4. CASE WorkerRecord
    <2>1. /\ channel' = channel /\ Queued' = Queued /\ Handle(1) /\ record
          /\ worker.left > 0 /\ worker'.left = worker.left - 1 /\ worker'.pc = "records"
      BY <1>1, <1>4 DEF WorkerRecord, WorkerState, Queued
    <2>2. /\ stats'.handled \in Nat /\ stats'.userspace_drops = stats.userspace_drops
          /\ ~Endless => stats'.handled = stats.handled + 1
          /\ ghost'.emitted = ghost.emitted /\ ghost'.ended = ghost.ended
      <3>1. worker.left + old.ring > 0
        BY <2>1, Numbers
      <3> QED BY <2>1, <3>1, HandleExact
    <2>3. NumInv'
      BY <1>0, <2>1, <2>2, Numbers DEF ExactInv, NumInv
    <2>4. IdleInv'
      BY <1>0, <2>1, <2>2 DEF ExactInv, IdleInv
    <2>5. ~Endless => ghost'.emitted = Accounted'
      BY <1>0, <2>1, <2>2, Numbers DEF ExactInv, Accounted, InFlight
    <2> QED BY <1>0, <2>3, <2>4, <2>5 DEF ExactInv
  <1>5. CASE WorkerTick \/ WorkerDisconnected \/ ObserverDrop
    <2>1. /\ UNCHANGED <<channel, stats>> /\ record_losses /\ Queued' = Queued
          /\ worker'.left = worker.left /\ worker.left = 0
          /\ worker'.pc \in {"drop", "gone"} => channel = << >>
      BY <1>1, <1>5 DEF WorkerTick, WorkerDisconnected, ObserverDrop, WorkerState, Queued, ExactInv, IdleInv
    <2>2. ghost'.emitted = ghost.emitted /\ ghost'.ended = ghost.ended
      BY <2>1 DEF record_losses, Fault, IInv, TypeInv
    <2>3. NumInv' /\ IdleInv'
      BY <1>0, <2>1, <2>2 DEF ExactInv, NumInv, IdleInv
    <2> QED BY <1>0, <2>1, <2>2, <2>3 DEF ExactInv, Accounted, InFlight
  <1> QED BY <1>2, <1>3, <1>4, <1>5 DEF Worker

\* What a sensor that ended had handled and dropped is carried in `ended`.
LEMMA StartExact ==
  ASSUME IInv, ExactInv, StartAdopt \/ StartReplace
  PROVE  ExactInv'
  <1>0. /\ Count' = Count /\ Endless' = Endless /\ Queued' = Queued
        /\ UNCHANGED <<drain, channel, worker>> /\ main \in {"down", "stopped"} /\ main' = "attach"
        /\ stats'.handled = 0 /\ stats'.userspace_drops = 0
    BY DEF StartAdopt, StartReplace, Attaching, Count, MaxEmit, Endless, Queued, threads
  <1>1. /\ ghost'.emitted = ghost.emitted
        /\ ghost'.ended = Plus(ghost.ended, stats.handled + stats.userspace_drops)
    BY DEF StartAdopt, StartReplace, Attaching, IInv, TypeInv
  <1>2. ~old.on /\ old.ring = 0 /\ old.lost = 0
    BY <1>0 DEF ExactInv, IdleInv
  <1>3. /\ ghost'.ended \in Count
        /\ ~Endless => ghost'.ended = ghost.ended + stats.handled + stats.userspace_drops
    <2>1. ghost.ended \in Count /\ stats.handled + stats.userspace_drops \in Nat
      BY Numbers DEF ExactInv, NumInv
    <2>2. ~Endless => ghost.ended + (stats.handled + stats.userspace_drops) <= MaxEmit
      BY Numbers DEF ExactInv, Accounted, InFlight
    <2> QED BY <1>1, <2>1, <2>2, Counting, Numbers
  <1>4. \/ UNCHANGED <<kernel, old>>
        \/ /\ kernel'.ring = 0 /\ kernel'.lost = 0
           /\ old'.on /\ old'.ring = kernel.ring /\ old'.lost = kernel.lost
    <2>1. CASE StartAdopt
      BY <2>1 DEF StartAdopt
    <2>2. CASE StartReplace
      <3>1. /\ kernel' = [ring |-> 0, lost |-> 0]
            /\ old' = [on |-> TRUE, ring |-> kernel.ring, lost |-> kernel.lost,
                        before |-> Plus(ghost.before, log.kernel)]
        BY <2>2, Zenon DEF StartReplace
      <3> QED BY <3>1, Zenon
    <2> QED BY <2>1, <2>2
  <1>5. NumInv'
    BY <1>0, <1>1, <1>3, <1>4, Numbers DEF ExactInv, NumInv
  <1>6. IdleInv'
    BY <1>0, <1>2, <1>4 DEF ExactInv, IdleInv
  <1>7. ~Endless => ghost'.emitted = Accounted'
    BY <1>0, <1>1, <1>2, <1>3, <1>4, Numbers DEF ExactInv, Accounted, InFlight
  <1> QED BY <1>0, <1>5, <1>6, <1>7 DEF ExactInv

\* The replaced ring: each record read is handled, the rest ends with the set.
LEMMA OpenExact ==
  ASSUME IInv, ExactInv, OpenObserver \/ DrainOldRing \/ StartConsumer
  PROVE  ExactInv'
  <1>0. /\ Count' = Count /\ Endless' = Endless /\ Queued' = Queued
        /\ UNCHANGED <<kernel, channel>> /\ main \in {"attach", "oldring"}
    BY DEF OpenObserver, DrainOldRing, StartConsumer, Count, MaxEmit, Endless, Queued, threads
  <1>1. CASE OpenObserver
    <2>1. UNCHANGED <<old, drain, worker, stats, ghost>> /\ main' = "oldring"
      BY <1>1 DEF OpenObserver, threads
    <2>2. NumInv' /\ IdleInv'
      BY <1>0, <2>1 DEF ExactInv, NumInv, IdleInv
    <2> QED BY <1>0, <2>1, <2>2 DEF ExactInv, Accounted, InFlight
  <1>2. CASE DrainOldRing
    <2>1. /\ UNCHANGED <<main, drain, worker>> /\ Handle(1) /\ record /\ main = "oldring"
          /\ old.ring > 0 /\ old'.ring = old.ring - 1 /\ old'.lost = old.lost /\ old'.on = old.on
      BY <1>2 DEF DrainOldRing, threads, IInv, TypeInv, OldSet
    <2>2. /\ stats'.handled \in Nat /\ stats'.userspace_drops = stats.userspace_drops
          /\ ~Endless => stats'.handled = stats.handled + 1
          /\ ghost'.emitted = ghost.emitted /\ ghost'.ended = ghost.ended
      <3>1. worker.left + old.ring > 0
        BY <2>1, Numbers
      <3> QED BY <2>1, <3>1, HandleExact
    <2>3. NumInv'
      BY <1>0, <2>1, <2>2, Numbers DEF ExactInv, NumInv
    <2>4. IdleInv'
      BY <1>0, <2>1, <2>2, Numbers DEF ExactInv, IdleInv
    <2>5. ASSUME ~Endless PROVE ghost'.emitted = Accounted'
      <3>1. Accounted' = kernel.ring + kernel.lost + (old.ring - 1) + old.lost + InFlight
                          + (stats.handled + 1) + stats.userspace_drops + ghost.ended
        BY <1>0, <2>1, <2>2, <2>5 DEF Accounted, InFlight
      <3>2. ghost.emitted = Accounted
        BY <2>5 DEF ExactInv
      <3>3. InFlight \in Nat
        BY Numbers DEF InFlight
      <3>4. Accounted' = Accounted
        BY <3>1, <3>3, Numbers DEF Accounted
      <3> QED BY <2>2, <3>2, <3>4
    <2> QED BY <1>0, <2>3, <2>4, <2>5 DEF ExactInv
  <1>3. CASE StartConsumer
    <2>1. /\ main = "oldring" /\ stats' = stats
          /\ ~old'.on /\ old'.ring = 0 /\ old'.lost = 0
          /\ drain'.batch = 0 /\ worker'.left = 0 /\ worker'.pc = "recv"
      BY <1>3 DEF StartConsumer, NoOld, DrainAt, WorkerAt
    <2>2. ghost'.emitted = ghost.emitted /\ ghost'.ended = Plus(ghost.ended, old.ring + old.lost)
      BY <1>3 DEF StartConsumer, IInv, TypeInv
    <2>3. /\ ghost'.ended \in Count
          /\ ~Endless => ghost'.ended = ghost.ended + old.ring + old.lost
      <3>1. ghost.ended \in Count /\ old.ring + old.lost \in Nat
        BY Numbers DEF ExactInv, NumInv
      <3>2. ~Endless => ghost.ended + (old.ring + old.lost) <= MaxEmit
        BY Numbers DEF ExactInv, Accounted, InFlight
      <3>3. /\ ghost'.ended \in Count
            /\ ~Endless => ghost'.ended = ghost.ended + (old.ring + old.lost)
        BY <2>2, <3>1, <3>2, Counting, Zenon
      <3> QED BY <3>3, Numbers
    <2>4. drain.batch = 0 /\ worker.left = 0 /\ BATCH > 0
      BY <2>1, PipelineAssumption DEF IInv, ThreadInv, ExactInv, IdleInv
    <2>5. NumInv'
      BY <1>0, <2>1, <2>2, <2>3, <2>4, Numbers DEF ExactInv, NumInv
    <2>6. IdleInv'
      BY <2>1 DEF IdleInv
    <2>7. ~Endless => ghost'.emitted = Accounted'
      BY <1>0, <2>1, <2>2, <2>3, <2>4, Numbers DEF ExactInv, Accounted, InFlight
    <2> QED BY <1>0, <2>5, <2>6, <2>7 DEF ExactInv
  <1> QED BY <1>1, <1>2, <1>3

\* The main loop moves no event.
LEMMA LoopExact ==
  ASSUME IInv, ExactInv, LossTick \/ shutdown \/ Joined
  PROVE  ExactInv'
  <1>1. /\ Count' = Count /\ Endless' = Endless /\ Queued' = Queued
        /\ UNCHANGED <<kernel, old, drain, channel, worker, stats, ghost>>
        /\ main \in {"up", "join"}
    BY DEF LossTick, shutdown, Joined, Count, MaxEmit, Endless, Queued, threads
  <1>2. NumInv' /\ IdleInv'
    BY <1>1 DEF ExactInv, NumInv, IdleInv
  <1> QED BY <1>1, <1>2 DEF ExactInv, Accounted, InFlight

\* A kill: what was on its way ends with the sensor, or the new set does.
LEMMA KillExact ==
  ASSUME IInv, ExactInv, Kill
  PROVE  ExactInv'
  <1>0. /\ Count' = Count /\ Endless' = Endless /\ Queued' = 0 /\ stats' = stats /\ channel' = << >>
    <2>1. channel' = << >> /\ << >> \in Seq(Nat)
      BY DEF Kill
    <2>2. Queued' = 0
      BY <2>1, TotalEmpty DEF Queued
    <2> QED BY <2>1, <2>2 DEF Kill, Count, MaxEmit, Endless
  <1>1. /\ ~old'.on /\ old'.ring = 0 /\ old'.lost = 0
        /\ drain'.batch = 0 /\ worker'.left = 0 /\ worker'.pc = "gone"
    BY DEF Kill, NoOld, DrainAt, WorkerAt
  <1>2. BATCH > 0 /\ ghost'.emitted = ghost.emitted
    <2>1. BATCH > 0
      BY PipelineAssumption
    <2>2. \E b, e : ghost' = [ghost EXCEPT !.kills = @ + 1, !.before = b, !.ended = e]
      <3>1. CASE old.on
        BY <3>1 DEF Kill
      <3>2. CASE ~old.on
        <4>1. ghost' = [ghost EXCEPT !.kills = @ + 1, !.ended = Plus(@, InFlight)]
          BY <3>2 DEF Kill
        <4>2. ghost' = [ghost EXCEPT !.kills = @ + 1, !.before = ghost.before, !.ended = Plus(@, InFlight)]
          BY <4>1 DEF IInv, TypeInv
        <4> QED BY <4>2
      <3> QED BY <3>1, <3>2
    <2>3. "emitted" \in DOMAIN ghost
      BY DEF IInv, TypeInv
    <2> QED BY <2>1, <2>2, <2>3
  <1>3. IdleInv'
    BY <1>0, <1>1 DEF IdleInv
  <1>4. CASE old.on
    <2>1. /\ kernel'.ring = old.ring /\ kernel'.lost = old.lost
          /\ ghost'.ended = Plus(ghost.ended, kernel.ring + kernel.lost)
      <3>1. /\ kernel' = [ring |-> old.ring, lost |-> old.lost]
            /\ ghost' = [ghost EXCEPT !.kills = @ + 1, !.before = old.before,
                                      !.ended = Plus(@, kernel.ring + kernel.lost)]
        BY <1>4 DEF Kill
      <3>2. "ended" \in DOMAIN ghost
        BY DEF IInv, TypeInv
      <3> QED BY <3>1, <3>2
    <2>2. drain.batch = 0 /\ worker.left = 0 /\ channel = << >>
      BY <1>4 DEF IInv, ThreadInv, ExactInv, IdleInv
    <2>3. Queued = 0
      BY <2>2, TotalEmpty DEF Queued
    <2>4. /\ ghost'.ended \in Count
          /\ ~Endless => ghost'.ended = ghost.ended + kernel.ring + kernel.lost
      <3>1. ghost.ended \in Count /\ kernel.ring + kernel.lost \in Nat
        BY Numbers DEF ExactInv, NumInv
      <3>2. ~Endless => ghost.ended + (kernel.ring + kernel.lost) <= MaxEmit
        BY Numbers DEF ExactInv, Accounted, InFlight
      <3>3. /\ ghost'.ended \in Count
            /\ ~Endless => ghost'.ended = ghost.ended + (kernel.ring + kernel.lost)
        BY <2>1, <3>1, <3>2, Counting, Zenon
      <3> QED BY <3>3, Numbers
    <2>5. NumInv'
      BY <1>0, <1>1, <1>2, <2>1, <2>4, Numbers DEF ExactInv, NumInv
    <2>6. ~Endless => ghost'.emitted = Accounted'
      <3> SUFFICES ASSUME ~Endless PROVE ghost'.emitted = Accounted' OBVIOUS
      <3>1. /\ ghost.emitted = kernel.ring + kernel.lost + old.ring + old.lost + (drain.batch + Queued + worker.left)
                               + stats.handled + stats.userspace_drops + ghost.ended
            /\ ghost'.ended = ghost.ended + kernel.ring + kernel.lost
        BY <2>4 DEF ExactInv, Accounted, InFlight
      <3>2. Accounted' = old.ring + old.lost + 0 + 0 + (0 + 0 + 0)
                     + stats.handled + stats.userspace_drops + ghost'.ended
        BY <1>0, <1>1, <2>1 DEF Accounted, InFlight
      <3>3. /\ kernel.ring \in Int /\ kernel.lost \in Int /\ old.ring \in Int /\ old.lost \in Int
            /\ drain.batch \in Int /\ Queued \in Int /\ worker.left \in Int /\ stats.handled \in Int
            /\ stats.userspace_drops \in Int /\ ghost.ended \in Int /\ ghost.emitted \in Int
        BY Numbers
      <3> QED BY <1>2, <2>2, <2>3, <3>1, <3>2, <3>3, SMTT(30)
    <2> QED BY <1>0, <1>3, <2>5, <2>6 DEF ExactInv
  <1>5. CASE ~old.on
    <2>1. /\ kernel' = kernel /\ old.ring = 0 /\ old.lost = 0
          /\ ghost'.ended = Plus(ghost.ended, InFlight)
      <3>1. kernel' = kernel /\ ghost'.ended = Plus(ghost.ended, InFlight)
        BY <1>5, Zenon DEF Kill, IInv, TypeInv
      <3> QED BY <1>5, <3>1 DEF ExactInv, IdleInv
    <2>2. /\ ghost'.ended \in Count
          /\ ~Endless => ghost'.ended = ghost.ended + InFlight
      <3>1. ghost.ended \in Count /\ InFlight \in Nat
        BY Numbers DEF ExactInv, NumInv, InFlight
      <3>2. ~Endless => ghost.ended + InFlight <= MaxEmit
        BY Numbers DEF ExactInv, Accounted, InFlight
      <3> QED BY <2>1, <3>1, <3>2, Counting
    <2>3. NumInv'
      BY <1>0, <1>1, <1>2, <2>1, <2>2, Numbers DEF ExactInv, NumInv
    <2>4. ~Endless => ghost'.emitted = Accounted'
      <3> SUFFICES ASSUME ~Endless PROVE ghost'.emitted = Accounted' OBVIOUS
      <3>1. ghost.emitted = Accounted /\ ghost'.ended = ghost.ended + InFlight
        BY <2>2 DEF ExactInv
      <3>2. Accounted' = kernel.ring + kernel.lost + 0 + 0 + (0 + 0 + 0)
                     + stats.handled + stats.userspace_drops + ghost'.ended
        BY <1>0, <1>1, <2>1 DEF Accounted, InFlight
      <3> QED BY <1>2, <2>1, <3>1, <3>2, Numbers DEF Accounted, InFlight
    <2> QED BY <1>0, <1>3, <2>3, <2>4 DEF ExactInv
  <1> QED BY <1>4, <1>5

\* Nothing has been emitted at first.
LEMMA InitExact == Init => ExactInv
  <1> SUFFICES ASSUME Init PROVE ExactInv OBVIOUS
  <1>1. Queued = 0
    BY TotalEmpty DEF Init, Queued
  <1>2. BATCH > 0 /\ 0 \in Count
    BY PipelineAssumption, InitIInv, CountFacts DEF IInv
  <1> QED BY <1>1, <1>2 DEF Init, ExactInv, NumInv, IdleInv, Accounted, InFlight, NoOld, DrainAt, WorkerAt

\* Every event a program produced is accounted for, and a stopped sensor has none on its
\* way (rk_emit, send, the worker's STOP_BUDGET, finish_replacement).
THEOREM NoEventUnaccounted == Spec => []LossIsExact
  <1>1. IInv /\ ExactInv /\ [Next]_vars => ExactInv'
    <2> SUFFICES ASSUME IInv, ExactInv, [Next]_vars PROVE ExactInv' OBVIOUS
    <2>1. CASE Next
      BY <2>1, EmitExact, DrainExact, WorkerExact, StartExact, OpenExact, LoopExact, KillExact DEF Next, Main
    <2>2. CASE UNCHANGED vars
      BY <2>2 DEF vars, ExactInv, NumInv, IdleInv, Accounted, InFlight, Queued, Count, MaxEmit, Endless
    <2> QED BY <2>1, <2>2
  <1>2. IInv /\ ExactInv => LossIsExact
    <2> SUFFICES ASSUME IInv, ExactInv PROVE LossIsExact OBVIOUS
    <2>1. ASSUME main = "stopped" PROVE InFlight = 0
      <3>1. drain.batch = 0 /\ worker.left = 0 /\ channel = << >>
        BY <2>1 DEF IInv, ThreadInv, ExactInv, IdleInv
      <3>2. Queued = 0
        BY <3>1, TotalEmpty DEF Queued
      <3> QED BY <3>1, <3>2 DEF InFlight
    <2> QED BY <2>1 DEF LossIsExact, ExactInv, Accounted
  <1> QED BY <1>1, <1>2, InitIInv, InitExact, Step, PTL DEF Spec

-----------------------------------------------------------------------------
(***************************************************************************)
(* The process table names the process that decided. The processes that    *)
(* held one tgid are ordered by their starts. Nothing in the table so far  *)
(* is of a later process than the events still queued and the lookup under *)
(* way (NoneLater), and what the lookup read in /proc is the process it    *)
(* asks about, one that started after the event, or none (LookInv).        *)
(***************************************************************************)
Starts == Nat \ {None}
QueuedEvent == [kind : {"exec", "decision"}, tgid : Tgids, ts : Nat, by : Starts]
Entry == [tgid : Tgids, start : Nat, of : Starts]
Lookup == [tgid : Tgids, ts : Nat, by : Starts, live : Nat]

TableTypeInv ==
  /\ now \in Nat
  /\ holder \in [Tgids -> Nat] /\ freed \in [Tgids -> Nat]
  /\ queue \in Seq(QueuedEvent) /\ cache \in Seq(Entry)
  /\ looking = Idle \/ looking \in Lookup
  /\ seen \in SUBSET (Tgids \X Starts)

\* The process by of t, which lived at ts, lives still, or left t free no earlier than ts.
Succeeded(t, by, ts) ==
  holder[t] = by \/ (holder[t] = None /\ ts <= freed[t]) \/ holder[t] > ts

\* What was made for t is for no later process than this one.
NoneLater(t, by) == \A p \in seen : p[1] = t => p[2] <= by

TimeInv == \A t \in Tgids : /\ holder[t] <= now /\ freed[t] <= now
                            /\ NoneLater(t, now)
                            /\ holder[t] # None => NoneLater(t, holder[t])

QueueInv ==
  \A i \in 1..Len(queue) :
    /\ queue[i].by <= queue[i].ts /\ queue[i].ts <= now
    /\ Succeeded(queue[i].tgid, queue[i].by, queue[i].ts)
    /\ NoneLater(queue[i].tgid, queue[i].by)
    /\ \A j \in 1..Len(queue) : i < j /\ queue[i].tgid = queue[j].tgid => queue[i].by <= queue[j].by

CacheInv ==
  /\ \A i \in 1..Len(cache) :
       /\ cache[i].start \in {None, cache[i].of}
       /\ <<cache[i].tgid, cache[i].of>> \in seen
       /\ NoneLater(cache[i].tgid, cache[i].of)
  /\ \A i, j \in 1..Len(cache) : cache[i].tgid = cache[j].tgid => i = j

LookInv ==
  looking # Idle =>
    /\ looking.by <= looking.ts /\ looking.by <= now
    /\ looking.live \in {None, looking.by} \/ looking.live > looking.ts
    /\ looking.live # None => \/ holder[looking.tgid] = looking.live
                              \/ holder[looking.tgid] = None /\ freed[looking.tgid] = now
    /\ holder[looking.tgid] # None => looking.by <= holder[looking.tgid]
    /\ NoneLater(looking.tgid, looking.by)
    /\ \A i \in 1..Len(queue) : queue[i].tgid = looking.tgid => looking.by <= queue[i].by

TableInv == TableTypeInv /\ TimeInv /\ QueueInv /\ CacheInv /\ LookInv
-----------------------------------------------------------------------------
\* What Without leaves of a sequence.
LEMMA WithoutFacts ==
  ASSUME NEW S, NEW c \in Seq(S), NEW i \in 1..Len(c)
  PROVE  /\ Without(c, i) \in Seq(S)
         /\ Len(Without(c, i)) = Len(c) - 1
         /\ \A j \in 1..(Len(c) - 1) : Without(c, i)[j] = IF j < i THEN c[j] ELSE c[j + 1]
  <1> DEFINE a == SubSeq(c, 1, i - 1)
             b == SubSeq(c, i + 1, Len(c))
  <1>0. Len(c) \in Nat /\ \A k \in 1..Len(c) : c[k] \in S
    BY SeqLength, SeqElements
  <1>1. /\ a \in Seq(S) /\ Len(a) = i - 1
        /\ \A j \in 1..(i - 1) : a[j] = c[j]
    <2>1. \A k \in 1..(i - 1) : c[k] \in S
      BY <1>0
    <2>2. 1 \in Int /\ i - 1 \in Int
      BY <1>0
    <2>3. /\ a \in Seq(S) /\ Len(a) = (IF 1 <= i - 1 THEN (i - 1) - 1 + 1 ELSE 0)
          /\ \A j \in 1 .. (i - 1) - 1 + 1 : a[j] = c[1 + j - 1]
      BY <2>1, <2>2, SeqSubSeq
    <2> QED BY <2>3, <1>0
  <1>2. /\ b \in Seq(S) /\ Len(b) = Len(c) - i
        /\ \A j \in 1..(Len(c) - i) : b[j] = c[i + j]
    <2>1. \A k \in (i + 1)..Len(c) : c[k] \in S
      BY <1>0
    <2>2. i + 1 \in Int /\ Len(c) \in Int
      BY <1>0
    <2>3. /\ b \in Seq(S) /\ Len(b) = (IF i + 1 <= Len(c) THEN Len(c) - (i + 1) + 1 ELSE 0)
          /\ \A j \in 1 .. Len(c) - (i + 1) + 1 : b[j] = c[(i + 1) + j - 1]
      BY <2>1, <2>2, SeqSubSeq
    <2> QED BY <2>3, <1>0
  <1> HIDE DEF a, b
  <1>3. /\ a \o b \in Seq(S) /\ Len(a \o b) = Len(a) + Len(b)
        /\ \A j \in 1..Len(a) + Len(b) : (a \o b)[j] = IF j <= Len(a) THEN a[j] ELSE b[j - Len(a)]
    BY <1>1, <1>2, SeqConcat
  <1>4. Without(c, i) = a \o b
    BY DEF Without, a, b
  <1>5. Len(a) + Len(b) = Len(c) - 1
    BY <1>0, <1>1, <1>2
  <1>6. ASSUME NEW j \in 1..(Len(c) - 1)
        PROVE  (a \o b)[j] = IF j < i THEN c[j] ELSE c[j + 1]
    <2>1. (a \o b)[j] = IF j <= i - 1 THEN a[j] ELSE b[j - (i - 1)]
      BY <1>1, <1>3, <1>5
    <2>2. CASE j < i
      BY <2>1, <2>2, <1>0, <1>1
    <2>3. CASE ~(j < i)
      <3>1. j - (i - 1) \in 1..(Len(c) - i) /\ i + (j - (i - 1)) = j + 1
        BY <2>3, <1>0
      <3>2. b[j - (i - 1)] = c[j + 1]
        BY <3>1, <1>2
      <3> QED BY <2>1, <2>3, <3>2, <1>0
    <2> QED BY <2>2, <2>3
  <1> QED
    BY <1>3, <1>4, <1>5, <1>6

\* Taking out the entry of t leaves the others, in their order.
LEMMA OthersFacts ==
  ASSUME TableTypeInv, CacheInv, NEW t \in Tgids
  PROVE  /\ Others(t) \in Seq(Entry)
         /\ \A j \in 1..Len(Others(t)) :
              \E k \in 1..Len(cache) : Others(t)[j] = cache[k] /\ cache[k].tgid # t
         /\ \A i, j \in 1..Len(Others(t)) : Others(t)[i].tgid = Others(t)[j].tgid => i = j
  <1>0. cache \in Seq(Entry) /\ Len(cache) \in Nat /\ DOMAIN cache = 1..Len(cache)
    BY SeqLength DEF TableTypeInv
  <1>1. CASE Entries(t) = {}
    BY <1>0, <1>1 DEF Others, Entries, CacheInv
  <1>2. CASE Entries(t) # {}
    <2> DEFINE i == CHOOSE k \in Entries(t) : TRUE
               o == Without(cache, i)
    <2>1. i \in Entries(t)
      BY <1>2
    <2> HIDE DEF i
    <2>2. i \in 1..Len(cache) /\ cache[i].tgid = t
      BY <1>0, <2>1 DEF Entries
    <2>3. /\ o \in Seq(Entry) /\ Len(o) = Len(cache) - 1
          /\ \A j \in 1..(Len(cache) - 1) : o[j] = IF j < i THEN cache[j] ELSE cache[j + 1]
      BY <1>0, <2>2, WithoutFacts
    <2>4. Others(t) = o
      BY <1>2 DEF Others, i
    <2> HIDE DEF o
    <2> DEFINE at(j) == IF j < i THEN j ELSE j + 1
    <2>5. ASSUME NEW j \in 1..Len(o)
          PROVE  at(j) \in 1..Len(cache) /\ o[j] = cache[at(j)] /\ at(j) # i
      BY <1>0, <2>2, <2>3
    <2>6. ASSUME NEW j \in 1..Len(o) PROVE cache[at(j)].tgid # t
      BY <2>2, <2>5 DEF CacheInv
    <2>7. ASSUME NEW j \in 1..Len(o), NEW k \in 1..Len(o), o[j].tgid = o[k].tgid PROVE j = k
      <3>1. at(j) = at(k)
        BY <2>5, <2>7 DEF CacheInv
      <3> QED BY <1>0, <2>2, <2>3, <3>1
    <2> HIDE DEF at
    <2> QED BY <2>3, <2>4, <2>5, <2>6, <2>7, Zenon
  <1> QED BY <1>1, <1>2

\* After a Put the entry is the only one of its tgid, and every other one was there.
LEMMA PutFacts ==
  ASSUME TableTypeInv, CacheInv, NEW e \in Entry, Put(e)
  PROVE  /\ cache' \in Seq(Entry)
         /\ \A j \in 1..Len(cache') :
              \/ cache'[j] = e
              \/ \E k \in 1..Len(cache) : cache'[j] = cache[k] /\ cache[k].tgid # e.tgid
         /\ \A i, j \in 1..Len(cache') : cache'[i].tgid = cache'[j].tgid => i = j
  <1> DEFINE o == Others(e.tgid)
             l == <<e>> \o o
  <1>1. e.tgid \in Tgids
    BY DEF Entry
  <1>2. /\ o \in Seq(Entry)
        /\ \A j \in 1..Len(o) : \E k \in 1..Len(cache) : o[j] = cache[k] /\ cache[k].tgid # e.tgid
        /\ \A i, j \in 1..Len(o) : o[i].tgid = o[j].tgid => i = j
    BY <1>1, OthersFacts
  <1> HIDE DEF o
  <1>3. /\ l \in Seq(Entry) /\ Len(l) = 1 + Len(o) /\ l[1] = e
        /\ \A j \in 2..Len(l) : l[j] = o[j - 1]
    <2>1. <<e>> \in Seq(Entry) /\ Len(<<e>>) = 1 /\ <<e>>[1] = e
      OBVIOUS
    <2>2. /\ l \in Seq(Entry) /\ Len(l) = Len(<<e>>) + Len(o)
          /\ \A i \in 1..Len(<<e>>) + Len(o) : l[i] = IF i <= Len(<<e>>) THEN <<e>>[i] ELSE o[i - Len(<<e>>)]
      BY <1>2, <2>1, SeqConcat
    <2> HIDE DEF l
    <2>3. Len(o) \in Nat
      BY <1>2
    <2> QED BY <2>1, <2>2, <2>3
  <1> HIDE DEF l
  <1>4. Len(l) \in Nat /\ Len(o) \in Nat
    BY <1>2, <1>3
  <1>5. ASSUME NEW j \in 1..Len(l)
        PROVE  \/ l[j] = e /\ j = 1
               \/ /\ j - 1 \in 1..Len(o) /\ l[j] = o[j - 1]
                  /\ \E k \in 1..Len(cache) : l[j] = cache[k] /\ cache[k].tgid # e.tgid
    <2>1. CASE j = 1 BY <2>1, <1>3
    <2>2. CASE j # 1
      <3>1. j \in 2..Len(l) /\ j - 1 \in 1..Len(o)
        BY <2>2, <1>3, <1>4
      <3>2. l[j] = o[j - 1]
        BY <3>1, <1>3
      <3> QED BY <3>1, <3>2, <1>2
    <2> QED BY <2>1, <2>2
  <1>6. ASSUME NEW i \in 1..Len(l), NEW j \in 1..Len(l), l[i].tgid = l[j].tgid PROVE i = j
    <2>1. CASE i = 1 \/ j = 1
      BY <1>3, <1>5, <1>6, <2>1
    <2>2. CASE i # 1 /\ j # 1
      <3>1. i - 1 \in 1..Len(o) /\ j - 1 \in 1..Len(o) /\ o[i - 1].tgid = o[j - 1].tgid
        BY <1>5, <1>6, <2>2
      <3>2. i - 1 = j - 1
        BY <3>1, <1>2
      <3> QED BY <3>2
    <2> QED BY <2>1, <2>2
  <1>7. Capacity \in Int /\ Capacity >= 1 /\ 1 \in Int
    BY TableAssumption
  <1>8. cache' = IF Len(l) <= Capacity THEN l ELSE SubSeq(l, 1, Capacity)
    BY DEF Put, l, o
  <1>9. CASE ~(Len(l) <= Capacity)
    <2>1. \A i \in 1..Capacity : l[i] \in Entry
      BY <1>3, <1>4, <1>7, <1>9, SeqElements
    <2>2. /\ cache' \in Seq(Entry)
          /\ Len(cache') = (IF 1 <= Capacity THEN Capacity - 1 + 1 ELSE 0)
          /\ \A i \in 1..(Capacity - 1 + 1) : cache'[i] = l[1 + i - 1]
      BY <2>1, <1>7, <1>8, <1>9, SeqSubSeq
    <2>3. Len(cache') = Capacity /\ \A i \in 1..Capacity : cache'[i] = l[i]
      BY <2>2, <1>7
    <2>4. \A i \in 1..Len(cache') : i \in 1..Len(l) /\ cache'[i] = l[i]
      BY <2>3, <1>4, <1>7, <1>9
    <2>5. ASSUME NEW j \in 1..Len(cache')
          PROVE  \/ cache'[j] = e
                 \/ \E k \in 1..Len(cache) : cache'[j] = cache[k] /\ cache[k].tgid # e.tgid
      BY <2>4, <1>5
    <2>6. ASSUME NEW i \in 1..Len(cache'), NEW j \in 1..Len(cache'), cache'[i].tgid = cache'[j].tgid
          PROVE  i = j
      BY <2>4, <2>6, <1>6
    <2> QED BY <2>2, <2>5, <2>6
  <1>10. CASE Len(l) <= Capacity
    BY <1>3, <1>5, <1>6, <1>8, <1>10
  <1> QED BY <1>9, <1>10

\* The table is empty at the start.
LEMMA InitTable == PInit => TableInv /\ NamesDecider
  BY DEF PInit, TableInv, TableTypeInv, TimeInv, QueueInv, CacheInv, LookInv, NoneLater,
         NamesDecider, NoAnswer, None, Starts

\* Processes come and go, and time passes.
LEMMA ProcessStep ==
  ASSUME TableInv, \/ \E t \in Tgids : Fork(t) \/ Exit(t)
                   \/ PTick
  PROVE  TableInv' /\ NamesDecider'
  <1> USE DEF TableInv, None
  <1>1. NamesDecider'
    BY DEF Fork, Exit, PTick, NamesDecider, NoAnswer
  <1>2. CASE PTick
    <2>1. looking = Idle /\ now' = now + 1 /\ UNCHANGED <<holder, freed, queue, cache, looking, seen>>
      BY <1>2 DEF PTick
    <2>2. TableTypeInv' /\ CacheInv' /\ LookInv'
      BY <2>1 DEF TableTypeInv, CacheInv, LookInv, NoneLater, Entry
    <2>3. TimeInv'
      BY <2>1 DEF TableTypeInv, TimeInv, NoneLater, Starts
    <2>4. QueueInv'
      <3> SUFFICES ASSUME NEW i \in 1..Len(queue) PROVE queue[i].ts <= now'
        BY <2>1 DEF QueueInv, NoneLater, Succeeded
      <3>1. queue[i] \in QueuedEvent /\ queue[i].ts <= now
        BY SeqElements DEF TableTypeInv, QueueInv
      <3> QED BY <2>1, <3>1 DEF TableTypeInv, QueuedEvent
    <2> QED BY <1>1, <2>2, <2>3, <2>4
  <1>3. ASSUME NEW t \in Tgids, Fork(t) PROVE TableInv'
    <2>1. /\ holder[t] = 0 /\ freed[t] < now /\ holder' = [holder EXCEPT ![t] = now]
          /\ UNCHANGED <<now, freed, queue, cache, looking, seen>>
      BY <1>3 DEF Fork
    <2>2. TableTypeInv' /\ CacheInv'
      BY <2>1 DEF TableTypeInv, CacheInv, NoneLater
    <2>3. TimeInv'
      BY <2>1 DEF TableTypeInv, TimeInv, NoneLater
    <2>4. QueueInv'
      <3> SUFFICES ASSUME NEW i \in 1..Len(queue)
                   PROVE  Succeeded(queue[i].tgid, queue[i].by, queue[i].ts)'
        BY <2>1 DEF QueueInv, NoneLater
      <3>1. queue[i] \in QueuedEvent
        BY SeqElements DEF TableTypeInv
      <3>2. queue[i].ts <= now /\ Succeeded(queue[i].tgid, queue[i].by, queue[i].ts)
        BY DEF QueueInv
      <3> QED BY <2>1, <3>1, <3>2 DEF TableTypeInv, Succeeded, QueuedEvent, Starts
    <2>5. LookInv'
      BY <2>1 DEF TableTypeInv, TimeInv, LookInv, NoneLater, Lookup
    <2> QED BY <2>2, <2>3, <2>4, <2>5
  <1>4. ASSUME NEW t \in Tgids, Exit(t) PROVE TableInv'
    <2>1. /\ holder[t] # 0 /\ holder' = [holder EXCEPT ![t] = 0] /\ freed' = [freed EXCEPT ![t] = now]
          /\ UNCHANGED <<now, queue, cache, looking, seen>>
      BY <1>4 DEF Exit
    <2>2. TableTypeInv' /\ CacheInv'
      BY <2>1 DEF TableTypeInv, CacheInv, NoneLater
    <2>3. TimeInv'
      BY <2>1 DEF TableTypeInv, TimeInv, NoneLater
    <2>4. QueueInv'
      <3> SUFFICES ASSUME NEW i \in 1..Len(queue)
                   PROVE  Succeeded(queue[i].tgid, queue[i].by, queue[i].ts)'
        BY <2>1 DEF QueueInv, NoneLater
      <3>1. queue[i] \in QueuedEvent
        BY SeqElements DEF TableTypeInv
      <3>2. queue[i].ts <= now /\ Succeeded(queue[i].tgid, queue[i].by, queue[i].ts)
        BY DEF QueueInv
      <3> QED BY <2>1, <3>1, <3>2 DEF TableTypeInv, Succeeded, QueuedEvent, Starts
    <2>5. LookInv'
      BY <2>1 DEF TableTypeInv, TimeInv, LookInv, NoneLater, Lookup
    <2> QED BY <2>2, <2>3, <2>4, <2>5
  <1> QED BY <1>1, <1>2, <1>3, <1>4

\* A live process makes an event: it is the newest of its tgid.
LEMMA EventStep ==
  ASSUME TableInv, NEW t \in Tgids, NEW kind \in {"exec", "decision"}, Event(t, kind)
  PROVE  TableInv' /\ NamesDecider'
  <1> USE DEF TableInv, None
  <1> DEFINE e == [kind |-> kind, tgid |-> t, ts |-> now, by |-> holder[t]]
  <1>1. /\ holder[t] # 0 /\ queue' = Append(queue, e)
        /\ UNCHANGED <<now, holder, freed, cache, looking, seen>>
    BY DEF Event
  <1>2. NamesDecider'
    BY DEF Event, NamesDecider, NoAnswer
  <1>3. e \in QueuedEvent
    BY <1>1 DEF TableTypeInv, QueuedEvent, Starts
  <1>4. /\ queue \in Seq(QueuedEvent) /\ Len(queue) \in Nat
        /\ queue' \in Seq(QueuedEvent) /\ Len(queue') = Len(queue) + 1
        /\ \A i \in 1..Len(queue) : queue'[i] = queue[i]
        /\ queue'[Len(queue) + 1] = e
    BY <1>1, <1>3, SeqAppend, SeqLength DEF TableTypeInv
  <1>5. e.tgid = t /\ e.ts = now /\ e.by = holder[t]
    OBVIOUS
  <1> HIDE DEF e
  <1>6. TableTypeInv' /\ CacheInv' /\ TimeInv'
    BY <1>1, <1>4 DEF TableTypeInv, CacheInv, TimeInv, NoneLater
  <1>7. QueueInv'
    <2>1. ASSUME NEW i \in 1..Len(queue)
          PROVE  /\ queue[i] \in QueuedEvent
                 /\ queue[i].tgid = t => queue[i].by <= holder[t]
      <3>1. queue[i] \in QueuedEvent
        BY SeqElements, <1>4
      <3>2. queue[i].by <= queue[i].ts /\ Succeeded(queue[i].tgid, queue[i].by, queue[i].ts)
        BY DEF QueueInv
      <3> QED BY <1>1, <3>1, <3>2 DEF TableTypeInv, Succeeded, QueuedEvent, Starts
    <2>2. ASSUME NEW i \in 1..Len(queue)
          PROVE  \A j \in 1..Len(queue') : i < j /\ queue'[i].tgid = queue'[j].tgid
                                             => queue'[i].by <= queue'[j].by
      BY <1>4, <1>5, <2>1 DEF QueueInv
    <2>3. ASSUME NEW i \in 1..Len(queue)
          PROVE  /\ queue'[i].by <= queue'[i].ts /\ queue'[i].ts <= now'
                 /\ Succeeded(queue[i].tgid, queue[i].by, queue[i].ts)'
                 /\ NoneLater(queue[i].tgid, queue[i].by)'
      BY <1>1, <1>4 DEF QueueInv, Succeeded, NoneLater
    <2>4. /\ holder[t] <= now /\ now <= now' /\ holder'[t] = holder[t]
          /\ \A p \in seen' : p[1] = t => p[2] <= holder[t]
      BY <1>1 DEF TableTypeInv, TimeInv, NoneLater
    <2> SUFFICES ASSUME NEW i \in 1..Len(queue')
                 PROVE  /\ queue'[i].by <= queue'[i].ts /\ queue'[i].ts <= now'
                        /\ Succeeded(queue[i].tgid, queue[i].by, queue[i].ts)'
                        /\ NoneLater(queue[i].tgid, queue[i].by)'
                        /\ \A j \in 1..Len(queue') : i < j /\ queue'[i].tgid = queue'[j].tgid
                                             => queue'[i].by <= queue'[j].by
      BY DEF QueueInv
    <2>5. CASE i \in 1..Len(queue)
      BY <2>2, <2>3, <2>5
    <2>6. CASE i = Len(queue) + 1
      BY <1>4, <1>5, <2>4, <2>6 DEF Succeeded, NoneLater
    <2> QED BY <1>4, <2>5, <2>6
  <1>8. LookInv'
    BY <1>1, <1>4, <1>5 DEF TableTypeInv, LookInv, NoneLater, Lookup
  <1> QED BY <1>2, <1>6, <1>7, <1>8

\* The observer takes the first event; what is left was there.
LEMMA TakeFacts ==
  ASSUME TableTypeInv, QueueInv, queue # << >>, queue' = Tail(queue)
  PROVE  /\ Head(queue) \in QueuedEvent /\ Head(queue) = queue[1] /\ 1 \in 1..Len(queue)
         /\ queue' \in Seq(QueuedEvent)
         /\ \A i \in 1..Len(queue') : /\ i + 1 \in 1..Len(queue) /\ queue'[i] = queue[i + 1]
                                      /\ queue'[i] \in QueuedEvent
                                      /\ queue'[i].tgid = Head(queue).tgid
                                           => Head(queue).by <= queue'[i].by
  <1>1. queue \in Seq(QueuedEvent) /\ Len(queue) \in Nat \ {0}
    BY SeqEmpty DEF TableTypeInv
  <1>2. /\ Head(queue) \in QueuedEvent /\ Tail(queue) \in Seq(QueuedEvent)
        /\ Len(Tail(queue)) = Len(queue) - 1
        /\ \A i \in 1..Len(Tail(queue)) : Tail(queue)[i] = queue[i + 1]
    BY <1>1, SeqTail
  <1>3. Head(queue) = queue[1]
    BY <1>1
  <1>4. \A i \in 1..Len(queue') : i + 1 \in 1..Len(queue) /\ queue'[i] = queue[i + 1]
                                   /\ queue'[i] \in QueuedEvent
    BY <1>1, <1>2, SeqElements
  <1>5. ASSUME NEW i \in 1..Len(queue'), queue'[i].tgid = Head(queue).tgid
        PROVE  Head(queue).by <= queue'[i].by
    BY <1>1, <1>3, <1>4, <1>5 DEF QueueInv
  <1>6. queue' \in Seq(QueuedEvent) /\ 1 \in 1..Len(queue)
    BY <1>1, <1>2
  <1> QED BY <1>2, <1>3, <1>4, <1>5, <1>6, Zenon

\* The queue's invariant after the observer has taken an event and made, at most, an entry
\* for a process that no later event of its tgid precedes.
LEMMA TakenQueue ==
  ASSUME TableTypeInv, QueueInv, queue # << >>, queue' = Tail(queue), UNCHANGED <<now, holder, freed>>,
         seen' \subseteq seen \cup {<<Head(queue).tgid, Head(queue).by>>}
  PROVE  QueueInv'
  <1> SUFFICES ASSUME NEW i \in 1..Len(queue')
               PROVE  /\ queue'[i].by <= queue'[i].ts /\ queue'[i].ts <= now'
                      /\ Succeeded(queue[i].tgid, queue[i].by, queue[i].ts)'
                      /\ NoneLater(queue[i].tgid, queue[i].by)'
                      /\ \A j \in 1..Len(queue') : i < j /\ queue'[i].tgid = queue'[j].tgid
                                                     => queue'[i].by <= queue'[j].by
    BY DEF QueueInv
  <1>1. i + 1 \in 1..Len(queue) /\ queue'[i] = queue[i + 1]
    BY TakeFacts
  <1>2. /\ queue'[i].by <= queue'[i].ts /\ queue'[i].ts <= now'
        /\ Succeeded(queue[i].tgid, queue[i].by, queue[i].ts)'
    BY <1>1 DEF QueueInv, Succeeded
  <1>3. NoneLater(queue[i].tgid, queue[i].by)'
    <2>1. ASSUME NEW p \in seen', p[1] = queue'[i].tgid PROVE p[2] <= queue'[i].by
      <3>1. CASE p \in seen
        BY <1>1, <2>1, <3>1 DEF QueueInv, NoneLater
      <3>2. CASE p = <<Head(queue).tgid, Head(queue).by>>
        BY <2>1, <3>2, TakeFacts
      <3> QED BY <3>1, <3>2
    <2> QED BY <2>1 DEF NoneLater
  <1>4. ASSUME NEW j \in 1..Len(queue'), i < j, queue'[i].tgid = queue'[j].tgid
        PROVE  queue'[i].by <= queue'[j].by
    <2>1. j + 1 \in 1..Len(queue) /\ queue'[j] = queue[j + 1] /\ i + 1 < j + 1
      BY <1>4, TakeFacts
    <2> QED BY <1>1, <1>4, <2>1 DEF QueueInv
  <1> QED BY <1>2, <1>3, <1>4

\* A new entry for the newest process seen under its tgid.
LEMMA NewEntry ==
  ASSUME TableTypeInv, CacheInv, NEW t \in Tgids, NEW of \in Starts, NEW start \in {None, of},
         Put([tgid |-> t, start |-> start, of |-> of]), seen' = seen \cup {<<t, of>>}, NoneLater(t, of)
  PROVE  CacheInv' /\ cache' \in Seq(Entry)
  <1> DEFINE e == [tgid |-> t, start |-> start, of |-> of]
  <1>1. e \in Entry /\ e.tgid = t /\ e.start = start /\ e.of = of
    BY DEF Entry, Starts, None
  <1> HIDE DEF e
  <1>2. Put(e)
    BY DEF e
  <1>3. /\ cache' \in Seq(Entry)
        /\ \A j \in 1..Len(cache') :
              \/ cache'[j] = e
              \/ \E k \in 1..Len(cache) : cache'[j] = cache[k] /\ cache[k].tgid # e.tgid
        /\ \A i, j \in 1..Len(cache') : cache'[i].tgid = cache'[j].tgid => i = j
    BY <1>1, <1>2, PutFacts
  <1>4. ASSUME NEW i \in 1..Len(cache')
        PROVE  /\ cache'[i].start \in {None, cache'[i].of}
               /\ <<cache'[i].tgid, cache'[i].of>> \in seen'
               /\ NoneLater(cache[i].tgid, cache[i].of)'
    <2>1. CASE cache'[i] = e
      <3>1. of <= of
        BY DEF Starts
      <3> QED BY <1>1, <2>1, <3>1 DEF NoneLater
    <2>2. CASE \E k \in 1..Len(cache) : cache'[i] = cache[k] /\ cache[k].tgid # e.tgid
      <3>1. PICK k \in 1..Len(cache) : cache'[i] = cache[k] /\ cache[k].tgid # t
        BY <1>1, <2>2
      <3>2. NoneLater(cache[k].tgid, cache[k].of) /\ <<cache[k].tgid, cache[k].of>> \in seen
              /\ cache[k].start \in {None, cache[k].of}
        BY DEF CacheInv
      <3>3. ASSUME NEW p \in seen', p[1] = cache[k].tgid PROVE p[2] <= cache[k].of
        <4>1. p \in seen
          BY <3>1, <3>3
        <4> QED BY <3>2, <3>3, <4>1, Zenon DEF NoneLater
      <3>4. <<cache[k].tgid, cache[k].of>> \in seen'
        BY <3>2
      <3> QED BY <3>1, <3>2, <3>3, <3>4 DEF NoneLater
    <2> QED BY <1>3, <2>1, <2>2
  <1> QED BY <1>3, <1>4 DEF CacheInv

\* An exec record: the start time procfs shows is the process's own or is not taken.
LEMMA RecordStep == ASSUME TableInv, record_exec PROVE TableInv' /\ NamesDecider'
  <1> USE DEF TableInv
  <1> DEFINE e == Head(queue)
  <1>1. /\ looking = Idle /\ queue # << >> /\ queue' = Tail(queue)
        /\ Put([tgid |-> e.tgid, start |-> StartAtExec(e), of |-> e.by])
        /\ seen' = seen \cup {<<e.tgid, e.by>>}
        /\ UNCHANGED <<now, holder, freed, looking>>
    BY DEF record_exec
  <1>2. NamesDecider'
    BY DEF record_exec, NamesDecider, NoAnswer
  <1>3. /\ e \in QueuedEvent /\ e = queue[1] /\ 1 \in 1..Len(queue) /\ queue' \in Seq(QueuedEvent)
    BY <1>1, TakeFacts
  <1>4. /\ e.by <= e.ts /\ e.ts <= now /\ Succeeded(e.tgid, e.by, e.ts) /\ NoneLater(e.tgid, e.by)
    BY <1>3 DEF QueueInv
  <1> HIDE DEF e
  <1>5. /\ e.tgid \in Tgids /\ e.by \in Starts /\ e.ts \in Nat /\ holder[e.tgid] \in Nat
    BY <1>3 DEF QueuedEvent, TableTypeInv
  <1>6. StartAtExec(e) \in {None, e.by}
    BY <1>4, <1>5 DEF StartAtExec, Succeeded, None, Starts
  <1>7. CacheInv' /\ cache' \in Seq(Entry)
    BY <1>1, <1>4, <1>5, <1>6, NewEntry
  <1>8. TableTypeInv'
    BY <1>1, <1>3, <1>5, <1>7 DEF TableTypeInv
  <1>9. QueueInv'
    BY <1>1, TakenQueue DEF e
  <1>10. TimeInv'
    BY <1>1, <1>4, <1>5 DEF TimeInv, TableTypeInv, NoneLater, Succeeded, Starts, None
  <1>11. LookInv'
    BY <1>1 DEF LookInv
  <1> QED BY <1>2, <1>7, <1>8, <1>9, <1>10, <1>11

\* The lookup's first read of procfs.
LEMMA StatStep == ASSUME TableInv, LookupStat PROVE TableInv' /\ NamesDecider'
  <1> USE DEF TableInv
  <1> DEFINE e == Head(queue)
  <1>1. /\ queue # << >> /\ queue' = Tail(queue)
        /\ looking' = [tgid |-> e.tgid, ts |-> e.ts, by |-> e.by, live |-> holder[e.tgid]]
        /\ UNCHANGED <<now, holder, freed, cache, seen>>
    BY DEF LookupStat
  <1>2. NamesDecider'
    BY DEF LookupStat, NamesDecider, NoAnswer
  <1>3. /\ e \in QueuedEvent /\ e = queue[1] /\ 1 \in 1..Len(queue) /\ queue' \in Seq(QueuedEvent)
        /\ \A i \in 1..Len(queue') : queue'[i].tgid = e.tgid => e.by <= queue'[i].by
    BY <1>1, TakeFacts
  <1>4. /\ e.by <= e.ts /\ e.ts <= now /\ Succeeded(e.tgid, e.by, e.ts) /\ NoneLater(e.tgid, e.by)
    BY <1>3 DEF QueueInv
  <1>5. QueueInv'
    BY <1>1, TakenQueue DEF e
  <1> HIDE DEF e
  <1>6. /\ e.tgid \in Tgids /\ e.by \in Starts /\ e.ts \in Nat /\ holder[e.tgid] \in Nat /\ now \in Nat
    BY <1>3 DEF QueuedEvent, TableTypeInv
  <1>7. /\ looking' \in Lookup /\ looking'.tgid = e.tgid /\ looking'.ts = e.ts /\ looking'.by = e.by
        /\ looking'.live = holder[e.tgid]
    BY <1>1, <1>6 DEF Lookup
  <1>8. TableTypeInv' /\ CacheInv' /\ TimeInv'
    BY <1>1, <1>3, <1>7 DEF TableTypeInv, CacheInv, TimeInv, NoneLater
  <1>9. LookInv'
    BY <1>1, <1>3, <1>4, <1>6, <1>7 DEF LookInv, Succeeded, NoneLater, None, Starts
  <1> QED BY <1>2, <1>5, <1>8, <1>9

\* The lookup ends.  An entry that answers for the live process is that process's; one
\* that answers for another is not later than the decision's process and was made for no
\* later one, so it names an earlier process only where none was seen since.
LEMMA EndStep == ASSUME TableInv, LookupEnd PROVE TableInv' /\ NamesDecider'
  <1> USE DEF TableInv
  <1> DEFINE t == looking.tgid
             usable == {i \in Entries(t) : Usable(cache[i])}
  <1>1. /\ looking # Idle /\ looking' = Idle /\ UNCHANGED <<now, holder, freed, queue>>
    BY DEF LookupEnd
  <1>2. looking \in Lookup
    BY <1>1 DEF TableTypeInv
  <1>3. /\ t \in Tgids /\ looking.by \in Starts /\ looking.ts \in Nat /\ looking.live \in Nat
        /\ holder[t] \in Nat /\ freed[t] \in Nat /\ now \in Nat
    BY <1>2 DEF Lookup, TableTypeInv
  <1>4. /\ looking.by <= looking.ts /\ looking.by <= now
        /\ looking.live \in {None, looking.by} \/ looking.live > looking.ts
        /\ looking.live # None => \/ holder[t] = looking.live
                                  \/ holder[t] = None /\ freed[t] = now
        /\ holder[t] # None => looking.by <= holder[t]
        /\ NoneLater(t, looking.by)
        /\ \A i \in 1..Len(queue) : queue[i].tgid = t => looking.by <= queue[i].by
    BY <1>1 DEF LookInv
  <1>5. LiveDecided => looking.live = looking.by
    BY <1>3, <1>4 DEF LiveDecided
  <1>6. /\ cache \in Seq(Entry) /\ DOMAIN cache = 1..Len(cache)
        /\ \A i \in 1..Len(cache) : cache[i] \in Entry
    BY SeqLength, SeqElements DEF TableTypeInv
  <1>7. LookInv'
    BY <1>1 DEF LookInv
  <1>8. ASSUME NEW i \in Entries(t), Put(cache[i]), UNCHANGED seen
        PROVE  TableInv'
    <2>1. i \in 1..Len(cache) /\ cache[i] \in Entry
      BY <1>6 DEF Entries
    <2>2. /\ cache' \in Seq(Entry)
          /\ \A j \in 1..Len(cache') : \E k \in 1..Len(cache) : cache'[j] = cache[k]
          /\ \A j, k \in 1..Len(cache') : cache'[j].tgid = cache'[k].tgid => j = k
      BY <1>8, <2>1, PutFacts
    <2>3. ASSUME NEW j \in 1..Len(cache')
          PROVE  /\ cache'[j].start \in {None, cache'[j].of}
                 /\ <<cache'[j].tgid, cache'[j].of>> \in seen'
                 /\ NoneLater(cache[j].tgid, cache[j].of)'
      <3>1. PICK k \in 1..Len(cache) : cache'[j] = cache[k]
        BY <2>2
      <3> QED BY <1>8, <3>1 DEF CacheInv, NoneLater
    <2>4. TableTypeInv'
      BY <1>1, <1>8, <2>2 DEF TableTypeInv
    <2>5. TimeInv' /\ QueueInv'
      BY <1>1, <1>8 DEF TimeInv, QueueInv, NoneLater, Succeeded
    <2>6. CacheInv'
      BY <2>2, <2>3 DEF CacheInv
    <2> QED BY <1>7, <2>4, <2>5, <2>6
  <1>9. ASSUME NEW i \in usable, Answer(cache[i].of), Put(cache[i]), UNCHANGED seen
        PROVE  TableInv' /\ NamesDecider'
    <2>1. i \in Entries(t) /\ i \in 1..Len(cache) /\ cache[i] \in Entry /\ cache[i].tgid = t /\ Usable(cache[i])
      BY <1>6, <1>9 DEF Entries
    <2>2. /\ cache[i].start \in {None, cache[i].of} /\ <<t, cache[i].of>> \in seen
          /\ NoneLater(t, cache[i].of) /\ cache[i].of \in Starts
      BY <2>1 DEF CacheInv, Entry
    <2>3. cache[i].start = cache[i].of
      BY <2>1, <2>2 DEF Usable
    <2>4. cache[i].of <= looking.by
      BY <1>4, <2>2 DEF NoneLater
    <2>5. CASE LiveDecided
      BY <1>5, <1>9, <2>1, <2>3, <2>5, <1>8 DEF Usable, NamesDecider, Answer
    <2>6. CASE ~LiveDecided
      <3>1. cache[i].of <= looking.ts
        BY <2>1, <2>3, <2>6 DEF Usable
      <3>2. looking.live # looking.by
        BY <1>3, <1>4, <2>6 DEF LiveDecided, Starts, None
      <3>3. <<t, looking.by>> \in seen => looking.by <= cache[i].of
        BY <2>2 DEF NoneLater
      <3>4. <<t, looking.by>> \in seen => looking.by = cache[i].of
        BY <1>3, <2>2, <2>4, <3>3 DEF Starts
      <3>5. answer' = [of |-> cache[i].of, by |-> looking.by, ts |-> looking.ts,
                       alive |-> looking.live = looking.by, seen |-> <<t, looking.by>> \in seen]
        BY <1>9 DEF Answer
      <3>6. NamesDecider'
        BY <3>1, <3>2, <3>4, <3>5 DEF NamesDecider
      <3> QED BY <1>8, <1>9, <2>1, <3>6
    <2> QED BY <2>5, <2>6
  <1>10. ASSUME LiveDecided, holder[t] # None, Answer(holder[t]),
                Put([tgid |-> t, start |-> looking.live, of |-> holder[t]]),
                seen' = seen \cup {<<t, holder[t]>>}
         PROVE  TableInv' /\ NamesDecider'
    <2>1. looking.live = looking.by /\ holder[t] = looking.by
      BY <1>4, <1>5, <1>10 DEF LiveDecided
    <2>2. NamesDecider'
      BY <1>10, <2>1 DEF NamesDecider, Answer
    <2>3. CacheInv' /\ cache' \in Seq(Entry)
      BY <1>3, <1>4, <1>10, <2>1, NewEntry
    <2>4. TableTypeInv'
      BY <1>1, <1>3, <1>10, <2>1, <2>3 DEF TableTypeInv
    <2>5. TimeInv'
      BY <1>1, <1>3, <1>4, <1>10, <2>1 DEF TimeInv, TableTypeInv, NoneLater, Starts, None
    <2>6. QueueInv'
      <3>1. UNCHANGED <<queue, holder, freed, now>>
        BY <1>1
      <3>2. ASSUME NEW i \in 1..Len(queue) PROVE NoneLater(queue[i].tgid, queue[i].by)'
        <4>1. NoneLater(queue[i].tgid, queue[i].by) /\ (queue[i].tgid = t => looking.by <= queue[i].by)
          BY <1>4 DEF QueueInv
        <4> QED BY <1>10, <2>1, <3>1, <4>1 DEF NoneLater
      <3> QED BY <3>1, <3>2 DEF QueueInv, Succeeded
    <2> QED BY <1>7, <2>2, <2>3, <2>4, <2>5, <2>6
  <1>11. ASSUME Answer(None), UNCHANGED seen,
                IF Entries(t) = {} THEN UNCHANGED cache ELSE \E i \in Entries(t) : Put(cache[i])
         PROVE  TableInv' /\ NamesDecider'
    <2>1. NamesDecider'
      BY <1>11 DEF NamesDecider, Answer
    <2>2. CASE Entries(t) = {}
      BY <1>1, <1>7, <1>11, <2>1, <2>2
         DEF TableTypeInv, TimeInv, QueueInv, CacheInv, NoneLater, Succeeded
    <2>3. CASE Entries(t) # {}
      BY <1>8, <1>11, <2>1, <2>3
    <2> QED BY <2>2, <2>3
  <1> HIDE DEF usable
  <1>12. \/ \E i \in usable : Answer(cache[i].of) /\ Put(cache[i]) /\ UNCHANGED seen
         \/ /\ LiveDecided /\ holder[t] # None /\ Answer(holder[t])
            /\ Put([tgid |-> t, start |-> looking.live, of |-> holder[t]])
            /\ seen' = seen \cup {<<t, holder[t]>>}
         \/ /\ Answer(None) /\ UNCHANGED seen
            /\ IF Entries(t) = {} THEN UNCHANGED cache ELSE \E i \in Entries(t) : Put(cache[i])
    BY DEF LookupEnd, usable
  <1> QED BY <1>9, <1>10, <1>11, <1>12

\* An audit record names the process that made the decision, or nobody, or an earlier
\* process of the tgid where the one that decided is gone and was never seen: for any
\* number of tgids, any capacity, any delay of events and any interleaving with procfs.
THEOREM NamesAreRight == PSpec => []NamesDecider
  <1>1. PInit => TableInv /\ NamesDecider
    BY InitTable
  <1>2. TableInv /\ NamesDecider /\ [PNext]_pvars => TableInv' /\ NamesDecider'
    <2> SUFFICES ASSUME TableInv, NamesDecider, [PNext]_pvars PROVE TableInv' /\ NamesDecider'
      OBVIOUS
    <2>1. CASE UNCHANGED pvars
      BY <2>1 DEF pvars, TableInv, TableTypeInv, TimeInv, QueueInv, CacheInv, LookInv, NoneLater,
                  Succeeded, NamesDecider
    <2> QED BY <2>1, ProcessStep, EventStep, RecordStep, StatStep, EndStep DEF PNext
  <1> QED BY <1>1, <1>2, PTL DEF PSpec
=============================================================================
