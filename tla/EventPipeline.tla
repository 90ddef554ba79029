--------------------------- MODULE EventPipeline ---------------------------
(***************************************************************************)
(* The way of a decision event from the kernel to the audit log.  A BPF    *)
(* program writes it to the ring buffer or counts a loss                   *)
(* (rk-bpf/src/common.bpf.h), the drain thread copies batches of it into a *)
(* bounded channel and the worker hands each record to the observer        *)
(* (rk-sensor/src/consumer.rs, observe.rs).  The main loop copies the      *)
(* kernel's loss counter once a second and stops the two threads           *)
(* (rk-sensor/src/main.rs).  Ring and counter are pinned: they outlive the *)
(* sensor, and a replacement of the object starts with new ones.           *)
(*                                                                         *)
(* Events are counted, not named.  Scratch misses and ring buffer drops    *)
(* are one counter, as kernel_lost adds them.                              *)
(***************************************************************************)
EXTENDS Integers, Sequences, FiniteSetsExt

CONSTANTS RingSlots,        \* records the ring buffer holds
          BATCH,            \* records per batch
          ChannelBatches,   \* batches the channel holds
          Settings          \* the bounds a behaviour may have, see below

ASSUME PipelineAssumption ==
  /\ {RingSlots, BATCH, ChannelBatches} \subseteq Nat \ {0}
  /\ Settings \subseteq [emit : Nat, endless : BOOLEAN, runs : Nat, replaced : Nat,
                         kills : Nat, faults : Nat]

VARIABLES
  setting,        \* the bounds of this behaviour
  kernel,         \* the pinned set: ring and the loss counter
  old,            \* the set being replaced: on, its ring, lost and before
  kernel_losses,  \* the counter as the main loop last stored it
  main,           \* where run_daemon is
  stop,           \* the stop flag
  drain,          \* drain thread: pc, batch, stopping, late (deadline passed)
  channel,        \* batches (their lengths) on the way to the worker
  worker,         \* worker thread: pc, left (of its batch), budget
  stats,          \* PipelineStats: drained, userspace_drops, handled
  recorded,       \* recorded_kernel and recorded_channel
  log,            \* what this run put into the log: events, kernel, channel
  ghost           \* history: emitted, ended, before, and the bounds' counters

vars == <<setting, kernel, old, kernel_losses, main, stop, drain, channel, worker,
          stats, recorded, log, ghost>>

threads == <<drain, channel, worker>>
observer == <<recorded, log>>

MaxEmit == setting.emit           \* bound on the events
Endless == setting.endless        \* TRUE: the bound limits the counters, not the events
MaxRuns == setting.runs           \* bound on sensor starts
MaxReplaced == setting.replaced   \* bound on replacements of the object
MaxKills == setting.kills         \* bound on kills of the sensor
MaxFaults == setting.faults       \* bound on failing writes and epoll errors

\* A counter stays at its bound once it is reached (only when Endless).
Plus(c, n) == Min({c + n, MaxEmit})

Total(batches) ==
  LET upto[n \in 0..Len(batches)] == IF n = 0 THEN 0 ELSE upto[n - 1] + batches[n]
  IN  upto[Len(batches)]

Queued == Total(channel)

\* Records copied from the ring and neither handled nor counted as dropped.
InFlight == drain.batch + Queued + worker.left

NoOld == [on |-> FALSE, ring |-> 0, lost |-> 0, before |-> 0]

DrainAt(pc) == [pc |-> pc, batch |-> 0, stopping |-> FALSE, late |-> FALSE]
WorkerAt(pc) == [pc |-> pc, left |-> 0, budget |-> "none"]

Init ==
  /\ setting \in Settings
  /\ kernel = [ring |-> 0, lost |-> 0]
  /\ old = NoOld
  /\ kernel_losses = 0
  /\ main = "down"
  /\ stop = FALSE
  /\ drain = DrainAt("gone") /\ channel = << >> /\ worker = WorkerAt("gone")
  /\ stats = [drained |-> 0, userspace_drops |-> 0, handled |-> 0]
  /\ recorded = [kernel |-> 0, channel |-> 0]
  /\ log = [events |-> 0, kernel |-> 0, channel |-> 0]
  /\ ghost = [emitted |-> 0, ended |-> 0, before |-> 0,
              runs |-> 0, replaced |-> 0, kills |-> 0, faults |-> 0]

-----------------------------------------------------------------------------
(***************************************************************************)
(* The kernel.                                                             *)
(***************************************************************************)
MayEmit == Endless \/ ghost.emitted < MaxEmit

Emitted == ghost' = [ghost EXCEPT !.emitted = Plus(@, 1)]

\* rk_emit: the record goes into the ring, or the loss is counted because the
\* ring is full or (before rk_emit) there was no scratch buffer.
rk_emit ==
  /\ MayEmit
  /\ ghost.runs > 0
  /\ \/ /\ kernel.ring < RingSlots
        /\ kernel' = [kernel EXCEPT !.ring = @ + 1]
     \/ kernel' = [kernel EXCEPT !.lost = Plus(@, 1)]
  /\ Emitted
  /\ UNCHANGED <<setting, old, kernel_losses, main, stop, threads, stats, observer>>

\* The replaced programs stay attached until finish_replacement.
rk_emit_old ==
  /\ old.on
  /\ MayEmit
  /\ \/ /\ old.ring < RingSlots
        /\ old' = [old EXCEPT !.ring = @ + 1]
     \/ old' = [old EXCEPT !.lost = Plus(@, 1)]
  /\ Emitted
  /\ UNCHANGED <<setting, kernel, kernel_losses, main, stop, threads, stats, observer>>

-----------------------------------------------------------------------------
(***************************************************************************)
(* The observer.                                                           *)
(***************************************************************************)
MayFault == ghost.faults < MaxFaults

Fault == ghost' = [ghost EXCEPT !.faults = @ + 1]

\* Observer::record: an event below the audit level, or a malformed record, is
\* counted and not written.
Handle(n) == stats' = [stats EXCEPT !.handled = Plus(@, n)]

record ==
  \/ UNCHANGED <<log, ghost>>
  \/ log' = [log EXCEPT !.events = Plus(@, 1)] /\ UNCHANGED ghost
  \/ MayFault /\ Fault /\ UNCHANGED log

\* Observer::record_losses: a loss record when a counter advanced.  The
\* counters count as recorded whether or not the write succeeded.
record_losses ==
  LET dk == Max({0, kernel_losses - recorded.kernel})
      dc == Max({0, stats.userspace_drops - recorded.channel})
  IN /\ IF dk = 0 /\ dc = 0
          THEN UNCHANGED <<log, ghost>>
          ELSE \/ /\ log' = [log EXCEPT !.kernel = Plus(@, dk),
                                        !.channel = Plus(@, dc)]
                  /\ UNCHANGED ghost
               \/ MayFault /\ Fault /\ UNCHANGED log
     /\ recorded' = IF dk = 0 /\ dc = 0
                      THEN recorded
                      ELSE [kernel |-> kernel_losses,
                            channel |-> stats.userspace_drops]

-----------------------------------------------------------------------------
(***************************************************************************)
(* The drain thread.                                                       *)
(***************************************************************************)
\* send: counts the batch, then try_send, which never blocks.  The receiver is
\* gone only when the worker is.
send(n) ==
  LET taken == Len(channel) < ChannelBatches /\ worker.pc # "gone"
  IN /\ channel' = IF taken THEN Append(channel, n) ELSE channel
     /\ stats' = [stats EXCEPT !.drained = Plus(@, n),
                               !.userspace_drops = IF taken THEN @ ELSE Plus(@, n)]

\* epoll_wait returns; the flag is read before the ring.
DrainWake ==
  /\ drain.pc = "wait"
  /\ drain' = [drain EXCEPT !.pc = "pass", !.stopping = stop]
  /\ UNCHANGED <<setting, kernel, old, kernel_losses, main, stop, channel, worker, stats,
                 observer, ghost>>

\* epoll_wait fails: the thread ends.
DrainFails ==
  /\ drain.pc = "wait"
  /\ MayFault
  /\ Fault
  /\ drain' = [drain EXCEPT !.pc = "gone"]
  /\ UNCHANGED <<setting, kernel, old, kernel_losses, main, stop, channel, worker, stats,
                 observer>>

\* ring.next() returns a record; a full batch is sent, and only then is the
\* deadline of a final drain looked at.
PassEnds(stopping) == IF stopping THEN "gone" ELSE "wait"

\* Mutant: the final drain has no deadline.
DrainNextNoDeadline ==
  /\ drain.pc = "pass"
  /\ kernel.ring > 0
  /\ kernel' = [kernel EXCEPT !.ring = @ - 1]
  /\ IF drain.batch + 1 < BATCH
       THEN /\ drain' = [drain EXCEPT !.batch = @ + 1]
            /\ UNCHANGED <<channel, stats>>
       ELSE /\ send(BATCH)
            /\ drain' = [drain EXCEPT !.batch = 0]
  /\ UNCHANGED <<setting, old, kernel_losses, main, stop, worker, observer, ghost>>

DrainNext ==
  /\ drain.pc = "pass"
  /\ kernel.ring > 0
  /\ kernel' = [kernel EXCEPT !.ring = @ - 1]
  /\ IF drain.batch + 1 < BATCH
       THEN /\ drain' = [drain EXCEPT !.batch = @ + 1]
            /\ UNCHANGED <<channel, stats>>
       ELSE /\ send(BATCH)
            /\ drain' = [drain EXCEPT !.batch = 0,
                                      !.pc = IF drain.stopping /\ drain.late
                                               THEN PassEnds(TRUE) ELSE @]
  /\ UNCHANGED <<setting, old, kernel_losses, main, stop, worker, observer, ghost>>

\* The ring is empty: the rest is sent, and a final drain ends the thread.
DrainEmpty ==
  /\ drain.pc = "pass"
  /\ kernel.ring = 0
  /\ IF drain.batch > 0 THEN send(drain.batch) ELSE UNCHANGED <<channel, stats>>
  /\ drain' = [drain EXCEPT !.batch = 0, !.pc = PassEnds(drain.stopping)]
  /\ UNCHANGED <<setting, kernel, old, kernel_losses, main, stop, worker, observer, ghost>>

\* STOP_DRAIN has elapsed since the final drain began.
StopDrainElapses ==
  /\ drain.pc = "pass" /\ drain.stopping /\ ~drain.late
  /\ drain' = [drain EXCEPT !.late = TRUE]
  /\ UNCHANGED <<setting, kernel, old, kernel_losses, main, stop, channel, worker, stats,
                 observer, ghost>>

-----------------------------------------------------------------------------
(***************************************************************************)
(* The worker thread.                                                      *)
(***************************************************************************)
\* Mutant: batches beyond the budget are skipped and not counted.
WorkerRecvSilent ==
  /\ worker.pc = "recv"
  /\ channel # << >>
  /\ channel' = Tail(channel)
  /\ worker' = IF stop /\ worker.budget = "spent"
                 THEN worker
                 ELSE [pc |-> "records", left |-> Head(channel),
                       budget |-> IF stop /\ worker.budget = "none"
                                    THEN "running" ELSE worker.budget]
  /\ UNCHANGED <<setting, kernel, old, kernel_losses, main, stop, drain, stats, observer, ghost>>

WorkerRecv ==
  /\ worker.pc = "recv"
  /\ channel # << >>
  /\ channel' = Tail(channel)
  /\ IF stop /\ worker.budget = "spent"
       THEN /\ stats' = [stats EXCEPT !.userspace_drops = Plus(@, Head(channel))]
            /\ UNCHANGED worker
       ELSE /\ worker' = [pc |-> "records", left |-> Head(channel),
                          budget |-> IF stop /\ worker.budget = "none"
                                       THEN "running" ELSE worker.budget]
            /\ UNCHANGED stats
  /\ UNCHANGED <<setting, kernel, old, kernel_losses, main, stop, drain, observer, ghost>>

\* STOP_BUDGET has elapsed since the worker first saw the flag.
StopBudgetElapses ==
  /\ worker.budget = "running"
  /\ worker.pc # "gone"
  /\ worker' = [worker EXCEPT !.budget = "spent"]
  /\ UNCHANGED <<setting, kernel, old, kernel_losses, main, stop, drain, channel, stats,
                 observer, ghost>>

WorkerRecord ==
  /\ worker.pc = "records"
  /\ worker.left > 0
  /\ worker' = [worker EXCEPT !.left = @ - 1]
  /\ Handle(1)
  /\ record
  /\ UNCHANGED <<setting, kernel, old, kernel_losses, main, stop, drain, channel, recorded>>

\* tick, after a batch or when recv_timeout times out.
WorkerTick ==
  /\ \/ worker.pc = "records" /\ worker.left = 0
     \/ worker.pc = "recv" /\ channel = << >> /\ drain.pc # "gone"
  /\ worker' = [worker EXCEPT !.pc = "recv"]
  /\ record_losses
  /\ UNCHANGED <<setting, kernel, old, kernel_losses, main, stop, drain, channel, stats>>

\* The sender is gone and the channel empty: a last tick, then the thread ends
\* and drops the observer, which records the losses once more and seals.
WorkerDisconnected ==
  /\ worker.pc = "recv" /\ channel = << >> /\ drain.pc = "gone"
  /\ worker' = [worker EXCEPT !.pc = "drop"]
  /\ record_losses
  /\ UNCHANGED <<setting, kernel, old, kernel_losses, main, stop, drain, channel, stats>>

ObserverDrop ==
  /\ worker.pc = "drop"
  /\ worker' = [worker EXCEPT !.pc = "gone"]
  /\ record_losses
  /\ UNCHANGED <<setting, kernel, old, kernel_losses, main, stop, drain, channel, stats>>

-----------------------------------------------------------------------------
(***************************************************************************)
(* The main loop.                                                          *)
(***************************************************************************)
Attaching(replaced) ==
  /\ main \in {"down", "stopped"}
  /\ ghost.runs < MaxRuns
  /\ main' = "attach"
  /\ stop' = FALSE
  /\ stats' = [drained |-> 0, userspace_drops |-> 0, handled |-> 0]
  /\ log' = [events |-> 0, kernel |-> 0, channel |-> 0]
  /\ ghost' = [ghost EXCEPT
       !.runs = @ + 1,
       !.replaced = @ + (IF replaced THEN 1 ELSE 0),
       !.before = IF replaced THEN 0 ELSE Plus(@, log.kernel),
       !.ended = Plus(@, stats.handled + stats.userspace_drops)]
  /\ UNCHANGED <<setting, kernel_losses, threads, recorded>>

\* A start on the sensor's own pin set: ring and counter are as they were left.
StartAdopt ==
  /\ Attaching(FALSE)
  /\ UNCHANGED <<kernel, old>>

\* A start with another object: a new ring and new counters; the old ring is
\* still open for reading.
StartReplace ==
  /\ ghost.runs > 0
  /\ ghost.replaced < MaxReplaced
  /\ Attaching(TRUE)
  /\ kernel' = [ring |-> 0, lost |-> 0]
  /\ old' = [on |-> TRUE, ring |-> kernel.ring, lost |-> kernel.lost,
              before |-> Plus(ghost.before, log.kernel)]

\* Mutant: no baseline, the losses of earlier sensors are new ones.
OpenObserverNoBaseline ==
  /\ main = "attach"
  /\ main' = "oldring"
  /\ kernel_losses' = kernel.lost
  /\ recorded' = [kernel |-> 0, channel |-> stats.userspace_drops]
  /\ UNCHANGED <<setting, kernel, old, stop, threads, stats, log, ghost>>

\* The losses of before the start are the baseline of the new observer.
OpenObserver ==
  /\ main = "attach"
  /\ main' = "oldring"
  /\ kernel_losses' = kernel.lost
  /\ recorded' = [kernel |-> kernel.lost, channel |-> stats.userspace_drops]
  /\ UNCHANGED <<setting, kernel, old, stop, threads, stats, log, ghost>>

\* The records of the replaced ring go to the observer directly.
DrainOldRing ==
  /\ main = "oldring"
  /\ old.ring > 0
  /\ old' = [old EXCEPT !.ring = @ - 1]
  /\ Handle(1)
  /\ record
  /\ UNCHANGED <<setting, kernel, kernel_losses, main, stop, threads, recorded>>

\* The old ring is empty, or OLD_RING_DRAIN has elapsed and the rest goes with
\* the old set (finish_replacement); the threads start.
StartConsumer ==
  /\ main = "oldring"
  /\ main' = "up"
  /\ old' = NoOld
  /\ ghost' = [ghost EXCEPT !.ended = Plus(@, old.ring + old.lost)]
  /\ drain' = DrainAt("wait") /\ worker' = WorkerAt("recv")
  /\ UNCHANGED <<setting, kernel, kernel_losses, stop, channel, stats, observer>>

LossTick ==
  /\ main = "up"
  /\ kernel_losses' = kernel.lost
  /\ UNCHANGED <<setting, kernel, old, main, stop, threads, stats, observer, ghost>>

\* SIGTERM: the loop ends and shutdown sets the flag and wakes the drain thread.
shutdown ==
  /\ main = "up"
  /\ main' = "join"
  /\ stop' = TRUE
  /\ UNCHANGED <<setting, kernel, old, kernel_losses, threads, stats, observer, ghost>>

\* Both threads are joined.
Joined ==
  /\ main = "join"
  /\ drain.pc = "gone" /\ worker.pc = "gone"
  /\ main' = "stopped"
  /\ UNCHANGED <<setting, kernel, old, kernel_losses, stop, threads, stats, observer, ghost>>

\* The sensor is killed: what was on its way is lost and counted nowhere.  In a
\* replacement the new set is discarded and the old one stays.
Kill ==
  /\ main \in {"attach", "oldring", "up", "join"}
  /\ ghost.kills < MaxKills
  /\ main' = "down"
  /\ stop' = FALSE
  /\ drain' = DrainAt("gone") /\ channel' = << >> /\ worker' = WorkerAt("gone")
  /\ old' = NoOld
  /\ IF old.on
       THEN /\ kernel' = [ring |-> old.ring, lost |-> old.lost]
            /\ log' = [log EXCEPT !.kernel = 0]
            /\ ghost' = [ghost EXCEPT !.kills = @ + 1, !.before = old.before,
                                      !.ended = Plus(@, kernel.ring + kernel.lost)]
       ELSE /\ ghost' = [ghost EXCEPT !.kills = @ + 1, !.ended = Plus(@, InFlight)]
            /\ UNCHANGED <<kernel, log>>
  /\ UNCHANGED <<setting, kernel_losses, stats, recorded>>

-----------------------------------------------------------------------------
Drain == DrainWake \/ DrainNext \/ DrainEmpty
Worker == WorkerRecv \/ WorkerRecord \/ WorkerTick \/ WorkerDisconnected \/ ObserverDrop
Main == StartAdopt \/ StartReplace \/ OpenObserver \/ DrainOldRing \/ StartConsumer
          \/ LossTick \/ shutdown \/ Joined \/ Kill

Next == rk_emit \/ rk_emit_old \/ Drain \/ DrainFails \/ StopDrainElapses
          \/ Worker \/ StopBudgetElapses \/ Main

Spec == Init /\ [][Next]_vars

\* Both threads run, time passes and joins return; nothing is assumed of the
\* producers, of the signal or of the main loop's timer.
Fairness == /\ WF_vars(Drain) /\ WF_vars(Worker) /\ WF_vars(StopDrainElapses)
            /\ WF_vars(StopBudgetElapses) /\ WF_vars(Joined)

-----------------------------------------------------------------------------
(***************************************************************************)
(* Loss is exact: every event a program produced is in a ring, counted as  *)
(* lost by the kernel, on its way through the pipeline, handled by the     *)
(* observer, counted as dropped, or went with a killed sensor or a         *)
(* replaced ring.  send and the worker's drop after STOP_BUDGET must count *)
(* exactly what they discard, and a stop must leave nothing behind in the  *)
(* channel.                                                                *)
(***************************************************************************)
LossIsExact ==
  /\ Endless \/ ghost.emitted = kernel.ring + kernel.lost + old.ring + old.lost + InFlight
                       + stats.handled + stats.userspace_drops + ghost.ended
  /\ main = "stopped" => InFlight = 0

(***************************************************************************)
(* The loss records of the log are true.  Over any number of restarts,     *)
(* adopted sets, kills and replacements they never claim more kernel       *)
(* losses than the set's counter holds, nor more channel losses than were  *)
(* dropped: the baseline of Observer::new keeps a loss from being recorded *)
(* twice.  And a sensor that stopped in an orderly way, with no write that *)
(* failed, has every drop of its pipeline in the log, those of the last    *)
(* drain and of the worker's spent budget included (record_losses in the   *)
(* last tick and in Observer::drop).                                       *)
(***************************************************************************)
LossRecordsTrue ==
  /\ ghost.before + log.kernel <= kernel.lost
  /\ log.channel <= stats.userspace_drops
  /\ main = "stopped" /\ ghost.faults = 0 => log.channel = stats.userspace_drops

(***************************************************************************)
(* A stop request is followed by the end of both threads, unless the       *)
(* sensor is killed first: once the producers pause, and, from a final     *)
(* drain on that has seen the flag, although producers keep writing for    *)
(* ever, since STOP_DRAIN bounds the drain thread and the worker then has  *)
(* a finite queue.                                                         *)
(***************************************************************************)
StopEnds == main = "join" /\ (drain.stopping \/ ~Endless) ~> main \in {"stopped", "down"}
=============================================================================
