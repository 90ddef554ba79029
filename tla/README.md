# TLA+ models of Reality Kernel

Reality Kernel confines AI agents and containers with eBPF programs. A sensor
compiles a policy into BPF maps; hook programs in the kernel decide by those
maps; an agent daemon and a Kubernetes plugin put workloads into governed
cgroups; every decision ends in a signed audit log. This directory models the
parts of it that run concurrently or have to survive crashes, checks them with
TLC on small instances, and proves the safety of policy maps, bindings, upgrades,
heartbeats, events and their loss records, process names, the audit log, network policies,
agent runs, containers, file trees and execs with TLAPS for instances of any size.

`PROJECT.json` holds the machine-readable index: which lines each definition
stands for, the runs, a mutant for every property, the hazards and the findings.

## 1. The parts and how they interact

| Part | Source | State it owns | Module |
|---|---|---|---|
| Policy engine: slots | `rk-sensor/src/policy.rs` (`apply_text`, `clear_slot`, `write_slot`, `adopt`) | two slots of the rule maps, `rk_active_slot`, generation | `SlotApply`, refining `AtomicPolicy` |
| Policy engine: bindings | `policy.rs` (`sync_bindings`, `bind_*`, `quarantine`, `release`, `persist`) | `rk_cgroup_profile`, level mask, state file, profile ids | `Bindings` |
| Exec and file hooks | `rk-bpf/src/exec.bpf.c`, `file.bpf.c`; `resolve_files`, `resolve_exec` | `rk_exec_decided`; rules keyed by inode | `FileExec` |
| Network policy | `rk-policy/src/net.rs`, `rk-bpf/src/net.bpf.c` | none (compiler and lookup) | `NetPolicy` |
| Socket and tun hooks | `net.bpf.c` (`rk_sock_observed`, sock_addr, `socket_create`, tun) | a task's socket and peer | `Egress`, on `NetPolicy` |
| Pins, upgrade and guard | `rk-sensor/src/pins.rs`, `main.rs` (start, replacement), `guard.bpf.c`, `protect_self` | bpffs directories `rk`, `rk-next`, `rk-old`; `rk_guard` | `Upgrade` |
| Heartbeat | `rk-sensor/src/resilience.rs`, `rk_heartbeat_stale` | `rk_heartbeat`, `rk_config` | `Heartbeat` |
| Event pipeline | `rk_emit`, `consumer.rs`, `observe.rs` | ring buffer, channel, loss counters | `EventPipeline` |
| Process table | `rk-sensor/src/proctable.rs` | LRU of executables by tgid | `ProcTable` |
| Audit log | `rk-audit/src/chain.rs` | segments, chain head | `AuditChain`; `AuditRefinement` to `AuditTrail` |
| Agent runs | `rk-agentd/src/server.rs`, `launcher.rs`, `cgroup.rs`, `registry.rs` | agent cgroups, registry, policy lock | `AgentRuns` |
| Containers | `rk-nri/*.go`, `server.rs` (`bind_container`) | container registry, pending calls | `Containers` |

How they meet: an apply writes slots (`SlotApply`) from paths it resolved
(`FileExec`) and rules it compiled (`NetPolicy`), then rebinds cgroups
(`Bindings`). A hook finds the binding by the ancestor walk (`Bindings`), the
profile in the live slot (`SlotApply`), the heartbeat (`Heartbeat`), decides
(`Egress` by `NetPolicy`'s tries, `FileExec`) and emits an event (`EventPipeline`) that
is given the name of its process (`ProcTable`) and ends in a batch of the log
(`AuditChain`). The daemon binds and unbinds cgroups on behalf
of `rk run` (`AgentRuns`) and of the container runtime (`Containers`). All maps
are pinned and outlive the sensor (`Upgrade`).

Each module takes its neighbours at the interface it needs: `Bindings` replaces
the rule maps atomically because `SlotApply` is shown to implement
`AtomicPolicy`; `AgentRuns` and `Containers` use a cgroup that is bound or not,
which is what `Bindings` provides; `FileExec` flips whole generations. `Egress` extends
`NetPolicy`, so that one behaviour goes from the text of a rule to the packet;
`MCPipeline` runs `EventPipeline` and `ProcTable`, which share no state, in one run.

## 2. Modules, state and actions

Definitions keep the source's names where they stand for a function. Operators
marked *Mutant* are the wrong versions that the mutation runs substitute; they
are in no specification. Several modules choose a *set-up* in `Init` (`host`,
`world`, `setting`, `trouble`, `cluster`, `left`) from a constant set: the kernel
features, the kinds of failure and the bounds of that behaviour. A property that
holds only in some of them names them.

**AtomicPolicy.** The promise: one policy generation is live, is replaced as a
whole, and every decision is the one a single generation makes, the one that was
live when the decision began. `SlotApply` implements it under a mapping
(`INSTANCE AtomicPolicy WITH`) that reads the live generation, and the one each hook
has asked, off the maps; no history variable stands in for them.

**SlotApply.** The rule maps as functions from (slot, key) to the generation that
wrote the entry. One action per map update: `ApplyStart` (parse, `check_capacity`),
`ClearStart`/`ClearKey`, `WriteStart`/`WriteKey`/`WriteFails`, `Flip`, `Persist`,
`Crash`, `Adopt` (`scan_slot`, `kernel_gen`). Hooks run `HookStart` (reads
`rk_active_slot` once), `HookProfile`, `HookLookup`, and nothing locks the slot they
read. `Tick` advances the ages that `SLOT_GRACE` is about.

**Bindings.** The engine's view (`bindings`, `dynamic`, `adopted`, quarantine, ids),
the kernel's (`kbind`, `kprof`, the level mask) and the state file. `ApplyCommit`,
`SyncRemove`, `SyncWrite` (may fail), `SyncDone`, `BindDynamic`, `BindContainer`,
`UnbindDynamic`, `QuarantineCgroup`, `Release`, `Persist`, `Publish`, `Crash`,
`Adopt` with and without a state file. `rk_governed_binding` is the hooks' walk. A
history, `confined`, holds the cgroups that an operator put in quarantine and has not
released, which `QuarantineHolds` is about: the engine's own set is pruned by an apply.

**FileExec.** A file tree with hard links. Governed tasks open, write, set
attributes, unlink, create, rename, exchange and link; each action's guard is the
hook's decision (`rk_file_check`: rule on the object, subtree rules of up to
`MAX_DEPTH` ancestors, deny beyond). One thread executes files in stages
(`ExecStart`, `ExecCheck`, `ExecInterp`, `ExecFail`, `ExecRecord`, `Evict`). The
sensor resolves paths (`Resolve`) and flips later (`Flip`).

**NetPolicy.** `push` builds the rule list of `parse`, `Compile` the two tries,
`evaluate` is the reference semantics of the source, `rk_net_verdict` the kernel's
lookup. Addresses are short bit sequences.

**Egress.** A governed task of an enforcing profile: `SocketCreate` (past
`rk_sock_observed`), `TunOpen`, `Connect`, `Send`, `SendTo`, `CloseSocket`. Which protocols call
the connect and sendmsg hooks is the kernel's and is taken from the comment on
`rk_sock_observed`; the guards of the actions are the hooks' decisions by the compiled
tries, the property is stated with `evaluate` on the rule list. The families are IPv4,
IPv6, packet sockets and, as one, those that `rk_sock_observed` does not classify.

**Upgrade.** Directories of pinned links and maps. `Reconcile`, `Open`, `WriteMeta`,
`Protect` (`protect_self`), `Attach` (a link a step), `Adopt`, `Carry`, `SaveCarried`,
`Switch`, `RemoveStep` (an
entry a step), `ApplyFile`, `SaveRunning`, `Bind`, `Unbind`, `Crash`, `Stop`,
`StartService`, `Uninstall`, `EditPolicy`. `GuardDenies` is the guard's hooks: those on
pins ask whether the task is governed, those on signals and ptrace also whether the
target is the process in `rk_guard`.

**Heartbeat.** Beats kept as ages. `OpenPins`, `WriteConfig`, `FirstBeat`, `AttachPrograms`,
`finish_replacement`, `Beat` (may fail or be late), `Gone`, and a hook that reads beat, timeout and clock
in three steps.

**EventPipeline.** Counts of events in the ring, the channel, the worker and the
log. `rk_emit`, the drain loop, the worker loop, `record_losses`, `shutdown`, the
deadlines `STOP_DRAIN` and `STOP_BUDGET`, restarts on adopted and replaced sets.

**ProcTable.** Processes fork and exit, their events wait in a queue. `record_exec` reads
the start time of whoever holds the tgid now; a lookup reads `stat` (`LookupStat`) and,
later, the cache or `exe` (`LookupEnd`). Time is in clock ticks, the grain of a start
time: a tgid freed in a tick is not given out again in the same tick.

**AuditTrail.** The promise of the log: batches are only added, what an exported head
covers is never lost, a record is sealed at most once and in order, or set aside.
`AuditRefinement` shows that `AuditChain` implements it; the batches are read off the file.

**AuditChain.** Lines in buffer, page cache and on disk. `AppendRecord`, `Tick`,
`SealWrite`/`SealFlush`/`SealSync`, `StartSegment`/`StartHeader`, `Open`, `Recover`,
`Cut`, with `KillWriter`, `PowerLoss` and failing calls; `Verify` is `rk audit verify`. A
hash is the list of batches it covers.

**AgentRuns.** Handler, child, waiter and client of each run: `Accept`, `Receive`,
`CreateCgroup`, `BindDynamic`, `OpenCgroup`, `Spawn` (clone3, or the fork handshake
`Attach`/`ChildReady`/`Release`/`ChildAbandoned`), `ChildExec`, `CheckPlacement`,
`Notify`, `Reap`, `KillFile`/`KillRead`/`KillSend`, `Unbind`, `Drain`, `Signal`. A host
that has cgroup.kill is one where a write to it works.

**Containers.** The plugin's `StartContainer` (with its time budget), `Synchronize`,
`StopContainer`, `RemoveContainer`; the daemon's `BindOpen`, `BindRead`, `BindSet`,
`BindRegister`, `UnbindDynamic`; pids that are reused; policy changes and daemon deaths.
A request may fail while the daemon runs (`RequestFails`): the plugin does not reach it, or
`bind_container` is refused.

## 3. Runs

Passing runs (distinct states of the instance in the `.cfg`):

| Run | States | What it shows |
|---|---|---|
| `slot_apply` | 904k | `LiveSlotIntact`, `RunningDecisionsUndisturbed`, `RoomForEveryWrite`, `TypeOK`, and `ImplementsAtomicPolicy` (the refinement): applies, failed writes, crashes and adoptions never tear the live slot or a running decision. |
| `bindings` | 4.21M | `BeliefIsKernel`, `BindingKeepsMeaning`, `AgentsStayGoverned`, `QuarantineHolds`, `DescendantsGoverned`, `RoomForEveryBinding`, `AdoptedStayBound` on four hosts: plain, delegated containers, lost state file, deaths inside operations. |
| `audit` | 2.48M | `LogVerifies`, `RecoveryKeepsRecords` and `KeepsTrail` (the refinement of `AuditTrail`) under kills, under power losses, and under kills with failing writes. |
| `upgrade` | 272k | `NoGap`, `NoOrphans`, `BoundStayGoverned` (the guard included), and `ComesUp` (liveness), with a crash between any two file system operations. |
| `pipeline` | 1.23M | `LossIsExact`, `LossRecordsTrue`, and `StopEnds` (liveness), in three settings: one full run, restarts, endless producers; and `NamesDecider` of the process table. |
| `heartbeat` | 1.34M | `ServedIsFresh` and `AwayIsStale` with late or failed beats, restarts with other timeouts, replacements. |
| `net_policy` | 519k | `LookupAgrees` (the compiled tries decide as `evaluate` does) and `DenyReachesNat64`, for every file of up to three rules; `EgressFollowsPolicy` for every IP or packet socket and tun device, connect and send under policies of up to one rule. |
| `agent_runs` | 191k | `Governed`, `BoundHasCgroup`, `ReportedIsOver`, and the liveness of `SlotsReturn`, `WaiterCleansUp`, `HangupStops`. |
| `containers` | 448k | `GovernedFromStart`, `BoundToOwnProfile`, and `ResyncGoverns` (liveness). |
| `file_exec` | 384k | `SubtreeUnchanged`, `ExecutesListed`, `RecordIsDecision`. |

Runs that refute what a comment or document says (see section 6):
`audit_faults` and `upgrade_carry`.

### Bounds, and why they are enough

- *slot_apply*: two profiles, three policies that share keys and between them use
  every rule map, three generations (each slot is written, retired and rewritten), one
  hook. With `Cap = 2` one policy does not fit beside itself. A decision lasts at most
  1 tick, a restart and the grace period 2: both are longer than a decision, and no more.
  The proofs remove all of these bounds.
- *bindings*: a static, an agent's and a container's cgroup on levels 1 to 3 with a
  walk of depth 2, three profile ids and a binding map of two entries, so that ids
  run out, the map fills up and one cgroup lies beyond the walk. One policy binds the
  agent's cgroup, one the container's.
- *audit*: five records, batches of two, segments of four lines: several batches,
  a rotation, a partial batch at a crash. Two failed calls.
- *upgrade*: two objects, two programs (a set can be half attached), two cgroups,
  three crashes (one in the replacement, one in the recovery, one in its recovery).
- *pipeline*: ring of two, batches of two, a channel of one: five events overflow
  each of them. The process table has one entry for two tgids, three ticks and two
  events on their way: a tgid has up to three processes, and an event can wait while
  two of them come and go.
- *heartbeat*: timeouts below, at and above the minimum; three starts.
- *net_policy*: three address bits with prefixes nested three deep in the mapped
  space, `MAX_RANGES = 3` so that inheriting ranges can exceed it. Sockets are opened
  under policies of at most one rule (`MaxSocketRules`): `LookupAgrees` covers what more
  rules do to the verdict a hook gets.
- *agent_runs*: two runs with one fork each, or one run with two forks (a process can
  fork between the reading of `cgroup.procs` and the signals), one failure, one daemon
  death, with and without clone3 and cgroup.kill.
- *containers*: three namespaces (plain, with rules, exempt), at most two pods at a
  time, one policy change, one death, one lost connection, one container whose requests fail.
- *file_exec*: six directories and three files, two names, `MAX_DEPTH = 3` with
  chains beyond it, and two generations. The behaviours have up to three file
  operations, or two and one exec, or one and two execs with one rebind, or two execs
  with two rebinds. Three operations suffice for create-link-rename chains; deeper
  sequences are a bound of this model.

`CHECK_DEADLOCK FALSE` appears where behaviours end: bounded counters run out, agents
exit, a stopped sensor stays down.

### Fairness

Only weak fairness, and only of steps that a thread takes by itself:

- *upgrade*: the steps of a running sensor, and its restart after a failure
  (`Restart=on-failure` in `deploy/systemd/rk-sensor.service`). Whether the service is
  started is a variable, `wanted`: a stopped sensor is not restarted, and `ComesUp`
  speaks only of behaviours in which the service stays started and the policy file
  stays applicable. Crashes and stops are bounded. Five failures within ten seconds,
  after which systemd gives up, are not modelled.
- *pipeline*: the drain thread, the worker, the two deadlines (clocks advance), and
  the join. Producers and the failing calls are not fair.
- *agent_runs*: each handler, waiter and launched child between its system calls,
  delivery of a SIGKILL, the restart of a daemon that died (as above). Clients, agents,
  forks and exits are not fair.
- *containers*: the daemon's handling of a request it has received, the resync, the
  restart of a daemon that died. The runtime, the containers and the plugin's time-out
  are not fair.

## 4. Proofs

What is proved holds for every value of the constants that satisfies the module's named
`ASSUME`s, which TLC evaluates in the module's run. A property keeps the name it has in
the run.

| Module | Theorem | Property |
|---|---|---|
| `SlotApplyProofs` | `TypeCorrect` | `TypeOK` |
| | `LiveSlotNeverTorn` | `LiveSlotIntact` |
| | `DecisionsUndisturbed` | `RunningDecisionsUndisturbed` |
| | `CapacitySuffices` | `RoomForEveryWrite` |
| | `RecordCoversMaps` | the engine's record covers the maps, so `clear_slot` leaves nothing behind |
| | `GenerationsContinue` | the engine's generation is the live one, across crashes and lost state files |
| | `Refinement` | `ImplementsAtomicPolicy` |
| `BindingsProofs` | `BeliefMatchesKernel` | `BeliefIsKernel` |
| | `BindingsKeepMeaning` | `BindingKeepsMeaning` |
| | `WorkloadsStayGoverned` | `AgentsStayGoverned` |
| | `QuarantineStays` | `QuarantineHolds` |
| | `DescendantsStayGoverned` | `DescendantsGoverned` |
| | `RoomSuffices` | `RoomForEveryBinding` |
| | `AdoptedAreKept` | `AdoptedStayBound` |
| `SensorProofs` | `AttachedThroughUpgrades` | `NoGap` |
| | `NothingLeftBehind` | `NoOrphans` |
| | `BindingsSurviveUpgrades` | `BoundStayGoverned` |
| | `BeatsInTime` | `ServedIsFresh` |
| | `FailsClosed` | `AwayIsStale` |
| `ObservationProofs` | `LossesRecordedOnce` | `LossRecordsTrue` |
| | `NoEventUnaccounted` | `LossIsExact` |
| | `NamesAreRight` | `NamesDecider` |
| `DecisionProofs` | `OnlyListedExecute` | `ExecutesListed` |
| | `RecordsDecision` | `RecordIsDecision` |
| | `SubtreeStays` | `SubtreeUnchanged` |
| | `EgressInOrder` | the invariant of sockets, policies and packets (`EgressInv`) |
| | `KernelDecidesAsWritten` | `LookupAgrees` |
| | `TranslatedDenied` | `DenyReachesNat64` |
| | `EgressAllowed` | `EgressFollowsPolicy` |
| `AuditProofs` | `DirectoryInStep` | the writer and its directory stay in step, whatever fails (`DirInv`) |
| | `RecoveryLosesNothing` | `RecoveryKeepsRecords` |
| `ChainProofs` | `ChainInStep` | the segments form one chain (`LogInv`) |
| | `LogAlwaysVerifies` | `LogVerifies` |
| `DaemonProofs` | `AgentsAreGoverned` | `Governed` |
| | `BindingsHaveCgroups` | `BoundHasCgroup` |
| | `ReportsAreFinal` | `ReportedIsOver` |
| | `RunsGoverned` | `GovernedFromStart` |
| | `OwnProfileOnly` | `BoundToOwnProfile` |

In every module the argument is an inductive invariant with one lemma or step per
action; few of the properties are inductive by themselves.

Where a definition loops over a list (the lines of a segment, the segments of a log, the
rules and ports of a policy, the batches in the channel), the model writes the loop as a
recursive function of the number of turns, and the proofs go by induction over that number.
The library's induction theorems take an operator as a parameter, which the provers cannot
instantiate. `Induction` therefore states the principle for a *set* of numbers and is derived
from the well-foundedness of `<`; `LoopRuns` derives from it that such a loop has a run.

**SlotApply.** Assumptions: `TimingAssumption` (a decision is shorter than both a restart
and the grace period: `RestartTime` is a lower bound on the time a restart takes, so it is
taken no longer than `Grace`; in the code a decision lasts microseconds, `SLOT_GRACE`
1 s, and `RestartSec` 2 s), `ProfileAssumption` (every policy has a profile: `net.rs` adds
`quarantine` to each), `BoundsAssumption`, `PoliciesAssumption`.
`IInv == TypeOK /\ LiveSlotIntact /\ EngineView /\ Ages /\ HookView`. That the flip makes the
written slot the live one correctly needs `EngineView` (which entries the inactive slot
holds at each stage of an apply, and that the sensor's memory of the slots covers the
maps, also after `Adopt`). That a hook is not disturbed needs `Ages` (the sensor rewrites a
slot only when the last flip is older than any decision; after a restart the time the
sensor was down takes the place of `last_flip`) and `HookView` (a hook's slot is the image
of the generation it started under; if the slot is no longer active, the hook is at least
as old as the flip). For `Refinement`, what the mapping reads off the maps is the live
generation and the one each hook asked; then the flip is `Replace`, a hook's first and
last read are `Ask` and `Answer`, and every other step is a stutter.

**Bindings.** Assumptions: finite cgroups and names, policies whose profiles are distinct
and whose static bindings name them (`PolicyOK`; `net.rs` refuses others), agents and
containers that are different cgroups. The engine in memory and the one in the state file
are the same kind of record. `RecordOK` says that a record, however old, is consistent in
itself: ids are injective and below their number, so that a new profile never gets an id in
use, and every listed profile has one. `Agrees` says of a record that is not behind that
it has the kernel's bindings and that each id is in the rule maps under the name it was
given to. `Pending` says the same of what `sync_bindings` has still to write, and that it
fits. `Meant` ties a binding to what it was written for, `MaskInv` the level mask to the
bindings. All operations that change one binding share a lemma (`OneBinding`); `ApplyStep`
is the only one that changes the record as a whole, and rests on `Allocation`, the lemma
about `ProfileIds`. `QuarantineHolds` needs `ConfinedInv` beside it: what was put in
quarantine is in the engine's record and in the state file; `ApplyHolds` shows it for an
apply, which holds whatever the policy or a workload still binds.

**Upgrade.** Any number of programs, objects, cgroups, crashes and edits. `IInv` lists for
every place a sensor can stand in which of the three directories exist and what is
complete in them (`Places`), and which set counts: `root`, or `next` between the two
renames (`Promises`). `BoundStayGoverned` needs that the state file belongs to that set,
or from `SaveCarried` on to `next`; `cut_off` excepts the behaviours in which a
sensor died in between (the finding `upgrade_carry`).

**Heartbeat.** Any timeouts, of which one is the longest, and any number of starts.
`RoomAssumption` is the condition on the trouble a thread may meet: the sleeps up to the
last beat that fails and the one after it, each as late as allowed, and a hook, fit into
the timeout. `AgeInv` bounds the beats from below (none is younger than the time without a
thread), `RoomInv` those of a running sensor from above, and both bound what a hook has read.

**EventPipeline.** Any buffers, events, starts, replacements, kills and faults. The log
claims at most what the observer has recorded, that is at most the counter it was copied
from, and counters only grow: `ChainInv` for the kernel's counter, including that of a set
being replaced, `DropInv` for the channel's. `ThreadInv` is needed for the last conjunct:
the worker ends after the drain thread, so nothing is dropped after its last tick.
`ExactInv` adds up where the events are; each step moves some from one place to the next,
and `TotalSteps` says what that does to the sum over the channel.

**ProcTable.** Any tgids, processes, queued events and cache capacity (at least one entry).
The processes of a tgid are ordered by their starts. The invariant says that no entry was
made for a later process than an event still queued or looked up is from, and what a lookup
can have read of `/proc`: the process it asks about, one that started after the event, or none.

**AgentRuns.** Any number of runs, forks, faults and deaths. Every action but the daemon's
death changes one run, so `IInv` is a statement of each alone: what it has at each place of
its handler (`Launched`) and waiter (`Waited`), and what a process can rely on when neither is left
(`Attended`).

**Containers.** Any pods, policies and clusters. `ContainersInv` follows a bind request: its profile
is one its own pod resolves to, the cgroup it writes is the container's, and from then on
the cgroup stays bound, since an unbind is only asked for once the container has stopped.

**FileExec.** Any tree, texts and operations. `IInv`: an exec carries the generation of its
last check, and the decision kept for it is that check's until recorded or evicted; every
file on a protected list has a rule that denies each change to it; such a file is neither
changed nor open for writing, unless it was open at the flip. Whether the file had a name
left is noted at the check (`exec.linked`).
`SubtreeInv` adds what `SubtreeUnchanged` needs, for finitely many directories of which
each has at most one name at the start (`TreeAssumptions`): the entries beneath a frozen directory are those of the flip, what has all
its names there has got none elsewhere, and it is neither changed nor open. The hooks walk
the tree as it is now, so it has to be shown that the walks still meet the frozen directory
(`StaysBelow`, by induction over the levels of a walk); a walk that is cut off denies.

**NetPolicy and Egress.** Addresses of any width, policies of any length, any ports,
protocols and number of ranges. `LookupAgrees` follows the ranges of a trie entry through
the loops of `compile_trie`: a rule whose prefix contains the entry has each of its ranges
there, or an earlier one that covers it (`AddRange`), and the ranges stand in the order in
which `evaluate` prefers their rules. The longest prefix that contains an address is
contained in no fewer rules' prefixes than the address, so the first range that matches is
one of the rule that `evaluate` picks. `DenyReachesNat64` adds that `push` leaves the
translated twin of each deny in the list (`Twinned`). `EgressInv` keeps, for each socket,
that its peer was allowed when it was connected, and with `deny_raw_sockets` that the only
other socket is one of an unclassified family, which the theorem excepts.

**AuditChain.** Any batch and segment sizes, records, restarts and failures. `DirInv` holds
whatever fails: each segment begins with its header or has no complete line, the writer's
head is above every segment, and between `Open` and the end of recovery every record found
is in a segment or already set aside. `LogInv` speaks of the behaviours that meet kills or
power losses, not both, and no failing writes; `LogAlwaysVerifies` therefore assumes
`SeparateFailures`, that no set-up has both of the former without the latter, of which
`LogVerifies` says nothing (section 6 has what happens in the others). In these every
segment reads without fault and starts where the one before it ends (`Linked`), what the writer
holds in memory agrees with what it has written (`ChainInv`), all but the segment being
written is synced (`SyncInv`), and a batch whose head was exported is on the disk. Then the
verifier, segment by segment, finds the heads that recovery finds.

Model-checked only: liveness (`ComesUp`, `StopEnds`, `SlotsReturn`, `WaiterCleansUp`,
`HangupStops`, `ResyncGoverns`), which is outside what the prover supports; and `KeepsTrail`,
the refinement of `AuditTrail`, whose mapping reads the batches off all segments together.

## 5. Mutants

Every property of a passing run has a mutant in `PROJECT.json`: a plausible wrong
version of one mapped definition (a dropped guard, a swapped order, a missing reset)
that TLC shows to violate it. They live beside the definition they replace.

## 6. Findings, and limits of what holds

Two runs document a disagreement between code and text:

- **`audit_faults`** (`chain.rs:347`). When a flush or sync fails inside `seal`, the
  next seal writes a second trailer for the same batch, and `rk audit verify` reports
  what the sensor itself wrote as tampering.
- **`upgrade_carry`** (`policy.rs:898`). A sensor that dies after saving the carried
  state and before the switch leaves a state file that matches no set; the next
  upgrade drops the runtime bindings, which `phase-10.md` says are carried over.

Other properties are stated with the condition under which the code has them. What
lies outside the condition, as met while modelling:

- *Slots.* `last_flip` is not saved: after a restart only the restart's duration
  separates a flip from the next clear (hence `RestartTime`).
- *Bindings.* Profile ids allocated by an apply are lost if the sensor dies before
  `persist`, and a later profile may get one of them. An apply with a failed binding
  write returns before the level mask is published (`DescendantsGoverned` speaks of operations
  that succeed). A reload that does not bind a
  quarantined cgroup ends its quarantine. Without a state file, `quarantine` before
  the first apply uses id 0. When the write of a static binding fails, the engine keeps
  nothing of it, and `bind_container` can then bind the same cgroup to a container's
  profile; `release` from a quarantine gives it the policy's profile (`policy.rs:1610`),
  and after an apply without that profile the cgroup is bound to an id without entry, for
  which the hooks fail closed. `AgentsStayGoverned` promises such a workload
  (`contested`) a binding, and not which.
- *Audit log.* A batch flushed but not synced when the process dies is taken over
  unsynced; a power loss after that can drop an exported head. A kill between the
  creation of a segment and its header is reported as a segment without header.
- *Upgrade.* After a first start that died before `rk_meta` was written, a start
  without an applicable policy file gives up with nothing attached, although the
  message says that the old object keeps enforcing.
- *Pipeline.* The pass under way when a stop is requested has no deadline: producers
  that never pause keep it going. Kernel losses after the last one-second tick, and a
  loss record whose write failed, are not in the log.
- *Heartbeat.* On an adopted set a shorter timeout is stored before the first beat,
  so that a hook in between can find the earlier beat stale.
- *Process table.* A process that exited before its events were read, and of which no
  exec record came, can be taken for an earlier process with its tgid.
- *Sockets.* With `deny_raw_sockets = false` the rules are promised for TCP and UDP only.
  Families other than IP and packet sockets are not classified (`net.bpf.c:210`, and
  `docs/threat-model.md`, sections 4 and 6): what they send is excepted.
  No hook runs for a send on a connected socket, so it keeps its peer when another
  policy is applied; `Egress` has one policy per behaviour.
- *Agents.* A client that hangs up before `RunStarted` leaves an agent without a
  waiter: nobody kills it, and its binding and cgroup stay after it exits
  (`server.rs:821`). Without cgroup.kill, or with an unreadable `/proc`, a forked process
  can outlive the binding. `HangupStops` therefore begins with the waiter, and excepts a
  failed call where there is no cgroup.kill: `kill_cgroup` then misses processes.
- *Containers.* A restart of the daemon alone does not refill its registry. A resync
  bind that fails is logged and not tried again (`plugin.go:133`); `ResyncGoverns` excepts
  a container with a failed request. A bind
  that outlasts the plugin's budget can register a container after its removal.
- *Files and execs.* A profile bound before it was ever written fails closed for
  execs and connections, and matches no file rule, so file accesses pass
  (`before.written`). A file open for writing at a flip stays writable. Paths are
  resolved before the flip: what is written or renamed in between is not noticed, since the
  new generation begins at the flip; a listed file that has lost its last name by then is
  not executed unless the policy allows unlinked files. A subtree rule
  does not cover a hard link that existed outside the tree. A kept exec decision of an
  exec that failed can be used by a later exec of the thread that was checked while
  ungoverned (`exec.gov`). In AUDIT mode an exec that would be denied also produces an
  ALLOW record. The depth limit denies whether or not the profile has subtree rules.

## 7. Not modelled

- The text syntax of policies (TOML, CIDR, ports), `diff`, `suggest`: pure functions.
- Byte layouts (`rk_abi.h`, decoder, protocol framing), OCSF and OTLP formatting.
- The loader and self-test, metrics, `doctor`, `init`, packaging.
- Key handling (`key.rs` makes the key at the first start and reads it afterwards) and
  `tail.rs`, which renders what it reads. The parent pid in the process table and the
  container names of `identity.rs`.
- `vmlinux.h`, the generated header with the kernel's types, is nearly all of the lines
  under `rk-bpf`; it holds no code. What `rk-bpf` implements is in `common.bpf.h`,
  `net.bpf.c`, `file.bpf.c`, `exec.bpf.c` and `guard.bpf.c`, whose hooks are all modelled.
- The sensor's control loop (SIGHUP, file watch) and the daemon's policy commands. The
  watch loop compares with the text last seen, applied or not. Both only choose when an
  apply happens; the engine is behind one lock, and `Bindings` and `SlotApply` apply any
  policy at any time.
- Concurrency inside one map operation: a BPF map update is atomic, as the kernel
  guarantees.
- Ungoverned tasks' file operations; inodes that a rule names are not reused.

## 8. Plan

- `SensorControl`: the watch loop, SIGHUP and the daemon's policy commands.
- `Egress` with sockets that stay connected across applies, composed with `SlotApply`.
- `Tail`: the log reader across rotation and recovery, composed with `AuditChain`.
