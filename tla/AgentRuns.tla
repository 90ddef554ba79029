----------------------------- MODULE AgentRuns -----------------------------
(***************************************************************************)
(* rk run: a client's connection, its handler, the process it launches and *)
(* the waiter that cleans up after it.                                     *)
(*                                                                         *)
(* The handlers and waiters of several runs interleave.  They share the    *)
(* lock on the policy handler; the cgroup is created and bound under it,   *)
(* the process is spawned without it.  A cgroup is a run's own and is      *)
(* never reused.  What bind_dynamic and unbind_dynamic do to the kernel's  *)
(* maps is the subject of module Bindings; here a cgroup is bound or not.  *)
(*                                                                         *)
(* A process that has been sent SIGKILL is dying: it runs no instruction   *)
(* of its own any more, and stays in the cgroup until it has exited.       *)
(***************************************************************************)
EXTENDS Naturals, FiniteSets

CONSTANTS
  Runs,                \* rk run invocations, each with its connection and cgroup
  NoRun,               \* nobody holds the lock
  MaxForks,            \* bound on the children an agent forks, on any host
  Hosts                \* the hosts considered, see the definitions over host below

AgentSetups ==
  /\ NoRun \notin Runs /\ MaxForks \in Nat
  /\ Hosts \subseteq [clone3 : BOOLEAN, cgroup_kill : BOOLEAN, unreadable : BOOLEAN,
                      clients : SUBSET Runs, receives : Nat, forks : Nat, faults : Nat,
                      crashes : Nat]

ASSUME AgentAssumptions == AgentSetups

VARIABLES
  host,     \* the host the behaviour takes place on
  pc,       \* of each run's handler
  waiter,   \* of each run's waiter
  killing,  \* how far the waiter's kill_cgroup is: no, read or send
  snap,     \* the processes it read from cgroup.procs
  lock,     \* the run whose handler holds the policy handler's lock
  cgroup,   \* the run's cgroup directory: absent, present or removed
  bound,    \* the runs whose cgroup is bound
  reg,      \* the runs in the agent registry
  conn,     \* the client's end of the connection: none, open or closed
  told,     \* the runs whose client was sent RunExited
  proc,     \* the processes of each run: 0 is the one launched
  home,     \* the cgroup that process 0 is in: none, daemon or agent
  up,       \* whether the daemon runs
  faults,   \* failed calls so far
  crashes   \* deaths of the daemon so far

daemon == <<pc, waiter, killing, snap, lock, reg>>
bounds == <<host, faults, crashes>>
vars == <<daemon, cgroup, bound, conn, told, proc, home, up, bounds>>

HasClone3 == host.clone3               \* the kernel offers clone3
HasCgroupKill == host.cgroup_kill      \* the kernel offers cgroup.kill, and a write to it works
PlacementUnreadable == host.unreadable \* /proc/<pid>/cgroup may be unreadable
Clients == host.clients                \* the runs that are asked for
MAX_RECEIVES == host.receives          \* MAX_CONCURRENT_RECEIVES
ForkLimit == host.forks                \* bound on forks of one agent, at most MaxForks
MaxFaults == host.faults               \* bound on failing calls
MaxCrashes == host.crashes             \* bound on deaths of the daemon

Kids == 1..MaxForks
Procs == {0} \cup Kids
Setup == {"waiting", "ready", "setup", "failed"}  \* process 0 before its exec
Ended == {"none", "zombie", "gone"}

\* Where a handler is while it has its accept slot.
InFlight ==
  {"receive", "lock", "bind", "open", "spawn", "attach", "release", "errpipe",
   "undo", "placement", "notify"}

Slots == {r \in Runs : pc[r] \in InFlight}
Running(r) == {p \in Procs : proc[r][p] = "run"}

\* cgroup.procs: the processes in the cgroup that have not exited.
InCgroup(r) ==
  {p \in Procs : proc[r][p] \notin Ended /\ (p = 0 => home[r] = "agent")}

Init ==
  /\ host \in Hosts
  /\ pc = [r \in Runs |-> "idle"]
  /\ waiter = [r \in Runs |-> "none"]
  /\ killing = [r \in Runs |-> "no"]
  /\ snap = [r \in Runs |-> {}]
  /\ lock = NoRun
  /\ cgroup = [r \in Runs |-> "absent"]
  /\ bound = {}
  /\ reg = {}
  /\ conn = [r \in Runs |-> "none"]
  /\ told = {}
  /\ proc = [r \in Runs |-> [p \in Procs |-> "none"]]
  /\ home = [r \in Runs |-> "none"]
  /\ up = TRUE
  /\ faults = 0
  /\ crashes = 0

Goto(r, at) == pc' = [pc EXCEPT ![r] = at]
Fault == faults < MaxFaults /\ faults' = faults + 1 /\ UNCHANGED <<host, crashes>>
Becomes(r, p, st) == proc' = [proc EXCEPT ![r][p] = st]
Sigkill(st) == IF st \in {"run", "waiting", "ready", "setup"} THEN "dying" ELSE st
-----------------------------------------------------------------------------
(* The connection *)

\* The accept loop: a slot for the whole request, or the connection is shed.
Accept(r) ==
  /\ up /\ r \in Clients /\ pc[r] = "idle"
  /\ IF Cardinality(Slots) < MAX_RECEIVES
     THEN Goto(r, "receive") /\ conn' = [conn EXCEPT ![r] = "open"]
     ELSE Goto(r, "over") /\ conn' = [conn EXCEPT ![r] = "closed"]
  /\ UNCHANGED <<waiter, killing, snap, lock, reg, cgroup, bound, told, proc, home, up, bounds>>

\* The client sends Run, or nothing within RECV_TIMEOUT.
Receive(r) ==
  /\ pc[r] = "receive"
  /\ \/ conn[r] = "open" /\ Goto(r, "lock")
     \/ Goto(r, "over")
  /\ UNCHANGED <<waiter, killing, snap, lock, reg, cgroup, bound, conn, told, proc, home, up, bounds>>

Hangup(r) ==
  /\ conn[r] = "open"
  /\ conn' = [conn EXCEPT ![r] = "closed"]
  /\ UNCHANGED <<daemon, cgroup, bound, told, proc, home, up, bounds>>
-----------------------------------------------------------------------------
(* handle_run, under the lock *)

\* Steps 1 and 2: the profile is looked up, the caller's right to it checked
\* and the cgroup created.  A directory whose mode could not be set stays.
CreateCgroup(r) ==
  /\ pc[r] = "lock" /\ lock = NoRun
  /\ \/ Goto(r, "bind") /\ lock' = r
        /\ cgroup' = [cgroup EXCEPT ![r] = "present"] /\ UNCHANGED bounds
     \/ Goto(r, "over") /\ UNCHANGED <<lock, cgroup, bounds>>
     \/ Goto(r, "over") /\ Fault /\ UNCHANGED lock
        /\ cgroup' \in {cgroup, [cgroup EXCEPT ![r] = "present"]}
  /\ UNCHANGED <<waiter, killing, snap, reg, bound, conn, told, proc, home, up>>

\* Step 3: bind_dynamic.
BindDynamic(r) ==
  /\ pc[r] = "bind"
  /\ \/ Goto(r, "open") /\ bound' = bound \cup {r}
        /\ UNCHANGED <<lock, cgroup, bounds>>
     \/ Goto(r, "over") /\ Fault /\ lock' = NoRun
        /\ cgroup' = [cgroup EXCEPT ![r] = "removed"] /\ UNCHANGED bound
  /\ UNCHANGED <<waiter, killing, snap, reg, conn, told, proc, home, up>>

\* Mutant: the lock is kept while the agent is spawned.
OpenKeepsLock(r) ==
  /\ pc[r] = "open"
  /\ \/ Goto(r, "spawn") /\ UNCHANGED <<lock, bound, cgroup, bounds>>
     \/ Goto(r, "over") /\ Fault /\ bound' = bound \ {r} /\ lock' = NoRun
        /\ cgroup' = [cgroup EXCEPT ![r] = "removed"]
  /\ UNCHANGED <<waiter, killing, snap, reg, conn, told, proc, home, up>>

\* open_cgroup_dir, and the lock is dropped.
OpenCgroup(r) ==
  /\ pc[r] = "open"
  /\ lock' = NoRun
  /\ \/ Goto(r, "spawn") /\ UNCHANGED <<bound, cgroup, bounds>>
     \/ Goto(r, "over") /\ Fault /\ bound' = bound \ {r}
        /\ cgroup' = [cgroup EXCEPT ![r] = "removed"]
  /\ UNCHANGED <<waiter, killing, snap, reg, conn, told, proc, home, up>>
-----------------------------------------------------------------------------
(* spawn_in_cgroup *)

\* clone3 starts the child in the cgroup; without it, fork starts the child
\* in the daemon's cgroup, to wait for its release.
Spawn(r) ==
  /\ pc[r] = "spawn"
  /\ \/ /\ Goto(r, IF HasClone3 THEN "errpipe" ELSE "attach")
        /\ Becomes(r, 0, IF HasClone3 THEN "setup" ELSE "waiting")
        /\ home' = [home EXCEPT ![r] = IF HasClone3 THEN "agent" ELSE "daemon"]
        /\ UNCHANGED bounds
     \/ Goto(r, "undo") /\ Fault /\ UNCHANGED <<proc, home>>
  /\ UNCHANGED <<waiter, killing, snap, lock, reg, cgroup, bound, conn, told, up>>

\* Mutant: the child is released whether or not it was attached.
AttachUnchecked(r) ==
  /\ pc[r] = "attach"
  /\ proc[r][0] # "waiting"
  /\ Goto(r, "release")
  /\ \/ home' = [home EXCEPT ![r] = "agent"] /\ UNCHANGED bounds
     \/ Fault /\ UNCHANGED home
  /\ UNCHANGED <<waiter, killing, snap, lock, reg, cgroup, bound, conn, told, proc, up>>

\* The fork path's parent: wait for the child's byte, write its pid to
\* cgroup.procs.  A child that did not answer, or could not be attached, is
\* killed and reaped.
Attach(r) ==
  /\ pc[r] = "attach"
  /\ proc[r][0] # "waiting"
  /\ \/ /\ proc[r][0] = "ready"
        /\ Goto(r, "release") /\ home' = [home EXCEPT ![r] = "agent"]
        /\ UNCHANGED <<proc, bounds>>
     \/ /\ IF proc[r][0] = "ready" THEN Fault ELSE UNCHANGED bounds
        /\ Goto(r, "undo") /\ Becomes(r, 0, "gone") /\ UNCHANGED home
  /\ UNCHANGED <<waiter, killing, snap, lock, reg, cgroup, bound, conn, told, up>>

\* The parent writes the release byte.
Release(r) ==
  /\ pc[r] = "release"
  /\ \/ Goto(r, "errpipe") /\ UNCHANGED bounds
        /\ Becomes(r, 0, IF proc[r][0] = "ready" THEN "setup" ELSE proc[r][0])
     \/ Goto(r, "undo") /\ Fault /\ Becomes(r, 0, "gone")
  /\ UNCHANGED <<waiter, killing, snap, lock, reg, cgroup, bound, conn, told, home, up>>

\* The forked child reports itself ready.
ChildReady(r) ==
  /\ proc[r][0] = "waiting"
  /\ Becomes(r, 0, "ready")
  /\ UNCHANGED <<daemon, cgroup, bound, conn, told, home, up, bounds>>

\* Its wait ends without the release byte: the launching daemon is gone.
ChildAbandoned(r) ==
  /\ proc[r][0] \in {"waiting", "ready"}
  /\ pc[r] \notin {"attach", "release"}
  /\ Becomes(r, 0, "gone")
  /\ UNCHANGED <<daemon, cgroup, bound, conn, told, home, up, bounds>>

\* child_pre_exec: the child drops its privileges and executes the command,
\* or writes to the error pipe and exits.
ChildExec(r) ==
  /\ proc[r][0] = "setup"
  /\ \/ Becomes(r, 0, "run") /\ UNCHANGED bounds
     \/ Becomes(r, 0, "failed") /\ Fault
  /\ UNCHANGED <<daemon, cgroup, bound, conn, told, home, up>>

\* The parent reads the error pipe, which closes when the child executes or
\* exits.
ReadErrPipe(r) ==
  /\ pc[r] = "errpipe"
  /\ proc[r][0] \notin Setup \ {"failed"}
  /\ \/ proc[r][0] = "failed" /\ Goto(r, "undo") /\ Becomes(r, 0, "gone")
     \/ proc[r][0] # "failed" /\ Goto(r, "placement") /\ UNCHANGED proc
  /\ UNCHANGED <<waiter, killing, snap, lock, reg, cgroup, bound, conn, told, home, up, bounds>>

\* remove_dir succeeds when no process is left in the cgroup.
RemoveDir(r) ==
  cgroup' = [cgroup EXCEPT ![r] = IF InCgroup(r) = {} THEN "removed" ELSE @]

\* Mutant: a failed launch leaves its binding.
UndoLeavesBinding(r) ==
  /\ pc[r] = "undo"
  /\ RemoveDir(r)
  /\ Goto(r, "over")
  /\ UNCHANGED <<waiter, killing, snap, lock, reg, bound, conn, told, proc, home, up, bounds>>

\* The launch failed: unbind, remove the cgroup, tell the client.
Undo(r) ==
  /\ pc[r] = "undo" /\ lock = NoRun
  /\ bound' = bound \ {r}
  /\ RemoveDir(r)
  /\ Goto(r, "over")
  /\ UNCHANGED <<waiter, killing, snap, lock, reg, conn, told, proc, home, up, bounds>>

\* placement_problem: a process that cannot be shown to be in its cgroup is
\* killed and reaped; the others it has forked are not.
CheckPlacement(r) ==
  /\ pc[r] = "placement"
  /\ \/ /\ home[r] = "agent"
        /\ Goto(r, "notify") /\ reg' = reg \cup {r} /\ UNCHANGED proc
     \/ /\ home[r] # "agent" \/ PlacementUnreadable
        /\ Goto(r, "undo") /\ Becomes(r, 0, "gone") /\ UNCHANGED reg
  /\ UNCHANGED <<waiter, killing, snap, lock, cgroup, bound, conn, told, home, up, bounds>>

\* Sending RunStarted: the waiter is only started if that succeeds.
Notify(r) ==
  /\ pc[r] = "notify"
  /\ Goto(r, "over")
  /\ waiter' = [waiter EXCEPT ![r] = IF conn[r] = "open" THEN "wait" ELSE "none"]
  /\ UNCHANGED <<killing, snap, lock, reg, cgroup, bound, conn, told, proc, home, up, bounds>>
-----------------------------------------------------------------------------
(* The waiter *)

\* Mutant: the registry entry is dropped with the rest of the cleanup.
ReapKeepsEntry(r) ==
  /\ waiter[r] = "wait" /\ killing[r] = "no"
  /\ proc[r][0] = "zombie"
  /\ Becomes(r, 0, "gone")
  /\ waiter' = [waiter EXCEPT ![r] = "kill"]
  /\ UNCHANGED <<pc, killing, snap, lock, reg, cgroup, bound, conn, told, home, up, bounds>>

\* waitpid returns the agent.
Reap(r) ==
  /\ waiter[r] = "wait" /\ killing[r] = "no"
  /\ proc[r][0] = "zombie"
  /\ Becomes(r, 0, "gone")
  /\ waiter' = [waiter EXCEPT ![r] = "unregister"]
  /\ UNCHANGED <<pc, killing, snap, lock, reg, cgroup, bound, conn, told, home, up, bounds>>

\* AgentRegistry::unregister, before the slower cleanup.
Unregister(r) ==
  /\ waiter[r] = "unregister"
  /\ reg' = reg \ {r}
  /\ waiter' = [waiter EXCEPT ![r] = "kill"]
  /\ UNCHANGED <<pc, killing, snap, lock, cgroup, bound, conn, told, proc, home, up, bounds>>

\* Mutant: a client's hang-up is not noticed.
KillFileOnExit(r) ==
  /\ killing[r] = "no"
  /\ waiter[r] = "kill" \/ (waiter[r] = "drain" /\ InCgroup(r) # {})
  /\ killing' = [killing EXCEPT ![r] = "read"]
  /\ proc' = IF HasCgroupKill
             THEN [proc EXCEPT ![r] = [p \in Procs |->
                     IF p \in InCgroup(r) THEN Sigkill(@[p]) ELSE @[p]]]
             ELSE proc
  /\ UNCHANGED <<pc, waiter, snap, lock, reg, cgroup, bound, conn, told, home, up, bounds>>

\* kill_cgroup begins: because the client has hung up and waitpid has nothing
\* to return, the agent has exited, or the cgroup is still populated.
\* cgroup.kill kills all its processes.
KillFile(r) ==
  /\ killing[r] = "no"
  /\ \/ waiter[r] = "wait" /\ conn[r] = "closed" /\ proc[r][0] # "zombie"
     \/ waiter[r] = "kill"
     \/ waiter[r] = "drain" /\ InCgroup(r) # {}
  /\ killing' = [killing EXCEPT ![r] = "read"]
  /\ proc' = IF HasCgroupKill
             THEN [proc EXCEPT ![r] = [p \in Procs |->
                     IF p \in InCgroup(r) THEN Sigkill(@[p]) ELSE @[p]]]
             ELSE proc
  /\ UNCHANGED <<pc, waiter, snap, lock, reg, cgroup, bound, conn, told, home, up, bounds>>

\* Then cgroup.procs is read ...
KillRead(r) ==
  /\ killing[r] = "read"
  /\ killing' = [killing EXCEPT ![r] = "send"]
  /\ snap' = [snap EXCEPT ![r] = InCgroup(r)]
  /\ UNCHANGED <<pc, waiter, lock, reg, cgroup, bound, conn, told, proc, home, up, bounds>>

\* ... and each process found there is sent SIGKILL.
KillSend(r) ==
  /\ killing[r] = "send"
  /\ killing' = [killing EXCEPT ![r] = "no"]
  /\ snap' = [snap EXCEPT ![r] = {}]
  /\ proc' = [proc EXCEPT ![r] = [p \in Procs |->
                IF p \in snap[r] THEN Sigkill(@[p]) ELSE @[p]]]
  /\ waiter' = [waiter EXCEPT ![r] = IF @ = "kill" THEN "unbind" ELSE @]
  /\ UNCHANGED <<pc, lock, reg, cgroup, bound, conn, told, home, up, bounds>>

\* Mutant: the waiter ends without draining the cgroup.
UnbindEnds(r) ==
  /\ waiter[r] = "unbind" /\ lock = NoRun
  /\ bound' = bound \ {r}
  /\ waiter' = [waiter EXCEPT ![r] = "over"]
  /\ UNCHANGED <<pc, killing, snap, lock, reg, cgroup, conn, told, proc, home, up, bounds>>

\* unbind_dynamic, under the lock.
Unbind(r) ==
  /\ waiter[r] = "unbind" /\ lock = NoRun
  /\ bound' = bound \ {r}
  /\ waiter' = [waiter EXCEPT ![r] = "drain"]
  /\ UNCHANGED <<pc, killing, snap, lock, reg, cgroup, conn, told, proc, home, up, bounds>>

\* drain_and_remove_cgroup, once the cgroup is empty or the time is up, and
\* RunExited.
Drain(r) ==
  /\ waiter[r] = "drain" /\ killing[r] = "no"
  /\ IF InCgroup(r) = {} THEN UNCHANGED bounds ELSE Fault
  /\ RemoveDir(r)
  /\ told' = IF conn[r] = "open" THEN told \cup {r} ELSE told
  /\ conn' = [conn EXCEPT ![r] = "closed"]
  /\ waiter' = [waiter EXCEPT ![r] = "over"]
  /\ UNCHANGED <<pc, killing, snap, lock, reg, bound, proc, home, up>>
-----------------------------------------------------------------------------
(* The agent's processes, signals, and the daemon's death *)

\* Children are numbered in the order of their forks.
Fork(r, p) ==
  /\ Running(r) # {} /\ proc[r][p] = "none" /\ p <= ForkLimit
  /\ \A q \in Kids : q < p => proc[r][q] # "none"
  /\ Becomes(r, p, "run")
  /\ UNCHANGED <<daemon, cgroup, bound, conn, told, home, up, bounds>>

\* Process 0 stays a zombie until its parent reaps it: the daemon or, once
\* that has died, init.
Exited(r, p) ==
  Becomes(r, p, IF p = 0 /\ (pc[r] \in InFlight \/ waiter[r] = "wait" \/ r \in reg)
                THEN "zombie" ELSE "gone")

\* A process exits of its own accord, or of a signal other than SIGKILL.
Exit(r, p) ==
  /\ proc[r][p] = "run"
  /\ Exited(r, p)
  /\ UNCHANGED <<daemon, cgroup, bound, conn, told, home, up, bounds>>

\* The kernel finishes a killed process.
Die(r, p) ==
  /\ proc[r][p] = "dying"
  /\ Exited(r, p)
  /\ UNCHANGED <<daemon, cgroup, bound, conn, told, home, up, bounds>>

\* A Signal request for a registered agent, on the run's own connection or on
\* another: through the pidfd, so it reaches process 0 or nobody.
Signal(r) ==
  /\ up /\ r \in reg
  /\ proc[r][0] = "run"
  /\ Becomes(r, 0, "dying")
  /\ UNCHANGED <<daemon, cgroup, bound, conn, told, home, up, bounds>>

\* The daemon dies: its handlers, waiters and registry are gone, connections
\* close, init reaps its children.  Bindings and processes stay.
Crash ==
  /\ up /\ crashes < MaxCrashes
  /\ crashes' = crashes + 1
  /\ up' = FALSE
  /\ pc' = [r \in Runs |-> IF pc[r] = "idle" THEN "idle" ELSE "over"]
  /\ waiter' = [r \in Runs |-> "none"]
  /\ killing' = [r \in Runs |-> "no"]
  /\ snap' = [r \in Runs |-> {}]
  /\ lock' = NoRun
  /\ reg' = {}
  /\ conn' = [r \in Runs |-> IF conn[r] = "open" THEN "closed" ELSE conn[r]]
  /\ proc' = [r \in Runs |-> [p \in Procs |->
                IF proc[r][p] \in {"zombie", "failed"} THEN "gone" ELSE proc[r][p]]]
  /\ UNCHANGED <<cgroup, bound, told, home, host, faults>>

\* It starts again and adopts the bindings of the cgroups that still exist.
Restart ==
  /\ ~up
  /\ up' = TRUE
  /\ bound' = {r \in bound : cgroup[r] = "present"}
  /\ UNCHANGED <<daemon, cgroup, conn, told, proc, home, bounds>>

Handler(r) ==
  \/ Receive(r) \/ CreateCgroup(r) \/ BindDynamic(r) \/ OpenCgroup(r)
  \/ Spawn(r) \/ Attach(r) \/ Release(r) \/ ReadErrPipe(r) \/ Undo(r)
  \/ CheckPlacement(r) \/ Notify(r)

Waiter(r) ==
  \/ Reap(r) \/ Unregister(r) \/ KillFile(r) \/ KillRead(r) \/ KillSend(r)
  \/ Unbind(r) \/ Drain(r)

Kernel(r) ==
  ChildReady(r) \/ ChildAbandoned(r) \/ ChildExec(r) \/ \E p \in Procs : Die(r, p)

Next ==
  \/ \E r \in Runs :
       \/ Accept(r) \/ Hangup(r) \/ Signal(r)
       \/ Handler(r) \/ Waiter(r) \/ Kernel(r)
       \/ \E p \in Procs : Exit(r, p)
       \/ \E p \in Kids : Fork(r, p)
  \/ Crash
  \/ Restart

Spec == Init /\ [][Next]_vars

\* Tasks that are not blocked run on, and so does the kernel.  The agent need
\* not exit and the client need not hang up.
Fairness ==
  /\ \A r \in Runs :
       /\ WF_vars(Handler(r)) /\ WF_vars(Waiter(r))
       /\ WF_vars(ChildReady(r)) /\ WF_vars(ChildAbandoned(r)) /\ WF_vars(ChildExec(r))
       /\ \A p \in Procs : WF_vars(Die(r, p))
  /\ WF_vars(Restart)

FairSpec == Spec /\ Fairness
-----------------------------------------------------------------------------
(* Properties *)

\* An agent and the processes it forks are governed from the first instruction
\* of the command to the last: whatever runs is in its cgroup, and the cgroup
\* is bound, through failed launches, hang-ups and deaths of the daemon, where
\* the kernel has cgroup.kill and /proc can be read.
Governed ==
  \A r \in Runs : HasCgroupKill /\ ~PlacementUnreadable /\ Running(r) # {} =>
    /\ home[r] = "agent"
    /\ cgroup[r] = "present"
    /\ r \in bound

\* No binding outlives its cgroup: every path that removes the directory has
\* removed the binding first.
BoundHasCgroup == \A r \in bound : cgroup[r] = "present"

\* Once an agent's exit has been reported to the client, nothing of it is left
\* running (unless the drain timed out on a kernel without cgroup.kill), and a
\* registered agent is never one whose cleanup has begun.
ReportedIsOver ==
  /\ \A r \in told : r \notin bound /\ (HasCgroupKill \/ faults = 0 => Running(r) = {})
  /\ \A r \in reg : waiter[r] \notin {"kill", "unbind", "drain", "over"}

\* Every accepted connection gives its slot back: no handler waits for ever on
\* the lock, on a child's handshake or on the error pipe.
SlotsReturn == \A r \in Runs : pc[r] \in InFlight ~> pc[r] \notin InFlight

\* When an agent with a waiter exits, its binding, its cgroup and its registry
\* entry are removed, unless a call fails or the daemon dies first.
WaiterCleansUp ==
  \A r \in Runs : (waiter[r] = "wait" /\ proc[r][0] = "zombie") ~>
                    \/ faults + crashes > 0
                    \/ r \notin bound /\ cgroup[r] = "removed" /\ r \notin reg

\* When the client of an agent that has its waiter hangs up, the agent and all it
\* has forked stop, unless the daemon dies first or, on a kernel without cgroup.kill,
\* a call fails: processes forked between the read of cgroup.procs and the signals
\* are left when the drain times out.
HangupStops ==
  \A r \in Runs : (waiter[r] = "wait" /\ conn[r] = "closed") ~>
                    (InCgroup(r) = {} \/ crashes > 0 \/ (~HasCgroupKill /\ faults > 0))

=============================================================================
