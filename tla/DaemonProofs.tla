---------------------------- MODULE DaemonProofs ----------------------------
(***************************************************************************)
(* Proofs about what rk-agentd governs: the agents of rk run (AgentRuns)   *)
(* and the containers of the cluster (Containers).                         *)
(***************************************************************************)
EXTENDS AgentRuns, Containers, TLAPS

(***************************************************************************)
(* Agents are governed as long as they run, no binding outlives its        *)
(* cgroup, and a reported exit is final, for any number of runs, forks,    *)
(* failing calls and deaths of the daemon.                                 *)
(*                                                                         *)
(* The inductive invariant is a statement about each run alone: no action  *)
(* touches two of them.  It says what a run has at each place of its       *)
(* handler and of its waiter, and what a process that runs, or is about    *)
(* to, can rely on when neither is left.                                   *)
(***************************************************************************)

States == {"none", "waiting", "ready", "setup", "failed", "run", "dying", "zombie", "gone"}

TypeInv ==
  /\ host \in Hosts
  /\ pc \in [Runs -> InFlight \cup {"idle", "over"}]
  /\ waiter \in [Runs -> {"none", "wait", "unregister", "kill", "unbind", "drain", "over"}]
  /\ killing \in [Runs -> {"no", "read", "send"}]
  /\ cgroup \in [Runs -> {"absent", "present", "removed"}]
  /\ bound \subseteq Runs /\ reg \subseteq Runs /\ told \subseteq Runs
  /\ conn \in [Runs -> {"none", "open", "closed"}]
  /\ proc \in [Runs -> [Procs -> States]]
  /\ home \in [Runs -> {"none", "daemon", "agent"}]
  /\ faults \in Nat /\ crashes \in Nat

Childless(r) == \A p \in Kids : proc[r][p] = "none"
Quiet(r) == \A p \in Procs : proc[r][p] # "run"
Sound == HasCgroupKill /\ ~PlacementUnreadable

\* Where the handler is, and what the run has by then.
Launched(r) ==
  /\ pc[r] \in {"idle", "receive", "lock", "bind", "open", "spawn"} => proc[r][0] = "none"
  /\ pc[r] \in {"idle", "receive", "lock", "bind"} => r \notin bound
  /\ pc[r] = "bind" => cgroup[r] = "present"
  /\ pc[r] \in {"open", "spawn", "attach", "release", "errpipe", "placement", "notify"} =>
       cgroup[r] = "present" /\ r \in bound
  /\ pc[r] = "attach" => proc[r][0] \in {"waiting", "ready"}
  /\ pc[r] = "release" => proc[r][0] = "ready"
  /\ pc[r] \in {"release", "errpipe", "placement", "notify"} => home[r] = "agent"
  /\ pc[r] \in {"placement", "notify"} => proc[r][0] \notin Setup \cup {"none"}
  /\ pc[r] = "errpipe" => proc[r][0] # "none"
  /\ pc[r] = "undo" /\ Sound => Quiet(r) /\ proc[r][0] \in {"none", "gone"}

\* How far the waiter is, and what it has ended by then.
Waited(r) ==
  /\ waiter[r] # "none" =>
       pc[r] = "over" /\ home[r] = "agent" /\ proc[r][0] \notin Setup \cup {"none"}
  /\ waiter[r] \in {"unregister", "kill", "unbind", "drain", "over"} => proc[r][0] = "gone"
  /\ waiter[r] \in {"kill", "unbind", "drain", "over"} => r \notin reg
  /\ waiter[r] \in {"unbind", "drain", "over"} /\ HasCgroupKill => Quiet(r)
  /\ waiter[r] \in {"drain", "over"} => r \notin bound
  /\ killing[r] # "no" => waiter[r] # "none" /\ (HasCgroupKill => Quiet(r))

\* What holds of the processes, whoever is left to look after them.
Attended(r) ==
  /\ proc[r][0] \in Setup \cup {"none"} => Childless(r)
  /\ Sound /\ (proc[r][0] = "setup" \/ ~Quiet(r)) =>
       home[r] = "agent" /\ cgroup[r] = "present" /\ r \in bound
  /\ r \in bound => cgroup[r] = "present"
  /\ r \in told => /\ r \notin bound /\ pc[r] = "over" /\ proc[r][0] = "gone"
                   /\ waiter[r] \in {"none", "over"}
                   /\ HasCgroupKill \/ faults = 0 => Quiet(r)

RunOK(r) == Launched(r) /\ Waited(r) /\ Attended(r)

IInv == TypeInv /\ \A r \in Runs : RunOK(r)
-----------------------------------------------------------------------------
\* Process 0 is no child.
LEMMA ProcsFacts == 0 \in Procs /\ 0 \notin Kids /\ Procs = {0} \cup Kids /\ Kids \subseteq Procs
  BY AgentAssumptions DEF AgentSetups, Procs, Kids

\* A step of run r leaves run q as it is.
Same(q) ==
  /\ pc'[q] = pc[q] /\ waiter'[q] = waiter[q] /\ killing'[q] = killing[q]
  /\ cgroup'[q] = cgroup[q] /\ home'[q] = home[q] /\ proc'[q] = proc[q]
  /\ (q \in bound') <=> (q \in bound)
  /\ (q \in reg') <=> (q \in reg)
  /\ (q \in told') <=> (q \in told)

\* A step of one run keeps what holds of the others.
LEMMA OneRun ==
  ASSUME IInv, NEW r \in Runs, TypeInv', RunOK(r)', \A q \in Runs \ {r} : Same(q),
         host' = host, faults' = 0 => faults = 0
  PROVE  IInv'
  <1>1. ASSUME NEW q \in Runs \ {r} PROVE RunOK(q)'
    <2>1. RunOK(q) /\ Same(q)
      BY Zenon DEF IInv
    <2>s. /\ Quiet(q)' <=> Quiet(q)
          /\ Childless(q)' <=> Childless(q)
          /\ HasCgroupKill' <=> HasCgroupKill
          /\ Sound' <=> Sound
      BY <2>1, Zenon DEF Same, Sound, Quiet, HasCgroupKill, PlacementUnreadable, Childless
    <2> USE <2>1, <2>s DEF RunOK, Same
    <2>2. Launched(q)'
      BY Zenon DEF Launched
    <2>3. Waited(q)'
      BY Zenon DEF Waited
    <2>4. Attended(q)'
      BY Zenon DEF Attended
    <2> QED
      BY <2>2, <2>3, <2>4, Zenon
  <1> QED
    BY <1>1, Zenon DEF IInv


\* The initial states satisfy the invariant.
LEMMA InitIInv == Init => IInv
  <1> SUFFICES ASSUME Init PROVE IInv
    BY Zenon
  <1>1. TypeInv
    BY Zenon DEF Init, TypeInv, InFlight, States
  <1>2. \A r \in Runs : RunOK(r)
    BY ProcsFacts, ZenonT(40) DEF Init, RunOK, Launched, Waited, Attended, Childless, Quiet
  <1> QED
    BY <1>1, <1>2, Zenon DEF IInv

\* Every step keeps the types.
LEMMA NextType == TypeInv /\ [Next]_vars => TypeInv'
  <1> SUFFICES ASSUME TypeInv, [Next]_vars PROVE TypeInv'
    BY Zenon
  <1> USE DEF TypeInv, States, InFlight, daemon, bounds, Goto, Fault, Becomes
  <1>0. 0 \in Procs /\ Kids \subseteq Procs
    BY ProcsFacts, Zenon
  <1>1. ASSUME NEW r \in Runs, Accept(r) PROVE TypeInv'
    <2>1. CASE Goto(r, "receive") /\ conn' = [conn EXCEPT ![r] = "open"]
      BY <1>0, <1>1, <2>1, Zenon DEF Accept
    <2>2. CASE Goto(r, "over") /\ conn' = [conn EXCEPT ![r] = "closed"]
      BY <1>0, <1>1, <2>2, Zenon DEF Accept
    <2> QED
      BY <1>1, <2>1, <2>2, Zenon DEF Accept
  <1>2. ASSUME NEW r \in Runs, Receive(r) PROVE TypeInv'
    <2>1. CASE Goto(r, "lock")
      BY <1>0, <1>2, <2>1, Zenon DEF Receive
    <2>2. CASE Goto(r, "over")
      BY <1>0, <1>2, <2>2, Zenon DEF Receive
    <2> QED
      BY <1>2, <2>1, <2>2, Zenon DEF Receive
  <1>3. ASSUME NEW r \in Runs, Hangup(r) PROVE TypeInv'
    BY <1>0, <1>3, Zenon DEF Hangup
  <1>4. ASSUME NEW r \in Runs, CreateCgroup(r) PROVE TypeInv'
    <2>1. CASE Goto(r, "bind") /\ cgroup' = [cgroup EXCEPT ![r] = "present"] /\ UNCHANGED bounds
      BY <1>0, <1>4, <2>1, Zenon DEF CreateCgroup
    <2>2. CASE Goto(r, "over") /\ UNCHANGED <<cgroup, bounds>>
      BY <1>0, <1>4, <2>2, Zenon DEF CreateCgroup
    <2>3. CASE Goto(r, "over") /\ Fault /\ UNCHANGED cgroup
      BY <1>0, <1>4, <2>3, SMT DEF CreateCgroup
    <2>4. CASE Goto(r, "over") /\ Fault /\ cgroup' = [cgroup EXCEPT ![r] = "present"]
      BY <1>0, <1>4, <2>4, SMT DEF CreateCgroup
    <2> QED
      BY <1>4, <2>1, <2>2, <2>3, <2>4, Zenon DEF CreateCgroup
  <1>5. ASSUME NEW r \in Runs, BindDynamic(r) PROVE TypeInv'
    <2>1. CASE Goto(r, "open") /\ bound' = bound \cup {r} /\ UNCHANGED <<cgroup, bounds>>
      BY <1>0, <1>5, <2>1, Zenon DEF BindDynamic
    <2>2. CASE /\ Goto(r, "over") /\ Fault
               /\ cgroup' = [cgroup EXCEPT ![r] = "removed"] /\ UNCHANGED bound
      BY <1>0, <1>5, <2>2, SMT DEF BindDynamic
    <2> QED
      BY <1>5, <2>1, <2>2, Zenon DEF BindDynamic
  <1>6. ASSUME NEW r \in Runs, OpenCgroup(r) PROVE TypeInv'
    <2>1. CASE Goto(r, "spawn") /\ UNCHANGED <<bound, cgroup, bounds>>
      BY <1>0, <1>6, <2>1, Zenon DEF OpenCgroup
    <2>2. CASE /\ Goto(r, "over") /\ Fault
               /\ bound' = bound \ {r} /\ cgroup' = [cgroup EXCEPT ![r] = "removed"]
      BY <1>0, <1>6, <2>2, SMT DEF OpenCgroup
    <2> QED
      BY <1>6, <2>1, <2>2, Zenon DEF OpenCgroup
  <1>7. ASSUME NEW r \in Runs, Spawn(r) PROVE TypeInv'
    <2>1. CASE /\ Goto(r, "errpipe") /\ Becomes(r, 0, "setup")
               /\ home' = [home EXCEPT ![r] = "agent"] /\ UNCHANGED bounds
      BY <1>0, <1>7, <2>1, Zenon DEF Spawn
    <2>2. CASE /\ Goto(r, "attach") /\ Becomes(r, 0, "waiting")
               /\ home' = [home EXCEPT ![r] = "daemon"] /\ UNCHANGED bounds
      BY <1>0, <1>7, <2>2, Zenon DEF Spawn
    <2>3. CASE Goto(r, "undo") /\ Fault /\ UNCHANGED <<proc, home>>
      BY <1>0, <1>7, <2>3, SMT DEF Spawn
    <2> QED
      BY <1>7, <2>1, <2>2, <2>3, Zenon DEF Spawn
  <1>8. ASSUME NEW r \in Runs, Attach(r) PROVE TypeInv'
    <2>1. CASE /\ Goto(r, "release")
               /\ home' = [home EXCEPT ![r] = "agent"] /\ UNCHANGED <<proc, bounds>>
      BY <1>0, <1>8, <2>1, Zenon DEF Attach
    <2>2. CASE Goto(r, "undo") /\ Fault /\ Becomes(r, 0, "gone") /\ UNCHANGED home
      BY <1>0, <1>8, <2>2, SMT DEF Attach
    <2>3. CASE Goto(r, "undo") /\ Becomes(r, 0, "gone") /\ UNCHANGED <<home, bounds>>
      BY <1>0, <1>8, <2>3, Zenon DEF Attach
    <2> QED
      BY <1>8, <2>1, <2>2, <2>3, Zenon DEF Attach
  <1>9. ASSUME NEW r \in Runs, Release(r) PROVE TypeInv'
    <2>1. CASE Goto(r, "errpipe") /\ Becomes(r, 0, "setup") /\ UNCHANGED bounds
      BY <1>0, <1>9, <2>1, Zenon DEF Release
    <2>2. CASE Goto(r, "undo") /\ Fault /\ Becomes(r, 0, "gone")
      BY <1>0, <1>9, <2>2, SMT DEF Release
    <2> QED
      BY <1>9, <2>1, <2>2 DEF Release
  <1>10. ASSUME NEW r \in Runs, ReadErrPipe(r) PROVE TypeInv'
    <2>1. CASE proc[r][0] = "failed" /\ Goto(r, "undo") /\ Becomes(r, 0, "gone")
      BY <1>0, <1>10, <2>1, Zenon DEF ReadErrPipe
    <2>2. CASE proc[r][0] # "failed" /\ Goto(r, "placement") /\ UNCHANGED proc
      BY <1>0, <1>10, <2>2, Zenon DEF ReadErrPipe
    <2> QED
      BY <1>10, <2>1, <2>2, Zenon DEF ReadErrPipe
  <1>11. ASSUME NEW r \in Runs, Undo(r) PROVE TypeInv'
    BY <1>0, <1>11, Zenon DEF Undo, RemoveDir
  <1>12. ASSUME NEW r \in Runs, CheckPlacement(r) PROVE TypeInv'
    <2>1. CASE Goto(r, "notify") /\ reg' = reg \cup {r} /\ UNCHANGED proc
      BY <1>0, <1>12, <2>1, Zenon DEF CheckPlacement
    <2>2. CASE /\ (home[r] # "agent" \/ PlacementUnreadable) /\ Goto(r, "undo")
               /\ Becomes(r, 0, "gone") /\ UNCHANGED reg
      BY <1>0, <1>12, <2>2, Zenon DEF CheckPlacement
    <2> QED
      BY <1>12, <2>1, <2>2, Zenon DEF CheckPlacement
  <1>13. ASSUME NEW r \in Runs, Notify(r) PROVE TypeInv'
    <2>1. CASE waiter' = [waiter EXCEPT ![r] = "wait"]
      BY <1>0, <1>13, <2>1, Zenon DEF Notify
    <2>2. CASE waiter' = [waiter EXCEPT ![r] = "none"]
      BY <1>0, <1>13, <2>2, Zenon DEF Notify
    <2> QED
      BY <1>13, <2>1, <2>2, Zenon DEF Notify
  <1>14. ASSUME NEW r \in Runs, Reap(r) PROVE TypeInv'
    BY <1>0, <1>14, Zenon DEF Reap
  <1>15. ASSUME NEW r \in Runs, Unregister(r) PROVE TypeInv'
    BY <1>0, <1>15, Zenon DEF Unregister
  <1>16. ASSUME NEW r \in Runs, KillFile(r) PROVE TypeInv'
    BY <1>0, <1>16, ZenonT(40) DEF KillFile, InCgroup, Ended, Sigkill
  <1>17. ASSUME NEW r \in Runs, KillRead(r) PROVE TypeInv'
    BY <1>0, <1>17, Zenon DEF KillRead, InCgroup
  <1>18. ASSUME NEW r \in Runs, KillSend(r) PROVE TypeInv'
    BY <1>0, <1>18, Zenon DEF KillSend, Sigkill
  <1>19. ASSUME NEW r \in Runs, Unbind(r) PROVE TypeInv'
    BY <1>0, <1>19, Zenon DEF Unbind
  <1>20. ASSUME NEW r \in Runs, Drain(r) PROVE TypeInv'
    BY <1>0, <1>20, SMT DEF Drain, RemoveDir, InCgroup, Ended
  <1>21. ASSUME NEW r \in Runs, ChildReady(r) PROVE TypeInv'
    BY <1>0, <1>21, Zenon DEF ChildReady
  <1>22. ASSUME NEW r \in Runs, ChildAbandoned(r) PROVE TypeInv'
    BY <1>0, <1>22, Zenon DEF ChildAbandoned
  <1>23. ASSUME NEW r \in Runs, ChildExec(r) PROVE TypeInv'
    <2>1. CASE Becomes(r, 0, "run") /\ UNCHANGED bounds
      BY <1>0, <1>23, <2>1, Zenon DEF ChildExec
    <2>2. CASE Becomes(r, 0, "failed") /\ Fault
      BY <1>0, <1>23, <2>2, SMT DEF ChildExec
    <2> QED
      BY <1>23, <2>1, <2>2, Zenon DEF ChildExec
  <1>24. ASSUME NEW r \in Runs, NEW p \in Procs, Die(r, p) PROVE TypeInv'
    <2>1. CASE Becomes(r, p, "gone")
      BY <1>0, <1>24, <2>1, Zenon DEF Die
    <2>2. CASE p = 0 /\ Becomes(r, p, "zombie")
      BY <1>0, <1>24, <2>2, Zenon DEF Die
    <2> QED
      BY <1>24, <2>1, <2>2, Zenon DEF Die, Exited
  <1>25. ASSUME NEW r \in Runs, NEW p \in Procs, Exit(r, p) PROVE TypeInv'
    <2>1. CASE Becomes(r, p, "gone")
      BY <1>0, <1>25, <2>1, Zenon DEF Exit
    <2>2. CASE p = 0 /\ Becomes(r, p, "zombie")
      BY <1>0, <1>25, <2>2, Zenon DEF Exit
    <2> QED
      BY <1>25, <2>1, <2>2, Zenon DEF Exit, Exited
  <1>26. ASSUME NEW r \in Runs, NEW p \in Kids, Fork(r, p) PROVE TypeInv'
    BY <1>0, <1>26, Zenon DEF Fork, Running
  <1>27. ASSUME NEW r \in Runs, Signal(r) PROVE TypeInv'
    BY <1>0, <1>27, Zenon DEF Signal
  <1>28. CASE Crash
    BY <1>28, SMT DEF Crash
  <1>29. CASE Restart
    BY <1>29, Zenon DEF Restart
  <1>30. CASE UNCHANGED vars
    BY <1>30, Zenon DEF vars
  <1> QED
    BY <1>1, <1>2, <1>3, <1>4, <1>5, <1>6, <1>7, <1>8, <1>9, <1>10, <1>11, <1>12, <1>13, <1>14,
       <1>15, <1>16, <1>17, <1>18, <1>19, <1>20, <1>21, <1>22, <1>23, <1>24, <1>25, <1>26, <1>27,
       <1>28, <1>29, <1>30, Zenon
       DEF Next, Handler, Waiter, Kernel

\* Every step keeps the invariant.
LEMMA NextIInv == IInv /\ [Next]_vars => IInv'
  <1> SUFFICES ASSUME IInv, [Next]_vars PROVE IInv'
    BY ZenonT(40)
  <1>t. TypeInv /\ TypeInv'
    BY NextType, Zenon DEF IInv
  <1>u. TypeInv
    BY <1>t, Zenon
  <1> USE DEF daemon, bounds, TypeInv, RunOK, Launched, Waited, Attended, Sound, Quiet, Childless,
              Setup, HasCgroupKill, PlacementUnreadable, Goto, Fault, Becomes
  <1>0. 0 \in Procs /\ 0 \notin Kids /\ Kids \subseteq Procs /\ \A p \in Procs : p = 0 \/ p \in Kids
    BY ProcsFacts, Zenon
  <1>1. ASSUME NEW r \in Runs, Accept(r) PROVE IInv'
    <2>1. RunOK(r)
      BY Zenon DEF IInv
    <2>2. (\A q \in Runs \ {r} : Same(q)) /\ host' = host /\ (faults' = 0 => faults = 0)
      BY <1>0, <1>t, <1>1, SMT DEF Accept, Same
    <2>3. RunOK(r)'
      <3>1. CASE Goto(r, "receive") /\ conn' = [conn EXCEPT ![r] = "open"]
        BY <1>0, <1>u, <1>1, <2>1, <3>1, SMTT(20) DEF Accept
      <3>2. CASE Goto(r, "over") /\ conn' = [conn EXCEPT ![r] = "closed"]
        BY <1>0, <1>u, <1>1, <2>1, <3>2, SMTT(20) DEF Accept
      <3> QED
        BY <1>1, <3>1, <3>2, Zenon DEF Accept
    <2> QED
      BY <1>t, <2>2, <2>3, OneRun, Zenon
  <1>2. ASSUME NEW r \in Runs, Receive(r) PROVE IInv'
    <2>1. RunOK(r)
      BY Zenon DEF IInv
    <2>2. (\A q \in Runs \ {r} : Same(q)) /\ host' = host /\ (faults' = 0 => faults = 0)
      BY <1>0, <1>t, <1>2, SMT DEF Receive, Same
    <2>3. RunOK(r)'
      <3>1. CASE Goto(r, "lock")
        BY <1>0, <1>u, <1>2, <2>1, <3>1, SMTT(20) DEF Receive
      <3>2. CASE Goto(r, "over")
        BY <1>0, <1>u, <1>2, <2>1, <3>2, SMTT(20) DEF Receive
      <3> QED
        BY <1>2, <3>1, <3>2, Zenon DEF Receive
    <2> QED
      BY <1>t, <2>2, <2>3, OneRun, Zenon
  <1>3. ASSUME NEW r \in Runs, Hangup(r) PROVE IInv'
    <2>1. RunOK(r)
      BY Zenon DEF IInv
    <2>2. (\A q \in Runs \ {r} : Same(q)) /\ host' = host /\ (faults' = 0 => faults = 0)
      BY <1>0, <1>t, <1>3, SMT DEF Hangup, Same
    <2>3. RunOK(r)'
      BY <1>0, <1>t, <1>3, <2>1, Zenon DEF Hangup
    <2> QED
      BY <1>t, <2>2, <2>3, OneRun, Zenon
  <1>4. ASSUME NEW r \in Runs, CreateCgroup(r) PROVE IInv'
    <2>1. RunOK(r)
      BY Zenon DEF IInv
    <2>2. (\A q \in Runs \ {r} : Same(q)) /\ host' = host /\ (faults' = 0 => faults = 0)
      BY <1>0, <1>t, <1>4, SMT DEF CreateCgroup, Same
    <2>3. RunOK(r)'
      <3>1. CASE Goto(r, "bind") /\ cgroup' = [cgroup EXCEPT ![r] = "present"] /\ UNCHANGED bounds
        BY <1>0, <1>u, <1>4, <2>1, <3>1, SMTT(20) DEF CreateCgroup
      <3>2. CASE Goto(r, "over") /\ UNCHANGED <<cgroup, bounds>>
        BY <1>0, <1>u, <1>4, <2>1, <3>2, SMTT(20) DEF CreateCgroup
      <3>3. CASE Goto(r, "over") /\ Fault /\ UNCHANGED cgroup
        BY <1>0, <1>u, <1>4, <2>1, <3>3, SMTT(20) DEF CreateCgroup
      <3>4. CASE Goto(r, "over") /\ Fault /\ cgroup' = [cgroup EXCEPT ![r] = "present"]
        BY <1>0, <1>u, <1>4, <2>1, <3>4, SMTT(20) DEF CreateCgroup
      <3> QED
        BY <1>4, <3>1, <3>2, <3>3, <3>4, Zenon DEF CreateCgroup
    <2> QED
      BY <1>t, <2>2, <2>3, OneRun, Zenon
  <1>5. ASSUME NEW r \in Runs, BindDynamic(r) PROVE IInv'
    <2>1. RunOK(r)
      BY Zenon DEF IInv
    <2>2. (\A q \in Runs \ {r} : Same(q)) /\ host' = host /\ (faults' = 0 => faults = 0)
      BY <1>0, <1>t, <1>5, SMT DEF BindDynamic, Same
    <2>3. RunOK(r)'
      <3>1. CASE Goto(r, "open") /\ bound' = bound \cup {r} /\ UNCHANGED <<cgroup, bounds>>
        BY <1>0, <1>u, <1>5, <2>1, <3>1, SMTT(20) DEF BindDynamic
      <3>2. CASE /\ Goto(r, "over") /\ Fault
                 /\ cgroup' = [cgroup EXCEPT ![r] = "removed"] /\ UNCHANGED bound
        BY <1>0, <1>u, <1>5, <2>1, <3>2, SMTT(20) DEF BindDynamic
      <3> QED
        BY <1>5, <3>1, <3>2, Zenon DEF BindDynamic
    <2> QED
      BY <1>t, <2>2, <2>3, OneRun, Zenon
  <1>6. ASSUME NEW r \in Runs, OpenCgroup(r) PROVE IInv'
    <2>1. RunOK(r)
      BY Zenon DEF IInv
    <2>2. (\A q \in Runs \ {r} : Same(q)) /\ host' = host /\ (faults' = 0 => faults = 0)
      BY <1>0, <1>t, <1>6, SMT DEF OpenCgroup, Same
    <2>3. RunOK(r)'
      <3>1. CASE Goto(r, "spawn") /\ UNCHANGED <<bound, cgroup, bounds>>
        BY <1>0, <1>u, <1>6, <2>1, <3>1, SMTT(20) DEF OpenCgroup
      <3>2. CASE /\ Goto(r, "over") /\ Fault
                 /\ bound' = bound \ {r} /\ cgroup' = [cgroup EXCEPT ![r] = "removed"]
        <4>1. Quiet(r) /\ proc[r][0] = "none"
          BY <1>0, <1>6, <2>1, Zenon DEF OpenCgroup
        <4> QED
          BY <1>0, <1>t, <1>6, <2>1, <3>2, <4>1, ZenonT(40) DEF OpenCgroup
      <3> QED
        BY <1>6, <3>1, <3>2, Zenon DEF OpenCgroup
    <2> QED
      BY <1>t, <2>2, <2>3, OneRun, Zenon
  <1>7. ASSUME NEW r \in Runs, Spawn(r) PROVE IInv'
    <2>1. RunOK(r)
      BY Zenon DEF IInv
    <2>2. (\A q \in Runs \ {r} : Same(q)) /\ host' = host /\ (faults' = 0 => faults = 0)
      BY <1>0, <1>t, <1>7, SMT DEF Spawn, Same
    <2>3. RunOK(r)'
      <3>1. CASE /\ Goto(r, "errpipe") /\ Becomes(r, 0, "setup")
                 /\ home' = [home EXCEPT ![r] = "agent"] /\ UNCHANGED bounds
        BY <1>0, <1>u, <1>7, <2>1, <3>1, SMTT(20) DEF Spawn
      <3>2. CASE /\ Goto(r, "attach") /\ Becomes(r, 0, "waiting")
                 /\ home' = [home EXCEPT ![r] = "daemon"] /\ UNCHANGED bounds
        BY <1>0, <1>u, <1>7, <2>1, <3>2, SMTT(20) DEF Spawn
      <3>3. CASE Goto(r, "undo") /\ Fault /\ UNCHANGED <<proc, home>>
        BY <1>0, <1>t, <1>7, <2>1, <3>3, ZenonT(40) DEF Spawn
      <3> QED
        BY <1>7, <3>1, <3>2, <3>3, Zenon DEF Spawn
    <2> QED
      BY <1>t, <2>2, <2>3, OneRun, Zenon
  <1>8. ASSUME NEW r \in Runs, Attach(r) PROVE IInv'
    <2>1. RunOK(r)
      BY Zenon DEF IInv
    <2>2. (\A q \in Runs \ {r} : Same(q)) /\ host' = host /\ (faults' = 0 => faults = 0)
      BY <1>0, <1>t, <1>8, SMT DEF Attach, Same
    <2>3. RunOK(r)'
      <3>1. CASE /\ Goto(r, "release")
                 /\ home' = [home EXCEPT ![r] = "agent"] /\ UNCHANGED <<proc, bounds>>
        BY <1>0, <1>u, <1>8, <2>1, <3>1, SMTT(20) DEF Attach
      <3>2. CASE Goto(r, "undo") /\ Fault /\ Becomes(r, 0, "gone") /\ UNCHANGED home
        BY <1>0, <1>u, <1>8, <2>1, <3>2, SMTT(20) DEF Attach
      <3>3. CASE Goto(r, "undo") /\ Becomes(r, 0, "gone") /\ UNCHANGED <<home, bounds>>
        BY <1>0, <1>u, <1>8, <2>1, <3>3, SMTT(20) DEF Attach
      <3> QED
        BY <1>8, <3>1, <3>2, <3>3, Zenon DEF Attach
    <2> QED
      BY <1>t, <2>2, <2>3, OneRun, Zenon
  <1>9. ASSUME NEW r \in Runs, Release(r) PROVE IInv'
    <2>1. RunOK(r)
      BY Zenon DEF IInv
    <2>2. (\A q \in Runs \ {r} : Same(q)) /\ host' = host /\ (faults' = 0 => faults = 0)
      BY <1>0, <1>t, <1>9, SMT DEF Release, Same
    <2>3. RunOK(r)'
      <3>1. CASE Goto(r, "errpipe") /\ Becomes(r, 0, "setup") /\ UNCHANGED bounds
        BY <1>0, <1>u, <1>9, <2>1, <3>1, SMTT(20) DEF Release
      <3>2. CASE Goto(r, "undo") /\ Fault /\ Becomes(r, 0, "gone")
        BY <1>0, <1>u, <1>9, <2>1, <3>2, SMTT(20) DEF Release
      <3> QED
        BY <1>9, <2>1, <3>1, <3>2, ZenonT(40) DEF Release
    <2> QED
      BY <1>t, <2>2, <2>3, OneRun, Zenon
  <1>10. ASSUME NEW r \in Runs, ReadErrPipe(r) PROVE IInv'
    <2>1. RunOK(r)
      BY Zenon DEF IInv
    <2>2. (\A q \in Runs \ {r} : Same(q)) /\ host' = host /\ (faults' = 0 => faults = 0)
      BY <1>0, <1>t, <1>10, SMT DEF ReadErrPipe, Same
    <2>3. RunOK(r)'
      <3>1. CASE proc[r][0] = "failed" /\ Goto(r, "undo") /\ Becomes(r, 0, "gone")
        BY <1>0, <1>u, <1>10, <2>1, <3>1, SMTT(20) DEF ReadErrPipe
      <3>2. CASE proc[r][0] # "failed" /\ Goto(r, "placement") /\ UNCHANGED proc
        BY <1>0, <1>t, <1>10, <2>1, <3>2, Zenon DEF ReadErrPipe
      <3> QED
        BY <1>10, <3>1, <3>2, ZenonT(40) DEF ReadErrPipe
    <2> QED
      BY <1>t, <2>2, <2>3, OneRun, Zenon
  <1>11. ASSUME NEW r \in Runs, Undo(r) PROVE IInv'
    <2>1. RunOK(r)
      BY Zenon DEF IInv
    <2>2. (\A q \in Runs \ {r} : Same(q)) /\ host' = host /\ (faults' = 0 => faults = 0)
      BY <1>0, <1>t, <1>11, SMT DEF Undo, RemoveDir, Same
    <2>3. RunOK(r)'
      BY <1>0, <1>u, <1>11, <2>1, SMTT(20) DEF Undo, RemoveDir
    <2> QED
      BY <1>t, <2>2, <2>3, OneRun, Zenon
  <1>12. ASSUME NEW r \in Runs, CheckPlacement(r) PROVE IInv'
    <2>1. RunOK(r)
      BY Zenon DEF IInv
    <2>2. (\A q \in Runs \ {r} : Same(q)) /\ host' = host /\ (faults' = 0 => faults = 0)
      BY <1>0, <1>t, <1>12, SMT DEF CheckPlacement, Same
    <2>3. RunOK(r)'
      <3>1. CASE Goto(r, "notify") /\ reg' = reg \cup {r} /\ UNCHANGED proc
        BY <1>0, <1>u, <1>12, <2>1, <3>1, SMTT(20) DEF CheckPlacement
      <3>2. CASE /\ (home[r] # "agent" \/ PlacementUnreadable) /\ Goto(r, "undo")
                 /\ Becomes(r, 0, "gone") /\ UNCHANGED reg
        BY <1>0, <1>u, <1>12, <2>1, <3>2, SMTT(20) DEF CheckPlacement
      <3> QED
        BY <1>12, <3>1, <3>2, ZenonT(40) DEF CheckPlacement
    <2> QED
      BY <1>t, <2>2, <2>3, OneRun, Zenon
  <1>13. ASSUME NEW r \in Runs, Notify(r) PROVE IInv'
    <2>1. RunOK(r)
      BY Zenon DEF IInv
    <2>2. (\A q \in Runs \ {r} : Same(q)) /\ host' = host /\ (faults' = 0 => faults = 0)
      BY <1>0, <1>t, <1>13, SMT DEF Notify, Same
    <2>3. RunOK(r)'
      <3>1. CASE waiter' = [waiter EXCEPT ![r] = "wait"]
        BY <1>0, <1>u, <1>13, <2>1, <3>1, SMTT(20) DEF Notify
      <3>2. CASE waiter' = [waiter EXCEPT ![r] = "none"]
        BY <1>0, <1>t, <1>13, <2>1, <3>2, ZenonT(40) DEF Notify
      <3> QED
        BY <1>13, <3>1, <3>2, ZenonT(40) DEF Notify
    <2> QED
      BY <1>t, <2>2, <2>3, OneRun, Zenon
  <1>14. ASSUME NEW r \in Runs, Reap(r) PROVE IInv'
    <2>1. RunOK(r)
      BY Zenon DEF IInv
    <2>2. (\A q \in Runs \ {r} : Same(q)) /\ host' = host /\ (faults' = 0 => faults = 0)
      BY <1>0, <1>t, <1>14, SMT DEF Reap, Same
    <2>3. RunOK(r)'
      BY <1>0, <1>u, <1>14, <2>1, SMTT(20) DEF Reap
    <2> QED
      BY <1>t, <2>2, <2>3, OneRun, Zenon
  <1>15. ASSUME NEW r \in Runs, Unregister(r) PROVE IInv'
    <2>1. RunOK(r)
      BY Zenon DEF IInv
    <2>2. (\A q \in Runs \ {r} : Same(q)) /\ host' = host /\ (faults' = 0 => faults = 0)
      BY <1>0, <1>t, <1>15, SMT DEF Unregister, Same
    <2>3. RunOK(r)'
      BY <1>0, <1>u, <1>15, <2>1, SMTT(20) DEF Unregister
    <2> QED
      BY <1>t, <2>2, <2>3, OneRun, Zenon
  <1>16. ASSUME NEW r \in Runs, KillFile(r) PROVE IInv'
    <2>1. RunOK(r)
      BY Zenon DEF IInv
    <2>2. (\A q \in Runs \ {r} : Same(q)) /\ host' = host /\ (faults' = 0 => faults = 0)
      BY <1>0, <1>t, <1>16, SMT DEF KillFile, InCgroup, Ended, Sigkill, Same
    <2>3. RunOK(r)'
      BY <1>0, <1>u, <1>16, <2>1, SMTT(20) DEF KillFile, InCgroup, Ended, Sigkill
    <2> QED
      BY <1>t, <2>2, <2>3, OneRun, Zenon
  <1>17. ASSUME NEW r \in Runs, KillRead(r) PROVE IInv'
    <2>1. RunOK(r)
      BY Zenon DEF IInv
    <2>2. (\A q \in Runs \ {r} : Same(q)) /\ host' = host /\ (faults' = 0 => faults = 0)
      BY <1>0, <1>t, <1>17, SMT DEF KillRead, InCgroup, Same
    <2>3. RunOK(r)'
      BY <1>0, <1>t, <1>17, <2>1, ZenonT(40) DEF KillRead, InCgroup
    <2> QED
      BY <1>t, <2>2, <2>3, OneRun, Zenon
  <1>18. ASSUME NEW r \in Runs, KillSend(r) PROVE IInv'
    <2>1. RunOK(r)
      BY Zenon DEF IInv
    <2>2. (\A q \in Runs \ {r} : Same(q)) /\ host' = host /\ (faults' = 0 => faults = 0)
      BY <1>0, <1>t, <1>18, SMT DEF KillSend, Sigkill, Same
    <2>3. RunOK(r)'
      BY <1>0, <1>u, <1>18, <2>1, SMTT(20) DEF KillSend, Sigkill
    <2> QED
      BY <1>t, <2>2, <2>3, OneRun, Zenon
  <1>19. ASSUME NEW r \in Runs, Unbind(r) PROVE IInv'
    <2>1. RunOK(r)
      BY Zenon DEF IInv
    <2>2. (\A q \in Runs \ {r} : Same(q)) /\ host' = host /\ (faults' = 0 => faults = 0)
      BY <1>0, <1>t, <1>19, SMT DEF Unbind, Same
    <2>3. RunOK(r)'
      BY <1>0, <1>u, <1>19, <2>1, SMTT(20) DEF Unbind
    <2> QED
      BY <1>t, <2>2, <2>3, OneRun, Zenon
  <1>20. ASSUME NEW r \in Runs, Drain(r) PROVE IInv'
    <2>1. RunOK(r)
      BY Zenon DEF IInv
    <2>2. (\A q \in Runs \ {r} : Same(q)) /\ host' = host /\ (faults' = 0 => faults = 0)
      BY <1>0, <1>t, <1>20, SMT DEF Drain, RemoveDir, InCgroup, Ended, Same
    <2>3. RunOK(r)'
      BY <1>0, <1>t, <1>20, <2>1, SMTT(20) DEF Drain, RemoveDir, InCgroup, Ended
    <2> QED
      BY <1>t, <2>2, <2>3, OneRun, Zenon
  <1>21. ASSUME NEW r \in Runs, ChildReady(r) PROVE IInv'
    <2>1. RunOK(r)
      BY Zenon DEF IInv
    <2>2. (\A q \in Runs \ {r} : Same(q)) /\ host' = host /\ (faults' = 0 => faults = 0)
      BY <1>0, <1>t, <1>21, SMT DEF ChildReady, Same
    <2>3. RunOK(r)'
      BY <1>0, <1>u, <1>21, <2>1, SMTT(20) DEF ChildReady
    <2> QED
      BY <1>t, <2>2, <2>3, OneRun, Zenon
  <1>22. ASSUME NEW r \in Runs, ChildAbandoned(r) PROVE IInv'
    <2>1. RunOK(r)
      BY Zenon DEF IInv
    <2>2. (\A q \in Runs \ {r} : Same(q)) /\ host' = host /\ (faults' = 0 => faults = 0)
      BY <1>0, <1>t, <1>22, SMT DEF ChildAbandoned, Same
    <2>3. RunOK(r)'
      BY <1>0, <1>u, <1>22, <2>1, SMTT(20) DEF ChildAbandoned
    <2> QED
      BY <1>t, <2>2, <2>3, OneRun, Zenon
  <1>23. ASSUME NEW r \in Runs, ChildExec(r) PROVE IInv'
    <2>1. RunOK(r)
      BY Zenon DEF IInv
    <2>2. (\A q \in Runs \ {r} : Same(q)) /\ host' = host /\ (faults' = 0 => faults = 0)
      BY <1>0, <1>t, <1>23, SMT DEF ChildExec, Same
    <2>3. RunOK(r)'
      <3>1. CASE Becomes(r, 0, "run") /\ UNCHANGED bounds
        BY <1>0, <1>u, <1>23, <2>1, <3>1, SMTT(20) DEF ChildExec
      <3>2. CASE Becomes(r, 0, "failed") /\ Fault
        BY <1>0, <1>u, <1>23, <2>1, <3>2, SMTT(20) DEF ChildExec
      <3> QED
        BY <1>23, <3>1, <3>2, Zenon DEF ChildExec
    <2> QED
      BY <1>t, <2>2, <2>3, OneRun, Zenon
  <1>24. ASSUME NEW r \in Runs, NEW p \in Procs, Die(r, p) PROVE IInv'
    <2>1. RunOK(r)
      BY Zenon DEF IInv
    <2>2. (\A q \in Runs \ {r} : Same(q)) /\ host' = host /\ (faults' = 0 => faults = 0)
      BY <1>0, <1>t, <1>24, SMT DEF Die, Exited, Same
    <2>3. RunOK(r)'
      <3>1. CASE Becomes(r, p, "gone")
        BY <1>0, <1>u, <1>24, <2>1, <3>1, SMTT(20) DEF Die
      <3>2. CASE p = 0 /\ Becomes(r, p, "zombie")
        BY <1>0, <1>u, <1>24, <2>1, <3>2, SMTT(20) DEF Die
      <3> QED
        BY <1>24, <3>1, <3>2, Zenon DEF Die, Exited
    <2> QED
      BY <1>t, <2>2, <2>3, OneRun, Zenon
  <1>25. ASSUME NEW r \in Runs, NEW p \in Procs, Exit(r, p) PROVE IInv'
    <2>1. RunOK(r)
      BY Zenon DEF IInv
    <2>2. (\A q \in Runs \ {r} : Same(q)) /\ host' = host /\ (faults' = 0 => faults = 0)
      BY <1>0, <1>t, <1>25, SMT DEF Exit, Exited, Same
    <2>3. RunOK(r)'
      <3>1. CASE Becomes(r, p, "gone")
        BY <1>0, <1>u, <1>25, <2>1, <3>1, SMTT(20) DEF Exit
      <3>2. CASE p = 0 /\ Becomes(r, p, "zombie")
        BY <1>0, <1>u, <1>25, <2>1, <3>2, SMTT(20) DEF Exit
      <3> QED
        BY <1>25, <3>1, <3>2, Zenon DEF Exit, Exited
    <2> QED
      BY <1>t, <2>2, <2>3, OneRun, Zenon
  <1>26. ASSUME NEW r \in Runs, NEW p \in Kids, Fork(r, p) PROVE IInv'
    <2>1. RunOK(r)
      BY Zenon DEF IInv
    <2>2. (\A q \in Runs \ {r} : Same(q)) /\ host' = host /\ (faults' = 0 => faults = 0)
      BY <1>0, <1>t, <1>26, SMT DEF Fork, Running, Same
    <2>3. RunOK(r)'
      BY <1>0, <1>u, <1>26, <2>1, SMTT(20) DEF Fork, Running
    <2> QED
      BY <1>t, <2>2, <2>3, OneRun, Zenon
  <1>27. ASSUME NEW r \in Runs, Signal(r) PROVE IInv'
    <2>1. RunOK(r)
      BY Zenon DEF IInv
    <2>2. (\A q \in Runs \ {r} : Same(q)) /\ host' = host /\ (faults' = 0 => faults = 0)
      BY <1>0, <1>t, <1>27, SMT DEF Signal, Same
    <2>3. RunOK(r)'
      BY <1>0, <1>u, <1>27, <2>1, SMTT(20) DEF Signal
    <2> QED
      BY <1>t, <2>2, <2>3, OneRun, Zenon
  <1>28. CASE Crash
    <2>1. ASSUME NEW r \in Runs PROVE RunOK(r)'
      BY <1>0, <1>u, <1>28, SMTT(20) DEF IInv, Crash
    <2> QED
      BY <1>t, <2>1, Zenon DEF IInv
  <1>29. CASE Restart
    <2>1. ASSUME NEW r \in Runs PROVE RunOK(r)'
      BY <1>29, SMT DEF IInv, Restart
    <2> QED
      BY <1>t, <2>1, Zenon DEF IInv
  <1>30. CASE UNCHANGED vars
    <2>1. ASSUME NEW r \in Runs PROVE RunOK(r)'
      BY <1>30, SMT DEF vars, IInv
    <2> QED
      BY <1>t, <2>1, Zenon DEF IInv
  <1> QED
    BY <1>1, <1>2, <1>3, <1>4, <1>5, <1>6, <1>7, <1>8, <1>9, <1>10, <1>11, <1>12, <1>13, <1>14,
       <1>15, <1>16, <1>17, <1>18, <1>19, <1>20, <1>21, <1>22, <1>23, <1>24, <1>25, <1>26, <1>27,
       <1>28, <1>29, <1>30
       DEF Next, Handler, Waiter, Kernel
-----------------------------------------------------------------------------
\* The invariant holds in every reachable state.
LEMMA Invariance == Spec => []IInv
  BY InitIInv, NextIInv, PTL DEF Spec

\* Whatever an agent runs is in its cgroup and the cgroup is bound, through failed
\* launches, hang-ups and deaths of the daemon, over clone3 and over the fork fallback.
THEOREM AgentsAreGoverned == Spec => []Governed
  <1>1. IInv => Governed
    <2> SUFFICES ASSUME IInv, NEW r \in Runs, Sound, Running(r) # {}
                 PROVE  home[r] = "agent" /\ cgroup[r] = "present" /\ r \in bound
      BY Zenon DEF Governed, Sound
    <2>1. ~Quiet(r)
      BY Zenon DEF Running, Quiet
    <2> QED
      BY <2>1, Zenon DEF IInv, RunOK, Attended
  <1> QED
    BY <1>1, Invariance, PTL

\* No binding outlives its cgroup, whatever path removes it.
THEOREM BindingsHaveCgroups == Spec => []BoundHasCgroup
  <1>1. IInv => BoundHasCgroup
    BY Zenon DEF IInv, TypeInv, RunOK, Attended, BoundHasCgroup
  <1> QED
    BY <1>1, Invariance, PTL

\* A reported exit is final, and a registered agent is not one being cleaned up.
THEOREM ReportsAreFinal == Spec => []ReportedIsOver
  <1>1. IInv => ReportedIsOver
    <2>1. ASSUME IInv, NEW r \in told
          PROVE  r \notin bound /\ (HasCgroupKill \/ faults = 0 => Running(r) = {})
      BY <2>1, Zenon DEF IInv, TypeInv, RunOK, Attended, Quiet, Running
    <2>2. ASSUME IInv, NEW r \in reg
          PROVE  waiter[r] \notin {"kill", "unbind", "drain", "over"}
      BY <2>2, Zenon DEF IInv, TypeInv, RunOK, Waited
    <2> QED
      BY <2>1, <2>2, Zenon DEF ReportedIsOver
  <1> QED
    BY <1>1, Invariance, PTL
-----------------------------------------------------------------------------
(***************************************************************************)
(* Containers are governed from their start, and bound to their own         *)
(* profile, for any number of containers and policies.                     *)
(*                                                                         *)
(* The inductive invariant follows a bind request: the profile it carries  *)
(* is one its own pod resolves to, the cgroup it binds is the container's, *)
(* and from the write on the cgroup stays bound as long as it exists,       *)
(* since an unbind is only asked for once the container has stopped.       *)
(***************************************************************************)

Answers == {"bound", "ungoverned", "error"}
Req == [at : {"idle", "sent", "read", "set", "register"} \cup Answers,
        profile : Names \cup {NoName}, held : Ctrs \cup {Nobody}, cgroup : Ctrs \cup {Nobody}]

ContainersType ==
  /\ cluster \in Clusters
  /\ life \in [Ctrs -> {"none", "parked", "running", "exited", "stopped", "removed"}]
  /\ bindreq \in [Ctrs -> [Sources -> Req]]
  /\ unbindreq \in [Ctrs -> [Kinds -> {"idle", "sent", "unbind"}]]
  /\ policy \in Policies
  /\ kbound \in [Ctrs -> Names \cup {NoName}]

\* The runtime's order: what was never created has no requests, and an unbind follows
\* the end of the container.
LifeInv ==
  \A c \in Ctrs :
    /\ life[c] # "none" => c \in Pods
    /\ c \in resync => life[c] # "none"
    /\ \A k \in Kinds : unbindreq[c][k] # "idle" => life[c] \in {"stopped", "removed"}

OwnProfile(c, p) ==
  c \in Pods /\ \E pol \in Policies : Resolve(pol, c) = [ok |-> TRUE, profile |-> p]

\* What a bind request r of container c carries and has done.
RequestOK(c, r) ==
  /\ r.at # "idle" => life[c] # "none"
  /\ r.at \in {"read", "set", "register"} => r.profile # NoName /\ OwnProfile(c, r.profile)
  /\ r.at \in {"set", "register"} => r.cgroup = c
  /\ r.at = "ungoverned" => Annotation[c] = NoName
  /\ r.at \in {"register", "bound"} /\ HasCgroup(c) => kbound[c] # NoName

RequestInv == \A c \in Ctrs, s \in Sources : RequestOK(c, bindreq[c][s])

ContainerBoundInv ==
  \A c \in Ctrs :
    /\ kbound[c] # NoName => OwnProfile(c, kbound[c])
    /\ life[c] = "running" /\ Annotation[c] # NoName /\ c \notin missed => kbound[c] # NoName

ContainersInv == ContainersType /\ LifeInv /\ RequestInv /\ ContainerBoundInv
-----------------------------------------------------------------------------
\* A resolved profile is one of a policy, or none, and none only for a pod without
\* annotation.
LEMMA ResolveProfile ==
  ASSUME NEW pol \in Policies, cluster \in Clusters, NEW c \in Pods
  PROVE  /\ Resolve(pol, c).profile \in Names \cup {NoName}
         /\ Resolve(pol, c).profile = NoName => Annotation[c] = NoName
         /\ Resolve(pol, c).ok => OwnProfile(c, Resolve(pol, c).profile)
  <1>1. Annotation[c] \in Names \cup {NoName} /\ pol.profiles \subseteq Names
    BY ContainerAssumptions, Zenon DEF ContainerSetups, Pods, Annotation, Names
  <1>2. Namespace[c] \in DOMAIN pol.rules =>
          pol.rules[Namespace[c]].default \in Names \cup {NoName}
    BY <1>1, ContainerAssumptions, Zenon DEF ContainerSetups
  <1>3. /\ Resolve(pol, c).profile \in Names \cup {NoName}
        /\ Resolve(pol, c).profile = NoName => Annotation[c] = NoName
        /\ Resolve(pol, c).ok => Resolve(pol, c) = [ok |-> TRUE, profile |-> Resolve(pol, c).profile]
    <2>1. CASE Annotation[c] = NoName
      BY <1>2, <2>1, Zenon DEF Resolve
    <2>2. CASE Annotation[c] # NoName
      BY <1>1, <2>2, Zenon DEF Resolve
    <2> QED
      BY <2>1, <2>2, Zenon
  <1> QED
    BY <1>3, Zenon DEF OwnProfile

\* The forms a request takes: none and sent,
LEMMA NewRequests ==
  /\ Idle \in Req /\ Idle.at = "idle"
  /\ Sent \in Req /\ Sent.at = "sent"
  <1>1. Idle \in Req /\ Idle.at = "idle"
    BY Zenon DEF Idle, Req
  <1> QED
    BY <1>1, Zenon DEF Sent, Req

\* answered,
LEMMA AnsweredRequest ==
  ASSUME NEW at \in Answers
  PROVE  [Idle EXCEPT !.at = at] \in Req /\ [Idle EXCEPT !.at = at].at = at
  BY NewRequests, Zenon DEF Req, Answers

\* and begun.
LEMMA BegunRequest ==
  ASSUME NEW p \in Names \cup {NoName}, NEW o \in Ctrs
  PROVE  LET r == [Idle EXCEPT !.at = "read", !.profile = p, !.held = o]
         IN  r \in Req /\ r.at = "read" /\ r.profile = p
  BY NewRequests, Zenon DEF Req

\* A request under way goes on.
LEMMA RequestSteps ==
  ASSUME NEW r \in Req
  PROVE  /\ \A o \in Ctrs : LET n == [r EXCEPT !.at = "set", !.cgroup = o]
                            IN  n \in Req /\ n.at = "set" /\ n.cgroup = o /\ n.profile = r.profile
         /\ LET n == [r EXCEPT !.at = "register"]
            IN  n \in Req /\ n.at = "register" /\ n.cgroup = r.cgroup /\ n.profile = r.profile
  BY Zenon DEF Req

\* What follows from an unchanged set-up.
LEMMA SameCluster ==
  ASSUME cluster' = cluster
  PROVE  /\ Pods' = Pods /\ Annotation' = Annotation
         /\ \A c, p : OwnProfile(c, p)' <=> OwnProfile(c, p)
  BY Zenon DEF Pods, Annotation, OwnProfile, Resolve

\* One request changes and nothing else does.
LEMMA OneRequest ==
  ASSUME ContainersInv, NEW c \in Ctrs, NEW s \in Sources, NEW r \in Req, RequestOK(c, r),
         bindreq' = [bindreq EXCEPT ![c][s] = r],
         UNCHANGED <<cluster, life, missed, resync, unbindreq, policy, kbound>>
  PROVE  ContainersInv'
  <1>1. ContainersType'
    BY Zenon DEF ContainersInv, ContainersType
  <1>2. LifeInv' /\ ContainerBoundInv'
    BY SameCluster, Zenon DEF ContainersInv, LifeInv, ContainerBoundInv
  <1>3. RequestInv'
    BY SameCluster, ZenonT(40) DEF ContainersInv, ContainersType, RequestInv, RequestOK, HasCgroup
  <1> QED
    BY <1>1, <1>2, <1>3, Zenon DEF ContainersInv

\* A request is answered: bound is only said of a cgroup that is, or is gone.
LEMMA AnswerKept ==
  ASSUME ContainersInv, NEW c \in Ctrs, NEW s \in Sources, NEW at \in Answers, Answer(c, s, at),
         life[c] # "none", at = "ungoverned" => Annotation[c] = NoName,
         at = "bound" /\ HasCgroup(c) => kbound[c] # NoName,
         UNCHANGED <<cluster, life, missed, resync, unbindreq, policy, kbound>>
  PROVE  ContainersInv'
  <1> DEFINE r == [Idle EXCEPT !.at = at]
  <1>1. r \in Req /\ r.at = at
    BY AnsweredRequest, Zenon
  <1>2. bindreq' = [bindreq EXCEPT ![c][s] = r]
    BY Zenon DEF Answer, Request
  <1> HIDE DEF r
  <1>3. RequestOK(c, r)
    BY <1>1, Zenon DEF RequestOK, Answers
  <1> QED
    BY <1>1, <1>2, <1>3, OneRequest, Zenon

\* The plugin answers by itself: the container runs past the daemon, or ends.
LEMMA UnreachableKept ==
  ASSUME ContainersInv, NEW c \in Ctrs, life[c] = "parked", Unreachable(c),
         UNCHANGED <<cluster, resync, bindreq, unbindreq, policy, kbound>>
  PROVE  ContainersInv'
  <1>1. /\ life' \in [Ctrs -> {"none", "parked", "running", "exited", "stopped", "removed"}]
        /\ \A d \in Ctrs : d # c => life'[d] = life[d]
        /\ life'[c] \in {"running", "exited"}
        /\ life'[c] = "running" => c \in missed'
        /\ missed \subseteq missed'
    <2>1. life \in [Ctrs -> {"none", "parked", "running", "exited", "stopped", "removed"}]
      BY Zenon DEF ContainersInv, ContainersType
    <2>2. \E to \in {"running", "exited"} :
            /\ life' = [life EXCEPT ![c] = to]
            /\ to = "running" => missed' = missed \cup {c}
            /\ to # "running" => missed' = missed
      BY Zenon DEF Unreachable, Lives
    <2> QED
      BY <2>1, <2>2, Zenon
  <1>2. ContainersType'
    BY <1>1, Zenon DEF ContainersInv, ContainersType
  <1>3. Pods' = Pods /\ Annotation' = Annotation /\ \A d, p : OwnProfile(d, p)' <=> OwnProfile(d, p)
    BY SameCluster, Zenon
  <1>4. LifeInv'
    BY <1>1, <1>3, Zenon DEF ContainersInv, LifeInv
  <1>5. RequestInv'
    <2>1. \A d \in Ctrs : HasCgroup(d)' => HasCgroup(d)
      BY <1>1, Zenon DEF HasCgroup
    <2>2. \A d \in Ctrs : life[d] # "none" => life'[d] # "none"
      BY <1>1, Zenon
    <2> QED
      BY <1>3, <2>1, <2>2, Zenon DEF ContainersInv, RequestInv, RequestOK
  <1>6. ContainerBoundInv'
    BY <1>1, <1>3, Zenon DEF ContainersInv, ContainerBoundInv
  <1> QED
    BY <1>2, <1>4, <1>5, <1>6, Zenon DEF ContainersInv

\* The initial states satisfy the invariant.
LEMMA InitContainersInv == CInit => ContainersInv
  <1> SUFFICES ASSUME CInit PROVE ContainersInv
    BY Zenon
  <1> USE NewRequests DEF CInit
  <1>1. ContainersType
    BY Zenon DEF ContainersType
  <1>2. LifeInv /\ ContainerBoundInv
    BY Zenon DEF LifeInv, ContainerBoundInv
  <1>3. RequestInv
    BY Zenon DEF RequestInv, RequestOK
  <1> QED
    BY <1>1, <1>2, <1>3, Zenon DEF ContainersInv

\* Every step keeps the invariant.
LEMMA NextContainersInv == ContainersInv /\ [CNext]_cvars => ContainersInv'
  <1> SUFFICES ASSUME ContainersInv, [CNext]_cvars PROVE ContainersInv'
    BY ZenonT(40)
  <1> USE DEF ContainersInv, ContainersType, LifeInv, RequestInv, RequestOK, ContainerBoundInv, HasCgroup, Sources, Kinds,
              Answers, runtime, registry, requests, limits
  <1>s. cluster' = cluster =>
          Pods' = Pods /\ Annotation' = Annotation /\ \A c, p : OwnProfile(c, p)' <=> OwnProfile(c, p)
    BY SameCluster, Zenon
  <1>f. \A c : RequestFails(c) \/ Unreached(c) => cluster' = cluster
    BY Zenon DEF RequestFails, Unreached
  <1>1. ASSUME NEW c \in Ctrs, CreateTask(c) PROVE ContainersInv'
    <2>1. ContainersType' /\ LifeInv'
      BY <1>s, <1>1, NewRequests, Zenon DEF CreateTask, Lives
    <2>2. RequestInv' /\ ContainerBoundInv'
      BY <1>s, <1>1, NewRequests, Zenon DEF CreateTask, Lives
    <2> QED
      BY <2>1, <2>2, Zenon
  <1>2. ASSUME NEW c \in Ctrs, StartContainer(c) PROVE ContainersInv'
    <2>1. CASE IsExempt(c) /\ Lives(c, "running") /\ UNCHANGED <<calling, missed, bindreq, limits>>
      <3>1. Annotation[c] = NoName
        BY <2>1, Zenon DEF IsExempt
      <3> QED
        BY <1>2, <2>1, <3>1, <1>s, ZenonT(40) DEF StartContainer, Lives
    <2>2. CASE bindreq' = [bindreq EXCEPT ![c]["start"] = Sent] /\ UNCHANGED <<life, missed, limits>>
      <3>1. RequestOK(c, Sent) /\ "start" \in Sources
        <4>1. life[c] # "none"
          BY <1>2, Zenon DEF StartContainer
        <4> QED
          BY <4>1, NewRequests, Zenon
      <3> QED
        BY <1>2, <2>2, <3>1, NewRequests, OneRequest, Zenon DEF StartContainer, limits
    <2>3. CASE Unreached(c) /\ Unreachable(c) /\ UNCHANGED <<calling, bindreq>>
      BY <1>2, <1>f, <2>3, UnreachableKept, Zenon DEF StartContainer
    <2> QED
      BY <1>2, <2>1, <2>2, <2>3, Zenon DEF StartContainer
  <1>3. ASSUME NEW c \in Ctrs, StartUnasked(c) PROVE ContainersInv'
    <2>1. ContainersType' /\ LifeInv'
      BY <1>s, <1>3, NewRequests, Zenon DEF StartUnasked, Lives
    <2>2. RequestInv' /\ ContainerBoundInv'
      BY <1>s, <1>3, NewRequests, ZenonT(40) DEF StartUnasked, Lives
    <2> QED
      BY <2>1, <2>2, Zenon
  <1>4. ASSUME NEW c \in Ctrs, TaskExits(c) PROVE ContainersInv'
    <2>1. ContainersType' /\ LifeInv'
      BY <1>s, <1>4, NewRequests, Zenon DEF TaskExits, Lives, Alive
    <2>2. RequestInv' /\ ContainerBoundInv'
      BY <1>s, <1>4, NewRequests, ZenonT(40) DEF TaskExits, Lives, Alive
    <2> QED
      BY <2>1, <2>2, Zenon
  <1>5. ASSUME NEW c \in Ctrs, StopContainer(c) PROVE ContainersInv'
    <2>1. /\ life[c] # "none" /\ life' = [life EXCEPT ![c] = "stopped"]
          /\ unbindreq' = unbindreq \/ unbindreq' = [unbindreq EXCEPT ![c]["stop"] = "sent"]
          /\ UNCHANGED <<cluster, missed, resync, bindreq, policy, kbound>>
      BY <1>5, <1>f, Zenon DEF StopContainer, SendUnbind, Lives
    <2>2. ContainersType'
      <3>1. CASE unbindreq' = unbindreq
        BY <2>1, <3>1, ZenonT(40)
      <3>2. CASE unbindreq' = [unbindreq EXCEPT ![c]["stop"] = "sent"]
        BY <2>1, <3>2, ZenonT(40)
      <3> QED
        BY <2>1, <3>1, <3>2, Zenon
    <2>3. LifeInv'
      BY <1>s, <2>1, SMT
    <2>4. RequestInv' /\ ContainerBoundInv'
      BY <1>s, <1>5, <2>1, ZenonT(40) DEF StopContainer
    <2> QED
      BY <2>2, <2>3, <2>4, Zenon
  <1>6. ASSUME NEW c \in Ctrs, RemoveContainer(c) PROVE ContainersInv'
    <2>1. /\ life[c] # "none" /\ life' = [life EXCEPT ![c] = "removed"]
          /\ unbindreq' = unbindreq \/ unbindreq' = [unbindreq EXCEPT ![c]["remove"] = "sent"]
          /\ UNCHANGED <<cluster, missed, resync, bindreq, policy, kbound>>
      BY <1>6, <1>f, Zenon DEF RemoveContainer, SendUnbind, Lives
    <2>2. ContainersType'
      <3>1. CASE unbindreq' = unbindreq
        BY <2>1, <3>1, ZenonT(40)
      <3>2. CASE unbindreq' = [unbindreq EXCEPT ![c]["remove"] = "sent"]
        BY <2>1, <3>2, ZenonT(40)
      <3> QED
        BY <2>1, <3>1, <3>2, Zenon
    <2>3. LifeInv'
      BY <1>s, <2>1, SMT
    <2>4. RequestInv' /\ ContainerBoundInv'
      BY <1>s, <1>6, <2>1, ZenonT(40) DEF RemoveContainer
    <2> QED
      BY <2>2, <2>3, <2>4, Zenon
  <1>7. ASSUME NEW c \in Ctrs, StartAnswered(c) PROVE ContainersInv'
    <2>1. ContainersType' /\ LifeInv'
      BY <1>s, <1>7, NewRequests, Zenon DEF StartAnswered
    <2>2. RequestInv' /\ ContainerBoundInv'
      BY <1>s, <1>7, NewRequests, SMT DEF StartAnswered
    <2> QED
      BY <2>1, <2>2, Zenon
  <1>8. ASSUME NEW c \in Ctrs, StartTimesOut(c) PROVE ContainersInv'
    <2>1. CASE life[c] = "parked"
      BY <1>8, <2>1, UnreachableKept, Zenon DEF StartTimesOut
    <2>2. CASE life[c] # "parked"
      <3>1. UNCHANGED <<life, missed>>
        BY <1>8, <2>2, Zenon DEF StartTimesOut
      <3> QED
        BY <1>s, <1>8, <3>1, ZenonT(40) DEF StartTimesOut
    <2> QED
      BY <2>1, <2>2, Zenon
  <1>9. ASSUME NEW c \in Ctrs, SyncBind(c) PROVE ContainersInv'
    <2>1. /\ c \in resync /\ resync' = resync \ {c}
          /\ bindreq' = bindreq \/ bindreq' = [bindreq EXCEPT ![c]["sync"] = Sent]
          /\ UNCHANGED <<cluster, life, missed, unbindreq, policy, kbound>>
      BY <1>9, <1>f, Zenon DEF SyncBind
    <2>2. LifeInv' /\ ContainerBoundInv'
      BY <1>s, <2>1, ZenonT(40)
    <2>3. CASE bindreq' = bindreq
      <3>1. ContainersType' /\ RequestInv'
        BY <1>s, <2>1, <2>3, ZenonT(40)
      <3> QED
        BY <2>2, <3>1, Zenon
    <2>4. CASE bindreq' = [bindreq EXCEPT ![c]["sync"] = Sent]
      <3>1. ContainersType'
        BY <2>1, <2>4, NewRequests, ZenonT(40)
      <3>2. RequestInv'
        BY <1>s, <2>1, <2>4, NewRequests, ZenonT(40)
      <3> QED
        BY <2>2, <3>1, <3>2, Zenon
    <2> QED
      BY <2>1, <2>3, <2>4, Zenon
  <1>10. ASSUME NEW c \in Ctrs, NEW s \in Sources, Unheard(c, s) PROVE ContainersInv'
    <2>1. ContainersType' /\ LifeInv'
      BY <1>s, <1>10, NewRequests, Zenon DEF Unheard
    <2>2. RequestInv' /\ ContainerBoundInv'
      BY <1>s, <1>10, NewRequests, SMTT(30) DEF Unheard
    <2> QED
      BY <2>1, <2>2, Zenon
  <1>11. ASSUME NEW c \in Ctrs, NEW s \in Sources, BindOpen(c, s) PROVE ContainersInv'
    <2> DEFINE r == Resolve(policy, c)
    <2>1. life[c] # "none" /\ c \in Pods /\ policy \in Policies /\ cluster \in Clusters
      <3>1. bindreq[c][s].at = "sent"
        BY <1>11, Zenon DEF BindOpen
      <3> QED
        BY <3>1, Zenon
    <2>2. /\ r.profile \in Names \cup {NoName} /\ (r.profile = NoName => Annotation[c] = NoName)
          /\ r.ok => OwnProfile(c, r.profile)
      BY <2>1, ResolveProfile, Zenon
    <2> HIDE DEF r
    <2>u. UNCHANGED <<cluster, life, missed, resync, unbindreq, policy, kbound>>
      BY <1>11, Zenon DEF BindOpen
    <2>3. CASE Answer(c, s, "error")
      BY <2>1, <2>3, <2>u, AnswerKept, Zenon
    <2>4. CASE r.profile = NoName /\ Answer(c, s, "ungoverned")
      BY <2>1, <2>2, <2>4, <2>u, AnswerKept, Zenon
    <2>5. ASSUME r.ok, r.profile # NoName, NEW o \in Ctrs,
                 Request(c, s, [Idle EXCEPT !.at = "read", !.profile = r.profile, !.held = o])
          PROVE  ContainersInv'
      <3> DEFINE n == [Idle EXCEPT !.at = "read", !.profile = r.profile, !.held = o]
      <3>1. n \in Req /\ n.at = "read" /\ n.profile = r.profile
        BY <2>2, BegunRequest, Zenon
      <3> HIDE DEF n
      <3>2. RequestOK(c, n)
        BY <2>1, <2>2, <2>5, <3>1, Zenon
      <3>3. bindreq' = [bindreq EXCEPT ![c][s] = n]
        BY <2>5, Zenon DEF Request, n
      <3> QED
        BY <1>11, <2>u, <3>1, <3>2, <3>3, OneRequest, Zenon
    <2> QED
      <3>1. PidOwners(c) \subseteq Ctrs \cup {Nobody}
        BY <1>11, Zenon DEF PidOwners
      <3> QED
        BY <1>11, <2>3, <2>4, <2>5, <3>1, Zenon DEF BindOpen, r
  <1>12. ASSUME NEW c \in Ctrs, NEW s \in Sources, BindRead(c, s) PROVE ContainersInv'
    <2>1. bindreq[c][s] \in Req /\ life[c] # "none" /\ bindreq[c][s].at = "read"
      BY <1>12, ZenonT(40) DEF BindRead
    <2>2. CASE Answer(c, s, "error")
      BY <1>12, <2>1, <2>2, AnswerKept, Zenon DEF BindRead
    <2>3. CASE Request(c, s, [bindreq[c][s] EXCEPT !.at = "set", !.cgroup = c])
      <3> DEFINE n == [bindreq[c][s] EXCEPT !.at = "set", !.cgroup = c]
      <3>1. n \in Req /\ n.at = "set" /\ n.cgroup = c /\ n.profile = bindreq[c][s].profile
        BY <1>12, <2>1, RequestSteps, ZenonT(30)
      <3>2. bindreq' = [bindreq EXCEPT ![c][s] = n]
        BY <2>3, Zenon DEF Request
      <3> HIDE DEF n
      <3>3. RequestOK(c, bindreq[c][s])
        BY <1>12, Zenon
      <3>4. RequestOK(c, n)
        BY <2>1, <3>1, <3>3, Zenon
      <3> QED
        BY <1>12, <3>1, <3>2, <3>4, OneRequest, Zenon DEF BindRead, limits
    <2> QED
      BY <1>12, <2>2, <2>3, Zenon DEF BindRead, NamesContainer
  <1>13. ASSUME NEW c \in Ctrs, NEW s \in Sources, BindSet(c, s) PROVE ContainersInv'
    <2> DEFINE req == bindreq[c][s]
    <2>1. req \in Req /\ life[c] # "none" /\ req.at = "set" /\ RequestOK(c, req)
      BY <1>13, SMT DEF BindSet
    <2>2. CASE Answer(c, s, "error") /\ UNCHANGED kbound
      <3>1. UNCHANGED <<cluster, life, missed, resync, unbindreq, policy>>
        BY <1>13, <1>f, Zenon DEF BindSet
      <3> QED
        BY <2>1, <2>2, <3>1, AnswerKept, ZenonT(40)
    <2>3. CASE /\ kbound' = [kbound EXCEPT ![req.cgroup] = req.profile]
               /\ Request(c, s, [req EXCEPT !.at = "register"])
      <3> DEFINE n == [req EXCEPT !.at = "register"]
      <3>1. n \in Req /\ n.at = "register" /\ n.cgroup = req.cgroup /\ n.profile = req.profile
        BY <2>1, RequestSteps, Zenon
      <3>2. bindreq' = [bindreq EXCEPT ![c][s] = n]
        BY <2>3, Zenon DEF Request
      <3> HIDE DEF n
      <3>3. /\ req.cgroup = c /\ req.profile # NoName /\ OwnProfile(c, req.profile)
            /\ req.profile \in Names \cup {NoName}
        BY <2>1, Zenon DEF Req
      <3>4. kbound' = [kbound EXCEPT ![c] = req.profile]
        BY <2>3, <3>3, Zenon
      <3>u. UNCHANGED <<cluster, life>>
        BY <1>13, <1>f, Zenon DEF BindSet
      <3> HIDE DEF req
      <3>5. ContainersType'
        BY <1>13, <3>u, <3>1, <3>2, <3>3, <3>4, ZenonT(40) DEF BindSet
      <3>6. LifeInv' /\ ContainerBoundInv'
        BY <1>13, <1>s, <3>u, <3>2, <3>3, <3>4, SMT DEF BindSet
      <3>7. bindreq'[c][s] = n /\ kbound'[c] # NoName
        BY <3>2, <3>3, <3>4, ZenonT(40)
      <3>8. RequestInv'
        BY <1>s, <2>1, <3>1, <3>2, <3>3, <3>4, <3>7, <3>u, SMT
      <3> QED
        BY <3>5, <3>6, <3>8, Zenon
    <2> QED
      BY <1>13, <2>2, <2>3, Zenon DEF BindSet
  <1>14. ASSUME NEW c \in Ctrs, NEW s \in Sources, BindRegister(c, s) PROVE ContainersInv'
    <2>1. bindreq[c][s].at = "register"
      BY <1>14, Zenon DEF BindRegister
    <2>2. life[c] # "none" /\ (HasCgroup(c) => kbound[c] # NoName)
      BY <2>1, Zenon
    <2>3. /\ Answer(c, s, "bound")
          /\ UNCHANGED <<cluster, life, missed, resync, unbindreq, policy, kbound>>
      BY <1>14, Zenon DEF BindRegister
    <2> QED
      BY <2>2, <2>3, AnswerKept, Zenon
  <1>15. ASSUME NEW c \in Ctrs, NEW k \in Kinds, UnregisterContainer(c, k) PROVE ContainersInv'
    <2>1. /\ unbindreq[c][k] = "sent"
          /\ \E a \in {"unbind", "idle"} : unbindreq' = [unbindreq EXCEPT ![c][k] = a]
          /\ UNCHANGED <<cluster, life, missed, resync, bindreq, policy, kbound>>
      BY <1>15, ZenonT(40) DEF UnregisterContainer
    <2>2. ContainersType' /\ LifeInv'
      BY <2>1, <1>s, SMT
    <2>3. RequestInv' /\ ContainerBoundInv'
      BY <2>1, <1>s, ZenonT(40)
    <2> QED
      BY <2>2, <2>3, Zenon
  <1>16. ASSUME NEW c \in Ctrs, NEW k \in Kinds, UnbindDynamic(c, k) PROVE ContainersInv'
    <2>1. /\ unbindreq[c][k] = "unbind" /\ unbindreq' = [unbindreq EXCEPT ![c][k] = "idle"]
          /\ kbound' \in {kbound, [kbound EXCEPT ![c] = NoName]}
          /\ UNCHANGED <<cluster, life, missed, resync, bindreq, policy>>
      BY <1>16, <1>f, Zenon DEF UnbindDynamic
    <2>2. ContainersType' /\ LifeInv'
      BY <1>s, <2>1, ZenonT(40)
    <2>3. RequestInv' /\ ContainerBoundInv'
      BY <1>s, <2>1, ZenonT(40)
    <2> QED
      BY <2>2, <2>3, Zenon
  <1>17. CASE Disconnect
    <2>1. ContainersType' /\ LifeInv'
      BY <1>s, <1>17, NewRequests, Zenon DEF Disconnect
    <2>2. RequestInv' /\ ContainerBoundInv'
      BY <1>s, <1>17, NewRequests, ZenonT(40) DEF Disconnect
    <2> QED
      BY <2>1, <2>2, Zenon
  <1>18. CASE Synchronize
    <2>1. ContainersType' /\ LifeInv'
      BY <1>s, <1>18, NewRequests, Zenon DEF Synchronize
    <2>2. RequestInv' /\ ContainerBoundInv'
      BY <1>s, <1>18, NewRequests, Zenon DEF Synchronize
    <2> QED
      BY <2>1, <2>2, Zenon
  <1>19. ASSUME NEW pol \in Policies, Apply(pol) PROVE ContainersInv'
    <2>1. ContainersType' /\ LifeInv'
      BY <1>s, <1>19, NewRequests, Zenon DEF Apply
    <2>2. RequestInv' /\ ContainerBoundInv'
      BY <1>s, <1>19, NewRequests, Zenon DEF Apply
    <2> QED
      BY <2>1, <2>2, Zenon
  <1>20. CASE DaemonDies
    <2>1. ContainersType' /\ LifeInv'
      BY <1>s, <1>20, NewRequests, Zenon DEF DaemonDies
    <2>2. RequestInv' /\ ContainerBoundInv'
      BY <1>s, <1>20, NewRequests, Zenon DEF DaemonDies
    <2> QED
      BY <2>1, <2>2, Zenon
  <1>21. CASE DaemonStarts
    <2>1. ContainersType' /\ LifeInv'
      BY <1>s, <1>21, NewRequests, Zenon DEF DaemonStarts
    <2>2. RequestInv' /\ ContainerBoundInv'
      BY <1>s, <1>21, NewRequests, Zenon DEF DaemonStarts
    <2> QED
      BY <2>1, <2>2, Zenon
  <1>22. CASE UNCHANGED cvars
    BY <1>s, <1>22, ZenonT(40) DEF cvars
  <1> QED
    BY <1>1, <1>2, <1>3, <1>4, <1>5, <1>6, <1>7, <1>8, <1>9, <1>10, <1>11,
       <1>12, <1>13, <1>14, <1>15, <1>16, <1>17, <1>18, <1>19, <1>20, <1>21, <1>22, Zenon
       DEF CNext, Plugin, Daemon
-----------------------------------------------------------------------------
\* The invariant holds in every reachable state.
LEMMA ContainersInvariance == CSpec => []ContainersInv
  BY InitContainersInv, NextContainersInv, PTL DEF CSpec

\* An annotated container that was started through the plugin runs bound from its first
\* instruction until it exits, through late answers, resyncs, policy changes and deaths
\* of the daemon.
THEOREM RunsGoverned == CSpec => []GovernedFromStart
  <1>1. ContainersInv => GovernedFromStart
    <2>1. ContainersType => Pods \subseteq Ctrs
      BY ContainerAssumptions, Zenon DEF ContainerSetups, ContainersType, Pods
    <2> QED
      BY <2>1, Zenon DEF ContainersInv, ContainerBoundInv, GovernedFromStart
  <1> QED
    BY <1>1, ContainersInvariance, PTL

\* A cgroup is only ever bound to a profile that its own pod resolves to, even when the
\* pid of a request has come to name another container's process.
THEOREM OwnProfileOnly == CSpec => []BoundToOwnProfile
  <1>1. ContainersInv => BoundToOwnProfile
    BY Zenon DEF ContainersInv, ContainerBoundInv, OwnProfile, BoundToOwnProfile
  <1> QED
    BY <1>1, ContainersInvariance, PTL
=============================================================================
