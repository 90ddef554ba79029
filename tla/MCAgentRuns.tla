---------------------------- MODULE MCAgentRuns ----------------------------
EXTENDS AgentRuns

CONSTANTS r1, r2

\* A recent kernel, with two runs, a failing call and a death of the daemon.
Recent ==
  [clone3 |-> TRUE, cgroup_kill |-> TRUE, unreadable |-> FALSE, clients |-> {r1, r2},
   receives |-> 2, forks |-> 1, faults |-> 1, crashes |-> 1]

\* Without clone3 (the fork fallback), one connection at a time.
Fallback == [Recent EXCEPT !.clone3 = FALSE, !.receives = 1]

\* Without cgroup.kill, and with a /proc that may not be readable.
Poor == [Recent EXCEPT !.cgroup_kill = FALSE, !.unreadable = TRUE, !.crashes = 0]

\* One run, whose agent forks twice.
Forking(h) == [h EXCEPT !.clients = {r1}, !.forks = 2]

MCHosts == {Recent, Fallback, Poor, Forking(Recent), Forking(Fallback), Forking(Poor)}
=============================================================================
