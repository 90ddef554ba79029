----------------------------- MODULE MCPipeline -----------------------------
\* The two halves of the observation side share no state: a behaviour is one of the
\* pipeline or one of the process table.
EXTENDS EventPipeline, ProcTable

VARIABLE half

\* One sensor run with enough events to fill ring, batch and channel.
OneRun ==
  [emit |-> 5, endless |-> FALSE, runs |-> 1, replaced |-> 0, kills |-> 0, faults |-> 0]

\* Restarts on the pinned set and on a replaced one, a kill, and one failure.
Restarts ==
  [emit |-> 3, endless |-> FALSE, runs |-> 3, replaced |-> 1, kills |-> 1, faults |-> 1]

\* Producers that never pause.
Busy ==
  [emit |-> 1, endless |-> TRUE, runs |-> 1, replaced |-> 0, kills |-> 0, faults |-> 0]

MCSettings == {OneRun, Restarts, Busy}

MCInit ==
  /\ half \in {"pipeline", "table"}
  /\ Init /\ PInit
  /\ half = "table" => setting = Busy

MCNext ==
  /\ UNCHANGED half
  /\ \/ half = "pipeline" /\ Next /\ UNCHANGED pvars
     \/ half = "table" /\ PNext /\ UNCHANGED vars

MCSpec == MCInit /\ [][MCNext]_<<half, vars, pvars>> /\ Fairness
=============================================================================
