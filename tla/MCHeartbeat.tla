---------------------------- MODULE MCHeartbeat ----------------------------
EXTENDS Heartbeat

\* Late wake-ups, or lost beats.
MCTroubles == {[late |-> 2, faults |-> 0], [late |-> 0, faults |-> 2]}
=============================================================================
