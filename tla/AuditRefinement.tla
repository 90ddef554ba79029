--------------------------- MODULE AuditRefinement ---------------------------
(***************************************************************************)
(* The log on disk implements the trail of batches of AuditTrail.          *)
(***************************************************************************)
EXTENDS AuditChain

\* The log as AuditTrail sees it: the chain its newest batch ends, which LogVerifies
\* says is the one that verifies.  The promise is made for a log that
\* meets kills or power losses, not both and no failing writes; elsewhere the mapping
\* stands still.
Promised == world \in {{"kill"}, {"power"}}
Batches == UNION {{files[s][i] : i \in {j \in DOMAIN files[s] : files[s][j].kind = "batch"}} : s \in DOMAIN files}
Chain ==
  IF ~Promised \/ Batches = {} THEN <<>>
  ELSE (CHOOSE t \in Batches : \A other \in Batches : other.seq <= t.seq).hash

Trail == INSTANCE AuditTrail WITH
  trail <- Chain,
  anchor <- IF Promised THEN exported.hash ELSE <<>>,
  set_aside <- IF Promised THEN aside ELSE {}

\* What rk audit verify accepts is a trail that is only added to: through seals,
\* rotations, kills, power losses and recoveries, a batch is never taken back once a
\* head that covers it was exported, and no record is sealed twice, out of order, or
\* both sealed and set aside.
KeepsTrail == Trail!TSpec
==============================================================================
