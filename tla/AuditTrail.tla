----------------------------- MODULE AuditTrail -----------------------------
(***************************************************************************)
(* What the audit log promises to someone who verifies it and keeps the    *)
(* chain heads it exports (docs/audit.md): a trail of sealed batches that  *)
(* is only added to.  A batch may be lost again as long as no exported     *)
(* head covers it; a record is sealed at most once, in the order of its    *)
(* arrival, or set aside, never both.                                      *)
(***************************************************************************)
EXTENDS Integers, Sequences, Functions

VARIABLES
  trail,     \* the sealed batches: sequences of records, which are numbered as they arrive
  anchor,    \* the trail the last exported head stands for
  set_aside  \* records that were written and not sealed

tvars == <<trail, anchor, set_aside>>

Sealed == UNION {Range(trail[i].records) : i \in DOMAIN trail}

\* Trail s is the beginning of trail t.
Begins(s, t) == Len(s) <= Len(t) /\ \A i \in 1..Len(s) : s[i] = t[i]

TInit == trail = <<>> /\ anchor = <<>> /\ set_aside = {}

\* The next batch, of records newer than all before it.
Seal ==
  /\ UNCHANGED <<anchor, set_aside>>
  /\ Len(trail') = Len(trail) + 1 /\ Begins(trail, trail')
  /\ LET batch == trail'[Len(trail')].records
     IN  /\ batch # <<>>
         /\ \A i \in 1..(Len(batch) - 1) : batch[i] < batch[i + 1]
         /\ \A r \in Range(batch) : r \notin set_aside /\ \A old \in Sealed : old < r

Export ==
  /\ anchor' = trail
  /\ UNCHANGED <<trail, set_aside>>

\* A power loss takes back what no exported head covers.
Lose ==
  /\ UNCHANGED <<anchor, set_aside>>
  /\ Begins(anchor, trail') /\ Begins(trail', trail)

\* Recovery sets aside what was written and not sealed.
SetAside ==
  /\ set_aside \subseteq set_aside'
  /\ set_aside' \cap Sealed = {}
  /\ UNCHANGED <<trail, anchor>>

TNext == Seal \/ Export \/ Lose \/ SetAside

TSpec == TInit /\ [][TNext]_tvars
=============================================================================
