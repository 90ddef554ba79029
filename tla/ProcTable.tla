----------------------------- MODULE ProcTable -----------------------------
(***************************************************************************)
(* The observer's process table (rk-sensor/src/proctable.rs): the name of  *)
(* the process in an audit record.  Exec records and decisions arrive late *)
(* or never, while the processes they are about exit and others get their  *)
(* tgid; the table is a bounded LRU and procfs shows only who lives now.   *)
(*                                                                         *)
(* Time is in clock ticks, the grain of a process's start time, so a       *)
(* process is a tgid and a start tick: a tgid is not given out again in    *)
(* the tick it was freed in, and a lookup ends in the tick it began in.    *)
(* An executable is known by the process that runs it.                     *)
(***************************************************************************)
EXTENDS Integers, Sequences, FiniteSetsExt

CONSTANTS
  Tgids,
  Capacity,   \* entries the table holds
  MaxTick,    \* bound on time
  MaxQueue    \* bound on the events between the kernel and the observer

\* lookup answers nothing for tgid 0.
ASSUME TableAssumption ==
  0 \notin Tgids /\ Capacity \in Nat \ {0} /\ MaxTick \in Nat /\ MaxQueue \in Nat

VARIABLES
  now,       \* the current tick
  holder,    \* per tgid: the start tick of the live process, or None
  freed,     \* per tgid: when its last process exited
  queue,     \* events on their way: kind, tgid, ts, and the process that made them
  cache,     \* ProcTable.cache: entries, the most recently used first
  looking,   \* a lookup between its reads of procfs
  seen,      \* history: processes that an entry was made for
  answer     \* history: what the last step, if a lookup, answered for a decision of `by`

pvars == <<now, holder, freed, queue, cache, looking, seen, answer>>

None == 0
Idle == [tgid |-> None]
NoAnswer == [of |-> None, by |-> None, ts |-> 0, alive |-> FALSE, seen |-> FALSE]

PInit ==
  /\ now = 1
  /\ holder = [t \in Tgids |-> None]
  /\ freed = [t \in Tgids |-> 0]
  /\ queue = << >> /\ cache = << >>
  /\ looking = Idle /\ seen = {} /\ answer = NoAnswer
-----------------------------------------------------------------------------
(* Processes *)

Fork(t) ==
  /\ holder[t] = None /\ freed[t] < now
  /\ holder' = [holder EXCEPT ![t] = now]
  /\ answer' = NoAnswer
  /\ UNCHANGED <<now, freed, queue, cache, looking, seen>>

Exit(t) ==
  /\ holder[t] # None
  /\ holder' = [holder EXCEPT ![t] = None]
  /\ freed' = [freed EXCEPT ![t] = now]
  /\ answer' = NoAnswer
  /\ UNCHANGED <<now, queue, cache, looking, seen>>

\* An exec or a decision of a governed process; one whose event is lost shows nothing.
Event(t, kind) ==
  /\ holder[t] # None /\ Len(queue) < MaxQueue
  /\ queue' = Append(queue, [kind |-> kind, tgid |-> t, ts |-> now, by |-> holder[t]])
  /\ answer' = NoAnswer
  /\ UNCHANGED <<now, holder, freed, cache, looking, seen>>

PTick ==
  /\ now < MaxTick /\ looking = Idle
  /\ now' = now + 1
  /\ answer' = NoAnswer
  /\ UNCHANGED <<holder, freed, queue, cache, looking, seen>>
-----------------------------------------------------------------------------
(* The table *)

\* A tgid has at most one entry.
Entries(t) == {i \in DOMAIN cache : cache[i].tgid = t}
Without(s, i) == SubSeq(s, 1, i - 1) \o SubSeq(s, i + 1, Len(s))
Others(t) == IF Entries(t) = {} THEN cache ELSE Without(cache, CHOOSE i \in Entries(t) : TRUE)
Put(e) ==
  LET entries == <<e>> \o Others(e.tgid)
  IN  cache' = IF Len(entries) <= Capacity THEN entries ELSE SubSeq(entries, 1, Capacity)

\* Mutant: the start time is taken from whoever holds the tgid now.
StartOfHolder(e) == holder[e.tgid]

\* record_exec: the start time as procfs has it now, unless it is later than the exec.
StartAtExec(e) == IF holder[e.tgid] <= e.ts THEN holder[e.tgid] ELSE None

record_exec ==
  /\ looking = Idle /\ queue # << >> /\ Head(queue).kind = "exec"
  /\ LET e == Head(queue)
     IN  /\ Put([tgid |-> e.tgid, start |-> StartAtExec(e), of |-> e.by])
         /\ seen' = seen \cup {<<e.tgid, e.by>>}
  /\ queue' = Tail(queue)
  /\ answer' = NoAnswer
  /\ UNCHANGED <<now, holder, freed, looking>>

\* lookup reads the live process's stat first.
LookupStat ==
  /\ looking = Idle /\ queue # << >> /\ Head(queue).kind = "decision"
  /\ looking' = [tgid |-> Head(queue).tgid, ts |-> Head(queue).ts, by |-> Head(queue).by,
                 live |-> holder[Head(queue).tgid]]
  /\ queue' = Tail(queue)
  /\ answer' = NoAnswer
  /\ UNCHANGED <<now, holder, freed, cache, seen>>

\* The live process existed at the decision, so it made it.
LiveDecided == looking.live # None /\ looking.live <= looking.ts

\* Whether an entry may name the process of the decision.
Usable(e) ==
  /\ e.start # None
  /\ IF LiveDecided THEN e.start = looking.live
     ELSE e.start <= looking.ts /\ e.start # looking.live

Answer(named) ==
  answer' = [of |-> named, by |-> looking.by, ts |-> looking.ts, alive |-> looking.live = looking.by,
             seen |-> <<looking.tgid, looking.by>> \in seen]

\* A usable entry answers; otherwise /proc/<tgid>/exe, if the live process decided and
\* is still there.
LookupEnd ==
  /\ looking # Idle
  /\ LET t == looking.tgid
         usable == {i \in Entries(t) : Usable(cache[i])}
     IN  \/ \E i \in usable :
              /\ Answer(cache[i].of)
              /\ Put(cache[i])
              /\ UNCHANGED seen
         \/ /\ usable = {} /\ LiveDecided /\ holder[t] # None
            /\ Answer(holder[t])
            /\ Put([tgid |-> t, start |-> looking.live, of |-> holder[t]])
            /\ seen' = seen \cup {<<t, holder[t]>>}
         \/ /\ usable = {} /\ ~(LiveDecided /\ holder[t] # None)
            /\ Answer(None)
            /\ IF Entries(t) = {} THEN UNCHANGED cache ELSE \E i \in Entries(t) : Put(cache[i])
            /\ UNCHANGED seen
  /\ looking' = Idle
  /\ UNCHANGED <<now, holder, freed, queue>>

PNext ==
  \/ \E t \in Tgids : Fork(t) \/ Exit(t) \/ \E kind \in {"exec", "decision"} : Event(t, kind)
  \/ PTick
  \/ record_exec \/ LookupStat \/ LookupEnd

PSpec == PInit /\ [][PNext]_pvars
-----------------------------------------------------------------------------
\* An audit record names the process that made the decision, however late its event
\* came and whoever has had the tgid since: always when that process still runs or an
\* entry was ever made for it.  The one other answer is an earlier process with the
\* tgid, which started before the decision, for a process that is gone and was never seen.
NamesDecider ==
  answer.of \notin {None, answer.by} => ~answer.alive /\ ~answer.seen /\ answer.of <= answer.ts
=============================================================================
