----------------------------- MODULE Heartbeat -----------------------------
(***************************************************************************)
(* The heartbeat: a thread of the sensor writes the time into the pinned   *)
(* map rk_heartbeat every timeout/4 (rk-sensor/src/resilience.rs), and an  *)
(* ENFORCE hook denies when the beat is older than the timeout in the      *)
(* pinned map rk_config (rk_heartbeat_stale, rk-bpf/src/common.bpf.h).     *)
(* Beat, timeout and clock are read one after the other, while a sensor    *)
(* starts, stops, is killed, is restarted with another timeout or replaces *)
(* the object: the new set then has a heartbeat of its own, and the old    *)
(* programs run until the switch (rk-sensor/src/main.rs).                  *)
(*                                                                         *)
(* Time is discrete and a beat is kept as its age, which Tick advances;    *)
(* the age stops counting at MaxAge, above every timeout.                  *)
(***************************************************************************)
EXTENDS Integers, FiniteSets, FiniteSetsExt

CONSTANTS Timeouts,      \* values of --heartbeat-timeout, in ticks
          MIN_TIMEOUT,   \* shortest accepted timeout
          Troubles,      \* [late |-> .., faults |-> ..]: what a thread may meet, see below
          MaxHook,       \* longest run of a hook
          MaxStarts      \* bound on sensor starts

ASSUME HeartbeatAssumption ==
  /\ Timeouts \subseteq Nat /\ \E m \in Timeouts : \A t \in Timeouts : t <= m
  /\ {MIN_TIMEOUT, MaxHook, MaxStarts} \subseteq Nat
  /\ MIN_TIMEOUT > 0
  /\ Troubles \subseteq [late : Nat, faults : Nat]

\* What a timeout has room for: the beats that fail, one that does not, each of them
\* late, and a hook.
ASSUME RoomAssumption ==
  \A tr \in Troubles, t \in Timeouts :
    t >= MIN_TIMEOUT => (tr.faults + 1) * ((t \div 4) + tr.late) + MaxHook <= t

MaxAge == Max(Timeouts) + 2
Never == -1                     \* the map entry is 0
VARIABLES
  trouble,   \* the trouble of this behaviour
  sets,      \* the pin sets "rk" and "next": beat (its age), timeout, attached
  main,      \* where the sensor is
  on,        \* the set the sensor's heartbeat thread writes
  want,      \* the sensor's timeout
  slept,     \* ticks since the heartbeat thread went to sleep
  hook,      \* one hook: pc, set, what it has read, how long it runs
  away,      \* history: ticks without a heartbeat thread
  faults, starts

hvars == <<trouble, sets, main, on, want, slept, hook, away, faults, starts>>

MaxLate == trouble.late        \* longest delay of the heartbeat thread's wake-up
MaxFaults == trouble.faults    \* bound on failed writes of the beat

NewSet == [beat |-> Never, timeout |-> 0, attached |-> FALSE]
NoHook == [pc |-> "idle", set |-> "rk", last |-> Never, timeout |-> 0,
           ran |-> 0, served |-> FALSE, alone |-> 0, stale |-> FALSE]

HInit ==
  /\ trouble \in Troubles
  /\ sets = [s \in {"rk", "next"} |-> NewSet]
  /\ main = "down"
  /\ on = "rk"
  /\ want \in Timeouts
  /\ slept = 0
  /\ hook = NoHook
  /\ away = 0
  /\ faults = 0
  /\ starts = 0

Older(age) == IF age = Never THEN Never ELSE Min({age + 1, MaxAge})

-----------------------------------------------------------------------------
(***************************************************************************)
(* The sensor.                                                             *)
(***************************************************************************)
\* Mutant: a beat every half timeout.
IntervalHalf == want \div 2

interval == want \div 4

Beating == main = "up"

\* A sensor starts, with any timeout, on the pinned set (or a first one), or
\* with another object beside the attached set.
OpenPins(replacing) ==
  /\ main = "down"
  /\ starts < MaxStarts
  /\ starts' = starts + 1
  /\ want' \in Timeouts
  /\ sets' = [sets EXCEPT !["next"] = NewSet]
  /\ replacing => sets["rk"].attached
  /\ on' = IF replacing THEN "next" ELSE "rk"
  /\ main' = "config"
  /\ UNCHANGED <<trouble, slept, hook, away, faults>>

\* Mutant: the beat is written before the timeout is checked.
WriteConfigBeats ==
  /\ main = "config"
  /\ IF want < MIN_TIMEOUT
       THEN /\ main' = "down"
            /\ sets' = [sets EXCEPT ![on].beat = 0]
       ELSE /\ main' = "first"
            /\ sets' = [sets EXCEPT ![on].timeout = want, ![on].beat = 0]
  /\ UNCHANGED <<trouble, on, want, slept, hook, away, faults, starts>>

\* Heartbeat::start: a timeout below the minimum ends the sensor, another one
\* is stored.
WriteConfig ==
  /\ main = "config"
  /\ IF want < MIN_TIMEOUT
       THEN main' = "down" /\ UNCHANGED sets
       ELSE /\ main' = "first"
            /\ sets' = [sets EXCEPT ![on].timeout = want]
  /\ UNCHANGED <<trouble, on, want, slept, hook, away, faults, starts>>

\* The first beat; the thread starts, and the programs are attached after it.
FirstBeat ==
  /\ main = "first"
  /\ sets' = [sets EXCEPT ![on].beat = 0]
  /\ main' = "up"
  /\ slept' = 0
  /\ away' = 0
  /\ UNCHANGED <<trouble, on, want, hook, faults, starts>>

AttachPrograms ==
  /\ main = "up"
  /\ ~sets[on].attached
  /\ sets' = [sets EXCEPT ![on].attached = TRUE]
  /\ UNCHANGED <<trouble, main, on, want, slept, hook, away, faults, starts>>

\* finish_replacement: the new set takes the place of the old one.
finish_replacement ==
  /\ main = "up" /\ on = "next" /\ sets["next"].attached
  /\ hook.pc = "idle" \/ hook.set = "next"
  /\ sets' = [rk |-> sets["next"], next |-> NewSet]
  /\ on' = "rk"
  /\ hook' = [hook EXCEPT !.set = "rk"]
  /\ UNCHANGED <<trouble, main, want, slept, away, faults, starts>>

\* The thread wakes after interval (or later) and writes the time.
Beat ==
  /\ Beating
  /\ slept >= interval
  /\ slept' = 0
  /\ \/ sets' = [sets EXCEPT ![on].beat = 0] /\ UNCHANGED faults
     \/ faults < MaxFaults /\ faults' = faults + 1 /\ UNCHANGED sets
  /\ UNCHANGED <<trouble, main, on, want, hook, away, starts>>

\* The sensor stops (Heartbeat is dropped) or is killed, at any point.
Gone ==
  /\ main # "down"
  /\ main' = "down"
  /\ slept' = 0
  /\ hook' = [hook EXCEPT !.served = FALSE]
  /\ UNCHANGED <<trouble, sets, on, want, away, faults, starts>>

\* A tick of the clock.  The thread's wake-up is at most MaxLate late.
Tick ==
  /\ Beating => slept < interval + MaxLate
  /\ hook.pc # "idle" => hook.ran < MaxHook
  /\ sets' = [s \in DOMAIN sets |-> [sets[s] EXCEPT !.beat = Older(@)]]
  /\ slept' = IF Beating THEN slept + 1 ELSE 0
  /\ hook' = IF hook.pc = "idle" THEN hook
             ELSE [hook EXCEPT !.last = Older(@), !.ran = @ + 1]
  /\ away' = IF Beating THEN 0 ELSE Min({away + 1, MaxAge})
  /\ UNCHANGED <<trouble, main, on, want, faults, starts>>

-----------------------------------------------------------------------------
(***************************************************************************)
(* A hook in ENFORCE mode: rk_heartbeat_stale reads the beat, the timeout  *)
(* and then the clock.                                                     *)
(***************************************************************************)
stale(last, timeout) ==
  \/ last = Never
  \/ timeout = 0
  \/ last > timeout

\* served and alone are history: whether a sensor beats on the set throughout,
\* and for how long none did when the hook began.
HookReadsBeat(s) ==
  /\ hook.pc = "idle"
  /\ sets[s].attached
  /\ hook' = [pc |-> "beat", set |-> s, last |-> sets[s].beat, timeout |-> 0,
              ran |-> 0, served |-> Beating /\ on = s, alone |-> away, stale |-> FALSE]
  /\ UNCHANGED <<trouble, sets, main, on, want, slept, away, faults, starts>>

HookReadsTimeout ==
  /\ hook.pc = "beat"
  /\ hook' = [hook EXCEPT !.pc = "timeout", !.timeout = sets[hook.set].timeout]
  /\ UNCHANGED <<trouble, sets, main, on, want, slept, away, faults, starts>>

HookDecides ==
  /\ hook.pc = "timeout"
  /\ hook' = [hook EXCEPT !.pc = "decided", !.stale = stale(hook.last, hook.timeout),
                          !.served = @ /\ Beating /\ on = hook.set]
  /\ UNCHANGED <<trouble, sets, main, on, want, slept, away, faults, starts>>

HookReturns ==
  /\ hook.pc = "decided"
  /\ hook' = NoHook
  /\ UNCHANGED <<trouble, sets, main, on, want, slept, away, faults, starts>>

-----------------------------------------------------------------------------
Sensor == OpenPins(FALSE) \/ OpenPins(TRUE) \/ WriteConfig \/ FirstBeat \/ AttachPrograms
            \/ finish_replacement \/ Beat \/ Gone
Hook == (\E s \in DOMAIN sets : HookReadsBeat(s)) \/ HookReadsTimeout
            \/ HookDecides \/ HookReturns

HNext == Sensor \/ Hook \/ Tick

HSpec == HInit /\ [][HNext]_hvars

-----------------------------------------------------------------------------
(***************************************************************************)
(* A governed workload is not denied for a stale heartbeat while a sensor  *)
(* beats on the set that decides, from the first read of the hook to the   *)
(* last: the interval of timeout/4 leaves room for a late wake-up, or for  *)
(* two lost beats, and the order of start (timeout, beat, attach) for the  *)
(* first decision after it, whatever the sensor found in the maps.         *)
(***************************************************************************)
ServedIsFresh == hook.pc = "decided" /\ hook.served => ~hook.stale

(***************************************************************************)
(* Fail closed: a decision that begins when no sensor has beaten for       *)
(* longer than the timeout finds the heartbeat stale, also if sensors      *)
(* started in between and got no further than their first steps.           *)
(***************************************************************************)
AwayIsStale ==
  hook.pc = "decided" /\ hook.alone > Max(Timeouts) => hook.stale
=============================================================================
