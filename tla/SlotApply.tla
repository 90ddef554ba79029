------------------------------ MODULE SlotApply ------------------------------
(***************************************************************************)
(* The double-buffered policy maps: PolicyEngine::apply_text up to and     *)
(* including its commit point, adoption after a sensor restart, and the    *)
(* hook programs that read the maps meanwhile.                             *)
(*                                                                         *)
(* An apply clears the inactive slot, writes it map by map, and flips one  *)
(* word.  A hook reads that word once and then makes several lookups in    *)
(* the slot it named; nothing stops the sensor from rewriting the slot     *)
(* between two of them except the grace period.  Cgroup bindings, the part *)
(* of an apply after the flip, are module Bindings.                        *)
(*                                                                         *)
(* Time is counted in ticks and only differences matter: an age saturates  *)
(* at Grace.  A hook runs for at most MaxDecision ticks.                   *)
(***************************************************************************)
EXTENDS AtomicPolicy, FiniteSets

CONSTANTS
  Cap,          \* max_entries of each rule map, shared by both slots
  Grace,        \* SLOT_GRACE
  MaxDecision,  \* the longest a hook execution lasts
  RestartTime,  \* the least time from a crash to the adoption after it
  MaxGen        \* bound on the generations of a behaviour

ASSUME TimingAssumption ==
  /\ Grace \in Nat /\ MaxDecision \in Nat /\ RestartTime \in Nat
  /\ MaxDecision < RestartTime /\ RestartTime <= Grace

\* Every parsed policy holds at least the built-in quarantine profile.
ASSUME ProfileAssumption == \A pol \in Policies : \E p \in Profiles : <<"profile", p>> \in pol

ASSUME BoundsAssumption == Cap \in Nat /\ MaxGen \in Nat /\ IsFiniteSet(Profiles)

VARIABLES
  active_slot,  \* kernel: rk_active_slot
  maps,         \* kernel: per slot and key, the generation that wrote the entry, 0 if none
  pc,           \* sensor: where apply_text stands; "down" when no sensor runs
  engine_slot,  \* sensor: PolicyEngine.active_slot
  generation,   \* sensor: PolicyEngine.generation
  written,      \* sensor: PolicyEngine.written, the keys of each slot
  last_flip,    \* sensor: ticks since last_flip; Grace when it is None or older
  new,          \* sensor: the compiled policy being applied
  todo,         \* sensor: keys still to be removed, or still to be written
  saved,        \* the generation in the state file
  since_flip,   \* ticks since rk_active_slot was last written
  down_for,     \* ticks since the sensor died
  hook,         \* per hook: the next lookup, the slot it read, the policy_gen it read
  age           \* per hook: ticks since it started

sensor == <<pc, engine_slot, generation, written, last_flip, new, todo, saved>>
kernel == <<active_slot, maps>>
time == <<since_flip, down_for>>
hooks == <<hook, age, asking, decided>>
vars == <<kernel, sensor, time, hooks, live>>

Slots == 0..1
RuleMaps == Maps \ {"profile"}
Lookups == {"idle"} \cup Maps
Steps == {"idle", "grace", "clear", "write", "persist", "down"}
Idle == [pc |-> "idle", slot |-> 0, gen |-> 0]

\* The entries of a slot that holds exactly generation g.
Image(g) == [k \in Key |-> IF k \in g.keys THEN g.gen ELSE 0]
Empty == [k \in Key |-> 0]
Present(slot) == {k \in Key : maps[slot][k] # 0}
In(m, keys) == {k \in keys : k[1] = m}
Used(m) == Cardinality(In(m, Present(0))) + Cardinality(In(m, Present(1)))

\* The maps in the order clear_slot and write_slot visit them.
ClearOrder == [deny |-> 1, allow |-> 2, exec |-> 3, file |-> 4, profile |-> 5]
WriteOrder == [file |-> 1, exec |-> 2, profile |-> 3, deny |-> 4, allow |-> 5]
Front(order, keys) == {k \in keys : \A j \in keys : order[k[1]] <= order[j[1]]}

Older(n) == IF n < Grace THEN n + 1 ELSE Grace

Init ==
  /\ AInit
  /\ active_slot = 0
  /\ maps = [s \in Slots |-> Empty]
  /\ pc = "idle"
  /\ engine_slot = 0
  /\ generation = 0
  /\ written = [s \in Slots |-> {}]
  /\ last_flip = Grace
  /\ new = {}
  /\ todo = {}
  /\ saved = 0
  /\ since_flip = Grace
  /\ down_for = Grace
  /\ hook = [h \in Hooks |-> Idle]
  /\ age = [h \in Hooks |-> 0]
------------------------------------------------------------------------------
(* PolicyEngine::apply_text *)

\* Mutant: the live slot's entries are not counted.
CheckCapacityOfNew(pol) == \A m \in RuleMaps : Cardinality(In(m, pol)) <= Cap

\* check_capacity: the live slot's entries plus the new ones must fit each map.
CheckCapacity(pol) ==
  \A m \in RuleMaps :
    Cardinality(In(m, written[engine_slot])) + Cardinality(In(m, pol)) <= Cap

\* Parse, compile and check, all before anything in the kernel changes.
ApplyStart(pol) ==
  /\ pc = "idle"
  /\ generation < MaxGen
  /\ CheckCapacity(pol)
  /\ pc' = "grace"
  /\ new' = pol
  /\ UNCHANGED <<engine_slot, generation, written, last_flip, todo, saved, kernel, time, hooks, live>>

\* Mutant: the slot is not inverted.
InactiveIsLive == engine_slot
Inactive == 1 - engine_slot

\* Mutant: the apply does not sleep.
ClearAtOnce ==
  /\ pc = "grace"
  /\ pc' = "clear"
  /\ todo' = written[Inactive]
  /\ written' = [written EXCEPT ![Inactive] = {}]
  /\ UNCHANGED <<engine_slot, generation, last_flip, new, saved, kernel, time, hooks, live>>

\* The sleep ends once SLOT_GRACE has passed since last_flip; clear_slot then
\* takes the record of what the slot holds.
ClearStart ==
  /\ pc = "grace"
  /\ last_flip >= Grace
  /\ pc' = "clear"
  /\ todo' = written[Inactive]
  /\ written' = [written EXCEPT ![Inactive] = {}]
  /\ UNCHANGED <<engine_slot, generation, last_flip, new, saved, kernel, time, hooks, live>>

ClearKey ==
  /\ pc = "clear"
  /\ \E k \in Front(ClearOrder, todo) :
       /\ maps' = [maps EXCEPT ![Inactive][k] = 0]
       /\ todo' = todo \ {k}
  /\ UNCHANGED <<active_slot, pc, engine_slot, generation, written, last_flip, new, saved, time, hooks, live>>

WriteStart ==
  /\ pc = "clear"
  /\ todo = {}
  /\ pc' = "write"
  /\ todo' = new
  /\ UNCHANGED <<engine_slot, generation, written, last_flip, new, saved, kernel, time, hooks, live>>

\* write_slot records a key before it inserts it.
WriteKey ==
  /\ pc = "write"
  /\ \E k \in Front(WriteOrder, todo) :
       /\ k[1] \in RuleMaps => Used(k[1]) < Cap
       /\ written' = [written EXCEPT ![Inactive] = @ \cup {k}]
       /\ maps' = [maps EXCEPT ![Inactive][k] = generation + 1]
       /\ todo' = todo \ {k}
  /\ UNCHANGED <<active_slot, pc, engine_slot, generation, last_flip, new, saved, time, hooks, live>>

\* An insert the kernel refuses: the apply returns the error, the slot stays
\* as it is and the live slot is untouched.
WriteFails ==
  /\ pc = "write"
  /\ \E k \in Front(WriteOrder, todo) :
       /\ k[1] \in RuleMaps
       /\ written' = [written EXCEPT ![Inactive] = @ \cup {k}]
  /\ pc' = "idle"
  /\ todo' = {}
  /\ UNCHANGED <<engine_slot, generation, last_flip, new, saved, kernel, time, hooks, live>>

\* Mutant: the new slot number does not wrap.
FlipWithoutWrap ==
  /\ pc = "write"
  /\ todo = {}
  /\ active_slot' = engine_slot + 1
  /\ engine_slot' = engine_slot + 1
  /\ last_flip' = 0
  /\ since_flip' = 0
  /\ generation' = generation + 1
  /\ pc' = "persist"
  /\ live' = [gen |-> live.gen + 1, keys |-> new]
  /\ UNCHANGED <<maps, written, new, todo, saved, down_for, hooks>>

\* The commit point, and the fields apply_text sets right after it.
Flip ==
  /\ pc = "write"
  /\ todo = {}
  /\ active_slot' = Inactive
  /\ engine_slot' = Inactive
  /\ last_flip' = 0
  /\ since_flip' = 0
  /\ generation' = generation + 1
  /\ pc' = "persist"
  /\ live' = [gen |-> live.gen + 1, keys |-> new]
  /\ UNCHANGED <<maps, written, new, todo, saved, down_for, hooks>>

\* persist: a failure is logged and the apply succeeds all the same.
Persist ==
  /\ pc = "persist"
  /\ pc' = "idle"
  /\ saved' \in {saved, generation}
  /\ UNCHANGED <<engine_slot, generation, written, last_flip, new, todo, kernel, time, hooks, live>>
------------------------------------------------------------------------------
(* The sensor dies at any point; the pinned maps and links stay. *)

Crash ==
  /\ pc # "down"
  /\ pc' = "down"
  /\ engine_slot' = 0
  /\ generation' = 0
  /\ written' = [s \in Slots |-> {}]
  /\ last_flip' = Grace
  /\ new' = {}
  /\ todo' = {}
  /\ down_for' = 0
  /\ UNCHANGED <<saved, since_flip, kernel, hooks, live>>

\* The newest policy_gen among the profiles of a slot; adopt asks the live one.
NewestGen(slot) ==
  LET gens == {maps[slot][k] : k \in In("profile", Key)} \cup {0}
  IN  CHOOSE g \in gens : \A other \in gens : other <= g
KernelGen == NewestGen(active_slot)

\* scan_slot: what the maps hold under the slot's bit.
ScanSlot(slot) == Present(slot)

\* PolicyEngine::new, then adopt: the slot and its contents come from the
\* maps, the generation from them and the state file, if that is usable.
Adopt ==
  /\ pc = "down"
  /\ down_for >= RestartTime
  /\ pc' = "persist"
  /\ engine_slot' = active_slot
  /\ written' = [s \in Slots |-> ScanSlot(s)]
  /\ \E state_gen \in {0, saved} :
       generation' = IF state_gen > KernelGen THEN state_gen ELSE KernelGen
  /\ last_flip' = Grace
  /\ UNCHANGED <<new, todo, saved, kernel, time, hooks, live>>
------------------------------------------------------------------------------
(* The hook programs: rk_governance, then the lookups of the hook's kind *)

\* rk_governance reads the active slot once; the binding named profile p.
HookStart(h, p, kind) ==
  /\ hook[h].pc = "idle"
  /\ hook' = [hook EXCEPT ![h] = [pc |-> "profile", slot |-> active_slot, gen |-> 0]]
  /\ age' = [age EXCEPT ![h] = 0]
  /\ Ask(h, p, kind)
  /\ UNCHANGED <<kernel, sensor, time>>

\* Mutant: every lookup reads rk_active_slot again.
EntryOfActiveSlot(h, m) == maps[active_slot][<<m, asking[h].profile>>]
Entry(h, m) == maps[hook[h].slot][<<m, asking[h].profile>>]

Finish(h, decision) ==
  /\ decided' = [decided EXCEPT ![h] = decision]
  /\ hook' = [hook EXCEPT ![h] = Idle]
  /\ asking' = [asking EXCEPT ![h] = NoRequest]

\* A profile entry that was never written, or is zeroed, fails closed.
HookProfile(h) ==
  /\ hook[h].pc = "profile"
  /\ \/ /\ Entry(h, "profile") = 0
        /\ Finish(h, FailClosed)
     \/ /\ Entry(h, "profile") # 0
        /\ hook' = [hook EXCEPT ![h].gen = Entry(h, "profile"),
                                ![h].pc = IF asking[h].kind = "net" THEN "deny" ELSE asking[h].kind]
        /\ UNCHANGED <<asking, decided>>
  /\ UNCHANGED <<age, kernel, sensor, time, live>>

\* rk_net_verdict tries the deny trie, then the allow trie; exec and file
\* hooks look in their one map.
HookLookup(h) ==
  /\ hook[h].pc \in RuleMaps
  /\ LET m == hook[h].pc
     IN  \/ /\ Entry(h, m) # 0
            /\ Finish(h, [gen |-> hook[h].gen, by |-> m])
         \/ /\ Entry(h, m) = 0
            /\ m = "deny"
            /\ hook' = [hook EXCEPT ![h].pc = "allow"]
            /\ UNCHANGED <<asking, decided>>
         \/ /\ Entry(h, m) = 0
            /\ m # "deny"
            /\ Finish(h, [gen |-> hook[h].gen, by |-> "default"])
  /\ UNCHANGED <<age, kernel, sensor, time, live>>

\* Time passes; no hook outlives MaxDecision.
Tick ==
  /\ \A h \in Hooks : hook[h].pc = "idle" \/ age[h] < MaxDecision
  /\ age' = [h \in Hooks |-> IF hook[h].pc = "idle" THEN age[h] ELSE age[h] + 1]
  /\ last_flip' = Older(last_flip)
  /\ since_flip' = Older(since_flip)
  /\ down_for' = Older(down_for)
  /\ UNCHANGED <<kernel, pc, engine_slot, generation, written, new, todo, saved, hook, asking, decided, live>>

Next ==
  \/ \E pol \in Policies : ApplyStart(pol)
  \/ ClearStart \/ ClearKey \/ WriteStart \/ WriteKey \/ WriteFails \/ Flip \/ Persist
  \/ Crash \/ Adopt
  \/ \E h \in Hooks :
       \/ \E p \in Profiles, kind \in Kinds : HookStart(h, p, kind)
       \/ HookProfile(h) \/ HookLookup(h)
  \/ Tick

Spec == Init /\ [][Next]_vars
------------------------------------------------------------------------------
TypeOK ==
  /\ active_slot \in Slots
  /\ maps \in [Slots -> [Key -> Nat]]
  /\ pc \in Steps
  /\ engine_slot \in Slots
  /\ generation \in Nat
  /\ written \in [Slots -> SUBSET Key]
  /\ last_flip \in 0..Grace
  /\ new \in SUBSET Key
  /\ todo \in SUBSET Key
  /\ saved \in Nat
  /\ since_flip \in 0..Grace
  /\ down_for \in 0..Grace
  /\ hook \in [Hooks -> [pc : Lookups, slot : Slots, gen : Nat]]
  /\ age \in [Hooks -> 0..MaxDecision]
  /\ live \in Generation
  /\ asking \in [Hooks -> Request \cup {NoRequest}]
  /\ decided \in [Hooks -> Decision]

\* "No running decision can observe a slot being rewritten" (policy.rs, module
\* comment): from its read of rk_active_slot to its last lookup, the slot a hook
\* reads holds exactly the generation that was live when it started, whatever
\* applies, failed applies, crashes and adoptions happen in between.
RunningDecisionsUndisturbed ==
  \A h \in Hooks : hook[h].pc # "idle" => maps[hook[h].slot] = Image(asking[h].by)

\* The live slot is never torn: it holds exactly what the last flip committed,
\* also while an apply is being written, after one failed half way and after a
\* crash ("a failed apply never touches the active slot").
LiveSlotIntact == maps[active_slot] = Image(live)

\* The engine's record covers the kernel: an entry it has no record of would
\* survive every later clear_slot and come alive with a later generation.
\* Holds outside clear_slot, which takes the record before it removes the keys.
WrittenCoversMaps ==
  pc \notin {"down", "clear"} => \A s \in Slots : Present(s) \subseteq written[s]

\* check_capacity leaves room for every insert of the apply it lets through, so
\* a full map never fails write_slot half way.
RoomForEveryWrite ==
  pc = "write" => \A k \in Front(WriteOrder, todo) : k[1] \in RuleMaps => Used(k[1]) < Cap

\* Every generation is a new one, also across a crash between the flip and the
\* save: adopt continues from what the maps hold.
GenerationContinues == pc \notin {"down"} => generation = live.gen

\* The refinement mapping reads the abstract policy out of the kernel's maps:
\* the live generation is what the active slot holds, and a running hook decides
\* by what the slot it read holds now.
SlotContents(slot) == [gen |-> NewestGen(slot), keys |-> Present(slot)]
LiveBar == SlotContents(active_slot)
AskingBar ==
  [h \in Hooks |-> IF hook[h].pc = "idle" THEN NoRequest
                   ELSE [profile |-> asking[h].profile, kind |-> asking[h].kind,
                         by |-> SlotContents(hook[h].slot)]]

Abstract == INSTANCE AtomicPolicy WITH live <- LiveBar, asking <- AskingBar

\* The maps implement one policy that is replaced as a whole: only a flip changes
\* what the active slot holds, nothing changes what a running hook reads, and
\* every answer is the one that whole generation gives.
ImplementsAtomicPolicy == Abstract!ASpec
==============================================================================
