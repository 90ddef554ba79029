--------------------------- MODULE SlotApplyProofs ---------------------------
(***************************************************************************)
(* For every set of profiles, policies and hooks and every timing that     *)
(* satisfies TimingAssumption: the live slot is never torn, no running     *)
(* decision sees a slot being rewritten, and the maps implement            *)
(* AtomicPolicy.  None of these is inductive by itself; IInv adds what the *)
(* sensor's memory says about the maps, and how the ages are ordered.      *)
(***************************************************************************)
EXTENDS SlotApply, FiniteSetTheorems, TLAPS

\* A generation that has entries has a number, and a numbered one has a profile.
WellNumbered(g) ==
  /\ g.gen = 0 => g.keys = {}
  /\ g.gen # 0 => \E p \in Profiles : <<"profile", p>> \in g.keys

\* The sensor's view of the maps.
EngineView ==
  /\ saved <= live.gen
  /\ WellNumbered(live)
  /\ pc # "down" => engine_slot = active_slot /\ generation = live.gen
  /\ pc \in {"grace", "clear", "write"} => new \in Policies
  /\ pc # "down" =>
       \A s \in Slots, k \in Key :
         maps[s][k] # 0 => \/ k \in written[s]
                           \/ pc = "clear" /\ s = 1 - active_slot /\ k \in todo
  /\ pc = "clear" => written[1 - active_slot] = {}
  /\ pc = "write" =>
       /\ todo \subseteq new
       /\ \A k \in Key :
            maps[1 - active_slot][k] = IF k \in new /\ k \notin todo THEN live.gen + 1 ELSE 0

\* The sensor rewrites a slot only once every hook that could read it is over.
Ages ==
  /\ pc \in {"clear", "write"} => since_flip > MaxDecision
  /\ pc # "down" => since_flip > MaxDecision \/ last_flip <= since_flip
  /\ pc = "down" => since_flip > MaxDecision \/ down_for <= since_flip

\* What a running hook knows, by the lookup it is about to make.
HookKnows(h) ==
  IF hook[h].pc = "idle" THEN asking[h] = NoRequest
  ELSE /\ asking[h] \in Request
       /\ WellNumbered(asking[h].by)
       /\ maps[hook[h].slot] = Image(asking[h].by)
       /\ hook[h].slot # active_slot => since_flip <= age[h]
       /\ hook[h].pc # "profile" =>
            /\ <<"profile", asking[h].profile>> \in asking[h].by.keys
            /\ hook[h].gen = asking[h].by.gen
       /\ hook[h].pc \in {"deny", "allow"} => asking[h].kind = "net"
       /\ hook[h].pc \in {"exec", "file"} => asking[h].kind = hook[h].pc
       /\ hook[h].pc = "allow" => <<"deny", asking[h].profile>> \notin asking[h].by.keys

HookView == \A h \in Hooks : HookKnows(h)

IInv == TypeOK /\ LiveSlotIntact /\ EngineView /\ Ages /\ HookView
------------------------------------------------------------------------------
\* The initial state satisfies the inductive invariant.
LEMMA InitIInv == Init => IInv
  <1> SUFFICES ASSUME Init PROVE IInv OBVIOUS
  <1> USE TimingAssumption DEF Init, AInit
  <1>1. TypeOK
    BY DEF TypeOK, Slots, Empty, Idle, Steps, Lookups, NoGeneration, Generation, NoRequest, Undecided, Decision, DecidedBy
  <1>2. LiveSlotIntact
    BY DEF LiveSlotIntact, Image, NoGeneration, Empty, Slots
  <1>3. EngineView
    BY DEF EngineView, WellNumbered, NoGeneration, Empty, Slots
  <1>4. Ages
    BY DEF Ages
  <1>5. HookView
    BY DEF HookView, HookKnows, Idle
  <1> QED BY <1>1, <1>2, <1>3, <1>4, <1>5 DEF IInv

\* While the sensor rewrites the inactive slot, every running hook reads the
\* live one.
LEMMA HooksReadLive ==
  ASSUME TypeOK, Ages, HookView, pc \in {"clear", "write"}, NEW h \in Hooks, hook[h].pc # "idle"
  PROVE  hook[h].slot = active_slot
  <1>1. since_flip > MaxDecision /\ since_flip \in Int
    BY DEF Ages, TypeOK
  <1>2. age[h] <= MaxDecision /\ age[h] \in Int
    BY TimingAssumption DEF TypeOK
  <1>3. hook[h].slot # active_slot => since_flip <= age[h]
    BY Zenon DEF HookView, HookKnows
  <1> QED BY <1>1, <1>2, <1>3, TimingAssumption

\* A step that leaves the hooks, their ages and the slots they read alone
\* preserves what the hooks know.
LEMMA HookFrame ==
  ASSUME HookView, UNCHANGED <<hooks, since_flip, active_slot>>,
         \A h \in Hooks : hook[h].pc # "idle" => maps'[hook[h].slot] = maps[hook[h].slot]
  PROVE  HookView'
  BY DEF HookView, HookKnows, hooks, WellNumbered, Image

\* Starting an apply only remembers the policy.
LEMMA ApplyStartStep == ASSUME IInv, NEW pol \in Policies, ApplyStart(pol) PROVE IInv'
  <1> USE DEF IInv, ApplyStart, kernel, time
  <1>1. TypeOK'
    BY PoliciesAssumption DEF TypeOK, Steps, hooks
  <1>2. LiveSlotIntact'
    BY DEF LiveSlotIntact, Image
  <1>3. EngineView'
    BY DEF EngineView, WellNumbered
  <1>4. Ages'
    BY DEF Ages
  <1>5. HookView'
    BY HookFrame
  <1> QED BY <1>1, <1>2, <1>3, <1>4, <1>5

\* clear_slot takes the record of the inactive slot; nothing in the maps
\* changes, and the keys it took are the ones left to remove.
LEMMA ClearStartStep == ASSUME IInv, ClearStart PROVE IInv'
  <1> USE DEF IInv, ClearStart, kernel, time
  <1>0. engine_slot = active_slot /\ active_slot \in Slots /\ Inactive = 1 - active_slot /\ Inactive \in Slots
    BY DEF EngineView, TypeOK, Slots, Inactive
  <1>1. TypeOK'
    BY <1>0 DEF TypeOK, Steps, hooks
  <1>2. LiveSlotIntact'
    BY DEF LiveSlotIntact, Image
  <1>3. EngineView'
    BY <1>0 DEF EngineView, WellNumbered, TypeOK
  <1>4. Ages'
    BY TimingAssumption DEF Ages, TypeOK
  <1>5. HookView'
    BY HookFrame
  <1> QED BY <1>1, <1>2, <1>3, <1>4, <1>5

\* Removing one key from the inactive slot.
LEMMA ClearKeyStep == ASSUME IInv, ClearKey PROVE IInv'
  <1> USE DEF IInv, ClearKey, time
  <1>0. engine_slot = active_slot /\ active_slot \in Slots /\ Inactive = 1 - active_slot
        /\ Inactive \in Slots /\ Inactive # active_slot
    BY DEF EngineView, TypeOK, Slots, Inactive
  <1>k. PICK k \in Front(ClearOrder, todo) :
          maps' = [maps EXCEPT ![Inactive][k] = 0] /\ todo' = todo \ {k}
    OBVIOUS
  <1>m. /\ k \in Key /\ k \in todo
        /\ maps'[active_slot] = maps[active_slot]
        /\ \A j \in Key : maps'[Inactive][j] = IF j = k THEN 0 ELSE maps[Inactive][j]
    BY <1>0, <1>k DEF TypeOK, Front
  <1>1. TypeOK'
    BY <1>0, <1>k, <1>m DEF TypeOK, hooks
  <1>2. LiveSlotIntact'
    BY <1>m DEF LiveSlotIntact, Image
  <1>3. EngineView'
    <2>1. ASSUME NEW s \in Slots, NEW j \in Key, maps'[s][j] # 0
          PROVE  j \in written[s] \/ (s = 1 - active_slot /\ j \in todo')
      <3>1. CASE s = active_slot
        <4>1. maps[s][j] # 0
          BY <1>m, <2>1, <3>1
        <4>2. j \in written[s] \/ (s = 1 - active_slot /\ j \in todo)
          BY <4>1 DEF EngineView
        <4>3. s # 1 - active_slot
          BY <3>1, <1>0
        <4> QED BY <4>2, <4>3
      <3>2. CASE s = Inactive
        BY <1>m, <1>k, <2>1, <3>2, <1>0 DEF EngineView
      <3> QED BY <3>1, <3>2, <1>0 DEF Slots
    <2> QED BY <2>1, <1>0 DEF EngineView, WellNumbered
  <1>4. Ages'
    BY DEF Ages
  <1>5. HookView'
    BY HookFrame, HooksReadLive, <1>m
  <1> QED BY <1>1, <1>2, <1>3, <1>4, <1>5

\* Once every recorded key is gone the inactive slot is empty: the record
\* covered it.
LEMMA WriteStartStep == ASSUME IInv, WriteStart PROVE IInv'
  <1> USE DEF IInv, WriteStart, kernel, time
  <1>0. engine_slot = active_slot /\ active_slot \in Slots /\ (1 - active_slot) \in Slots
    BY DEF EngineView, TypeOK, Slots
  <1>1. TypeOK'
    BY DEF TypeOK, Steps, hooks
  <1>2. LiveSlotIntact'
    BY DEF LiveSlotIntact, Image
  <1>3. EngineView'
    BY <1>0 DEF EngineView, WellNumbered, TypeOK
  <1>4. Ages'
    BY DEF Ages
  <1>5. HookView'
    BY HookFrame
  <1> QED BY <1>1, <1>2, <1>3, <1>4, <1>5

\* Writing one key of the new generation into the inactive slot.
LEMMA WriteKeyStep == ASSUME IInv, WriteKey PROVE IInv'
  <1> USE DEF IInv, WriteKey, time
  <1>0. engine_slot = active_slot /\ active_slot \in Slots /\ Inactive = 1 - active_slot
        /\ Inactive \in Slots /\ Inactive # active_slot /\ generation = live.gen
    BY DEF EngineView, TypeOK, Slots, Inactive
  <1>k. PICK k \in Front(WriteOrder, todo) :
          /\ written' = [written EXCEPT ![Inactive] = @ \cup {k}]
          /\ maps' = [maps EXCEPT ![Inactive][k] = generation + 1]
          /\ todo' = todo \ {k}
    OBVIOUS
  <1>m. /\ k \in Key /\ k \in todo
        /\ maps'[active_slot] = maps[active_slot]
        /\ written'[active_slot] = written[active_slot]
        /\ written'[Inactive] = written[Inactive] \cup {k}
        /\ \A j \in Key : maps'[Inactive][j] = IF j = k THEN live.gen + 1 ELSE maps[Inactive][j]
    BY <1>0, <1>k DEF TypeOK, Front
  <1>1. TypeOK'
    BY <1>0, <1>k, <1>m DEF TypeOK, hooks
  <1>2. LiveSlotIntact'
    BY <1>m DEF LiveSlotIntact, Image
  <1>3. EngineView'
    <2>1. ASSUME NEW s \in Slots, NEW j \in Key, maps'[s][j] # 0
          PROVE  j \in written'[s]
      <3>1. CASE s = active_slot
        BY <1>m, <2>1, <3>1, <1>0 DEF EngineView
      <3>2. CASE s = Inactive
        BY <1>m, <2>1, <3>2, <1>0 DEF EngineView
      <3> QED BY <3>1, <3>2, <1>0 DEF Slots
    <2>2. todo' \subseteq new
      BY <1>k DEF EngineView
    <2>3. \A j \in Key : maps'[Inactive][j] = IF j \in new /\ j \notin todo' THEN live.gen + 1 ELSE 0
      BY <1>0, <1>k, <1>m DEF EngineView
    <2> QED BY <2>1, <2>2, <2>3, <1>0 DEF EngineView, WellNumbered
  <1>4. Ages'
    BY DEF Ages
  <1>5. HookView'
    BY HookFrame, HooksReadLive, <1>m
  <1> QED BY <1>1, <1>2, <1>3, <1>4, <1>5

\* A refused insert leaves the maps alone.
LEMMA WriteFailsStep == ASSUME IInv, WriteFails PROVE IInv'
  <1> USE DEF IInv, WriteFails, kernel, time
  <1>0. engine_slot = active_slot /\ active_slot \in Slots /\ Inactive \in Slots
    BY DEF EngineView, TypeOK, Slots, Inactive
  <1>k. PICK k \in Front(WriteOrder, todo) : written' = [written EXCEPT ![Inactive] = @ \cup {k}]
    OBVIOUS
  <1>m. k \in Key /\ \A s \in Slots : written[s] \subseteq written'[s]
    BY <1>0, <1>k DEF TypeOK, Front
  <1>1. TypeOK'
    BY <1>0, <1>k, <1>m DEF TypeOK, Steps, hooks
  <1>2. LiveSlotIntact'
    BY DEF LiveSlotIntact, Image
  <1>3. EngineView'
    BY <1>m DEF EngineView, WellNumbered
  <1>4. Ages'
    BY DEF Ages
  <1>5. HookView'
    BY HookFrame
  <1> QED BY <1>1, <1>2, <1>3, <1>4, <1>5

\* The commit point: the slot that becomes live holds exactly the new
\* generation, and every running hook is on the slot that retires.
LEMMA FlipStep == ASSUME IInv, Flip PROVE IInv'
  <1> USE DEF IInv, Flip
  <1>0. engine_slot = active_slot /\ active_slot \in Slots /\ Inactive = 1 - active_slot
        /\ Inactive \in Slots /\ Inactive # active_slot /\ generation = live.gen
        /\ new \in Policies /\ live.gen \in Nat
    BY DEF EngineView, TypeOK, Slots, Inactive, Generation
  <1>1. TypeOK'
    BY <1>0, PoliciesAssumption, TimingAssumption DEF TypeOK, Steps, hooks, Generation
  <1>2. LiveSlotIntact'
    <2>1. maps[Inactive] \in [Key -> Nat]
      BY <1>0 DEF TypeOK
    <2>2. \A k \in Key : maps[Inactive][k] = IF k \in new THEN live.gen + 1 ELSE 0
      BY <1>0 DEF EngineView
    <2> QED BY <2>1, <2>2 DEF LiveSlotIntact, Image
  <1>3. EngineView'
    <2>1. WellNumbered(live')
      <3>1. live'.gen = live.gen + 1 /\ live'.keys = new /\ live'.gen # 0
        BY <1>0
      <3> QED BY <1>0, <3>1, ProfileAssumption, Zenon DEF WellNumbered
    <2>2. saved <= live'.gen
      BY <1>0 DEF EngineView, TypeOK
    <2>3. \A s \in Slots, k \in Key : maps[s][k] # 0 => k \in written[s]
      BY DEF EngineView
    <2> QED BY <2>1, <2>2, <2>3, <1>0 DEF EngineView, WellNumbered
  <1>4. Ages'
    BY DEF Ages
  <1>5. HookView'
    <2>1. \A h \in Hooks : age[h] >= 0
      BY TimingAssumption DEF TypeOK
    <2> QED BY <2>1, HooksReadLive DEF HookView, HookKnows, hooks, WellNumbered, Image
  <1> QED BY <1>1, <1>2, <1>3, <1>4, <1>5

\* Saving the state file.
LEMMA PersistStep == ASSUME IInv, Persist PROVE IInv'
  <1> USE DEF IInv, Persist, kernel, time
  <1>1. TypeOK'
    BY DEF TypeOK, Steps, hooks
  <1>2. LiveSlotIntact'
    BY DEF LiveSlotIntact, Image
  <1>3. EngineView'
    <2>1. generation = live.gen /\ live.gen \in Nat
      BY DEF EngineView, TypeOK, Generation
    <2>2. saved' <= live.gen
      BY <2>1 DEF EngineView
    <2> QED BY <2>2 DEF EngineView, WellNumbered
  <1>4. Ages'
    BY DEF Ages
  <1>5. HookView'
    BY HookFrame
  <1> QED BY <1>1, <1>2, <1>3, <1>4, <1>5

\* A crash loses the sensor's memory and starts the restart clock.
LEMMA CrashStep == ASSUME IInv, Crash PROVE IInv'
  <1> USE DEF IInv, Crash, kernel
  <1>1. TypeOK'
    BY TimingAssumption DEF TypeOK, Steps, hooks, Slots
  <1>2. LiveSlotIntact'
    BY DEF LiveSlotIntact, Image
  <1>3. EngineView'
    BY DEF EngineView, WellNumbered
  <1>4. Ages'
    BY DEF Ages, TypeOK
  <1>5. HookView'
    BY HookFrame
  <1> QED BY <1>1, <1>2, <1>3, <1>4, <1>5

\* A slot that holds exactly one generation names its number and its keys.
LEMMA ContentsOfImage ==
  ASSUME NEW s, NEW g \in Generation, WellNumbered(g), maps[s] = Image(g)
  PROVE  NewestGen(s) = g.gen /\ SlotContents(s) = g
  <1> DEFINE gens == {maps[s][k] : k \in In("profile", Key)} \cup {0}
  <1>0. g.gen \in Nat /\ g.keys \subseteq Key /\ g = [gen |-> g.gen, keys |-> g.keys]
    BY DEF Generation
  <1>1. \A k \in Key : maps[s][k] = IF k \in g.keys THEN g.gen ELSE 0
    BY DEF Image
  <1>2. gens \subseteq {0, g.gen}
    BY <1>1 DEF In
  <1>3. g.gen \in gens
    <2>1. CASE g.gen = 0
      BY <2>1
    <2>2. CASE g.gen # 0
      <3>1. PICK p \in Profiles : <<"profile", p>> \in g.keys
        BY <2>2 DEF WellNumbered
      <3>2. <<"profile", p>> \in In("profile", Key)
        BY DEF In, Key, Maps
      <3>3. <<"profile", p>> \in Key /\ maps[s][<<"profile", p>>] = g.gen
        BY <3>1, <3>2, <1>1 DEF In
      <3> QED BY <3>2, <3>3
    <2> QED BY <2>1, <2>2
  <1>4. \A n \in gens : n <= g.gen
    BY <1>2, <1>0
  <1>5. \A n \in gens : (\A other \in gens : other <= n) => n = g.gen
    BY <1>2, <1>3, <1>0
  <1>6. NewestGen(s) = g.gen
    <2> HIDE DEF gens
    <2>1. (CHOOSE n \in gens : \A other \in gens : other <= n) = g.gen
      BY <1>3, <1>4, <1>5
    <2> QED BY <2>1 DEF NewestGen, gens
  <1>7. Present(s) = g.keys
    BY <1>0, <1>1 DEF Present, WellNumbered
  <1> QED BY <1>0, <1>6, <1>7 DEF SlotContents

\* The live slot's profiles carry the live generation.
LEMMA KernelGenIsLive ==
  ASSUME TypeOK, LiveSlotIntact, WellNumbered(live) PROVE KernelGen = live.gen
  BY ContentsOfImage DEF TypeOK, LiveSlotIntact, KernelGen

\* Adoption reads the slot, its contents and the generation back from the maps.
LEMMA AdoptStep == ASSUME IInv, Adopt PROVE IInv'
  <1> USE DEF IInv, Adopt, kernel, time
  <1>0. KernelGen = live.gen /\ live.gen \in Nat /\ saved \in Nat /\ saved <= live.gen
    BY KernelGenIsLive DEF EngineView, TypeOK, Generation
  <1>g. generation' = live.gen
    BY <1>0
  <1>1. TypeOK'
    BY <1>0, <1>g, TimingAssumption DEF TypeOK, Steps, hooks, ScanSlot, Present
  <1>2. LiveSlotIntact'
    BY Zenon DEF LiveSlotIntact, Image
  <1>3. EngineView'
    BY <1>0, <1>g DEF EngineView, WellNumbered, ScanSlot, Present
  <1>4. Ages'
    BY TimingAssumption DEF Ages, TypeOK
  <1>5. HookView'
    BY HookFrame
  <1> QED BY <1>1, <1>2, <1>3, <1>4, <1>5

\* A hook reads the active slot: it holds the live generation.
LEMMA HookStartStep ==
  ASSUME IInv, NEW h \in Hooks, NEW p \in Profiles, NEW kind \in Kinds, HookStart(h, p, kind)
  PROVE  IInv'
  <1> USE DEF IInv, HookStart, Ask, kernel, sensor, time
  <1>0. kind # "none" /\ asking'[h] = [profile |-> p, kind |-> kind, by |-> live]
    BY DEF Kinds, TypeOK
  <1>1. TypeOK'
    <2>1. asking' \in [Hooks -> Request \cup {NoRequest}]
      BY DEF TypeOK, Request
    <2>2. hook' \in [Hooks -> [pc : Lookups, slot : Slots, gen : Nat]]
      BY DEF TypeOK, Lookups, Maps
    <2>3. age' \in [Hooks -> 0..MaxDecision]
      BY TimingAssumption DEF TypeOK
    <2> QED BY <2>1, <2>2, <2>3, Zenon DEF TypeOK
  <1>2. LiveSlotIntact'
    BY DEF LiveSlotIntact, Image
  <1>3. EngineView'
    BY DEF EngineView, WellNumbered
  <1>4. Ages'
    BY DEF Ages
  <1>5. HookView'
    <2> SUFFICES ASSUME NEW i \in Hooks PROVE HookKnows(i)'
      BY DEF HookView
    <2>1. CASE i = h
      <3>1. hook'[h] = [pc |-> "profile", slot |-> active_slot, gen |-> 0]
        BY DEF TypeOK
      <3>2. asking'[h] \in Request
        BY <1>0 DEF Request, TypeOK
      <3>3. WellNumbered(live) /\ maps[active_slot] = Image(live)
        BY DEF EngineView, LiveSlotIntact
      <3>4. asking'[h].by = live
        BY <1>0
      <3>5. WellNumbered(asking'[h].by) /\ maps[active_slot] = Image(asking'[h].by)
        BY <3>3, <3>4
      <3> QED BY <2>1, <3>1, <3>2, <3>5 DEF HookKnows, WellNumbered, Image
    <2>2. CASE i # h
      <3>1. hook'[i] = hook[i] /\ asking'[i] = asking[i] /\ age'[i] = age[i]
        BY <2>2 DEF TypeOK
      <3> QED BY <3>1 DEF HookView, HookKnows, WellNumbered, Image
    <2> QED BY <2>1, <2>2
  <1> QED BY <1>1, <1>2, <1>3, <1>4, <1>5

\* A step of one hook that changes only that hook's own fields.
LEMMA HookLocalStep ==
  ASSUME IInv, NEW h \in Hooks, TypeOK', HookKnows(h)',
         UNCHANGED <<kernel, sensor, time, live, age>>,
         \A i \in Hooks \ {h} : hook'[i] = hook[i] /\ asking'[i] = asking[i]
  PROVE  IInv'
  <1> USE DEF IInv, kernel, sensor, time
  <1>2. LiveSlotIntact'
    BY Zenon DEF LiveSlotIntact, Image
  <1>3. EngineView'
    BY DEF EngineView, WellNumbered
  <1>4. Ages'
    BY DEF Ages
  <1>5. HookView'
    <2> SUFFICES ASSUME NEW i \in Hooks, i # h PROVE HookKnows(i)'
      BY Zenon DEF HookView
    <2>1. hook'[i] = hook[i] /\ asking'[i] = asking[i] /\ age'[i] = age[i]
      OBVIOUS
    <2>2. HookKnows(i)
      BY DEF HookView
    <2> QED BY <2>1, <2>2 DEF HookKnows, WellNumbered, Image
  <1> QED BY <1>2, <1>3, <1>4, <1>5, Zenon

\* A hook that finishes forgets its request.
LEMMA FinishStep ==
  ASSUME IInv, NEW h \in Hooks, NEW d \in Decision, Finish(h, d),
         UNCHANGED <<kernel, sensor, time, live, age>>
  PROVE  IInv'
  <1>1. TypeOK'
    BY DEF IInv, TypeOK, Finish, Idle, Lookups, Slots, kernel, sensor, time
  <1>2. HookKnows(h)'
    BY Zenon DEF IInv, TypeOK, Finish, Idle, HookKnows
  <1>3. \A i \in Hooks \ {h} : hook'[i] = hook[i] /\ asking'[i] = asking[i]
    BY DEF IInv, TypeOK, Finish
  <1> QED BY <1>1, <1>2, <1>3, HookLocalStep

\* What a hook finds in its slot is what the generation it started under holds.
LEMMA EntryIsGeneration ==
  ASSUME IInv, NEW h \in Hooks, hook[h].pc # "idle", NEW m \in Maps
  PROVE  /\ asking[h].by.gen \in Nat /\ asking[h].profile \in Profiles /\ asking[h].kind \in Kinds
         /\ <<m, asking[h].profile>> \in asking[h].by.keys <=> Entry(h, m) # 0
         /\ Entry(h, m) \in {0, asking[h].by.gen}
  <1>1. asking[h] \in Request /\ WellNumbered(asking[h].by) /\ maps[hook[h].slot] = Image(asking[h].by)
    BY Zenon DEF IInv, HookView, HookKnows
  <1>2. asking[h].by.gen \in Nat /\ asking[h].profile \in Profiles /\ asking[h].kind \in Kinds
    BY <1>1 DEF Request, Generation
  <1>3. <<m, asking[h].profile>> \in Key
    BY <1>2 DEF Key
  <1>4. Entry(h, m) = IF <<m, asking[h].profile>> \in asking[h].by.keys THEN asking[h].by.gen ELSE 0
    BY <1>1, <1>3 DEF Entry, Image
  <1> QED BY <1>1, <1>2, <1>4, Zenon DEF WellNumbered

\* The profile lookup.
LEMMA HookProfileStep == ASSUME IInv, NEW h \in Hooks, HookProfile(h) PROVE IInv'
  <1>0. UNCHANGED <<kernel, sensor, time, live, age>> /\ hook[h].pc = "profile"
    BY DEF HookProfile, kernel, sensor, time
  <1>1. CASE Entry(h, "profile") = 0
    <2>1. FailClosed \in Decision
      BY DEF FailClosed, Decision, DecidedBy
    <2>2. Finish(h, FailClosed)
      BY <1>1 DEF HookProfile
    <2> QED BY <1>0, <2>1, <2>2, FinishStep
  <1>2. CASE Entry(h, "profile") # 0
    <2> DEFINE next == IF asking[h].kind = "net" THEN "deny" ELSE asking[h].kind
    <2>1. /\ <<"profile", asking[h].profile>> \in asking[h].by.keys
          /\ Entry(h, "profile") = asking[h].by.gen
          /\ asking[h].by.gen \in Nat
          /\ asking[h].kind \in Kinds
      BY <1>0, <1>2, EntryIsGeneration, Zenon DEF Maps
    <2>2. /\ hook' = [hook EXCEPT ![h].gen = Entry(h, "profile"), ![h].pc = next]
          /\ UNCHANGED <<asking, decided>>
      BY <1>2 DEF HookProfile
    <2>3. next \in {"deny", "exec", "file"} /\ (next = "deny" => asking[h].kind = "net")
          /\ (next # "deny" => asking[h].kind = next)
      BY <2>1 DEF Kinds
    <2> HIDE DEF next
    <2>4. /\ hook'[h].gen = asking[h].by.gen
          /\ hook'[h].slot = hook[h].slot
          /\ hook'[h].pc = next
          /\ hook' \in [Hooks -> [pc : Lookups, slot : Slots, gen : Nat]]
          /\ \A i \in Hooks \ {h} : hook'[i] = hook[i]
      BY <2>1, <2>2, <2>3, Zenon DEF IInv, TypeOK, Lookups, Maps
    <2>5. TypeOK'
      BY <1>0, <2>2, <2>4 DEF IInv, TypeOK, kernel, sensor, time
    <2>6. HookKnows(h)'
      BY <1>0, <2>1, <2>2, <2>3, <2>4 DEF IInv, HookView, HookKnows, WellNumbered, Image, kernel, time
    <2> QED BY <1>0, <2>2, <2>4, <2>5, <2>6, HookLocalStep
  <1> QED BY <1>1, <1>2

\* A rule lookup.
LEMMA HookLookupStep == ASSUME IInv, NEW h \in Hooks, HookLookup(h) PROVE IInv'
  <1> DEFINE m == hook[h].pc
  <1>0. UNCHANGED <<kernel, sensor, time, live, age>> /\ m \in RuleMaps /\ hook[h].gen \in Nat
    BY DEF HookLookup, kernel, sensor, time, IInv, TypeOK
  <1>1. ASSUME NEW by \in DecidedBy, Finish(h, [gen |-> hook[h].gen, by |-> by]) PROVE IInv'
    <2>1. [gen |-> hook[h].gen, by |-> by] \in Decision
      BY <1>0 DEF Decision
    <2> QED BY <1>0, <1>1, <2>1, FinishStep
  <1>2. CASE Entry(h, m) # 0
    BY <1>0, <1>1, <1>2 DEF HookLookup, DecidedBy, RuleMaps, Maps
  <1>3. CASE Entry(h, m) = 0 /\ m # "deny"
    BY <1>1, <1>3 DEF HookLookup, DecidedBy
  <1>4. CASE Entry(h, m) = 0 /\ m = "deny"
    <2>1. hook' = [hook EXCEPT ![h].pc = "allow"] /\ UNCHANGED <<asking, decided>>
      BY <1>4 DEF HookLookup
    <2>2. <<"deny", asking[h].profile>> \notin asking[h].by.keys
      BY <1>4, EntryIsGeneration, Zenon DEF Maps
    <2>3. /\ hook'[h].gen = hook[h].gen
          /\ hook'[h].slot = hook[h].slot
          /\ hook'[h].pc = "allow"
          /\ hook' \in [Hooks -> [pc : Lookups, slot : Slots, gen : Nat]]
          /\ \A i \in Hooks \ {h} : hook'[i] = hook[i]
      BY <2>1, Zenon DEF IInv, TypeOK, Lookups, Maps
    <2>4. TypeOK'
      BY <1>0, <2>1, <2>3 DEF IInv, TypeOK, kernel, sensor, time
    <2>5. HookKnows(h)'
      BY <1>0, <1>4, <2>1, <2>2, <2>3 DEF IInv, HookView, HookKnows, WellNumbered, Image, kernel, time
    <2> QED BY <1>0, <2>1, <2>3, <2>4, <2>5, HookLocalStep
  <1> QED BY <1>2, <1>3, <1>4

\* Time passes for everyone at once, so the order of the ages stays.
LEMMA TickStep == ASSUME IInv, Tick PROVE IInv'
  <1> USE TimingAssumption DEF IInv, Tick, kernel
  <1>1. TypeOK'
    <2>1. age' \in [Hooks -> 0..MaxDecision]
      BY DEF TypeOK
    <2>2. last_flip' \in 0..Grace /\ since_flip' \in 0..Grace /\ down_for' \in 0..Grace
      BY DEF TypeOK, Older
    <2> QED BY <2>1, <2>2 DEF TypeOK
  <1>2. LiveSlotIntact'
    BY Zenon DEF LiveSlotIntact, Image
  <1>3. EngineView'
    BY Zenon DEF EngineView, WellNumbered
  <1>4. Ages'
    BY DEF Ages, TypeOK, Older
  <1>5. HookView'
    <2> SUFFICES ASSUME NEW h \in Hooks PROVE HookKnows(h)'
      BY Zenon DEF HookView
    <2>1. hook[h].pc # "idle" /\ hook[h].slot # active_slot => since_flip' <= age'[h]
      <3>1. ASSUME hook[h].pc # "idle", hook[h].slot # active_slot PROVE since_flip' <= age'[h]
        <4>1. since_flip <= age[h] /\ since_flip \in 0..Grace /\ age[h] \in Nat
          <5>1. HookKnows(h)
            BY DEF HookView
          <5>2. since_flip <= age[h]
            BY <3>1, <5>1, Zenon DEF HookKnows
          <5> QED BY <5>2 DEF TypeOK
        <4>2. age'[h] = age[h] + 1
          BY <3>1
        <4> QED BY <4>1, <4>2 DEF Older
      <3> QED BY <3>1, Zenon
    <2> QED BY <2>1, Zenon DEF HookView, HookKnows, WellNumbered, Image
  <1> QED BY <1>1, <1>2, <1>3, <1>4, <1>5, Zenon

\* Every step preserves the inductive invariant.
LEMMA NextIInv == IInv /\ [Next]_vars => IInv'
  <1> SUFFICES ASSUME IInv, [Next]_vars PROVE IInv' OBVIOUS
  <1>1. CASE \E pol \in Policies : ApplyStart(pol)
    BY <1>1, ApplyStartStep
  <1>2. CASE ClearStart \/ ClearKey \/ WriteStart \/ WriteKey \/ WriteFails
    BY <1>2, ClearStartStep, ClearKeyStep, WriteStartStep, WriteKeyStep, WriteFailsStep
  <1>3. CASE Flip \/ Persist \/ Crash \/ Adopt
    BY <1>3, FlipStep, PersistStep, CrashStep, AdoptStep
  <1>4. CASE \E h \in Hooks, p \in Profiles, kind \in Kinds : HookStart(h, p, kind)
    BY <1>4, HookStartStep
  <1>5. CASE \E h \in Hooks : HookProfile(h) \/ HookLookup(h)
    BY <1>5, HookProfileStep, HookLookupStep
  <1>6. CASE Tick
    BY <1>6, TickStep
  <1>7. CASE UNCHANGED vars
    <2> USE <1>7 DEF vars, kernel, sensor, time, hooks, IInv
    <2>1. TypeOK'
      BY DEF TypeOK
    <2>2. LiveSlotIntact' /\ EngineView' /\ Ages'
      BY Zenon DEF LiveSlotIntact, Image, EngineView, WellNumbered, Ages
    <2>3. HookView'
      BY HookFrame
    <2> QED BY <2>1, <2>2, <2>3
  <1> QED BY <1>1, <1>2, <1>3, <1>4, <1>5, <1>6, <1>7 DEF Next

\* The inductive invariant holds in every reachable state.
THEOREM Invariance == Spec => []IInv
  BY InitIInv, NextIInv, PTL DEF Spec

\* Type correctness of the double-buffered maps, the sensor's memory and the hooks.
THEOREM TypeCorrect == Spec => []TypeOK
  BY Invariance, PTL DEF IInv

\* The live slot always holds exactly the generation the last flip committed:
\* no apply, failed apply, crash or adoption ever touches it.
THEOREM LiveSlotNeverTorn == Spec => []LiveSlotIntact
  BY Invariance, PTL DEF IInv

\* From its read of rk_active_slot to its last lookup, a hook reads exactly the
\* generation it started under.
THEOREM DecisionsUndisturbed == Spec => []RunningDecisionsUndisturbed
  <1>1. IInv => RunningDecisionsUndisturbed
    BY Zenon DEF IInv, HookView, HookKnows, RunningDecisionsUndisturbed
  <1> QED BY <1>1, Invariance, PTL

\* The engine's record of what it wrote covers what the maps hold, so a later
\* clear_slot leaves nothing behind.
THEOREM RecordCoversMaps == Spec => []WrittenCoversMaps
  <1>1. IInv => WrittenCoversMaps
    BY DEF IInv, EngineView, WrittenCoversMaps, Present
  <1> QED BY <1>1, Invariance, PTL

\* The engine numbers generations without a gap or a repeat, across restarts too.
THEOREM GenerationsContinue == Spec => []GenerationContinues
  <1>1. IInv => GenerationContinues
    BY DEF IInv, EngineView, GenerationContinues
  <1> QED BY <1>1, Invariance, PTL
------------------------------------------------------------------------------
\* What check_capacity established stays true until the apply ends: the record of
\* the live slot does not change while the other one is rewritten.
Fits == pc \in {"grace", "clear", "write"} => CheckCapacity(new)

LEMMA FitsStep == IInv /\ Fits /\ [Next]_vars => Fits'
  <1> SUFFICES ASSUME IInv, Fits, [Next]_vars, pc' \in {"grace", "clear", "write"}
               PROVE  CheckCapacity(new)'
    BY DEF Fits
  <1>0. engine_slot \in Slots /\ written \in [Slots -> SUBSET Key] /\ Inactive \in Slots /\ Inactive # engine_slot
    BY DEF IInv, TypeOK, Inactive, Slots
  <1>1. CASE \E pol \in Policies : ApplyStart(pol)
    BY <1>1 DEF ApplyStart, CheckCapacity
  <1>2. CASE ClearStart \/ ClearKey \/ WriteStart \/ WriteKey
    <2>1. /\ new' = new /\ engine_slot' = engine_slot
          /\ pc \in {"grace", "clear", "write"}
          /\ written'[engine_slot] = written[engine_slot]
      BY <1>0, <1>2 DEF ClearStart, ClearKey, WriteStart, WriteKey
    <2> QED BY <2>1 DEF Fits, CheckCapacity
  <1>3. CASE WriteFails \/ Flip \/ Persist \/ Crash \/ Adopt
    BY <1>3 DEF WriteFails, Flip, Persist, Crash, Adopt
  <1>4. CASE UNCHANGED <<pc, new, engine_slot, written>>
    BY <1>4 DEF Fits, CheckCapacity
  <1> QED BY <1>1, <1>2, <1>3, <1>4, Zenon
      DEF Next, HookStart, HookProfile, HookLookup, Tick, vars, sensor

\* Every set of keys is finite.
LEMMA KeysFinite == \A S \in SUBSET Key : IsFiniteSet(S) /\ Cardinality(S) \in Nat
  <1>1. IsFiniteSet(Maps)
    <2>1. Maps = {"file"} \cup ({"exec"} \cup ({"profile"} \cup ({"deny"} \cup {"allow"})))
      BY DEF Maps
    <2> QED BY <2>1, FS_Singleton, FS_Union, Zenon
  <1>2. IsFiniteSet(Key)
    BY <1>1, BoundsAssumption, FS_Product DEF Key
  <1> QED BY <1>2, FS_Subset, FS_CardinalityType

\* check_capacity counts the live slot's record and the new policy; while the
\* inactive slot is written its entries are the new ones already inserted, one
\* fewer than the new policy at least, so an admitted apply is never refused by a full map.
THEOREM CapacitySuffices == Spec => []RoomForEveryWrite
  <1>1. Init => Fits
    BY DEF Init, Fits
  <1>2. IInv /\ Fits => RoomForEveryWrite
    <2> SUFFICES ASSUME IInv, Fits, pc = "write",
                        NEW k \in Front(WriteOrder, todo), k[1] \in RuleMaps
                 PROVE  Used(k[1]) < Cap
      BY DEF RoomForEveryWrite
    <2> DEFINE m == k[1]
               held == In(m, Present(active_slot))
               fresh == In(m, Present(1 - active_slot))
               recorded == In(m, written[engine_slot])
               all == In(m, new)
    <2>1. /\ active_slot \in Slots /\ engine_slot = active_slot
          /\ written[engine_slot] \subseteq Key /\ new \subseteq Key /\ todo \subseteq new
      BY DEF IInv, TypeOK, EngineView
    <2>2. held \subseteq recorded /\ recorded \subseteq Key
      BY <2>1, Zenon DEF IInv, EngineView, In, Present
    <2>3. k \in all /\ fresh \subseteq all \ {k} /\ all \subseteq Key
      BY <2>1 DEF IInv, EngineView, In, Present, Front
    <2>4. Cardinality(recorded) + Cardinality(all) <= Cap
      BY DEF Fits, CheckCapacity
    <2>5. Cardinality(held) <= Cardinality(recorded)
      BY <2>2, KeysFinite, FS_Subset
    <2>6. Cardinality(fresh) <= Cardinality(all \ {k}) /\ Cardinality(all \ {k}) = Cardinality(all) - 1
      <3> HIDE DEF fresh, all
      <3>1. IsFiniteSet(all) /\ IsFiniteSet(all \ {k})
        BY <2>3, KeysFinite
      <3> QED BY <2>3, <3>1, FS_Subset, FS_RemoveElement
    <2>7. Used(m) = Cardinality(held) + Cardinality(fresh)
      <3>1. /\ Cardinality(In(m, Present(0))) \in Nat
            /\ Cardinality(In(m, Present(1))) \in Nat
        BY KeysFinite DEF In, Present
      <3>2. CASE active_slot = 0
        BY <3>1, <3>2 DEF Used
      <3>3. CASE active_slot = 1
        BY <3>1, <3>3 DEF Used
      <3> QED BY <2>1, <3>2, <3>3 DEF Slots
    <2>8. /\ Cardinality(held) \in Nat /\ Cardinality(fresh) \in Nat
          /\ Cardinality(recorded) \in Nat /\ Cardinality(all) \in Nat
      BY <2>2, <2>3, KeysFinite, Zenon DEF In, Present
    <2> HIDE DEF held, fresh, recorded, all
    <2> QED BY <2>4, <2>5, <2>6, <2>7, <2>8, BoundsAssumption
  <1> QED BY <1>1, <1>2, FitsStep, Invariance, PTL DEF Spec
------------------------------------------------------------------------------
\* The decision a hook computes from its lookups is the one its generation makes.
LEMMA HookAnswers ==
  ASSUME IInv, NEW h \in Hooks, HookProfile(h) \/ HookLookup(h)
  PROVE  Answer(h) \/ UNCHANGED avars
  <1> DEFINE r == asking[h]
  <1>0. hook[h].pc # "idle" /\ live' = live
    BY DEF HookProfile, HookLookup, RuleMaps, Maps
  <1>r. /\ r \in Request /\ r.kind \in Kinds
        /\ \A m \in Maps : <<m, r.profile>> \in r.by.keys <=> Entry(h, m) # 0
    <2>1. HookKnows(h)
      BY DEF IInv, HookView
    <2>2. r \in Request
      BY <1>0, <2>1, Zenon DEF HookKnows
    <2>3. r.kind \in Kinds
      BY <2>2 DEF Request
    <2> QED BY <1>0, <2>2, <2>3, EntryIsGeneration, Zenon
  <1>n. r.kind # "none"
    BY <1>r DEF Kinds
  <1>1. ASSUME NEW d, Finish(h, d), d = Decide(r.by, r.profile, r.kind) PROVE Answer(h)
    BY <1>0, <1>1, <1>n DEF Finish, Answer
  <1>2. CASE HookProfile(h)
    <2>1. CASE Entry(h, "profile") = 0
      <3>1. FailClosed = Decide(r.by, r.profile, r.kind)
        BY <2>1, <1>r, Zenon DEF Decide, Maps
      <3> QED BY <1>1, <1>2, <2>1, <3>1 DEF HookProfile
    <2>2. CASE Entry(h, "profile") # 0
      BY <1>2, <2>2 DEF HookProfile, avars
    <2> QED BY <2>1, <2>2
  <1>3. CASE HookLookup(h)
    <2> DEFINE m == hook[h].pc
    <2>0. /\ m \in RuleMaps
          /\ <<"profile", r.profile>> \in r.by.keys /\ hook[h].gen = r.by.gen
          /\ m \in {"deny", "allow"} => r.kind = "net"
          /\ m \in {"exec", "file"} => r.kind = m
          /\ m = "allow" => <<"deny", r.profile>> \notin r.by.keys
      BY <1>0, <1>3 DEF HookLookup, RuleMaps, IInv, HookView, HookKnows
    <2>1. CASE Entry(h, m) # 0
      <3>1. [gen |-> hook[h].gen, by |-> m] = Decide(r.by, r.profile, r.kind)
        BY <2>0, <2>1, <1>r, Zenon DEF Decide, RuleMaps, Maps
      <3> QED BY <1>1, <1>3, <2>1, <3>1 DEF HookLookup
    <2>2. CASE Entry(h, m) = 0 /\ m # "deny"
      <3>1. [gen |-> hook[h].gen, by |-> "default"] = Decide(r.by, r.profile, r.kind)
        BY <2>0, <2>2, <1>r, Zenon DEF Decide, RuleMaps, Maps
      <3> QED BY <1>1, <1>3, <2>2, <3>1 DEF HookLookup
    <2>3. CASE Entry(h, m) = 0 /\ m = "deny"
      BY <1>3, <2>3 DEF HookLookup, avars
    <2> QED BY <2>1, <2>2, <2>3, Zenon
  <1> QED BY <1>2, <1>3

\* Every step of the maps, the sensor and the hooks is a step of AtomicPolicy or
\* leaves its variables alone.
LEMMA StepSimulation == IInv /\ [Next]_vars => [ANext]_avars
  <1> SUFFICES ASSUME IInv, [Next]_vars PROVE [ANext]_avars OBVIOUS
  <1>1. CASE \E pol \in Policies : ApplyStart(pol)
    BY <1>1 DEF ApplyStart, hooks, avars
  <1>2. CASE ClearStart \/ ClearKey \/ WriteStart \/ WriteKey \/ WriteFails \/ Persist \/ Crash \/ Adopt
    BY <1>2, Zenon DEF ClearStart, ClearKey, WriteStart, WriteKey, WriteFails, Persist, Crash, Adopt, hooks, avars
  <1>3. CASE Flip
    <2>1. new \in Policies /\ Replace(new)
      BY <1>3, Zenon DEF Flip, Replace, hooks, IInv, EngineView
    <2> QED BY <2>1 DEF ANext
  <1>4. CASE \E h \in Hooks, p \in Profiles, kind \in Kinds : HookStart(h, p, kind)
    BY <1>4 DEF HookStart, ANext
  <1>5. CASE \E h \in Hooks : HookProfile(h) \/ HookLookup(h)
    BY <1>5, HookAnswers DEF ANext
  <1>6. CASE Tick
    BY <1>6, Zenon DEF Tick, avars
  <1>7. CASE UNCHANGED vars
    BY <1>7 DEF vars, hooks, avars
  <1> QED BY <1>1, <1>2, <1>3, <1>4, <1>5, <1>6, <1>7 DEF Next

\* The mapping reads off the maps what the history variables recorded.
MapsAgree == LiveBar = live /\ AskingBar = asking

LEMMA MappingIsHistory == IInv => MapsAgree
  <1> SUFFICES ASSUME IInv PROVE LiveBar = live /\ AskingBar = asking BY DEF MapsAgree
  <1>1. LiveBar = live
    BY ContentsOfImage, Zenon DEF IInv, TypeOK, LiveSlotIntact, EngineView, LiveBar
  <1>2. ASSUME NEW h \in Hooks PROVE AskingBar[h] = asking[h]
    <2>0. HookKnows(h)
      BY DEF IInv, HookView
    <2>1. CASE hook[h].pc = "idle"
      BY <2>0, <2>1, Zenon DEF HookKnows, AskingBar
    <2>2. CASE hook[h].pc # "idle"
      <3>1. /\ asking[h] \in Request
            /\ WellNumbered(asking[h].by)
            /\ maps[hook[h].slot] = Image(asking[h].by)
        BY <2>0, <2>2, Zenon DEF HookKnows
      <3>2. asking[h].by \in Generation
        BY <3>1 DEF Request
      <3>3. SlotContents(hook[h].slot) = asking[h].by
        BY <3>1, <3>2, ContentsOfImage, Zenon
      <3>4. asking[h] = [profile |-> asking[h].profile, kind |-> asking[h].kind, by |-> asking[h].by]
        BY <3>1 DEF Request
      <3> QED BY <2>2, <3>3, <3>4, Zenon DEF AskingBar
    <2> QED BY <2>1, <2>2
  <1>3. asking = [h \in Hooks |-> asking[h]] /\ AskingBar = [h \in Hooks |-> AskingBar[h]]
    BY DEF IInv, TypeOK, AskingBar
  <1> QED BY <1>1, <1>2, <1>3

\* The double-buffered maps implement one policy that is replaced as a whole:
\* every decision is the one a single generation makes.
THEOREM Refinement == Spec => ImplementsAtomicPolicy
  <1>1. Init => Abstract!AInit
    <2> SUFFICES ASSUME Init PROVE Abstract!AInit OBVIOUS
    <2>1. LiveBar = live /\ AskingBar = asking
      BY InitIInv, MappingIsHistory DEF MapsAgree
    <2> QED BY <2>1, Zenon DEF Init, AInit, Abstract!AInit, Abstract!NoGeneration, Abstract!NoRequest,
                Abstract!Undecided, NoGeneration, NoRequest, Undecided
  <1>2. IInv /\ MapsAgree /\ MapsAgree' /\ [Next]_vars => [Abstract!ANext]_(Abstract!avars)
    <2> SUFFICES ASSUME IInv, MapsAgree, MapsAgree', [Next]_vars
                 PROVE  [Abstract!ANext]_(Abstract!avars)
      OBVIOUS
    <2>1. LiveBar = live /\ AskingBar = asking
      BY DEF MapsAgree
    <2>2. LiveBar' = live' /\ AskingBar' = asking'
      BY DEF MapsAgree
    <2>3. [ANext]_avars
      BY StepSimulation
    <2>4. ANext => Abstract!ANext
      BY <2>1, <2>2, Zenon DEF ANext, Replace, Ask, Answer, Decide, FailClosed, NoRequest, Kinds,
         Abstract!ANext, Abstract!Replace, Abstract!Ask, Abstract!Answer, Abstract!Decide,
         Abstract!FailClosed, Abstract!NoRequest, Abstract!Kinds
    <2> QED BY <2>1, <2>2, <2>3, <2>4 DEF avars, Abstract!avars
  <1> QED BY <1>1, <1>2, MappingIsHistory, Invariance, PTL DEF Spec, Abstract!ASpec, ImplementsAtomicPolicy
=============================================================================
