---------------------------- MODULE SensorProofs ----------------------------
(***************************************************************************)
(* Proofs about the sensor as a service: the pin sets it leaves behind and *)
(* takes over, and the heartbeat by which the hooks know that it runs.     *)
(***************************************************************************)
EXTENDS Upgrade, Heartbeat, TLAPS

(***************************************************************************)
(* The pin sets' safety properties for every number of programs, every set *)
(* of objects and cgroups, and any number of crashes and edits.            *)
(*                                                                         *)
(* The inductive invariant says, for every place a sensor can stand in,    *)
(* which directories exist and what is complete: a sensor that loads works *)
(* on a set with no other left over; one that switches has a complete set  *)
(* in `next` or already in `root`; and once armed, the set in `root`, or   *)
(* between the two renames the one in `next`, enforces.  The state file    *)
(* belongs to that set, except from SaveCarried to the first rename.       *)
(***************************************************************************)
PinSet == [obj : Objects \cup {"none"}, epoch : Int, links : SUBSET Programs,
           policy : BOOLEAN, runtime : SUBSET Cgroups, guard : BOOLEAN]
StateFile == [epoch : Int, text : BOOLEAN, runtime : SUBSET Cgroups]
Engine == [obj : Objects \cup {"none"}, epoch : Int, prev : Int, text : BOOLEAN,
           runtime : SUBSET Cgroups, new : SUBSET Cgroups]
Loading == {"meta", "protect", "attach", "adopt", "carry", "save"}
Serving == {"file", "run", "saving"}
Pcs == {"down", "reconcile", "remove", "switch", "uninstall"} \cup Loading \cup Serving

TypeInv ==
  /\ pins \in [Dirs -> PinSet]
  /\ state \in StateFile
  /\ pc \in Pcs /\ target \in Dirs
  /\ then \in {"down", "reconcile", "adopt", "carry", "file", "uninstall"}
  /\ me \in Engine
  /\ bound \in SUBSET Cgroups

\* A set without rk_meta is no set, and bindings come with a policy; so do those of
\* the state file in the set it belongs to.
SetsInv ==
  \A d \in Dirs :
    /\ pins[d].epoch = -1 => pins[d] = Absent
    /\ pins[d].runtime # {} => pins[d].policy
    /\ pins[d].epoch > 0 /\ pins[d].epoch = state.epoch /\ (state.text \/ state.runtime # {})
         => pins[d].policy

\* A sensor between open and the switch: the set it works on and what it has done there.
LoadingInv ==
  pc \in Loading =>
    /\ me.epoch > 0 /\ ~Exists("old") /\ Exists(target)
    /\ \/ target = "root" /\ ~Exists("next")
       \/ target = "next" /\ Exists("root") /\ pins["root"].epoch # me.epoch
            /\ me.prev = pins["root"].epoch
    /\ pc \in {"meta", "protect", "attach"} =>
         \/ target = "next" /\ then = "carry"
         \/ target = "root" /\ then = "file" /\ ~armed
         \/ target = "root" /\ then = "adopt" /\ pc # "meta"
    /\ pc = "meta" => me.epoch # state.epoch
    /\ pc # "meta" => pins[target].epoch = me.epoch
    /\ pc = "adopt" => target = "root"
    /\ pc \in {"carry", "save"} => target = "next"
    /\ pc \notin {"meta", "protect"} => pins[target].guard
    /\ pc \in {"adopt", "carry", "save"} => pins[target].links = Programs
    /\ pc = "save" => pins["next"].policy

\* The set `d` is the sensor's own, complete and enforcing.
Ready(d) == Enforces(d) /\ pins[d].guard /\ pins[d].epoch = me.epoch /\ me.epoch > 0

\* The three stages of finish_replacement.
SwitchInv ==
  pc = "switch" =>
    \/ Ready("next") /\ Exists("root") /\ ~Exists("old")
    \/ Ready("next") /\ ~Exists("root") /\ Exists("old")
    \/ Ready("root") /\ ~Exists("next") /\ Exists("old")

ServingInv ==
  pc \in Serving =>
    /\ ~Exists("next") /\ ~Exists("old")
    /\ pins["root"].epoch = me.epoch /\ me.epoch > 0
    /\ pins["root"].links = Programs /\ pins["root"].guard
    /\ me.text \/ me.runtime # {} \/ pc = "saving" => pins["root"].policy

\* What a removal is for.
RemoveInv ==
  pc = "remove" =>
    /\ then \in {"file", "reconcile", "down", "uninstall"}
    /\ then = "file" => target = "old" /\ ~Exists("next") /\ Ready("root")
    /\ then = "down" => target = "next" /\ Exists("root") /\ ~Exists("old")

\* The engine's memory before it has taken over, and the binding being saved.
MemoryInv ==
  /\ pc \in {"reconcile", "meta", "protect", "attach", "adopt", "carry"}
       \/ (pc = "remove" /\ then = "reconcile") => ~me.text /\ me.runtime = {}
  /\ me.new # {} => /\ pc = "saving" /\ me.text
                    /\ me.new \subseteq me.runtime /\ me.new \subseteq pins["root"].runtime

\* The set that counts once a sensor has served: root, or next between the two renames.
Main == IF Exists("root") THEN "root" ELSE "next"

ArmedInv ==
  armed =>
    /\ pc # "uninstall"
    /\ Exists("root") \/ Exists("old")
    /\ Enforces(Main) /\ pins[Main].epoch > 0
    /\ pc = "remove" => target # "root" /\ then # "uninstall" /\ Exists("root")

\* Where the acknowledged bindings are written.
BoundInv ==
  bound # {} =>
    /\ armed
    /\ ~cut_off =>
         /\ bound \subseteq pins[Main].runtime
         /\ bound \subseteq state.runtime /\ state.text
         /\ state.epoch = pins[IF pc = "switch" /\ Exists("next") THEN "next" ELSE Main].epoch
         /\ pc \in {"save", "switch"} /\ Exists("next") => bound \subseteq pins["next"].runtime
         /\ pc \in {"save", "switch"} \cup Serving \/ (pc = "remove" /\ then = "file") =>
              bound \subseteq me.runtime /\ me.text

Places == SetsInv /\ LoadingInv /\ SwitchInv /\ ServingInv /\ RemoveInv
Promises == MemoryInv /\ ArmedInv /\ BoundInv
IInv == TypeInv /\ Places /\ Promises
-----------------------------------------------------------------------------
(* Records *)

\* The updates of the operations keep a pin set one.
LEMMA SetUpdates ==
  ASSUME NEW s \in PinSet
  PROVE  /\ \A o \in Objects \cup {"none"}, e \in Int : [s EXCEPT !.obj = o, !.epoch = e] \in PinSet
         /\ \A b \in BOOLEAN : [s EXCEPT !.guard = b] \in PinSet
         /\ \A l \in SUBSET Programs : [s EXCEPT !.links = l] \in PinSet
         /\ \A e \in Int : [s EXCEPT !.epoch = e] \in PinSet
         /\ \A r \in SUBSET Cgroups : [s EXCEPT !.runtime = r] \in PinSet
         /\ \A b \in BOOLEAN, r \in SUBSET Cgroups :
              [s EXCEPT !.policy = b, !.runtime = r] \in PinSet
  BY Zenon DEF PinSet

\* The updates of the operations keep the engine's memory well-formed.
LEMMA EngineUpdates ==
  ASSUME NEW m \in Engine
  PROVE  /\ \A o \in Objects : [m EXCEPT !.obj = o] \in Engine
         /\ \A e \in Int : [m EXCEPT !.epoch = e] \in Engine
         /\ \A e, p \in Int : [m EXCEPT !.epoch = e, !.prev = p] \in Engine
         /\ \A b \in BOOLEAN : [m EXCEPT !.text = b] \in Engine
         /\ \A b \in BOOLEAN, r \in SUBSET Cgroups :
              [m EXCEPT !.text = b, !.runtime = r] \in Engine
         /\ \A r \in SUBSET Cgroups : [m EXCEPT !.runtime = r] \in Engine
         /\ \A r, n \in SUBSET Cgroups : [m EXCEPT !.runtime = r, !.new = n] \in Engine
         /\ \A n \in SUBSET Cgroups : [m EXCEPT !.new = n] \in Engine
  BY Zenon DEF Engine

\* The empty set of pins, a sensor with nothing in memory, and no state file.
LEMMA EmptyRecords ==
  /\ Absent \in PinSet /\ Nobody \in Engine /\ NoState \in StateFile
  /\ Absent.epoch = -1 /\ Absent.links = {} /\ Absent.runtime = {}
  /\ Absent.policy = FALSE /\ Absent.guard = FALSE
  /\ Nobody.text = FALSE /\ Nobody.runtime = {} /\ Nobody.new = {}
  BY SMT DEF Absent, Nobody, NoState, PinSet, Engine, StateFile

\* A set that open creates.
LEMMA CreatedSet ==
  ASSUME NEW o \in Objects \cup {"none"}
  PROVE  /\ Created(o) \in PinSet /\ Created(o) # Absent
         /\ Created(o).epoch = 0 /\ Created(o).runtime = {}
  <1>1. Created(o) \in PinSet
    <2>1. 0 \in Int
      BY SMT
    <2> QED
      BY <2>1, EmptyRecords, SetUpdates, Zenon DEF Created
  <1>2. Created(o).epoch = 0 /\ Created(o).runtime = {}
    BY EmptyRecords, SMT DEF Created, PinSet
  <1> QED
    BY <1>1, <1>2, EmptyRecords, SMT

\* What a new set's epoch is different from.
LEMMA FreshEpochIsNew ==
  ASSUME TypeInv, ~Exists("next"), ~Exists("old")
  PROVE  FreshEpoch \in 1..3 /\ FreshEpoch # state.epoch /\ FreshEpoch # pins["root"].epoch
  <1> DEFINE P(e) == e # state.epoch /\ \A d \in Dirs : e # pins[d].epoch
  <1>1. \E e \in 1..3 : P(e)
    BY EmptyRecords, SMT DEF TypeInv, PinSet, StateFile, Exists, Dirs
  <1>2. FreshEpoch \in 1..3 /\ P(FreshEpoch)
    BY <1>1 DEF FreshEpoch
  <1> QED
    BY <1>2 DEF Dirs

\* A policy with its bindings is written into a set.
LEMMA PolicyUpdate ==
  ASSUME NEW p \in [Dirs -> PinSet], NEW d \in Dirs, NEW r \in SUBSET Cgroups
  PROVE  [p EXCEPT ![d].policy = TRUE, ![d].runtime = r] \in [Dirs -> PinSet]
  <1>1. [p[d] EXCEPT !.policy = TRUE, !.runtime = r] \in PinSet
    BY SetUpdates, Zenon
  <1> QED
    BY <1>1, SMT

\* The initial states satisfy the invariant.
LEMMA InitIInv == Init => IInv
  <1> SUFFICES ASSUME Init PROVE IInv
    OBVIOUS
  <1> USE EmptyRecords DEF Init
  <1>1. TypeInv
    BY SMT DEF TypeInv, Pcs, Dirs
  <1>2. Places
    BY SMT DEF Places, SetsInv, LoadingInv, SwitchInv, ServingInv, RemoveInv, Loading, Serving
  <1>3. Promises
    BY SMT DEF Promises, MemoryInv, ArmedInv, BoundInv
  <1> QED
    BY <1>1, <1>2, <1>3 DEF IInv

\* Every step keeps the types.
LEMMA TypeStep == TypeInv /\ [Next]_vars => TypeInv'
  <1> SUFFICES ASSUME TypeInv, [Next]_vars PROVE TypeInv'
    OBVIOUS
  <1> USE DEF TypeInv, operator
  <1>1. CASE RemoveStep
    <2>1. ASSUME NEW l PROVE [pins[target] EXCEPT !.links = @ \ {l}] \in PinSet
      BY SMT DEF PinSet
    <2>2. [pins[target] EXCEPT !.epoch = 0] \in PinSet
      BY SMT DEF PinSet
    <2>3. pins' \in [Dirs -> PinSet]
      BY <1>1, <2>1, <2>2, EmptyRecords, SMT DEF RemoveStep
    <2> QED
      BY <1>1, <2>3, SMT DEF RemoveStep, sensor, Pcs, Loading, Serving
  <1>2. CASE Start
    <2>1. me' \in Engine
      BY <1>2, EmptyRecords, EngineUpdates, Zenon DEF Start
    <2> QED
      BY <1>2, <2>1, SMT DEF Start, Pcs
  <1>3. CASE Reconcile
    <2>1. pins' \in [Dirs -> PinSet]
      BY <1>3, EmptyRecords, SMT DEF Reconcile, ReconcileOld, ReconcileNext, Rename, StartRemoving,
         sensor, Dirs
    <2> QED
      BY <1>3, <2>1, SMT DEF Reconcile, ReconcileOld, ReconcileNext, StartRemoving, sensor, Dirs, Pcs
  <1>4. CASE Open
    <2>1. ~Exists("next") /\ ~Exists("old") /\ me \in Engine /\ pins["root"].epoch \in Int
      BY <1>4, SMT DEF Open, Dirs, PinSet
    <2>2. FreshEpoch \in Int
      BY <2>1, FreshEpochIsNew, SMT
    <2>3. /\ [me EXCEPT !.epoch = pins["root"].epoch] \in Engine
          /\ [me EXCEPT !.epoch = FreshEpoch, !.prev = pins["root"].epoch] \in Engine
      BY <2>1, <2>2, EngineUpdates, Zenon
    <2>4. pins' \in [Dirs -> PinSet]
      <3>1. me.obj \in Objects \cup {"none"}
        BY SMT DEF Engine
      <3>2. Created(me.obj) \in PinSet
        BY <3>1, CreatedSet
      <3> QED
        BY <1>4, <3>2, SMT DEF Open
    <2> QED
      BY <1>4, <2>3, <2>4, SMT DEF Open, Dirs, Pcs, Loading
  <1>5. CASE WriteMeta
    <2>1. [pins[target] EXCEPT !.epoch = me.epoch] \in PinSet
      BY SMT DEF PinSet, Engine
    <2> QED
      BY <1>5, <2>1, SMT DEF WriteMeta, Pcs, Loading
  <1>6. CASE Protect
    <2>1. [pins[target] EXCEPT !.guard = TRUE] \in PinSet
      BY SetUpdates, Zenon
    <2> QED
      BY <1>6, <2>1, SMT DEF Protect, Pcs, Loading
  <1>7. CASE Attach
    <2>1. ASSUME NEW l \in Programs PROVE [pins[target] EXCEPT !.links = @ \cup {l}] \in PinSet
      BY SMT DEF PinSet
    <2> QED
      BY <1>7, <2>1, SMT DEF Attach, Pcs, Loading, Serving
  <1>8. CASE Adopt
    <2>1. state.runtime \in SUBSET Cgroups /\ pins["root"].runtime \in SUBSET Cgroups /\ me.epoch \in Int
      BY SMT DEF StateFile, PinSet, Engine, Dirs
    <2>2. state' \in StateFile
      BY <1>8, <2>1, Zenon DEF Adopt, StateFile
    <2>3. me' \in Engine
      BY <1>8, <2>1, EngineUpdates, Zenon DEF Adopt
    <2> QED
      BY <1>8, <2>2, <2>3, SMT DEF Adopt, Pcs, Loading, Serving
  <1>9. CASE Carry
    <2>1. state.runtime \in SUBSET Cgroups /\ {} \in SUBSET Cgroups /\ "next" \in Dirs
      BY SMT DEF StateFile, Dirs
    <2>2. PICK r \in SUBSET Cgroups :
            \/ /\ pins' = [pins EXCEPT !["next"].policy = TRUE, !["next"].runtime = r]
               /\ me' = [me EXCEPT !.text = TRUE, !.runtime = r]
            \/ UNCHANGED <<pins, me>>
      BY <1>9, <2>1, Zenon DEF Carry, StartRemoving
    <2>3. pins' \in [Dirs -> PinSet]
      <3>1. [pins EXCEPT !["next"].policy = TRUE, !["next"].runtime = r] \in [Dirs -> PinSet]
        BY <2>1, PolicyUpdate
      <3> QED
        BY <2>2, <3>1
    <2>4. me' \in Engine
      BY <2>2, EngineUpdates, Zenon
    <2> QED
      BY <1>9, <2>3, <2>4, SMT DEF Carry, StartRemoving, Pcs, Loading, Dirs
  <1>10. CASE SaveCarried
    <2>1. state' \in StateFile
      BY <1>10, SMT DEF SaveCarried, StateFile, Engine
    <2> QED
      BY <1>10, <2>1, SMT DEF SaveCarried, Pcs
  <1>11. CASE Switch
    <2>1. pins' \in [Dirs -> PinSet]
      BY <1>11, EmptyRecords, SMT DEF Switch, Rename, StartRemoving, Dirs
    <2> QED
      BY <1>11, <2>1, SMT DEF Switch, StartRemoving, sensor, Dirs, Pcs, Serving
  <1>12. CASE ApplyFile
    <2>1. me.runtime \in SUBSET Cgroups /\ "root" \in Dirs
      BY SMT DEF Engine, Dirs
    <2>2. pins' \in [Dirs -> PinSet]
      <3>1. [pins EXCEPT !["root"].policy = TRUE, !["root"].runtime = me.runtime] \in [Dirs -> PinSet]
        BY <2>1, PolicyUpdate
      <3> QED
        BY <1>12, <3>1 DEF ApplyFile
    <2>3. me' \in Engine
      BY <1>12, EngineUpdates, Zenon DEF ApplyFile
    <2> QED
      BY <1>12, <2>2, <2>3, SMT DEF ApplyFile, Pcs, Serving
  <1>13. CASE SaveRunning
    <2>1. state' \in StateFile
      BY <1>13, SMT DEF SaveRunning, StateFile, Engine
    <2>2. me' \in Engine /\ bound' \in SUBSET Cgroups
      BY <1>13, SMT DEF SaveRunning, Engine
    <2> QED
      BY <1>13, <2>1, <2>2, SMT DEF SaveRunning, Pcs, Serving
  <1>14. CASE UninstallStep
    BY <1>14, SMT DEF UninstallStep, StartRemoving, Pcs, Dirs
  <1>15. CASE Bind
    <2>1. PICK c \in Cgroups : /\ pins' = [pins EXCEPT !["root"].runtime = @ \cup {c}]
                               /\ me' = [me EXCEPT !.runtime = @ \cup {c}, !.new = {c}]
      BY <1>15 DEF Bind
    <2>2. pins["root"].runtime \cup {c} \in SUBSET Cgroups /\ me.runtime \cup {c} \in SUBSET Cgroups
            /\ {c} \in SUBSET Cgroups
      BY SMT DEF PinSet, Engine, Dirs
    <2>3. me' \in Engine
      BY <2>1, <2>2, EngineUpdates, Zenon
    <2>4. pins' \in [Dirs -> PinSet]
      BY <2>1, <2>2, SMT DEF PinSet, Dirs
    <2> QED
      BY <1>15, <2>3, <2>4, SMT DEF Bind, Pcs, Serving
  <1>16. CASE Unbind
    <2>1. PICK c : /\ pins' = [pins EXCEPT !["root"].runtime = @ \ {c}]
                   /\ me' = [me EXCEPT !.runtime = @ \ {c}]
                   /\ bound' = bound \ {c}
      BY <1>16 DEF Unbind
    <2>2. pins' \in [Dirs -> PinSet] /\ me' \in Engine
      BY <2>1, SMT DEF PinSet, Engine, Dirs
    <2> QED
      BY <1>16, <2>1, <2>2, SMT DEF Unbind, Pcs, Serving
  <1>17. CASE Dies
    <2>1. ASSUME NEW d \in Dirs PROVE [pins[d] EXCEPT !.guard = FALSE] \in PinSet
      BY SetUpdates, Zenon
    <2> QED
      BY <1>17, <2>1, EmptyRecords, SMT DEF Dies, Pcs, Dirs
  <1>18. CASE StartService \/ Uninstall \/ EditPolicy
    BY <1>18, SMT DEF StartService, Uninstall, EditPolicy, sensor, Pcs
  <1>19. CASE UNCHANGED vars
    BY <1>19, SMT DEF vars
  <1> QED
    BY <1>1, <1>2, <1>3, <1>4, <1>5, <1>6, <1>7, <1>8, <1>9, <1>10, <1>11,
       <1>12, <1>13, <1>14,
       <1>15, <1>16, <1>17, <1>18, <1>19 DEF Next, Step, Crash, Stop

\* Every step keeps the invariant.
LEMMA NextIInv == IInv /\ [Next]_vars => IInv'
  <1> SUFFICES ASSUME IInv, [Next]_vars PROVE Places' /\ Promises'
    BY TypeStep DEF IInv
  <1> USE EmptyRecords
      DEF IInv, TypeInv, Places, SetsInv, LoadingInv, SwitchInv, ServingInv, RemoveInv,
          Promises, MemoryInv, ArmedInv, BoundInv, PinSet, Engine, StateFile, Pcs, Loading, Serving,
          Exists, Dirs, Enforces, Ready, Main, operator
  <1>1. CASE RemoveStep
    <2>1. Places'
      BY <1>1, SMT DEF RemoveStep, sensor
    <2>2. MemoryInv' /\ BoundInv'
      BY <1>1, SMT DEF RemoveStep, sensor
    <2>3. ArmedInv'
      <3> SUFFICES ASSUME armed PROVE ArmedInv'
        BY <1>1 DEF RemoveStep
      <3>1. Exists("root")' = Exists("root") /\ Main' = Main /\ pins'[Main] = pins[Main]
        BY <1>1, SMT DEF RemoveStep, sensor
      <3>2. Enforces(Main)' /\ pins'[Main'].epoch > 0
        BY <3>1, SMT
      <3>3. (Exists("root") \/ Exists("old"))'
        BY <1>1, <3>1, SMT DEF RemoveStep, sensor
      <3> QED
        BY <1>1, <3>1, <3>2, <3>3, SMT DEF RemoveStep, sensor
    <2> QED
      BY <2>1, <2>2, <2>3, Zenon
  <1>2. CASE Start
    <2>1. Places'
      BY <1>2, SMT DEF Start
    <2>2. Promises'
      BY <1>2, SMT DEF Start
    <2> QED
      BY <2>1, <2>2, Zenon
  <1>3. CASE Reconcile
    <2>1. Places'
      BY <1>3, SMT DEF Reconcile, ReconcileOld, ReconcileNext, Rename, StartRemoving, HoldsLinks, sensor
    <2>2. Promises'
      BY <1>3, SMT DEF Reconcile, ReconcileOld, ReconcileNext, Rename, StartRemoving, HoldsLinks, sensor
    <2> QED
      BY <2>1, <2>2, Zenon
  <1>4. CASE Open
    <2>1. /\ FreshEpoch > 0 /\ FreshEpoch # state.epoch /\ FreshEpoch # pins["root"].epoch
          /\ Created(me.obj) # Absent /\ Created(me.obj).epoch = 0 /\ Created(me.obj).runtime = {}
      <3>1. ~Exists("next") /\ ~Exists("old") /\ me.obj \in Objects \cup {"none"}
        BY <1>4, SMT DEF Open
      <3> QED
        BY <3>1, FreshEpochIsNew, CreatedSet, SMT
    <2> DEFINE adopted == Exists("root") /\ pins["root"].epoch > 0 /\ pins["root"].obj = me.obj
    <2>2. CASE adopted
      <3>1. /\ target' = "root" /\ pc' = "protect" /\ then' = "adopt" /\ UNCHANGED pins
            /\ me'.epoch = pins["root"].epoch /\ me'.text = me.text /\ me'.runtime = me.runtime
            /\ me'.new = me.new
        BY <1>4, <2>2, SMT DEF Open
      <3>2. Places'
        BY <1>4, <2>2, <3>1, SMT DEF Open
      <3>3. Promises'
        BY <1>4, <2>2, <3>1, SMT DEF Open
      <3> QED
        BY <3>2, <3>3, Zenon
    <2>3. CASE ~adopted
      <3>1. /\ target' = IF Exists("root") THEN "next" ELSE "root"
            /\ pc' = "meta" /\ then' = IF Exists("root") THEN "carry" ELSE "file"
            /\ pins' = [pins EXCEPT ![target'] = Created(me.obj)]
            /\ me'.epoch = FreshEpoch /\ me'.prev = pins["root"].epoch
            /\ me'.text = me.text /\ me'.runtime = me.runtime /\ me'.new = me.new
        <4>1. me' = [me EXCEPT !.epoch = FreshEpoch, !.prev = pins["root"].epoch]
          BY <1>4, <2>3, Zenon DEF Open
        <4>2. /\ me'.epoch = FreshEpoch /\ me'.prev = pins["root"].epoch
              /\ me'.text = me.text /\ me'.runtime = me.runtime /\ me'.new = me.new
          BY ONLY <4>1, me \in Engine, Zenon DEF Engine
        <4>3. /\ target' = IF Exists("root") THEN "next" ELSE "root"
              /\ pc' = "meta" /\ then' = IF Exists("root") THEN "carry" ELSE "file"
              /\ pins' = [pins EXCEPT ![target'] = Created(me.obj)]
          BY <1>4, <2>3, SMT DEF Open
        <4> QED
          BY <4>2, <4>3, Zenon
      <3>2. Places'
        BY <1>4, <2>1, <3>1, SMT DEF Open
      <3>3. Promises'
        BY <1>4, <2>1, <3>1, SMT DEF Open
      <3> QED
        BY <3>2, <3>3, Zenon
    <2> QED
      BY <2>2, <2>3
  <1>5. CASE WriteMeta
    <2>1. Places'
      BY <1>5, SMT DEF WriteMeta
    <2>2. MemoryInv' /\ ArmedInv'
      BY <1>5, SMT DEF WriteMeta
    <2>3. BoundInv'
      BY <1>5, SMT DEF WriteMeta
    <2> QED
      BY <2>1, <2>2, <2>3, Zenon
  <1>6. CASE Protect
    <2>1. Places'
      BY <1>6, SMT DEF Protect
    <2>2. Promises'
      BY <1>6, SMT DEF Protect
    <2> QED
      BY <2>1, <2>2, Zenon
  <1>7. CASE Attach
    <2>1. CASE Programs \ pins[target].links = {} /\ pc' = then /\ UNCHANGED pins
      <3>1. pins[target].links = Programs
        <4>1. pins[target].links \in SUBSET Programs
          BY SMT
        <4> QED
          BY <2>1, <4>1, Zenon
      <3>2. Places'
        BY <1>7, <2>1, <3>1, SMT DEF Attach
      <3>3. Promises'
        BY <1>7, <2>1, SMT DEF Attach
      <3> QED
        BY <3>2, <3>3, Zenon
    <2>2. CASE \E l \in Programs : pins' = [pins EXCEPT ![target].links = @ \cup {l}] /\ UNCHANGED pc
      <3>1. Places'
        BY <1>7, <2>2, SMT DEF Attach
      <3>2. armed => Main = "root" /\ pins'["root"] = pins["root"] /\ Main' = Main
        BY <1>7, <2>2, SMT DEF Attach
      <3>3. Promises'
        BY <1>7, <2>2, SMT DEF Attach
      <3> QED
        BY <3>1, <3>3, Zenon
    <2> QED
      BY <1>7, <2>1, <2>2 DEF Attach
  <1>8. CASE Adopt
    <2>1. Places'
      BY <1>8, SMT DEF Adopt
    <2>2. Promises'
      BY <1>8, SMT DEF Adopt
    <2> QED
      BY <2>1, <2>2, Zenon
  <1>9. CASE Carry
    <2>1. CASE Migrates \/ policy_file
      <3> DEFINE r == IF Migrates THEN state.runtime ELSE {}
      <3>1. /\ pc' = "save" /\ me'.text = TRUE /\ me'.runtime = r /\ me'.new = me.new /\ me'.epoch = me.epoch
            /\ me'.prev = me.prev /\ pins'["root"] = pins["root"] /\ pins'["old"] = pins["old"]
            /\ pins'["next"].epoch = pins["next"].epoch /\ pins'["next"].links = pins["next"].links
            /\ pins'["next"].policy = TRUE /\ pins'["next"].guard = pins["next"].guard
            /\ pins'["next"].runtime = r
        <4>1. /\ me' = [me EXCEPT !.text = TRUE, !.runtime = r]
              /\ pins' = [pins EXCEPT !["next"].policy = TRUE, !["next"].runtime = r]
              /\ pc' = "save"
          BY <1>9, <2>1, Zenon DEF Carry
        <4> HIDE DEF r
        <4>2. /\ me'.text = TRUE /\ me'.runtime = r /\ me'.new = me.new /\ me'.epoch = me.epoch
              /\ me'.prev = me.prev
          BY <4>1, Zenon
        <4>3. /\ pins'["root"] = pins["root"] /\ pins'["old"] = pins["old"]
              /\ pins'["next"].epoch = pins["next"].epoch /\ pins'["next"].links = pins["next"].links
              /\ pins'["next"].guard = pins["next"].guard /\ pins'["next"].runtime = r
          BY <4>1, SMT
        <4>4. pins'["next"].policy = TRUE
          BY <4>1, Zenon
        <4> QED
          BY <4>1, <4>2, <4>3, <4>4, Zenon
      <3> HIDE DEF r
      <3>2. Places'
        BY <1>9, <2>1, <3>1, SMT DEF Carry
      <3>3. MemoryInv' /\ ArmedInv'
        BY <1>9, <2>1, <3>1, SMT DEF Carry
      <3>4. BoundInv'
        BY <1>9, <2>1, <3>1, SMT DEF Carry, Migrates, r
      <3> QED
        BY <3>2, <3>3, <3>4, Zenon
    <2>2. CASE StartRemoving("next", "down")
      <3>1. Places'
        BY <1>9, <2>2, SMT DEF Carry, StartRemoving
      <3>2. Promises'
        BY <1>9, <2>2, SMT DEF Carry, StartRemoving
      <3> QED
        BY <3>1, <3>2, Zenon
    <2> QED
      BY <1>9, <2>1, <2>2 DEF Carry
  <1>10. CASE SaveCarried
    <2>1. Places'
      BY <1>10, SMT DEF SaveCarried
    <2>2. Promises'
      BY <1>10, SMT DEF SaveCarried
    <2> QED
      BY <2>1, <2>2, Zenon
  <1>11. CASE Switch
    <2>1. Places'
      BY <1>11, SMT DEF Switch, Rename, StartRemoving, sensor
    <2>2. Promises'
      BY <1>11, SMT DEF Switch, Rename, StartRemoving, sensor
    <2> QED
      BY <2>1, <2>2, Zenon
  <1>12. CASE ApplyFile
    <2>1. Places'
      BY <1>12, SMT DEF ApplyFile
    <2>2. Promises'
      BY <1>12, SMT DEF ApplyFile
    <2> QED
      BY <2>1, <2>2, Zenon
  <1>13. CASE SaveRunning
    <2>1. Places'
      BY <1>13, SMT DEF SaveRunning
    <2>2. MemoryInv' /\ ArmedInv'
      BY <1>13, SMT DEF SaveRunning
    <2>3. /\ state'.epoch = pins["root"].epoch /\ state'.text = me.text /\ state'.runtime = me.runtime
          /\ me'.text = me.text /\ me'.runtime = me.runtime /\ Exists("root")
          /\ me.new # {} => me.text
      BY <1>13, SMT DEF SaveRunning
    <2>4. BoundInv'
      BY <1>13, <2>3, SMT DEF SaveRunning
    <2> QED
      BY <2>1, <2>2, <2>4, Zenon
  <1>14. CASE UninstallStep
    <2>1. Places'
      BY <1>14, SMT DEF UninstallStep, StartRemoving
    <2>2. Promises'
      BY <1>14, SMT DEF UninstallStep, StartRemoving
    <2> QED
      BY <2>1, <2>2, Zenon
  <1>15. CASE Bind
    <2>1. Places'
      BY <1>15, SMT DEF Bind
    <2>2. Promises'
      BY <1>15, SMT DEF Bind
    <2> QED
      BY <2>1, <2>2, Zenon
  <1>16. CASE Unbind
    <2>1. Places'
      BY <1>16, SMT DEF Unbind
    <2>2. Promises'
      BY <1>16, SMT DEF Unbind
    <2> QED
      BY <2>1, <2>2, Zenon
  <1>17. CASE Dies
    <2>1. Places'
      BY <1>17, SMT DEF Dies
    <2>2. Promises'
      BY <1>17, SMT DEF Dies
    <2> QED
      BY <2>1, <2>2, Zenon
  <1>18. CASE StartService
    <2>1. Places'
      BY <1>18, SMT DEF StartService, sensor
    <2>2. Promises'
      BY <1>18, SMT DEF StartService, sensor
    <2> QED
      BY <2>1, <2>2, Zenon
  <1>19. CASE Uninstall
    <2>1. Places'
      BY <1>19, SMT DEF Uninstall
    <2>2. Promises'
      BY <1>19, SMT DEF Uninstall
    <2> QED
      BY <2>1, <2>2, Zenon
  <1>20. CASE EditPolicy
    <2>1. Places'
      BY <1>20, SMT DEF EditPolicy, sensor
    <2>2. Promises'
      BY <1>20, SMT DEF EditPolicy, sensor
    <2> QED
      BY <2>1, <2>2, Zenon
  <1>21. CASE UNCHANGED vars
    BY <1>21, SMT DEF vars
  <1> QED
    BY <1>1, <1>2, <1>3, <1>4, <1>5, <1>6, <1>7, <1>8, <1>9, <1>10, <1>11,
       <1>12, <1>13, <1>14, <1>15, <1>16, <1>17, <1>18, <1>19, <1>20, <1>21 DEF Next, Step, Crash, Stop

-----------------------------------------------------------------------------
\* The invariant holds in every reachable state.
LEMMA Invariance == Spec => []IInv
  BY InitIInv, NextIInv, PTL DEF Spec

\* Once a sensor has served with a policy, every program stays attached to a set that
\* holds one, through any number of upgrades, crashes inside reconcile and
\* finish_replacement, and restarts with any object, until uninstall.
THEOREM AttachedThroughUpgrades == Spec => []NoGap
  <1>1. IInv => NoGap
    BY SMT DEF IInv, Promises, ArmedInv, NoGap, Covered, Enforces, Main, Dirs
  <1> QED
    BY <1>1, Invariance, PTL

\* A sensor that serves works on the one pin set there is, its own and fully attached.
THEOREM NothingLeftBehind == Spec => []NoOrphans
  <1>1. IInv => NoOrphans
    BY SMT DEF IInv, Places, ServingInv, NoOrphans, Serving
  <1> QED
    BY <1>1, Invariance, PTL

\* An acknowledged binding is enforced until it is ended, by the set in root or by the
\* one that takes its place, whose guard keeps the bound tasks from its pins and from a
\* sensor that serves, as long as no upgrade was cut off between saving what it carried
\* and the first rename.
THEOREM BindingsSurviveUpgrades == Spec => []BoundStayGoverned
  <1>1. IInv => BoundStayGoverned
    <2> SUFFICES ASSUME IInv, ~cut_off, NEW c \in bound
                 PROVE  /\ \E d \in Dirs : Enforces(d) /\ c \in pins[d].runtime
                        /\ GuardDenies(c, "unlink")
                        /\ pc \in Serving => GuardDenies(c, "signal")
      BY DEF BoundStayGoverned, Serving
    <2>1. Main \in Dirs /\ Enforces(Main) /\ c \in pins[Main].runtime
      BY SMT DEF IInv, Promises, ArmedInv, BoundInv, Main, Dirs
    <2>2. Guard \in pins[Main].links /\ pins[Main].policy
      BY <2>1, UpgradeAssumptions, SMT DEF Enforces, Guard, Programs
    <2>3. pc \in Serving => pins[Main].guard
      BY SMT DEF IInv, Places, SetsInv, ServingInv, Promises, ArmedInv, BoundInv, Main
    <2> QED
      BY <2>1, <2>2, <2>3 DEF GuardDenies
  <1> QED
    BY <1>1, Invariance, PTL

-----------------------------------------------------------------------------
(***************************************************************************)
(* Proofs about the heartbeat, for every set of timeouts, any number of    *)
(* starts and whatever delays and lost beats the timeouts have room for.   *)
(*                                                                         *)
(* Two bounds meet in the age a hook has read.  From below: no beat is     *)
(* younger than the time without a heartbeat thread (AgeInv).  From above: *)
(* while a thread beats, its last beat is as old as the sleeps since, one  *)
(* for every beat that failed and the current one (RoomInv).               *)
(***************************************************************************)
Ages == Nat \cup {Never}
Set == [beat : Ages, timeout : Timeouts \cup {0}, attached : BOOLEAN]
HookState == [pc : {"idle", "beat", "timeout", "decided"}, set : {"rk", "next"}, last : Ages,
              timeout : Timeouts \cup {0}, ran : Nat, served : BOOLEAN, alone : Nat, stale : BOOLEAN]

BeatTypeInv ==
  /\ trouble \in Troubles
  /\ sets \in [{"rk", "next"} -> Set]
  /\ main \in {"down", "config", "first", "up"}
  /\ on \in {"rk", "next"}
  /\ want \in Timeouts
  /\ slept \in Nat /\ away \in Nat /\ faults \in Nat
  /\ hook \in HookState

\* Who beats has stored its timeout, and has beaten.
BeatInv ==
  /\ main \in {"first", "up"} => want >= MIN_TIMEOUT /\ sets[on].timeout = want
  /\ Beating => away = 0 /\ sets[on].beat # Never
  /\ hook.pc # "idle" /\ hook.served => Beating /\ on = hook.set

\* A beat is at least as old as the time without a thread; away stops at MaxAge too.
AgeInv ==
  /\ away <= MaxAge
  /\ \A s \in {"rk", "next"} : sets[s].beat = Never \/ sets[s].beat >= away
  /\ hook.pc # "idle" => hook.alone <= MaxAge /\ (hook.last = Never \/ hook.last >= hook.alone)

\* The longest sleep between two beats.
Pause == interval + MaxLate

RoomInv ==
  /\ faults <= MaxFaults
  /\ Beating => slept <= Pause /\ sets[on].beat <= faults * Pause + slept
  /\ hook.pc # "idle" => hook.ran <= MaxHook
  /\ hook.pc # "idle" /\ hook.served =>
       hook.last # Never /\ hook.last <= (MaxFaults + 1) * Pause + hook.ran

DecidedInv ==
  /\ hook.pc = "timeout" /\ hook.served => hook.timeout = want
  /\ ServedIsFresh /\ AwayIsStale

HeartbeatInv == BeatTypeInv /\ BeatInv /\ AgeInv /\ RoomInv /\ DecidedInv
-----------------------------------------------------------------------------
\* The least of two numbers.
LEMMA MinOfTwo ==
  ASSUME NEW a \in Int, NEW b \in Int
  PROVE  Min({a, b}) = IF a <= b THEN a ELSE b
  <1> DEFINE P(x) == x \in {a, b} /\ \A y \in {a, b} : x <= y
  <1>1. Min({a, b}) = CHOOSE x : P(x)
    BY Zenon DEF Min
  <1>2. \E x : P(x)
    <2>1. CASE a <= b
      BY <2>1
    <2>2. CASE ~(a <= b)
      <3>1. P(b)
        BY <2>2
      <3> QED BY <3>1
    <2> QED BY <2>1, <2>2
  <1>3. P(Min({a, b}))
    BY <1>1, <1>2, Zenon
  <1> QED BY <1>3

\* No timeout is above the greatest.
LEMMA MaxTimeout == Max(Timeouts) \in Nat /\ \A t \in Timeouts : t <= Max(Timeouts)
  <1> DEFINE P(x) == x \in Timeouts /\ \A t \in Timeouts : x >= t
  <1>1. \E x : P(x)
    BY HeartbeatAssumption
  <1>2. Max(Timeouts) = CHOOSE x : P(x)
    BY Zenon DEF Max
  <1>3. P(Max(Timeouts))
    BY <1>1, <1>2, Zenon
  <1> QED BY <1>3, HeartbeatAssumption

\* An age grows by one, up to MaxAge.
LEMMA OlderFacts ==
  ASSUME NEW age \in Ages
  PROVE  /\ Older(age) \in Ages
         /\ Older(age) = Never <=> age = Never
         /\ Older(age) <= age + 1
         /\ \A n \in Nat : age >= n => Older(age) >= Min({n + 1, MaxAge})
         /\ \A n \in Nat : n <= MaxAge /\ age >= n => Older(age) >= n
  <1>1. MaxAge \in Nat
    BY MaxTimeout DEF MaxAge
  <1>2. age # Never => Older(age) = IF age + 1 <= MaxAge THEN age + 1 ELSE MaxAge
    BY <1>1, MinOfTwo DEF Older, Ages, Never
  <1>3. \A n \in Nat : Min({n + 1, MaxAge}) = IF n + 1 <= MaxAge THEN n + 1 ELSE MaxAge
    BY <1>1, MinOfTwo
  <1> QED BY <1>1, <1>2, <1>3 DEF Older, Ages, Never

\* A pause is a number of ticks, and one more failure takes one more.
LEMMA PauseFacts ==
  ASSUME BeatTypeInv, RoomInv
  PROVE  /\ Pause \in Nat /\ MaxFaults \in Nat /\ faults \in Nat
         /\ faults * Pause \in Nat /\ (MaxFaults + 1) * Pause \in Nat
         /\ (faults + 1) * Pause = faults * Pause + Pause
         /\ faults * Pause + Pause <= (MaxFaults + 1) * Pause
         /\ want >= MIN_TIMEOUT => (MaxFaults + 1) * Pause + MaxHook <= want
  <1>1. Pause \in Nat /\ MaxFaults \in Nat /\ faults \in Nat /\ faults <= MaxFaults
    BY HeartbeatAssumption DEF BeatTypeInv, RoomInv, Pause, interval, MaxLate, MaxFaults
  <1>2. \A m, n, p \in Nat : /\ m * p \in Nat /\ (m + 1) * p = m * p + p
                             /\ m <= n => m * p <= n * p
    OBVIOUS
  <1>3. want >= MIN_TIMEOUT => (MaxFaults + 1) * Pause + MaxHook <= want
    BY RoomAssumption DEF BeatTypeInv, Pause, interval, MaxLate, MaxFaults
  <1>4. faults + 1 \in Nat /\ MaxFaults + 1 \in Nat /\ faults + 1 <= MaxFaults + 1
    BY <1>1
  <1>5. faults * Pause \in Nat /\ (faults + 1) * Pause = faults * Pause + Pause
    BY <1>1, <1>2
  <1>6. (MaxFaults + 1) * Pause \in Nat /\ (faults + 1) * Pause <= (MaxFaults + 1) * Pause
    BY <1>1, <1>2, <1>4
  <1> QED BY <1>1, <1>3, <1>5, <1>6
-----------------------------------------------------------------------------
\* The first start finds no beat, and no hook runs.
LEMMA InitHeartbeat == HInit => HeartbeatInv
  <1> SUFFICES ASSUME HInit PROVE HeartbeatInv OBVIOUS
  <1> USE HeartbeatAssumption DEF HInit, NewSet, NoHook, Never
  <1>1. BeatTypeInv
    BY DEF BeatTypeInv, Set, HookState, Ages
  <1>2. MaxAge \in Nat
    BY MaxTimeout DEF MaxAge
  <1>3. BeatInv /\ AgeInv /\ DecidedInv
    BY <1>2 DEF BeatInv, AgeInv, DecidedInv, Beating, ServedIsFresh, AwayIsStale
  <1>4. RoomInv
    BY DEF RoomInv, Beating, MaxFaults
  <1> QED BY <1>1, <1>3, <1>4 DEF HeartbeatInv

\* The sensor's start up to its first beat, and its end: nobody beats before and, after
\* all but the last, a thread does, whose beat is new.
LEMMA StartStep ==
  ASSUME HeartbeatInv, OpenPins(FALSE) \/ OpenPins(TRUE) \/ WriteConfig \/ FirstBeat \/ Gone
  PROVE  HeartbeatInv'
  <1> USE HeartbeatAssumption DEF HeartbeatInv
  <1>0. MaxAge \in Nat
    BY MaxTimeout DEF MaxAge
  <1>1. ASSUME NEW b \in BOOLEAN, OpenPins(b) PROVE HeartbeatInv'
    <2> USE <1>1 DEF OpenPins
    <2>1. BeatTypeInv'
      BY DEF BeatTypeInv, Set, HookState, Ages, NewSet, Never
    <2>2. BeatInv'
      BY DEF BeatTypeInv, BeatInv, Beating
    <2>3. AgeInv'
      BY DEF BeatTypeInv, AgeInv, NewSet
    <2>4. RoomInv' /\ DecidedInv'
      BY DEF BeatTypeInv, BeatInv, RoomInv, DecidedInv, Beating, MaxFaults, ServedIsFresh, AwayIsStale
    <2> QED BY <2>1, <2>2, <2>3, <2>4
  <1>2. ASSUME WriteConfig PROVE HeartbeatInv'
    <2> USE <1>2 DEF WriteConfig
    <2>1. BeatTypeInv'
      BY DEF BeatTypeInv, Set
    <2>2. BeatInv'
      BY DEF BeatTypeInv, BeatInv, Beating, Set
    <2>3. AgeInv'
      BY DEF BeatTypeInv, AgeInv, Set
    <2>4. RoomInv' /\ DecidedInv'
      BY DEF BeatTypeInv, BeatInv, RoomInv, DecidedInv, Beating, MaxFaults, ServedIsFresh, AwayIsStale
    <2> QED BY <2>1, <2>2, <2>3, <2>4
  <1>3. ASSUME FirstBeat PROVE HeartbeatInv'
    <2> USE <1>3 DEF FirstBeat
    <2>1. BeatTypeInv'
      BY DEF BeatTypeInv, Set, Ages
    <2>2. BeatInv'
      BY DEF BeatTypeInv, BeatInv, Beating, Set, Never
    <2>3. AgeInv'
      BY <1>0 DEF BeatTypeInv, AgeInv, Set, Ages
    <2>4. sets'[on].beat = 0 /\ Pause' = Pause
      BY DEF BeatTypeInv, Set, Pause, interval, MaxLate
    <2>5. RoomInv'
      BY <2>4, PauseFacts DEF BeatTypeInv, BeatInv, RoomInv, Beating, MaxFaults
    <2>6. DecidedInv'
      BY DEF BeatTypeInv, DecidedInv, ServedIsFresh, AwayIsStale
    <2> QED BY <2>1, <2>2, <2>3, <2>5, <2>6
  <1>4. ASSUME Gone PROVE HeartbeatInv'
    <2> USE <1>4 DEF Gone
    <2>1. BeatTypeInv'
      BY DEF BeatTypeInv, HookState
    <2>2. BeatInv' /\ AgeInv'
      BY DEF BeatTypeInv, BeatInv, AgeInv, Beating, HookState
    <2>3. RoomInv' /\ DecidedInv'
      BY DEF BeatTypeInv, RoomInv, DecidedInv, Beating, MaxFaults, ServedIsFresh, AwayIsStale, HookState
    <2> QED BY <2>1, <2>2, <2>3
  <1> QED BY <1>1, <1>2, <1>3, <1>4

\* A running sensor: attaching and the switch move a set, a beat makes it new or fails.
LEMMA RunStep ==
  ASSUME HeartbeatInv, AttachPrograms \/ finish_replacement \/ Beat
  PROVE  HeartbeatInv'
  <1> USE HeartbeatAssumption DEF HeartbeatInv
  <1>1. ASSUME AttachPrograms PROVE HeartbeatInv'
    <2> USE <1>1 DEF AttachPrograms
    <2>1. BeatTypeInv'
      BY DEF BeatTypeInv, Set
    <2>2. \A s \in {"rk", "next"} : sets'[s].beat = sets[s].beat /\ sets'[s].timeout = sets[s].timeout
      BY DEF BeatTypeInv, Set
    <2>3. BeatInv' /\ AgeInv'
      BY <2>2 DEF BeatTypeInv, BeatInv, AgeInv, Beating
    <2>4. Pause' = Pause
      BY DEF Pause, interval, MaxLate
    <2>5. RoomInv' /\ DecidedInv'
      BY <2>2, <2>4 DEF BeatTypeInv, RoomInv, DecidedInv, Beating, MaxFaults, ServedIsFresh, AwayIsStale
    <2> QED BY <2>1, <2>3, <2>5
  <1>2. ASSUME finish_replacement PROVE HeartbeatInv'
    <2> USE <1>2 DEF finish_replacement
    <2>1. sets'["rk"] = sets["next"] /\ sets'["next"] = NewSet
      OBVIOUS
    <2>2. BeatTypeInv'
      <3>1. NewSet \in Set /\ sets["next"] \in Set
        BY DEF BeatTypeInv, NewSet, Set, Ages, Never
      <3>2. sets' \in [{"rk", "next"} -> Set]
        BY <3>1, <2>1
      <3>3. hook' \in HookState
        BY DEF BeatTypeInv, HookState
      <3> QED BY <3>2, <3>3 DEF BeatTypeInv
    <2>3. /\ hook'.pc = hook.pc /\ hook'.last = hook.last /\ hook'.served = hook.served
          /\ hook'.ran = hook.ran /\ hook'.alone = hook.alone /\ hook'.set = "rk"
          /\ hook'.timeout = hook.timeout /\ hook'.stale = hook.stale
      BY DEF BeatTypeInv, HookState
    <2>4. BeatInv' /\ AgeInv'
      BY <2>1, <2>3 DEF BeatTypeInv, BeatInv, AgeInv, Beating, NewSet
    <2>5. Pause' = Pause
      BY DEF Pause, interval, MaxLate
    <2>6. RoomInv' /\ DecidedInv'
      BY <2>1, <2>3, <2>5 DEF BeatTypeInv, RoomInv, DecidedInv, Beating, MaxFaults, ServedIsFresh, AwayIsStale
    <2> QED BY <2>2, <2>4, <2>6
  <1>3. ASSUME Beat PROVE HeartbeatInv'
    <2> USE <1>3 DEF Beat
    <2>1. BeatTypeInv'
      BY DEF BeatTypeInv, Set, Ages
    <2>2. /\ sets'[on].beat \in {0, sets[on].beat} /\ sets'[on].timeout = sets[on].timeout
          /\ \A s \in {"rk", "next"} : sets'[s].beat \in {0, sets[s].beat}
          /\ sets'[on].beat = 0 \/ faults' = faults + 1
          /\ faults' = faults \/ (faults' = faults + 1 /\ faults < MaxFaults)
      BY DEF BeatTypeInv, Set
    <2>3. BeatInv' /\ AgeInv'
      BY <2>2 DEF BeatTypeInv, BeatInv, AgeInv, Beating, Never
    <2>4. Pause' = Pause /\ MaxFaults' = MaxFaults
      BY DEF Pause, interval, MaxLate, MaxFaults
    <2>5. faults' \in Nat /\ faults' <= MaxFaults
      BY <2>2, PauseFacts DEF BeatTypeInv, RoomInv
    <2>6. sets'[on].beat <= faults' * Pause
      <3>1. CASE sets'[on].beat = 0
        <4>1. \A m, n \in Nat : m * n >= 0
          OBVIOUS
        <4> QED BY <3>1, <4>1, <2>5, PauseFacts
      <3>2. CASE sets'[on].beat = sets[on].beat /\ faults' = faults + 1
        BY <3>2, PauseFacts DEF BeatTypeInv, Set, Ages, RoomInv, Beating, Never
      <3> QED BY <2>2, <3>1, <3>2
    <2>7. RoomInv' /\ DecidedInv'
      BY <2>4, <2>5, <2>6, PauseFacts
      DEF BeatTypeInv, RoomInv, DecidedInv, Beating, ServedIsFresh, AwayIsStale, Set, Ages, Never
    <2> QED BY <2>1, <2>3, <2>7
  <1> QED BY <1>1, <1>2, <1>3

\* A tick makes every beat older, and what a hook has read.
LEMMA TickStep ==
  ASSUME HeartbeatInv, Tick
  PROVE  HeartbeatInv'
  <1> USE HeartbeatAssumption DEF HeartbeatInv, Tick
  <1>0. MaxAge \in Nat
    BY MaxTimeout DEF MaxAge
  <1>a. Min({away + 1, MaxAge}) = IF away + 1 <= MaxAge THEN away + 1 ELSE MaxAge
    <2>1. away + 1 \in Int /\ MaxAge \in Int
      BY <1>0 DEF BeatTypeInv
    <2> QED BY <2>1, MinOfTwo, Zenon
  <1>1. away' \in Nat /\ away' = IF Beating THEN 0 ELSE Min({away + 1, MaxAge})
    BY <1>0, <1>a DEF BeatTypeInv
  <1>2. ~Beating => away' <= MaxAge
    BY <1>0, <1>a DEF BeatTypeInv
  <1>3. \A s \in {"rk", "next"} : sets[s].beat \in Ages /\ sets[s] \in Set
    BY DEF BeatTypeInv, Set
  <1>4. \A s \in {"rk", "next"} : /\ sets'[s] = [sets[s] EXCEPT !.beat = Older(sets[s].beat)]
                                  /\ sets'[s].beat = Older(sets[s].beat)
                                  /\ sets'[s].timeout = sets[s].timeout
    BY DEF BeatTypeInv, Set
  <1>5. hook.pc # "idle" =>
          /\ hook.last \in Ages
          /\ hook'.last = Older(hook.last) /\ hook'.ran = hook.ran + 1
          /\ hook'.pc = hook.pc /\ hook'.served = hook.served /\ hook'.alone = hook.alone
          /\ hook'.set = hook.set /\ hook'.timeout = hook.timeout /\ hook'.stale = hook.stale
    BY DEF BeatTypeInv, HookState
  <1>6. hook.pc = "idle" => hook' = hook
    OBVIOUS
  <1>7. BeatTypeInv'
    <2>1. sets' \in [{"rk", "next"} -> Set]
      <3>1. \A s \in {"rk", "next"} : sets'[s] \in Set
        BY <1>3, <1>4, OlderFacts DEF Set
      <3>2. DOMAIN sets = {"rk", "next"}
        BY DEF BeatTypeInv
      <3> QED BY <3>1, <3>2
    <2>2. hook' \in HookState
      <3>1. CASE hook.pc = "idle"
        BY <3>1, <1>6 DEF BeatTypeInv
      <3>2. CASE hook.pc # "idle"
        <4>1. Older(hook.last) \in Ages /\ hook.ran + 1 \in Nat
          BY <3>2, <1>5, OlderFacts DEF BeatTypeInv, HookState
        <4> QED BY <3>2, <4>1 DEF BeatTypeInv, HookState
      <3> QED BY <3>1, <3>2
    <2> QED BY <1>1, <2>1, <2>2 DEF BeatTypeInv
  <1>8. BeatInv'
    BY <1>1, <1>3, <1>4, <1>5, <1>6, OlderFacts DEF BeatTypeInv, BeatInv, Beating
  <1>9. AgeInv'
    <2>1. away' <= MaxAge
      BY <1>0, <1>1, <1>2
    <2>2. ASSUME NEW s \in {"rk", "next"} PROVE sets'[s].beat = Never \/ sets'[s].beat >= away'
      <3>1. CASE sets[s].beat = Never
        BY <3>1, <1>3, <1>4, OlderFacts
      <3>2. CASE sets[s].beat # Never
        <4>1. sets[s].beat \in Nat /\ sets[s].beat >= away /\ away \in Nat
          BY <3>2, <1>3 DEF AgeInv, Ages, BeatTypeInv
        <4>2. Older(sets[s].beat) >= Min({away + 1, MaxAge}) /\ Older(sets[s].beat) >= 0
          BY <4>1, <1>0, <1>3, OlderFacts
        <4> QED BY <4>2, <1>1, <1>4
      <3> QED BY <3>1, <3>2
    <2>3. hook'.pc # "idle" => hook'.alone <= MaxAge /\ (hook'.last = Never \/ hook'.last >= hook'.alone)
      <3>1. hook.alone \in Nat
        BY DEF BeatTypeInv, HookState
      <3> QED BY <3>1, <1>5, <1>6, OlderFacts DEF AgeInv
    <2> QED BY <2>1, <2>2, <2>3 DEF AgeInv
  <1>10. RoomInv'
    <2>1. Pause' = Pause /\ MaxFaults' = MaxFaults /\ Beating' = Beating
      BY DEF Pause, interval, MaxLate, MaxFaults, Beating
    <2>2. Beating => slept' <= Pause /\ sets'[on].beat <= faults * Pause + slept'
      <3>1. Beating => slept' = slept + 1 /\ slept < Pause
        BY DEF Pause
      <3>2. sets'[on].beat <= sets[on].beat + 1 /\ sets'[on].beat \in Ages /\ sets[on].beat \in Ages
        BY <1>3, <1>4, OlderFacts DEF BeatTypeInv
      <3> QED BY <3>1, <3>2, PauseFacts DEF BeatTypeInv, RoomInv, Ages, Never
    <2>3. hook'.pc # "idle" => hook'.ran <= MaxHook
      BY <1>5, <1>6 DEF BeatTypeInv, HookState
    <2>4. hook'.pc # "idle" /\ hook'.served =>
            hook'.last # Never /\ hook'.last <= (MaxFaults + 1) * Pause + hook'.ran
      <3>1. hook.pc # "idle" => Older(hook.last) <= hook.last + 1 /\ Older(hook.last) \in Ages
                                  /\ (Older(hook.last) = Never <=> hook.last = Never)
        BY <1>5, OlderFacts
      <3>2. hook.ran \in Nat
        BY DEF BeatTypeInv, HookState
      <3> QED BY <3>1, <3>2, <1>5, <1>6, PauseFacts DEF RoomInv, Ages, Never
    <2> QED BY <2>1, <2>2, <2>3, <2>4 DEF RoomInv
  <1>11. DecidedInv'
    BY <1>5, <1>6 DEF DecidedInv, ServedIsFresh, AwayIsStale
  <1> QED BY <1>7, <1>8, <1>9, <1>10, <1>11

\* A hook reads beat, timeout and clock, and decides within the two bounds.
LEMMA HookStep ==
  ASSUME HeartbeatInv, Hook
  PROVE  HeartbeatInv'
  <1> USE HeartbeatAssumption DEF HeartbeatInv
  <1> DEFINE Same == UNCHANGED <<trouble, sets, main, on, want, slept, away, faults, starts>>
  <1>0. MaxAge \in Nat
    BY MaxTimeout DEF MaxAge
  <1>1. Same
    BY DEF Hook, HookReadsBeat, HookReadsTimeout, HookDecides, HookReturns
  <1> DEFINE Kept == hook' \in HookState /\ BeatInv' /\ AgeInv' /\ RoomInv' /\ DecidedInv'
  <1>2. SUFFICES Kept
    BY <1>1 DEF BeatTypeInv
  <1>3. Pause' = Pause /\ MaxFaults' = MaxFaults /\ Beating' = Beating
    BY <1>1 DEF Pause, interval, MaxLate, MaxFaults, Beating
  <1>4. ASSUME NEW s \in DOMAIN sets, HookReadsBeat(s) PROVE Kept
    <2>0. s \in {"rk", "next"} /\ sets[s] \in Set /\ sets[s].beat \in Ages
      BY <1>4 DEF BeatTypeInv, Set
    <2>1. /\ hook'.pc = "beat" /\ hook'.set = s /\ hook'.last = sets[s].beat /\ hook'.ran = 0
          /\ hook'.served = (Beating /\ on = s) /\ hook'.alone = away
      BY <1>4 DEF HookReadsBeat
    <2>2. hook' \in HookState
      BY <1>4, <2>0 DEF HookReadsBeat, HookState, BeatTypeInv, Beating
    <2>3. BeatInv' /\ AgeInv'
      BY <1>1, <1>3, <2>0, <2>1 DEF BeatInv, AgeInv, BeatTypeInv
    <2>4. RoomInv'
      <3>1. Beating /\ on = s => sets[s].beat # Never /\ sets[s].beat <= (MaxFaults + 1) * Pause
        <4> SUFFICES ASSUME Beating, on = s
                     PROVE  sets[s].beat # Never /\ sets[s].beat <= (MaxFaults + 1) * Pause
          OBVIOUS
        <4>1. sets[s].beat \in Nat
          BY <2>0 DEF BeatInv, Ages
        <4>2. sets[s].beat <= faults * Pause + slept /\ slept <= Pause /\ slept \in Nat
          BY DEF RoomInv, BeatTypeInv
        <4> QED BY <4>1, <4>2, PauseFacts DEF Never
      <3>2. (MaxFaults + 1) * Pause + 0 = (MaxFaults + 1) * Pause /\ 0 <= MaxHook
        BY PauseFacts
      <3> QED BY <1>1, <1>3, <2>1, <3>1, <3>2 DEF RoomInv
    <2>5. DecidedInv'
      BY <2>1 DEF DecidedInv, ServedIsFresh, AwayIsStale
    <2> QED BY <2>2, <2>3, <2>4, <2>5
  <1>5. ASSUME HookReadsTimeout PROVE Kept
    <2>0. hook.set \in {"rk", "next"} /\ sets[hook.set].timeout \in Timeouts \cup {0}
      BY DEF BeatTypeInv, Set, HookState
    <2>1. /\ hook.pc = "beat" /\ hook'.pc = "timeout" /\ hook'.timeout = sets[hook.set].timeout
          /\ hook'.set = hook.set /\ hook'.last = hook.last /\ hook'.ran = hook.ran
          /\ hook'.served = hook.served /\ hook'.alone = hook.alone
      BY <1>5 DEF HookReadsTimeout, BeatTypeInv, HookState
    <2>2. hook' \in HookState
      BY <1>5, <2>0 DEF HookReadsTimeout, HookState, BeatTypeInv
    <2>3. BeatInv' /\ AgeInv' /\ RoomInv'
      BY <1>1, <1>3, <2>1 DEF BeatInv, AgeInv, RoomInv
    <2>4. DecidedInv'
      BY <1>1, <2>1 DEF BeatInv, DecidedInv, Beating, ServedIsFresh, AwayIsStale
    <2> QED BY <2>2, <2>3, <2>4
  <1>6. ASSUME HookDecides PROVE Kept
    <2>1. /\ hook.pc = "timeout" /\ hook'.pc = "decided" /\ hook'.stale = stale(hook.last, hook.timeout)
          /\ hook'.set = hook.set /\ hook'.last = hook.last /\ hook'.ran = hook.ran
          /\ hook'.served = (hook.served /\ Beating /\ on = hook.set) /\ hook'.alone = hook.alone
      BY <1>6 DEF HookDecides, BeatTypeInv, HookState
    <2>2. hook' \in HookState
      BY <1>6 DEF HookDecides, HookState, BeatTypeInv, stale, Beating
    <2>3. BeatInv' /\ AgeInv' /\ RoomInv'
      BY <1>1, <1>3, <2>1 DEF BeatInv, AgeInv, RoomInv
    <2>4. hook.served /\ Beating => ~stale(hook.last, hook.timeout)
      <3> SUFFICES ASSUME hook.served, Beating PROVE ~stale(hook.last, hook.timeout)
        OBVIOUS
      <3>1. hook.timeout = want /\ want >= MIN_TIMEOUT
        BY <2>1 DEF DecidedInv, BeatInv, Beating
      <3>2. hook.last # Never /\ hook.last <= (MaxFaults + 1) * Pause + hook.ran /\ hook.ran <= MaxHook
        BY <2>1 DEF RoomInv
      <3>3. hook.last \in Ages /\ hook.ran \in Nat /\ want \in Nat
        BY DEF BeatTypeInv, HookState
      <3>4. hook.last <= want
        BY <3>1, <3>2, <3>3, PauseFacts DEF Ages, Never
      <3> QED BY <3>1, <3>2, <3>3, <3>4 DEF stale, Ages
    <2>5. hook.alone > Max(Timeouts) => stale(hook.last, hook.timeout)
      <3>1. hook.alone \in Nat /\ hook.last \in Ages /\ hook.timeout \in Timeouts \cup {0}
        BY DEF BeatTypeInv, HookState
      <3>2. hook.timeout \in Nat /\ hook.timeout <= Max(Timeouts)
        <4>1. CASE hook.timeout = 0
          BY <4>1, MaxTimeout
        <4>2. CASE hook.timeout \in Timeouts
          BY <4>2, MaxTimeout
        <4> QED BY <3>1, <4>1, <4>2
      <3> QED BY <3>1, <3>2, <2>1, MaxTimeout DEF AgeInv, stale, Ages
    <2> QED BY <2>1, <2>2, <2>3, <2>4, <2>5 DEF DecidedInv, ServedIsFresh, AwayIsStale
  <1>7. ASSUME HookReturns PROVE Kept
    <2>1. hook' = NoHook
      BY <1>7 DEF HookReturns
    <2>2. hook' \in HookState
      BY <2>1 DEF HookState, NoHook, Ages
    <2>3. BeatInv' /\ AgeInv' /\ RoomInv' /\ DecidedInv'
      BY <1>1, <1>3, <2>1 DEF NoHook, BeatInv, AgeInv, RoomInv, DecidedInv, ServedIsFresh, AwayIsStale
    <2> QED BY <2>2, <2>3
  <1> QED BY <1>4, <1>5, <1>6, <1>7 DEF Hook

\* Every step keeps the invariant.
LEMMA HeartbeatStep == HeartbeatInv /\ [HNext]_hvars => HeartbeatInv'
  <1> SUFFICES ASSUME HeartbeatInv, [HNext]_hvars PROVE HeartbeatInv' OBVIOUS
  <1>1. CASE HNext
    BY <1>1, StartStep, RunStep, TickStep, HookStep DEF HNext, Sensor
  <1>2. CASE UNCHANGED hvars
    BY <1>2 DEF hvars, HeartbeatInv, BeatTypeInv, BeatInv, AgeInv, RoomInv, DecidedInv, Beating, Pause, interval,
       MaxLate, MaxFaults, ServedIsFresh, AwayIsStale
  <1> QED BY <1>1, <1>2

\* The inductive invariant holds throughout.
LEMMA HeartbeatInvariance == HSpec => []HeartbeatInv
  BY InitHeartbeat, HeartbeatStep, PTL DEF HSpec
-----------------------------------------------------------------------------
\* No hook denies for a stale heartbeat while a sensor beats on its set: for any
\* timeouts, and all late wake-ups and failed writes that RoomAssumption has room for.
THEOREM BeatsInTime == HSpec => []ServedIsFresh
  <1>1. HeartbeatInv => ServedIsFresh
    BY DEF HeartbeatInv, DecidedInv
  <1> QED BY <1>1, HeartbeatInvariance, PTL

\* Once no sensor has beaten for longer than every timeout, rk_heartbeat_stale says so,
\* whatever sensors started and went in between.
THEOREM FailsClosed == HSpec => []AwayIsStale
  <1>1. HeartbeatInv => AwayIsStale
    BY DEF HeartbeatInv, DecidedInv
  <1> QED BY <1>1, HeartbeatInvariance, PTL
=============================================================================
