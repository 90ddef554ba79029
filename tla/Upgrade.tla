------------------------------- MODULE Upgrade -------------------------------
(***************************************************************************)
(* Pin sets and their replacement: pins.rs and the part of run_daemon that *)
(* starts a sensor on them.                                                *)
(*                                                                         *)
(* A pin set is a bpffs directory.  Its pinned links keep the programs     *)
(* attached and its pinned maps keep the policy, with no sensor running.   *)
(* A sensor built from another object loads beside the running set and     *)
(* takes its place by two renames and a removal.  Every file system        *)
(* operation is a step, remove_dir_all a step per entry, and the sensor    *)
(* may die between any two.                                                *)
(***************************************************************************)
EXTENDS Integers

CONSTANTS
  Objects,        \* builds of rk.bpf.o
  NPrograms,      \* how many programs an object attaches
  Cgroups,        \* cgroups bound at run time (agents, containers, quarantine)
  MaxCrashes,     \* bound on crashes, stops and uninstalls
  MaxEdits        \* bound on changes of the policy file

ASSUME UpgradeAssumptions ==
  /\ NPrograms \in Nat \ {0} /\ MaxCrashes \in Nat /\ MaxEdits \in Nat

VARIABLES
  pins,         \* directory -> the pin set there, or Absent
  state,        \* the engine state file
  policy_file,  \* whether the policy file can be read and applied
  wanted,       \* whether the service is started, and so restarted on failure
  pc,           \* where the sensor stands; "down" when none runs
  target,       \* the directory being removed, or the one the sensor loads into
  then,         \* where to go on once `target` is removed
  me,           \* the running sensor: its object and epoch, the epoch it replaces, and
                \* the engine's policy text and runtime bindings, the newest apart
  bound,        \* history: cgroups whose binding was acknowledged and not ended
  cut_off,      \* history: a sensor died between saving what it carried and switching
  armed,        \* history: a sensor has served with a policy, and was not uninstalled
  crashes, edits

vars == <<pins, state, policy_file, wanted, pc, target, then, me, bound, cut_off, armed, crashes, edits>>
sensor == <<pc, target, then, me>>
operator == <<policy_file, wanted>>

\* The guard's programs are attached last.
Programs == 1..NPrograms
Guard == NPrograms
Dirs == {"root", "next", "old"}
Absent == [obj |-> "none", epoch |-> -1, links |-> {}, policy |-> FALSE, runtime |-> {}, guard |-> FALSE]
NoState == [epoch |-> -1, text |-> FALSE, runtime |-> {}]
Nobody == [obj |-> "none", epoch |-> -1, prev |-> -1, text |-> FALSE, runtime |-> {}, new |-> {}]

Exists(d) == pins[d] # Absent
HoldsLinks(d) == pins[d].links # {}

\* A pin set as create_layout leaves it: rk_meta reads as epoch 0.
Created(obj) == [Absent EXCEPT !.obj = obj, !.epoch = 0]

\* A random epoch: different from every one still written down.
FreshEpoch == CHOOSE e \in 1..3 : e # state.epoch /\ \A d \in Dirs : e # pins[d].epoch

Init ==
  /\ pins = [d \in Dirs |-> Absent]
  /\ state = NoState
  /\ policy_file \in BOOLEAN /\ wanted = FALSE
  /\ pc = "down" /\ target = "root" /\ then = "down" /\ me = Nobody
  /\ bound = {} /\ cut_off = FALSE /\ armed = FALSE /\ crashes = 0 /\ edits = 0
-----------------------------------------------------------------------------
(* File system operations *)

Rename(from, to) == pins' = [pins EXCEPT ![to] = pins[from], ![from] = Absent]

\* remove_dir_all unlinks the entries in the order readdir gives them.
RemoveStep ==
  /\ pc = "remove"
  /\ \/ /\ \E l \in pins[target].links : pins' = [pins EXCEPT ![target].links = @ \ {l}]
        /\ UNCHANGED sensor
     \/ /\ pins[target].epoch > 0
        /\ pins' = [pins EXCEPT ![target].epoch = 0]
        /\ UNCHANGED sensor
     \/ /\ ~HoldsLinks(target) /\ pins[target].epoch <= 0
        /\ pins' = [pins EXCEPT ![target] = Absent]
        /\ pc' = then
        /\ UNCHANGED <<target, then, me>>
  /\ UNCHANGED <<state, operator, bound, cut_off, armed, crashes, edits>>

StartRemoving(d, next) == pc' = "remove" /\ target' = d /\ then' = next /\ UNCHANGED <<pins, me>>
-----------------------------------------------------------------------------
(* A sensor starts: reconcile, then open *)

\* systemctl start.
StartService ==
  /\ pc = "down" /\ ~wanted
  /\ wanted' = TRUE
  /\ UNCHANGED <<pins, state, policy_file, sensor, bound, cut_off, armed, crashes, edits>>

Start ==
  /\ pc = "down" /\ wanted
  /\ \E o \in Objects : me' = [Nobody EXCEPT !.obj = o]
  /\ pc' = "reconcile"
  /\ UNCHANGED <<pins, state, operator, target, then, bound, cut_off, armed, crashes, edits>>

\* reconcile with `<root>-old` present.
ReconcileOld ==
  IF Exists("root") THEN StartRemoving("old", "reconcile")
  ELSE /\ IF Exists("next") THEN Rename("next", "root") ELSE Rename("old", "root")
       /\ UNCHANGED sensor

\* Mutant: a partial replacement beside a running set is left alone.
ReconcileKeepsNext ==
  IF ~Exists("root") THEN Rename("next", "root") /\ UNCHANGED sensor
  ELSE ~HoldsLinks("root") /\ HoldsLinks("next") /\ StartRemoving("root", "reconcile")

\* reconcile with `<root>-next` and no `<root>-old`.
ReconcileNext ==
  IF ~Exists("root") THEN Rename("next", "root") /\ UNCHANGED sensor
  ELSE IF ~HoldsLinks("root") /\ HoldsLinks("next") THEN StartRemoving("root", "reconcile")
  ELSE StartRemoving("next", "reconcile")

Reconcile ==
  /\ pc = "reconcile"
  /\ \/ Exists("old") /\ ReconcileOld
     \/ ~Exists("old") /\ Exists("next") /\ ReconcileNext
  /\ UNCHANGED <<state, operator, bound, cut_off, armed, crashes, edits>>

\* open, once reconcile has nothing left to do: adopt the set of the same
\* object, or create one, beside a set of another object or one whose rk_meta
\* was never written.
Open ==
  /\ pc = "reconcile" /\ ~Exists("old") /\ ~Exists("next")
  /\ LET adopted == Exists("root") /\ pins["root"].epoch > 0 /\ pins["root"].obj = me.obj
         dir == IF Exists("root") /\ ~adopted THEN "next" ELSE "root"
     IN  /\ target' = dir
         /\ IF adopted
            THEN /\ me' = [me EXCEPT !.epoch = pins["root"].epoch]
                 /\ pc' = "protect" /\ then' = "adopt"
                 /\ UNCHANGED pins
            ELSE /\ pins' = [pins EXCEPT ![dir] = Created(me.obj)]
                 /\ me' = [me EXCEPT !.epoch = FreshEpoch, !.prev = pins["root"].epoch]
                 /\ pc' = "meta" /\ then' = IF dir = "next" THEN "carry" ELSE "file"
  /\ UNCHANGED <<state, operator, bound, cut_off, armed, crashes, edits>>

\* The object is loaded, its maps pinned, and rk_meta written.
WriteMeta ==
  /\ pc = "meta"
  /\ pins' = [pins EXCEPT ![target].epoch = me.epoch]
  /\ pc' = "protect"
  /\ UNCHANGED <<state, operator, target, then, me, bound, cut_off, armed, crashes, edits>>

\* protect_self: rk_guard of the set names this process by pid and start time.
Protect ==
  /\ pc = "protect"
  /\ pins' = [pins EXCEPT ![target].guard = TRUE]
  /\ pc' = "attach"
  /\ UNCHANGED <<state, operator, target, then, me, bound, cut_off, armed, crashes, edits>>

\* attach_*: the programs in order, skipping the links already pinned.
Attach ==
  /\ pc = "attach"
  /\ LET missing == Programs \ pins[target].links
     IN  \/ missing = {} /\ pc' = then /\ UNCHANGED pins
         \/ \E l \in missing :
              /\ \A m \in missing : l <= m
              /\ pins' = [pins EXCEPT ![target].links = @ \cup {l}]
              /\ UNCHANGED pc
  /\ UNCHANGED <<state, operator, target, then, me, bound, cut_off, armed, crashes, edits>>
-----------------------------------------------------------------------------
(* The engine takes over, or carries the policy into the new set *)

\* adopt: the state file when it belongs to this set, otherwise what the maps
\* hold; the result is saved.
Adopt ==
  /\ pc = "adopt"
  /\ LET mine == state.epoch = me.epoch
         runtime == IF mine THEN state.runtime ELSE pins["root"].runtime
         text == mine /\ state.text
     IN  /\ me' = [me EXCEPT !.text = text, !.runtime = runtime]
         /\ state' = [epoch |-> me.epoch, text |-> text, runtime |-> runtime]
  /\ pc' = "file"
  /\ UNCHANGED <<pins, operator, target, then, bound, cut_off, armed, crashes, edits>>

Migrates == state.epoch = me.prev /\ state.text

\* Mutant: the stored bindings are not carried.
CarryPolicyOnly ==
  /\ pc = "carry"
  /\ IF Migrates \/ policy_file
     THEN /\ pins' = [pins EXCEPT !["next"].policy = TRUE]
          /\ me' = [me EXCEPT !.text = TRUE]
          /\ pc' = "save" /\ UNCHANGED <<target, then>>
     ELSE StartRemoving("next", "down")
  /\ UNCHANGED <<state, operator, bound, cut_off, armed, crashes, edits>>

\* migrate, or else the policy file, written into the new maps by apply_text.
\* When neither can be, abort_replacement, and the sensor exits.
Carry ==
  /\ pc = "carry"
  /\ \/ /\ Migrates \/ policy_file
        /\ LET runtime == IF Migrates THEN state.runtime ELSE {}
           IN  /\ pins' = [pins EXCEPT !["next"].policy = TRUE, !["next"].runtime = runtime]
               /\ me' = [me EXCEPT !.text = TRUE, !.runtime = runtime]
        /\ pc' = "save"
        /\ UNCHANGED <<target, then>>
     \/ /\ ~Migrates /\ ~policy_file
        /\ StartRemoving("next", "down")
  /\ UNCHANGED <<state, operator, bound, cut_off, armed, crashes, edits>>

\* persist, under the epoch of the new set.
SaveCarried ==
  /\ pc = "save"
  /\ state' = [epoch |-> me.epoch, text |-> TRUE, runtime |-> me.runtime]
  /\ pc' = "switch"
  /\ UNCHANGED <<pins, operator, target, then, me, bound, cut_off, armed, crashes, edits>>

\* Mutant: the old set is removed before the new one is in place.
SwitchRemoveFirst ==
  /\ pc = "switch"
  /\ \/ Exists("root") /\ StartRemoving("root", "switch")
     \/ ~Exists("root") /\ Rename("next", "root") /\ pc' = "file" /\ UNCHANGED <<target, then, me>>
  /\ UNCHANGED <<state, operator, bound, cut_off, armed, crashes, edits>>

\* Mutant: the old set is left where it was moved.
SwitchKeepsOld ==
  /\ pc = "switch"
  /\ \/ Exists("root") /\ Exists("next") /\ Rename("root", "old") /\ UNCHANGED sensor
     \/ ~Exists("root") /\ Rename("next", "root") /\ pc' = "file" /\ UNCHANGED <<target, then, me>>
  /\ UNCHANGED <<state, operator, bound, cut_off, armed, crashes, edits>>

\* finish_replacement: the old set aside, the new one in place, the old removed.
Switch ==
  /\ pc = "switch"
  /\ \/ /\ Exists("root") /\ Exists("next")
        /\ Rename("root", "old")
        /\ UNCHANGED sensor
     \/ /\ ~Exists("root")
        /\ Rename("next", "root")
        /\ UNCHANGED sensor
     \/ /\ Exists("root") /\ ~Exists("next")
        /\ StartRemoving("old", "file")
  /\ UNCHANGED <<state, operator, bound, cut_off, armed, crashes, edits>>

\* The policy file is applied, then saved; one that is missing or rejected
\* leaves the active policy.
ApplyFile ==
  /\ pc = "file"
  /\ IF policy_file
     THEN /\ pins' = [pins EXCEPT !["root"].policy = TRUE, !["root"].runtime = me.runtime]
          /\ me' = [me EXCEPT !.text = TRUE]
          /\ pc' = "saving"
     ELSE UNCHANGED <<pins, me>> /\ pc' = "run"
  /\ UNCHANGED <<state, operator, target, then, bound, cut_off, armed, crashes, edits>>
-----------------------------------------------------------------------------
(* A running sensor *)

\* A runtime binding, which names a profile of the engine's policy, is written to
\* the map, then saved, then acknowledged.
Bind ==
  /\ pc = "run" /\ me.text
  /\ \E c \in Cgroups \ me.runtime :
       /\ pins' = [pins EXCEPT !["root"].runtime = @ \cup {c}]
       /\ me' = [me EXCEPT !.runtime = @ \cup {c}, !.new = {c}]
  /\ pc' = "saving"
  /\ UNCHANGED <<state, operator, target, then, bound, cut_off, armed, crashes, edits>>

Unbind ==
  /\ pc = "run"
  /\ \E c \in me.runtime :
       /\ pins' = [pins EXCEPT !["root"].runtime = @ \ {c}]
       /\ me' = [me EXCEPT !.runtime = @ \ {c}]
       /\ bound' = bound \ {c}
  /\ pc' = "saving"
  /\ UNCHANGED <<state, operator, target, then, cut_off, armed, crashes, edits>>

SaveRunning ==
  /\ pc = "saving"
  /\ state' = [epoch |-> me.epoch, text |-> me.text, runtime |-> me.runtime]
  /\ bound' = bound \cup me.new
  /\ me' = [me EXCEPT !.new = {}]
  /\ armed' = TRUE
  /\ pc' = "run"
  /\ UNCHANGED <<pins, operator, target, then, cut_off, crashes, edits>>

\* The process ends, wherever it stands.  No later process has its pid and its
\* start time, so no set's rk_guard names a running one.
Dies ==
  /\ pc # "down" /\ crashes < MaxCrashes
  /\ cut_off' = (cut_off \/ (pc = "switch" /\ Exists("root") /\ Exists("next")))
  /\ crashes' = crashes + 1
  /\ pc' = "down" /\ target' = "root" /\ then' = "down" /\ me' = Nobody
  /\ pins' = [d \in Dirs |-> [pins[d] EXCEPT !.guard = FALSE]]
  /\ UNCHANGED <<state, policy_file, bound, armed, edits>>

\* It is killed, or gives up on an error of a step.
Crash == Dies /\ UNCHANGED wanted

\* systemctl stop: SIGTERM, and SIGKILL if it takes too long.
Stop == wanted /\ Dies /\ wanted' = FALSE

\* rk-sensor --uninstall, once the service is stopped.
Uninstall ==
  /\ pc = "down" /\ ~wanted /\ crashes < MaxCrashes
  /\ crashes' = crashes + 1
  /\ pc' = "uninstall"
  /\ bound' = {} /\ armed' = FALSE
  /\ UNCHANGED <<pins, state, operator, target, then, me, cut_off, edits>>

UninstallStep ==
  /\ pc = "uninstall"
  /\ IF \A d \in Dirs : ~Exists(d) THEN pc' = "down" /\ UNCHANGED <<pins, target, then, me>>
     ELSE StartRemoving(IF Exists("next") THEN "next" ELSE IF Exists("old") THEN "old" ELSE "root",
                        "uninstall")
  /\ UNCHANGED <<state, operator, bound, cut_off, armed, crashes, edits>>

\* The operator repairs, breaks or removes the policy file.
EditPolicy ==
  /\ edits < MaxEdits
  /\ edits' = edits + 1
  /\ policy_file' = ~policy_file
  /\ UNCHANGED <<pins, state, wanted, sensor, bound, cut_off, armed, crashes>>

Step ==
  \/ RemoveStep \/ Start \/ Reconcile \/ Open \/ WriteMeta \/ Protect \/ Attach \/ Adopt \/ Carry
  \/ SaveCarried \/ Switch \/ ApplyFile \/ SaveRunning \/ UninstallStep

Next == Step \/ Bind \/ Unbind \/ Crash \/ Stop \/ StartService \/ Uninstall \/ EditPolicy

Spec == Init /\ [][Next]_vars

\* The service manager restarts a sensor that fails (Restart=on-failure), but not one
\* that was stopped; a running one goes on.
FairSpec == Spec /\ WF_vars(Step)
-----------------------------------------------------------------------------
Enforces(d) == pins[d].policy /\ pins[d].links = Programs

\* guard.bpf.c, for a task of a cgroup c that was bound to an enforcing profile: the
\* hooks on pins ask only whether the task is governed, those on signals and
\* ptrace also whether the target is the process in rk_guard (rk_is_sensor).
GuardDenies(c, hook) ==
  \E d \in Dirs :
    /\ Guard \in pins[d].links /\ pins[d].policy /\ c \in pins[d].runtime
    /\ hook \in {"signal", "ptrace"} => pins[d].guard

Covered == \A l \in Programs : \E d \in Dirs : pins[d].policy /\ l \in pins[d].links

\* "At no point is neither set attached": once a sensor has served with a policy,
\* every program stays attached to a set that holds one, through upgrades, crashes
\* inside reconcile and finish_replacement, and restarts with either object, until
\* uninstall.
NoGap == armed => Covered

\* A sensor that serves works on the one pin set there is, fully attached: no
\* interrupted replacement leaves programs behind that nobody renews the heartbeat of.
NoOrphans ==
  pc \in {"file", "run", "saving"} =>
    /\ ~Exists("next") /\ ~Exists("old")
    /\ pins["root"].epoch = me.epoch /\ pins["root"].links = Programs

\* An acknowledged runtime binding (an agent, a container, a quarantine) is enforced
\* until it is ended, by the running set or by the one that replaces it: its tasks
\* can never remove a pin, nor signal a sensor that serves.  That is as long as no
\* sensor died between saving what it carried over and switching to it.
BoundStayGoverned ==
  ~cut_off =>
    \A c \in bound :
      /\ \E d \in Dirs : Enforces(d) /\ c \in pins[d].runtime
      /\ GuardDenies(c, "unlink")
      /\ pc \in {"file", "run", "saving"} => GuardDenies(c, "signal")

\* "Static and dynamic bindings and quarantine are applied to the new maps", and a
\* sensor that dies before the switch "starts over" (docs/design/phase-10.md): no
\* upgrade loses an acknowledged binding, wherever it was interrupted.
InterruptedUpgradeCarries ==
  \A c \in bound : \E d \in Dirs : Enforces(d) /\ c \in pins[d].runtime

\* With a policy file that can be applied, a service that is started and not stopped
\* comes up, whatever directories the sensors before it left behind.
ComesUp == <>[](policy_file /\ wanted) => <>[](pc \in {"run", "saving"})
=============================================================================
