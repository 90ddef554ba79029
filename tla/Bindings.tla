------------------------------ MODULE Bindings ------------------------------
(***************************************************************************)
(* Which cgroup is governed by which profile: the bindings half of         *)
(* PolicyEngine, from the commit point of an apply on.                     *)
(*                                                                         *)
(* Slot contents are replaced atomically here (module SlotApply shows that *)
(* they are), so the kernel side is the live policy's profile ids, the     *)
(* binding map and the governed_levels mask.  Every operation changes the  *)
(* kernel first, then saves the state file, then publishes the mask.  On a *)
(* host where StateMayLag holds, the sensor may die between any two of     *)
(* these, and a save may fail, which the code only logs.                   *)
(*                                                                         *)
(* A cgroup stands for its id and its path.  An agent's cgroup is created  *)
(* for the agent, a container's by its runtime, a static one by the apply  *)
(* that binds it; ids are not reused, so a removed cgroup stays gone.      *)
(***************************************************************************)
EXTENDS Integers, Sequences, FiniteSets

CONSTANTS
  Cgroups,            \* cgroup ids
  Hosts,              \* the hosts considered, see the definitions over host below
  AllowDelegated,     \* allow_delegated_cgroups
  MaxDepth,           \* RK_CGROUP_MAX_DEPTH
  Names,              \* profile names, without the built-in one
  Quarantine,         \* the built-in quarantine profile's name
  MaxProfiles,        \* MAX_PROFILES: profile ids an allocator may hand out
  CapBindings,        \* CAP_BINDINGS, max_entries of rk_cgroup_profile
  NoPolicy            \* no policy applied yet

None == -1
Ids == 0..(MaxProfiles - 1)
AllNames == Names \cup {Quarantine}
NoName == "none"

\* What the sensor keeps in memory and in its state file, on host h.
Engines(h) ==
  [ids : [AllNames -> Nat \cup {None}], policy : h.policies \cup {NoPolicy},
   bindings : [Cgroups -> Nat \cup {None}], pathless : SUBSET Cgroups,
   quarantined : SUBSET Cgroups, dynamic : [Cgroups -> Names \cup {NoName}],
   adopted : [Cgroups -> Nat \cup {None}]]

\* A policy names each of its profiles once and binds cgroups to these only.
PolicyOK(pol) ==
  /\ pol.profiles \in Seq(Names)
  /\ \A i, j \in DOMAIN pol.profiles : pol.profiles[i] = pol.profiles[j] => i = j
  /\ DOMAIN pol.static \subseteq Cgroups
  /\ \A c \in DOMAIN pol.static : \E i \in DOMAIN pol.profiles : pol.profiles[i] = pol.static[c]

ASSUME BindingAssumptions ==
  /\ MaxProfiles \in Nat /\ CapBindings \in Nat /\ MaxDepth \in Nat
  /\ IsFiniteSet(Cgroups) /\ IsFiniteSet(Names)
  /\ NoName \notin AllNames /\ Quarantine \notin Names /\ AllowDelegated \in BOOLEAN
  /\ \A h \in Hosts :
       /\ h.agents \subseteq Cgroups /\ h.containers \subseteq Cgroups \ h.agents
       /\ h.delegated \subseteq h.containers
       /\ h.level \in [Cgroups -> Nat \ {0}]
       /\ NoPolicy \notin h.policies \cup Engines(h)
       /\ \A pol \in h.policies : PolicyOK(pol)
       /\ h.lag \in BOOLEAN /\ h.loss \in BOOLEAN

VARIABLES
  host,       \* the host the behaviour takes place on
  life,       \* of each cgroup: unborn, alive or gone
  kbind,      \* kernel: rk_cgroup_profile, cgroup -> profile id
  kprof,      \* kernel: profile id -> name, of the live slot
  klevels,    \* kernel: governed_levels
  mask_old,   \* whether the last write of governed_levels failed
  engine,     \* sensor: the PolicyEngine fields that the state file keeps
  pc,         \* sensor: where the current operation stands
  wanted,     \* sensor: the bindings sync_bindings still has to write
  failed,     \* sensor: cgroups whose binding the last sync_bindings could not write
  saved,      \* the state file
  meant,      \* history: the profile name each kernel binding was written for
  confined,   \* history: cgroups put in quarantine that must still be held there
  contested,  \* history: workloads that release has given the policy's profile
  adoptees,   \* history: cgroups found bound without a state file, not yet attributed
  lost        \* history: a restart found no usable state file

mask == <<klevels, mask_old>>
kernel == <<kbind, kprof, mask>>
marks == <<confined, contested, adoptees, lost>>
history == <<meant, marks>>
vars == <<host, life, kernel, engine, pc, wanted, failed, saved, history>>

Agents == host.agents           \* cgroups that agents are started in
Containers == host.containers   \* cgroups that container runtimes create
Delegated == host.delegated     \* those whose subtree the workload may write (is_delegated)
LevelOf == host.level           \* the depth of each cgroup below the cgroup root
Policies == host.policies       \* policy texts: [profiles : Seq(Names), static : cgroup -> name]
StateMayLag == host.lag         \* a crash or a failed save may leave the state file behind
StateLoss == host.loss          \* a restart may find no usable state file

Unbound == [c \in Cgroups |-> None]

\* PolicyEngine::new.
NewEngine ==
  [ids |-> [n \in AllNames |-> None], policy |-> NoPolicy, bindings |-> Unbound,
   pathless |-> {}, quarantined |-> {}, dynamic |-> [c \in Cgroups |-> NoName],
   adopted |-> Unbound]

Bound(b) == {c \in Cgroups : b[c] # None}
Alive == {c \in Cgroups : life[c] = "alive"}
Dynamic(e) == {c \in Cgroups : e.dynamic[c] # NoName}

\* The profiles of a policy in id order: the quarantine profile comes last.
Profiles(pol) == Append(pol.profiles, Quarantine)

\* Mutant: every policy numbers its profiles from 0.
AllocateAfresh(ids, pol) ==
  [n \in AllNames |->
     IF \E i \in DOMAIN Profiles(pol) : Profiles(pol)[i] = n
     THEN (CHOOSE i \in DOMAIN Profiles(pol) : Profiles(pol)[i] = n) - 1
     ELSE None]

\* ProfileIds::id for each name of the policy in turn:
\* a known name keeps its id, a new one takes the next.
Allocate(ids, pol) ==
  LET seq == Profiles(pol)
      next == Cardinality({n \in AllNames : ids[n] # None})
      fresh(i) == Cardinality({j \in 1..(i - 1) : ids[seq[j]] = None})
  IN  [n \in AllNames |->
         IF ids[n] = None /\ \E i \in DOMAIN seq : seq[i] = n
         THEN next + fresh(CHOOSE i \in DOMAIN seq : seq[i] = n)
         ELSE ids[n]]

InPolicy(pol, name) == \E i \in DOMAIN pol.profiles : pol.profiles[i] = name

\* quarantine_id: of the active policy, else what the allocator would give.
QuarantineId(e) ==
  IF e.ids[Quarantine] # None THEN e.ids[Quarantine]
  ELSE Cardinality({n \in AllNames : e.ids[n] # None})

Init ==
  /\ host \in Hosts
  /\ life = [c \in Cgroups |-> "unborn"]
  /\ kbind = Unbound
  /\ kprof = <<>>
  /\ klevels = {}
  /\ mask_old = FALSE
  /\ engine = NewEngine
  /\ pc = "idle"
  /\ wanted = Unbound
  /\ failed = {}
  /\ saved = NoPolicy
  /\ meant = [c \in Cgroups |-> NoName]
  /\ confined = {}
  /\ contested = {}
  /\ adoptees = {}
  /\ lost = FALSE

\* A write of one entry of rk_cgroup_profile, and the name it is meant for.
KernelBind(c, id, name) ==
  /\ kbind[c] = None => Cardinality(Bound(kbind)) < CapBindings
  /\ kbind' = [kbind EXCEPT ![c] = id]
  /\ meant' = [meant EXCEPT ![c] = name]

KernelUnbind(c) ==
  /\ kbind' = [kbind EXCEPT ![c] = None]
  /\ meant' = [meant EXCEPT ![c] = NoName]
-----------------------------------------------------------------------------
(* apply_text *)

\* cgroup_alive: a binding without a known path counts as alive.
CgroupAlive(c) == c \in Alive \cup engine.pathless

\* add_runtime_bindings: dynamic bindings whose cgroup is gone are stale, the
\* others keep their profile; adopted ones keep their id unless the policy or
\* an agent takes the cgroup over.
StaleDynamic == {c \in Dynamic(engine) : ~CgroupAlive(c)}
LiveDynamic == Dynamic(engine) \ StaleDynamic
KeptAdoptedNone(pol) == {}  \* mutant: the policy does not know them
KeptAdopted(pol) ==
  {c \in Bound(engine.adopted) :
     /\ c \notin DOMAIN pol.static \cup LiveDynamic
     /\ CgroupAlive(c)}

\* Mutant: running agents are not looked at.
AcceptedBlindly(pol) ==
  /\ Cardinality(DOMAIN pol.static \cup LiveDynamic \cup KeptAdopted(pol)) <= CapBindings
  /\ Cardinality({n \in AllNames : Allocate(engine.ids, pol)[n] # None}) <= MaxProfiles

Accepted(pol) ==
  /\ \A c \in LiveDynamic : InPolicy(pol, engine.dynamic[c]) /\ c \notin DOMAIN pol.static
  /\ Cardinality(DOMAIN pol.static \cup LiveDynamic \cup KeptAdopted(pol)) <= CapBindings
  /\ Cardinality({n \in AllNames : Allocate(engine.ids, pol)[n] # None}) <= MaxProfiles

\* resolve_bindings and add_runtime_bindings together.
WantedBindings(pol, ids) ==
  [c \in Cgroups |->
     IF c \in DOMAIN pol.static THEN ids[pol.static[c]]
     ELSE IF c \in LiveDynamic THEN ids[engine.dynamic[c]]
     ELSE IF c \in KeptAdopted(pol) THEN engine.adopted[c]
     ELSE None]

\* Mutant: only the policy's own bindings are held over a reload.
HeldOfStatic(want) == engine.quarantined \cap (Bound(want) \ Dynamic(engine))

\* sync_bindings: a quarantined cgroup that is still bound stays quarantined.
Held(want) == engine.quarantined \cap Bound(want)

\* Everything up to and including the flip, and the fields set right after it;
\* then the start of sync_bindings, where quarantine overrides what is wanted.
\* The quarantine of a cgroup ends with a policy that does not name it, unless a
\* workload runs there.
ApplyCommit(pol) ==
  LET ids == Allocate(engine.ids, pol)
      want == WantedBindings(pol, ids)
      held == Held(want)
  IN  /\ pc = "idle"
      /\ Accepted(pol)
      /\ \A c \in DOMAIN pol.static : life[c] # "gone"
      /\ life' = [c \in Cgroups |-> IF c \in DOMAIN pol.static THEN "alive" ELSE life[c]]
      /\ kprof' = [i \in {ids[Profiles(pol)[k]] : k \in DOMAIN Profiles(pol)} |->
                     CHOOSE n \in AllNames : ids[n] = i]
      /\ engine' = [engine EXCEPT
           !.ids = ids,
           !.policy = pol,
           !.quarantined = held,
           !.dynamic = [c \in Cgroups |-> IF c \in StaleDynamic THEN NoName ELSE @[c]],
           !.adopted = [c \in Cgroups |-> IF c \in KeptAdopted(pol) THEN @[c] ELSE None]]
      /\ wanted' = [c \in Cgroups |-> IF c \in held THEN ids[Quarantine] ELSE want[c]]
      /\ pc' = "remove"
      /\ failed' = {}
      /\ confined' = confined \cap (DOMAIN pol.static \cup Dynamic(engine) \cup Bound(engine.adopted))
      /\ adoptees' = adoptees \ DOMAIN pol.static
      /\ UNCHANGED <<host, kbind, mask, saved, meant, contested, lost>>

\* A refused apply has created the cgroups it would have bound, and nothing else.
ApplyRefused(pol) ==
  /\ pc = "idle"
  /\ ~Accepted(pol)
  /\ \A c \in DOMAIN pol.static : life[c] # "gone"
  /\ life' = [c \in Cgroups |-> IF c \in DOMAIN pol.static THEN "alive" ELSE life[c]]
  /\ UNCHANGED <<host, kernel, engine, pc, wanted, failed, saved, history>>

\* sync_bindings removes first, so that the map never holds more than wanted.
Unwanted == Bound(engine.bindings) \ Bound(wanted)
SyncRemove ==
  /\ pc = "remove"
  /\ \E c \in Unwanted :
       /\ KernelUnbind(c)
       /\ engine' = [engine EXCEPT !.bindings[c] = None, !.pathless = @ \ {c}]
  /\ UNCHANGED <<host, life, kprof, mask, pc, wanted, failed, saved, marks>>

\* Mutant: writes start before every removal is done.
SyncRemovedEarly ==
  /\ pc = "remove"
  /\ pc' = "write"
  /\ UNCHANGED <<host, life, kernel, engine, wanted, failed, saved, history>>

SyncRemoved ==
  /\ pc = "remove"
  /\ Unwanted = {}
  /\ pc' = "write"
  /\ UNCHANGED <<host, life, kernel, engine, wanted, failed, saved, history>>

NameOf(c) ==
  IF c \in engine.quarantined THEN Quarantine
  ELSE IF c \in DOMAIN engine.policy.static THEN engine.policy.static[c]
  ELSE IF engine.dynamic[c] # NoName THEN engine.dynamic[c] ELSE meant[c]

\* Mutant: a failed write is recorded as done.
SyncWriteAssumed ==
  /\ pc = "write"
  /\ \E c \in {x \in Bound(wanted) : engine.bindings[x] # wanted[x]} :
       /\ engine' = [engine EXCEPT !.bindings[c] = wanted[c]]
       /\ \/ KernelBind(c, wanted[c], NameOf(c)) /\ UNCHANGED failed
          \/ failed' = failed \cup {c} /\ UNCHANGED <<kbind, meant>>
  /\ UNCHANGED <<host, life, kprof, mask, pc, wanted, saved, marks>>

\* One wanted binding: skipped when the engine believes it is there already,
\* else written; a write error is remembered and the old entry kept.
Unwritten == {c \in Bound(wanted) : engine.bindings[c] # wanted[c]}
SyncWrite ==
  /\ pc = "write"
  /\ \E c \in Unwritten :
       \/ /\ KernelBind(c, wanted[c], NameOf(c))
          /\ engine' = [engine EXCEPT !.bindings[c] = wanted[c]]
          /\ UNCHANGED <<wanted, failed>>
       \/ /\ wanted' = [wanted EXCEPT ![c] = engine.bindings[c]]
          /\ failed' = failed \cup {c}
          /\ UNCHANGED <<kbind, meant, engine>>
  /\ UNCHANGED <<host, life, kprof, mask, pc, saved, marks>>

\* An apply with a write error saves its state and returns before the mask is
\* published.
SyncDone ==
  /\ pc = "write"
  /\ Unwritten = {}
  /\ pc' = IF failed # {} THEN "save" ELSE "save_publish"
  /\ wanted' = Unbound
  /\ engine' = [engine EXCEPT !.pathless = @ \ (DOMAIN engine.policy.static \ failed)]
  /\ UNCHANGED <<host, life, kernel, failed, saved, history>>
-----------------------------------------------------------------------------
(* Runtime bindings, quarantine *)

\* bind_dynamic, for the cgroup that create_agent_cgroup has just made; when it
\* is refused the caller removes the cgroup again.
BindDynamic(c, name) ==
  /\ pc = "idle"
  /\ c \in Agents /\ life[c] = "unborn"
  /\ life' = [life EXCEPT ![c] = "alive"]
  /\ engine.policy # NoPolicy
  /\ InPolicy(engine.policy, name)
  /\ engine.bindings[c] = None
  /\ KernelBind(c, engine.ids[name], name)
  /\ engine' = [engine EXCEPT !.bindings[c] = engine.ids[name], !.dynamic[c] = name,
                              !.pathless = @ \ {c}]
  /\ pc' = "save_publish"
  /\ UNCHANGED <<host, kprof, mask, wanted, failed, saved, marks>>

\* bind_container: a resync may change the profile, a quarantined container
\* stays as it is, an adopted binding is attributed; a delegated subtree deeper
\* than the walk reaches is refused unless the operator opted in.
BindContainer(c, name) ==
  /\ pc = "idle"
  /\ engine.policy # NoPolicy
  /\ InPolicy(engine.policy, name)
  /\ c \in Containers \cap Alive
  /\ engine.bindings[c] # None => c \in Dynamic(engine) \cup Bound(engine.adopted)
  /\ c \notin engine.quarantined
  /\ c \in Delegated /\ LevelOf[c] > MaxDepth => AllowDelegated
  /\ KernelBind(c, engine.ids[name], name)
  /\ engine' = [engine EXCEPT !.bindings[c] = engine.ids[name], !.dynamic[c] = name,
                              !.adopted[c] = None, !.pathless = @ \ {c}]
  /\ adoptees' = adoptees \ {c}
  /\ contested' = contested \ {c}
  /\ pc' = "save_publish"
  /\ UNCHANGED <<host, life, kprof, mask, wanted, failed, saved, confined, lost>>

UnbindDynamic(c) ==
  /\ pc = "idle"
  /\ c \in Dynamic(engine)
  /\ KernelUnbind(c)
  /\ engine' = [engine EXCEPT !.bindings[c] = None, !.dynamic[c] = NoName,
                              !.quarantined = @ \ {c}, !.pathless = @ \ {c}]
  /\ confined' = confined \ {c}
  /\ contested' = contested \ {c}
  /\ pc' = "save_publish"
  /\ UNCHANGED <<host, life, kprof, mask, wanted, failed, saved, adoptees, lost>>

\* quarantine finds the cgroup by the path of its binding.
QuarantineCgroup(c) ==
  /\ pc = "idle"
  /\ engine.bindings[c] # None /\ c \notin engine.pathless
  /\ KernelBind(c, QuarantineId(engine), Quarantine)
  /\ engine' = [engine EXCEPT !.bindings[c] = QuarantineId(engine), !.quarantined = @ \cup {c}]
  /\ confined' = confined \cup {c}
  /\ pc' = "save"
  /\ UNCHANGED <<host, life, kprof, mask, wanted, failed, saved, contested, adoptees, lost>>

\* release: back to the static binding of the policy, else the agent's profile.
\* It forgets the quarantine before the map update, which may fail.
Release(c) ==
  LET pol == engine.policy
      name == IF c \in DOMAIN pol.static THEN pol.static[c] ELSE engine.dynamic[c]
  IN  /\ pc = "idle"
      /\ engine.bindings[c] # None /\ c \notin engine.pathless
      /\ pol # NoPolicy
      /\ c \in DOMAIN pol.static \cup Dynamic(engine)
      /\ \/ /\ KernelBind(c, engine.ids[name], name)
            /\ engine' = [engine EXCEPT !.bindings[c] = engine.ids[name], !.quarantined = @ \ {c}]
            /\ contested' = contested \cup (DOMAIN pol.static \cap Dynamic(engine) \cap {c})
            /\ pc' = "save"
         \/ /\ engine' = [engine EXCEPT !.quarantined = @ \ {c}]
            /\ UNCHANGED <<kbind, meant, contested, pc>>
      /\ confined' = confined \ {c}
      /\ UNCHANGED <<host, life, kprof, mask, wanted, failed, saved, adoptees, lost>>

\* persist, then publish_governed_levels where the operation calls it.
Persist ==
  /\ pc \in {"save", "save_publish"}
  /\ saved' \in IF StateMayLag THEN {saved, engine} ELSE {engine}
  /\ pc' = IF pc = "save_publish" THEN "publish" ELSE "idle"
  /\ UNCHANGED <<host, life, kernel, engine, wanted, failed, history>>

\* Mutant: agents' bindings are left out.
GovernedLevelsOfStatic ==
  {LevelOf[c] : c \in Bound(engine.bindings) \ Dynamic(engine)} \cap 1..MaxDepth

\* governed_levels: an unknown path covers every level, one deeper than the
\* walk reaches none.
GovernedLevels ==
  LET bound == Bound(engine.bindings)
  IN  IF bound \cap engine.pathless # {} THEN 1..MaxDepth
      ELSE {LevelOf[c] : c \in bound} \cap 1..MaxDepth

\* A failure to publish is logged, and the old mask stays.
Publish ==
  /\ pc = "publish"
  /\ \/ klevels' = GovernedLevels /\ mask_old' = FALSE
     \/ klevels' = klevels /\ mask_old' = TRUE
  /\ failed' = {}
  /\ pc' = "idle"
  /\ UNCHANGED <<host, life, kbind, kprof, engine, wanted, saved, history>>
-----------------------------------------------------------------------------
(* Restart, and the cgroups' own life *)

Crash ==
  /\ pc # "down"
  /\ pc = "idle" \/ StateMayLag
  /\ pc' = "down"
  /\ engine' = NewEngine
  /\ wanted' = Unbound
  /\ UNCHANGED <<host, life, kernel, failed, saved, history>>

\* adopt: bindings and all come from the state file when it is usable, else
\* every binding of the kernel map is kept as an adopted one.
Adopt ==
  /\ pc = "down"
  /\ \/ /\ saved # NoPolicy
        /\ engine' = saved
        /\ adoptees' = adoptees \cap Bound(saved.adopted)
        /\ lost' = lost
     \/ /\ saved = NoPolicy \/ StateLoss
        /\ engine' = [NewEngine EXCEPT !.bindings = kbind, !.adopted = kbind,
                                       !.pathless = Bound(kbind) \ Alive]
        /\ adoptees' = Bound(kbind)
        /\ lost' = (lost \/ Bound(kbind) # {})
  /\ pc' = "save"
  /\ UNCHANGED <<host, life, kernel, wanted, failed, saved, meant, confined, contested>>

\* A container's cgroup appears; an agent's or a container's is removed, whether or
\* not it was unbound first.
CgroupCreated(c) ==
  /\ c \in Containers /\ life[c] = "unborn"
  /\ life' = [life EXCEPT ![c] = "alive"]
  /\ UNCHANGED <<host, kernel, engine, pc, wanted, failed, saved, history>>

CgroupRemoved(c) ==
  /\ c \in (Agents \cup Containers) \cap Alive
  /\ life' = [life EXCEPT ![c] = "gone"]
  /\ UNCHANGED <<host, kernel, engine, pc, wanted, failed, saved, history>>

Next ==
  \/ \E pol \in Policies : ApplyCommit(pol) \/ ApplyRefused(pol)
  \/ SyncRemove \/ SyncRemoved \/ SyncWrite \/ SyncDone
  \/ \E c \in Cgroups :
       \/ \E name \in Names : BindDynamic(c, name) \/ BindContainer(c, name)
       \/ UnbindDynamic(c) \/ QuarantineCgroup(c) \/ Release(c)
       \/ CgroupCreated(c) \/ CgroupRemoved(c)
  \/ Persist \/ Publish \/ Crash \/ Adopt

Spec == Init /\ [][Next]_vars
-----------------------------------------------------------------------------
\* The sets of cgroups that can be the ancestors of one task.
Lineages == {A \in SUBSET Cgroups : \A c, d \in A : LevelOf[c] = LevelOf[d] => c = d}

\* The deepest cgroup of a lineage, as a set; empty for none.
Deepest(A) == {c \in A : \A d \in A : LevelOf[d] <= LevelOf[c]}

\* rk_governed_binding for a task whose own cgroup is not bound: the published
\* levels are tried deepest first.
rk_governed_binding(above) ==
  Deepest({c \in above : LevelOf[c] \in klevels /\ kbind[c] # None})

\* What the sensor knows or, while none runs, what the next one will read.
Known == IF pc = "down" /\ saved # NoPolicy THEN saved ELSE engine

\* With a state file that is never behind, lost or not, between operations.
Settled == pc = "idle" /\ ~StateMayLag

\* Between operations the engine believes exactly what rk_cgroup_profile holds
\* ("record what the kernel really holds", sync_bindings), after failed writes and
\* restarts too.  sync_bindings skips a write, and leaves a binding in place, on
\* the strength of that belief.
BeliefIsKernel == Settled => engine.bindings = kbind

\* Profile ids are baked into binding values and never reused: at every moment,
\* half way through an apply included, a binding in the kernel names the profile
\* it was written for, or none of the live policy (then it fails closed).  A
\* restart without the state file, or with one that was left behind, loses the id
\* allocation, and this with it.
BindingKeepsMeaning ==
  ~lost /\ ~StateMayLag => \A c \in Cgroups : kbind[c] \in DOMAIN kprof => kprof[kbind[c]] = meant[c]

\* A running agent or container is governed by its own profile, or quarantined, at
\* every step: through the flip, the rebinding after it, write errors and restarts.
\* No apply can take its profile or its binding away.  (A container may come to be
\* bound on a cgroup of the policy's whose write has failed; release then gives it
\* the policy's profile, and it is only known to be bound.)
AgentsStayGoverned ==
  ~StateMayLag =>
    \A c \in Dynamic(Known) \cap Alive :
      /\ kbind[c] # None
      /\ c \notin contested =>
           kbind[c] \in DOMAIN kprof /\ kprof[kbind[c]] \in {Known.dynamic[c], Quarantine}

\* A cgroup that was put in quarantine stays bound to the quarantine profile of the
\* live policy, through every apply, failed write, resync and restart, until it is
\* released, its workload is unbound, or a policy that does not name it is applied
\* where no workload runs ("Quarantine overrides the file's binding until
\* released", sync_bindings).
QuarantineHolds ==
  ~lost /\ ~StateMayLag => \A c \in confined \cap Alive : kbind[c] \in DOMAIN kprof /\ kprof[kbind[c]] = Quarantine

\* After an operation that succeeds, a task in a descendant of bound cgroups,
\* whichever of them lie above it, is governed by the nearest one the walk can
\* reach (rk_governed_binding reads only the levels the sensor published).  A
\* delegated container, which makes child cgroups, is only bound where it can be
\* reached, unless the operator opted in (bind_container, "its sub-cgroups would
\* escape governance").
DescendantsGoverned ==
  Settled /\ failed = {} /\ ~mask_old =>
    /\ \A above \in Lineages :
         rk_governed_binding(above)
           = Deepest({c \in above \cap Bound(kbind) : LevelOf[c] <= MaxDepth})
    /\ ~AllowDelegated => \A c \in Delegated : engine.dynamic[c] # NoName => LevelOf[c] \in klevels

\* The capacity check of an apply leaves room for every binding it then writes:
\* removals come first.  (A state file that was left behind may not know of a
\* binding that takes up room.)
RoomForEveryBinding ==
  pc = "write" /\ ~StateMayLag => \A c \in Unwritten : kbind[c] = None => Cardinality(Bound(kbind)) < CapBindings

\* A workload found bound without a state file stays bound while its cgroup exists,
\* through every apply, until the policy or its own rebind says whose it is ("must
\* not unbind a running workload because the state file is gone", adopt).
AdoptedStayBound == \A c \in adoptees \cap Alive : kbind[c] # None
=============================================================================
