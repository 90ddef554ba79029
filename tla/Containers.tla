----------------------------- MODULE Containers -----------------------------
(***************************************************************************)
(* Kubernetes containers: the container runtime, the NRI plugin rk-nri and *)
(* the daemon's BindContainer and UnbindContainer requests.                *)
(*                                                                         *)
(* The plugin waits callBudget for the daemon and then answers by itself;  *)
(* the daemon goes on with the request.  A BindContainer holds the policy  *)
(* handler's lock from the choice of the profile to the registry entry, an *)
(* UnbindContainer drops the registry entry before it takes the lock.  A   *)
(* container stands for its id, its process and its cgroup.                *)
(*                                                                         *)
(* The runtime is external.  It parks the init process until StartContainer*)
(* has been answered, calls StopContainer once the container has exited    *)
(* and its cgroup is gone, then RemoveContainer.                           *)
(***************************************************************************)
EXTENDS Naturals, FiniteSets, Sequences

CONSTANTS
  Ctrs,               \* container ids
  Nobody,             \* no process
  Namespace,          \* the namespace of each container's pod
  Policies,           \* policies: [profiles, rules : namespace -> [default, allowed]]
  NoName,             \* no profile
  Exempt,             \* -exempt-namespaces
  RETAINED_SESSIONS,  \* retired session mappings that are kept
  Clusters            \* the set-ups considered, see the definitions over cluster below

Names == UNION {pol.profiles : pol \in Policies}
Kinds == {"stop", "remove"}
Sources == {"start", "sync"}

ContainerSetups ==
  /\ Nobody \notin Ctrs /\ NoName \notin Names
  /\ RETAINED_SESSIONS \in Nat
  /\ \A pol \in Policies : \A ns \in DOMAIN pol.rules :  \* checked when a policy is compiled
       pol.rules[ns].default \in pol.profiles \cup {NoName}
  /\ \A cl \in Clusters :
       /\ \A c \in DOMAIN cl.pods : c \in Ctrs /\ cl.pods[c] \in Names \cup {NoName}
       /\ cl.fail_open \in BOOLEAN
       /\ {cl.applies, cl.deaths, cl.drops, cl.failures} \subseteq Nat

ASSUME ContainerAssumptions == ContainerSetups

VARIABLES
  cluster,   \* the set-up of this behaviour
  life,      \* runtime: none, parked, running, exited, stopped or removed
  calling,   \* runtime: the containers whose StartContainer is unanswered
  nri,       \* whether the plugin is registered with the runtime
  resync,    \* plugin: running containers that Synchronize has yet to rebind
  bindreq,   \* daemon: the BindContainer request for each container and source
  unbindreq, \* daemon: the UnbindContainer request for each container and kind
  policy_lock, \* daemon: the bind request that holds the policy handler's lock
  policy,    \* daemon: the active policy
  kbound,    \* kernel: the profile each container's cgroup is bound to
  registered, \* registry: containers
  sessions,  \* registry: cgroup_sessions
  retired,   \* registry: retired session mappings, oldest first
  daemon_up, \* whether the daemon runs
  missed,    \* history: containers that started past the plugin or the daemon
  failed,    \* history: containers a request for which was lost or failed
  applies, deaths, drops

runtime == <<life, calling, nri, missed>>
registry == <<registered, sessions, retired>>
requests == <<bindreq, unbindreq, policy_lock>>
limits == <<cluster, failed, applies, deaths, drops>>
cvars == <<runtime, resync, requests, policy, kbound, registry, daemon_up, limits>>

Pods == DOMAIN cluster.pods          \* the containers that are created
Annotation == cluster.pods           \* the profile a pod's annotation names, or NoName
FailOpen == cluster.fail_open        \* -failure-policy Ignore
MaxApplies == cluster.applies        \* bound on policy changes
MaxDeaths == cluster.deaths          \* bound on deaths of the daemon
MaxDrops == cluster.drops            \* bound on lost NRI connections
MaxFailures == cluster.failures      \* bound on containers with a lost or failed request

Free == <<Nobody, "start">>
Idle == [at |-> "idle", profile |-> NoName, held |-> Nobody, cgroup |-> Nobody]
Alive(c) == c \in Ctrs /\ life[c] \in {"parked", "running"}
HasCgroup(c) == life[c] \in {"parked", "running", "exited"}

\* resolve_pod_profile: [ok] or a refusal; a resolved NoName is not governed.
Resolve(pol, c) ==
  LET ns == Namespace[c]
      ann == Annotation[c]
      ruled == ns \in DOMAIN pol.rules
  IN  IF ann = NoName
      THEN IF ruled
           THEN [ok |-> pol.rules[ns].default # NoName, profile |-> pol.rules[ns].default]
           ELSE [ok |-> TRUE, profile |-> NoName]
      ELSE [ok |-> ann \in pol.profiles /\ (ruled => ann \in pol.rules[ns].allowed),
            profile |-> ann]

\* An unannotated pod in an exempt namespace starts without a daemon call.
IsExempt(c) == Annotation[c] = NoName /\ Namespace[c] \in Exempt

CInit ==
  /\ cluster \in Clusters
  /\ life = [c \in Ctrs |-> "none"]
  /\ calling = {}
  /\ nri = TRUE
  /\ resync = {}
  /\ bindreq = [c \in Ctrs |-> [s \in Sources |-> Idle]]
  /\ unbindreq = [c \in Ctrs |-> [k \in Kinds |-> "idle"]]
  /\ policy_lock = Free
  /\ policy \in Policies
  /\ kbound = [c \in Ctrs |-> NoName]
  /\ registered = {} /\ sessions = {} /\ retired = <<>>
  /\ daemon_up = TRUE
  /\ missed = {} /\ failed = {}
  /\ applies = 0 /\ deaths = 0 /\ drops = 0

Lives(c, st) == life' = [life EXCEPT ![c] = st]
Sent == [Idle EXCEPT !.at = "sent"]

\* A request for c fails though the daemon runs.
RequestFails(c) ==
  /\ Cardinality(failed \cup {c}) <= MaxFailures
  /\ failed' = failed \cup {c}
  /\ UNCHANGED <<cluster, applies, deaths, drops>>

\* The daemon does not get the plugin's request: it is down, the dial or the write
\* times out, or the accept loop sheds the connection.
Unreached(c) == IF daemon_up THEN RequestFails(c) ELSE UNCHANGED limits
-----------------------------------------------------------------------------
(* The runtime and the plugin *)

\* NewTask: the cgroup and the parked init process exist.
CreateTask(c) ==
  /\ c \in Pods /\ life[c] = "none"
  /\ Lives(c, "parked")
  /\ UNCHANGED <<calling, nri, missed, resync, requests, policy, kbound, registry, daemon_up, limits>>

\* plugin.bind when the daemon did not answer: refused, unless the operator
\* chose to fail open.
Unreachable(c) ==
  IF FailOpen
  THEN Lives(c, "running") /\ missed' = missed \cup {c}
  ELSE Lives(c, "exited") /\ UNCHANGED missed

\* StartContainer: ask the daemon, unless the pod is exempt.
StartContainer(c) ==
  /\ nri /\ life[c] = "parked" /\ c \notin calling
  /\ bindreq[c]["start"] = Idle
  /\ \/ /\ IsExempt(c)
        /\ Lives(c, "running") /\ UNCHANGED <<calling, missed, bindreq, limits>>
     \/ /\ ~IsExempt(c) /\ daemon_up
        /\ calling' = calling \cup {c}
        /\ bindreq' = [bindreq EXCEPT ![c]["start"] = Sent]
        /\ UNCHANGED <<life, missed, limits>>
     \/ /\ ~IsExempt(c) /\ Unreached(c)
        /\ Unreachable(c) /\ UNCHANGED <<calling, bindreq>>
  /\ UNCHANGED <<nri, resync, unbindreq, policy_lock, policy, kbound, registry, daemon_up>>

\* Mutant: any answer lets the container start.
StartAnsweredAny(c) ==
  /\ c \in calling
  /\ bindreq[c]["start"].at \in {"bound", "ungoverned", "error"}
  /\ calling' = calling \ {c}
  /\ life' = [life EXCEPT ![c] = IF @ # "parked" THEN @ ELSE "running"]
  /\ bindreq' = [bindreq EXCEPT ![c]["start"] = Idle]
  /\ UNCHANGED <<nri, missed, resync, unbindreq, policy_lock, policy, kbound, registry, daemon_up, limits>>

\* The daemon's answer decides: bound and not governed start, an error does not.
StartAnswered(c) ==
  /\ c \in calling
  /\ bindreq[c]["start"].at \in {"bound", "ungoverned", "error"}
  /\ calling' = calling \ {c}
  /\ life' = [life EXCEPT ![c] =
                IF @ # "parked" THEN @
                ELSE IF bindreq[c]["start"].at = "error" THEN "exited" ELSE "running"]
  /\ bindreq' = [bindreq EXCEPT ![c]["start"] = Idle]
  /\ UNCHANGED <<nri, missed, resync, unbindreq, policy_lock, policy, kbound, registry, daemon_up, limits>>

\* callBudget is over, or the connection broke.  The daemon carries on.
StartTimesOut(c) ==
  /\ c \in calling
  /\ calling' = calling \ {c}
  /\ IF life[c] = "parked" THEN Unreachable(c) ELSE UNCHANGED <<life, missed>>
  /\ UNCHANGED <<nri, resync, requests, policy, kbound, registry, daemon_up, limits>>

\* The answer to a bind nobody waits for any more, or to one of a resync.
Unheard(c, s) ==
  /\ bindreq[c][s].at \in {"bound", "ungoverned", "error"}
  /\ s = "start" => c \notin calling
  /\ bindreq' = [bindreq EXCEPT ![c][s] = Idle]
  /\ UNCHANGED <<runtime, resync, unbindreq, policy_lock, policy, kbound, registry, daemon_up, limits>>

\* The plugin's connection to the runtime ends; a call under way is dropped
\* with it, and containers start without being asked about.
Disconnect ==
  /\ nri /\ drops < MaxDrops
  /\ drops' = drops + 1
  /\ nri' = FALSE
  /\ calling' = {}
  /\ life' = [c \in Ctrs |-> IF c \in calling /\ life[c] = "parked" THEN "running" ELSE life[c]]
  /\ missed' = missed \cup {c \in calling : life[c] = "parked"}
  /\ UNCHANGED <<resync, requests, policy, kbound, registry, daemon_up, cluster, failed, applies, deaths>>

StartUnasked(c) ==
  /\ ~nri /\ life[c] = "parked"
  /\ Lives(c, "running")
  /\ missed' = missed \cup {c}
  /\ UNCHANGED <<calling, nri, resync, requests, policy, kbound, registry, daemon_up, limits>>

\* Mutant: nothing is rebound.
SynchronizeNothing ==
  /\ ~nri
  /\ nri' = TRUE
  /\ UNCHANGED <<life, calling, missed, resync, requests, policy, kbound, registry, daemon_up, limits>>

\* The plugin registers again; Synchronize lists what is running and returns.
Synchronize ==
  /\ ~nri
  /\ nri' = TRUE
  /\ resync' = resync \cup {c \in Ctrs : life[c] = "running"}
  /\ UNCHANGED <<life, calling, missed, requests, policy, kbound, registry, daemon_up, limits>>

\* Its goroutine binds each container listed; a failure is only logged.
SyncBind(c) ==
  /\ c \in resync /\ bindreq[c]["sync"] = Idle
  /\ resync' = resync \ {c}
  /\ \/ IsExempt(c) /\ UNCHANGED <<bindreq, limits>>
     \/ /\ ~IsExempt(c) /\ daemon_up
        /\ bindreq' = [bindreq EXCEPT ![c]["sync"] = Sent] /\ UNCHANGED limits
     \/ ~IsExempt(c) /\ Unreached(c) /\ UNCHANGED bindreq
  /\ UNCHANGED <<runtime, unbindreq, policy_lock, policy, kbound, registry, daemon_up>>

\* The container's process ends.
TaskExits(c) ==
  /\ Alive(c)
  /\ Lives(c, "exited")
  /\ UNCHANGED <<calling, nri, missed, resync, requests, policy, kbound, registry, daemon_up, limits>>

\* StopContainer and RemoveContainer: plugin.unbind, errors only logged.
SendUnbind(c, k) ==
  \/ nri /\ daemon_up /\ unbindreq' = [unbindreq EXCEPT ![c][k] = "sent"] /\ UNCHANGED limits
  \/ nri /\ Unreached(c) /\ UNCHANGED unbindreq
  \/ ~nri /\ UNCHANGED <<unbindreq, limits>>

StopContainer(c) ==
  /\ life[c] = "exited" /\ c \notin calling
  /\ Lives(c, "stopped") /\ SendUnbind(c, "stop")
  /\ UNCHANGED <<calling, nri, missed, resync, bindreq, policy_lock, policy, kbound, registry, daemon_up>>

RemoveContainer(c) ==
  /\ life[c] = "stopped" /\ c \notin calling
  /\ Lives(c, "removed") /\ SendUnbind(c, "remove")
  /\ UNCHANGED <<calling, nri, missed, resync, bindreq, policy_lock, policy, kbound, registry, daemon_up>>
-----------------------------------------------------------------------------
(* bind_container in the daemon *)

\* Whose process the container's pid is: its own while that lives, afterwards
\* anybody's that the kernel gave the pid to.
PidOwners(c) == IF Alive(c) THEN {c} ELSE {Nobody} \cup {d \in Ctrs : Alive(d)}

Request(c, s, req) == bindreq' = [bindreq EXCEPT ![c][s] = req]
Answer(c, s, at) == Request(c, s, [Idle EXCEPT !.at = at])

\* Take the lock, choose the profile, hold the process with a pidfd.
BindOpen(c, s) ==
  LET r == Resolve(policy, c)
  IN  /\ bindreq[c][s].at = "sent" /\ policy_lock = Free
      /\ \/ ~r.ok /\ Answer(c, s, "error") /\ UNCHANGED policy_lock
         \/ r.ok /\ r.profile = NoName /\ Answer(c, s, "ungoverned") /\ UNCHANGED policy_lock
         \/ /\ r.ok /\ r.profile # NoName
            /\ \E o \in PidOwners(c) :
                 IF o = Nobody
                 THEN Answer(c, s, "error") /\ UNCHANGED policy_lock
                 ELSE /\ policy_lock' = <<c, s>>
                      /\ Request(c, s, [Idle EXCEPT !.at = "read", !.profile = r.profile,
                                                    !.held = o])
      /\ UNCHANGED <<runtime, resync, unbindreq, policy, kbound, registry, daemon_up, limits>>

NamesAny(o, c) == o # Nobody  \* mutant: any cgroup under the root will do

\* cgroup_names_container: the cgroup read is the container's own.
NamesContainer(o, c) == o = c

\* Read /proc/<pid>/cgroup and require it to name the container.
BindRead(c, s) ==
  /\ bindreq[c][s].at = "read"
  /\ \E o \in PidOwners(c) :
       IF NamesContainer(o, c)
       THEN /\ Request(c, s, [bindreq[c][s] EXCEPT !.at = "set", !.cgroup = o])
            /\ UNCHANGED policy_lock
       ELSE Answer(c, s, "error") /\ policy_lock' = Free
  /\ UNCHANGED <<runtime, resync, unbindreq, policy, kbound, registry, daemon_up, limits>>

\* The process held is still there: PolicyEngine::bind_container, which may refuse
\* (the profile, the cgroup's metadata, delegated too deep) or fail (a full map).
BindSet(c, s) ==
  LET req == bindreq[c][s]
      there == Alive(req.held) /\ HasCgroup(req.cgroup)
  IN  /\ req.at = "set"
      /\ \/ /\ there
            /\ kbound' = [kbound EXCEPT ![req.cgroup] = req.profile]
            /\ Request(c, s, [req EXCEPT !.at = "register"])
            /\ UNCHANGED <<policy_lock, limits>>
         \/ /\ IF there THEN RequestFails(c) ELSE UNCHANGED limits
            /\ Answer(c, s, "error") /\ policy_lock' = Free /\ UNCHANGED kbound
      /\ UNCHANGED <<runtime, resync, unbindreq, policy, registry, daemon_up>>

\* register_container, with the pod's session, and the lock is dropped.
BindRegister(c, s) ==
  /\ bindreq[c][s].at = "register"
  /\ registered' = registered \cup {c}
  /\ sessions' = sessions \cup {c}
  /\ Answer(c, s, "bound")
  /\ policy_lock' = Free
  /\ UNCHANGED <<runtime, resync, unbindreq, policy, kbound, retired, daemon_up, limits>>
-----------------------------------------------------------------------------
(* UnbindContainer in the daemon *)

\* retire_session: the oldest retired mapping makes room.
RetireSession(c) ==
  LET queue == Append(retired, c)
      full == Len(queue) > RETAINED_SESSIONS
  IN  /\ retired' = IF full THEN Tail(queue) ELSE queue
      /\ sessions' = IF full THEN sessions \ {Head(queue)} ELSE sessions

\* unregister_container, without the lock.
UnregisterContainer(c, k) ==
  /\ unbindreq[c][k] = "sent"
  /\ IF c \in registered
     THEN /\ registered' = registered \ {c}
          /\ IF c \in sessions THEN RetireSession(c) ELSE UNCHANGED <<sessions, retired>>
          /\ unbindreq' = [unbindreq EXCEPT ![c][k] = "unbind"]
     ELSE /\ unbindreq' = [unbindreq EXCEPT ![c][k] = "idle"]
          /\ UNCHANGED registry
  /\ UNCHANGED <<runtime, resync, bindreq, policy_lock, policy, kbound, daemon_up, limits>>

\* unbind_dynamic, under the lock; its failure is ignored.
UnbindDynamic(c, k) ==
  /\ unbindreq[c][k] = "unbind" /\ policy_lock = Free
  /\ \/ kbound' = [kbound EXCEPT ![c] = NoName] /\ UNCHANGED limits
     \/ RequestFails(c) /\ UNCHANGED kbound
  /\ unbindreq' = [unbindreq EXCEPT ![c][k] = "idle"]
  /\ UNCHANGED <<runtime, resync, bindreq, policy_lock, policy, registry, daemon_up>>
-----------------------------------------------------------------------------
(* Policy changes, and the daemon's death *)

\* An apply drops the bindings of removed cgroups, keeps the others, and is
\* refused when one of them uses a profile the new policy does not have.
Apply(pol) ==
  /\ daemon_up /\ policy_lock = Free /\ pol # policy /\ applies < MaxApplies
  /\ applies' = applies + 1
  /\ \A c \in Ctrs : HasCgroup(c) /\ kbound[c] # NoName => kbound[c] \in pol.profiles
  /\ policy' = pol
  /\ kbound' = [c \in Ctrs |-> IF HasCgroup(c) THEN kbound[c] ELSE NoName]
  /\ UNCHANGED <<runtime, resync, requests, registry, daemon_up, cluster, failed, deaths, drops>>

\* Requests and registry are lost; the pinned bindings stay.
DaemonDies ==
  /\ daemon_up /\ deaths < MaxDeaths
  /\ deaths' = deaths + 1
  /\ daemon_up' = FALSE
  /\ bindreq' = [c \in Ctrs |-> [s \in Sources |-> Idle]]
  /\ unbindreq' = [c \in Ctrs |-> [k \in Kinds |-> "idle"]]
  /\ policy_lock' = Free
  /\ registered' = {} /\ sessions' = {} /\ retired' = <<>>
  /\ UNCHANGED <<runtime, resync, policy, kbound, cluster, failed, applies, drops>>

DaemonStarts ==
  /\ ~daemon_up
  /\ daemon_up' = TRUE
  /\ UNCHANGED <<runtime, resync, requests, policy, kbound, registry, limits>>

Daemon(c) ==
  \/ \E s \in Sources : BindOpen(c, s) \/ BindRead(c, s) \/ BindSet(c, s) \/ BindRegister(c, s)
  \/ \E k \in Kinds : UnregisterContainer(c, k) \/ UnbindDynamic(c, k)

Plugin(c) ==
  StartAnswered(c) \/ StartTimesOut(c) \/ SyncBind(c) \/ \E s \in Sources : Unheard(c, s)

CNext ==
  \/ \E c \in Ctrs :
       \/ CreateTask(c) \/ StartContainer(c) \/ StartUnasked(c)
       \/ TaskExits(c) \/ StopContainer(c) \/ RemoveContainer(c)
       \/ Plugin(c) \/ Daemon(c)
  \/ Disconnect \/ Synchronize
  \/ \E pol \in Policies : Apply(pol)
  \/ DaemonDies \/ DaemonStarts

CSpec == CInit /\ [][CNext]_cvars

\* The daemon and the plugin run on, and the runtime accepts the plugin again.
CFairness ==
  /\ \A c \in Ctrs :
       /\ WF_cvars(SyncBind(c)) /\ WF_cvars(Daemon(c))
       /\ \A s \in Sources : WF_cvars(Unheard(c, s))
  /\ WF_cvars(Synchronize) /\ WF_cvars(DaemonStarts)

FairCSpec == CSpec /\ CFairness
-----------------------------------------------------------------------------
(* Properties *)

\* An annotated container that was started through the plugin runs bound, from
\* its first instruction until it exits: through late answers, resyncs, policy
\* changes and deaths of the daemon.
GovernedFromStart ==
  \A c \in Pods : life[c] = "running" /\ Annotation[c] # NoName /\ c \notin missed
                    => kbound[c] # NoName

\* A cgroup is only ever bound to a profile that its own pod resolves to, even
\* when the pid of a request has come to name another container's process.
BoundToOwnProfile ==
  \A c \in Ctrs : kbound[c] # NoName =>
    c \in Pods /\ \E pol \in Policies : Resolve(pol, c) = [ok |-> TRUE, profile |-> kbound[c]]

\* A container that started past the plugin, with an annotation the policy
\* resolves, is bound by the resync or ends, unless the daemon dies, the policy
\* changes, or a request for it is lost or fails: the resync only logs that and does
\* not try again.  (With -failure-policy Ignore it may also have started past a
\* daemon that was too slow, which no resync follows.)
ResyncGoverns ==
  \A c \in Ctrs :
    (/\ life[c] = "running" /\ c \in missed /\ ~FailOpen
     /\ Annotation[c] # NoName /\ Resolve(policy, c).ok)
      ~> (kbound[c] # NoName \/ life[c] # "running" \/ c \in failed \/ applies + deaths > 0)
=============================================================================
