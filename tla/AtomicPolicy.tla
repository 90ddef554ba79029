---------------------------- MODULE AtomicPolicy ----------------------------
(***************************************************************************)
(* What the policy maps promise: there is one live policy generation, it   *)
(* is replaced as a whole, and every hook execution decides by the one     *)
(* generation that was live when it started, however long the decision     *)
(* takes and whatever the sensor does meanwhile (rk-sensor/src/policy.rs,  *)
(* "atomic policy apply").                                                 *)
(*                                                                         *)
(* A policy is the set of map keys its compiled form occupies.  A key is a *)
(* map and a profile: the entry of that map that decides the action the    *)
(* hook asks about, for a task governed by that profile.                   *)
(***************************************************************************)
EXTENDS Integers

CONSTANTS
  Profiles,   \* profile ids
  Policies,   \* the policies an apply may carry: each a set of keys
  Hooks       \* hook executions (CPUs)

Maps == {"file", "exec", "profile", "deny", "allow"}
Key == Maps \X Profiles
Kinds == {"net", "exec", "file"}

ASSUME PoliciesAssumption == Policies \subseteq SUBSET Key

\* Generation 0 is the state before the first apply: no profile exists.
Generation == [gen : Nat, keys : SUBSET Key]
NoGeneration == [gen |-> 0, keys |-> {}]

\* What a hook decides for a task of profile p under one whole generation.
FailClosed == [gen |-> 0, by |-> "fail_closed"]
Undecided == [gen |-> 0, by |-> "none"]
DecidedBy == {"none", "fail_closed", "deny", "allow", "exec", "file", "default"}
Decision == [gen : Nat, by : DecidedBy]

Decide(g, p, kind) ==
  IF <<"profile", p>> \notin g.keys THEN FailClosed
  ELSE [gen |-> g.gen,
        by |-> IF kind = "net" THEN
                 IF <<"deny", p>> \in g.keys THEN "deny"
                 ELSE IF <<"allow", p>> \in g.keys THEN "allow" ELSE "default"
               ELSE IF <<kind, p>> \in g.keys THEN kind ELSE "default"]

VARIABLES
  live,     \* the live generation
  asking,   \* per hook: what it decides about, and the generation it decides by
  decided   \* per hook: its last decision

avars == <<live, asking, decided>>

Request == [profile : Profiles, kind : Kinds, by : Generation]
NoRequest == [kind |-> "none"]

AInit ==
  /\ live = NoGeneration
  /\ asking = [h \in Hooks |-> NoRequest]
  /\ decided = [h \in Hooks |-> Undecided]

\* The flip: the next generation is live in one step.
Replace(pol) ==
  /\ live' = [gen |-> live.gen + 1, keys |-> pol]
  /\ UNCHANGED <<asking, decided>>

Ask(h, p, kind) ==
  /\ asking[h].kind = "none"
  /\ asking' = [asking EXCEPT ![h] = [profile |-> p, kind |-> kind, by |-> live]]
  /\ UNCHANGED <<live, decided>>

Answer(h) ==
  /\ asking[h].kind # "none"
  /\ decided' = [decided EXCEPT ![h] = Decide(asking[h].by, asking[h].profile, asking[h].kind)]
  /\ asking' = [asking EXCEPT ![h] = NoRequest]
  /\ UNCHANGED live

ANext ==
  \/ \E pol \in Policies : Replace(pol)
  \/ \E h \in Hooks :
       \/ \E p \in Profiles, kind \in Kinds : Ask(h, p, kind)
       \/ Answer(h)

ASpec == AInit /\ [][ANext]_avars
=============================================================================
