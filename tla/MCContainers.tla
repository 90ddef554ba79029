---------------------------- MODULE MCContainers ----------------------------
(* Containers of an ordinary namespace (c1), of one with rules (c2) and of  *)
(* an exempt one (c3).                                                      *)
EXTENDS Containers, TLC

CONSTANTS c1, c2, c3, strict, loose, web, agents, system

Namespaces == c1 :> web @@ c2 :> agents @@ c3 :> system

Rule(default, allowed) == agents :> [default |-> default, allowed |-> allowed]
PolicySet ==
  {[profiles |-> {strict, loose}, rules |-> Rule(strict, {strict})],
   [profiles |-> {strict}, rules |-> Rule(NoName, {strict})],
   [profiles |-> {strict, loose}, rules |-> <<>>]}

\* Two annotated pods, a policy change and a death of the daemon.
Changing ==
  [pods |-> c1 :> loose @@ c2 :> strict, fail_open |-> FALSE,
   applies |-> 1, deaths |-> 1, drops |-> 0, failures |-> 1]

\* The plugin loses its connection once, with an annotated and an exempt pod, and
\* requests for one of them fail.
Dropping ==
  [pods |-> c1 :> loose @@ c3 :> NoName, fail_open |-> FALSE,
   applies |-> 0, deaths |-> 0, drops |-> 1, failures |-> 1]

\* A pod that takes its namespace's default, and failurePolicy Ignore.
Open ==
  [pods |-> c2 :> NoName, fail_open |-> TRUE,
   applies |-> 1, deaths |-> 1, drops |-> 1, failures |-> 1]

MCClusters == {Changing, Dropping, Open}
=============================================================================
