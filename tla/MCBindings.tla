---------------------------- MODULE MCBindings ----------------------------
(* A static cgroup s, an agent's cgroup g, and a container's cgroup k.      *)
(* The policies add, move and drop profiles and static bindings; one binds  *)
(* the agent's own cgroup, one a container's.                               *)
EXTENDS Bindings, TLC

CONSTANTS s, g, k, a, d

OnlyA == [profiles |-> <<a>>, static |-> s :> a]
Moved == [profiles |-> <<a, d>>, static |-> s :> d]
OnlyD == [profiles |-> <<d>>, static |-> <<>>]
TakesAgent == [profiles |-> <<a>>, static |-> g :> a]
TakesContainer == [profiles |-> <<a, d>>, static |-> k :> a]
NoStatic == [profiles |-> <<a, d>>, static |-> <<>>]

Level(ofs, ofg, ofk) == s :> ofs @@ g :> ofg @@ k :> ofk

\* An agent within the walk's reach and a container below it; the state file is
\* always up to date.
Plain ==
  [agents |-> {g}, containers |-> {k}, delegated |-> {}, level |-> Level(1, 2, 3),
   policies |-> {OnlyA, Moved, OnlyD, TakesAgent}, lag |-> FALSE, loss |-> FALSE]

\* Delegated containers only, one of them deeper than the walk reaches.
Nested ==
  [agents |-> {}, containers |-> {g, k}, delegated |-> {g, k}, level |-> Level(1, 2, 3),
   policies |-> {OnlyD, NoStatic}, lag |-> FALSE, loss |-> FALSE]

\* Restarts may lose the state file.
Forgetful ==
  [agents |-> {}, containers |-> {k}, delegated |-> {}, level |-> Level(1, 2, 3),
   policies |-> {OnlyA, OnlyD, TakesContainer}, lag |-> FALSE, loss |-> TRUE]

\* The same, and the sensor may die inside an operation or fail to save.
Dying ==
  [agents |-> {}, containers |-> {k}, delegated |-> {}, level |-> Level(1, 2, 2),
   policies |-> {OnlyD, TakesContainer}, lag |-> TRUE, loss |-> TRUE]

MCHosts == {Plain, Nested, Forgetful, Dying}
===========================================================================
