--------------------------- MODULE BindingsProofs ---------------------------
(***************************************************************************)
(* Bindings keep their meaning, for any cgroups, profiles, policies and    *)
(* histories of applies, agents, containers, quarantines and restarts.     *)
(*                                                                         *)
(* The inductive invariant says of any record the sensor keeps, in memory  *)
(* or in its state file, that it is consistent in itself (RecordOK), and   *)
(* of a record that is not behind that it says what the kernel holds       *)
(* (Agrees).  While sync_bindings runs, the bindings still to be written   *)
(* are ones that leave the record so (Pending).                            *)
(***************************************************************************)
EXTENDS Bindings, FiniteSetTheorems, TLAPS

Id == Nat \cup {None}
Allocated(ids) == {n \in AllNames : ids[n] # None}
Listed(pol) == {n \in AllNames : n = Quarantine \/ InPolicy(pol, n)}

\* Ids are handed out once each, from 0 up.
IdsOK(ids) ==
  /\ \A m, n \in Allocated(ids) : ids[m] = ids[n] => m = n
  /\ \A n \in Allocated(ids) : ids[n] < Cardinality(Allocated(ids))

TypeInv ==
  /\ host \in Hosts
  /\ life \in [Cgroups -> {"unborn", "alive", "gone"}]
  /\ kbind \in [Cgroups -> Id]
  /\ DOMAIN kprof \subseteq Nat
  /\ engine \in Engines(host)
  /\ saved \in Engines(host) \cup {NoPolicy}
  /\ wanted \in [Cgroups -> Id]
  /\ pc \in {"idle", "remove", "write", "save", "save_publish", "publish", "down"}
  /\ failed \subseteq Cgroups /\ adoptees \subseteq Cgroups
  /\ meant \in [Cgroups -> AllNames \cup {NoName}]
  /\ pc = "down" => engine = NewEngine

\* What holds of any record of the sensor, however old.
RecordOK(e) ==
  /\ IdsOK(e.ids)
  /\ e.policy # NoPolicy => \A n \in Listed(e.policy) : e.ids[n] # None
  /\ \A c \in Cgroups : e.bindings[c] # None \/ e.dynamic[c] # NoName \/ e.adopted[c] # None =>
       life[c] # "unborn"
  /\ \A c \in Cgroups : e.dynamic[c] # NoName =>
       /\ e.adopted[c] = None
       /\ e.policy # NoPolicy /\ e.dynamic[c] \in Listed(e.policy)
       /\ ~AllowDelegated /\ c \in Delegated => LevelOf[c] <= MaxDepth

\* What holds of a record that is not behind.
Agrees(e) ==
  /\ e.bindings = kbind
  /\ e.policy # NoPolicy =>
       /\ \A i \in DOMAIN kprof : \E n \in Listed(e.policy) : e.ids[n] = i
       /\ \A n \in Listed(e.policy) : e.ids[n] \in DOMAIN kprof /\ kprof[e.ids[n]] = n
  /\ \A c \in Cgroups : e.dynamic[c] # NoName =>
       /\ kbind[c] # None
       /\ c \notin contested => kbind[c] = e.ids[e.dynamic[c]] \/ kbind[c] = e.ids[Quarantine]

\* The same, of one that goes back to the first start of the sensor.
Meant(e) ==
  /\ \A c \in Cgroups : e.adopted[c] = None
  /\ \A c \in Cgroups : kbind[c] # None =>
       e.policy # NoPolicy /\ meant[c] \in AllNames /\ e.ids[meant[c]] = kbind[c]
  /\ \A c \in e.quarantined : kbind[c] = e.ids[Quarantine] /\ kbind[c] # None

\* While no operation is half way.
Still == pc \in {"idle", "publish", "down"}

RecordInv == RecordOK(engine) /\ (saved # NoPolicy => RecordOK(saved))

AgreeInv ==
  ~StateMayLag =>
    /\ pc # "down" => Agrees(engine) /\ (~lost => Meant(engine))
    /\ Still /\ saved # NoPolicy => Agrees(saved) /\ (~lost => Meant(saved))
    /\ Still /\ saved = NoPolicy => kbind = Unbound
    /\ pc = "publish" => saved # NoPolicy

\* What sync_bindings has still to write.
Attributed(c) ==
  \/ c \in engine.quarantined
  \/ c \in DOMAIN engine.policy.static
  \/ engine.dynamic[c] # NoName

Pending ==
  /\ engine.policy # NoPolicy
  /\ \A c \in Bound(wanted) : life[c] # "unborn"
  /\ pc = "write" => Bound(engine.bindings) \subseteq Bound(wanted)
  /\ \A c \in adoptees : life[c] = "alive" /\ pc = "remove" => wanted[c] # None
  /\ Cardinality(Bound(wanted)) <= CapBindings
  /\ ~StateMayLag => \A c \in Cgroups : engine.dynamic[c] # NoName =>
       /\ wanted[c] # None
       /\ c \notin contested =>
            wanted[c] = engine.ids[engine.dynamic[c]] \/ wanted[c] = engine.ids[Quarantine]
  /\ ~StateMayLag /\ ~lost =>
       /\ \A c \in engine.quarantined : wanted[c] = engine.ids[Quarantine]
       /\ \A c \in Unwritten : Attributed(c) /\ NameOf(c) \in AllNames /\ wanted[c] = engine.ids[NameOf(c)]

PendingInv == pc \in {"remove", "write"} => Pending

AdoptInv ==
  /\ \A c \in Cgroups : kbind[c] # None => life[c] # "unborn"
  /\ \A c \in adoptees : life[c] # "unborn"
  /\ \A c \in adoptees : life[c] = "alive" => kbind[c] # None
  /\ pc # "down" => \A c \in adoptees : life[c] = "alive" => engine.adopted[c] # None

MaskInv ==
  ~StateMayLag /\ ~mask_old /\ failed = {} /\ pc \in {"idle", "save", "down"} =>
    \A c \in Bound(kbind) : LevelOf[c] \in klevels <=> LevelOf[c] <= MaxDepth

\* What was put in quarantine is in the record, and in one that is not behind.
ConfinedInv ==
  /\ confined \subseteq Cgroups
  /\ ~StateMayLag /\ ~lost =>
       \A c \in confined : life[c] # "gone" =>
         /\ pc # "down" => c \in engine.quarantined
         /\ Still => saved # NoPolicy /\ c \in saved.quarantined

IInv == TypeInv /\ RecordInv /\ AgreeInv /\ PendingInv /\ AdoptInv /\ MaskInv
-----------------------------------------------------------------------------
\* What the assumptions say of the host the behaviour takes place on.
LEMMA HostFacts ==
  ASSUME host \in Hosts
  PROVE  /\ Agents \subseteq Cgroups /\ Containers \subseteq Cgroups
         /\ Delegated \subseteq Containers /\ Agents \cap Containers = {}
         /\ LevelOf \in [Cgroups -> Nat \ {0}]
         /\ NoPolicy \notin Policies /\ NoPolicy \notin Engines(host)
         /\ \A pol \in Policies : PolicyOK(pol)
  BY BindingAssumptions, Zenon DEF Agents, Containers, Delegated, LevelOf, Policies

\* The host stays the same.
LEMMA SameHost ==
  ASSUME host' = host
  PROVE  /\ Agents' = Agents /\ Containers' = Containers /\ Delegated' = Delegated
         /\ LevelOf' = LevelOf /\ Policies' = Policies /\ Engines(host)' = Engines(host)
         /\ StateMayLag' = StateMayLag /\ StateLoss' = StateLoss
  BY DEF Agents, Containers, Delegated, LevelOf, Policies, StateMayLag, StateLoss

\* Names are finitely many.
LEMMA NamesFinite == IsFiniteSet(AllNames)
  BY BindingAssumptions, FS_AddElement DEF AllNames

\* The fields of a record of the sensor.
LEMMA Fields ==
  ASSUME NEW h, NEW e \in Engines(h)
  PROVE  /\ e.ids \in [AllNames -> Id] /\ e.policy \in h.policies \cup {NoPolicy}
         /\ e.bindings \in [Cgroups -> Id] /\ e.pathless \subseteq Cgroups
         /\ e.quarantined \subseteq Cgroups /\ e.dynamic \in [Cgroups -> Names \cup {NoName}]
         /\ e.adopted \in [Cgroups -> Id]
  BY DEF Engines, Id

\* The names of a policy, and the quarantine profile's, are those it numbers.
LEMMA ListedNames ==
  ASSUME NEW pol, PolicyOK(pol)
  PROVE  /\ Quarantine \in Listed(pol) /\ Listed(pol) \subseteq AllNames
         /\ \A i \in DOMAIN Profiles(pol) : Profiles(pol)[i] \in Listed(pol)
         /\ \A n \in Listed(pol) : \E i \in DOMAIN Profiles(pol) : Profiles(pol)[i] = n
         /\ \A i, j \in DOMAIN Profiles(pol) : Profiles(pol)[i] = Profiles(pol)[j] => i = j
         /\ DOMAIN Profiles(pol) = 1..Len(Profiles(pol)) /\ Len(Profiles(pol)) \in Nat
         /\ \A c \in DOMAIN pol.static : pol.static[c] \in Listed(pol) \cap Names
  <1> DEFINE p == pol.profiles
  <1>1. /\ p \in Seq(Names) /\ DOMAIN p = 1..Len(p) /\ Len(p) \in Nat
        /\ \A i \in 1..Len(p) : p[i] \in Names
    BY DEF PolicyOK
  <1>2. /\ DOMAIN Profiles(pol) = 1..(Len(p) + 1) /\ Len(Profiles(pol)) = Len(p) + 1
        /\ \A i \in 1..Len(p) : Profiles(pol)[i] = p[i]
        /\ Profiles(pol)[Len(p) + 1] = Quarantine
    BY <1>1 DEF Profiles
  <1>3. \A n \in AllNames : InPolicy(pol, n) <=> \E i \in 1..Len(p) : p[i] = n
    BY <1>1 DEF InPolicy
  <1>4. Quarantine \notin Names /\ AllNames = Names \cup {Quarantine}
    BY BindingAssumptions DEF AllNames
  <1>5. \A i, j \in 1..Len(p) : p[i] = p[j] => i = j
    BY <1>1 DEF PolicyOK
  <1>6. \A c \in DOMAIN pol.static : \E i \in 1..Len(p) : p[i] = pol.static[c]
    BY <1>1 DEF PolicyOK
  <1> HIDE DEF p
  <1>7. Quarantine \in Listed(pol) /\ Listed(pol) \subseteq AllNames
    BY <1>4 DEF Listed
  <1>8. \A i \in 1..Len(p) : p[i] \in Listed(pol)
    BY <1>1, <1>3, <1>4 DEF Listed
  <1>9. \A i \in DOMAIN Profiles(pol) : Profiles(pol)[i] \in Listed(pol)
    BY <1>1, <1>2, <1>7, <1>8
  <1>10. \A n \in Listed(pol) : \E i \in DOMAIN Profiles(pol) : Profiles(pol)[i] = n
    BY <1>1, <1>2, <1>3 DEF Listed
  <1>11. \A i, j \in DOMAIN Profiles(pol) : Profiles(pol)[i] = Profiles(pol)[j] => i = j
    BY <1>1, <1>2, <1>4, <1>5
  <1>12. \A c \in DOMAIN pol.static : pol.static[c] \in Listed(pol) \cap Names
    BY <1>1, <1>6, <1>8
  <1> QED
    BY <1>1, <1>2, <1>7, <1>9, <1>10, <1>11, <1>12

\* ProfileIds::id: names keep their ids, a policy's names all get one, and no id
\* is given twice.
LEMMA Allocation ==
  ASSUME NEW ids \in [AllNames -> Id], IdsOK(ids), NEW pol, PolicyOK(pol)
  PROVE  /\ Allocate(ids, pol) \in [AllNames -> Id]
         /\ IdsOK(Allocate(ids, pol))
         /\ \A n \in AllNames : ids[n] # None => Allocate(ids, pol)[n] = ids[n]
         /\ \A n \in Listed(pol) : Allocate(ids, pol)[n] # None
  <1> DEFINE new == Allocate(ids, pol)
             seq == Profiles(pol)
             next == Cardinality(Allocated(ids))
             before(i) == {j \in 1..(i - 1) : ids[seq[j]] = None}
             size(i) == Cardinality(before(i))
             place(n) == CHOOSE i \in DOMAIN seq : seq[i] = n
             New == {n \in Listed(pol) : ids[n] = None}
  <1>1. /\ IsFiniteSet(Allocated(ids)) /\ next \in Nat
        /\ IsFiniteSet(New)
    <2>1. Allocated(ids) \subseteq AllNames /\ New \subseteq AllNames
      BY DEF Allocated, Listed
    <2> QED
      BY <2>1, NamesFinite, FS_Subset, FS_CardinalityType
  <1>2. \A n \in New : place(n) \in DOMAIN seq /\ seq[place(n)] = n
    BY ListedNames
  <1>3. \A i \in DOMAIN seq : seq[i] \in Listed(pol) /\ i \in Nat \ {0}
    BY ListedNames
  <1>4. \A n \in AllNames : new[n] = IF n \in New THEN next + size(place(n)) ELSE ids[n]
    <2>1. \A n \in AllNames : (\E i \in DOMAIN seq : seq[i] = n) <=> n \in Listed(pol)
      BY ListedNames
    <2>2. \A n \in AllNames : n \in New <=> ids[n] = None /\ \E i \in DOMAIN seq : seq[i] = n
      BY <2>1
    <2> QED
      BY <2>2, Zenon DEF Allocate, Allocated
  <1>5. \A i \in DOMAIN seq : IsFiniteSet(before(i)) /\ size(i) \in Nat
    <2> SUFFICES ASSUME NEW i \in DOMAIN seq PROVE IsFiniteSet(before(i)) /\ size(i) \in Nat
      OBVIOUS
    <2>1. IsFiniteSet(1..(i - 1))
      BY <1>3, FS_Interval
    <2>2. before(i) \subseteq 1..(i - 1)
      OBVIOUS
    <2> QED
      BY <2>1, <2>2, FS_Subset, FS_CardinalityType, Zenon
  <1>6. ASSUME NEW m \in New, NEW n \in New, place(m) < place(n)
        PROVE  size(place(m)) < size(place(n))
    <2> DEFINE i == place(m)
               j == place(n)
    <2>1. i \in Nat \ {0} /\ j \in Nat \ {0} /\ i < j /\ i \in DOMAIN seq /\ j \in DOMAIN seq /\ ids[seq[i]] = None
      BY <1>2, <1>3, <1>6
    <2> HIDE DEF i, j
    <2>2. i \notin before(i) /\ before(i) \cup {i} \subseteq before(j)
      BY <2>1
    <2>3. Cardinality(before(i) \cup {i}) = size(i) + 1
      BY <1>5, <2>1, <2>2, FS_AddElement, Zenon
    <2>4. Cardinality(before(i) \cup {i}) <= Cardinality(before(j))
      BY <1>5, <2>1, <2>2, FS_Subset, Zenon
    <2>5. size(i) \in Nat /\ size(j) \in Nat
      BY <1>5, <2>1, Zenon
    <2> HIDE DEF size, before
    <2>6. size(i) + 1 <= size(j)
      BY <2>3, <2>4 DEF size
    <2>7. size(i) < size(j)
      BY <2>5, <2>6
    <2> QED
      BY <2>7 DEF i, j
  <1>7. ASSUME NEW n \in New
        PROVE  size(place(n)) < Cardinality(New)
    <2> DEFINE i == place(n)
               S == before(i) \cup {i}
               f == [j \in S |-> seq[j]]
    <2>1. i \in Nat \ {0} /\ i \in DOMAIN seq /\ seq[i] = n
      BY <1>2, <1>3
    <2> HIDE DEF i
    <2>2. i \notin before(i)
      BY <2>1
    <2>3. Cardinality(S) = size(i) + 1
      BY <1>5, <2>1, <2>2, FS_AddElement, Zenon
    <2>4. \A j \in S : j \in DOMAIN seq /\ ids[seq[j]] = None
      BY <2>1, ListedNames
    <2>5. f \in [S -> New]
      BY <1>3, <2>4, Zenon
    <2>6. \A j, k \in S : f[j] = f[k] => j = k
      BY <2>4, ListedNames
    <2>7. f \in Injection(S, New)
      BY <2>5, <2>6, Zenon DEF Injection, IsInjective
    <2>8. Cardinality(S) <= Cardinality(New)
      BY <2>7, <1>1, FS_Injection
    <2>9. size(i) \in Nat /\ Cardinality(New) \in Nat
      BY <1>1, <1>5, <2>1, FS_CardinalityType, Zenon
    <2> HIDE DEF size, New, S
    <2>10. size(i) < Cardinality(New)
      BY <2>3, <2>8, <2>9
    <2> QED
      BY <2>10 DEF i
  <1> HIDE DEF size, before, place
  <1>8. new \in [AllNames -> Id]
    <2>1. \A n \in AllNames : new[n] \in Id
      <3>1. \A n \in New : size(place(n)) \in Nat
        BY <1>2, <1>5
      <3> HIDE DEF next, new, New
      <3> QED
        BY <1>1, <1>4, <3>1 DEF Id
    <2>2. new = [n \in AllNames |-> new[n]]
      BY DEF Allocate
    <2> QED
      BY <2>1, <2>2, Zenon
  <1>9. \A n \in AllNames : ids[n] # None => new[n] = ids[n]
    BY <1>4
  <1>10. \A n \in New : new[n] # None /\ new[n] \in Nat /\ new[n] >= next /\ new[n] < next + Cardinality(New)
    <2> SUFFICES ASSUME NEW n \in New
                 PROVE  new[n] # None /\ new[n] \in Nat /\ new[n] >= next /\ new[n] < next + Cardinality(New)
      OBVIOUS
    <2>1. n \in AllNames
      BY DEF Listed
    <2>2. new[n] = next + size(place(n))
      BY <1>4, <2>1
    <2>3. size(place(n)) \in Nat /\ Cardinality(New) \in Nat
      BY <1>1, <1>2, <1>5, FS_CardinalityType
    <2>4. size(place(n)) < Cardinality(New)
      BY <1>7
    <2> HIDE DEF next, new, New
    <2> QED
      BY <1>1, <2>2, <2>3, <2>4 DEF None
  <1>11. \A n \in Listed(pol) : new[n] # None
    BY <1>9, <1>10, Zenon DEF Listed
  <1>12. Allocated(new) = Allocated(ids) \cup New
    BY <1>4, <1>10, Zenon DEF Allocated, Listed
  <1>13. Cardinality(Allocated(new)) = next + Cardinality(New)
    <2>1. Allocated(ids) \cap New = {}
      BY DEF Allocated
    <2>2. next \in Nat /\ Cardinality(New) \in Nat
      BY <1>1, FS_CardinalityType
    <2>3. Cardinality(Allocated(ids) \cup New) = next + Cardinality(New) - Cardinality(Allocated(ids) \cap New)
      BY <1>1, FS_Union
    <2>4. Cardinality(Allocated(ids) \cap New) = 0
      BY <2>1, FS_EmptySet
    <2> HIDE DEF next, new, New
    <2> QED
      BY <1>12, <2>2, <2>3, <2>4
  <1> HIDE DEF next, New, new
  <1>14. \A n \in Allocated(ids) : new[n] = ids[n] /\ new[n] \in Nat /\ new[n] < next
    BY <1>9 DEF IdsOK, Allocated, Id, next
  <1>15. \A n \in Allocated(new) : new[n] < Cardinality(Allocated(new))
    BY <1>1, <1>10, <1>12, <1>13, <1>14, FS_CardinalityType
  <1>16. ASSUME NEW m \in New, NEW n \in New, new[m] = new[n] PROVE m = n
    <2>1. m \in AllNames /\ n \in AllNames
      BY DEF New, Listed
    <2>2. new[m] = next + size(place(m)) /\ new[n] = next + size(place(n))
      BY <1>4, <2>1
    <2>3. place(m) \in Nat /\ place(n) \in Nat
      BY <1>2, <1>3
    <2>4. size(place(m)) \in Nat /\ size(place(n)) \in Nat
      BY <1>2, <1>5
    <2>5. size(place(m)) = size(place(n))
      <3>1. next + size(place(m)) = next + size(place(n))
        BY <1>16, <2>2, Zenon
      <3>2. \A i, j, k \in Nat : i + j = i + k => j = k
        OBVIOUS
      <3> QED
        BY <1>1, <2>4, <3>1, <3>2, Zenon
    <2>6. ~(place(m) < place(n)) /\ ~(place(n) < place(m))
      BY <1>6, <2>4, <2>5
    <2>7. place(m) = place(n)
      BY <2>3, <2>6
    <2> QED
      BY <1>2, <2>7
  <1>17. \A m, n \in Allocated(new) : new[m] = new[n] => m = n
    <2> SUFFICES ASSUME NEW m \in Allocated(new), NEW n \in Allocated(new), new[m] = new[n] PROVE m = n
      OBVIOUS
    <2>1. CASE m \in New /\ n \in New
      BY <1>16, <2>1
    <2>2. CASE m \in Allocated(ids) /\ n \in Allocated(ids)
      BY <1>14, <2>2 DEF IdsOK
    <2>3. CASE (m \in New /\ n \in Allocated(ids)) \/ (n \in New /\ m \in Allocated(ids))
      BY <1>1, <1>10, <1>14, <2>3
    <2> QED
      BY <1>12, <2>1, <2>2, <2>3
  <1>18. IdsOK(new)
    BY <1>15, <1>17 DEF IdsOK
  <1> QED
    BY <1>8, <1>9, <1>11, <1>18 DEF new
-----------------------------------------------------------------------------
\* A sensor that has just started knows nothing.
LEMMA FreshEngine ==
  /\ NewEngine.ids = [n \in AllNames |-> None] /\ NewEngine.policy = NoPolicy
  /\ NewEngine.bindings = Unbound /\ NewEngine.pathless = {}
  /\ NewEngine.quarantined = {} /\ NewEngine.dynamic = [c \in Cgroups |-> NoName]
  /\ NewEngine.adopted = Unbound /\ NewEngine \in Engines(host)
  BY DEF NewEngine, Engines, Unbound

\* The initial states satisfy the invariant.
LEMMA InitIInv == Init => IInv
  <1> SUFFICES ASSUME Init PROVE IInv
    OBVIOUS
  <1> USE DEF Init
  <1>2. TypeInv
    BY FreshEngine DEF TypeInv, Unbound, Id
  <1>3. Allocated(NewEngine.ids) = {}
    BY FreshEngine DEF Allocated
  <1>4. RecordInv
    BY FreshEngine, <1>3, SMT DEF RecordInv, RecordOK, IdsOK, Unbound
  <1>5. AgreeInv
    BY FreshEngine, SMT DEF AgreeInv, Agrees, Meant, Still, Unbound
  <1>6. PendingInv /\ AdoptInv /\ MaskInv
    BY DEF PendingInv, AdoptInv, MaskInv, Unbound, Bound
  <1> QED
    BY <1>2, <1>4, <1>5, <1>6 DEF IInv

\* What the sensor knows agrees with the kernel, at every step.
LEMMA KnownAgrees ==
  ASSUME IInv, ~StateMayLag
  PROVE  \/ Agrees(Known) /\ RecordOK(Known) /\ (~lost => Meant(Known)) /\ Known \in Engines(host)
         \/ Known = NewEngine /\ kbind = Unbound
  <1>1. CASE pc = "down" /\ saved # NoPolicy
    BY <1>1, Zenon DEF IInv, TypeInv, RecordInv, AgreeInv, Still, Known
  <1>2. CASE pc = "down" /\ saved = NoPolicy
    BY <1>2, Zenon DEF IInv, TypeInv, AgreeInv, Still, Known
  <1>3. CASE pc # "down"
    BY <1>3, Zenon DEF IInv, TypeInv, RecordInv, AgreeInv, Still, Known
  <1> QED
    BY <1>1, <1>2, <1>3

\* The policy of a record is one of the host's.
LEMMA KnownPolicy ==
  ASSUME host \in Hosts, NEW e \in Engines(host), e.policy # NoPolicy
  PROVE  PolicyOK(e.policy) /\ e.policy \in Policies
  BY HostFacts, Fields DEF Policies

\* The invariant implies what the runs check.
LEMMA Implied == IInv => /\ BeliefIsKernel /\ BindingKeepsMeaning /\ AgentsStayGoverned
                         /\ DescendantsGoverned /\ RoomForEveryBinding /\ AdoptedStayBound
  <1> SUFFICES ASSUME IInv
               PROVE  /\ BeliefIsKernel /\ BindingKeepsMeaning /\ AgentsStayGoverned
                      /\ DescendantsGoverned /\ RoomForEveryBinding /\ AdoptedStayBound
    OBVIOUS
  <1>0. host \in Hosts /\ kbind \in [Cgroups -> Id] /\ DOMAIN kprof \subseteq Nat
    BY DEF IInv, TypeInv
  <1>n. None \notin Nat
    BY DEF None
  <1>1. BeliefIsKernel
    BY Zenon DEF BeliefIsKernel, Settled, IInv, AgreeInv, Agrees
  <1>2. BindingKeepsMeaning
    <2> SUFFICES ASSUME ~lost, ~StateMayLag, NEW c \in Cgroups, kbind[c] \in DOMAIN kprof
                 PROVE  kprof[kbind[c]] = meant[c]
      BY DEF BindingKeepsMeaning
    <2>1. kbind[c] # None
      BY <1>0, <1>n
    <2>2. kbind # Unbound
      BY <2>1 DEF Unbound
    <2>3. Agrees(Known) /\ RecordOK(Known) /\ Meant(Known) /\ Known \in Engines(host)
      BY <2>2, KnownAgrees
    <2>4. Known.policy # NoPolicy /\ meant[c] \in AllNames /\ Known.ids[meant[c]] = kbind[c]
      BY <2>1, <2>3, Zenon DEF Meant
    <2>5. PICK n \in Listed(Known.policy) : Known.ids[n] = kbind[c]
      BY <2>3, <2>4, Zenon DEF Agrees
    <2>6. kprof[kbind[c]] = n
      BY <2>3, <2>4, <2>5, Zenon DEF Agrees
    <2>7. n \in Allocated(Known.ids) /\ meant[c] \in Allocated(Known.ids)
      BY <2>1, <2>4, <2>5, Zenon DEF Allocated, Listed
    <2>8. n = meant[c]
      BY <2>3, <2>4, <2>5, <2>7, Zenon DEF RecordOK, IdsOK
    <2> QED
      BY <2>6, <2>8
  <1>3. AgentsStayGoverned
    <2> SUFFICES ASSUME ~StateMayLag, NEW c \in Cgroups, Known.dynamic[c] # NoName
                 PROVE  /\ kbind[c] # None
                        /\ c \notin contested =>
                             kbind[c] \in DOMAIN kprof /\ kprof[kbind[c]] \in {Known.dynamic[c], Quarantine}
      BY Zenon DEF AgentsStayGoverned, Dynamic
    <2>1. Known # NewEngine
      BY FreshEngine
    <2>2. Agrees(Known) /\ RecordOK(Known) /\ Known \in Engines(host)
      BY <2>1, KnownAgrees
    <2>3. Known.policy # NoPolicy /\ Known.dynamic[c] \in Listed(Known.policy)
      BY <2>2, Zenon DEF RecordOK
    <2>4. Quarantine \in Listed(Known.policy)
      BY <1>0, <2>2, <2>3, KnownPolicy, ListedNames
    <2>5. /\ kbind[c] # None
          /\ c \notin contested => kbind[c] = Known.ids[Known.dynamic[c]] \/ kbind[c] = Known.ids[Quarantine]
      BY <2>2, Zenon DEF Agrees
    <2> QED
      BY <2>2, <2>3, <2>4, <2>5, Zenon DEF Agrees
  <1>4. DescendantsGoverned
    <2> SUFFICES ASSUME pc = "idle", ~StateMayLag, failed = {}, ~mask_old
                 PROVE  /\ \A above \in Lineages :
                             rk_governed_binding(above)
                               = Deepest({c \in above \cap Bound(kbind) : LevelOf[c] <= MaxDepth})
                        /\ ~AllowDelegated => \A c \in Delegated : engine.dynamic[c] # NoName => LevelOf[c] \in klevels
      BY Zenon DEF DescendantsGoverned, Settled
    <2>1. \A c \in Bound(kbind) : LevelOf[c] \in klevels <=> LevelOf[c] <= MaxDepth
      BY Zenon DEF IInv, MaskInv
    <2>2. ASSUME NEW above \in Lineages
          PROVE  rk_governed_binding(above)
                   = Deepest({c \in above \cap Bound(kbind) : LevelOf[c] <= MaxDepth})
      <3>1. above \subseteq Cgroups
        BY DEF Lineages
      <3>2. {c \in above : LevelOf[c] \in klevels /\ kbind[c] # None}
              = {c \in above \cap Bound(kbind) : LevelOf[c] <= MaxDepth}
        BY <2>1, <3>1 DEF Bound
      <3> QED
        BY <3>2, Zenon DEF rk_governed_binding
    <2>3. ASSUME ~AllowDelegated, NEW c \in Delegated, engine.dynamic[c] # NoName
          PROVE  LevelOf[c] \in klevels
      <3>1. c \in Cgroups
        BY <1>0, HostFacts
      <3>2. RecordOK(engine) /\ Agrees(engine) /\ engine \in Engines(host)
        BY Zenon DEF IInv, RecordInv, AgreeInv, TypeInv
      <3>3. LevelOf[c] <= MaxDepth /\ engine.policy # NoPolicy /\ engine.dynamic[c] \in Listed(engine.policy)
        BY <2>3, <3>1, <3>2, Zenon DEF RecordOK
      <3>4. kbind[c] # None
        BY <2>3, <3>1, <3>2, Zenon DEF Agrees
      <3> QED
        BY <2>1, <3>1, <3>3, <3>4 DEF Bound
    <2> QED
      BY <2>2, <2>3
  <1>5. RoomForEveryBinding
    <2> SUFFICES ASSUME pc = "write", ~StateMayLag, NEW c \in Unwritten, kbind[c] = None
                 PROVE  Cardinality(Bound(kbind)) < CapBindings
      BY Zenon DEF RoomForEveryBinding
    <2>1. Pending /\ engine.bindings = kbind
      BY Zenon DEF IInv, PendingInv, AgreeInv, Agrees
    <2>2. Bound(kbind) \cup {c} \subseteq Bound(wanted) /\ c \notin Bound(kbind)
      BY <2>1 DEF Pending, Unwritten, Bound
    <2>3. IsFiniteSet(Bound(wanted)) /\ IsFiniteSet(Bound(kbind))
      BY BindingAssumptions, FS_Subset DEF Bound
    <2>4. Cardinality(Bound(kbind) \cup {c}) = Cardinality(Bound(kbind)) + 1
      BY <2>2, <2>3, FS_AddElement, Zenon
    <2>5. Cardinality(Bound(kbind) \cup {c}) <= Cardinality(Bound(wanted))
      BY <2>2, <2>3, FS_Subset
    <2>6. Cardinality(Bound(wanted)) <= CapBindings
      BY <2>1 DEF Pending
    <2>7. Cardinality(Bound(wanted)) \in Nat /\ Cardinality(Bound(kbind)) \in Nat /\ CapBindings \in Nat
      BY <2>3, FS_CardinalityType, BindingAssumptions
    <2> QED
      BY <2>4, <2>5, <2>6, <2>7
  <1>6. AdoptedStayBound
    BY Zenon DEF AdoptedStayBound, IInv, AdoptInv, Alive
  <1> QED
    BY <1>1, <1>2, <1>3, <1>4, <1>5, <1>6
-----------------------------------------------------------------------------
\* Cgroups are not reborn.
LifeGoesOn ==
  /\ life' \in [Cgroups -> {"unborn", "alive", "gone"}]
  /\ \A c \in Cgroups : life[c] # "unborn" => life'[c] # "unborn"
  /\ \A c \in Cgroups : life'[c] = "alive" => life[c] \in {"unborn", "alive"}

\* Records stay consistent while cgroups come and go.
LEMMA RecordsStay ==
  ASSUME host' = host, LifeGoesOn
  PROVE  /\ saved' = saved /\ (saved # NoPolicy => RecordOK(saved)) => (saved' # NoPolicy => RecordOK(saved)')
         /\ engine' = engine /\ RecordOK(engine) => RecordOK(engine)'
  BY SameHost, Zenon DEF RecordOK, LifeGoesOn

\* A step in which only cgroups come and go.
LEMMA LifeStep ==
  ASSUME IInv, LifeGoesOn, UNCHANGED <<host, kernel, engine, pc, wanted, failed, saved, history>>
  PROVE  IInv'
  <1> USE SameHost DEF kernel, mask, history, marks
  <1>1. TypeInv'
    BY Zenon DEF IInv, TypeInv, LifeGoesOn
  <1>2. RecordInv'
    BY RecordsStay, Zenon DEF IInv, RecordInv
  <1>3. AgreeInv'
    BY Zenon DEF IInv, AgreeInv, Agrees, Meant, Still
  <1>4. AdoptInv'
    BY DEF IInv, TypeInv, AdoptInv, LifeGoesOn
  <1>5. PendingInv'
    <2> SUFFICES ASSUME pc \in {"remove", "write"}, Pending PROVE Pending'
      BY DEF IInv, PendingInv
    <2>1. \A c \in Bound(wanted) : life'[c] # "unborn"
      BY DEF Pending, LifeGoesOn, Bound
    <2>2. \A c \in adoptees : life'[c] = "alive" /\ pc = "remove" => wanted[c] # None
      BY DEF Pending, LifeGoesOn, IInv, AdoptInv, TypeInv
    <2>3. UNCHANGED <<Unwritten, Bound(wanted), Bound(engine.bindings)>>
      BY DEF Unwritten, Bound
    <2>4. \A c \in Cgroups : NameOf(c)' = NameOf(c) /\ (Attributed(c)' <=> Attributed(c))
      BY DEF NameOf, Attributed
    <2>5. \A c \in Unwritten : c \in Cgroups
      BY DEF Unwritten, Bound
    <2> QED
      BY <2>1, <2>2, <2>3, <2>4, <2>5, Zenon DEF Pending
  <1>6. MaskInv'
    BY Zenon DEF IInv, MaskInv, Bound
  <1> QED
    BY <1>1, <1>2, <1>3, <1>4, <1>5, <1>6 DEF IInv

\* A step of a running sensor that writes id, or None, as the binding of cgroup c,
\* and what it sees to for the records to stay right.
OneChange(c, id, name) ==
  /\ pc # "down" /\ pc' \notin {"idle", "publish", "down"}
  /\ LifeGoesOn
  /\ id \in Id
  /\ engine'.ids = engine.ids /\ engine'.policy = engine.policy
  /\ engine'.bindings = [engine.bindings EXCEPT ![c] = id]
  /\ kbind' = [kbind EXCEPT ![c] = id] /\ meant' = [meant EXCEPT ![c] = name]
  /\ \A x \in Cgroups \ {c} :
       /\ engine'.dynamic[x] = engine.dynamic[x] /\ engine'.adopted[x] = engine.adopted[x]
       /\ x \in engine'.quarantined => x \in engine.quarantined
  /\ engine'.quarantined \subseteq Cgroups
  /\ id # None \/ engine'.dynamic[c] # NoName \/ engine'.adopted[c] # None => life'[c] # "unborn"
  /\ engine'.dynamic[c] # NoName =>
       /\ engine'.adopted[c] = None
       /\ engine.policy # NoPolicy /\ engine'.dynamic[c] \in Listed(engine.policy)
       /\ ~AllowDelegated /\ c \in Delegated => LevelOf[c] <= MaxDepth
       /\ ~StateMayLag =>
            /\ id # None
            /\ c \notin contested' => id = engine.ids[engine'.dynamic[c]] \/ id = engine.ids[Quarantine]
  /\ ~StateMayLag /\ ~lost =>
       /\ engine'.adopted[c] = None
       /\ id # None => engine.policy # NoPolicy /\ name \in AllNames /\ engine.ids[name] = id
       /\ c \in engine'.quarantined => id = engine.ids[Quarantine] /\ id # None
  /\ \A x \in Cgroups \ {c} : x \in contested => x \in contested'
  /\ adoptees' \subseteq adoptees
  /\ c \in adoptees' /\ life'[c] = "alive" => id # None /\ engine'.adopted[c] # None
  /\ host' = host /\ kprof' = kprof /\ saved' = saved /\ lost' = lost

\* Such a step keeps what holds of the records.
LEMMA OneBinding ==
  ASSUME IInv, NEW c \in Cgroups, NEW id, NEW name, OneChange(c, id, name)
  PROVE  RecordInv' /\ AgreeInv' /\ AdoptInv'
  <1> USE SameHost DEF OneChange
  <1>0. /\ kbind \in [Cgroups -> Id] /\ engine.bindings \in [Cgroups -> Id]
        /\ meant \in [Cgroups -> AllNames \cup {NoName}] /\ life \in [Cgroups -> {"unborn", "alive", "gone"}]
        /\ adoptees \subseteq Cgroups
    BY Fields DEF IInv, TypeInv
  <1>1. /\ kbind'[c] = id /\ engine'.bindings[c] = id /\ meant'[c] = name
        /\ \A x \in Cgroups \ {c} :
             kbind'[x] = kbind[x] /\ engine'.bindings[x] = engine.bindings[x] /\ meant'[x] = meant[x]
    BY <1>0
  <1>2. RecordInv'
    <2>1. RecordOK(engine)'
      <3>1. RecordOK(engine)
        BY DEF IInv, RecordInv
      <3>2. ASSUME NEW x \in Cgroups \ {c}
            PROVE  /\ engine'.bindings[x] # None \/ engine'.dynamic[x] # NoName \/ engine'.adopted[x] # None =>
                        life'[x] # "unborn"
                   /\ engine'.dynamic[x] # NoName =>
                        /\ engine'.adopted[x] = None
                        /\ engine.policy # NoPolicy /\ engine'.dynamic[x] \in Listed(engine.policy)
                        /\ ~AllowDelegated /\ x \in Delegated => LevelOf[x] <= MaxDepth
        BY <1>1, <3>1, Zenon DEF RecordOK, LifeGoesOn
      <3> QED
        BY <1>1, <3>1, <3>2, Zenon DEF RecordOK
    <2> QED
      BY <2>1, RecordsStay, Zenon DEF IInv, RecordInv
  <1>3. AgreeInv'
    <2>0. host' = host /\ kprof' = kprof /\ (lost' <=> lost) /\ ~Still'
      BY DEF Still
    <2> SUFFICES ASSUME ~StateMayLag PROVE Agrees(engine)' /\ (~lost => Meant(engine)')
      BY <2>0 DEF AgreeInv, Still
    <2>1. Agrees(engine) /\ (~lost => Meant(engine))
      BY Zenon DEF IInv, AgreeInv
    <2>2. engine'.bindings = kbind'
      BY <2>1, Zenon DEF Agrees
    <2>3. ASSUME NEW x \in Cgroups, engine'.dynamic[x] # NoName
          PROVE  /\ kbind'[x] # None
                 /\ x \notin contested' =>
                      kbind'[x] = engine.ids[engine'.dynamic[x]] \/ kbind'[x] = engine.ids[Quarantine]
      BY <1>1, <2>1, <2>3, Zenon DEF Agrees
    <2>4. Agrees(engine)'
      <3>1. engine.policy # NoPolicy =>
              /\ \A i \in DOMAIN kprof : \E n \in Listed(engine.policy) : engine.ids[n] = i
              /\ \A n \in Listed(engine.policy) : engine.ids[n] \in DOMAIN kprof /\ kprof[engine.ids[n]] = n
        BY <2>1, Zenon DEF Agrees
      <3>2. engine'.policy # NoPolicy =>
              /\ \A i \in DOMAIN kprof' : \E n \in Listed(engine'.policy) : engine'.ids[n] = i
              /\ \A n \in Listed(engine'.policy) :
                   engine'.ids[n] \in DOMAIN kprof' /\ kprof'[engine'.ids[n]] = n
        BY <2>0, <3>1
      <3> QED
        BY <2>2, <2>3, <3>2, Zenon DEF Agrees
    <2>5. ASSUME ~lost PROVE Meant(engine)'
      <3>1. Meant(engine)
        BY <2>1, <2>5, Zenon
      <3>2. \A x \in Cgroups : engine'.adopted[x] = None
        BY <2>5, <3>1, Zenon DEF Meant
      <3>3. \A x \in Cgroups : kbind'[x] # None =>
              engine.policy # NoPolicy /\ meant'[x] \in AllNames /\ engine.ids[meant'[x]] = kbind'[x]
        BY <1>1, <2>5, <3>1 DEF Meant
      <3>4. \A x \in engine'.quarantined : kbind'[x] = engine.ids[Quarantine] /\ kbind'[x] # None
        BY <1>1, <2>5, <3>1, Zenon DEF Meant
      <3> QED
        BY <3>2, <3>3, <3>4, Zenon DEF Meant
    <2> QED
      BY <2>4, <2>5
  <1>4. AdoptInv'
    <2>1. AdoptInv
      BY DEF IInv
    <2>2. \A x \in Cgroups : kbind'[x] # None => life'[x] # "unborn"
      BY <1>1, <2>1, Zenon DEF AdoptInv, LifeGoesOn
    <2>3. \A x \in adoptees' : x \in Cgroups /\ x \in adoptees /\ life[x] # "unborn" /\ life'[x] # "unborn"
      BY <1>0, <2>1, Zenon DEF AdoptInv, LifeGoesOn
    <2>4. \A x \in adoptees' : life'[x] = "alive" => life[x] = "alive"
      BY <2>3 DEF LifeGoesOn
    <2>5. \A x \in adoptees' : life'[x] = "alive" => kbind'[x] # None
      BY <1>1, <2>1, <2>3, <2>4, Zenon DEF AdoptInv
    <2>6. \A x \in adoptees' : life'[x] = "alive" => engine'.adopted[x] # None
      BY <2>1, <2>3, <2>4, Zenon DEF AdoptInv
    <2> QED
      BY <2>2, <2>3, <2>5, <2>6, Zenon DEF AdoptInv
  <1> QED
    BY <1>2, <1>3, <1>4
-----------------------------------------------------------------------------
\* A profile of the current policy has an id.
LEMMA PolicyIds ==
  ASSUME IInv, engine.policy # NoPolicy
  PROVE  /\ \A n \in Names : InPolicy(engine.policy, n) =>
              n \in Listed(engine.policy) /\ engine.ids[n] \in Nat /\ engine.ids[n] # None
         /\ \A c \in DOMAIN engine.policy.static :
              /\ engine.policy.static[c] \in Names /\ engine.policy.static[c] \in Listed(engine.policy)
              /\ engine.ids[engine.policy.static[c]] \in Nat /\ engine.ids[engine.policy.static[c]] # None
         /\ Quarantine \in Listed(engine.policy)
         /\ engine.ids[Quarantine] \in Nat /\ engine.ids[Quarantine] # None
         /\ \A n \in Listed(engine.policy) : n \in AllNames /\ engine.ids[n] \in Nat /\ engine.ids[n] # None
  <1>0. /\ host \in Hosts /\ kbind \in [Cgroups -> Id] /\ meant \in [Cgroups -> AllNames \cup {NoName}]
        /\ life \in [Cgroups -> {"unborn", "alive", "gone"}] /\ adoptees \subseteq Cgroups
        /\ engine \in Engines(host) /\ RecordOK(engine)
    BY DEF IInv, TypeInv, RecordInv
  <1>1. /\ engine.ids \in [AllNames -> Id] /\ engine.bindings \in [Cgroups -> Id]
        /\ engine.pathless \subseteq Cgroups /\ engine.quarantined \subseteq Cgroups
        /\ engine.dynamic \in [Cgroups -> Names \cup {NoName}] /\ engine.adopted \in [Cgroups -> Id]
        /\ engine.policy \in Policies \cup {NoPolicy}
    BY <1>0, Fields DEF Policies
  <1>2. PolicyOK(engine.policy)
    BY <1>0, KnownPolicy
  <1>3. \A n \in Listed(engine.policy) : engine.ids[n] # None
    BY <1>0 DEF RecordOK
  <1>4. \A n \in Listed(engine.policy) : n \in AllNames /\ engine.ids[n] \in Nat
    BY <1>1, <1>3 DEF Listed, Id
  <1>5. \A n \in Names : InPolicy(engine.policy, n) => n \in Listed(engine.policy)
    BY DEF Listed, AllNames
  <1> QED
    BY <1>2, <1>3, <1>4, <1>5, ListedNames, Zenon

\* bind_dynamic.
LEMMA BindDynamicStep ==
  ASSUME IInv, NEW c \in Cgroups, NEW name \in Names, BindDynamic(c, name)
  PROVE  IInv'
  <1>0. /\ host \in Hosts /\ kbind \in [Cgroups -> Id] /\ meant \in [Cgroups -> AllNames \cup {NoName}]
        /\ life \in [Cgroups -> {"unborn", "alive", "gone"}] /\ adoptees \subseteq Cgroups
        /\ engine \in Engines(host) /\ RecordOK(engine)
    BY DEF IInv, TypeInv, RecordInv
  <1>1. /\ engine.ids \in [AllNames -> Id] /\ engine.bindings \in [Cgroups -> Id]
        /\ engine.pathless \subseteq Cgroups /\ engine.quarantined \subseteq Cgroups
        /\ engine.dynamic \in [Cgroups -> Names \cup {NoName}] /\ engine.adopted \in [Cgroups -> Id]
        /\ engine.policy \in Policies \cup {NoPolicy}
    BY <1>0, Fields DEF Policies
  <1>2. /\ pc = "idle" /\ pc' = "save_publish" /\ c \in Agents /\ life[c] = "unborn"
        /\ life' = [life EXCEPT ![c] = "alive"]
        /\ engine.policy # NoPolicy /\ InPolicy(engine.policy, name)
        /\ kbind' = [kbind EXCEPT ![c] = engine.ids[name]] /\ meant' = [meant EXCEPT ![c] = name]
        /\ UNCHANGED <<host, kprof, mask, wanted, failed, saved, contested, adoptees, lost>>
    BY Zenon DEF BindDynamic, KernelBind, marks
  <1>3. /\ engine' \in Engines(host) /\ engine'.ids = engine.ids /\ engine'.policy = engine.policy
        /\ engine'.bindings = [engine.bindings EXCEPT ![c] = engine.ids[name]]
        /\ engine'.dynamic = [engine.dynamic EXCEPT ![c] = name]
        /\ engine'.quarantined = engine.quarantined /\ engine'.adopted = engine.adopted
    <2>1. engine' = [engine EXCEPT !.bindings[c] = engine.ids[name], !.dynamic[c] = name,
                                   !.pathless = @ \ {c}]
      BY DEF BindDynamic
    <2>2. /\ engine'.ids = engine.ids /\ engine'.policy = engine.policy
          /\ engine'.bindings = [engine.bindings EXCEPT ![c] = engine.ids[name]]
          /\ engine'.dynamic = [engine.dynamic EXCEPT ![c] = name]
          /\ engine'.quarantined = engine.quarantined /\ engine'.adopted = engine.adopted
          /\ engine'.pathless = engine.pathless \ {c}
      BY <1>0, <2>1, SMT DEF Engines
    <2>3. engine' \in Engines(host)
      <3>1. engine.ids[name] \in Nat \cup {None}
        BY <1>1 DEF Id, AllNames
      <3> QED
        BY <1>0, <2>1, <3>1, Zenon DEF Engines
    <2> QED
      BY <2>2, <2>3
  <1>4. name \in Listed(engine.policy) /\ engine.ids[name] \in Nat /\ engine.ids[name] # None
    BY <1>2, PolicyIds, Zenon
  <1>5. LifeGoesOn
    BY <1>0, <1>2 DEF LifeGoesOn
  <1>6. TypeInv'
    BY <1>2, <1>3, <1>4, <1>5, Zenon DEF IInv, TypeInv, LifeGoesOn, Id, AllNames
  <1>7. c \notin Delegated /\ engine.adopted[c] = None /\ c \notin adoptees
    BY <1>0, <1>2, HostFacts DEF RecordOK, IInv, AdoptInv
  <1>8. ~StateMayLag => (~lost => c \notin engine.quarantined)
    BY <1>0, <1>2, Zenon DEF IInv, AgreeInv, Meant, AdoptInv
  <1>9. RecordInv' /\ AgreeInv' /\ AdoptInv'
    <2>1. OneChange(c, engine.ids[name], name)
      BY <1>0, <1>1, <1>2, <1>3, <1>4, <1>5, <1>7, <1>8, SMTT(30) DEF OneChange, Id, AllNames
    <2> QED
      BY <2>1, OneBinding
  <1>10. PendingInv' /\ MaskInv'
    BY <1>2 DEF PendingInv, MaskInv
  <1> QED
    BY <1>6, <1>9, <1>10 DEF IInv

\* bind_container.
LEMMA BindContainerStep ==
  ASSUME IInv, NEW c \in Cgroups, NEW name \in Names, BindContainer(c, name)
  PROVE  IInv'
  <1>0. /\ host \in Hosts /\ kbind \in [Cgroups -> Id] /\ meant \in [Cgroups -> AllNames \cup {NoName}]
        /\ life \in [Cgroups -> {"unborn", "alive", "gone"}] /\ adoptees \subseteq Cgroups
        /\ engine \in Engines(host) /\ RecordOK(engine)
    BY DEF IInv, TypeInv, RecordInv
  <1>1. /\ engine.ids \in [AllNames -> Id] /\ engine.bindings \in [Cgroups -> Id]
        /\ engine.pathless \subseteq Cgroups /\ engine.quarantined \subseteq Cgroups
        /\ engine.dynamic \in [Cgroups -> Names \cup {NoName}] /\ engine.adopted \in [Cgroups -> Id]
        /\ engine.policy \in Policies \cup {NoPolicy}
    BY <1>0, Fields DEF Policies
  <1>2. /\ pc = "idle" /\ pc' = "save_publish" /\ life[c] = "alive" /\ life' = life
        /\ engine.policy # NoPolicy /\ InPolicy(engine.policy, name) /\ c \notin engine.quarantined
        /\ c \in Delegated /\ LevelOf[c] > MaxDepth => AllowDelegated
        /\ kbind' = [kbind EXCEPT ![c] = engine.ids[name]] /\ meant' = [meant EXCEPT ![c] = name]
        /\ adoptees' = adoptees \ {c}
        /\ UNCHANGED <<host, kprof, mask, wanted, failed, saved, lost>> /\ contested' = contested \ {c}
    BY Zenon DEF BindContainer, KernelBind, Alive
  <1>3. name \in Listed(engine.policy) /\ engine.ids[name] \in Nat /\ engine.ids[name] # None
    BY <1>2, PolicyIds, Zenon
  <1>4. /\ engine' \in Engines(host) /\ engine'.ids = engine.ids /\ engine'.policy = engine.policy
        /\ engine'.bindings = [engine.bindings EXCEPT ![c] = engine.ids[name]]
        /\ engine'.dynamic = [engine.dynamic EXCEPT ![c] = name]
        /\ engine'.quarantined = engine.quarantined /\ engine'.adopted = [engine.adopted EXCEPT ![c] = None]
    <2>1. engine' = [engine EXCEPT !.bindings[c] = engine.ids[name], !.dynamic[c] = name,
                                   !.adopted[c] = None, !.pathless = @ \ {c}]
      BY DEF BindContainer
    <2>2. /\ engine'.ids = engine.ids /\ engine'.policy = engine.policy
          /\ engine'.bindings = [engine.bindings EXCEPT ![c] = engine.ids[name]]
          /\ engine'.dynamic = [engine.dynamic EXCEPT ![c] = name]
          /\ engine'.quarantined = engine.quarantined
          /\ engine'.adopted = [engine.adopted EXCEPT ![c] = None]
      BY <1>0, <2>1, SMT DEF Engines
    <2>3. engine' \in Engines(host)
      BY <1>0, <1>3, <2>1, Zenon DEF Engines
    <2> QED
      BY <2>2, <2>3
  <1>5. LifeGoesOn
    BY <1>0, <1>2, Zenon DEF LifeGoesOn
  <1>6. TypeInv'
    BY <1>2, <1>3, <1>4, Zenon DEF IInv, TypeInv, Id, AllNames
  <1>7. ~AllowDelegated /\ c \in Delegated => LevelOf[c] <= MaxDepth
    <2>1. LevelOf[c] \in Nat /\ MaxDepth \in Nat
      BY <1>0, HostFacts, BindingAssumptions, Zenon
    <2> QED
      BY <1>2, <2>1, SMTT(20)
  <1>8. RecordInv' /\ AgreeInv' /\ AdoptInv'
    <2>1. OneChange(c, engine.ids[name], name)
      BY <1>0, <1>1, <1>2, <1>3, <1>4, <1>5, <1>7, SMTT(30) DEF OneChange, Id, AllNames
    <2> QED
      BY <2>1, OneBinding
  <1>9. PendingInv' /\ MaskInv'
    BY <1>2, Zenon DEF PendingInv, MaskInv
  <1> QED
    BY <1>6, <1>8, <1>9 DEF IInv

\* unbind_dynamic.
LEMMA UnbindDynamicStep ==
  ASSUME IInv, NEW c \in Cgroups, UnbindDynamic(c)
  PROVE  IInv'
  <1>0. /\ host \in Hosts /\ kbind \in [Cgroups -> Id] /\ meant \in [Cgroups -> AllNames \cup {NoName}]
        /\ life \in [Cgroups -> {"unborn", "alive", "gone"}] /\ adoptees \subseteq Cgroups
        /\ engine \in Engines(host) /\ RecordOK(engine)
    BY DEF IInv, TypeInv, RecordInv
  <1>1. /\ engine.ids \in [AllNames -> Id] /\ engine.bindings \in [Cgroups -> Id]
        /\ engine.pathless \subseteq Cgroups /\ engine.quarantined \subseteq Cgroups
        /\ engine.dynamic \in [Cgroups -> Names \cup {NoName}] /\ engine.adopted \in [Cgroups -> Id]
        /\ engine.policy \in Policies \cup {NoPolicy}
    BY <1>0, Fields, Zenon DEF Policies
  <1>2. /\ pc = "idle" /\ pc' = "save_publish" /\ life' = life /\ engine.dynamic[c] # NoName
        /\ kbind' = [kbind EXCEPT ![c] = None] /\ meant' = [meant EXCEPT ![c] = NoName]
        /\ UNCHANGED <<host, kprof, mask, wanted, failed, saved, adoptees, lost>> /\ contested' = contested \ {c}
    BY Zenon DEF UnbindDynamic, KernelUnbind, Dynamic
  <1>3. /\ engine' \in Engines(host) /\ engine'.ids = engine.ids /\ engine'.policy = engine.policy
        /\ engine'.bindings = [engine.bindings EXCEPT ![c] = None]
        /\ engine'.dynamic = [engine.dynamic EXCEPT ![c] = NoName]
        /\ engine'.quarantined = engine.quarantined \ {c} /\ engine'.adopted = engine.adopted
    <2>1. engine' = [engine EXCEPT !.bindings[c] = None, !.dynamic[c] = NoName,
                                   !.quarantined = @ \ {c}, !.pathless = @ \ {c}]
      BY DEF UnbindDynamic
    <2>2. /\ engine'.ids = engine.ids /\ engine'.policy = engine.policy
          /\ engine'.bindings = [engine.bindings EXCEPT ![c] = None]
          /\ engine'.dynamic = [engine.dynamic EXCEPT ![c] = NoName]
          /\ engine'.quarantined = engine.quarantined \ {c} /\ engine'.adopted = engine.adopted
      BY <1>0, <2>1, SMT DEF Engines
    <2>3. engine' \in Engines(host)
      BY <1>0, <2>1, Zenon DEF Engines
    <2> QED
      BY <2>2, <2>3, Zenon
  <1>4. LifeGoesOn
    BY <1>0, <1>2 DEF LifeGoesOn
  <1>5. TypeInv'
    BY <1>2, <1>3, Zenon DEF IInv, TypeInv, Id, AllNames
  <1>6. engine.adopted[c] = None /\ (life[c] = "alive" => c \notin adoptees)
    BY <1>0, <1>2, Zenon DEF RecordOK, IInv, AdoptInv
  <1>7. RecordInv' /\ AgreeInv' /\ AdoptInv'
    <2>1. OneChange(c, None, NoName)
      BY <1>0, <1>1, <1>2, <1>3, <1>4, <1>6, SMTT(30) DEF OneChange, Id
    <2> QED
      BY <2>1, OneBinding
  <1>8. PendingInv' /\ MaskInv'
    BY <1>2 DEF PendingInv, MaskInv
  <1> QED
    BY <1>5, <1>7, <1>8 DEF IInv

\* A bound cgroup that is bound anew leaves the levels as they are.
LEMMA SameLevels ==
  ASSUME IInv, pc = "idle", NEW c \in Cgroups, engine.bindings[c] # None, NEW id \in Nat,
         kbind' = [kbind EXCEPT ![c] = id],
         host' = host, failed' = failed, klevels' = klevels, mask_old' = mask_old
  PROVE  MaskInv'
  <1> SUFFICES ASSUME ~StateMayLag, ~mask_old, failed = {}
               PROVE  \A x \in Bound(kbind') : LevelOf[x] \in klevels <=> LevelOf[x] <= MaxDepth
    BY SameHost, Zenon DEF MaskInv, Bound
  <1>1. engine.bindings = kbind /\ kbind \in [Cgroups -> Id]
    BY Zenon DEF IInv, AgreeInv, Agrees, TypeInv
  <1>2. Bound(kbind') = Bound(kbind)
    BY <1>1 DEF Bound, None
  <1>3. \A x \in Bound(kbind) : LevelOf[x] \in klevels <=> LevelOf[x] <= MaxDepth
    BY Zenon DEF IInv, MaskInv
  <1> QED
    BY <1>2, <1>3

\* quarantine.
LEMMA QuarantineStep ==
  ASSUME IInv, NEW c \in Cgroups, QuarantineCgroup(c)
  PROVE  IInv'
  <1>0. /\ host \in Hosts /\ kbind \in [Cgroups -> Id] /\ meant \in [Cgroups -> AllNames \cup {NoName}]
        /\ life \in [Cgroups -> {"unborn", "alive", "gone"}] /\ adoptees \subseteq Cgroups
        /\ engine \in Engines(host) /\ RecordOK(engine)
    BY DEF IInv, TypeInv, RecordInv
  <1>1. /\ engine.ids \in [AllNames -> Id] /\ engine.bindings \in [Cgroups -> Id]
        /\ engine.pathless \subseteq Cgroups /\ engine.quarantined \subseteq Cgroups
        /\ engine.dynamic \in [Cgroups -> Names \cup {NoName}] /\ engine.adopted \in [Cgroups -> Id]
        /\ engine.policy \in Policies \cup {NoPolicy}
    BY <1>0, Fields DEF Policies
  <1> DEFINE id == QuarantineId(engine)
  <1>2. /\ pc = "idle" /\ pc' = "save" /\ life' = life /\ engine.bindings[c] # None
        /\ kbind' = [kbind EXCEPT ![c] = id] /\ meant' = [meant EXCEPT ![c] = Quarantine]
        /\ host' = host /\ kprof' = kprof /\ klevels' = klevels /\ mask_old' = mask_old
        /\ UNCHANGED <<wanted, failed, saved, contested, adoptees, lost>>
    BY Zenon DEF QuarantineCgroup, KernelBind, mask, marks
  <1>3. id \in Nat /\ id # None
    <2>1. Allocated(engine.ids) \subseteq AllNames
      BY DEF Allocated
    <2>2. Cardinality(Allocated(engine.ids)) \in Nat
      BY <2>1, NamesFinite, FS_Subset, FS_CardinalityType
    <2>3. Quarantine \in AllNames
      BY DEF AllNames
    <2> QED
      BY <1>1, <2>2, <2>3 DEF QuarantineId, Allocated, Id, None
  <1>4. engine.policy # NoPolicy => id = engine.ids[Quarantine]
    BY PolicyIds DEF QuarantineId
  <1>5. /\ engine' \in Engines(host) /\ engine'.ids = engine.ids /\ engine'.policy = engine.policy
        /\ engine'.bindings = [engine.bindings EXCEPT ![c] = id] /\ engine'.dynamic = engine.dynamic
        /\ engine'.quarantined = engine.quarantined \cup {c} /\ engine'.adopted = engine.adopted
    <2>1. engine' = [engine EXCEPT !.bindings[c] = id, !.quarantined = @ \cup {c}]
      BY DEF QuarantineCgroup
    <2> HIDE DEF id
    <2>2. /\ engine'.ids = engine.ids /\ engine'.policy = engine.policy
          /\ engine'.bindings = [engine.bindings EXCEPT ![c] = id] /\ engine'.dynamic = engine.dynamic
          /\ engine'.quarantined = engine.quarantined \cup {c} /\ engine'.adopted = engine.adopted
      BY <1>0, <2>1, SMT DEF Engines
    <2>3. engine' \in Engines(host)
      BY <1>0, <1>3, <2>1, Zenon DEF Engines
    <2> QED
      BY <2>2, <2>3, Zenon
  <1> HIDE DEF id
  <1>6. LifeGoesOn
    BY <1>0, <1>2 DEF LifeGoesOn
  <1>7. TypeInv'
    BY <1>2, <1>3, <1>5, Zenon DEF IInv, TypeInv, Id, AllNames
  <1>8. /\ life[c] # "unborn"
        /\ engine.dynamic[c] # NoName => engine.policy # NoPolicy /\ engine.adopted[c] = None
             /\ engine.dynamic[c] \in Listed(engine.policy)
             /\ (~AllowDelegated /\ c \in Delegated => LevelOf[c] <= MaxDepth)
    BY <1>0, <1>2, Zenon DEF RecordOK
  <1>9. ~StateMayLag /\ ~lost => engine.policy # NoPolicy /\ engine.adopted[c] = None
    BY <1>2, Zenon DEF IInv, AgreeInv, Agrees, Meant
  <1>10. c \in adoptees /\ life[c] = "alive" => engine.adopted[c] # None
    BY <1>2, Zenon DEF IInv, AdoptInv
  <1>11. RecordInv' /\ AgreeInv' /\ AdoptInv'
    <2>1. OneChange(c, id, Quarantine)
      BY <1>0, <1>1, <1>2, <1>3, <1>4, <1>5, <1>6, <1>8, <1>9, <1>10, SMTT(30) DEF OneChange, Id, AllNames
    <2> QED
      BY <2>1, OneBinding
  <1>12. MaskInv'
    BY <1>2, <1>3, SameLevels, Zenon
  <1>13. PendingInv'
    BY <1>2 DEF PendingInv
  <1> QED
    BY <1>7, <1>11, <1>12, <1>13 DEF IInv

\* release.
LEMMA ReleaseStep ==
  ASSUME IInv, NEW c \in Cgroups, Release(c)
  PROVE  IInv'
  <1>0. /\ host \in Hosts /\ kbind \in [Cgroups -> Id] /\ meant \in [Cgroups -> AllNames \cup {NoName}]
        /\ life \in [Cgroups -> {"unborn", "alive", "gone"}] /\ adoptees \subseteq Cgroups
        /\ engine \in Engines(host) /\ RecordOK(engine)
    BY DEF IInv, TypeInv, RecordInv
  <1>1. /\ engine.ids \in [AllNames -> Id] /\ engine.bindings \in [Cgroups -> Id]
        /\ engine.pathless \subseteq Cgroups /\ engine.quarantined \subseteq Cgroups
        /\ engine.dynamic \in [Cgroups -> Names \cup {NoName}] /\ engine.adopted \in [Cgroups -> Id]
        /\ engine.policy \in Policies \cup {NoPolicy}
    BY <1>0, Fields DEF Policies
  <1> DEFINE name == IF c \in DOMAIN engine.policy.static THEN engine.policy.static[c] ELSE engine.dynamic[c]
             id == engine.ids[name]
  <1>2. /\ pc = "idle" /\ life' = life /\ engine.bindings[c] # None /\ engine.policy # NoPolicy
        /\ c \in DOMAIN engine.policy.static \/ engine.dynamic[c] # NoName
        /\ host' = host /\ kprof' = kprof /\ klevels' = klevels /\ mask_old' = mask_old
        /\ UNCHANGED <<wanted, failed, saved, adoptees, lost>>
    BY Zenon DEF Release, mask, Dynamic
  <1>3. name \in AllNames /\ id \in Nat /\ id # None
    <2>1. CASE c \in DOMAIN engine.policy.static
      BY <1>2, <2>1, PolicyIds, Zenon DEF AllNames
    <2>2. CASE c \notin DOMAIN engine.policy.static
      <3>1. engine.dynamic[c] \in Listed(engine.policy)
        BY <1>0, <1>2, <2>2, Zenon DEF RecordOK
      <3> QED
        BY <1>2, <2>2, <3>1, PolicyIds, Zenon
    <2> QED
      BY <2>1, <2>2, Zenon
  <1>4. \/ /\ KernelBind(c, id, name) /\ pc' = "save"
           /\ contested' = contested \cup (DOMAIN engine.policy.static \cap Dynamic(engine) \cap {c})
           /\ engine' = [engine EXCEPT !.bindings[c] = id, !.quarantined = @ \ {c}]
        \/ /\ engine' = [engine EXCEPT !.quarantined = @ \ {c}]
           /\ UNCHANGED <<kbind, meant, contested, pc>>
    BY Zenon DEF Release
  <1>5. LifeGoesOn
    BY <1>0, <1>2 DEF LifeGoesOn
  <1>6. CASE /\ KernelBind(c, id, name) /\ pc' = "save"
             /\ contested' = contested \cup (DOMAIN engine.policy.static \cap Dynamic(engine) \cap {c})
             /\ engine' = [engine EXCEPT !.bindings[c] = id, !.quarantined = @ \ {c}]
    <2> HIDE DEF name, id
    <2>1. kbind' = [kbind EXCEPT ![c] = id] /\ meant' = [meant EXCEPT ![c] = name]
      BY <1>6 DEF KernelBind
    <2>2. /\ engine'.ids = engine.ids /\ engine'.policy = engine.policy
          /\ engine'.bindings = [engine.bindings EXCEPT ![c] = id] /\ engine'.dynamic = engine.dynamic
          /\ engine'.quarantined = engine.quarantined \ {c} /\ engine'.adopted = engine.adopted
      BY <1>0, <1>6, SMT DEF Engines
    <2>3. engine' \in Engines(host)
      BY <1>0, <1>3, <1>6, Zenon DEF Engines
    <2>4. TypeInv'
      BY <1>2, <1>3, <1>6, <2>1, <2>3 DEF IInv, TypeInv, Id, AllNames
    <2>5. /\ life[c] # "unborn"
          /\ engine.dynamic[c] # NoName => engine.policy # NoPolicy /\ engine.adopted[c] = None
               /\ engine.dynamic[c] \in Listed(engine.policy)
               /\ (~AllowDelegated /\ c \in Delegated => LevelOf[c] <= MaxDepth)
      BY <1>0, <1>2, Zenon DEF RecordOK
    <2>6. ~StateMayLag /\ ~lost => engine.adopted[c] = None
      BY <1>2, Zenon DEF IInv, AgreeInv, Agrees, Meant
    <2>7. c \in adoptees /\ life[c] = "alive" => engine.adopted[c] # None
      BY <1>2, Zenon DEF IInv, AdoptInv
    <2>8. /\ \A x \in contested : x \in contested'
          /\ engine.dynamic[c] # NoName /\ c \notin contested' => id = engine.ids[engine.dynamic[c]]
      BY <1>6 DEF id, name, Dynamic
    <2>9. RecordInv' /\ AgreeInv' /\ AdoptInv'
      <3>1. OneChange(c, id, name)
        BY <1>0, <1>1, <1>2, <1>3, <1>5, <1>6, <2>1, <2>2, <2>5, <2>6, <2>7, <2>8, SMTT(30) DEF OneChange, Id, id
      <3> QED
        BY <3>1, OneBinding
    <2>10. MaskInv'
      BY <1>2, <1>3, <2>1, SameLevels, Zenon
    <2>11. PendingInv'
      BY <1>6 DEF PendingInv
    <2> QED
      BY <2>4, <2>9, <2>10, <2>11 DEF IInv
  <1>7. CASE /\ engine' = [engine EXCEPT !.quarantined = @ \ {c}]
             /\ UNCHANGED <<kbind, meant, contested, pc>>
    <2>1. /\ engine'.ids = engine.ids /\ engine'.policy = engine.policy
          /\ engine'.bindings = engine.bindings /\ engine'.dynamic = engine.dynamic
          /\ engine'.quarantined = engine.quarantined \ {c} /\ engine'.adopted = engine.adopted
      BY <1>0, <1>7, SMT DEF Engines
    <2>2. engine' \in Engines(host)
      BY <1>0, <1>7, Zenon DEF Engines
    <2>3. /\ host' = host /\ kbind' = kbind /\ meant' = meant /\ contested' = contested /\ pc' = pc
          /\ kprof' = kprof /\ saved' = saved /\ adoptees' = adoptees /\ lost' = lost /\ failed' = failed
      BY <1>2, <1>7
    <2>4. TypeInv'
      BY <1>2, <2>2, <2>3, Zenon DEF IInv, TypeInv
    <2>5. RecordInv'
      <3>1. RecordOK(engine)'
        BY <1>0, <1>2, <2>1, <2>3, SameHost, Zenon DEF RecordOK
      <3> QED
        BY <1>5, <2>3, <3>1, RecordsStay, Zenon DEF IInv, RecordInv
    <2>6. AgreeInv'
      <3>1. Agrees(engine) => Agrees(engine)'
        BY <2>1, <2>3 DEF Agrees
      <3>2. Meant(engine) => Meant(engine)'
        BY <2>1, <2>3, Zenon DEF Meant
      <3>3. (Agrees(saved) => Agrees(saved)') /\ (Meant(saved) => Meant(saved)')
        BY <2>3, Zenon DEF Agrees, Meant
      <3> QED
        BY <2>3, <3>1, <3>2, <3>3, SameHost, Zenon DEF IInv, AgreeInv, Still
    <2>7. AdoptInv' /\ PendingInv' /\ MaskInv'
      BY <1>2, <2>1, <2>3, SameHost, Zenon DEF IInv, AdoptInv, PendingInv, MaskInv, Bound
    <2> QED
      BY <2>4, <2>5, <2>6, <2>7 DEF IInv
  <1> QED
    BY <1>4, <1>6, <1>7
-----------------------------------------------------------------------------
\* sync_bindings, a removal.
LEMMA SyncRemoveStep ==
  ASSUME IInv, SyncRemove
  PROVE  IInv'
  <1>0. /\ host \in Hosts /\ kbind \in [Cgroups -> Id] /\ meant \in [Cgroups -> AllNames \cup {NoName}]
        /\ life \in [Cgroups -> {"unborn", "alive", "gone"}] /\ adoptees \subseteq Cgroups
        /\ engine \in Engines(host) /\ RecordOK(engine)
    BY DEF IInv, TypeInv, RecordInv
  <1>1. /\ engine.ids \in [AllNames -> Id] /\ engine.bindings \in [Cgroups -> Id]
        /\ engine.pathless \subseteq Cgroups /\ engine.quarantined \subseteq Cgroups
        /\ engine.dynamic \in [Cgroups -> Names \cup {NoName}] /\ engine.adopted \in [Cgroups -> Id]
        /\ engine.policy \in Policies \cup {NoPolicy}
    BY <1>0, Fields DEF Policies
  <1>p. Pending /\ wanted \in [Cgroups -> Id]
    BY DEF SyncRemove, IInv, PendingInv, TypeInv
  <1>2. /\ pc = "remove" /\ pc' = pc /\ life' = life /\ host' = host /\ kprof' = kprof
        /\ wanted' = wanted /\ failed' = failed /\ saved' = saved
        /\ contested' = contested /\ adoptees' = adoptees /\ lost' = lost
    BY DEF SyncRemove, marks
  <1>3. PICK c \in Unwanted :
          /\ KernelUnbind(c)
          /\ engine' = [engine EXCEPT !.bindings[c] = None, !.pathless = @ \ {c}]
    BY Zenon DEF SyncRemove
  <1>4. c \in Cgroups /\ engine.bindings[c] # None /\ wanted[c] = None
    BY DEF Unwanted, Bound
  <1>5. kbind' = [kbind EXCEPT ![c] = None] /\ meant' = [meant EXCEPT ![c] = NoName]
    BY <1>3 DEF KernelUnbind
  <1>6. /\ engine'.ids = engine.ids /\ engine'.policy = engine.policy
        /\ engine'.bindings = [engine.bindings EXCEPT ![c] = None] /\ engine'.dynamic = engine.dynamic
        /\ engine'.quarantined = engine.quarantined /\ engine'.adopted = engine.adopted
    BY <1>0, <1>3, SMT DEF Engines
  <1>7. engine' \in Engines(host)
    BY <1>0, <1>3, <1>4, Zenon DEF Engines
  <1>8. LifeGoesOn
    BY <1>0, <1>2 DEF LifeGoesOn
  <1>9. TypeInv'
    BY <1>2, <1>5, <1>7, Zenon DEF IInv, TypeInv, Id
  <1>10. RecordInv' /\ AgreeInv' /\ AdoptInv'
    <2>1. engine.dynamic[c] # NoName => StateMayLag
      BY <1>4, <1>p, Zenon DEF Pending
    <2>2. c \in adoptees => life[c] # "alive"
      BY <1>2, <1>4, <1>p, Zenon DEF Pending
    <2>3. engine.adopted[c] # None \/ engine.dynamic[c] # NoName => life[c] # "unborn"
      BY <1>0, <1>4, Zenon DEF RecordOK
    <2>4. engine.dynamic[c] # NoName =>
            /\ engine.adopted[c] = None
            /\ engine.policy # NoPolicy /\ engine.dynamic[c] \in Listed(engine.policy)
            /\ ~AllowDelegated /\ c \in Delegated => LevelOf[c] <= MaxDepth
      BY <1>0, <1>4, Zenon DEF RecordOK
    <2>5. ~StateMayLag /\ ~lost => c \notin engine.quarantined /\ engine.adopted[c] = None
      <3>1. ASSUME ~StateMayLag, ~lost PROVE c \notin engine.quarantined /\ engine.adopted[c] = None
        <4>1. engine.policy # NoPolicy /\ (c \in engine.quarantined => wanted[c] = engine.ids[Quarantine])
          BY <1>p, <3>1, Zenon DEF Pending
        <4>2. Meant(engine)
          BY <1>2, <3>1 DEF IInv, AgreeInv
        <4> QED
          BY <1>4, <4>1, <4>2, PolicyIds, Zenon DEF Meant
      <3> QED
        BY <3>1
    <2>6. OneChange(c, None, NoName)
      BY <1>0, <1>1, <1>2, <1>4, <1>5, <1>6, <1>8, <2>1, <2>2, <2>3, <2>4, <2>5, SMTT(30) DEF OneChange, Id
    <2> QED
      BY <1>4, <2>6, OneBinding
  <1>11. PendingInv'
    <2>1. \A x \in Cgroups \ {c} : engine'.bindings[x] = engine.bindings[x]
      BY <1>1, <1>6, Zenon
    <2>2. Unwritten' \subseteq Unwritten /\ \A x \in Unwritten : x \in Cgroups
      BY <1>2, <1>4, <2>1 DEF Unwritten, Bound
    <2>3. \A x \in Cgroups : Attributed(x) => Attributed(x)' /\ NameOf(x)' = NameOf(x)
      BY <1>6 DEF Attributed, NameOf
    <2>4. Bound(wanted)' = Bound(wanted) /\ StateMayLag' = StateMayLag
      BY <1>2, SameHost DEF Bound
    <2> QED
      BY <1>2, <1>6, <1>p, <2>2, <2>3, <2>4, Zenon DEF PendingInv, Pending
  <1>12. MaskInv'
    BY <1>2 DEF MaskInv
  <1> QED
    BY <1>9, <1>10, <1>11, <1>12 DEF IInv

\* A step that only moves on.
LEMMA MoveStep ==
  ASSUME IInv, pc = "remove", pc' = "write", Bound(engine.bindings) \subseteq Bound(wanted),
         UNCHANGED <<host, life, kernel, engine, wanted, failed, saved, history>>
  PROVE  IInv'
  <1>1. /\ host' = host /\ life' = life /\ kbind' = kbind /\ kprof' = kprof /\ engine' = engine
        /\ wanted' = wanted /\ failed' = failed /\ saved' = saved /\ meant' = meant
        /\ contested' = contested /\ adoptees' = adoptees /\ lost' = lost
    BY DEF kernel, history, marks
  <1>2. TypeInv'
    BY <1>1, Zenon DEF IInv, TypeInv
  <1>3. LifeGoesOn
    BY <1>1, Zenon DEF LifeGoesOn, IInv, TypeInv
  <1>4. RecordInv'
    BY <1>1, <1>3, RecordsStay, Zenon DEF IInv, RecordInv
  <1>5. AgreeInv'
    <2>1. Agrees(engine) => Agrees(engine)'
      BY <1>1 DEF Agrees
    <2>2. Meant(engine) => Meant(engine)'
      BY <1>1, Zenon DEF Meant
    <2> QED
      BY <1>1, <2>1, <2>2, SameHost, Zenon DEF IInv, AgreeInv, Still
  <1>6. AdoptInv' /\ MaskInv'
    BY <1>1, Zenon DEF IInv, AdoptInv, MaskInv
  <1>7. PendingInv'
    <2>1. Pending
      BY DEF IInv, PendingInv
    <2>2. /\ Unwritten' = Unwritten /\ Bound(wanted)' = Bound(wanted)
          /\ Bound(engine.bindings)' = Bound(engine.bindings)
      BY <1>1, Zenon DEF Unwritten, Bound
    <2>3. \A c \in Unwritten : Attributed(c)' = Attributed(c) /\ NameOf(c)' = NameOf(c)
      BY <1>1, Zenon DEF Attributed, NameOf
    <2> QED
      BY <1>1, <2>1, <2>2, <2>3, SameHost, Zenon DEF PendingInv, Pending
  <1> QED
    BY <1>2, <1>4, <1>5, <1>6, <1>7 DEF IInv

\* sync_bindings, a write that succeeds.
LEMMA SyncWrittenStep ==
  ASSUME IInv, pc = "write", NEW c \in Unwritten, KernelBind(c, wanted[c], NameOf(c)),
         engine' = [engine EXCEPT !.bindings[c] = wanted[c]], UNCHANGED <<wanted, failed>>,
         UNCHANGED <<host, life, kprof, mask, pc, saved, marks>>
  PROVE  IInv'
  <1>0. /\ host \in Hosts /\ kbind \in [Cgroups -> Id] /\ meant \in [Cgroups -> AllNames \cup {NoName}]
        /\ life \in [Cgroups -> {"unborn", "alive", "gone"}] /\ adoptees \subseteq Cgroups
        /\ engine \in Engines(host) /\ RecordOK(engine)
    BY DEF IInv, TypeInv, RecordInv
  <1>1. /\ engine.ids \in [AllNames -> Id] /\ engine.bindings \in [Cgroups -> Id]
        /\ engine.pathless \subseteq Cgroups /\ engine.quarantined \subseteq Cgroups
        /\ engine.dynamic \in [Cgroups -> Names \cup {NoName}] /\ engine.adopted \in [Cgroups -> Id]
        /\ engine.policy \in Policies \cup {NoPolicy}
    BY <1>0, Fields DEF Policies
  <1>p. Pending /\ wanted \in [Cgroups -> Id]
    BY DEF IInv, PendingInv, TypeInv
  <1>2. /\ pc' = pc /\ life' = life /\ host' = host /\ kprof' = kprof
        /\ wanted' = wanted /\ failed' = failed /\ saved' = saved
        /\ contested' = contested /\ adoptees' = adoptees /\ lost' = lost
    BY DEF marks
  <1>3. c \in Cgroups /\ wanted[c] # None /\ wanted[c] \in Nat \cup {None}
    BY <1>p DEF Unwritten, Bound, Id
  <1>4. kbind' = [kbind EXCEPT ![c] = wanted[c]] /\ meant' = [meant EXCEPT ![c] = NameOf(c)]
    BY DEF KernelBind
  <1>5. /\ engine'.ids = engine.ids /\ engine'.policy = engine.policy
        /\ engine'.bindings = [engine.bindings EXCEPT ![c] = wanted[c]] /\ engine'.dynamic = engine.dynamic
        /\ engine'.quarantined = engine.quarantined /\ engine'.adopted = engine.adopted
    BY <1>0, SMT DEF Engines
  <1>6. engine' \in Engines(host)
    BY <1>0, <1>3, Zenon DEF Engines
  <1>7. LifeGoesOn
    BY <1>0, <1>2 DEF LifeGoesOn
  <1>8. NameOf(c) \in AllNames \cup {NoName}
    <2>1. engine.policy # NoPolicy
      BY <1>p DEF Pending
    <2> QED
      BY <1>0, <1>1, <1>3, <2>1, PolicyIds DEF NameOf, AllNames
  <1>9. TypeInv'
    BY <1>2, <1>3, <1>4, <1>6, <1>8 DEF IInv, TypeInv, Id
  <1>10. RecordInv' /\ AgreeInv' /\ AdoptInv'
    <2>1. engine.dynamic[c] # NoName /\ ~StateMayLag /\ c \notin contested =>
            wanted[c] = engine.ids[engine.dynamic[c]] \/ wanted[c] = engine.ids[Quarantine]
      BY <1>3, <1>p DEF Pending
    <2>2. life[c] # "unborn"
      BY <1>3, <1>p DEF Pending, Bound
    <2>3. engine.dynamic[c] # NoName =>
            /\ engine.adopted[c] = None
            /\ engine.policy # NoPolicy /\ engine.dynamic[c] \in Listed(engine.policy)
            /\ ~AllowDelegated /\ c \in Delegated => LevelOf[c] <= MaxDepth
      BY <1>0, <1>3, Zenon DEF RecordOK
    <2>4. ~StateMayLag /\ ~lost =>
            /\ engine.adopted[c] = None /\ engine.policy # NoPolicy
            /\ NameOf(c) \in AllNames /\ engine.ids[NameOf(c)] = wanted[c]
            /\ c \in engine.quarantined => wanted[c] = engine.ids[Quarantine]
      <3>1. ASSUME ~StateMayLag, ~lost
            PROVE  /\ engine.policy # NoPolicy
                   /\ NameOf(c) \in AllNames /\ engine.ids[NameOf(c)] = wanted[c]
                   /\ c \in engine.quarantined => wanted[c] = engine.ids[Quarantine]
        BY <1>p, <3>1, Zenon DEF Pending
      <3>2. ASSUME ~StateMayLag, ~lost PROVE engine.adopted[c] = None
        BY <1>3, <3>2 DEF IInv, AgreeInv, Meant
      <3> QED
        BY <3>1, <3>2
    <2>5. c \in adoptees /\ life[c] = "alive" => engine.adopted[c] # None
      BY DEF IInv, AdoptInv
    <2>6. OneChange(c, wanted[c], NameOf(c))
      BY <1>0, <1>1, <1>2, <1>3, <1>4, <1>5, <1>7, <2>1, <2>2, <2>3, <2>4, <2>5, SMTT(30) DEF OneChange, Id
    <2> QED
      BY <1>3, <2>6, OneBinding
  <1>11. PendingInv'
    <2>1. engine'.bindings[c] = wanted[c] /\ \A x \in Cgroups \ {c} : engine'.bindings[x] = engine.bindings[x]
      BY <1>1, <1>3, <1>5
    <2>2. Unwritten' \subseteq Unwritten /\ \A x \in Unwritten : x \in Cgroups
      BY <1>2, <1>3, <2>1 DEF Unwritten, Bound
    <2>3. \A x \in Cgroups : Attributed(x) => Attributed(x)' /\ NameOf(x)' = NameOf(x)
      BY <1>5 DEF Attributed, NameOf
    <2>4. Bound(wanted)' = Bound(wanted) /\ StateMayLag' = StateMayLag
      BY <1>2, SameHost DEF Bound
    <2>5. Bound(engine'.bindings) \subseteq Bound(wanted)
      BY <1>3, <1>p, <2>1 DEF Pending, Bound
    <2>6. Bound(engine.bindings)' = Bound(engine'.bindings)
      BY DEF Bound
    <2> QED
      BY <1>2, <1>5, <1>p, <2>2, <2>3, <2>4, <2>5, <2>6 DEF PendingInv, Pending
  <1>12. MaskInv'
    BY <1>2 DEF MaskInv
  <1> QED
    BY <1>9, <1>10, <1>11, <1>12 DEF IInv

\* sync_bindings, a write that fails.
LEMMA SyncFailedStep ==
  ASSUME IInv, pc = "write", NEW c \in Unwritten,
         wanted' = [wanted EXCEPT ![c] = engine.bindings[c]], failed' = failed \cup {c},
         UNCHANGED <<kbind, meant, engine>>, UNCHANGED <<host, life, kprof, mask, pc, saved, marks>>
  PROVE  IInv'
  <1>0. /\ host \in Hosts /\ kbind \in [Cgroups -> Id] /\ meant \in [Cgroups -> AllNames \cup {NoName}]
        /\ life \in [Cgroups -> {"unborn", "alive", "gone"}] /\ adoptees \subseteq Cgroups
        /\ engine \in Engines(host) /\ RecordOK(engine)
    BY DEF IInv, TypeInv, RecordInv
  <1>1. /\ engine.ids \in [AllNames -> Id] /\ engine.bindings \in [Cgroups -> Id]
        /\ engine.pathless \subseteq Cgroups /\ engine.quarantined \subseteq Cgroups
        /\ engine.dynamic \in [Cgroups -> Names \cup {NoName}] /\ engine.adopted \in [Cgroups -> Id]
        /\ engine.policy \in Policies \cup {NoPolicy}
    BY <1>0, Fields, Zenon DEF Policies
  <1>p. Pending /\ wanted \in [Cgroups -> Id]
    BY DEF IInv, PendingInv, TypeInv
  <1>2. /\ pc' = pc /\ life' = life /\ host' = host /\ kbind' = kbind /\ kprof' = kprof /\ engine' = engine
        /\ saved' = saved /\ meant' = meant
        /\ contested' = contested /\ adoptees' = adoptees /\ lost' = lost
    BY DEF marks
  <1>3. c \in Cgroups /\ wanted[c] # None /\ engine.bindings[c] # wanted[c] /\ engine.bindings[c] \in Id
    BY <1>1, Zenon DEF Unwritten, Bound
  <1>4. wanted'[c] = engine.bindings[c] /\ \A x \in Cgroups \ {c} : wanted'[x] = wanted[x]
    BY <1>3, <1>p
  <1>5. TypeInv'
    BY <1>2, <1>3, <1>p, Zenon DEF IInv, TypeInv
  <1>6. LifeGoesOn
    BY <1>0, <1>2, Zenon DEF LifeGoesOn
  <1>7. RecordInv'
    BY <1>2, <1>6, RecordsStay, Zenon DEF IInv, RecordInv
  <1>8. AgreeInv'
    <2>1. Agrees(engine) => Agrees(engine)'
      BY <1>2, Zenon DEF Agrees
    <2>2. Meant(engine) => Meant(engine)'
      BY <1>2, Zenon DEF Meant
    <2> QED
      BY <1>2, <2>1, <2>2, SameHost, Zenon DEF IInv, AgreeInv, Still
  <1>9. AdoptInv' /\ MaskInv'
    BY <1>2, Zenon DEF IInv, AdoptInv, MaskInv
  <1>10. PendingInv'
    <2>1. Bound(wanted') \subseteq Bound(wanted) /\ Bound(wanted') = Bound(wanted)'
      BY <1>3, <1>4 DEF Bound
    <2>2. Cardinality(Bound(wanted')) <= CapBindings
      <3>1. IsFiniteSet(Bound(wanted))
        BY BindingAssumptions, FS_Subset, Zenon DEF Bound
      <3>2. /\ Cardinality(Bound(wanted')) \in Nat /\ Cardinality(Bound(wanted)) \in Nat
            /\ Cardinality(Bound(wanted')) <= Cardinality(Bound(wanted))
        BY <2>1, <3>1, FS_Subset, FS_CardinalityType, Zenon
      <3>3. Cardinality(Bound(wanted)) <= CapBindings /\ CapBindings \in Nat
        BY <1>p, BindingAssumptions, Zenon DEF Pending
      <3> QED
        BY <3>2, <3>3
    <2>3. Bound(engine.bindings) \subseteq Bound(wanted')
      <3>1. Bound(engine.bindings) \subseteq Bound(wanted)
        BY <1>p, Zenon DEF Pending
      <3> QED
        BY <1>3, <1>4, <3>1 DEF Bound
    <2>4. Unwritten' \subseteq Unwritten /\ c \notin Unwritten' /\ \A x \in Unwritten : x \in Cgroups
      BY <1>2, <1>3, <1>4, Zenon DEF Unwritten, Bound
    <2>5. \A x \in Cgroups : Attributed(x)' = Attributed(x) /\ NameOf(x)' = NameOf(x)
      BY <1>2, Zenon DEF Attributed, NameOf
    <2>6. ASSUME ~StateMayLag, NEW x \in Cgroups, engine.dynamic[x] # NoName
          PROVE  /\ wanted'[x] # None
                 /\ x \notin contested =>
                      wanted'[x] = engine.ids[engine.dynamic[x]] \/ wanted'[x] = engine.ids[Quarantine]
      <3>1. Agrees(engine)
        BY <2>6 DEF IInv, AgreeInv
      <3>2. CASE x = c
        BY <1>4, <2>6, <3>1, <3>2, Zenon DEF Agrees
      <3>3. CASE x # c
        BY <1>4, <1>p, <2>6, <3>3, Zenon DEF Pending
      <3> QED
        BY <3>2, <3>3, Zenon
    <2>7. ASSUME ~StateMayLag, ~lost, NEW x \in engine.quarantined PROVE wanted'[x] = engine.ids[Quarantine]
      <3>1. wanted[x] = engine.ids[Quarantine] /\ x \in Cgroups
        BY <1>1, <1>p, <2>7, Zenon DEF Pending
      <3>2. Agrees(engine) /\ Meant(engine)
        BY <2>7 DEF IInv, AgreeInv
      <3>3. engine.bindings[x] = engine.ids[Quarantine]
        BY <3>2, Zenon DEF Agrees, Meant
      <3> QED
        BY <1>3, <1>4, <3>1, <3>3, Zenon
    <2>8. \A x \in Unwritten' : wanted'[x] = wanted[x]
      BY <1>4, <2>4
    <2>9. ~StateMayLag /\ ~lost => \A x \in Unwritten' :
            Attributed(x) /\ NameOf(x) \in AllNames /\ wanted'[x] = engine.ids[NameOf(x)]
      BY <1>p, <2>4, <2>8, Zenon DEF Pending
    <2>10. /\ engine.policy # NoPolicy /\ \A x \in Bound(wanted') : life[x] # "unborn"
      BY <1>p, <2>1, Zenon DEF Pending
    <2>11. Bound(engine.bindings)' = Bound(engine.bindings) /\ StateMayLag' = StateMayLag
      BY <1>2, SameHost DEF Bound
    <2> QED
      BY <1>2, <2>1, <2>2, <2>3, <2>4, <2>5, <2>6, <2>7, <2>9, <2>10, <2>11, Zenon DEF PendingInv, Pending
  <1> QED
    BY <1>5, <1>7, <1>8, <1>9, <1>10 DEF IInv

\* The end of sync_bindings.
LEMMA SyncDoneStep ==
  ASSUME IInv, SyncDone
  PROVE  IInv'
  <1>0. /\ host \in Hosts /\ kbind \in [Cgroups -> Id] /\ meant \in [Cgroups -> AllNames \cup {NoName}]
        /\ life \in [Cgroups -> {"unborn", "alive", "gone"}] /\ adoptees \subseteq Cgroups
        /\ engine \in Engines(host) /\ RecordOK(engine)
    BY DEF IInv, TypeInv, RecordInv
  <1>1. /\ engine.ids \in [AllNames -> Id] /\ engine.bindings \in [Cgroups -> Id]
        /\ engine.pathless \subseteq Cgroups /\ engine.quarantined \subseteq Cgroups
        /\ engine.dynamic \in [Cgroups -> Names \cup {NoName}] /\ engine.adopted \in [Cgroups -> Id]
        /\ engine.policy \in Policies \cup {NoPolicy}
    BY <1>0, Fields DEF Policies
  <1>2. /\ pc = "write" /\ pc' \in {"save", "save_publish"} /\ (pc' = "save" => failed # {})
        /\ wanted' = Unbound /\ life' = life /\ host' = host /\ kbind' = kbind /\ kprof' = kprof
        /\ failed' = failed /\ saved' = saved /\ meant' = meant
        /\ contested' = contested /\ adoptees' = adoptees /\ lost' = lost
    BY DEF SyncDone, kernel, history, marks
  <1>3. engine' = [engine EXCEPT !.pathless = @ \ (DOMAIN engine.policy.static \ failed)]
    BY DEF SyncDone
  <1>4. /\ engine'.ids = engine.ids /\ engine'.policy = engine.policy
        /\ engine'.bindings = engine.bindings /\ engine'.dynamic = engine.dynamic
        /\ engine'.quarantined = engine.quarantined /\ engine'.adopted = engine.adopted
    BY <1>0, <1>3, SMT DEF Engines
  <1>5. engine' \in Engines(host)
    BY <1>0, <1>3, Zenon DEF Engines
  <1>6. TypeInv'
    BY <1>2, <1>5, Zenon DEF IInv, TypeInv, Unbound, Id
  <1>7. LifeGoesOn
    BY <1>0, <1>2 DEF LifeGoesOn
  <1>8. RecordInv'
    <2>1. RecordOK(engine)'
      BY <1>0, <1>2, <1>4, SameHost, Zenon DEF RecordOK
    <2> QED
      BY <1>2, <1>7, <2>1, RecordsStay, Zenon DEF IInv, RecordInv
  <1>9. AgreeInv'
    <2>1. Agrees(engine) => Agrees(engine)'
      BY <1>2, <1>4 DEF Agrees
    <2>2. Meant(engine) => Meant(engine)'
      BY <1>2, <1>4, Zenon DEF Meant
    <2> QED
      BY <1>2, <2>1, <2>2, SameHost, Zenon DEF IInv, AgreeInv, Still
  <1>10. AdoptInv' /\ PendingInv' /\ MaskInv'
    BY <1>2, <1>4, Zenon DEF IInv, AdoptInv, PendingInv, MaskInv
  <1> QED
    BY <1>6, <1>8, <1>9, <1>10 DEF IInv

\* persist.
LEMMA PersistStep ==
  ASSUME IInv, Persist
  PROVE  IInv'
  <1>0. /\ host \in Hosts /\ kbind \in [Cgroups -> Id] /\ meant \in [Cgroups -> AllNames \cup {NoName}]
        /\ life \in [Cgroups -> {"unborn", "alive", "gone"}] /\ adoptees \subseteq Cgroups
        /\ engine \in Engines(host) /\ RecordOK(engine)
    BY DEF IInv, TypeInv, RecordInv
  <1>1. /\ engine.ids \in [AllNames -> Id] /\ engine.bindings \in [Cgroups -> Id]
        /\ engine.pathless \subseteq Cgroups /\ engine.quarantined \subseteq Cgroups
        /\ engine.dynamic \in [Cgroups -> Names \cup {NoName}] /\ engine.adopted \in [Cgroups -> Id]
        /\ engine.policy \in Policies \cup {NoPolicy}
    BY <1>0, Fields DEF Policies
  <1>2. /\ pc \in {"save", "save_publish"} /\ pc' = (IF pc = "save_publish" THEN "publish" ELSE "idle")
        /\ life' = life /\ host' = host /\ kbind' = kbind /\ kprof' = kprof
        /\ klevels' = klevels /\ mask_old' = mask_old
        /\ failed' = failed /\ engine' = engine /\ wanted' = wanted /\ meant' = meant
        /\ contested' = contested /\ adoptees' = adoptees /\ lost' = lost
    BY DEF Persist, kernel, mask, history, marks
  <1>3. (saved' = engine \/ saved' = saved) /\ (~StateMayLag => saved' = engine)
    BY DEF Persist
  <1>4. engine # NoPolicy
    BY <1>0, HostFacts
  <1>5. TypeInv'
    BY <1>2, <1>3, Zenon DEF IInv, TypeInv
  <1>6. LifeGoesOn
    BY <1>0, <1>2 DEF LifeGoesOn
  <1>7. RecordInv'
    <2>1. RecordOK(engine)'
      BY <1>0, <1>2, <1>6, RecordsStay
    <2>2. CASE saved' = engine
      BY <1>2, <2>1, <2>2, Zenon DEF RecordInv, RecordOK
    <2>3. CASE saved' = saved
      BY <1>2, <1>6, <2>1, <2>3, RecordsStay, Zenon DEF IInv, RecordInv
    <2> QED
      BY <1>3, <2>2, <2>3
  <1>8. AgreeInv'
    <2> SUFFICES ASSUME ~StateMayLag
                 PROVE  /\ Agrees(engine)' /\ (~lost => Meant(engine)')
                        /\ Agrees(saved)' /\ (~lost => Meant(saved)')
      BY <1>2, <1>3, <1>4, SameHost, Zenon DEF AgreeInv
    <2>1. Agrees(engine) /\ (~lost => Meant(engine)) /\ saved' = engine
      BY <1>2, <1>3 DEF IInv, AgreeInv
    <2>2. Agrees(engine)' /\ Agrees(saved)'
      BY <1>2, <2>1, Zenon DEF Agrees
    <2>3. ~lost => Meant(engine)' /\ Meant(saved)'
      BY <1>2, <2>1, Zenon DEF Meant
    <2> QED
      BY <2>2, <2>3
  <1>9. AdoptInv' /\ PendingInv'
    BY <1>2, Zenon DEF IInv, AdoptInv, PendingInv
  <1>10. MaskInv'
    BY <1>2, SameHost, Zenon DEF IInv, MaskInv, Bound
  <1> QED
    BY <1>5, <1>7, <1>8, <1>9, <1>10 DEF IInv

\* publish_governed_levels.
LEMMA PublishStep ==
  ASSUME IInv, Publish
  PROVE  IInv'
  <1>0. /\ host \in Hosts /\ kbind \in [Cgroups -> Id] /\ meant \in [Cgroups -> AllNames \cup {NoName}]
        /\ life \in [Cgroups -> {"unborn", "alive", "gone"}] /\ adoptees \subseteq Cgroups
        /\ engine \in Engines(host) /\ RecordOK(engine)
    BY DEF IInv, TypeInv, RecordInv
  <1>1. /\ engine.ids \in [AllNames -> Id] /\ engine.bindings \in [Cgroups -> Id]
        /\ engine.pathless \subseteq Cgroups /\ engine.quarantined \subseteq Cgroups
        /\ engine.dynamic \in [Cgroups -> Names \cup {NoName}] /\ engine.adopted \in [Cgroups -> Id]
        /\ engine.policy \in Policies \cup {NoPolicy}
    BY <1>0, Fields DEF Policies
  <1>2. /\ pc = "publish" /\ pc' = "idle" /\ failed' = {}
        /\ life' = life /\ host' = host /\ kbind' = kbind /\ kprof' = kprof
        /\ engine' = engine /\ wanted' = wanted /\ saved' = saved /\ meant' = meant
        /\ contested' = contested /\ adoptees' = adoptees /\ lost' = lost
    BY DEF Publish, history, marks
  <1>3. mask_old' = FALSE => klevels' = GovernedLevels
    BY DEF Publish
  <1>4. TypeInv'
    BY <1>2 DEF IInv, TypeInv
  <1>5. LifeGoesOn
    BY <1>0, <1>2 DEF LifeGoesOn
  <1>6. RecordInv'
    BY <1>2, <1>5, RecordsStay, Zenon DEF IInv, RecordInv
  <1>7. AgreeInv'
    <2>1. (Agrees(engine) => Agrees(engine)') /\ (Agrees(saved) => Agrees(saved)')
      BY <1>2, Zenon DEF Agrees
    <2>2. (Meant(engine) => Meant(engine)') /\ (Meant(saved) => Meant(saved)')
      BY <1>2, Zenon DEF Meant
    <2> QED
      BY <1>2, <2>1, <2>2, SameHost, Zenon DEF IInv, AgreeInv, Still
  <1>8. AdoptInv' /\ PendingInv'
    BY <1>2, Zenon DEF IInv, AdoptInv, PendingInv
  <1>9. MaskInv'
    <2> SUFFICES ASSUME ~StateMayLag, ~mask_old', NEW c \in Cgroups, kbind[c] # None
                 PROVE  LevelOf[c] \in klevels' <=> LevelOf[c] <= MaxDepth
      BY <1>2, SameHost, Zenon DEF MaskInv, Bound
    <2>1. klevels' = GovernedLevels
      BY <1>3 DEF Publish
    <2>2. engine.bindings = kbind
      BY <1>2, Zenon DEF IInv, AgreeInv, Agrees
    <2>3. LevelOf[c] \in Nat \ {0} /\ MaxDepth \in Nat
      BY <1>0, HostFacts, BindingAssumptions, Zenon
    <2>4. c \in Bound(engine.bindings)
      BY <2>2 DEF Bound
    <2>5. LevelOf[c] \in GovernedLevels <=> LevelOf[c] \in 1..MaxDepth
      BY <2>4, Zenon DEF GovernedLevels
    <2> QED
      BY <2>1, <2>3, <2>5
  <1> QED
    BY <1>4, <1>6, <1>7, <1>8, <1>9 DEF IInv

\* The sensor dies.
LEMMA CrashStep ==
  ASSUME IInv, Crash
  PROVE  IInv'
  <1>0. /\ host \in Hosts /\ kbind \in [Cgroups -> Id] /\ meant \in [Cgroups -> AllNames \cup {NoName}]
        /\ life \in [Cgroups -> {"unborn", "alive", "gone"}] /\ adoptees \subseteq Cgroups
        /\ engine \in Engines(host) /\ RecordOK(engine)
    BY DEF IInv, TypeInv, RecordInv
  <1>1. /\ engine.ids \in [AllNames -> Id] /\ engine.bindings \in [Cgroups -> Id]
        /\ engine.pathless \subseteq Cgroups /\ engine.quarantined \subseteq Cgroups
        /\ engine.dynamic \in [Cgroups -> Names \cup {NoName}] /\ engine.adopted \in [Cgroups -> Id]
        /\ engine.policy \in Policies \cup {NoPolicy}
    BY <1>0, Fields DEF Policies
  <1>2. /\ pc # "down" /\ (pc = "idle" \/ StateMayLag) /\ pc' = "down" /\ engine' = NewEngine
        /\ wanted' = Unbound /\ life' = life /\ host' = host /\ kbind' = kbind /\ kprof' = kprof
        /\ klevels' = klevels /\ mask_old' = mask_old
        /\ failed' = failed /\ saved' = saved /\ meant' = meant
        /\ contested' = contested /\ adoptees' = adoptees /\ lost' = lost
    BY DEF Crash, kernel, mask, history, marks
  <1>3. TypeInv'
    BY <1>2, FreshEngine, Zenon DEF IInv, TypeInv, Unbound, Id, NewEngine
  <1>4. LifeGoesOn
    BY <1>0, <1>2 DEF LifeGoesOn
  <1>5. RecordInv'
    <2>1. Allocated(NewEngine.ids) = {}
      BY FreshEngine DEF Allocated
    <2>2. RecordOK(engine)'
      <3>1. IdsOK(engine'.ids)
        BY <1>2, <2>1, Zenon DEF IdsOK
      <3>2. /\ engine'.policy = NoPolicy
            /\ \A c \in Cgroups : /\ engine'.bindings[c] = None /\ engine'.dynamic[c] = NoName
                                  /\ engine'.adopted[c] = None
        BY <1>2, FreshEngine, SMT DEF Unbound
      <3> QED
        BY <3>1, <3>2, Zenon DEF RecordOK
    <2> QED
      BY <1>2, <1>4, <2>2, RecordsStay, Zenon DEF IInv, RecordInv
  <1>6. AgreeInv'
    <2>1. Agrees(saved) => Agrees(saved)'
      BY <1>2, Zenon DEF Agrees
    <2>2. Meant(saved) => Meant(saved)'
      BY <1>2, Zenon DEF Meant
    <2> QED
      BY <1>2, <2>1, <2>2, SameHost, Zenon DEF IInv, AgreeInv, Still, Unbound
  <1>7. AdoptInv' /\ PendingInv'
    BY <1>2, Zenon DEF IInv, AdoptInv, PendingInv
  <1>8. MaskInv'
    BY <1>2, SameHost, Zenon DEF IInv, MaskInv, Bound
  <1> QED
    BY <1>3, <1>5, <1>6, <1>7, <1>8 DEF IInv

\* adopt.
LEMMA AdoptStep ==
  ASSUME IInv, Adopt
  PROVE  IInv'
  <1>0. /\ host \in Hosts /\ kbind \in [Cgroups -> Id] /\ meant \in [Cgroups -> AllNames \cup {NoName}]
        /\ life \in [Cgroups -> {"unborn", "alive", "gone"}] /\ adoptees \subseteq Cgroups
        /\ engine \in Engines(host) /\ RecordOK(engine)
    BY DEF IInv, TypeInv, RecordInv
  <1>1. /\ engine.ids \in [AllNames -> Id] /\ engine.bindings \in [Cgroups -> Id]
        /\ engine.pathless \subseteq Cgroups /\ engine.quarantined \subseteq Cgroups
        /\ engine.dynamic \in [Cgroups -> Names \cup {NoName}] /\ engine.adopted \in [Cgroups -> Id]
        /\ engine.policy \in Policies \cup {NoPolicy}
    BY <1>0, Fields DEF Policies
  <1>2. /\ pc = "down" /\ pc' = "save" /\ life' = life /\ host' = host /\ kbind' = kbind /\ kprof' = kprof
        /\ klevels' = klevels /\ mask_old' = mask_old
        /\ wanted' = wanted /\ failed' = failed /\ saved' = saved /\ meant' = meant /\ contested' = contested
    BY DEF Adopt, kernel, mask
  <1>3. LifeGoesOn
    BY <1>0, <1>2 DEF LifeGoesOn
  <1>4. PendingInv' /\ MaskInv'
    BY <1>2, SameHost, Zenon DEF IInv, PendingInv, MaskInv, Bound
  <1>5. CASE /\ saved # NoPolicy /\ engine' = saved
             /\ adoptees' = adoptees \cap Bound(saved.adopted) /\ lost' = lost
    <2>1. TypeInv'
      BY <1>2, <1>5, Zenon DEF IInv, TypeInv
    <2>2. RecordOK(saved)'
      BY <1>2, <1>3, <1>5, RecordsStay, Zenon DEF IInv, RecordInv
    <2>3. RecordInv'
      BY <1>2, <1>5, <2>2, Zenon DEF RecordInv, RecordOK
    <2>4. AgreeInv'
      <3>1. Agrees(saved) => Agrees(engine)'
        BY <1>2, <1>5, Zenon DEF Agrees
      <3>2. Meant(saved) => Meant(engine)'
        BY <1>2, <1>5, Zenon DEF Meant
      <3> QED
        BY <1>2, <1>5, <3>1, <3>2, SameHost, Zenon DEF IInv, AgreeInv, Still
    <2>5. AdoptInv'
      BY <1>2, <1>5, Zenon DEF IInv, AdoptInv, Bound
    <2> QED
      BY <1>4, <2>1, <2>3, <2>4, <2>5 DEF IInv
  <1>6. CASE /\ engine' = [NewEngine EXCEPT !.bindings = kbind, !.adopted = kbind,
                                            !.pathless = Bound(kbind) \ Alive]
             /\ adoptees' = Bound(kbind) /\ lost' = (lost \/ Bound(kbind) # {})
    <2>1. /\ engine'.ids = NewEngine.ids /\ engine'.policy = NoPolicy
          /\ engine'.bindings = kbind /\ engine'.dynamic = NewEngine.dynamic
          /\ engine'.quarantined = {} /\ engine'.adopted = kbind
      BY <1>6 DEF NewEngine
    <2>2. engine' \in Engines(host)
      <3>1. NewEngine \in Engines(host) /\ kbind \in [Cgroups -> Nat \cup {None}] /\ Bound(kbind) \subseteq Cgroups
        BY <1>0, FreshEngine, Zenon DEF Id, Bound
      <3> QED
        BY <1>6, <3>1, Zenon DEF Engines
    <2>3. TypeInv'
      BY <1>2, <1>6, <2>2 DEF IInv, TypeInv, Bound
    <2>4. Allocated(NewEngine.ids) = {} /\ \A c \in Cgroups : NewEngine.dynamic[c] = NoName
      BY FreshEngine DEF Allocated
    <2>5. RecordInv'
      <3>1. \A c \in Cgroups : kbind[c] # None => life[c] # "unborn"
        BY DEF IInv, AdoptInv
      <3>2. RecordOK(engine)'
        BY <1>2, <2>1, <2>4, <3>1, SMT DEF RecordOK, IdsOK
      <3> QED
        BY <1>2, <1>3, <3>2, RecordsStay, Zenon DEF IInv, RecordInv
    <2>6. AgreeInv'
      <3>1. Agrees(engine)'
        BY <1>2, <2>1, <2>4, SMT DEF Agrees
      <3>2. ~lost' => \A c \in Cgroups : kbind[c] = None
        BY <1>6, Zenon DEF Bound
      <3>3. ~lost' => Meant(engine)'
        BY <1>2, <2>1, <3>2, SMT DEF Meant
      <3> QED
        BY <1>2, <3>1, <3>3, SameHost, Zenon DEF AgreeInv, Still
    <2>7. AdoptInv'
      BY <1>2, <1>6, <2>1 DEF IInv, AdoptInv, Bound
    <2> QED
      BY <1>4, <2>3, <2>5, <2>6, <2>7 DEF IInv
  <1> QED
    BY <1>5, <1>6 DEF Adopt
-----------------------------------------------------------------------------
\* An accepted apply, up to the start of sync_bindings.
LEMMA ApplyStep ==
  ASSUME IInv, NEW pol \in Policies, ApplyCommit(pol)
  PROVE  IInv'
  <1>0. /\ host \in Hosts /\ kbind \in [Cgroups -> Id] /\ meant \in [Cgroups -> AllNames \cup {NoName}]
        /\ life \in [Cgroups -> {"unborn", "alive", "gone"}] /\ adoptees \subseteq Cgroups
        /\ engine \in Engines(host) /\ RecordOK(engine)
    BY DEF IInv, TypeInv, RecordInv
  <1>1. /\ engine.ids \in [AllNames -> Id] /\ engine.bindings \in [Cgroups -> Id]
        /\ engine.pathless \subseteq Cgroups /\ engine.quarantined \subseteq Cgroups
        /\ engine.dynamic \in [Cgroups -> Names \cup {NoName}] /\ engine.adopted \in [Cgroups -> Id]
        /\ engine.policy \in Policies \cup {NoPolicy}
    BY <1>0, Fields, Zenon DEF Policies
  <1> DEFINE ids == Allocate(engine.ids, pol)
             want == WantedBindings(pol, ids)
             held == Held(want)
             dyn == [c \in Cgroups |-> IF c \in StaleDynamic THEN NoName ELSE engine.dynamic[c]]
             kept == [c \in Cgroups |-> IF c \in KeptAdopted(pol) THEN engine.adopted[c] ELSE None]
             st == DOMAIN pol.static
  <1>2. /\ pc = "idle" /\ pc' = "remove" /\ failed' = {}
        /\ host' = host /\ kbind' = kbind /\ saved' = saved /\ meant' = meant
        /\ contested' = contested /\ lost' = lost
    BY Zenon DEF ApplyCommit
  <1>w. /\ Accepted(pol) /\ \A c \in st : life[c] # "gone"
        /\ life' = [c \in Cgroups |-> IF c \in st THEN "alive" ELSE life[c]]
        /\ adoptees' = adoptees \ st
    BY Zenon DEF ApplyCommit
  <1>k. kprof' = [i \in {ids[Profiles(pol)[k]] : k \in DOMAIN Profiles(pol)} |->
                    CHOOSE n \in AllNames : ids[n] = i]
    BY Zenon DEF ApplyCommit
  <1>v. wanted' = [c \in Cgroups |-> IF c \in held THEN ids[Quarantine] ELSE want[c]]
    BY Zenon DEF ApplyCommit
  <1>3. engine' = [engine EXCEPT !.ids = ids, !.policy = pol, !.quarantined = held,
                                 !.dynamic = dyn, !.adopted = kept]
    BY Zenon DEF ApplyCommit
  <1>4. PolicyOK(pol) /\ pol # NoPolicy /\ st \subseteq Cgroups
    BY <1>0, HostFacts, Zenon DEF PolicyOK
  <1>5. /\ ids \in [AllNames -> Id] /\ IdsOK(ids)
        /\ \A n \in AllNames : engine.ids[n] # None => ids[n] = engine.ids[n]
        /\ \A n \in Listed(pol) : ids[n] # None
    <2>1. IdsOK(engine.ids)
      BY <1>0, Zenon DEF RecordOK
    <2> QED
      BY <1>1, <1>4, <2>1, Allocation, Zenon
  <1>6. /\ Quarantine \in Listed(pol) /\ Listed(pol) \subseteq AllNames
        /\ \A i \in DOMAIN Profiles(pol) : Profiles(pol)[i] \in Listed(pol)
        /\ \A n \in Listed(pol) : \E i \in DOMAIN Profiles(pol) : Profiles(pol)[i] = n
        /\ \A c \in st : pol.static[c] \in Listed(pol) /\ pol.static[c] \in Names
    BY <1>4, ListedNames, Zenon
  <1> HIDE DEF ids
  <1>7. /\ \A c \in Cgroups : c \in LiveDynamic <=> dyn[c] # NoName
        /\ \A c \in Cgroups : dyn[c] # NoName =>
             /\ dyn[c] = engine.dynamic[c] /\ c \notin st
             /\ dyn[c] \in Listed(pol)
    <2>1. \A c \in LiveDynamic : InPolicy(pol, engine.dynamic[c]) /\ c \notin st
      BY <1>w, Zenon DEF Accepted
    <2>2. \A c \in Cgroups : c \in LiveDynamic <=> engine.dynamic[c] # NoName /\ c \notin StaleDynamic
      BY DEF LiveDynamic, Dynamic
    <2>3. \A c \in Cgroups : engine.dynamic[c] # NoName => engine.dynamic[c] \in AllNames
      BY <1>1, Zenon DEF AllNames
    <2> QED
      BY <2>1, <2>2, <2>3, Zenon DEF Listed
  <1>8. \A c \in KeptAdopted(pol) : c \in Cgroups /\ engine.adopted[c] # None /\ c \notin st /\ c \notin LiveDynamic
    BY Zenon DEF KeptAdopted, Bound
  <1>e. \A c \in Cgroups : kept[c] = IF c \in KeptAdopted(pol) THEN engine.adopted[c] ELSE None
    OBVIOUS
  <1>9. \A c \in Cgroups : want[c] = IF c \in st THEN ids[pol.static[c]]
                                     ELSE IF c \in LiveDynamic THEN ids[dyn[c]]
                                     ELSE IF c \in KeptAdopted(pol) THEN engine.adopted[c] ELSE None
    BY <1>7, Zenon DEF WantedBindings
  <1>10. /\ dyn \in [Cgroups -> Names \cup {NoName}] /\ kept \in [Cgroups -> Id]
         /\ want \in [Cgroups -> Id] /\ held \subseteq Cgroups
    <2>1. dyn \in [Cgroups -> Names \cup {NoName}] /\ kept \in [Cgroups -> Id]
      BY <1>1, Zenon DEF Id
    <2>2. \A c \in Cgroups : want[c] \in Id
      <3> SUFFICES ASSUME NEW c \in Cgroups PROVE want[c] \in Id
        OBVIOUS
      <3> HIDE DEF want, dyn, kept
      <3>0. /\ want[c] = IF c \in st THEN ids[pol.static[c]]
                         ELSE IF c \in LiveDynamic THEN ids[dyn[c]]
                         ELSE IF c \in KeptAdopted(pol) THEN engine.adopted[c] ELSE None
            /\ c \in st => pol.static[c] \in Listed(pol)
            /\ c \in LiveDynamic => dyn[c] \in Listed(pol)
            /\ engine.adopted[c] \in Id /\ None \in Id
        BY <1>1, <1>6, <1>7, <1>9, Zenon DEF Id
      <3>1. CASE c \in st
        BY <1>5, <1>6, <3>0, <3>1, Zenon
      <3>2. CASE c \notin st /\ c \in LiveDynamic
        BY <1>5, <1>6, <3>0, <3>2, Zenon
      <3>3. CASE c \notin st /\ c \notin LiveDynamic
        BY <3>0, <3>3, Zenon
      <3> QED
        BY <3>1, <3>2, <3>3, Zenon
    <2>3. want = [c \in Cgroups |-> want[c]]
      BY Zenon DEF WantedBindings
    <2> QED
      BY <1>1, <2>1, <2>2, <2>3, Zenon DEF Held
  <1> HIDE DEF want, dyn, kept
  <1>11. /\ engine'.ids = ids /\ engine'.policy = pol /\ engine'.bindings = engine.bindings
         /\ engine'.dynamic = dyn /\ engine'.quarantined = held /\ engine'.adopted = kept
    <2> HIDE DEF held
    <2> QED
      BY <1>0, <1>3, SMT DEF Engines
  <1>12. engine' \in Engines(host)
    <2>1. ids \in [AllNames -> Nat \cup {None}] /\ kept \in [Cgroups -> Nat \cup {None}] /\ pol \in host.policies
      BY <1>5, <1>10, Zenon DEF Id, Policies
    <2> HIDE DEF held
    <2> QED
      BY <1>0, <1>3, <1>10, <2>1, Zenon DEF Engines
  <1> HIDE DEF held
  <1>13. LifeGoesOn
    BY <1>0, <1>w, <1>4 DEF LifeGoesOn
  <1>14. \A c \in Cgroups : want[c] # None => c \in st \/ dyn[c] # NoName \/ c \in KeptAdopted(pol)
    BY <1>7, <1>9, Zenon
  <1>15. \A c \in Cgroups : c \in st \/ dyn[c] # NoName \/ c \in KeptAdopted(pol) => want[c] # None
    <2> SUFFICES ASSUME NEW c \in Cgroups, c \in st \/ dyn[c] # NoName \/ c \in KeptAdopted(pol)
                 PROVE  want[c] # None
      OBVIOUS
    <2>1. CASE c \in st
      BY <1>5, <1>6, <1>9, <2>1, Zenon
    <2>2. CASE c \notin st /\ c \in LiveDynamic
      BY <1>5, <1>6, <1>7, <1>9, <2>2, Zenon
    <2>3. CASE c \notin st /\ c \notin LiveDynamic /\ c \in KeptAdopted(pol)
      BY <1>8, <1>9, <2>3, Zenon
    <2> QED
      BY <1>7, <2>1, <2>2, <2>3, Zenon
  <1>16. \A c \in Cgroups : /\ c \in held => wanted'[c] = ids[Quarantine] /\ want[c] # None
                            /\ c \notin held => wanted'[c] = want[c]
                            /\ wanted'[c] # None <=> want[c] # None
    BY <1>v, <1>5, <1>6, Zenon DEF held, Bound, Held
  <1>17. TypeInv'
    <2>1. wanted' \in [Cgroups -> Id]
      BY <1>v, <1>5, <1>6, <1>10, Zenon
    <2>2. DOMAIN kprof' \subseteq Nat
      BY <1>k, <1>5, <1>6, Zenon DEF Id
    <2> QED
      BY <1>2, <1>w, <1>12, <1>13, <2>1, <2>2, Zenon DEF IInv, TypeInv, LifeGoesOn
  <1>18. RecordInv'
    <2>1. \A c \in Cgroups : engine.bindings[c] # None \/ dyn[c] # NoName \/ kept[c] # None =>
            life'[c] # "unborn"
      BY <1>0, <1>7, <1>8, <1>13, <1>e, Zenon DEF RecordOK, LifeGoesOn
    <2>2. \A c \in Cgroups : dyn[c] # NoName =>
            /\ kept[c] = None
            /\ ~AllowDelegated /\ c \in Delegated => LevelOf[c] <= MaxDepth
      BY <1>0, <1>7, <1>8, <1>e, Zenon DEF RecordOK
    <2>3. \A c \in Cgroups : dyn[c] # NoName => dyn[c] \in Listed(pol)
      BY <1>7, Zenon
    <2>4. RecordOK(engine)'
      BY <1>2, <1>4, <1>5, <1>11, <2>1, <2>2, <2>3, SameHost, Zenon DEF RecordOK
    <2> QED
      BY <1>2, <1>13, <2>4, RecordsStay, Zenon DEF IInv, RecordInv
  <1>19. \A n \in Listed(pol) : ids[n] \in DOMAIN kprof' /\ kprof'[ids[n]] = n
    <2> SUFFICES ASSUME NEW n \in Listed(pol) PROVE ids[n] \in DOMAIN kprof' /\ kprof'[ids[n]] = n
      OBVIOUS
    <2>1. ids[n] \in {ids[Profiles(pol)[k]] : k \in DOMAIN Profiles(pol)}
      BY <1>6, Zenon
    <2>2. \A m \in AllNames : ids[m] = ids[n] => m = n
      BY <1>5, <1>6, Zenon DEF IdsOK, Allocated
    <2>3. n \in AllNames
      BY <1>6, Zenon
    <2>4. (CHOOSE m \in AllNames : ids[m] = ids[n]) = n
      BY <2>2, <2>3
    <2> QED
      BY <1>k, <2>1, <2>4, Zenon
  <1>20. \A i \in DOMAIN kprof' : \E n \in Listed(pol) : ids[n] = i
    BY <1>k, <1>6, Zenon
  <1>21. AgreeInv'
    <2> SUFFICES ASSUME ~StateMayLag PROVE Agrees(engine)' /\ (~lost => Meant(engine)')
      BY <1>2, SameHost DEF AgreeInv, Still
    <2>1. Agrees(engine) /\ (~lost => Meant(engine))
      BY <1>2 DEF IInv, AgreeInv
    <2>2. ASSUME NEW c \in Cgroups, dyn[c] # NoName
          PROVE  /\ kbind[c] # None
                 /\ c \notin contested => kbind[c] = ids[dyn[c]] \/ kbind[c] = ids[Quarantine]
      <3>1. dyn[c] = engine.dynamic[c] /\ engine.dynamic[c] # NoName
        BY <1>7, <2>2, Zenon
      <3>2. engine.policy # NoPolicy /\ engine.dynamic[c] \in Listed(engine.policy)
        BY <1>0, <3>1, Zenon DEF RecordOK
      <3>3. ids[engine.dynamic[c]] = engine.ids[engine.dynamic[c]] /\ ids[Quarantine] = engine.ids[Quarantine]
        BY <1>5, <3>2, PolicyIds, Zenon
      <3> QED
        BY <2>1, <3>1, <3>3, Zenon DEF Agrees
    <2>3. Agrees(engine)'
      <3>1. engine'.bindings = kbind'
        BY <1>2, <1>11, <2>1, Zenon DEF Agrees
      <3>2. /\ \A i \in DOMAIN kprof' : \E n \in Listed(engine'.policy) : engine'.ids[n] = i
            /\ \A n \in Listed(engine'.policy) : engine'.ids[n] \in DOMAIN kprof' /\ kprof'[engine'.ids[n]] = n
        BY <1>11, <1>19, <1>20, Zenon
      <3>3. \A c \in Cgroups : engine'.dynamic[c] # NoName =>
              /\ kbind'[c] # None
              /\ c \notin contested' =>
                   kbind'[c] = engine'.ids[engine'.dynamic[c]] \/ kbind'[c] = engine'.ids[Quarantine]
        BY <1>2, <1>11, <2>2, Zenon
      <3> QED
        BY <3>1, <3>2, <3>3, Zenon DEF Agrees
    <2>4. ASSUME ~lost PROVE Meant(engine)'
      <3>1. Meant(engine)
        BY <2>1, <2>4
      <3>2. \A c \in Cgroups : kept[c] = None
        BY <3>1, Zenon DEF Meant, kept
      <3>3. \A c \in Cgroups : kbind[c] # None =>
              engine.policy # NoPolicy /\ meant[c] \in AllNames /\ ids[meant[c]] = kbind[c]
        BY <1>5, <3>1, Zenon DEF Meant
      <3>4. \A c \in held : c \in engine.quarantined
        BY DEF held, Held
      <3>5. ASSUME NEW c \in held PROVE kbind[c] = ids[Quarantine] /\ kbind[c] # None
        <4>1. kbind[c] = engine.ids[Quarantine] /\ kbind[c] # None
          BY <3>1, <3>4, Zenon DEF Meant
        <4>2. Quarantine \in AllNames
          BY <1>6, Zenon
        <4> QED
          BY <1>5, <4>1, <4>2, Zenon
      <3> QED
        BY <1>2, <1>4, <1>11, <3>2, <3>3, <3>5, Zenon DEF Meant
    <2> QED
      BY <2>3, <2>4
  <1>22. ASSUME NEW c \in adoptees', life'[c] = "alive"
         PROVE  c \in Cgroups /\ life[c] = "alive" /\ c \in KeptAdopted(pol)
    <2>1. c \in adoptees /\ c \notin st /\ c \in Cgroups
      BY <1>0, <1>w
    <2>2. life[c] = "alive"
      BY <1>w, <1>22, <2>1, Zenon
    <2>3. engine.adopted[c] # None
      BY <1>2, <2>1, <2>2, Zenon DEF IInv, AdoptInv
    <2>4. engine.dynamic[c] = NoName
      BY <1>0, <2>1, <2>3, Zenon DEF RecordOK
    <2>5. c \notin LiveDynamic
      BY <2>4 DEF LiveDynamic, Dynamic
    <2> QED
      BY <2>1, <2>2, <2>3, <2>5, Zenon DEF KeptAdopted, CgroupAlive, Alive, Bound
  <1>23. AdoptInv'
    <2>1. \A c \in adoptees' : c \in adoptees /\ c \in Cgroups
      BY <1>0, <1>w
    <2>2. \A c \in Cgroups : kbind[c] # None => life'[c] # "unborn"
      BY <1>13, Zenon DEF IInv, AdoptInv, LifeGoesOn
    <2>3. \A c \in adoptees' : life'[c] # "unborn"
      BY <1>13, <2>1, Zenon DEF IInv, AdoptInv, LifeGoesOn
    <2>4. \A c \in adoptees' : life'[c] = "alive" => kbind[c] # None /\ kept[c] # None
      BY <1>8, <1>22, <1>e, <2>1, SMTT(20) DEF IInv, AdoptInv
    <2> QED
      BY <1>2, <1>11, <2>2, <2>3, <2>4, Zenon DEF AdoptInv
  <1>24. MaskInv'
    BY <1>2 DEF MaskInv
  <1>25. PendingInv'
    <2>1. \A c \in Cgroups : wanted'[c] # None => c \in st \cup LiveDynamic \cup KeptAdopted(pol)
      BY <1>7, <1>14, <1>16, Zenon
    <2>2. \A c \in Cgroups : wanted'[c] # None => life'[c] # "unborn"
      <3>1. \A c \in st : life'[c] = "alive"
        BY <1>w, <1>4, Zenon
      <3>2. \A c \in LiveDynamic \cup KeptAdopted(pol) : c \in Cgroups => life[c] # "unborn"
        BY <1>0, <1>7, <1>8, Zenon DEF RecordOK
      <3> QED
        BY <1>13, <2>1, <3>1, <3>2, Zenon DEF LifeGoesOn
    <2>3. Cardinality(Bound(wanted')) <= CapBindings
      <3> DEFINE room == st \cup LiveDynamic \cup KeptAdopted(pol)
      <3>1. Cardinality(room) <= CapBindings
        BY <1>w, Zenon DEF Accepted
      <3>2. room \subseteq Cgroups
        BY <1>4, <1>8, Zenon DEF LiveDynamic, Dynamic
      <3>3. Bound(wanted') \subseteq room
        BY <2>1, Zenon DEF Bound
      <3> HIDE DEF room
      <3>4. IsFiniteSet(room)
        BY <3>2, BindingAssumptions, FS_Subset, Zenon
      <3>5. /\ Cardinality(Bound(wanted')) <= Cardinality(room)
            /\ Cardinality(Bound(wanted')) \in Nat /\ Cardinality(room) \in Nat
        BY <3>3, <3>4, FS_Subset, FS_CardinalityType, Zenon
      <3>6. CapBindings \in Nat
        BY BindingAssumptions, Zenon
      <3> QED
        BY <3>1, <3>5, <3>6, SMT
    <2>4. \A c \in adoptees' : life'[c] = "alive" => wanted'[c] # None
      BY <1>15, <1>16, <1>22, Zenon
    <2>5. \A c \in Cgroups : dyn[c] # NoName =>
            wanted'[c] # None /\ (wanted'[c] = ids[dyn[c]] \/ wanted'[c] = ids[Quarantine])
      BY <1>7, <1>9, <1>15, <1>16, Zenon
    <2>6. \A c \in held : wanted'[c] = ids[Quarantine]
      BY <1>10, <1>16, Zenon
    <2>7. ASSUME ~StateMayLag, ~lost, NEW c \in Cgroups, wanted'[c] # None
          PROVE  Attributed(c)' /\ NameOf(c)' \in AllNames /\ wanted'[c] = ids[NameOf(c)']
      <3>1. Meant(engine)
        BY <1>2, <2>7 DEF IInv, AgreeInv
      <3>2. c \notin KeptAdopted(pol)
        BY <1>8, <3>1, Zenon DEF Meant
      <3>3. want[c] # None /\ (c \in st \/ dyn[c] # NoName)
        BY <1>14, <1>16, <2>7, <3>2, Zenon
      <3>4. Attributed(c)'
        BY <1>11, <3>3, Zenon DEF Attributed
      <3>5. CASE c \in held
        <4>1. NameOf(c)' = Quarantine
          BY <1>11, <3>5, Zenon DEF NameOf
        <4> QED
          BY <1>6, <1>16, <3>4, <3>5, <4>1, Zenon
      <3>6. CASE c \notin held /\ c \in st
        <4>1. NameOf(c)' = pol.static[c]
          BY <1>11, <3>6, Zenon DEF NameOf
        <4>2. wanted'[c] = ids[pol.static[c]]
          BY <1>9, <1>16, <3>6, Zenon
        <4> QED
          BY <1>6, <3>4, <3>6, <4>1, <4>2, Zenon
      <3>7. CASE c \notin held /\ c \notin st
        <4>1. dyn[c] # NoName /\ dyn[c] \in Listed(pol)
          BY <1>7, <3>3, <3>7, Zenon
        <4>2. NameOf(c)' = dyn[c]
          BY <1>11, <3>7, <4>1, Zenon DEF NameOf
        <4>3. wanted'[c] = ids[dyn[c]]
          BY <1>7, <1>9, <1>16, <3>7, <4>1, Zenon
        <4> QED
          BY <1>6, <3>4, <4>1, <4>2, <4>3, Zenon
      <3> QED
        BY <3>5, <3>6, <3>7, Zenon
    <2>8. \A c \in Unwritten' : c \in Cgroups /\ wanted'[c] # None
      BY Zenon DEF Unwritten, Bound
    <2>9. Bound(wanted)' = Bound(wanted') /\ \A c \in Bound(wanted') : c \in Cgroups /\ wanted'[c] # None
      BY DEF Bound
    <2>10. StateMayLag' = StateMayLag
      BY <1>2, SameHost
    <2> QED
      BY <1>2, <1>4, <1>11, <2>2, <2>3, <2>4, <2>5, <2>6, <2>7, <2>8, <2>9, <2>10, Zenon DEF PendingInv, Pending
  <1> QED
    BY <1>17, <1>18, <1>21, <1>23, <1>24, <1>25 DEF IInv
-----------------------------------------------------------------------------
\* Every step keeps the invariant.
LEMMA NextIInv == IInv /\ [Next]_vars => IInv'
  <1> SUFFICES ASSUME IInv, [Next]_vars PROVE IInv'
    OBVIOUS
  <1>0. life \in [Cgroups -> {"unborn", "alive", "gone"}] /\ host \in Hosts
    BY DEF IInv, TypeInv
  <1>1. ASSUME NEW pol \in Policies, ApplyCommit(pol) PROVE IInv'
    BY <1>1, ApplyStep
  <1>2. ASSUME NEW pol \in Policies, ApplyRefused(pol) PROVE IInv'
    <2>1. LifeGoesOn
      BY <1>0, <1>2 DEF ApplyRefused, LifeGoesOn
    <2> QED
      BY <1>2, <2>1, LifeStep, Zenon DEF ApplyRefused
  <1>3. CASE SyncRemove
    BY <1>3, SyncRemoveStep
  <1>4. CASE SyncRemoved
    <2>1. Bound(engine.bindings) \subseteq Bound(wanted)
      BY <1>4 DEF SyncRemoved, Unwanted
    <2> QED
      BY <1>4, <2>1, MoveStep DEF SyncRemoved
  <1>5. CASE SyncWrite
    BY <1>5, SyncWrittenStep, SyncFailedStep DEF SyncWrite
  <1>6. CASE SyncDone
    BY <1>6, SyncDoneStep
  <1>7. ASSUME NEW c \in Cgroups, NEW name \in Names, BindDynamic(c, name) PROVE IInv'
    BY <1>7, BindDynamicStep
  <1>8. ASSUME NEW c \in Cgroups, NEW name \in Names, BindContainer(c, name) PROVE IInv'
    BY <1>8, BindContainerStep
  <1>9. ASSUME NEW c \in Cgroups, UnbindDynamic(c) PROVE IInv'
    BY <1>9, UnbindDynamicStep
  <1>10. ASSUME NEW c \in Cgroups, QuarantineCgroup(c) PROVE IInv'
    BY <1>10, QuarantineStep
  <1>11. ASSUME NEW c \in Cgroups, Release(c) PROVE IInv'
    BY <1>11, ReleaseStep
  <1>12. ASSUME NEW c \in Cgroups, CgroupCreated(c) PROVE IInv'
    <2>1. LifeGoesOn
      BY <1>0, <1>12 DEF CgroupCreated, LifeGoesOn
    <2> QED
      BY <1>12, <2>1, LifeStep DEF CgroupCreated
  <1>13. ASSUME NEW c \in Cgroups, CgroupRemoved(c) PROVE IInv'
    <2>1. LifeGoesOn
      BY <1>0, <1>13 DEF CgroupRemoved, LifeGoesOn
    <2> QED
      BY <1>13, <2>1, LifeStep DEF CgroupRemoved
  <1>14. CASE Persist
    BY <1>14, PersistStep
  <1>15. CASE Publish
    BY <1>15, PublishStep
  <1>16. CASE Crash
    BY <1>16, CrashStep
  <1>17. CASE Adopt
    BY <1>17, AdoptStep
  <1>18. CASE UNCHANGED vars
    <2>1. LifeGoesOn
      BY <1>0, <1>18 DEF vars, LifeGoesOn
    <2> QED
      BY <1>18, <2>1, LifeStep DEF vars
  <1> QED
    BY <1>1, <1>2, <1>3, <1>4, <1>5, <1>6, <1>7, <1>8, <1>9, <1>10, <1>11, <1>12, <1>13, <1>14,
       <1>15, <1>16, <1>17, <1>18, Zenon DEF Next

\* The invariant holds in every behaviour.
LEMMA Invariance == Spec => []IInv
  BY InitIInv, NextIInv, PTL DEF Spec

-----------------------------------------------------------------------------
\* Steps that put nothing in quarantine, and take nothing out of the record that
\* must still be held.
LEMMA HeldStay ==
  ASSUME ConfinedInv, LifeGoesOn, host' = host, lost' = lost, confined' \subseteq confined,
         pc' # "down" => /\ pc # "down"
                         /\ \A c \in confined' : life[c] # "gone" /\ c \in engine.quarantined
                                                => c \in engine'.quarantined,
         ~StateMayLag /\ Still' => \/ Still /\ saved' = saved
                                   \/ pc # "down" /\ saved' = engine /\ engine # NoPolicy
  PROVE  ConfinedInv'
  <1>1. confined \subseteq Cgroups /\ StateMayLag' = StateMayLag
    BY SameHost DEF ConfinedInv
  <1>2. ASSUME ~StateMayLag, ~lost, NEW c \in confined', life'[c] # "gone"
        PROVE  /\ pc' # "down" => c \in engine'.quarantined
               /\ Still' => saved' # NoPolicy /\ c \in saved'.quarantined
    <2>1. c \in confined /\ c \in Cgroups /\ life[c] # "gone"
      BY <1>1, <1>2, Zenon DEF LifeGoesOn
    <2>2. /\ pc # "down" => c \in engine.quarantined
          /\ Still => saved # NoPolicy /\ c \in saved.quarantined
      BY <1>2, <2>1, Zenon DEF ConfinedInv
    <2> QED
      BY <1>2, <2>1, <2>2, Zenon
  <1> QED
    BY <1>1, <1>2, Zenon DEF ConfinedInv

\* An apply holds every quarantined cgroup that the policy or a workload binds.
LEMMA ApplyHolds ==
  ASSUME IInv, ConfinedInv, NEW pol \in Policies, ApplyCommit(pol), ~StateMayLag, ~lost,
         NEW c \in confined', life[c] # "gone", c \in engine.quarantined
  PROVE  c \in engine'.quarantined
  <1> DEFINE ids == Allocate(engine.ids, pol)
             want == WantedBindings(pol, ids)
             st == DOMAIN pol.static
  <1>1. /\ host \in Hosts /\ life \in [Cgroups -> {"unborn", "alive", "gone"}]
        /\ engine \in Engines(host) /\ RecordOK(engine) /\ pc = "idle"
        /\ Agrees(engine) /\ Meant(engine)
    BY Zenon DEF IInv, TypeInv, RecordInv, AgreeInv, ApplyCommit
  <1>2. /\ engine.ids \in [AllNames -> Id]
        /\ engine.dynamic \in [Cgroups -> Names \cup {NoName}]
    BY <1>1, Fields
  <1>3. /\ c \in confined /\ c \in Cgroups /\ Accepted(pol)
        /\ c \in st \/ c \in Dynamic(engine) \/ c \in Bound(engine.adopted)
    BY Zenon DEF ApplyCommit, ConfinedInv
  <1>4. c \in st \/ c \in Dynamic(engine)
    BY <1>1, <1>3, Zenon DEF Bound, Meant
  <1>5. c \in Alive
    <2>1. kbind[c] # None /\ engine.bindings = kbind
      BY <1>1, Zenon DEF Meant, Agrees
    <2>2. life[c] # "unborn"
      BY <1>1, <1>3, <2>1, Zenon DEF RecordOK
    <2> QED
      BY <1>1, <1>3, <2>2 DEF Alive
  <1>6. PolicyOK(pol)
    BY <1>1, HostFacts
  <1>7. /\ \A n \in Listed(pol) : ids[n] # None
        /\ \A x \in st : pol.static[x] \in Listed(pol)
    <2>1. IdsOK(engine.ids)
      BY <1>1, Zenon DEF RecordOK
    <2> QED
      BY <1>2, <1>6, <2>1, Allocation, ListedNames, Zenon
  <1> HIDE DEF ids
  <1>8. c \notin st => c \in LiveDynamic /\ engine.dynamic[c] \in Listed(pol)
    <2>1. c \notin st => c \in LiveDynamic
      BY <1>4, <1>5, Zenon DEF LiveDynamic, StaleDynamic, CgroupAlive
    <2>2. c \in LiveDynamic => InPolicy(pol, engine.dynamic[c]) /\ engine.dynamic[c] # NoName
      BY <1>3, Zenon DEF Accepted, LiveDynamic, Dynamic
    <2>3. engine.dynamic[c] # NoName => engine.dynamic[c] \in AllNames
      BY <1>2, <1>3, Zenon DEF AllNames
    <2> QED
      BY <2>1, <2>2, <2>3, Zenon DEF Listed
  <1>9. want[c] = IF c \in st THEN ids[pol.static[c]]
                  ELSE IF c \in LiveDynamic THEN ids[engine.dynamic[c]]
                  ELSE IF c \in KeptAdopted(pol) THEN engine.adopted[c] ELSE None
    BY <1>3, Zenon DEF WantedBindings
  <1> HIDE DEF want
  <1>10. want[c] # None
    <2>1. CASE c \in st
      BY <1>7, <1>9, <2>1, Zenon
    <2>2. CASE c \notin st
      BY <1>7, <1>8, <1>9, <2>2, Zenon
    <2> QED
      BY <2>1, <2>2, Zenon
  <1>11. c \in Held(want)
    BY <1>3, <1>10, Zenon DEF Held, Bound
  <1>12. engine'.quarantined = Held(want)
    <2> DEFINE held == Held(want)
               dyn == [x \in Cgroups |-> IF x \in StaleDynamic THEN NoName ELSE engine.dynamic[x]]
               kept == [x \in Cgroups |-> IF x \in KeptAdopted(pol) THEN engine.adopted[x] ELSE None]
    <2>1. engine' = [engine EXCEPT !.ids = ids, !.policy = pol, !.quarantined = held,
                                   !.dynamic = dyn, !.adopted = kept]
      BY Zenon DEF ApplyCommit, ids, want
    <2> HIDE DEF held, dyn, kept
    <2>2. engine'.quarantined = held
      BY <1>1, <2>1, SMT DEF Engines
    <2> QED
      BY <2>2 DEF held
  <1> QED
    BY <1>11, <1>12, Zenon

\* Nothing is in quarantine initially.
LEMMA ConfinedInit == Init => ConfinedInv
  BY DEF Init, ConfinedInv

\* Every step keeps what was put in quarantine in the record.
LEMMA ConfinedNext == IInv /\ ConfinedInv /\ [Next]_vars => ConfinedInv'
  <1> SUFFICES ASSUME IInv, ConfinedInv, [Next]_vars PROVE ConfinedInv'
    OBVIOUS
  <1>0. /\ life \in [Cgroups -> {"unborn", "alive", "gone"}] /\ host \in Hosts
        /\ engine \in Engines(host) /\ engine # NoPolicy /\ confined \subseteq Cgroups
    BY HostFacts DEF IInv, TypeInv, ConfinedInv
  <1>l. life' = life => LifeGoesOn
    BY <1>0 DEF LifeGoesOn
  <1>1. ASSUME NEW pol \in Policies, ApplyCommit(pol) PROVE ConfinedInv'
    <2>1. LifeGoesOn
      BY <1>0, <1>1 DEF ApplyCommit, LifeGoesOn
    <2>2. /\ host' = host /\ lost' = lost /\ confined' \subseteq confined
          /\ pc = "idle" /\ pc' = "remove" /\ ~Still'
      BY <1>1, Zenon DEF ApplyCommit, Still
    <2>3. CASE ~StateMayLag /\ ~lost
      BY <1>1, <2>1, <2>2, <2>3, ApplyHolds, HeldStay, Zenon
    <2>4. CASE StateMayLag \/ lost
      BY <1>0, <2>2, <2>4, SameHost, Zenon DEF ConfinedInv
    <2> QED
      BY <2>3, <2>4, Zenon
  <1>2. ASSUME NEW pol \in Policies, ApplyRefused(pol) PROVE ConfinedInv'
    <2>1. LifeGoesOn
      BY <1>0, <1>2 DEF ApplyRefused, LifeGoesOn
    <2> QED
      BY <1>2, <2>1, HeldStay, Zenon DEF ApplyRefused, Still, history, marks
  <1>3. CASE SyncRemove
    <2>1. PICK c \in Cgroups : engine' = [engine EXCEPT !.bindings[c] = None, !.pathless = @ \ {c}]
      BY <1>3 DEF SyncRemove, Unwanted, Bound
    <2>2. engine'.quarantined = engine.quarantined
      BY <1>0, <2>1, SMT DEF Engines
    <2> QED
      BY <1>3, <1>l, <2>2, HeldStay, Zenon DEF SyncRemove, Still, marks
  <1>4. CASE SyncRemoved
    BY <1>4, <1>l, HeldStay, Zenon DEF SyncRemoved, Still, history, marks
  <1>5. CASE SyncWrite
    <2>1. engine'.quarantined = engine.quarantined
      <3>1. \/ engine' = engine
            \/ \E c \in Cgroups : engine' = [engine EXCEPT !.bindings[c] = wanted[c]]
        BY <1>5 DEF SyncWrite, Unwritten, Bound
      <3> QED
        BY <1>0, <3>1, SMT DEF Engines
    <2> QED
      BY <1>5, <1>l, <2>1, HeldStay, Zenon DEF SyncWrite, Still, marks
  <1>6. CASE SyncDone
    <2>1. engine'.quarantined = engine.quarantined
      BY <1>0, <1>6, SMT DEF SyncDone, Engines
    <2>2. ~Still'
      BY <1>6 DEF SyncDone, Still
    <2> QED
      BY <1>6, <1>l, <2>1, <2>2, HeldStay, Zenon DEF SyncDone, history, marks
  <1>7. ASSUME NEW c \in Cgroups, NEW name \in Names, BindDynamic(c, name) PROVE ConfinedInv'
    <2>1. LifeGoesOn
      BY <1>0, <1>7 DEF BindDynamic, LifeGoesOn
    <2>2. engine' = [engine EXCEPT !.bindings[c] = engine.ids[name], !.dynamic[c] = name,
                                   !.pathless = @ \ {c}]
      BY <1>7, Zenon DEF BindDynamic
    <2>3. engine'.quarantined = engine.quarantined
      BY <1>0, <2>2, SMT DEF Engines
    <2> QED
      BY <1>7, <2>1, <2>3, HeldStay, Zenon DEF BindDynamic, Still, marks
  <1>8. ASSUME NEW c \in Cgroups, NEW name \in Names, BindContainer(c, name) PROVE ConfinedInv'
    <2>1. engine' = [engine EXCEPT !.bindings[c] = engine.ids[name], !.dynamic[c] = name,
                                   !.adopted[c] = None, !.pathless = @ \ {c}]
      BY <1>8, Zenon DEF BindContainer
    <2>2. engine'.quarantined = engine.quarantined
      BY <1>0, <2>1, SMT DEF Engines
    <2> QED
      BY <1>8, <1>l, <2>2, HeldStay, Zenon DEF BindContainer, Still
  <1>9. ASSUME NEW c \in Cgroups, UnbindDynamic(c) PROVE ConfinedInv'
    <2>1. engine' = [engine EXCEPT !.bindings[c] = None, !.dynamic[c] = NoName,
                                   !.quarantined = @ \ {c}, !.pathless = @ \ {c}]
      BY <1>9, Zenon DEF UnbindDynamic
    <2>2. engine'.quarantined = engine.quarantined \ {c}
      BY <1>0, <2>1, SMT DEF Engines
    <2> QED
      BY <1>9, <1>l, <2>2, HeldStay, Zenon DEF UnbindDynamic, Still
  <1>10. ASSUME NEW c \in Cgroups, QuarantineCgroup(c) PROVE ConfinedInv'
    <2>1. engine' = [engine EXCEPT !.bindings[c] = QuarantineId(engine), !.quarantined = @ \cup {c}]
      BY <1>10, Zenon DEF QuarantineCgroup
    <2>2. engine'.quarantined = engine.quarantined \cup {c}
      BY <1>0, <2>1, SMT DEF Engines
    <2>3. /\ pc = "idle" /\ pc' = "save" /\ confined' = confined \cup {c}
          /\ UNCHANGED <<host, life, lost>>
      BY <1>10, Zenon DEF QuarantineCgroup
    <2> QED
      BY <1>0, <2>2, <2>3, SameHost, Zenon DEF ConfinedInv, Still
  <1>11. ASSUME NEW c \in Cgroups, Release(c) PROVE ConfinedInv'
    <2>1. engine'.quarantined = engine.quarantined \ {c}
      <3>1. PICK id : \/ engine' = [engine EXCEPT !.bindings[c] = id, !.quarantined = @ \ {c}]
                      \/ engine' = [engine EXCEPT !.quarantined = @ \ {c}]
        BY <1>11, Zenon DEF Release
      <3>2. CASE engine' = [engine EXCEPT !.bindings[c] = id, !.quarantined = @ \ {c}]
        BY <1>0, <3>2, SMT DEF Engines
      <3>3. CASE engine' = [engine EXCEPT !.quarantined = @ \ {c}]
        BY <1>0, <3>3, SMT DEF Engines
      <3> QED
        BY <3>1, <3>2, <3>3, Zenon
    <2>2. /\ pc = "idle" /\ pc' \in {"save", "idle"} /\ confined' = confined \ {c}
          /\ UNCHANGED <<host, life, lost, saved>>
      BY <1>11, Zenon DEF Release
    <2> QED
      BY <1>l, <2>1, <2>2, HeldStay, Zenon DEF Still
  <1>12. ASSUME NEW c \in Cgroups, CgroupCreated(c) PROVE ConfinedInv'
    <2>1. LifeGoesOn
      BY <1>0, <1>12 DEF CgroupCreated, LifeGoesOn
    <2> QED
      BY <1>12, <2>1, HeldStay, Zenon DEF CgroupCreated, Still, history, marks
  <1>13. ASSUME NEW c \in Cgroups, CgroupRemoved(c) PROVE ConfinedInv'
    <2>1. LifeGoesOn
      BY <1>0, <1>13 DEF CgroupRemoved, LifeGoesOn
    <2> QED
      BY <1>13, <2>1, HeldStay, Zenon DEF CgroupRemoved, Still, history, marks
  <1>14. CASE Persist
    <2>1. /\ pc \in {"save", "save_publish"} /\ pc' # "down"
          /\ ~StateMayLag => saved' = engine
          /\ UNCHANGED <<host, life, engine, lost, confined>>
      BY <1>14 DEF Persist, history, marks
    <2> QED
      BY <1>0, <1>l, <2>1, HeldStay, Zenon
  <1>15. CASE Publish
    BY <1>15, <1>l, HeldStay, Zenon DEF Publish, Still, history, marks
  <1>16. CASE Crash
    BY <1>16, <1>l, HeldStay, Zenon DEF Crash, Still, history, marks
  <1>17. CASE Adopt
    <2>1. /\ pc = "down" /\ pc' = "save" /\ UNCHANGED <<host, life, confined>>
          /\ \/ engine' = saved /\ lost' = lost
             \/ lost' = (lost \/ Bound(kbind) # {})
      BY <1>17, Zenon DEF Adopt
    <2> SUFFICES ASSUME ~StateMayLag, ~lost', NEW c \in confined, life[c] # "gone"
                 PROVE  c \in engine'.quarantined
      BY <1>0, <2>1, SameHost, Zenon DEF ConfinedInv, Still
    <2>2. ~lost
      BY <2>1, Zenon
    <2>3. saved # NoPolicy /\ c \in saved.quarantined /\ Meant(saved)
      BY <2>1, <2>2, Zenon DEF ConfinedInv, IInv, AgreeInv, Still
    <2>4. c \in Bound(kbind)
      BY <1>0, <2>3, Zenon DEF Meant, Bound
    <2> QED
      BY <2>1, <2>3, <2>4, Zenon
  <1>18. CASE UNCHANGED vars
    BY <1>18, <1>l, HeldStay, Zenon DEF vars, Still, history, marks
  <1> QED
    BY <1>1, <1>2, <1>3, <1>4, <1>5, <1>6, <1>7, <1>8, <1>9, <1>10, <1>11, <1>12, <1>13, <1>14,
       <1>15, <1>16, <1>17, <1>18, Zenon DEF Next

\* A record that is not behind names the live quarantine profile for each of them.
LEMMA ConfinedImplies == IInv /\ ConfinedInv => QuarantineHolds
  <1> SUFFICES ASSUME IInv, ConfinedInv, ~lost, ~StateMayLag, NEW c \in confined, c \in Alive
               PROVE  kbind[c] \in DOMAIN kprof /\ kprof[kbind[c]] = Quarantine
    BY Zenon DEF QuarantineHolds
  <1>0. host \in Hosts /\ c \in Cgroups /\ life[c] # "gone"
    BY DEF IInv, TypeInv, Alive
  <1>1. c \in Known.quarantined
    BY <1>0, Zenon DEF ConfinedInv, Known, Still
  <1>2. Known # NewEngine
    BY <1>1, FreshEngine
  <1>3. Agrees(Known) /\ RecordOK(Known) /\ Meant(Known) /\ Known \in Engines(host)
    BY <1>2, KnownAgrees
  <1>4. kbind[c] = Known.ids[Quarantine] /\ Known.policy # NoPolicy
    BY <1>0, <1>1, <1>3, Zenon DEF Meant
  <1>5. Quarantine \in Listed(Known.policy)
    BY <1>0, <1>3, <1>4, KnownPolicy, ListedNames
  <1> QED
    BY <1>3, <1>4, <1>5, Zenon DEF Agrees
-----------------------------------------------------------------------------
\* Between operations the sensor's record of the bindings is what the kernel
\* holds, after failed writes and restarts too (sync_bindings, adopt).
THEOREM BeliefMatchesKernel == Spec => []BeliefIsKernel
  BY Invariance, Implied, PTL

\* Profile ids are stable: no binding in the kernel ever comes to name a profile
\* it was not written for (ProfileIds, apply_text "Profile ids are stable").
THEOREM BindingsKeepMeaning == Spec => []BindingKeepsMeaning
  BY Invariance, Implied, PTL

\* No apply, write error or restart takes a running agent's or container's
\* profile away (add_runtime_bindings, bind_dynamic, bind_container).
THEOREM WorkloadsStayGoverned == Spec => []AgentsStayGoverned
  BY Invariance, Implied, PTL

\* What is put in quarantine stays there, through applies, failed writes, resyncs
\* and restarts, until it is released or no longer bound (sync_bindings, quarantine).
THEOREM QuarantineStays == Spec => []QuarantineHolds
  BY Invariance, ConfinedInit, ConfinedNext, ConfinedImplies, PTL DEF Spec

\* The published levels let rk_governed_binding find the nearest bound ancestor
\* (publish_governed_levels, governed_levels).
THEOREM DescendantsStayGoverned == Spec => []DescendantsGoverned
  BY Invariance, Implied, PTL

\* The capacity check of an apply is enough for the writes that follow it
\* (check_capacity, sync_bindings "Removals first").
THEOREM RoomSuffices == Spec => []RoomForEveryBinding
  BY Invariance, Implied, PTL

\* A workload adopted without a state file is never unbound while it runs (adopt).
THEOREM AdoptedAreKept == Spec => []AdoptedStayBound
  BY Invariance, Implied, PTL
=============================================================================
