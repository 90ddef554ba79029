--------------------------- MODULE DecisionProofs ---------------------------
(***************************************************************************)
(* Proofs about what the kernel lets through: which files a profile        *)
(* executes and changes, and where its sockets send. First what is said of *)
(* loops.                                                                  *)
(***************************************************************************)
EXTENDS FileExec, Egress, FiniteSetsExt, WellFoundedInduction, TLAPS

\* Sequences with the same elements are the same.
LEMMA SeqSame ==
  ASSUME NEW T, NEW p \in Seq(T), NEW q \in Seq(T), Len(p) = Len(q), \A i \in 1..Len(p) : p[i] = q[i]
  PROVE  p = q
  OBVIOUS

\* Concatenation puts one sequence after the other.
LEMMA SeqConcat ==
  ASSUME NEW T, NEW p \in Seq(T), NEW q \in Seq(T)
  PROVE  /\ p \o q \in Seq(T) /\ Len(p \o q) = Len(p) + Len(q)
         /\ \A i \in 1..(Len(p) + Len(q)) : (p \o q)[i] = IF i <= Len(p) THEN p[i] ELSE q[i - Len(p)]
  OBVIOUS

\* Induction over the numbers, for a property given as a set.
LEMMA Induction ==
  ASSUME NEW S \in SUBSET Nat, 0 \in S, \A n \in S : n + 1 \in S
  PROVE  \A n \in Nat : n \in S
  <1> DEFINE R == {ss \in Nat \X Nat : ss[1] < ss[2]}
             T == Nat \ S
  <1> SUFFICES ASSUME T # {} PROVE FALSE
    OBVIOUS
  <1>1. \E x \in T : \A y \in T : ~ (<<y, x>> \in R)
    <2>1. IsWellFoundedOn(R, Nat)
      BY NatLessThanWellFounded, Zenon DEF OpToRel
    <2>2. T \subseteq Nat
      OBVIOUS
    <2> HIDE DEF R, T
    <2> QED BY <2>1, <2>2, WFMin, Zenon
  <1>2. PICK x \in T : \A y \in T : ~ (<<y, x>> \in R)
    BY <1>1
  <1>3. x \in Nat /\ x # 0 /\ x \notin S
    OBVIOUS
  <1>4. x - 1 \in Nat /\ x - 1 < x /\ (x - 1) + 1 = x
    BY <1>3
  <1>5. <<x - 1, x>> \in R
    BY <1>3, <1>4
  <1>6. x - 1 \in S
    BY <1>2, <1>4, <1>5
  <1> QED BY <1>3, <1>4, <1>6

\* A loop of n turns over states in R, and one of its runs.
Loops(n, R) == [R \X (1..n) -> R]
IsRun(a, n, R, init, turn) ==
  a \in [0..n -> R] /\ a[0] = init /\ \A i \in 1..n : a[i] = turn[<<a[i - 1], i>>]

\* It has a run.
LEMMA LoopRuns ==
  ASSUME NEW n \in Nat, NEW R, NEW init \in R, NEW turn \in Loops(n, R)
  PROVE  \E a : IsRun(a, n, R, init, turn)
  <1> USE DEF Loops
  <1> DEFINE P(m) == \E a \in [0..m -> R] : a[0] = init /\ \A i \in 1..m : a[i] = turn[<<a[i - 1], i>>]
             S == {m \in Nat : m <= n => P(m)}
  <1>1. 0 \in S
    <2> DEFINE z == [i \in 0..0 |-> init]
    <2>1. z \in [0..0 -> R] /\ z[0] = init /\ \A i \in 1..0 : z[i] = turn[<<z[i - 1], i>>]
      OBVIOUS
    <2> HIDE DEF z
    <2>2. P(0)
      BY <2>1
    <2> QED BY <2>2
  <1>2. ASSUME NEW m \in S PROVE m + 1 \in S
    <2> SUFFICES ASSUME m + 1 <= n PROVE P(m + 1)
      <3> HIDE DEF P
      <3> QED OBVIOUS
    <2>1. PICK a \in [0..m -> R] : a[0] = init /\ \A i \in 1..m : a[i] = turn[<<a[i - 1], i>>]
      BY <1>2
    <2> DEFINE v == turn[<<a[m], m + 1>>]
               b == [i \in 0..(m + 1) |-> IF i = m + 1 THEN v ELSE a[i]]
    <2>2. m \in Nat /\ a[m] \in R /\ m + 1 \in 1..n
      BY <1>2, <2>1
    <2>3. v \in R
      BY <2>2
    <2> HIDE DEF v
    <2>4. b \in [0..(m + 1) -> R]
      BY <2>1, <2>2, <2>3
    <2>5. b[0] = init
      BY <2>1, <2>2
    <2>6. ASSUME NEW i \in 1..(m + 1) PROVE b[i] = turn[<<b[i - 1], i>>]
      <3>1. CASE i = m + 1
        <4>1. i - 1 = m /\ m \in 0..(m + 1) /\ m # m + 1 /\ i \in 0..(m + 1)
          BY <2>2, <3>1
        <4>2. b[i - 1] = a[m] /\ b[i] = v
          BY <3>1, <4>1
        <4> QED BY <3>1, <4>2, Zenon DEF v
      <3>2. CASE i # m + 1
        <4>1. i \in 1..m /\ i - 1 \in 0..m /\ i - 1 # m + 1
          BY <2>2, <3>2
        <4> QED BY <2>1, <2>2, <3>2, <4>1
      <3> QED BY <3>1, <3>2
    <2> HIDE DEF b
    <2> QED BY <2>4, <2>5, <2>6
  <1> HIDE DEF P
  <1>3. S \in SUBSET Nat
    OBVIOUS
  <1>4. \A m \in Nat : m \in S
    <2> HIDE DEF S
    <2> QED BY <1>1, <1>2, <1>3, Induction, Zenon
  <1>5. P(n)
    BY <1>4
  <1> QED BY <1>5 DEF P, IsRun

-----------------------------------------------------------------------------
(***************************************************************************)
(* What a profile with a protected allow list lets run, and what is        *)
(* recorded of it, for any tree, any policies and any number of applies.   *)
(*                                                                         *)
(* The inductive invariant has three parts.  An exec carries the           *)
(* generation of its last check, which is live or over; the decision kept  *)
(* for it is that check's until it is recorded or evicted.  Every file on  *)
(* a protected list has a rule that denies every change.  And such a file  *)
(* is neither changed nor open for writing, unless it was open at the      *)
(* flip.                                                                   *)
(***************************************************************************)
\* A policy's exec list has rule ids, and if it is protected every file on it has a file
\* rule with at least these rights.
Protected(policy) ==
  \A f \in DOMAIN policy.exec :
    /\ policy.exec[f] \in Nat
    /\ policy.text.protect =>
         f \in DOMAIN policy.files /\ PROTECT_EXEC_MASK \subseteq policy.files[f].mask

\* Generations are counted, and an exec's is none of the future.
GenInv ==
  /\ live.gen \in Nat \ {0} /\ exec.gen \in 0..live.gen /\ exec.rule \in Nat
  /\ pending # None => pending.gen = live.gen + 1

ListInv == Protected(live) /\ (pending # None => Protected(pending))

ExecInv ==
  /\ DOMAIN exec = {"pc", "file", "gov", "gen", "rule", "deny", "kept", "linked"}
  /\ exec.pc \in {"idle", "check", "checked", "done"}
  /\ exec.pc = "check" => ~exec.gov /\ ~exec.kept
  /\ exec.pc \in {"check", "checked"} => event = None
  /\ exec.pc = "checked" /\ exec.gov /\ exec.kept => decided = [gen |-> exec.gen, rule |-> exec.rule]
  /\ exec.pc = "checked" /\ exec.gov /\ exec.gen = live.gen /\ Enforcing /\ live.text.deny
       => exec.file \in DOMAIN live.exec /\ (exec.linked \/ live.text.unlinked)

\* The file tree's part: what the protected list names is as the flip found it.
CleanInv ==
  /\ DOMAIN before = {"tree", "fds", "written"} /\ before.written \in BOOLEAN
  /\ Enforcing /\ live.text.protect /\ before.written =>
       \A f \in DOMAIN live.exec : f \in fds \cup tainted => f \in before.fds

IInv == GenInv /\ ListInv /\ ExecInv /\ CleanInv /\ RecordIsDecision
-----------------------------------------------------------------------------
\* A set of numbers has its least element.
LEMMA MinNat ==
  ASSUME NEW S \in SUBSET Nat, S # {}
  PROVE  Min(S) \in S /\ \A y \in S : Min(S) <= y
  <1> DEFINE R == {ss \in Nat \X Nat : ss[1] < ss[2]}
  <1>1. \E x \in S : \A y \in S : ~ (<<y, x>> \in R)
    <2>1. IsWellFoundedOn(R, Nat)
      BY NatLessThanWellFounded, Zenon DEF OpToRel
    <2> HIDE DEF R
    <2> QED BY <2>1, WFMin, Zenon
  <1>2. \E x \in S : \A y \in S : x =< y
    <2>1. PICK x \in S : \A y \in S : ~ (<<y, x>> \in R)
      BY <1>1
    <2>2. ASSUME NEW y \in S, y < x PROVE <<y, x>> \in R
      BY <2>2, SMT
    <2>3. \A y \in S : ~(y < x)
      BY <2>1, <2>2, Zenon
    <2>4. \A y \in S : x =< y
      BY <2>3, SMT
    <2> QED
      BY <2>4
  <1> QED
    BY <1>2, Zenon DEF Min

\* A resolved policy's list is protected: resolve_files gives every listed file the mask.
LEMMA ResolvedProtected ==
  ASSUME NEW t, NEW p \in Texts, NEW gen
  PROVE  /\ Protected(Resolved(t, p, gen))
         /\ Resolved(t, p, gen).gen = gen
  <1> DEFINE rs == Resolved(t, p, gen)
  <1>1. rs.text = p /\ rs.exec = resolve_exec(t, p) /\ rs.files = resolve_files(t, p) /\ rs.gen = gen
    BY DEF Resolved
  <1>2. ASSUME NEW f \in DOMAIN resolve_exec(t, p) PROVE resolve_exec(t, p)[f] \in Nat
    <2> DEFINE Entries(i) == {k \in DOMAIN p.allow : i \in ExecTargets(t, p.allow[k])}
    <2>1. /\ DOMAIN resolve_exec(t, p) = {j \in Files : Entries(j) # {}}
          /\ \A i \in DOMAIN resolve_exec(t, p) :
               resolve_exec(t, p)[i] = Len(p.files) + Min(Entries(i))
      BY DEF resolve_exec
    <2>2. Entries(f) \in SUBSET Nat /\ Entries(f) # {}
      BY <1>2, <2>1, FileExecAssumptions
    <2>3. Min(Entries(f)) \in Nat
      BY <2>2, MinNat
    <2> QED
      BY <1>2, <2>1, <2>3, FileExecAssumptions
  <1>3. ASSUME p.protect, NEW f \in DOMAIN resolve_exec(t, p)
        PROVE  /\ f \in DOMAIN resolve_files(t, p)
               /\ PROTECT_EXEC_MASK \subseteq resolve_files(t, p)[f].mask
    <2>1. f \in Inodes
      BY <1>3 DEF resolve_exec, Inodes
    <2> DEFINE Rules(i) == {k \in DOMAIN p.files : Walk(t, p.files[k].path) = i}
               Listed(i) == p.protect /\ i \in DOMAIN resolve_exec(t, p)
               denied(i) == (UNION {p.files[k].mask : k \in Rules(i)})
                              \cup (IF Listed(i) THEN PROTECT_EXEC_MASK ELSE {})
               ruled == {j \in Inodes : Rules(j) # {} \/ Listed(j)}
    <2>2. /\ DOMAIN resolve_files(t, p) = ruled
          /\ \A i \in ruled : resolve_files(t, p)[i].mask = denied(i)
      BY DEF resolve_files
    <2>3. Listed(f) /\ f \in ruled
      BY <1>3, <2>1
    <2>4. PROTECT_EXEC_MASK \subseteq denied(f)
      BY <2>3
    <2> HIDE DEF ruled, denied
    <2> QED
      BY <2>2, <2>3, <2>4
  <1> QED
    BY <1>1, <1>2, <1>3 DEF Protected

\* The rule on a protected file denies every change of it, by name or by link.
LEMMA ChangeDenied ==
  ASSUME Protected(live), Enforcing, live.text.protect, bound = "yes",
         NEW f \in DOMAIN live.exec, NEW above, NEW access, access \cap PROTECT_EXEC_MASK # {}
  PROVE  Denied(f, above, access)
  <1>1. Gov.files = live.files /\ Gov.mode = "enforce"
    BY DEF Gov, Enforcing
  <1>2. f \in DOMAIN live.files /\ live.files[f].mask \cap access # {}
    BY DEF Protected
  <1>3. rk_file_check(Gov, f, above, access)
    BY <1>1, <1>2, Zenon DEF rk_file_check
  <1> QED
    BY <1>1, <1>3, Zenon DEF Denied, rk_enforced_deny, rk_effective_deny

\* A file operation under the live profile that opens and changes no protected file
\* keeps the invariant; one under an unwritten profile ends the promise.
LEMMA OpStep ==
  ASSUME IInv, Op,
         ASSUME Enforcing, live.text.protect, bound = "yes", NEW f \in DOMAIN live.exec,
                f \in fds' \cup tainted'
         PROVE  f \in fds \cup tainted
  PROVE  IInv'
  <1>1. UNCHANGED <<live, pending, exec, decided, event>>
    BY DEF Op
  <1>2. GenInv' /\ ListInv' /\ ExecInv' /\ RecordIsDecision'
    BY <1>1 DEF IInv, GenInv, ListInv, Protected, ExecInv, Enforcing, RecordIsDecision
  <1>3. /\ DOMAIN before' = DOMAIN before /\ before'.fds = before.fds
        /\ before'.written = (before.written /\ bound = "yes")
    BY Zenon DEF IInv, CleanInv, Op
  <1>4. CleanInv'
    <2>1. DOMAIN before' = {"tree", "fds", "written"} /\ before'.written \in BOOLEAN
      BY <1>3 DEF IInv, CleanInv
    <2>2. ASSUME Enforcing, live.text.protect, before.written, bound = "yes",
                 NEW f \in DOMAIN live.exec, f \in fds' \cup tainted'
          PROVE  f \in before.fds
      BY <2>2 DEF IInv, CleanInv
    <2> QED
      BY <1>1, <1>3, <2>1, <2>2, Zenon DEF CleanInv, Enforcing
  <1> QED
    BY <1>2, <1>4 DEF IInv

\* A step that leaves the tree's part, the live rules and the pending ones alone.
LEMMA ExecStep ==
  ASSUME IInv, UNCHANGED <<live, pending, fds, tainted, before>>,
         exec'.gen \in 0..live.gen, exec'.rule \in Nat, ExecInv', RecordIsDecision'
  PROVE  IInv'
  BY DEF IInv, GenInv, ListInv, Protected, CleanInv, Enforcing

\* The initial states satisfy the invariant.
LEMMA InitIInv == Init => IInv
  <1> SUFFICES ASSUME Init PROVE IInv
    OBVIOUS
  <1>1. PICK p \in Texts : live = Resolved(tree, p, 1)
    BY DEF Init
  <1>2. Protected(live) /\ live.gen = 1
    BY <1>1, ResolvedProtected
  <1>3. exec = Idle /\ pending = None /\ event = None /\ fds = {} /\ tainted = {}
          /\ before = [tree |-> tree, fds |-> {}, written |-> TRUE]
    BY DEF Init
  <1> QED
    BY <1>2, <1>3, SMT DEF IInv, GenInv, ListInv, ExecInv, CleanInv, RecordIsDecision, Idle

\* Every step keeps the invariant.
LEMMA NextIInv == IInv /\ [Next]_vars => IInv'
  <1> SUFFICES ASSUME IInv, [Next]_vars PROVE IInv'
    OBVIOUS
  <1> USE DEF IInv
  <1>1. ASSUME NEW d \in Dirs, NEW n \in Names,
               NEW access \in {{"write"}, {"read", "write"}, {"write", "truncate"}},
               Open(d, n, access)
        PROVE  IInv'
    <2> DEFINE f == tree[<<d, n>>]
    <2>1. Op /\ ~Denied(f, ChainOf(tree, d), access)
            /\ fds' = fds \cup {f} /\ tainted' \subseteq tainted \cup {f}
      BY <1>1 DEF Open, DeniedAt
    <2>2. access \cap PROTECT_EXEC_MASK # {}
      BY DEF PROTECT_EXEC_MASK
    <2> HIDE DEF f
    <2> QED
      BY <2>1, <2>2, ChangeDenied, OpStep, Zenon DEF ListInv
  <1>2. ASSUME NEW d \in Dirs, NEW n \in Names,
               NEW access \in {{"truncate"}, {"setattr"}, {"truncate", "setattr"}},
               Setattr(d, n, access)
        PROVE  IInv'
    <2> DEFINE f == tree[<<d, n>>]
    <2>1. Op /\ ~Denied(f, ChainOf(tree, d), access)
            /\ fds' = fds /\ tainted' = tainted \cup {f}
      BY <1>2 DEF Setattr, DeniedAt
    <2>2. access \cap PROTECT_EXEC_MASK # {}
      BY DEF PROTECT_EXEC_MASK
    <2> HIDE DEF f
    <2> QED
      BY <2>1, <2>2, ChangeDenied, OpStep, Zenon DEF ListInv
  <1>3. ASSUME NEW d \in Dirs, NEW n \in Names, NEW i \in Inodes, Create(d, n, i)
        PROVE  IInv'
    <2>1. Op /\ fds' = fds /\ tainted' \subseteq tainted \cup {i}
            /\ i \in FreshIn(Files) \cup FreshIn(Dirs)
      BY <1>3 DEF Create
    <2>2. i \notin DOMAIN live.exec
      <3>1. \A S : \A j \in FreshIn(S) : j \notin DOMAIN live.exec
        BY Zenon DEF FreshIn
      <3> QED
        BY <2>1, <3>1
    <2> QED
      BY <2>1, <2>2, OpStep, Zenon
  <1>4. ASSUME NEW d \in Dirs, NEW n \in Names,
               \/ Unlink(d, n)
               \/ \E e \in Dirs, m \in Names :
                    Rename(d, n, e, m) \/ Exchange(d, n, e, m) \/ Link(d, n, e, m)
        PROVE  IInv'
    <2>1. Op /\ UNCHANGED <<fds, tainted>>
      BY <1>4, Zenon DEF Unlink, Rename, Exchange, Link
    <2> QED
      BY <2>1, OpStep, Zenon
  <1>5. ASSUME NEW f \in Files, WriteFd(f) PROVE IInv'
    <2>1. Op /\ fds' = fds /\ f \in fds /\ tainted' = tainted \cup {f}
      BY <1>5 DEF WriteFd
    <2> QED
      BY <2>1, OpStep, Zenon
  <1>6. ASSUME NEW f \in Files, Close(f) PROVE IInv'
    BY <1>6 DEF Close, GenInv, ListInv, Protected, ExecInv, CleanInv, Enforcing, RecordIsDecision
  <1>7. ASSUME NEW f \in Files, ExecStart(f) PROVE IInv'
    <2>1. /\ DOMAIN exec' = {"pc", "file", "gov", "gen", "rule", "deny", "kept", "linked"}
          /\ exec'.pc = "check" /\ exec'.gov = FALSE /\ exec'.kept = FALSE
          /\ exec'.gen = 0 /\ exec'.rule = 0
      BY <1>7, Zenon DEF ExecStart, Idle
    <2>2. ExecInv' /\ RecordIsDecision'
      BY <1>7, <2>1, SMT DEF ExecInv, RecordIsDecision, ExecStart
    <2> QED
      BY <1>7, <2>1, <2>2, ExecStep DEF ExecStart, GenInv
  <1>8. ASSUME NEW stale \in BOOLEAN, ExecCheck(stale) PROVE IInv'
    <2> DEFINE rule == ExecRule(Gov, exec.file)
    <2>1. exec.pc = "check" /\ event = None
            /\ UNCHANGED <<live, pending, fds, tainted, before, event>>
      BY <1>8, Zenon DEF ExecCheck, ExecInv
    <2>2. CASE exec' = [exec EXCEPT !.pc = "checked", !.gov = FALSE]
      <3>1. /\ DOMAIN exec' = DOMAIN exec
            /\ exec'.pc = "checked" /\ exec'.gov = FALSE
            /\ exec'.gen = exec.gen /\ exec'.rule = exec.rule
        BY <2>2, Zenon DEF ExecInv
      <3>2. ExecInv' /\ RecordIsDecision'
        BY <2>1, <3>1, SMT DEF ExecInv, RecordIsDecision
      <3> QED
        BY <2>1, <3>1, <3>2, ExecStep DEF GenInv
    <2>3. CASE exec' = Idle
      <3>1. ExecInv' /\ RecordIsDecision' /\ exec'.gen = 0 /\ exec'.rule = 0
        BY <2>3, SMT DEF ExecInv, RecordIsDecision, Idle
      <3> QED
        BY <2>1, <3>1, ExecStep DEF GenInv
    <2>4. CASE /\ decided' = [gen |-> Gov.gen, rule |-> rule]
               /\ ~rk_enforced_deny(Gov, ExecDeny(Gov, exec.file), stale)
               /\ exec' = [exec EXCEPT !.pc = "checked", !.gov = TRUE, !.gen = Gov.gen, !.rule = rule,
                                       !.deny = ExecDeny(Gov, exec.file), !.kept = TRUE,
                                       !.linked = NamesOf(tree, exec.file) # {}]
      <3>1. /\ DOMAIN exec' = DOMAIN exec /\ exec'.pc = "checked" /\ exec'.file = exec.file
            /\ exec'.gen = Gov.gen /\ exec'.rule = rule
            /\ exec'.linked = (NamesOf(tree, exec.file) # {})
        BY <2>4, Zenon DEF ExecInv
      <3>2. /\ Gov.gen \in 0..live.gen
            /\ Gov.gen = live.gen => bound = "yes"
            /\ \A f \in DOMAIN Gov.exec : Gov.exec[f] \in Nat
        BY SMT DEF Gov, GenInv, ListInv, Protected
      <3>3. rule \in Nat
        BY <3>2 DEF ExecRule
      <3>4. Gov.gen = live.gen /\ Enforcing /\ live.text.deny =>
              exec.file \in DOMAIN live.exec /\ (exec'.linked \/ live.text.unlinked)
        <4> SUFFICES ASSUME bound = "yes", Enforcing, live.text.deny
                     PROVE  exec.file \in DOMAIN live.exec /\ (exec'.linked \/ live.text.unlinked)
          BY <3>2
        <4>1. /\ Gov.mode = "enforce" /\ Gov.exec = live.exec
              /\ Gov.deny = live.text.deny /\ Gov.unlinked = live.text.unlinked
          BY DEF Gov, Enforcing
        <4>2. ~ExecDeny(Gov, exec.file)
          BY <2>4, <4>1, Zenon DEF rk_enforced_deny, rk_effective_deny
        <4> QED
          BY <3>1, <4>1, <4>2, Zenon DEF ExecDeny
      <3>5. ExecInv' /\ RecordIsDecision'
        <4> HIDE DEF rule
        <4> QED
          BY <2>1, <2>4, <3>1, <3>4, SMT DEF ExecInv, RecordIsDecision, Enforcing
      <3> QED
        BY <2>1, <3>1, <3>2, <3>3, <3>5, ExecStep
    <2> QED
      BY <1>8, <2>2, <2>3, <2>4, Zenon DEF ExecCheck
  <1>9. CASE ExecInterp
    <2>1. /\ DOMAIN exec' = {"pc", "file", "gov", "gen", "rule", "deny", "kept", "linked"}
          /\ exec'.pc = "check" /\ exec'.gov = FALSE /\ exec'.kept = FALSE
          /\ exec'.gen = 0 /\ exec'.rule = 0
      BY <1>9, Zenon DEF ExecInterp, Idle
    <2>2. ExecInv' /\ RecordIsDecision'
      BY <1>9, <2>1, SMT DEF ExecInv, RecordIsDecision, ExecInterp
    <2> QED
      BY <1>9, <2>1, <2>2, ExecStep DEF ExecInterp, GenInv
  <1>10. CASE ExecFail
    <2>1. ExecInv' /\ RecordIsDecision' /\ exec'.gen = 0 /\ exec'.rule = 0
      BY <1>10, SMT DEF ExecInv, RecordIsDecision, ExecFail, Idle
    <2> QED
      BY <1>10, <2>1, ExecStep DEF ExecFail, GenInv
  <1>11. CASE ExecRecord
    <2>1. /\ DOMAIN exec' = DOMAIN exec /\ exec'.pc = "done"
          /\ exec'.gov = exec.gov /\ exec'.kept = exec.kept
          /\ exec'.gen = exec.gen /\ exec'.rule = exec.rule
      BY <1>11, Zenon DEF ExecRecord, ExecInv
    <2>2. ExecInv'
      BY <2>1, SMT DEF ExecInv
    <2>3. RecordIsDecision'
      <3>1. CASE event' = event
        BY <1>11, <2>1, <3>1, SMT DEF RecordIsDecision, ExecInv, ExecRecord
      <3>2. CASE event' = Recorded
        <4>1. exec.gov /\ exec.kept => decided = [gen |-> exec.gen, rule |-> exec.rule]
          BY <1>11, Zenon DEF ExecInv, ExecRecord
        <4>2. [gen |-> exec.gen, rule |-> exec.rule] # None
          BY FileExecAssumptions DEF GenInv
        <4> QED
          BY <2>1, <3>2, <4>1, <4>2, Zenon DEF RecordIsDecision, Recorded
      <3> QED
        BY <1>11, <3>1, <3>2 DEF ExecRecord
    <2> QED
      BY <1>11, <2>1, <2>2, <2>3, ExecStep DEF ExecRecord, GenInv
  <1>12. CASE Evict
    <2>1. /\ DOMAIN exec' = DOMAIN exec /\ exec'.pc = exec.pc
          /\ exec'.gov = exec.gov /\ exec'.kept = FALSE
          /\ exec'.gen = exec.gen /\ exec'.rule = exec.rule /\ exec'.file = exec.file
          /\ exec'.linked = exec.linked
      BY <1>12, Zenon DEF Evict, ExecInv
    <2>2. ExecInv' /\ RecordIsDecision'
      BY <1>12, <2>1, SMT DEF Evict, ExecInv, RecordIsDecision, Enforcing
    <2> QED
      BY <1>12, <2>1, <2>2, ExecStep DEF Evict, GenInv
  <1>13. ASSUME NEW p \in Texts, Resolve(p) PROVE IInv'
    <2>1. /\ Protected(pending)' /\ pending'.gen = live.gen + 1
          /\ UNCHANGED <<live, fds, exec, decided, event, tainted, before>>
      BY <1>13, ResolvedProtected DEF Resolve, Protected
    <2> QED
      BY <2>1 DEF GenInv, ListInv, Protected, ExecInv, CleanInv, Enforcing, RecordIsDecision
  <1>14. CASE Flip
    <2>1. /\ pending # None /\ live' = pending /\ pending' = None /\ tainted' = {}
          /\ before' = [tree |-> tree, fds |-> fds, written |-> TRUE]
          /\ UNCHANGED <<fds, exec, decided, event>>
      BY <1>14 DEF Flip
    <2>2. GenInv' /\ ListInv' /\ exec.gen # live'.gen
      BY <2>1, SMT DEF GenInv, ListInv, Protected
    <2>3. ExecInv'
      BY <2>1, <2>2, SMT DEF ExecInv
    <2>4. CleanInv'
      BY <2>1 DEF CleanInv
    <2>5. RecordIsDecision'
      BY <2>1 DEF RecordIsDecision
    <2> QED
      BY <2>2, <2>3, <2>4, <2>5
  <1>15. ASSUME NEW b \in {"no", "yes", "unwritten"}, SetBinding(b) PROVE IInv'
    BY <1>15
       DEF SetBinding, GenInv, ListInv, Protected, ExecInv, CleanInv, Enforcing, RecordIsDecision
  <1>16. CASE UNCHANGED vars
    BY <1>16 DEF vars, GenInv, ListInv, Protected, ExecInv, CleanInv, Enforcing, RecordIsDecision
  <1> QED
    BY <1>1, <1>2, <1>3, <1>4, <1>5, <1>6, <1>7, <1>8, <1>9, <1>10, <1>11, <1>12, <1>13, <1>14, <1>15,
       <1>16 DEF Next, FileStep
-----------------------------------------------------------------------------
\* The invariant holds in every reachable state.
LEMMA Invariance == Spec => []IInv
  BY InitIInv, NextIInv, PTL DEF Spec

\* What a protected allow list lets execute is on the list, had a name when it was checked
\* (unless the profile allows unlinked files), and is what the flip found there: no governed
\* task has changed it since, by any name, unless it had it open already.
THEOREM OnlyListedExecute == Spec => []ExecutesListed
  <1>1. IInv => ExecutesListed
    BY DEF IInv, ExecInv, CleanInv, ExecutesListed
  <1> QED
    BY <1>1, Invariance, PTL

\* The record of a committed exec is the decision of its last check, through flips,
\* rebinds and failed execs before it.
THEOREM RecordsDecision == Spec => []RecordIsDecision
  BY Invariance, PTL DEF IInv

-----------------------------------------------------------------------------
(***************************************************************************)
(* What lies beneath a directory that a subtree rule freezes stays as the  *)
(* flip found it, in a file tree of any depth.                             *)
(*                                                                         *)
(* The hooks walk up the tree as it is, not the tree of the flip.  So the  *)
(* argument goes in a circle of steps: as long as the entries beneath the  *)
(* directory are those of the flip, the walk from any directory beneath it *)
(* still meets it, since a directory has one name; every hook that an      *)
(* operation there has to pass then denies it; and so the entries stay.    *)
(***************************************************************************)
Tree == [Dirs \X Names -> Inodes \cup {None}]

Levels == Cardinality(Dirs)

\* The chains that ChainOf takes its own from: u[n][i] has at most n directories above i.
Ups(t, u) ==
  /\ u \in [0..Levels -> [Dirs -> Seq(Dirs)]]
  /\ \A i \in Dirs : u[0][i] = <<i>>
  /\ \A n \in 1..Levels, i \in Dirs :
       u[n][i] = IF ParentDir(t, i) = None THEN <<i>> ELSE <<i>> \o u[n - 1][ParentDir(t, i)]

\* i has names beneath q at the flip, and none elsewhere.
Enclosed(q, i) ==
  /\ i # None /\ NamesOf(before.tree, i) # {}
  /\ NamesOf(before.tree, i) \subseteq Below(before.tree, q) \X Names

\* The part of SubtreeUnchanged that the steps carry on: what q encloses has got no name
\* outside, and is neither changed nor open unless it was open at the flip.
Sealed(q) ==
  /\ \A d \in Below(before.tree, q), n \in Names : tree[<<d, n>>] = before.tree[<<d, n>>]
  /\ \A i : Enclosed(q, i) =>
       /\ NamesOf(tree, i) \subseteq Below(before.tree, q) \X Names
       /\ i \in fds \cup tainted => i \in before.fds

SubtreeInv ==
  /\ tree \in Tree /\ OneName(tree)
  /\ fds \cup tainted \subseteq Inodes
  /\ \A q \in Frozen : Sealed(q)
-----------------------------------------------------------------------------
\* There is a number of directories.
LEMMA LevelsNat == Levels \in Nat
  BY TreeAssumptions DEF Levels

\* The directory above has an entry for the one below.
LEMMA ParentFacts ==
  ASSUME NEW t, NEW i, ParentDir(t, i) # None
  PROVE  ParentDir(t, i) \in Dirs /\ \E n \in Names : t[<<ParentDir(t, i), n>>] = i
  <1>1. NamesOf(t, i) # {} /\ ParentDir(t, i) = (CHOOSE dn \in NamesOf(t, i) : TRUE)[1]
    BY Zenon DEF ParentDir
  <1>2. PICK dn \in NamesOf(t, i) : ParentDir(t, i) = dn[1]
    BY <1>1, Zenon
  <1> QED BY <1>2 DEF NamesOf

\* It is the only directory with one.
LEMMA ParentOnly ==
  ASSUME NEW t, OneName(t), NEW i \in Dirs, NEW d \in Dirs, NEW n \in Names, t[<<d, n>>] = i
  PROVE  ParentDir(t, i) = d
  <1>1. <<d, n>> \in NamesOf(t, i)
    BY DEF NamesOf
  <1>2. ParentDir(t, i) = (CHOOSE dn \in NamesOf(t, i) : TRUE)[1]
    BY <1>1, Zenon DEF ParentDir
  <1> DEFINE c == CHOOSE dn \in NamesOf(t, i) : TRUE
  <1>3. c \in NamesOf(t, i)
    BY <1>1, Zenon
  <1>4. c = <<d, n>>
    BY <1>1, <1>3, Zenon DEF OneName
  <1> HIDE DEF c
  <1>5. c[1] = d
    BY <1>4
  <1> QED BY <1>2, <1>5, Zenon DEF c

\* ChainOf is the last of its chains.
LEMMA ChainUps ==
  ASSUME NEW t
  PROVE  \E u : Ups(t, u) /\ \A d \in Dirs : ChainOf(t, d) = u[Levels][d]
  <1> DEFINE R == [Dirs -> Seq(Dirs)]
             N == Levels
             P(i) == ParentDir(t, i)
             first == [i \in Dirs |-> <<i>>]
             above(x) == [i \in Dirs |-> IF P(i) = None THEN <<i>> ELSE <<i>> \o x[P(i)]]
             turn == [xn \in R \X (1..N) |-> above(xn[1])]
  <1>0. N \in Nat
    BY LevelsNat
  <1>1. \A i \in Dirs : P(i) # None => P(i) \in Dirs
    BY ParentFacts
  <1> HIDE DEF P
  <1>2. ASSUME NEW x \in R PROVE above(x) \in R
    <2>1. ASSUME NEW i \in Dirs PROVE (IF P(i) = None THEN <<i>> ELSE <<i>> \o x[P(i)]) \in Seq(Dirs)
      <3>1. CASE P(i) = None
        BY <3>1
      <3>2. CASE P(i) # None
        <4>1. x[P(i)] \in Seq(Dirs)
          BY <1>1, <3>2
        <4> QED BY <3>2, <4>1
      <3> QED BY <3>1, <3>2
    <2> QED BY <2>1
  <1>3. first \in R
    OBVIOUS
  <1> HIDE DEF N
  <1>4. turn \in Loops(N, R) /\ \A x \in R, n \in 1..N : turn[<<x, n>>] = above(x)
    <2> HIDE DEF R, above
    <2> QED BY <1>2 DEF Loops
  <1> HIDE DEF turn
  <1>5. PICK a : IsRun(a, N, R, first, turn)
    <2> HIDE DEF R, first
    <2> QED BY <1>0, <1>3, <1>4, LoopRuns, Zenon
  <1>6. a \in [0..N -> R] /\ a[0] = first /\ \A n \in 1..N : a[n] = above(a[n - 1])
    <2> HIDE DEF R, first, above
    <2>1. a \in [0..N -> R] /\ a[0] = first /\ \A n \in 1..N : a[n] = turn[<<a[n - 1], n>>]
      BY <1>5, Zenon DEF IsRun
    <2>2. \A n \in 1..N : n - 1 \in 0..N
      BY <1>0
    <2> QED BY <1>4, <2>1, <2>2, Zenon
  <1> DEFINE Q(v) == v = [n \in 0..N |-> [i \in Dirs |-> IF n = 0 \/ P(i) = None THEN <<i>>
                                                         ELSE <<i>> \o v[n - 1][P(i)]]]
             u == CHOOSE v : Q(v)
  <1>7. Q(a)
    <2>1. ASSUME NEW n \in 0..N
          PROVE  a[n] = [i \in Dirs |-> IF n = 0 \/ P(i) = None THEN <<i>> ELSE <<i>> \o a[n - 1][P(i)]]
      <3>1. CASE n = 0
        BY <1>6, <3>1
      <3>2. CASE n # 0
        <4>1. n \in 1..N
          BY <1>0, <3>2
        <4>2. a[n] = above(a[n - 1])
          BY <1>6, <4>1, Zenon
        <4> QED BY <3>2, <4>2
      <3> QED BY <3>1, <3>2
    <2> HIDE DEF R
    <2> QED BY <1>6, <2>1
  <1>8. Q(u)
    BY <1>7, Zenon
  <1>9. \A d \in Dirs : ChainOf(t, d) = u[N][d]
    BY Zenon DEF ChainOf, N, Levels, P
  <1> HIDE DEF u
  <1>10. \A n \in 0..N :
           u[n] = [i \in Dirs |-> IF n = 0 \/ P(i) = None THEN <<i>> ELSE <<i>> \o u[n - 1][P(i)]]
    BY <1>8, Zenon
  <1>11. u[0] = first /\ \A n \in 1..N : u[n] = above(u[n - 1])
    <2>1. 0 \in 0..N /\ \A n \in 1..N : n \in 0..N /\ n # 0
      BY <1>0
    <2>2. u[0] = first
      BY <1>10, <2>1
    <2>3. ASSUME NEW n \in 1..N PROVE u[n] = above(u[n - 1])
      <3> DEFINE x == u[n - 1]
      <3>1. u[n] = [i \in Dirs |-> IF n = 0 \/ P(i) = None THEN <<i>> ELSE <<i>> \o x[P(i)]]
        BY <1>10, <2>1, Zenon
      <3> HIDE DEF x
      <3>2. u[n] = above(x)
        BY <2>1, <3>1
      <3> QED BY <3>2, Zenon DEF x
    <2> QED BY <2>2, <2>3
  <1>12. \A n \in 0..N : u[n] \in R
    <2> DEFINE S == {n \in Nat : n <= N => u[n] \in R}
    <2> HIDE DEF R, first, above
    <2>1. 0 \in S
      BY <1>3, <1>11
    <2>2. ASSUME NEW n \in S PROVE n + 1 \in S
      <3> SUFFICES ASSUME n + 1 <= N PROVE u[n + 1] \in R
        OBVIOUS
      <3>1. n + 1 \in 1..N /\ (n + 1) - 1 = n /\ u[n] \in R
        BY <1>0
      <3>2. u[n + 1] = above(u[n])
        BY <1>11, <3>1
      <3> QED BY <1>2, <3>1, <3>2
    <2>3. \A n \in Nat : n \in S
      <3>1. S \in SUBSET Nat
        OBVIOUS
      <3> HIDE DEF S
      <3> QED BY <2>1, <2>2, <3>1, Induction, Zenon
    <2> QED BY <1>0, <2>3
  <1>13. u = [n \in 0..N |-> u[n]]
    BY <1>8
  <1>14. u \in [0..N -> R]
    <2> HIDE DEF R
    <2> QED BY <1>12, <1>13
  <1>15. Ups(t, u)
    <2>1. \A i \in Dirs : u[0][i] = <<i>>
      BY <1>11
    <2>2. ASSUME NEW n \in 1..N, NEW i \in Dirs
          PROVE  u[n][i] = IF P(i) = None THEN <<i>> ELSE <<i>> \o u[n - 1][P(i)]
      <3> DEFINE x == u[n - 1]
      <3>1. u[n] = above(x)
        BY <1>11
      <3> HIDE DEF x
      <3>2. u[n][i] = IF P(i) = None THEN <<i>> ELSE <<i>> \o x[P(i)]
        BY <3>1
      <3> QED BY <3>2, Zenon DEF x
    <2> QED BY <1>14, <2>1, <2>2, Zenon DEF Ups, N, P
  <1> QED BY <1>9, <1>15 DEF N

\* The only directory on a chain of one,
LEMMA RangeOne ==
  ASSUME NEW i
  PROVE  Range(<<i>>) = {i}
  BY DEF Range

\* and those on a chain that begins with i.
LEMMA RangeCons ==
  ASSUME NEW i \in Dirs, NEW s \in Seq(Dirs)
  PROVE  Range(<<i>> \o s) = {i} \cup Range(s)
  <1> DEFINE c == <<i>> \o s
  <1>1. /\ DOMAIN s = 1..Len(s) /\ DOMAIN c = 1..(Len(s) + 1) /\ c[1] = i
        /\ \A k \in 1..Len(s) : c[k + 1] = s[k]
        /\ \A m \in 2..(Len(s) + 1) : c[m] = s[m - 1]
    OBVIOUS
  <1>2. Len(s) \in Nat
    OBVIOUS
  <1> HIDE DEF c
  <1>3. ASSUME NEW x \in Range(c) PROVE x \in {i} \cup Range(s)
    <2>1. PICK k \in 1..(Len(s) + 1) : x = c[k]
      BY <1>1 DEF Range
    <2>2. k = 1 \/ (k \in 2..(Len(s) + 1) /\ k - 1 \in 1..Len(s))
      BY <1>2
    <2> QED BY <1>1, <2>1, <2>2 DEF Range
  <1>4. i \in Range(c)
    BY <1>1, <1>2 DEF Range
  <1>5. ASSUME NEW x \in Range(s) PROVE x \in Range(c)
    <2>1. PICK k \in 1..Len(s) : x = s[k]
      BY <1>1 DEF Range
    <2>2. k + 1 \in 1..(Len(s) + 1) /\ c[k + 1] = x
      BY <1>1, <1>2, <2>1
    <2> QED BY <1>1, <2>2 DEF Range
  <1> QED BY <1>3, <1>4, <1>5 DEF c

\* A chain of more levels has every directory of one of fewer.
LEMMA ChainGrows ==
  ASSUME NEW t, NEW u, Ups(t, u), NEW m \in 0..Levels, NEW i \in Dirs
  PROVE  Range(u[m][i]) \subseteq Range(u[Levels][i])
  <1> DEFINE N == Levels
             S == {n \in Nat : n <= N => \A k \in 0..n, j \in Dirs : Range(u[k][j]) \subseteq Range(u[n][j])}
  <1>0. N \in Nat
    BY LevelsNat
  <1>1. /\ \A n \in 0..N, j \in Dirs : u[n][j] \in Seq(Dirs)
        /\ \A j \in Dirs : u[0][j] = <<j>>
        /\ \A n \in 1..N, j \in Dirs :
             u[n][j] = IF ParentDir(t, j) = None THEN <<j>> ELSE <<j>> \o u[n - 1][ParentDir(t, j)]
    BY DEF Ups
  <1> HIDE DEF N
  <1>2. \A j \in Dirs : Range(u[0][j]) = {j}
    BY <1>1, RangeOne, Zenon
  <1>3. ASSUME NEW n \in 1..N, NEW j \in Dirs
        PROVE  /\ j \in Range(u[n][j])
               /\ ParentDir(t, j) = None => Range(u[n][j]) = {j}
               /\ ParentDir(t, j) # None =>
                    Range(u[n][j]) = {j} \cup Range(u[n - 1][ParentDir(t, j)])
    <2>1. CASE ParentDir(t, j) = None
      BY <1>1, <2>1, RangeOne, Zenon
    <2>2. CASE ParentDir(t, j) # None
      <3>1. u[n - 1][ParentDir(t, j)] \in Seq(Dirs)
        BY <1>0, <1>1, <2>2, ParentFacts
      <3>2. u[n][j] = <<j>> \o u[n - 1][ParentDir(t, j)]
        BY <1>1, <2>2, Zenon
      <3> QED BY <2>2, <3>1, <3>2, RangeCons
    <2> QED BY <2>1, <2>2
  <1>4. 0 \in S
    OBVIOUS
  <1>5. ASSUME NEW n \in S PROVE n + 1 \in S
    <2> SUFFICES ASSUME n + 1 <= N, NEW k \in 0..(n + 1), NEW j \in Dirs
                 PROVE  Range(u[k][j]) \subseteq Range(u[n + 1][j])
      OBVIOUS
    <2>1. n \in Nat /\ n + 1 \in 1..N /\ (n + 1) - 1 = n
      BY <1>0
    <2>2. \A l \in 0..n, x \in Dirs : Range(u[l][x]) \subseteq Range(u[n][x])
      BY <1>0, <2>1
    <2>3. CASE k = 0
      <3>1. Range(u[k][j]) = {j}
        BY <1>2, <2>3
      <3> QED BY <1>3, <2>1, <3>1
    <2>4. CASE k # 0
      <3>1. k \in 1..N /\ k - 1 \in 0..n
        BY <1>0, <2>1, <2>4
      <3>2. CASE ParentDir(t, j) = None
        BY <1>3, <2>1, <3>1, <3>2
      <3>3. CASE ParentDir(t, j) # None
        <4>1. Range(u[k - 1][ParentDir(t, j)]) \subseteq Range(u[n][ParentDir(t, j)])
          BY <2>2, <3>1, <3>3, ParentFacts
        <4>2. /\ Range(u[k][j]) = {j} \cup Range(u[k - 1][ParentDir(t, j)])
              /\ Range(u[n + 1][j]) = {j} \cup Range(u[n][ParentDir(t, j)])
          BY <1>3, <2>1, <3>1, <3>3
        <4> QED BY <4>1, <4>2
      <3> QED BY <3>2, <3>3
    <2> QED BY <2>3, <2>4
  <1>6. \A n \in Nat : n \in S
    <2>1. S \in SUBSET Nat
      OBVIOUS
    <2> HIDE DEF S
    <2> QED BY <1>4, <1>5, <2>1, Induction, Zenon
  <1>7. N \in S
    BY <1>0, <1>6
  <1> QED BY <1>0, <1>7 DEF N

\* A chain starts with its directory and consists of directories.
LEMMA ChainFacts ==
  ASSUME NEW t, NEW d \in Dirs
  PROVE  ChainOf(t, d) \in Seq(Dirs) /\ Len(ChainOf(t, d)) > 0 /\ ChainOf(t, d)[1] = d
  <1>1. PICK u : Ups(t, u) /\ \A i \in Dirs : ChainOf(t, i) = u[Levels][i]
    BY ChainUps
  <1>2. u[Levels][d] \in Seq(Dirs)
    BY <1>1, LevelsNat DEF Ups
  <1> DEFINE c == ChainOf(t, d)
  <1>0. c = u[Levels][d]
    BY <1>1
  <1> HIDE DEF c
  <1>3. CASE Levels = 0 \/ ParentDir(t, d) = None
    <2>1. CASE Levels = 0
      BY <1>0, <1>1, <2>1 DEF Ups, c
    <2>2. CASE Levels # 0 /\ ParentDir(t, d) = None
      <3>1. Levels \in 1..Levels
        BY <2>2, LevelsNat
      <3>2. u[Levels][d] = <<d>>
        BY <1>1, <2>2, <3>1, Zenon DEF Ups
      <3> QED BY <1>0, <3>2 DEF c
    <2> QED BY <1>3, <2>1, <2>2
  <1>4. CASE Levels # 0 /\ ParentDir(t, d) # None
    <2> DEFINE s == u[Levels - 1][ParentDir(t, d)]
    <2>1. Levels \in 1..Levels /\ Levels - 1 \in 0..Levels
      BY <1>4, LevelsNat
    <2>2. u[Levels][d] = <<d>> \o s /\ s \in Seq(Dirs)
      BY <1>1, <1>4, <2>1, ParentFacts, Zenon DEF Ups
    <2> HIDE DEF s
    <2>3. c \in Seq(Dirs) /\ Len(c) > 0 /\ c[1] = d
      BY <1>0, <2>2
    <2> QED BY <2>3 DEF c
  <1> QED BY <1>3, <1>4

\* While the entries beneath q are those of tree b, the walks from there meet q.
LEMMA StaysBelow ==
  ASSUME NEW b, NEW t, OneName(t), NEW q \in Dirs,
         \A d \in Below(b, q), n \in Names : t[<<d, n>>] = b[<<d, n>>]
  PROVE  Below(b, q) \subseteq Below(t, q)
  <1>1. PICK v : Ups(b, v) /\ \A i \in Dirs : ChainOf(b, i) = v[Levels][i]
    BY ChainUps
  <1>2. PICK w : Ups(t, w) /\ \A i \in Dirs : ChainOf(t, i) = w[Levels][i]
    BY ChainUps
  <1> DEFINE N == Levels
             S == {n \in Nat : n <= N => \A i \in Dirs : q \in Range(v[n][i]) => q \in Range(w[n][i])}
  <1>0. N \in Nat
    BY LevelsNat
  <1>3. 0 \in S
    BY <1>1, <1>2, Zenon DEF Ups
  <1>4. ASSUME NEW n \in S PROVE n + 1 \in S
    <2> SUFFICES ASSUME n + 1 <= N, NEW i \in Dirs, q \in Range(v[n + 1][i])
                 PROVE  q \in Range(w[n + 1][i])
      OBVIOUS
    <2>1. n \in 0..N /\ n + 1 \in 1..N /\ (n + 1) - 1 = n
      BY <1>0
    <2>2. \A x \in Dirs : q \in Range(v[n][x]) => q \in Range(w[n][x])
      BY <1>0, <2>1
    <2> DEFINE j == ParentDir(b, i)
               k == ParentDir(t, i)
    <2>3. /\ v[n + 1][i] = IF j = None THEN <<i>> ELSE <<i>> \o v[n][j]
          /\ w[n + 1][i] = IF k = None THEN <<i>> ELSE <<i>> \o w[n][k]
      BY <1>1, <1>2, <2>1 DEF Ups
    <2>4. \A x \in Dirs : v[n][x] \in Seq(Dirs) /\ w[n][x] \in Seq(Dirs)
      BY <1>1, <1>2, <2>1 DEF Ups
    <2>5. k # None => k \in Dirs
      BY ParentFacts
    <2>6. i \in Range(w[n + 1][i])
      BY <2>3, <2>4, <2>5, RangeCons, RangeOne
    <2>7. CASE q # i
      <3>1. j # None
        BY <2>3, <2>7, RangeOne
      <3>2. j \in Dirs /\ \E m \in Names : b[<<j, m>>] = i
        BY <3>1, ParentFacts
      <3>3. q \in Range(v[n][j])
        BY <2>3, <2>4, <2>7, <3>1, <3>2, RangeCons
      <3>4. j \in Below(b, q)
        BY <1>1, <2>1, <3>2, <3>3, ChainGrows DEF Below
      <3>5. k = j
        <4>1. PICK m \in Names : t[<<j, m>>] = i
          BY <3>2, <3>4
        <4> QED BY <3>2, <4>1, ParentOnly
      <3>6. w[n + 1][i] = <<i>> \o w[n][j]
        BY <2>3, <3>1, <3>5
      <3> QED BY <2>2, <2>4, <3>2, <3>3, <3>6, RangeCons
    <2> QED BY <2>6, <2>7
  <1>5. \A n \in Nat : n \in S
    <2>1. S \in SUBSET Nat
      OBVIOUS
    <2> HIDE DEF S
    <2> QED BY <1>3, <1>4, <2>1, Induction, Zenon
  <1>6. N \in S
    BY <1>0, <1>5
  <1>7. \A i \in Dirs : q \in Range(v[N][i]) => q \in Range(w[N][i])
    BY <1>0, <1>6
  <1> QED BY <1>1, <1>2, <1>7 DEF Below

\* A rule on every right denies every operation on its directory, and on what a walk reaches
\* from: a walk that is cut off at MAX_DEPTH denies, any other meets the directory.
LEMMA FrozenDenies ==
  ASSUME NEW q \in Frozen, bound = "yes", NEW i, NEW above \in Seq(Dirs),
         i = q \/ q \in Range(above), NEW access, access \cap AllRights # {}
  PROVE  Denied(i, above, access)
  <1> DEFINE walked == SubSeq(above, 1, Min({Len(above), MAX_DEPTH}))
             Denies(j) == j \in DOMAIN live.files /\ live.files[j].mask \cap access # {}
  <1>1. Gov.files = live.files /\ Gov.mode = "enforce"
    BY DEF Gov, Frozen, Enforcing
  <1>2. Denies(q) /\ live.files[q].subtree
    BY DEF Frozen
  <1>3. ASSUME q \in Range(above), ~(Len(above) >= MAX_DEPTH) PROVE q \in Range(walked)
    <2>1. Len(above) \in Nat /\ MAX_DEPTH \in Nat /\ Len(above) < MAX_DEPTH
      BY <1>3, TreeAssumptions
    <2>2. Min({Len(above), MAX_DEPTH}) = Len(above)
      <3>1. {Len(above), MAX_DEPTH} \in SUBSET Nat /\ {Len(above), MAX_DEPTH} # {}
        BY <2>1
      <3>2. /\ Min({Len(above), MAX_DEPTH}) \in {Len(above), MAX_DEPTH}
            /\ Min({Len(above), MAX_DEPTH}) <= Len(above)
        BY <3>1, MinNat
      <3> QED BY <2>1, <3>2
    <2>3. SubSeq(above, 1, Len(above)) = above
      OBVIOUS
    <2> QED BY <1>3, <2>2, <2>3, Zenon
  <1>4. Denies(i) \/ (\E j \in Range(walked) : Denies(j) /\ live.files[j].subtree)
          \/ Len(above) >= MAX_DEPTH
    <2> HIDE DEF Denies, walked
    <2> QED BY <1>2, <1>3, Zenon
  <1>5. rk_file_check(Gov, i, above, access)
    BY <1>1, <1>4, Zenon DEF rk_file_check
  <1> QED BY <1>1, <1>5, Zenon DEF Denied, rk_enforced_deny, rk_effective_deny

\* So no operation on a name beneath the directory passes its hook,
LEMMA BelowDenied ==
  ASSUME SubtreeInv, NEW q \in Frozen, bound = "yes", NEW d \in Below(before.tree, q)
  PROVE  /\ \A n, access : access \cap AllRights # {} => DeniedAt(d, n, access)
         /\ DeniedIn(d)
  <1>1. d \in Dirs /\ q \in Dirs /\ q \in Range(ChainOf(tree, d))
    <2>1. q \in Dirs /\ Sealed(q)
      BY DEF Frozen, SubtreeInv
    <2>2. Below(before.tree, q) \subseteq Below(tree, q)
      BY <2>1, StaysBelow DEF SubtreeInv, Sealed
    <2> QED BY <2>1, <2>2 DEF Below
  <1> DEFINE c == ChainOf(tree, d)
  <1>2. c \in Seq(Dirs) /\ Len(c) > 0 /\ c[1] = d
    BY <1>1, ChainFacts
  <1>3. ASSUME NEW n, NEW access, access \cap AllRights # {} PROVE DeniedAt(d, n, access)
    BY <1>1, <1>2, <1>3, FrozenDenies DEF DeniedAt
  <1>4. d = q \/ q \in Range(Tail(c))
    <2> HIDE DEF c
    <2>1. PICK k \in DOMAIN c : q = c[k]
      BY <1>1 DEF Range, c
    <2>2. k = 1 \/ (k - 1 \in DOMAIN Tail(c) /\ Tail(c)[k - 1] = c[k])
      BY <1>2
    <2> QED BY <1>2, <2>1, <2>2 DEF Range
  <1>5. Tail(c) \in Seq(Dirs)
    <2> HIDE DEF c
    <2> QED BY <1>2
  <1>6. {"create"} \cap AllRights # {}
    BY DEF AllRights
  <1>7. DeniedIn(d)
    BY <1>4, <1>5, <1>6, FrozenDenies, Zenon DEF DeniedIn
  <1> QED BY <1>3, <1>7

\* An operation that goes through the names W only, and passes the hooks there, leaves what
\* is beneath a frozen directory alone: it puts what W names, or something without a name, at W.
LEMMA NamesStep ==
  ASSUME IInv, SubtreeInv, Op, NEW W \in SUBSET (Dirs \X Names),
         bound = "yes" => \A q \in Frozen : \A w \in W : w[1] \notin Below(before.tree, q),
         tree' \in Tree, OneName(tree'), fds' \cup tainted' \subseteq Inodes,
         \A x \in (Dirs \X Names) \ W : tree'[x] = tree[x],
         \A w \in W : \/ tree'[w] = None \/ NamesOf(tree, tree'[w]) = {}
                      \/ \E v \in W : tree'[w] = tree[v],
         \A i \in fds' \cup tainted' : \/ i \in fds \cup tainted \/ NamesOf(tree, i) = {}
                                       \/ \E v \in W : i = tree[v]
  PROVE  SubtreeInv'
  <1>1. /\ live' = live /\ before'.tree = before.tree /\ before'.fds = before.fds
        /\ before'.written = (before.written /\ bound = "yes")
    BY Zenon DEF Op, IInv, CleanInv
  <1>2. ASSUME NEW q \in Frozen' PROVE Sealed(q)'
    <2>1. q \in Frozen /\ bound = "yes" /\ q \in Dirs
      BY <1>1, <1>2, Zenon DEF Frozen, Enforcing
    <2>2. Sealed(q)
      BY <2>1 DEF SubtreeInv
    <2> DEFINE B == Below(before.tree, q)
    <2>3. B \subseteq Dirs /\ \A w \in W : w[1] \notin B
      BY <2>1 DEF Below
    <2>4. Below(before.tree, q)' = B /\ \A i : Enclosed(q, i)' <=> Enclosed(q, i)
      <3>1. /\ Below(before.tree, q)' = Below(before'.tree, q)
            /\ \A i : NamesOf(before.tree, i)' = NamesOf(before'.tree, i)
        BY Zenon DEF Below, ChainOf, ParentDir, NamesOf
      <3> QED BY <1>1, <3>1, Zenon DEF Enclosed
    <2> HIDE DEF B
    <2>5. ASSUME NEW d \in B, NEW n \in Names PROVE tree'[<<d, n>>] = before.tree[<<d, n>>]
      <3>1. <<d, n>> \in (Dirs \X Names) \ W
        BY <2>3
      <3>2. tree[<<d, n>>] = before.tree[<<d, n>>]
        BY <2>2 DEF Sealed, B
      <3> QED BY <3>1, <3>2, Zenon
    <2>6. ASSUME NEW i, Enclosed(q, i)
          PROVE  NamesOf(tree', i) \subseteq B \X Names /\ (i \in fds' \cup tainted' => i \in before.fds)
      <3>1. NamesOf(tree, i) \subseteq B \X Names /\ (i \in fds \cup tainted => i \in before.fds) /\ i # None
        BY <2>2, <2>6 DEF Sealed, B, Enclosed
      <3>2. \A v \in W : i # tree[v]
        BY <2>3, <3>1 DEF NamesOf
      <3>3. NamesOf(tree, i) # {}
        <4>1. PICK x \in NamesOf(before.tree, i) : x \in B \X Names
          BY <2>6, Zenon DEF Enclosed, B
        <4>2. x = <<x[1], x[2]>> /\ x[1] \in B /\ x[2] \in Names
          BY <4>1
        <4>3. tree[<<x[1], x[2]>>] = before.tree[<<x[1], x[2]>>]
          BY <2>2, <4>2, Zenon DEF Sealed, B
        <4>4. x \in Dirs \X Names /\ before.tree[x] = i
          BY <4>1 DEF NamesOf
        <4>5. tree[x] = i
          BY <4>2, <4>3, <4>4, Zenon
        <4> QED BY <4>4, <4>5, Zenon DEF NamesOf
      <3>4. ASSUME NEW x \in NamesOf(tree', i) PROVE x \in NamesOf(tree, i)
        <4>1. x \in Dirs \X Names /\ tree'[x] = i
          BY <3>4 DEF NamesOf
        <4>2. x \notin W
          BY <3>1, <3>2, <3>3, <4>1, Zenon
        <4>3. tree[x] = i
          BY <4>1, <4>2, Zenon
        <4> QED BY <4>1, <4>3 DEF NamesOf
      <3>5. i \in fds' \cup tainted' => i \in fds \cup tainted
        BY <3>2, <3>3, Zenon
      <3> QED BY <3>1, <3>4, <3>5
    <2> HIDE DEF Enclosed
    <2> QED BY <1>1, <2>4, <2>5, <2>6 DEF Sealed, NamesOf
  <1> QED BY <1>2 DEF SubtreeInv, OneName, NamesOf

\* The invariant is about the tree, the open files and the flip.
LEMMA QuietSubtree ==
  ASSUME SubtreeInv, UNCHANGED <<tree, live, before, tainted>>, fds' \subseteq fds
  PROVE  SubtreeInv'
  <1>1. Frozen' = Frozen
    BY DEF Frozen, Enforcing
  <1>2. ASSUME NEW q \in Frozen PROVE Sealed(q)'
    <2>1. Sealed(q)
      BY DEF SubtreeInv
    <2>2. /\ Below(before.tree, q)' = Below(before'.tree, q)
          /\ \A i : NamesOf(before.tree, i)' = NamesOf(before'.tree, i)
          /\ \A i : NamesOf(tree, i)' = NamesOf(tree', i)
      BY DEF Below, ChainOf, ParentDir, NamesOf
    <2>3. /\ Below(before.tree, q)' = Below(before.tree, q)
          /\ \A i : NamesOf(tree, i)' = NamesOf(tree, i)
          /\ \A i : Enclosed(q, i)' <=> Enclosed(q, i)
      BY <2>2, Zenon DEF Enclosed
    <2> QED BY <2>1, <2>3 DEF Sealed
  <1>3. tree' \in Tree /\ OneName(tree)' /\ fds' \cup tainted' \subseteq Inodes
    BY DEF SubtreeInv, OneName, NamesOf
  <1> QED BY <1>1, <1>2, <1>3 DEF SubtreeInv

\* A flip takes the tree as it is for its own.
LEMMA FlipSubtree ==
  ASSUME SubtreeInv, UNCHANGED <<tree, fds>>, tainted' = {},
         before' = [tree |-> tree, fds |-> fds, written |-> TRUE]
  PROVE  SubtreeInv'
  <1>1. before'.tree = tree /\ before'.fds = fds
    OBVIOUS
  <1>2. ASSUME NEW q PROVE Sealed(q)'
    <2>1. /\ \A i : NamesOf(before.tree, i)' = NamesOf(before'.tree, i)
          /\ \A i : NamesOf(tree, i)' = NamesOf(tree', i)
      BY DEF NamesOf
    <2>2. \A i : NamesOf(before.tree, i)' = NamesOf(tree, i)'
      BY <1>1, <2>1, Zenon
    <2>3. tree' = before'.tree /\ fds' = before'.fds
      BY <1>1
    <2> QED BY <2>2, <2>3 DEF Sealed, Enclosed
  <1>3. tree' \in Tree /\ OneName(tree)' /\ fds' \cup tainted' \subseteq Inodes
    BY DEF SubtreeInv, OneName, NamesOf
  <1> QED BY <1>2, <1>3 DEF SubtreeInv

\* The names whose hooks an operation has passed are not beneath a frozen directory.
LEMMA PassedOutside ==
  ASSUME SubtreeInv, NEW d, \/ DeniedIn(d) = FALSE
                            \/ \E n, access : access \cap AllRights # {} /\ ~DeniedAt(d, n, access)
  PROVE  bound = "yes" => \A q \in Frozen : d \notin Below(before.tree, q)
  BY BelowDenied

\* What a name stands for is an inode or nothing.
LEMMA EntryType ==
  ASSUME SubtreeInv, NEW d \in Dirs, NEW n \in Names
  PROVE  tree[<<d, n>>] \in Inodes \cup {None}
  BY DEF SubtreeInv, Tree

\* Opening a file and changing its attributes leave the tree alone.
LEMMA AccessSubtree ==
  ASSUME IInv, SubtreeInv, Op, UNCHANGED tree, NEW d \in Dirs, NEW n \in Names, NEW access,
         access \cap AllRights # {}, ~DeniedAt(d, n, access), tree[<<d, n>>] # None,
         fds' \cup tainted' \subseteq fds \cup tainted \cup {tree[<<d, n>>]}
  PROVE  SubtreeInv'
  <1> DEFINE W == {<<d, n>>}
  <1>1. W \in SUBSET (Dirs \X Names)
    OBVIOUS
  <1>2. bound = "yes" => \A q \in Frozen : \A w \in W : w[1] \notin Below(before.tree, q)
    <2>1. bound = "yes" => \A q \in Frozen : d \notin Below(before.tree, q)
      BY PassedOutside, Zenon
    <2> QED BY <2>1
  <1>3. tree' \in Tree /\ OneName(tree') /\ fds' \cup tainted' \subseteq Inodes
    BY EntryType DEF SubtreeInv
  <1>4. /\ \A x \in (Dirs \X Names) \ W : tree'[x] = tree[x]
        /\ \A w \in W : \E v \in W : tree'[w] = tree[v]
        /\ \A i \in fds' \cup tainted' : i \in fds \cup tainted \/ \E v \in W : i = tree[v]
    OBVIOUS
  <1> HIDE DEF W
  <1> QED BY <1>1, <1>2, <1>3, <1>4, NamesStep

\* unlink and rmdir
LEMMA UnlinkSubtree ==
  ASSUME IInv, SubtreeInv, NEW d \in Dirs, NEW n \in Names, Unlink(d, n)
  PROVE  SubtreeInv'
  <1> DEFINE W == {<<d, n>>}
  <1>1. W \in SUBSET (Dirs \X Names) /\ Op /\ fds' = fds /\ tainted' = tainted
    BY DEF Unlink
  <1>2. bound = "yes" => \A q \in Frozen : \A w \in W : w[1] \notin Below(before.tree, q)
    <2>1. {"delete"} \cap AllRights # {} /\ ~DeniedAt(d, n, {"delete"})
      BY DEF Unlink, AllRights, PROTECT_EXEC_MASK
    <2>2. bound = "yes" => \A q \in Frozen : d \notin Below(before.tree, q)
      BY <2>1, PassedOutside, Zenon
    <2> QED BY <2>2
  <1>3. /\ tree' \in Tree
        /\ \A x \in Dirs \X Names : tree'[x] = IF x = <<d, n>> THEN None ELSE tree[x]
    BY DEF Unlink, SubtreeInv, Tree
  <1>4. OneName(tree')
    <2> SUFFICES ASSUME NEW k \in Dirs, NEW x \in Dirs \X Names, NEW y \in Dirs \X Names,
                        tree'[x] = k, tree'[y] = k
                 PROVE  x = y
      BY DEF OneName, NamesOf
    <2>1. tree[x] = k /\ tree[y] = k
      BY <1>3, TreeAssumptions DEF Inodes
    <2> QED BY <2>1 DEF SubtreeInv, OneName, NamesOf
  <1>5. /\ \A x \in (Dirs \X Names) \ W : tree'[x] = tree[x]
        /\ \A w \in W : tree'[w] = None
    BY <1>3
  <1>6. fds' \cup tainted' \subseteq Inodes
    BY <1>1 DEF SubtreeInv
  <1> HIDE DEF W
  <1> QED BY <1>1, <1>2, <1>3, <1>4, <1>5, <1>6, NamesStep

\* What FreshIn picks has no name.
LEMMA FreshNameless ==
  ASSUME NEW S, NEW i \in FreshIn(S)
  PROVE  i \in S /\ NamesOf(tree, i) = {}
  BY Zenon DEF FreshIn

\* create, mkdir, symlink and mknod
LEMMA CreateSubtree ==
  ASSUME IInv, SubtreeInv, NEW d \in Dirs, NEW n \in Names, NEW i \in Inodes, Create(d, n, i)
  PROVE  SubtreeInv'
  <1> DEFINE W == {<<d, n>>}
  <1>1. /\ W \in SUBSET (Dirs \X Names) /\ Op /\ fds' = fds /\ tainted' \subseteq tainted \cup {i}
        /\ ~DeniedIn(d) /\ NamesOf(tree, i) = {}
    BY FreshNameless DEF Create
  <1>2. bound = "yes" => \A q \in Frozen : \A w \in W : w[1] \notin Below(before.tree, q)
    <2>1. bound = "yes" => \A q \in Frozen : d \notin Below(before.tree, q)
      BY <1>1, BelowDenied
    <2> QED BY <2>1
  <1>3. /\ tree' \in Tree
        /\ \A x \in Dirs \X Names : tree'[x] = IF x = <<d, n>> THEN i ELSE tree[x]
    BY DEF Create, SubtreeInv, Tree
  <1>4. OneName(tree')
    <2> SUFFICES ASSUME NEW k \in Dirs, NEW x \in Dirs \X Names, NEW y \in Dirs \X Names,
                        tree'[x] = k, tree'[y] = k
                 PROVE  x = y
      BY DEF OneName, NamesOf
    <2>1. \A z \in Dirs \X Names : tree[z] # i
      BY <1>1 DEF NamesOf
    <2>2. CASE k = i
      BY <1>3, <2>1, <2>2
    <2>3. CASE k # i
      <3>1. tree[x] = k /\ tree[y] = k
        BY <1>3, <2>3
      <3> QED BY <3>1 DEF SubtreeInv, OneName, NamesOf
    <2> QED BY <2>2, <2>3
  <1>5. /\ \A x \in (Dirs \X Names) \ W : tree'[x] = tree[x]
        /\ \A w \in W : NamesOf(tree, tree'[w]) = {}
        /\ \A j \in fds' \cup tainted' : j \in fds \cup tainted \/ NamesOf(tree, j) = {}
    BY <1>1, <1>3
  <1>6. fds' \cup tainted' \subseteq Inodes
    BY <1>1 DEF SubtreeInv
  <1> HIDE DEF W
  <1> QED BY <1>1, <1>2, <1>3, <1>4, <1>5, <1>6, NamesStep

\* rename, RENAME_EXCHANGE and link: the entries at two names change to each other's or to nothing.
LEMMA MoveSubtree ==
  ASSUME IInv, SubtreeInv, NEW d \in Dirs, NEW n \in Names, NEW e \in Dirs, NEW m \in Names,
         Op, UNCHANGED <<fds, tainted>>, NEW a, NEW b,
         a \in {tree[<<d, n>>], tree[<<e, m>>], None}, b \in {tree[<<d, n>>], tree[<<e, m>>], None},
         <<d, n>> # <<e, m>>, a \in Dirs => a # b,
         \E access : access \cap AllRights # {} /\ ~DeniedAt(d, n, access), ~DeniedIn(e),
         tree' = [tree EXCEPT ![<<d, n>>] = a, ![<<e, m>>] = b]
  PROVE  SubtreeInv'
  <1> DEFINE W == {<<d, n>>, <<e, m>>}
  <1>1. W \in SUBSET (Dirs \X Names)
    OBVIOUS
  <1>2. bound = "yes" => \A q \in Frozen : \A w \in W : w[1] \notin Below(before.tree, q)
    <2>1. bound = "yes" => \A q \in Frozen : d \notin Below(before.tree, q) /\ e \notin Below(before.tree, q)
      BY BelowDenied
    <2> QED BY <2>1
  <1>3. a \in Inodes \cup {None} /\ b \in Inodes \cup {None}
    BY EntryType
  <1>4. /\ tree' \in Tree
        /\ \A x \in Dirs \X Names :
             tree'[x] = IF x = <<e, m>> THEN b ELSE IF x = <<d, n>> THEN a ELSE tree[x]
    BY <1>3 DEF SubtreeInv, Tree
  <1>5. OneName(tree')
    <2> SUFFICES ASSUME NEW k \in Dirs, NEW x \in Dirs \X Names, NEW y \in Dirs \X Names,
                        tree'[x] = k, tree'[y] = k
                 PROVE  x = y
      BY DEF OneName, NamesOf
    <2>1. \A z1, z2 \in Dirs \X Names : tree[z1] = k /\ tree[z2] = k => z1 = z2
      BY DEF SubtreeInv, OneName, NamesOf
    <2>2. k # None
      BY TreeAssumptions DEF Inodes
    <2>3. <<d, n>> \in Dirs \X Names /\ <<e, m>> \in Dirs \X Names
      OBVIOUS
    <2> DEFINE X == <<d, n>>
               Y == <<e, m>>
    <2> HIDE DEF X, Y
    <2>4. /\ X \in Dirs \X Names /\ Y \in Dirs \X Names /\ X # Y
          /\ a \in {tree[X], tree[Y], None} /\ b \in {tree[X], tree[Y], None}
          /\ \A z \in Dirs \X Names : tree'[z] = IF z = Y THEN b ELSE IF z = X THEN a ELSE tree[z]
      BY <1>4, <2>3, Zenon DEF X, Y
    <2>5. x \notin {X, Y} => tree[x] = k
      BY <2>4, Zenon
    <2>6. y \notin {X, Y} => tree[y] = k
      BY <2>4, Zenon
    <2>7. x \in {X, Y} => tree[X] = k \/ tree[Y] = k
      BY <2>2, <2>4, Zenon
    <2>8. y \in {X, Y} => tree[X] = k \/ tree[Y] = k
      BY <2>2, <2>4, Zenon
    <2>9. x \in {X, Y} /\ y \in {X, Y} => x = y
      <3>1. tree'[X] = a /\ tree'[Y] = b
        BY <2>4, Zenon
      <3>2. ~(a = k /\ b = k)
        OBVIOUS
      <3> QED BY <3>1, <3>2
    <2> QED BY <2>1, <2>4, <2>5, <2>6, <2>7, <2>8, <2>9
  <1>6. /\ \A x \in (Dirs \X Names) \ W : tree'[x] = tree[x]
        /\ \A w \in W : tree'[w] = None \/ \E v \in W : tree'[w] = tree[v]
    BY <1>4, Zenon
  <1>7. /\ fds' \cup tainted' \subseteq Inodes
        /\ \A i \in fds' \cup tainted' : i \in fds \cup tainted
    BY DEF SubtreeInv
  <1> HIDE DEF W
  <1>8. /\ \A w \in W : \/ tree'[w] = None \/ NamesOf(tree, tree'[w]) = {}
                         \/ \E v \in W : tree'[w] = tree[v]
        /\ \A i \in fds' \cup tainted' : \/ i \in fds \cup tainted \/ NamesOf(tree, i) = {}
                                          \/ \E v \in W : i = tree[v]
    BY <1>6, <1>7, Zenon
  <1>9. tree' \in Tree
    BY <1>4
  <1> QED BY <1>1, <1>2, <1>5, <1>6, <1>7, <1>8, <1>9, NamesStep, Zenon

\* The initial tree is a tree.
LEMMA InitSubtree == Init => SubtreeInv
  <1> SUFFICES ASSUME Init PROVE SubtreeInv
    OBVIOUS
  <1>1. PICK s \in Starts : tree = s.tree
    BY DEF Init
  <1>2. tree \in Tree /\ OneName(tree)
    BY <1>1, TreeAssumptions, Zenon DEF Tree
  <1>3. fds = {} /\ tainted = {} /\ before.tree = tree
    BY DEF Init
  <1> QED BY <1>2, <1>3 DEF SubtreeInv, Sealed, Enclosed

\* Every step keeps the invariant.
LEMMA NextSubtree == IInv /\ SubtreeInv /\ [Next]_vars => SubtreeInv'
  <1> SUFFICES ASSUME IInv, SubtreeInv, [Next]_vars PROVE SubtreeInv'
    OBVIOUS
  <1>1. ASSUME NEW d \in Dirs, NEW n \in Names,
               NEW access \in {{"write"}, {"read", "write"}, {"write", "truncate"}},
               Open(d, n, access)
        PROVE  SubtreeInv'
    <2>1. access \cap AllRights # {}
      BY DEF AllRights, PROTECT_EXEC_MASK
    <2>2. tree[<<d, n>>] # None
      BY <1>1, TreeAssumptions, Zenon DEF Open, Inodes
    <2> QED BY <1>1, <2>1, <2>2, AccessSubtree, Zenon DEF Open
  <1>2. ASSUME NEW d \in Dirs, NEW n \in Names,
               NEW access \in {{"truncate"}, {"setattr"}, {"truncate", "setattr"}},
               Setattr(d, n, access)
        PROVE  SubtreeInv'
    <2>1. access \cap AllRights # {}
      BY DEF AllRights, PROTECT_EXEC_MASK
    <2> QED BY <1>2, <2>1, AccessSubtree, Zenon DEF Setattr
  <1>3. ASSUME NEW d \in Dirs, NEW n \in Names, NEW e \in Dirs, NEW m \in Names, Rename(d, n, e, m)
        PROVE  SubtreeInv'
    <2> DEFINE a == None
               b == tree[<<d, n>>]
    <2>1. /\ Op /\ UNCHANGED <<fds, tainted>> /\ <<d, n>> # <<e, m>>
          /\ ~DeniedAt(d, n, {"rename"}) /\ ~DeniedIn(e)
          /\ tree' = [tree EXCEPT ![<<d, n>>] = a, ![<<e, m>>] = b]
      BY <1>3 DEF Rename, RenameDenied
    <2>2. {"rename"} \cap AllRights # {}
      BY DEF AllRights, PROTECT_EXEC_MASK
    <2>3. a \notin Dirs
      BY TreeAssumptions DEF Inodes
    <2> QED BY <2>1, <2>2, <2>3, MoveSubtree, Zenon
  <1>4. ASSUME NEW d \in Dirs, NEW n \in Names, NEW e \in Dirs, NEW m \in Names, Exchange(d, n, e, m)
        PROVE  SubtreeInv'
    <2> DEFINE a == tree[<<e, m>>]
               b == tree[<<d, n>>]
    <2>1. /\ Op /\ UNCHANGED <<fds, tainted>> /\ <<d, n>> # <<e, m>> /\ a # b
          /\ ~DeniedAt(d, n, {"rename"}) /\ ~DeniedIn(e)
          /\ tree' = [tree EXCEPT ![<<d, n>>] = a, ![<<e, m>>] = b]
      BY <1>4 DEF Exchange, RenameDenied
    <2>2. {"rename"} \cap AllRights # {}
      BY DEF AllRights, PROTECT_EXEC_MASK
    <2> QED BY <2>1, <2>2, MoveSubtree, Zenon
  <1>5. ASSUME NEW d \in Dirs, NEW n \in Names, NEW e \in Dirs, NEW m \in Names, Link(d, n, e, m)
        PROVE  SubtreeInv'
    <2> DEFINE a == tree[<<d, n>>]
    <2>1. /\ Op /\ UNCHANGED <<fds, tainted>> /\ a \in Files /\ tree[<<e, m>>] = None
          /\ ~DeniedAt(d, n, {"link"}) /\ ~DeniedIn(e)
          /\ tree' = [tree EXCEPT ![<<e, m>>] = a]
      BY <1>5 DEF Link
    <2>2. {"link"} \cap AllRights # {}
      BY DEF AllRights, PROTECT_EXEC_MASK
    <2>3. a \notin Dirs /\ <<d, n>> # <<e, m>>
      BY <2>1, TreeAssumptions DEF Inodes
    <2>4. tree' = [tree EXCEPT ![<<d, n>>] = a, ![<<e, m>>] = a]
      BY <2>1, Zenon DEF SubtreeInv, Tree
    <2> QED BY <2>1, <2>2, <2>3, <2>4, MoveSubtree, Zenon
  <1>6. ASSUME NEW f \in Files, WriteFd(f) PROVE SubtreeInv'
    <2> DEFINE W == {}
    <2>1. /\ Op /\ tree' = tree /\ fds' \cup tainted' \subseteq fds \cup tainted
      BY <1>6 DEF WriteFd
    <2>2. /\ W \in SUBSET (Dirs \X Names) /\ tree' \in Tree /\ OneName(tree')
          /\ fds' \cup tainted' \subseteq Inodes
      BY <2>1 DEF SubtreeInv
    <2>3. /\ \A x \in (Dirs \X Names) \ W : tree'[x] = tree[x]
          /\ \A i \in fds' \cup tainted' : i \in fds \cup tainted
          /\ \A w \in W : FALSE
      BY <2>1
    <2> HIDE DEF W
    <2> QED BY <2>1, <2>2, <2>3, NamesStep
  <1>7. CASE Flip
    BY <1>7, FlipSubtree DEF Flip
  <1>8. CASE \/ \E f \in Files : Close(f) \/ ExecStart(f)
             \/ \E stale \in BOOLEAN : ExecCheck(stale)
             \/ ExecInterp \/ ExecFail \/ ExecRecord \/ Evict
             \/ \E p \in Texts : Resolve(p)
             \/ \E b \in {"no", "yes", "unwritten"} : SetBinding(b)
             \/ UNCHANGED vars
    <2>1. UNCHANGED <<tree, live, before, tainted>> /\ fds' \subseteq fds
      BY <1>8, Zenon DEF Close, ExecStart, ExecCheck, ExecInterp, ExecFail, ExecRecord, Evict, Resolve, SetBinding, vars
    <2> QED BY <2>1, QuietSubtree
  <1> QED
    BY <1>1, <1>2, <1>3, <1>4, <1>5, <1>6, <1>7, <1>8, UnlinkSubtree, CreateSubtree DEF Next, FileStep
-----------------------------------------------------------------------------
\* Under a subtree rule on every access, everything beneath the directory stays as the flip
\* found it, through any sequence of operations by governed tasks anywhere in the tree.
THEOREM SubtreeStays == Spec => []SubtreeUnchanged
  <1>1. SubtreeInv => SubtreeUnchanged
    <2> SUFFICES ASSUME SubtreeInv, NEW q \in Frozen, NEW d \in Below(before.tree, q), NEW n \in Names
                 PROVE  LET i == before.tree[<<d, n>>]
                        IN  /\ tree[<<d, n>>] = i
                            /\ i \in tainted => \/ i \in before.fds
                                                \/ ~(NamesOf(before.tree, i)
                                                       \subseteq Below(before.tree, q) \X Names)
      BY Zenon DEF SubtreeUnchanged
    <2> DEFINE i == before.tree[<<d, n>>]
    <2>1. Sealed(q) /\ (i \in tainted => i # None)
      BY TreeAssumptions DEF SubtreeInv
    <2>2. NamesOf(before.tree, i) # {}
      <3>1. <<d, n>> \in Dirs \X Names
        BY DEF Below
      <3> QED BY <3>1 DEF NamesOf
    <2> HIDE DEF i
    <2>3. tree[<<d, n>>] = i
      BY <2>1, Zenon DEF Sealed, i
    <2>4. i \in tainted /\ NamesOf(before.tree, i) \subseteq Below(before.tree, q) \X Names => i \in before.fds
      BY <2>1, <2>2 DEF Sealed, Enclosed
    <2> QED BY <2>3, <2>4, Zenon DEF i
  <1> QED BY <1>1, InitSubtree, NextSubtree, Invariance, PTL DEF Spec

-----------------------------------------------------------------------------
(***************************************************************************)
(* The compiled tries decide as the policy is written, for addresses of    *)
(* every width and for all policies of up to MaxRules rules, and a socket  *)
(* sends only where the policy of its cgroup allows.                       *)
(*                                                                         *)
(* What the loops of compile_trie compute is proved by induction over      *)
(* their turns. The tree of nested networks is flattened level by level;   *)
(* the ranges of a level are those of its own rules before those of the    *)
(* level around it, so that the first range that a lookup hits is one of   *)
(* the rule that evaluate picks. EgressInv then carries the decision of    *)
(* each hook to the datagrams it passed.                                   *)
(***************************************************************************)
(***************************************************************************)
(* What compile_trie keeps.                                                *)
(***************************************************************************)
Rule == [id : Nat \ {0}, action : Actions, net : NetSpace, ports : PortLists, proto : SUBSET Protos]
RangeSet == [rule_id : Nat \ {0}, lo : Nat, hi : Nat, proto : SUBSET Protos]

\* The first range of kept that matches has rule id o; 0 when none does.
Answers(kept, port, proto, o) ==
  IF o = 0 THEN \A i \in DOMAIN kept : ~Hit(kept[i], port, proto)
  ELSE \E i \in DOMAIN kept : /\ Hit(kept[i], port, proto)
                              /\ kept[i].rule_id = o
                              /\ \A j \in 1..(i - 1) : ~Hit(kept[j], port, proto)

\* The rule ranges are ranges.
LEMMA RangeOfType ==
  ASSUME NEW r \in Rule, NEW j \in DOMAIN r.ports
  PROVE  RangeOf(r, j) \in RangeSet
  <1>1. r.ports \in Seq(Ports \X Ports) /\ r.id \in Nat \ {0} /\ r.proto \in SUBSET Protos
    BY NetAssumption DEF Rule
  <1>2. r.ports[j] \in Ports \X Ports
    BY <1>1
  <1>3. r.ports[j][1] \in Nat /\ r.ports[j][2] \in Nat
    BY <1>2, NetAssumption, Zenon
  <1> QED BY <1>1, <1>3 DEF RangeOf, RangeSet

\* Another range answers where no earlier one did; one left out could not.
LEMMA AddRangeAnswers ==
  ASSUME NEW kept \in Seq(RangeSet), NEW range \in RangeSet, NEW port \in Nat, NEW proto, NEW o \in Nat,
         Answers(kept, port, proto, o)
  PROVE  /\ AddRange(kept, range) \in Seq(RangeSet)
         /\ Answers(AddRange(kept, range), port, proto,
                    IF o = 0 /\ Hit(range, port, proto) THEN range.rule_id ELSE o)
  <1>1. CASE \E i \in DOMAIN kept : covers(kept[i], range)
    <2>1. PICK i \in DOMAIN kept : covers(kept[i], range)
      BY <1>1
    <2>2. AddRange(kept, range) = kept
      BY <1>1 DEF AddRange
    <2>3. kept[i] \in RangeSet
      OBVIOUS
    <2>4. Hit(range, port, proto) => Hit(kept[i], port, proto)
      <3>1. kept[i].lo \in Nat /\ kept[i].hi \in Nat /\ range.lo \in Nat /\ range.hi \in Nat
        BY <2>3 DEF RangeSet
      <3> QED BY <2>1, <3>1 DEF covers, Hit
    <2>5. ~(o = 0 /\ Hit(range, port, proto))
      BY <2>4 DEF Answers
    <2> QED BY <2>2, <2>5
  <1>2. CASE ~\E i \in DOMAIN kept : covers(kept[i], range)
    <2> DEFINE more == Append(kept, range)
               n == Len(kept)
    <2>1. AddRange(kept, range) = more
      BY <1>2 DEF AddRange
    <2>2. n \in Nat /\ DOMAIN kept = 1..n /\ more \in Seq(RangeSet) /\ DOMAIN more = 1..(n + 1)
      OBVIOUS
    <2>3. more[n + 1] = range /\ \A i \in 1..n : more[i] = kept[i]
      OBVIOUS
    <2> HIDE DEF more, n
    <2>4. CASE o # 0
      <3>1. PICK i \in 1..n : /\ Hit(kept[i], port, proto)
                              /\ kept[i].rule_id = o
                              /\ \A j \in 1..(i - 1) : ~Hit(kept[j], port, proto)
        BY <2>2, <2>4 DEF Answers
      <3>2. i \in 1..(n + 1) /\ \A j \in 1..(i - 1) : j \in 1..n
        BY <2>2
      <3>3. /\ Hit(more[i], port, proto)
            /\ more[i].rule_id = o
            /\ \A j \in 1..(i - 1) : ~Hit(more[j], port, proto)
        BY <2>3, <3>1, <3>2
      <3> QED BY <2>1, <2>2, <2>4, <3>2, <3>3 DEF Answers
    <2>5. CASE o = 0
      <3>1. \A j \in 1..n : ~Hit(more[j], port, proto)
        BY <2>2, <2>3, <2>5 DEF Answers
      <3>2. (n + 1) - 1 = n /\ n + 1 \in 1..(n + 1) /\ \A i \in 1..(n + 1) : i \in 1..n \/ i = n + 1
        BY <2>2
      <3>3. range.rule_id # 0
        BY DEF RangeSet
      <3>4. CASE Hit(range, port, proto)
        <4>1. Answers(more, port, proto, range.rule_id)
          <5> SUFFICES \E i \in DOMAIN more : /\ Hit(more[i], port, proto)
                              /\ more[i].rule_id = range.rule_id
                              /\ \A j \in 1..(i - 1) : ~Hit(more[j], port, proto)
            BY <3>3 DEF Answers
          <5>1. n + 1 \in DOMAIN more
            BY <2>2, <3>2
          <5> QED BY <2>3, <3>1, <3>2, <3>4, <5>1
        <4> QED BY <2>1, <2>2, <2>5, <3>4, <4>1
      <3>5. CASE ~Hit(range, port, proto)
        <4>1. Answers(more, port, proto, 0)
          BY <2>2, <2>3, <3>1, <3>2, <3>5 DEF Answers
        <4> QED BY <2>1, <2>2, <2>5, <3>5, <4>1
      <3> QED BY <3>4, <3>5
    <2> QED BY <2>4, <2>5
  <1> QED BY <1>1, <1>2

\* One more range leaves a list of ranges.
LEMMA AddRangeType ==
  ASSUME NEW kept \in Seq(RangeSet), NEW range \in RangeSet
  PROVE  AddRange(kept, range) \in Seq(RangeSet)
  BY DEF AddRange

\* What a rule says of a port and a protocol.
Serves(r, port, proto) == proto \in r.proto /\ InRanges(r.ports, port)

\* AddRule is the end of its loop.
LEMMA AddRuleRuns ==
  ASSUME NEW kept \in Seq(RangeSet), NEW r \in Rule
  PROVE  \E u : /\ u[0] = kept
                /\ \A i \in 1..Len(r.ports) : u[i] = AddRange(u[i - 1], RangeOf(r, i))
                /\ AddRule(kept, r) = u[Len(r.ports)]
  <1> DEFINE n == Len(r.ports)
             turn == [si \in Seq(RangeSet) \X (1..n) |-> AddRange(si[1], RangeOf(r, si[2]))]
  <1>0. n \in Nat
    BY NetAssumption DEF Rule
  <1>1. \A s \in Seq(RangeSet), i \in 1..n : AddRange(s, RangeOf(r, i)) \in Seq(RangeSet)
    <2>1. DOMAIN r.ports = 1..n
      BY NetAssumption DEF Rule
    <2> QED BY <2>1, AddRangeType, RangeOfType
  <1>2. turn \in Loops(n, Seq(RangeSet))
    BY <1>0, <1>1 DEF Loops
  <1>3. \A s \in Seq(RangeSet), i \in 1..n : turn[<<s, i>>] = AddRange(s, RangeOf(r, i))
    OBVIOUS
  <1> HIDE DEF turn
  <1>4. PICK a : IsRun(a, n, Seq(RangeSet), kept, turn)
    <2>1. kept \in Seq(RangeSet)
      OBVIOUS
    <2> HIDE DEF n
    <2> QED BY <1>0, <1>2, <2>1, LoopRuns, Zenon
  <1>5. a \in [0..n -> Seq(RangeSet)] /\ a[0] = kept /\ \A i \in 1..n : a[i - 1] \in Seq(RangeSet)
    <2>1. a \in [0..n -> Seq(RangeSet)] /\ a[0] = kept
      BY <1>4, Zenon DEF IsRun
    <2>2. \A i \in 1..n : i - 1 \in 0..n
      BY <1>0
    <2> HIDE DEF n
    <2> QED BY <2>1, <2>2, Zenon
  <1>6. \A i \in 1..n : a[i] = AddRange(a[i - 1], RangeOf(r, i))
    BY <1>3, <1>4, <1>5, Zenon DEF IsRun
  <1> DEFINE Q(u) == u = [i \in 0..n |-> IF i = 0 THEN kept ELSE AddRange(u[i - 1], RangeOf(r, i))]
             u == CHOOSE v : Q(v)
  <1>7. Q(a)
    <2>1. \A i \in 0..n : i # 0 => i \in 1..n
      BY <1>0
    <2> QED BY <1>5, <1>6, <2>1
  <1>8. Q(u)
    BY <1>7, Zenon
  <1>9. AddRule(kept, r) = u[n]
    BY Zenon DEF AddRule
  <1> HIDE DEF u
  <1>10. u[0] = kept /\ \A i \in 1..n : u[i] = AddRange(u[i - 1], RangeOf(r, i))
    BY <1>0, <1>8
  <1> QED BY <1>9, <1>10

\* A rule answers where no earlier one did.
LEMMA AddRuleAnswers ==
  ASSUME NEW kept \in Seq(RangeSet), NEW r \in Rule, NEW port \in Nat, NEW proto, NEW o \in Nat,
         Answers(kept, port, proto, o)
  PROVE  /\ AddRule(kept, r) \in Seq(RangeSet)
         /\ Answers(AddRule(kept, r), port, proto, IF o = 0 /\ Serves(r, port, proto) THEN r.id ELSE o)
  <1> DEFINE n == Len(r.ports)
             Before(m) == \E k \in 1..m : Hit(RangeOf(r, k), port, proto)
             ans(m) == IF o = 0 /\ Before(m) THEN r.id ELSE o
  <1>0. n \in Nat /\ DOMAIN r.ports = 1..n /\ r.id \in Nat
    BY NetAssumption DEF Rule
  <1>1. PICK u : /\ u[0] = kept
                 /\ \A i \in 1..Len(r.ports) : u[i] = AddRange(u[i - 1], RangeOf(r, i))
                 /\ AddRule(kept, r) = u[Len(r.ports)]
    BY AddRuleRuns
  <1> DEFINE S == {m \in Nat : m <= n => u[m] \in Seq(RangeSet) /\ Answers(u[m], port, proto, ans(m))}
  <1>2. 0 \in S
    <2>1. ~Before(0)
      OBVIOUS
    <2>2. ans(0) = o
      BY <2>1, Zenon
    <2> HIDE DEF ans
    <2> QED BY <1>1, <2>2
  <1>3. ASSUME NEW m \in S PROVE m + 1 \in S
    <2> SUFFICES ASSUME m + 1 <= n
                 PROVE  u[m + 1] \in Seq(RangeSet) /\ Answers(u[m + 1], port, proto, ans(m + 1))
      <3> HIDE DEF ans
      <3> QED OBVIOUS
    <2>1. m \in Nat /\ m <= n /\ m + 1 \in 1..n /\ (m + 1) - 1 = m
      BY <1>0
    <2>2. u[m] \in Seq(RangeSet) /\ Answers(u[m], port, proto, ans(m))
      <3> HIDE DEF ans
      <3> QED BY <2>1
    <2> DEFINE range == RangeOf(r, m + 1)
    <2>3. range \in RangeSet /\ range.rule_id = r.id
      BY <1>0, <2>1, RangeOfType DEF RangeOf
    <2>4. u[m + 1] = AddRange(u[m], range)
      BY <1>1, <2>1
    <2>5. Before(m + 1) <=> Before(m) \/ Hit(range, port, proto)
      <3>1. \A k : k \in 1..(m + 1) <=> k \in 1..m \/ k = m + 1
        BY <2>1
      <3> QED BY <3>1, Zenon
    <2>6. ans(m) \in Nat
      <3> HIDE DEF Before
      <3> QED BY <1>0
    <2>7. ans(m + 1) = IF ans(m) = 0 /\ Hit(range, port, proto) THEN range.rule_id ELSE ans(m)
      <3> r.id # 0
        BY DEF Rule
      <3> HIDE DEF Before, range
      <3> QED BY <2>3, <2>5
    <2> HIDE DEF ans, range
    <2>8. u[m + 1] \in Seq(RangeSet) /\ Answers(u[m + 1], port, proto, IF ans(m) = 0 /\ Hit(range, port, proto) THEN range.rule_id ELSE ans(m))
      BY <2>2, <2>3, <2>4, <2>6, AddRangeAnswers
    <2> QED BY <2>7, <2>8
  <1>4. S \in SUBSET Nat
    OBVIOUS
  <1>5. \A m \in Nat : m \in S
    <2> HIDE DEF S
    <2> QED BY <1>2, <1>3, <1>4, Induction, Zenon
  <1>6. u[n] \in Seq(RangeSet) /\ Answers(u[n], port, proto, ans(n))
    <2> HIDE DEF ans
    <2> QED BY <1>0, <1>5
  <1>7. Before(n) <=> Serves(r, port, proto)
    <2>1. \A k \in 1..n : Hit(RangeOf(r, k), port, proto) <=> proto \in r.proto /\ port \in r.ports[k][1]..r.ports[k][2]
      BY DEF Hit, RangeOf
    <2>2. CASE r.ports = << >>
      <3>1. n = 0
        BY <2>2
      <3> QED BY <1>0, <2>2, <3>1 DEF Serves, InRanges
    <2> QED BY <1>0, <2>1 DEF Serves, InRanges
  <1> HIDE DEF Before
  <1> QED BY <1>1, <1>6, <1>7

\* A further rule leaves a list of ranges.
LEMMA AddRuleType ==
  ASSUME NEW kept \in Seq(RangeSet), NEW r \in Rule
  PROVE  AddRule(kept, r) \in Seq(RangeSet)
  <1> DEFINE n == Len(r.ports)
  <1>0. n \in Nat /\ DOMAIN r.ports = 1..n
    BY NetAssumption DEF Rule
  <1>1. PICK u : /\ u[0] = kept
                 /\ \A i \in 1..Len(r.ports) : u[i] = AddRange(u[i - 1], RangeOf(r, i))
                 /\ AddRule(kept, r) = u[Len(r.ports)]
    BY AddRuleRuns
  <1> DEFINE S == {m \in Nat : m <= n => u[m] \in Seq(RangeSet)}
  <1>2. 0 \in S
    BY <1>1
  <1>3. ASSUME NEW m \in S PROVE m + 1 \in S
    <2> SUFFICES ASSUME m + 1 <= n PROVE u[m + 1] \in Seq(RangeSet)
      OBVIOUS
    <2>1. m \in Nat /\ m <= n /\ m + 1 \in 1..n /\ (m + 1) - 1 = m
      BY <1>0
    <2>2. u[m] \in Seq(RangeSet) /\ RangeOf(r, m + 1) \in RangeSet
      BY <1>0, <2>1, RangeOfType
    <2>3. u[m + 1] = AddRange(u[m], RangeOf(r, m + 1))
      BY <1>1, <2>1
    <2> QED BY <2>2, <2>3, AddRangeType
  <1>4. S \in SUBSET Nat
    OBVIOUS
  <1>5. \A m \in Nat : m \in S
    <2> HIDE DEF S
    <2> QED BY <1>2, <1>3, <1>4, Induction, Zenon
  <1> QED BY <1>0, <1>1, <1>5

InGroup(r, action, net) == r.action = action /\ r.net = net

\* AddGroup is the end of its loop.
LEMMA AddGroupRuns ==
  ASSUME NEW kept \in Seq(RangeSet), NEW rs \in Seq(Rule), NEW action, NEW net
  PROVE  \E u : /\ u[0] = kept
                /\ \A i \in 1..Len(rs) : u[i] = (IF rs[i].action = action /\ rs[i].net = net THEN AddRule(u[i - 1], rs[i]) ELSE u[i - 1])
                /\ AddGroup(kept, rs, action, net) = u[Len(rs)]
  <1> DEFINE n == Len(rs)
             turn == [si \in Seq(RangeSet) \X (1..n) |-> (IF rs[si[2]].action = action /\ rs[si[2]].net = net THEN AddRule(si[1], rs[si[2]]) ELSE si[1])]
  <1>0. n \in Nat
    OBVIOUS
  <1>1. \A s \in Seq(RangeSet), i \in 1..n : (IF rs[i].action = action /\ rs[i].net = net THEN AddRule(s, rs[i]) ELSE s) \in Seq(RangeSet)
    BY AddRuleType
  <1>2. turn \in Loops(n, Seq(RangeSet))
    BY <1>0, <1>1 DEF Loops
  <1>3. \A s \in Seq(RangeSet), i \in 1..n : turn[<<s, i>>] = (IF rs[i].action = action /\ rs[i].net = net THEN AddRule(s, rs[i]) ELSE s)
    OBVIOUS
  <1> HIDE DEF turn
  <1>4. PICK a : IsRun(a, n, Seq(RangeSet), kept, turn)
    <2>1. kept \in Seq(RangeSet)
      OBVIOUS
    <2> HIDE DEF n
    <2> QED BY <1>0, <1>2, <2>1, LoopRuns, Zenon
  <1>5. a \in [0..n -> Seq(RangeSet)] /\ a[0] = kept /\ \A i \in 1..n : a[i - 1] \in Seq(RangeSet)
    <2>1. a \in [0..n -> Seq(RangeSet)] /\ a[0] = kept
      BY <1>4, Zenon DEF IsRun
    <2>2. \A i \in 1..n : i - 1 \in 0..n
      BY <1>0
    <2> HIDE DEF n
    <2> QED BY <2>1, <2>2, Zenon
  <1>6. \A i \in 1..n : a[i] = (IF rs[i].action = action /\ rs[i].net = net THEN AddRule(a[i - 1], rs[i]) ELSE a[i - 1])
    BY <1>3, <1>4, <1>5, Zenon DEF IsRun
  <1> DEFINE Q(u) == u = [i \in 0..n |-> IF i = 0 THEN kept ELSE IF rs[i].action = action /\ rs[i].net = net THEN AddRule(u[i - 1], rs[i]) ELSE u[i - 1]]
             u == CHOOSE v : Q(v)
  <1>7. Q(a)
    <2>1. \A i \in 0..n : i # 0 => i \in 1..n
      BY <1>0
    <2> QED BY <1>5, <1>6, <2>1
  <1>8. Q(u)
    BY <1>7, Zenon
  <1>9. AddGroup(kept, rs, action, net) = u[n]
    BY Zenon DEF AddGroup
  <1> HIDE DEF u
  <1>10. u[0] = kept
    BY <1>0, <1>8
  <1>11. ASSUME NEW i \in 1..n
         PROVE  u[i] = (IF rs[i].action = action /\ rs[i].net = net THEN AddRule(u[i - 1], rs[i]) ELSE u[i - 1])
    <2>1. i \in 0..n /\ i # 0
      BY <1>0
    <2> QED BY <1>8, <2>1, Zenon
  <1> QED BY <1>9, <1>10, <1>11

\* The answer of the rules in set: that of the best one.
Chosen(rs, set, o) == IF set = {} THEN o = 0 ELSE \E i \in set : Best(rs, set, i) /\ o = rs[i].id

\* kept answers as the rules in set do.
Agrees(kept, rs, set, port, proto) ==
  \E o \in Nat : Answers(kept, port, proto, o) /\ Chosen(rs, set, o)

\* The rules in done have longer prefixes than net.
Longer(rs, done, net) == \A i \in done : Len(rs[i].net) > Len(net)

\* The rules of one prefix, after those of longer prefixes.
LEMMA AddGroupAgrees ==
  ASSUME NEW kept \in Seq(RangeSet), NEW rs \in Seq(Rule), NEW action, NEW net \in NetSpace,
         NEW port \in Nat, NEW proto, NEW done \in SUBSET DOMAIN rs,
         Agrees(kept, rs, done, port, proto), Longer(rs, done, net)
  PROVE  /\ AddGroup(kept, rs, action, net) \in Seq(RangeSet)
         /\ Agrees(AddGroup(kept, rs, action, net), rs,
                   done \cup {i \in DOMAIN rs : InGroup(rs[i], action, net) /\ Serves(rs[i], port, proto)},
                   port, proto)
  <1> DEFINE n == Len(rs)
             group(m) == {i \in 1..m : InGroup(rs[i], action, net) /\ Serves(rs[i], port, proto)}
             set(m) == done \cup group(m)
  <1>0. n \in Nat /\ DOMAIN rs = 1..n /\ \A i \in 1..n : rs[i] \in Rule /\ rs[i].id \in Nat \ {0}
    <2>1. n \in Nat /\ DOMAIN rs = 1..n /\ \A i \in 1..n : rs[i] \in Rule
      OBVIOUS
    <2>2. \A r \in Rule : r.id \in Nat \ {0}
      BY DEF Rule
    <2> QED BY <2>1, <2>2
  <1>1. PICK u : /\ u[0] = kept
                 /\ \A i \in 1..Len(rs) : u[i] = (IF rs[i].action = action /\ rs[i].net = net THEN AddRule(u[i - 1], rs[i]) ELSE u[i - 1])
                 /\ AddGroup(kept, rs, action, net) = u[Len(rs)]
    BY AddGroupRuns
  <1> DEFINE S == {m \in Nat : m <= n => u[m] \in Seq(RangeSet) /\ Agrees(u[m], rs, set(m), port, proto)}
  <1>2. 0 \in S
    <2>1. set(0) = done
      OBVIOUS
    <2> HIDE DEF set
    <2> QED BY <1>1, <2>1
  <1>3. ASSUME NEW m \in S PROVE m + 1 \in S
    <2> SUFFICES ASSUME m + 1 <= n
                 PROVE  u[m + 1] \in Seq(RangeSet) /\ Agrees(u[m + 1], rs, set(m + 1), port, proto)
      <3> HIDE DEF set
      <3> QED OBVIOUS
    <2>1. m \in Nat /\ m <= n /\ m + 1 \in 1..n /\ (m + 1) - 1 = m
      BY <1>0
    <2>2. u[m] \in Seq(RangeSet) /\ Agrees(u[m], rs, set(m), port, proto)
      <3> HIDE DEF set
      <3> QED BY <2>1
    <2>3. u[m + 1] = (IF rs[m + 1].action = action /\ rs[m + 1].net = net THEN AddRule(u[m], rs[m + 1]) ELSE u[m])
      BY <1>1, <2>1
    <2>4. PICK o \in Nat : Answers(u[m], port, proto, o) /\ Chosen(rs, set(m), o)
      <3> HIDE DEF set
      <3> QED BY <2>2 DEF Agrees
    <2>5. rs[m + 1] \in Rule /\ rs[m + 1].id \in Nat \ {0}
      BY <1>0, <2>1
    <2>6. \A k : k \in 1..(m + 1) <=> k \in 1..m \/ k = m + 1
      BY <2>1
    <2>7. CASE ~InGroup(rs[m + 1], action, net)
      <3>1. set(m + 1) = set(m)
        BY <2>6, <2>7, Zenon
      <3>2. u[m + 1] = u[m]
        BY <2>3, <2>7 DEF InGroup
      <3> HIDE DEF set
      <3> QED BY <2>2, <3>1, <3>2
    <2>8. CASE InGroup(rs[m + 1], action, net)
      <3>1. u[m + 1] = AddRule(u[m], rs[m + 1])
        BY <2>3, <2>8 DEF InGroup
      <3>2. /\ u[m + 1] \in Seq(RangeSet)
            /\ Answers(u[m + 1], port, proto, IF o = 0 /\ Serves(rs[m + 1], port, proto) THEN rs[m + 1].id ELSE o)
        BY <2>2, <2>4, <2>5, <3>1, AddRuleAnswers, Zenon
      <3>3. CASE ~Serves(rs[m + 1], port, proto)
        <4>1. set(m + 1) = set(m)
          BY <2>6, <3>3, Zenon
        <4> HIDE DEF set
        <4> QED BY <2>4, <3>2, <3>3, <4>1, Zenon DEF Agrees
      <3>4. CASE Serves(rs[m + 1], port, proto)
        <4>1. set(m + 1) = set(m) \cup {m + 1}
          BY <2>6, <2>8, <3>4, Zenon
        <4>2. CASE set(m) = {}
          <5>1. o = 0
            BY <2>4, <4>2, Zenon DEF Chosen
          <5>2. set(m + 1) = {m + 1}
            BY <4>1, <4>2
          <5>3. Best(rs, {m + 1}, m + 1)
            BY <2>1 DEF Best
          <5>4. Chosen(rs, set(m + 1), rs[m + 1].id)
            <6> HIDE DEF set
            <6> QED BY <5>2, <5>3, Zenon DEF Chosen
          <5> HIDE DEF set
          <5> QED BY <2>5, <3>2, <3>4, <5>1, <5>4, Zenon DEF Agrees
        <4>3. CASE set(m) # {}
          <5>1. PICK i \in set(m) : Best(rs, set(m), i) /\ o = rs[i].id
            <6> HIDE DEF set
            <6> QED BY <2>4, <4>3, Zenon DEF Chosen
          <5>2. i \in 1..n /\ i \in set(m + 1) /\ o # 0
            <6>1. i \in set(m + 1)
              <7> HIDE DEF set
              <7> QED BY <4>1, <5>1
            <6>2. i \in 1..n
              <7>1. \A k \in 1..m : k \in 1..n
                <8> HIDE DEF group
                <8> QED BY <1>0, <2>1
              <7>2. done \subseteq 1..n
                BY <1>0, Zenon
              <7> QED BY <5>1, <7>1, <7>2, Zenon
            <6>3. o # 0
              <7> HIDE DEF set
              <7> QED BY <1>0, <5>1, <6>2
            <6> QED BY <6>1, <6>2, <6>3
          <5>3. \/ Len(rs[i].net) > Len(rs[m + 1].net)
                \/ Len(rs[i].net) = Len(rs[m + 1].net) /\ i <= m + 1
            BY <1>0, <2>1, <2>8 DEF InGroup, Longer
          <5>4. Best(rs, set(m + 1), i)
            <6> HIDE DEF set
            <6> QED BY <4>1, <5>1, <5>3 DEF Best
          <5>5. Chosen(rs, set(m + 1), o)
            <6> HIDE DEF set
            <6> QED BY <5>1, <5>2, <5>4 DEF Chosen
          <5> HIDE DEF set
          <5> QED BY <2>4, <3>2, <5>2, <5>5, Zenon DEF Agrees
        <4> QED BY <4>2, <4>3
      <3> QED BY <3>3, <3>4
    <2> QED BY <2>7, <2>8
  <1>4. S \in SUBSET Nat
    OBVIOUS
  <1>5. \A m \in Nat : m \in S
    <2> HIDE DEF S
    <2> QED BY <1>2, <1>3, <1>4, Induction, Zenon
  <1>6. u[n] \in Seq(RangeSet) /\ Agrees(u[n], rs, set(n), port, proto)
    <2> HIDE DEF set
    <2> QED BY <1>0, <1>5
  <1> QED BY <1>0, <1>1, <1>6, Zenon

\* The rules of one prefix leave a list of ranges.
LEMMA AddGroupType ==
  ASSUME NEW kept \in Seq(RangeSet), NEW rs \in Seq(Rule), NEW action, NEW net
  PROVE  AddGroup(kept, rs, action, net) \in Seq(RangeSet)
  <1> DEFINE n == Len(rs)
  <1>0. n \in Nat /\ \A i \in 1..n : rs[i] \in Rule
    OBVIOUS
  <1>1. PICK u : /\ u[0] = kept
                 /\ \A i \in 1..Len(rs) : u[i] = (IF rs[i].action = action /\ rs[i].net = net THEN AddRule(u[i - 1], rs[i]) ELSE u[i - 1])
                 /\ AddGroup(kept, rs, action, net) = u[Len(rs)]
    BY AddGroupRuns
  <1> DEFINE S == {m \in Nat : m <= n => u[m] \in Seq(RangeSet)}
  <1>2. 0 \in S
    BY <1>1
  <1>3. ASSUME NEW m \in S PROVE m + 1 \in S
    <2> SUFFICES ASSUME m + 1 <= n PROVE u[m + 1] \in Seq(RangeSet)
      OBVIOUS
    <2>1. m \in Nat /\ m <= n /\ m + 1 \in 1..n /\ (m + 1) - 1 = m
      BY <1>0
    <2>2. u[m] \in Seq(RangeSet) /\ rs[m + 1] \in Rule
      BY <1>0, <2>1
    <2>3. AddRule(u[m], rs[m + 1]) \in Seq(RangeSet)
      BY <2>2, AddRuleType
    <2>4. u[m + 1] = (IF rs[m + 1].action = action /\ rs[m + 1].net = net THEN AddRule(u[m], rs[m + 1]) ELSE u[m])
      BY <1>1, <2>1
    <2> QED BY <2>2, <2>3, <2>4
  <1>4. S \in SUBSET Nat
    OBVIOUS
  <1>5. \A m \in Nat : m \in S
    <2> HIDE DEF S
    <2> QED BY <1>2, <1>3, <1>4, Induction, Zenon
  <1> QED BY <1>0, <1>1, <1>5

\* A prefix is a sequence of at most Width bits.
LEMMA NetSpaceSeq ==
  /\ \A p : p \in NetSpace <=> p \in Seq({0, 1}) /\ Len(p) <= Width
  /\ Width \in Nat
  <1>1. Width \in Nat
    BY NetAssumption
  <1>2. ASSUME NEW p \in NetSpace PROVE p \in Seq({0, 1}) /\ Len(p) <= Width
    <2>1. PICK m \in 0..Width : p \in [1..m -> {0, 1}]
      BY DEF NetSpace
    <2> QED BY <1>1, <2>1
  <1>3. ASSUME NEW p \in Seq({0, 1}), Len(p) <= Width PROVE p \in NetSpace
    <2>1. Len(p) \in 0..Width /\ p \in [1..Len(p) -> {0, 1}]
      BY <1>1, <1>3
    <2> QED BY <2>1 DEF NetSpace
  <1> QED BY <1>1, <1>2, <1>3

\* A prefix agrees with what it contains, bit by bit.
LEMMA PrefixBits ==
  ASSUME NEW p \in NetSpace, NEW q \in NetSpace
  PROVE  /\ Len(p) \in Nat /\ Len(q) \in Nat
         /\ contains(p, q) <=> Len(p) <= Len(q) /\ \A i \in 1..Len(p) : p[i] = q[i]
  <1>1. p \in Seq({0, 1}) /\ q \in Seq({0, 1}) /\ Len(p) \in Nat /\ Len(q) \in Nat
    BY NetSpaceSeq
  <1> QED BY <1>1 DEF contains

\* The levels of a prefix are the prefixes that contain it.
LEMMA LevelFacts ==
  ASSUME NEW net \in NetSpace
  PROVE  /\ \A k \in 1..(Len(net) + 1) : Level(net, k) \in NetSpace /\ Len(Level(net, k)) = Len(net) + 1 - k
         /\ \A p \in NetSpace : contains(p, net) <=> \E k \in 1..(Len(net) + 1) : p = Level(net, k)
  <1>1. net \in Seq({0, 1}) /\ Len(net) \in Nat /\ Len(net) <= Width /\ Width \in Nat
    BY NetSpaceSeq
  <1>2. ASSUME NEW k \in 1..(Len(net) + 1)
        PROVE  /\ Level(net, k) \in NetSpace /\ Len(Level(net, k)) = Len(net) + 1 - k
               /\ contains(Level(net, k), net)
    <2> DEFINE m == Len(net) + 1 - k
    <2>1. m \in 0..Len(net) /\ Level(net, k) = SubSeq(net, 1, m)
      BY <1>1 DEF Level
    <2> HIDE DEF m
    <2>2. Len(SubSeq(net, 1, m)) = m /\ SubSeq(net, 1, m) \in Seq({0, 1}) /\ \A i \in 1..m : SubSeq(net, 1, m)[i] = net[i]
      BY <1>1, <2>1
    <2> DEFINE sub == SubSeq(net, 1, m)
    <2>3. Len(sub) = m /\ sub \in Seq({0, 1}) /\ \A i \in 1..m : sub[i] = net[i]
      BY <2>2
    <2>4. Level(net, k) = sub /\ m <= Width /\ m <= Len(net)
      BY <1>1, <2>1
    <2> HIDE DEF sub
    <2>5. sub \in NetSpace
      BY <2>3, <2>4, NetSpaceSeq
    <2>6. contains(sub, net)
      BY <2>3, <2>4, <2>5, PrefixBits
    <2> QED BY <2>3, <2>4, <2>5, <2>6 DEF m
  <1>3. ASSUME NEW p \in NetSpace, contains(p, net)
        PROVE  \E k \in 1..(Len(net) + 1) : p = Level(net, k)
    <2> DEFINE k == Len(net) + 1 - Len(p)
    <2>1. Len(p) \in 0..Len(net) /\ \A i \in 1..Len(p) : p[i] = net[i]
      BY <1>1, <1>3, PrefixBits
    <2>2. k \in 1..(Len(net) + 1) /\ Len(net) + 1 - k = Len(p)
      BY <1>1, <2>1
    <2>3. p = SubSeq(net, 1, Len(p))
      <3>1. p \in Seq({0, 1})
        BY NetSpaceSeq
      <3>2. SubSeq(net, 1, Len(p)) = [i \in 1..Len(p) |-> net[i]]
        BY <1>1, <2>1
      <3>3. p = [i \in 1..Len(p) |-> p[i]]
        BY <3>1
      <3> QED BY <2>1, <3>2, <3>3
    <2>4. p = Level(net, k)
      <3> HIDE DEF k
      <3> QED BY <2>2, <2>3 DEF Level
    <2> QED BY <2>2, <2>4
  <1> QED BY <1>2, <1>3

\* Flattened is the end of its loop.
LEMMA FlattenedRuns ==
  ASSUME NEW rs \in Seq(Rule), NEW action, NEW net \in NetSpace
  PROVE  \E u : /\ u[0] = << >>
                /\ \A i \in 1..(Len(net) + 1) : u[i] = AddGroup(u[i - 1], rs, action, Level(net, i))
                /\ Flattened(rs, action, net) = u[(Len(net) + 1)]
  <1> DEFINE n == (Len(net) + 1)
             turn == [si \in Seq(RangeSet) \X (1..n) |-> AddGroup(si[1], rs, action, Level(net, si[2]))]
  <1>0. n \in Nat
    BY NetSpaceSeq
  <1>1. \A s \in Seq(RangeSet), i \in 1..n : AddGroup(s, rs, action, Level(net, i)) \in Seq(RangeSet)
    BY AddGroupType
  <1>2. turn \in Loops(n, Seq(RangeSet))
    BY <1>0, <1>1 DEF Loops
  <1>3. \A s \in Seq(RangeSet), i \in 1..n : turn[<<s, i>>] = AddGroup(s, rs, action, Level(net, i))
    OBVIOUS
  <1> HIDE DEF turn
  <1>4. PICK a : IsRun(a, n, Seq(RangeSet), << >>, turn)
    <2>1. << >> \in Seq(RangeSet)
      OBVIOUS
    <2> HIDE DEF n
    <2> QED BY <1>0, <1>2, <2>1, LoopRuns, Zenon
  <1>5. a \in [0..n -> Seq(RangeSet)] /\ a[0] = << >> /\ \A i \in 1..n : a[i - 1] \in Seq(RangeSet)
    <2>1. a \in [0..n -> Seq(RangeSet)] /\ a[0] = << >>
      BY <1>4 DEF IsRun
    <2>2. \A i \in 1..n : i - 1 \in 0..n
      BY <1>0
    <2> HIDE DEF n
    <2> QED BY <2>1, <2>2
  <1>6. \A i \in 1..n : a[i] = AddGroup(a[i - 1], rs, action, Level(net, i))
    BY <1>3, <1>4, <1>5, Zenon DEF IsRun
  <1> DEFINE Q(u) == u = [i \in 0..n |-> IF i = 0 THEN << >> ELSE AddGroup(u[i - 1], rs, action, Level(net, i))]
             u == CHOOSE v : Q(v)
  <1>7. Q(a)
    <2>1. \A i \in 0..n : i # 0 => i \in 1..n
      BY <1>0
    <2> QED BY <1>5, <1>6, <2>1
  <1>8. Q(u)
    BY <1>7, Zenon
  <1>9. Flattened(rs, action, net) = u[n]
    BY Zenon DEF Flattened
  <1> HIDE DEF u
  <1>10. u[0] = << >> /\ \A i \in 1..n : u[i] = AddGroup(u[i - 1], rs, action, Level(net, i))
    BY <1>0, <1>8
  <1> QED BY <1>9, <1>10

\* An entry answers as the rules whose prefixes contain its prefix.
LEMMA FlattenedAgrees ==
  ASSUME NEW rs \in Seq(Rule), NEW action, NEW net \in NetSpace, NEW port \in Nat, NEW proto
  PROVE  /\ Flattened(rs, action, net) \in Seq(RangeSet)
         /\ Agrees(Flattened(rs, action, net), rs,
                   {i \in DOMAIN rs : rs[i].action = action /\ contains(rs[i].net, net) /\ Serves(rs[i], port, proto)},
                   port, proto)
  <1> DEFINE n == Len(net) + 1
             set(m) == {i \in DOMAIN rs : /\ rs[i].action = action
                                          /\ \E k \in 1..m : rs[i].net = Level(net, k)
                                          /\ Serves(rs[i], port, proto)}
  <1>0. n \in Nat /\ Len(net) \in Nat
    BY NetSpaceSeq
  <1>1. PICK u : /\ u[0] = << >>
                 /\ \A i \in 1..(Len(net) + 1) : u[i] = AddGroup(u[i - 1], rs, action, Level(net, i))
                 /\ Flattened(rs, action, net) = u[Len(net) + 1]
    BY FlattenedRuns, Zenon
  <1> DEFINE S == {m \in Nat : m <= n => u[m] \in Seq(RangeSet) /\ Agrees(u[m], rs, set(m), port, proto)}
  <1>2. 0 \in S
    <2>1. set(0) = {}
      OBVIOUS
    <2>2. Answers(<< >>, port, proto, 0)
      BY DEF Answers
    <2>3. Agrees(<< >>, rs, {}, port, proto)
      BY <2>2 DEF Agrees, Chosen
    <2>4. << >> \in Seq(RangeSet)
      OBVIOUS
    <2>5. u[0] \in Seq(RangeSet) /\ Agrees(u[0], rs, set(0), port, proto)
      <3> HIDE DEF set
      <3> QED BY <1>1, <2>1, <2>3, <2>4, Zenon
    <2> HIDE DEF set
    <2> QED BY <2>5
  <1>3. ASSUME NEW m \in S PROVE m + 1 \in S
    <2> SUFFICES ASSUME m + 1 <= n
                 PROVE  u[m + 1] \in Seq(RangeSet) /\ Agrees(u[m + 1], rs, set(m + 1), port, proto)
      <3> HIDE DEF set
      <3> QED OBVIOUS
    <2>1. m \in Nat /\ m <= n /\ m + 1 \in 1..n /\ (m + 1) - 1 = m
      BY <1>0
    <2>2. u[m] \in Seq(RangeSet) /\ Agrees(u[m], rs, set(m), port, proto)
      <3> HIDE DEF set
      <3> QED BY <2>1
    <2> DEFINE level == Level(net, m + 1)
               group == {i \in DOMAIN rs : InGroup(rs[i], action, level) /\ Serves(rs[i], port, proto)}
    <2>3. u[m + 1] = AddGroup(u[m], rs, action, level)
      BY <1>1, <2>1
    <2>4. level \in NetSpace /\ Len(level) = Len(net) + 1 - (m + 1)
      BY <2>1, LevelFacts
    <2>5. \A i \in set(m) : Len(rs[i].net) > Len(level)
      <3> SUFFICES ASSUME NEW i \in set(m) PROVE Len(rs[i].net) > Len(level)
        OBVIOUS
      <3>1. PICK k \in 1..m : rs[i].net = Level(net, k)
        OBVIOUS
      <3>2. k \in 1..n /\ Len(net) + 1 - k > Len(net) + 1 - (m + 1)
        BY <1>0, <2>1
      <3>3. Len(Level(net, k)) = Len(net) + 1 - k
        BY <3>2, LevelFacts
      <3> HIDE DEF level
      <3> QED BY <2>4, <3>1, <3>2, <3>3
    <2>6. set(m + 1) = set(m) \cup group
      <3>1. \A k : k \in 1..(m + 1) <=> k \in 1..m \/ k = m + 1
        BY <2>1
      <3> QED BY <3>1, Zenon DEF InGroup
    <2>7. set(m) \in SUBSET DOMAIN rs
      OBVIOUS
    <2>9. Longer(rs, set(m), level)
      <3> HIDE DEF set, level
      <3> QED BY <2>5 DEF Longer
    <2> HIDE DEF set, level
    <2>8. /\ AddGroup(u[m], rs, action, level) \in Seq(RangeSet)
          /\ Agrees(AddGroup(u[m], rs, action, level), rs, set(m) \cup group, port, proto)
      BY <2>2, <2>4, <2>7, <2>9, AddGroupAgrees
    <2> QED BY <2>3, <2>6, <2>8, Zenon
  <1>4. S \in SUBSET Nat
    OBVIOUS
  <1>5. \A m \in Nat : m \in S
    <2> HIDE DEF S
    <2> QED BY <1>2, <1>3, <1>4, Induction, Zenon
  <1>6. u[n] \in Seq(RangeSet) /\ Agrees(u[n], rs, set(n), port, proto)
    <2> HIDE DEF set
    <2> QED BY <1>0, <1>5
  <1>7. set(n) = {i \in DOMAIN rs : rs[i].action = action /\ contains(rs[i].net, net) /\ Serves(rs[i], port, proto)}
    <2>1. \A i \in DOMAIN rs : rs[i].net \in NetSpace
      <3>1. \A i \in DOMAIN rs : rs[i] \in Rule
        OBVIOUS
      <3>2. \A r \in Rule : r.net \in NetSpace
        BY DEF Rule
      <3> QED BY <3>1, <3>2
    <2>2. \A i \in DOMAIN rs : contains(rs[i].net, net) <=> \E k \in 1..n : rs[i].net = Level(net, k)
      BY <2>1, LevelFacts
    <2> QED BY <2>2, Zenon
  <1> HIDE DEF set
  <1> QED BY <1>1, <1>6, <1>7, Zenon

\* A bounded set of numbers has a greatest one.
Bounded(S) == \E b \in Nat : \A x \in S : x <= b

\* Max picks it.
LEMMA Greatest ==
  ASSUME NEW S \in SUBSET Nat, S # {}, Bounded(S)
  PROVE  Max(S) \in S /\ \A x \in S : x <= Max(S)
  <1>0. PICK b \in Nat : \A x \in S : x <= b
    BY DEF Bounded
  <1> DEFINE IsMax(x) == x \in S /\ \A y \in S : x >= y
             E == {n \in Nat : \E x \in S : x >= n}
  <1>1. \E x : IsMax(x)
    <2> SUFFICES ASSUME \A x : ~IsMax(x) PROVE FALSE
      OBVIOUS
    <2>1. 0 \in E
      OBVIOUS
    <2>2. ASSUME NEW n \in E PROVE n + 1 \in E
      <3>1. PICK x \in S : x >= n
        BY <2>2
      <3>2. PICK y \in S : ~(x >= y)
        BY <3>1
      <3>3. y >= n + 1 /\ n \in Nat
        BY <2>2, <3>1, <3>2
      <3> QED BY <3>3
    <2>3. E \in SUBSET Nat
      OBVIOUS
    <2>4. \A n \in Nat : n \in E
      <3> HIDE DEF E
      <3> QED BY <2>1, <2>2, <2>3, Induction, Zenon
    <2>5. b + 1 \in E
      <3>1. b + 1 \in Nat
        BY <1>0
      <3> HIDE DEF E
      <3> QED BY <2>4, <3>1, Zenon
    <2>6. PICK x \in S : x >= b + 1
      BY <2>5
    <2> QED BY <1>0, <2>6
  <1>2. Max(S) = CHOOSE x : IsMax(x)
    BY Zenon DEF Max
  <1>3. IsMax(Max(S))
    BY <1>1, <1>2, Zenon
  <1> QED BY <1>3
-----------------------------------------------------------------------------
(***************************************************************************)
(* One longest-prefix lookup.                                              *)
(***************************************************************************)
\* The parts of a rule.
LEMMA RuleParts ==
  ASSUME NEW rs \in Seq(Rule)
  PROVE  /\ Len(rs) \in Nat /\ DOMAIN rs = 1..Len(rs)
         /\ \A i \in DOMAIN rs : /\ rs[i] \in Rule /\ rs[i].id \in Nat \ {0} /\ rs[i].net \in NetSpace
                                 /\ Len(rs[i].net) \in Nat /\ i \in Nat
  <1>1. Len(rs) \in Nat /\ DOMAIN rs = 1..Len(rs) /\ \A i \in DOMAIN rs : rs[i] \in Rule /\ i \in Nat
    OBVIOUS
  <1>2. \A r \in Rule : r.id \in Nat \ {0} /\ r.net \in NetSpace
    BY DEF Rule
  <1>3. \A p \in NetSpace : Len(p) \in Nat
    BY NetSpaceSeq
  <1> QED BY <1>1, <1>2, <1>3

\* There is one best rule.
LEMMA BestUnique ==
  ASSUME NEW rs \in Seq(Rule), NEW set \in SUBSET DOMAIN rs, NEW i \in set, Best(rs, set, i)
  PROVE  (CHOOSE j \in set : Best(rs, set, j)) = i
  <1>1. ASSUME NEW j \in set, Best(rs, set, j) PROVE j = i
    <2>1. i \in Nat /\ j \in Nat /\ Len(rs[i].net) \in Nat /\ Len(rs[j].net) \in Nat
      BY RuleParts
    <2>2. \/ Len(rs[i].net) > Len(rs[j].net)
          \/ Len(rs[i].net) = Len(rs[j].net) /\ i <= j
      BY DEF Best
    <2>3. \/ Len(rs[j].net) > Len(rs[i].net)
          \/ Len(rs[j].net) = Len(rs[i].net) /\ j <= i
      BY <1>1 DEF Best
    <2> QED BY <2>1, <2>2, <2>3
  <1> HIDE DEF Best
  <1> QED BY <1>1

\* Of two prefixes of one address the shorter contains the longer.
LEMMA PrefixesNest ==
  ASSUME NEW a \in NetSpace, NEW p \in NetSpace, NEW q \in NetSpace, contains(q, a)
  PROVE  /\ contains(p, a) /\ Len(p) <= Len(q) => contains(p, q)
         /\ contains(p, q) => contains(p, a)
         /\ contains(p, q) /\ Len(q) <= Len(p) => p = q
  <1>1. Len(a) \in Nat /\ Len(p) \in Nat /\ Len(q) \in Nat
    BY PrefixBits
  <1>2. Len(q) <= Len(a) /\ \A i \in 1..Len(q) : q[i] = a[i]
    BY PrefixBits
  <1>3. Len(p) <= Len(q) => \A i \in 1..Len(p) : i \in 1..Len(q)
    BY <1>1
  <1>4. ASSUME contains(p, a), Len(p) <= Len(q) PROVE contains(p, q)
    <2>1. \A i \in 1..Len(p) : p[i] = a[i]
      BY <1>4, PrefixBits
    <2>2. \A i \in 1..Len(p) : p[i] = q[i]
      BY <1>2, <1>3, <1>4, <2>1
    <2> QED BY <1>4, <2>2, PrefixBits
  <1>5. ASSUME contains(p, q) PROVE contains(p, a)
    <2>1. Len(p) <= Len(q) /\ \A i \in 1..Len(p) : p[i] = q[i]
      BY <1>5, PrefixBits
    <2>2. \A i \in 1..Len(p) : p[i] = a[i]
      BY <1>2, <1>3, <2>1
    <2>3. Len(p) <= Len(a)
      BY <1>1, <1>2, <2>1
    <2> QED BY <2>2, <2>3, PrefixBits
  <1>6. ASSUME contains(p, q), Len(q) <= Len(p) PROVE p = q
    <2>1. Len(p) = Len(q) /\ \A i \in 1..Len(p) : p[i] = q[i]
      BY <1>1, <1>6, PrefixBits
    <2>2. p \in Seq({0, 1}) /\ q \in Seq({0, 1})
      BY NetSpaceSeq
    <2> QED BY <2>1, <2>2, SeqSame
  <1> QED BY <1>4, <1>5, <1>6

\* The longest of the prefixes of an address.
LEMMA LongestPrefix ==
  ASSUME NEW cover \in SUBSET NetSpace, cover # {}
  PROVE  \E net \in cover : \A other \in cover : Len(other) <= Len(net)
  <1> DEFINE S == {Len(p) : p \in cover}
  <1>1. \A p \in cover : Len(p) \in Nat /\ Len(p) <= Width
    BY NetSpaceSeq
  <1>2. S \in SUBSET Nat /\ S # {}
    BY <1>1, Zenon
  <1>3. Bounded(S)
    BY <1>1, NetSpaceSeq DEF Bounded
  <1>4. Max(S) \in S /\ \A x \in S : x <= Max(S)
    <2> HIDE DEF S
    <2> QED BY <1>2, <1>3, Greatest
  <1>5. PICK net \in cover : Len(net) = Max(S)
    BY <1>4
  <1> QED BY <1>4, <1>5, Zenon

\* What the kernel finds in a trie is what the rules of its action say.
LEMMA LookupFinds ==
  ASSUME NEW rs \in Seq(Rule), NEW action, Fits(compile_trie(rs, action)),
         NEW addr \in NetSpace, NEW port \in Nat, NEW proto
  PROVE  LET trie == compile_trie(rs, action)
             hits == Hits(trie, addr, port, proto)
             matching == {i \in DOMAIN rs : Matches(rs[i], action, addr, port, proto)}
         IN  /\ hits = {} <=> matching = {}
             /\ hits # {} =>
                  FirstHit(trie, hits) = rs[CHOOSE i \in matching : Best(rs, matching, i)].id
  <1> DEFINE trie == compile_trie(rs, action)
             hits == Hits(trie, addr, port, proto)
             matching == {i \in DOMAIN rs : Matches(rs[i], action, addr, port, proto)}
             cover == {net \in DOMAIN trie : contains(net, addr)}
  <1>0. DOMAIN trie = NetsOf(rs, action) /\ \A net \in NetsOf(rs, action) : trie[net] = Flattened(rs, action, net)
    BY DEF compile_trie
  <1>1. NetsOf(rs, action) \subseteq NetSpace
    BY RuleParts DEF NetsOf
  <1>2. \A i \in DOMAIN rs : rs[i].action = action => rs[i].net \in NetsOf(rs, action)
    BY DEF NetsOf
  <1>3. \A i \in matching : rs[i].net \in cover
    BY <1>0, <1>2 DEF Matches
  <1>4. cover \in SUBSET NetSpace
    BY <1>0, <1>1
  <1>5. Longest(trie, addr) = {net \in cover : \A other \in cover : Len(other) <= Len(net)}
    BY DEF Longest
  <1>6. hits = {h \in Longest(trie, addr) \X (1..MAX_RANGES) :
                  h[2] \in DOMAIN trie[h[1]] /\ Hit(trie[h[1]][h[2]], port, proto)}
    BY DEF Hits
  <1>7. Fits(trie)
    OBVIOUS
  <1>8. matching \in SUBSET DOMAIN rs
    OBVIOUS
  <1>9. \A i \in DOMAIN rs : i \in matching <=> rs[i].action = action /\ contains(rs[i].net, addr) /\ Serves(rs[i], port, proto)
    BY DEF Matches, Serves
  <1> SUFFICES /\ hits = {} <=> matching = {}
               /\ hits # {} => FirstHit(trie, hits) = rs[CHOOSE i \in matching : Best(rs, matching, i)].id
    BY Zenon
  <1> HIDE DEF trie, hits, matching, cover
  <1>10. CASE cover = {}
    <2>1. Longest(trie, addr) = {} /\ matching = {}
      BY <1>3, <1>5, <1>10
    <2> QED BY <1>6, <2>1, Zenon
  <1>11. CASE cover # {}
    <2>1. PICK net \in cover : \A other \in cover : Len(other) <= Len(net)
      BY <1>4, <1>11, LongestPrefix
    <2>2. net \in NetSpace /\ net \in NetsOf(rs, action) /\ contains(net, addr) /\ net \in DOMAIN trie
      BY <1>0, <1>4, <2>1 DEF cover
    <2>3. \A other \in cover : other \in NetSpace /\ contains(other, addr)
      BY <1>4 DEF cover
    <2>4. Longest(trie, addr) = {net}
      <3>1. ASSUME NEW p \in cover, \A other \in cover : Len(other) <= Len(p) PROVE p = net
        <4>1. Len(p) <= Len(net) /\ Len(net) <= Len(p) /\ p \in NetSpace /\ contains(p, addr)
          BY <2>1, <2>3, <3>1
        <4> QED BY <2>2, <4>1, PrefixesNest
      <3> QED BY <1>5, <2>1, <3>1
    <2> DEFINE entry == trie[net]
    <2>5. matching = {i \in DOMAIN rs : rs[i].action = action /\ contains(rs[i].net, net) /\ Serves(rs[i], port, proto)}
      <3>1. ASSUME NEW i \in DOMAIN rs, rs[i].action = action
            PROVE  contains(rs[i].net, addr) <=> contains(rs[i].net, net)
        <4>1. rs[i].net \in NetSpace /\ rs[i].net \in DOMAIN trie
          BY <1>0, <1>2, <3>1, RuleParts
        <4>2. contains(rs[i].net, addr) => Len(rs[i].net) <= Len(net)
          BY <2>1, <4>1 DEF cover
        <4> QED BY <2>2, <4>1, <4>2, PrefixesNest
      <3> QED BY <1>8, <1>9, <3>1
    <2>6. entry \in Seq(RangeSet) /\ Agrees(entry, rs, matching, port, proto)
      BY <1>0, <2>2, <2>5, FlattenedAgrees, Zenon
    <2>7. Len(entry) <= MAX_RANGES /\ MAX_RANGES \in Nat /\ Len(entry) \in Nat /\ DOMAIN entry = 1..Len(entry)
      BY <1>7, <2>2, <2>6, NetAssumption DEF Fits
    <2> HIDE DEF entry
    <2>8. hits = {<<net, i>> : i \in {j \in DOMAIN entry : Hit(entry[j], port, proto)}}
      <3>1. ASSUME NEW h \in hits PROVE \E i \in DOMAIN entry : h = <<net, i>> /\ Hit(entry[i], port, proto)
        <4>1. h \in {net} \X (1..MAX_RANGES) /\ h[2] \in DOMAIN trie[h[1]] /\ Hit(trie[h[1]][h[2]], port, proto)
          BY <1>6, <2>4, <3>1
        <4>2. h = <<net, h[2]>> /\ h[1] = net
          BY <4>1
        <4> QED BY <4>1, <4>2 DEF entry
      <3>2. ASSUME NEW i \in DOMAIN entry, Hit(entry[i], port, proto) PROVE <<net, i>> \in hits
        <4>1. i \in 1..MAX_RANGES
          BY <2>7
        <4>2. <<net, i>>[1] = net /\ <<net, i>>[2] = i /\ <<net, i>> \in {net} \X (1..MAX_RANGES)
          BY <4>1
        <4> QED BY <1>6, <2>4, <3>2, <4>2 DEF entry
      <3> QED BY <3>1, <3>2
    <2>9. PICK o \in Nat : Answers(entry, port, proto, o) /\ Chosen(rs, matching, o)
      BY <2>6 DEF Agrees
    <2>10. CASE matching = {}
      <3>1. o = 0
        BY <2>9, <2>10 DEF Chosen
      <3>2. hits = {}
        BY <2>8, <2>9, <3>1 DEF Answers
      <3> QED BY <2>10, <3>2
    <2>11. CASE matching # {}
      <3>1. PICK b \in matching : Best(rs, matching, b) /\ o = rs[b].id
        BY <2>9, <2>11 DEF Chosen
      <3>2. o # 0 /\ (CHOOSE i \in matching : Best(rs, matching, i)) = b
        <4>1. rs[b].id # 0
          BY <1>8, RuleParts
        <4>2. (CHOOSE i \in matching : Best(rs, matching, i)) = b
          BY <1>8, <3>1, BestUnique
        <4> QED BY <3>1, <4>1, <4>2
      <3>3. PICK i \in DOMAIN entry : /\ Hit(entry[i], port, proto)
                                      /\ entry[i].rule_id = o
                                      /\ \A j \in 1..(i - 1) : ~Hit(entry[j], port, proto)
        BY <2>9, <3>2 DEF Answers
      <3>4. <<net, i>> \in hits
        BY <2>8, <3>3
      <3> DEFINE IsFirst(x) == x \in hits /\ \A y \in hits : x[2] <= y[2]
      <3>5. IsFirst(<<net, i>>)
        <4> SUFFICES ASSUME NEW y \in hits PROVE i <= y[2]
          BY <3>4
        <4>1. PICK j \in DOMAIN entry : y = <<net, j>> /\ Hit(entry[j], port, proto)
          BY <2>8
        <4>2. j \notin 1..(i - 1)
          BY <3>3, <4>1
        <4> QED BY <2>7, <4>1, <4>2
      <3>6. ASSUME NEW x, IsFirst(x) PROVE x = <<net, i>>
        <4>1. PICK j \in DOMAIN entry : x = <<net, j>> /\ Hit(entry[j], port, proto)
          BY <2>8, <3>6
        <4>2. j <= i
          BY <3>4, <3>6, <4>1
        <4>3. j \notin 1..(i - 1)
          BY <3>3, <4>1
        <4>4. j = i
          BY <2>7, <4>2, <4>3
        <4> QED BY <4>1, <4>4
      <3>7. (CHOOSE x : IsFirst(x)) = <<net, i>>
        <4> HIDE DEF IsFirst
        <4> QED BY <3>5, <3>6
      <3>8. (CHOOSE x \in hits : \A y \in hits : x[2] <= y[2]) = CHOOSE x : IsFirst(x)
        BY Zenon
      <3>9. FirstHit(trie, hits) = trie[net][i].rule_id
        <4> DEFINE c == CHOOSE x \in hits : \A y \in hits : x[2] <= y[2]
        <4>1. FirstHit(trie, hits) = trie[c[1]][c[2]].rule_id
          BY Zenon DEF FirstHit
        <4>2. c = <<net, i>>
          <5> HIDE DEF IsFirst
          <5> QED BY <3>7, <3>8, Zenon
        <4> HIDE DEF c
        <4> QED BY <4>1, <4>2
      <3> QED BY <2>11, <3>1, <3>2, <3>3, <3>4, <3>9, Zenon DEF entry
    <2> QED BY <2>10, <2>11
  <1> QED BY <1>10, <1>11

\* The kernel's verdict over the two tries of a list of rules is that of evaluate.
LEMMA VerdictIsEvaluate ==
  ASSUME NEW rs \in Seq(Rule), NEW tries, tries = [action \in Actions |-> compile_trie(rs, action)],
         \A action \in Actions : Fits(tries[action]),
         NEW addr \in NetSpace, NEW port \in Nat, NEW proto, NEW dflt
  PROVE  rk_net_verdict(tries, dflt, addr, port, proto) = evaluate(rs, dflt, addr, port, proto)
  <1> DEFINE hits(action) == Hits(tries[action], addr, port, proto)
             matching(action) == {i \in DOMAIN rs : Matches(rs[i], action, addr, port, proto)}
             best(action) == rs[CHOOSE i \in matching(action) : Best(rs, matching(action), i)].id
  <1>1. ASSUME NEW action \in Actions
        PROVE  /\ hits(action) = {} <=> matching(action) = {}
               /\ hits(action) # {} => FirstHit(tries[action], hits(action)) = best(action)
    <2>1. tries[action] = compile_trie(rs, action) /\ Fits(compile_trie(rs, action))
      OBVIOUS
    <2> QED BY <2>1, LookupFinds, Zenon
  <1>2. "deny" \in Actions /\ "allow" \in Actions
    BY DEF Actions
  <1>3. /\ (hits("deny") = {} <=> matching("deny") = {})
        /\ (hits("allow") = {} <=> matching("allow") = {})
        /\ hits("deny") # {} => FirstHit(tries["deny"], hits("deny")) = best("deny")
        /\ hits("allow") # {} => FirstHit(tries["allow"], hits("allow")) = best("allow")
    BY <1>1, <1>2, Zenon
  <1>4. rk_net_verdict(tries, dflt, addr, port, proto) =
          CASE hits("deny") # {} -> [action |-> "deny", rule_id |-> FirstHit(tries["deny"], hits("deny"))]
            [] hits("deny") = {} /\ hits("allow") # {} -> [action |-> "allow", rule_id |-> FirstHit(tries["allow"], hits("allow"))]
            [] OTHER -> [action |-> dflt, rule_id |-> 0]
    BY Zenon DEF rk_net_verdict
  <1>5. evaluate(rs, dflt, addr, port, proto) =
          CASE matching("deny") # {} -> [action |-> "deny", rule_id |-> best("deny")]
            [] matching("deny") = {} /\ matching("allow") # {} -> [action |-> "allow", rule_id |-> best("allow")]
            [] OTHER -> [action |-> dflt, rule_id |-> 0]
    BY Zenon DEF evaluate
  <1> HIDE DEF hits, matching, best
  <1> QED BY <1>3, <1>4, <1>5
-----------------------------------------------------------------------------
(***************************************************************************)
(* The policy as it is written and compiled.                               *)
(***************************************************************************)
\* Each IPv4 deny of the file has its translated twin among the rules.
Twinned ==
  nat64 =>
    \A i \in DOMAIN file :
      file[i].action = "deny" /\ HasNat64(file[i].net) =>
        \E j \in DOMAIN rules : rules[j] = [file[i] EXCEPT !.net = nat64_equivalent(file[i].net)]

NetInv ==
  /\ file \in Seq(Rule) /\ rules \in Seq(Rule)
  /\ next_rule \in Nat \ {0}
  /\ default \in Actions /\ nat64 \in BOOLEAN
  /\ compiled.status # "none" => compiled = compile(rules)
  /\ Twinned

\* The translated prefix, bit by bit.
LEMMA TranslatedBits ==
  ASSUME NEW p \in NetSpace, Len(V4) <= Len(p)
  PROVE  /\ nat64_equivalent(p) \in NetSpace /\ Len(nat64_equivalent(p)) = Len(p)
         /\ \A i \in 1..Len(p) : nat64_equivalent(p)[i] = IF i <= Len(V4) THEN NAT64[i] ELSE p[i]
  <1>1. p \in Seq({0, 1}) /\ Len(p) \in Nat /\ Len(p) <= Width
    BY NetSpaceSeq
  <1>2. NAT64 \in Seq({0, 1}) /\ V4 \in Seq({0, 1}) /\ Len(NAT64) = Len(V4) /\ Len(V4) \in Nat
    BY NetSpaceSeq, NetAssumption
  <1> DEFINE rest == SubSeq(p, Len(V4) + 1, Len(p))
  <1>3. rest \in Seq({0, 1}) /\ Len(rest) = Len(p) - Len(V4)
    BY <1>1, <1>2
  <1>4. \A i \in 1..(Len(p) - Len(V4)) : rest[i] = p[Len(V4) + i]
    BY <1>1, <1>2
  <1>5. nat64_equivalent(p) = NAT64 \o rest
    BY DEF nat64_equivalent
  <1> HIDE DEF rest
  <1>6. NAT64 \o rest \in Seq({0, 1}) /\ Len(NAT64 \o rest) = Len(p)
    <2>1. NAT64 \o rest \in Seq({0, 1}) /\ Len(NAT64 \o rest) = Len(NAT64) + Len(rest)
      <3>1. \A S : \A s \in Seq(S), t \in Seq(S) : s \o t \in Seq(S) /\ Len(s \o t) = Len(s) + Len(t)
        BY SeqConcat
      <3> QED BY <1>2, <1>3, <3>1, Zenon
    <2> QED BY <1>1, <1>2, <1>3, <2>1
  <1>7. ASSUME NEW i \in 1..Len(p) PROVE (NAT64 \o rest)[i] = IF i <= Len(V4) THEN NAT64[i] ELSE p[i]
    <2>1. CASE i <= Len(V4)
      BY <1>1, <1>2, <1>3, <2>1
    <2>2. CASE ~(i <= Len(V4))
      <3>1. (NAT64 \o rest)[i] = rest[i - Len(V4)]
        BY <1>1, <1>2, <1>3, <2>2
      <3>2. i - Len(V4) \in 1..(Len(p) - Len(V4)) /\ Len(V4) + (i - Len(V4)) = i
        BY <1>1, <1>2, <2>2
      <3> QED BY <1>4, <2>2, <3>1, <3>2
    <2> QED BY <2>1, <2>2, Zenon
  <1>8. NAT64 \o rest \in NetSpace
    BY <1>1, <1>6, NetSpaceSeq, Zenon
  <1> QED BY <1>5, <1>6, <1>7, <1>8

\* Translation keeps containment.
LEMMA TranslatedNest ==
  ASSUME NEW p \in NetSpace, NEW a \in NetSpace, HasNat64(p), contains(p, a)
  PROVE  /\ nat64_equivalent(p) \in NetSpace /\ nat64_equivalent(a) \in NetSpace
         /\ Len(nat64_equivalent(a)) = Len(a)
         /\ contains(nat64_equivalent(p), nat64_equivalent(a))
  <1>1. V4 \in NetSpace
    BY NetAssumption
  <1>2. Len(V4) <= Len(p) /\ Len(p) <= Len(a) /\ Len(V4) \in Nat /\ Len(p) \in Nat /\ Len(a) \in Nat
    BY <1>1, PrefixBits DEF HasNat64
  <1>3. Len(V4) <= Len(a)
    BY <1>2
  <1>4. \A i \in 1..Len(p) : p[i] = a[i] /\ i \in 1..Len(a)
    BY <1>2, PrefixBits
  <1>5. \A i \in 1..Len(p) : nat64_equivalent(p)[i] = nat64_equivalent(a)[i]
    BY <1>2, <1>3, <1>4, TranslatedBits
  <1>6. /\ nat64_equivalent(p) \in NetSpace /\ nat64_equivalent(a) \in NetSpace
        /\ Len(nat64_equivalent(p)) = Len(p) /\ Len(nat64_equivalent(a)) = Len(a)
    BY <1>2, <1>3, TranslatedBits
  <1> QED BY <1>2, <1>5, <1>6, PrefixBits

\* A rule as push appends it.
LEMMA PushedRules ==
  ASSUME NEW r \in Rule
  PROVE  /\ Pushed(r) \in Seq(Rule)
         /\ r.action = "deny" /\ nat64 /\ HasNat64(r.net) =>
              \E j \in DOMAIN Pushed(r) : Pushed(r)[j] = [r EXCEPT !.net = nat64_equivalent(r.net)]
  <1> DEFINE twin == [r EXCEPT !.net = nat64_equivalent(r.net)]
  <1>1. CASE r.action = "deny" /\ nat64 /\ HasNat64(r.net)
    <2>1. Pushed(r) = <<twin, r>>
      BY <1>1 DEF Pushed
    <2>2. r.net \in NetSpace /\ Len(V4) <= Len(r.net)
      <3>1. r.net \in NetSpace /\ V4 \in NetSpace
        BY NetAssumption DEF Rule
      <3> QED BY <1>1, <3>1, PrefixBits DEF HasNat64
    <2>3. nat64_equivalent(r.net) \in NetSpace
      BY <2>2, TranslatedBits
    <2>4. twin \in Rule
      BY <2>3, Zenon DEF Rule
    <2> HIDE DEF twin
    <2>5. <<twin, r>> \in Seq(Rule) /\ 1 \in DOMAIN <<twin, r>> /\ <<twin, r>>[1] = twin
      BY <2>4
    <2> QED BY <2>1, <2>5 DEF twin
  <1>2. CASE ~(r.action = "deny" /\ nat64 /\ HasNat64(r.net))
    BY <1>2 DEF Pushed
  <1> QED BY <1>1, <1>2

\* A file that is empty is in order.
LEMMA NetInit ==
  ASSUME NInit
  PROVE  NetInv
  BY DEF NInit, NetInv, Twinned

\* A further rule leaves the policy in order.
LEMMA PushNet ==
  ASSUME NetInv, NEW action \in Actions, NEW net \in Nets, NEW ports \in PortLists, NEW proto \in Masks,
         push(action, net, ports, proto)
  PROVE  NetInv'
  <1> DEFINE r == [id |-> next_rule, action |-> action, net |-> net, ports |-> ports, proto |-> proto]
  <1>1. /\ compiled.status = "none" /\ file' = Append(file, r) /\ rules' = rules \o Pushed(r)
        /\ next_rule' = next_rule + 1 /\ UNCHANGED <<default, nat64, compiled>>
    BY DEF push
  <1>2. r \in Rule
    <2>1. next_rule \in Nat \ {0} /\ net \in NetSpace /\ proto \in SUBSET Protos
      BY NetAssumption DEF NetInv
    <2> QED BY <2>1 DEF Rule
  <1> HIDE DEF r
  <1>3. Pushed(r) \in Seq(Rule)
    BY <1>2, PushedRules
  <1>4. file \in Seq(Rule) /\ rules \in Seq(Rule) /\ next_rule \in Nat \ {0}
    BY DEF NetInv
  <1>5. file' \in Seq(Rule) /\ next_rule' \in Nat \ {0}
    BY <1>1, <1>2, <1>4
  <1>6. rules' \in Seq(Rule)
    BY <1>1, <1>3, <1>4, SeqConcat
  <1>7. Twinned'
    <2> SUFFICES ASSUME nat64, NEW i \in DOMAIN file', file'[i].action = "deny", HasNat64(file'[i].net)
                 PROVE  \E j \in DOMAIN rules' : rules'[j] = [file'[i] EXCEPT !.net = nat64_equivalent(file'[i].net)]
      BY <1>1 DEF Twinned
    <2> DEFINE twin == [file'[i] EXCEPT !.net = nat64_equivalent(file'[i].net)]
    <2>1. \A j \in DOMAIN rules : j \in DOMAIN rules' /\ rules'[j] = rules[j]
      BY <1>1, <1>3, <1>4
    <2>2. \A j \in DOMAIN Pushed(r) : Len(rules) + j \in DOMAIN rules' /\ rules'[Len(rules) + j] = Pushed(r)[j]
      BY <1>1, <1>3, <1>4
    <2>3. CASE i \in DOMAIN file
      <3>1. file'[i] = file[i]
        BY <1>1, <1>2, <1>4, <2>3
      <3>2. PICK j \in DOMAIN rules : rules[j] = twin
        BY <2>3, <3>1 DEF NetInv, Twinned
      <3> QED BY <2>1, <3>2
    <2>4. CASE i \notin DOMAIN file
      <3>1. file'[i] = r
        BY <1>1, <1>2, <1>4, <2>4
      <3>2. PICK j \in DOMAIN Pushed(r) : Pushed(r)[j] = twin
        BY <1>2, <3>1, PushedRules
      <3> QED BY <2>2, <3>2
    <2> QED BY <2>3, <2>4
  <1> QED BY <1>1, <1>5, <1>6, <1>7 DEF NetInv

\* A step of parse or of compile leaves the policy in order.
LEMMA StepNet ==
  ASSUME NetInv, NNext
  PROVE  NetInv'
  <1>1. CASE \E action \in Actions, net \in Nets, ports \in PortLists, proto \in Masks :
               push(action, net, ports, proto)
    BY <1>1, PushNet
  <1>2. CASE Compile
    BY <1>2 DEF Compile, NetInv, Twinned
  <1> QED BY <1>1, <1>2 DEF NNext

\* As does a step that does not touch it.
LEMMA StaysNet ==
  ASSUME NetInv, UNCHANGED nvars
  PROVE  NetInv'
  BY DEF NetInv, Twinned, nvars

\* The tries of a compiled profile.
LEMMA CompiledTries ==
  ASSUME NetInv, compiled.status = "ok"
  PROVE  /\ compiled.tries = [action \in Actions |-> compile_trie(rules, action)]
         /\ \A action \in Actions : Fits(compiled.tries[action])
  <1> DEFINE tries == [action \in Actions |-> compile_trie(rules, action)]
             fits == \A action \in Actions : Fits(tries[action])
  <1>1. compiled = IF fits THEN [status |-> "ok", tries |-> tries] ELSE [status |-> "refused", tries |-> Empty]
    BY Zenon DEF NetInv, compile
  <1> HIDE DEF tries
  <1>2. fits
    <2> HIDE DEF fits
    <2> QED BY <1>1
  <1>3. compiled.tries = tries
    <2> HIDE DEF fits
    <2> QED BY <1>1, <1>2
  <1> QED BY <1>2, <1>3 DEF tries

\* The verdict of a compiled profile is that of its rules.
LEMMA VerdictAgrees ==
  ASSUME NetInv, compiled.status = "ok", NEW addr \in NetSpace, NEW port \in Ports, NEW proto
  PROVE  rk_net_verdict(compiled.tries, default, addr, port, proto)
           = evaluate(rules, default, addr, port, proto)
  <1>1. rules \in Seq(Rule) /\ port \in Nat
    BY NetAssumption DEF NetInv
  <1>2. /\ compiled.tries = [action \in Actions |-> compile_trie(rules, action)]
        /\ \A action \in Actions : Fits(compiled.tries[action])
    BY CompiledTries
  <1> DEFINE tries == compiled.tries
  <1> HIDE DEF tries
  <1>3. /\ tries = [action \in Actions |-> compile_trie(rules, action)]
        /\ \A action \in Actions : Fits(tries[action])
    BY <1>2, Zenon DEF tries
  <1>4. rk_net_verdict(tries, default, addr, port, proto) = evaluate(rules, default, addr, port, proto)
    BY <1>1, <1>3, VerdictIsEvaluate
  <1> QED BY <1>4, Zenon DEF tries

\* So LookupAgrees follows from the invariant,
LEMMA NetLookup ==
  ASSUME NetInv
  PROVE  LookupAgrees
  <1>1. Addresses \subseteq NetSpace
    BY DEF Addresses
  <1> QED BY <1>1, VerdictAgrees DEF LookupAgrees

\* and so does DenyReachesNat64.
LEMMA NetTranslates ==
  ASSUME NetInv
  PROVE  DenyReachesNat64
  <1> SUFFICES ASSUME compiled.status = "ok", nat64, NEW i \in DOMAIN file,
                      NEW addr \in Addresses, NEW port \in Ports, NEW proto \in Protos,
                      contains(V4, file[i].net), Matches(file[i], "deny", addr, port, proto)
               PROVE  rk_net_verdict(compiled.tries, default, nat64_equivalent(addr), port, proto).action = "deny"
    BY DEF DenyReachesNat64
  <1> DEFINE there == nat64_equivalent(addr)
             matching == {k \in DOMAIN rules : Matches(rules[k], "deny", there, port, proto)}
  <1>1. file[i] \in Rule /\ file[i].net \in NetSpace /\ addr \in NetSpace
    BY RuleParts DEF NetInv, Addresses
  <1>2. /\ file[i].action = "deny" /\ HasNat64(file[i].net) /\ contains(file[i].net, addr)
        /\ proto \in file[i].proto /\ InRanges(file[i].ports, port)
    BY DEF Matches, HasNat64
  <1>3. PICK j \in DOMAIN rules : rules[j] = [file[i] EXCEPT !.net = nat64_equivalent(file[i].net)]
    BY <1>2 DEF NetInv, Twinned
  <1>4. there \in NetSpace /\ contains(nat64_equivalent(file[i].net), there)
    BY <1>1, <1>2, TranslatedNest, Zenon
  <1>5. /\ rules[j].action = "deny" /\ rules[j].net = nat64_equivalent(file[i].net)
        /\ rules[j].proto = file[i].proto /\ rules[j].ports = file[i].ports
    <2> DEFINE twin == [file[i] EXCEPT !.net = nat64_equivalent(file[i].net)]
    <2>1. /\ twin.action = file[i].action /\ twin.net = nat64_equivalent(file[i].net)
          /\ twin.proto = file[i].proto /\ twin.ports = file[i].ports
      BY <1>1 DEF Rule
    <2>2. rules[j] = twin
      BY <1>3
    <2> HIDE DEF twin
    <2> QED BY <1>2, <2>1, <2>2, Zenon
  <1> HIDE DEF there
  <1>6. matching # {}
    BY <1>2, <1>4, <1>5, Zenon DEF Matches
  <1>7. evaluate(rules, default, there, port, proto).action = "deny"
    BY <1>6 DEF evaluate
  <1>8. rk_net_verdict(compiled.tries, default, there, port, proto) = evaluate(rules, default, there, port, proto)
    BY <1>4, VerdictAgrees
  <1> QED BY <1>7, <1>8 DEF there
-----------------------------------------------------------------------------
(***************************************************************************)
(* Sockets and packets.                                                    *)
(***************************************************************************)
Observed == {"tcp", "udp"}

\* What deny_raw_sockets leaves open: TCP, UDP, and the families not classified.
Left == Observed \cup {"unclassified"}
Transports ==
  {"none", "tcp", "udp", "mptcp", "sctp", "udplite", "icmp", "raw", "packet", "tun", "unclassified"}
Sockets == [transport : Transports, family : Families \cup {"none"}, peer : {<< >>} \cup (Addresses \X Ports)]

\* The rules of the profile allow the destination.
Allowed(transport, addr, port) ==
  evaluate(rules, default, addr, port, rk_proto_bit(transport)).action = "allow"

\* A destination that the hooks passed.
Passed(transport, peer) ==
  \E addr \in Addresses, port \in Ports : peer = <<addr, port>> /\ Allowed(transport, addr, port)

EgressInv ==
  /\ NetInv /\ socket \in Sockets
  /\ compiled.status # "ok" => socket = NoSocket /\ packet = NoPacket
  /\ deny_raw => socket.transport \in Left \cup {"none"}
  /\ socket.transport = "none" => socket.peer = << >>
  /\ socket.transport \in Observed => socket.peer = << >> \/ Passed(socket.transport, socket.peer)
  /\ packet # NoPacket /\ deny_raw => packet.transport \in Left
  /\ packet # NoPacket /\ packet.transport \in Observed => Allowed(packet.transport, packet.addr, packet.port)

\* The transport of a socket the kernel makes; one that rk_sock_observed passes is
\* TCP or UDP, or of a family it does not classify.
LEMMA TransportType ==
  ASSUME NEW family \in Families, NEW type \in Types, NEW protocol \in Protocols
  PROVE  /\ Transport(family, type, protocol) \in Transports
         /\ rk_sock_observed(family, type, protocol) => Transport(family, type, protocol) \in Left
  <1>1. CASE family \in {"packet", "unclassified"}
    BY <1>1 DEF Transport, Transports, rk_sock_observed, Left
  <1>2. CASE family \notin {"packet", "unclassified"}
    <2> DEFINE t == Transport(family, type, protocol)
    <2>1. t = CASE type = "raw" -> "raw"
         [] type = "stream" /\ protocol \in {"ip", "tcp"} -> "tcp"
         [] type = "stream" /\ protocol \in {"mptcp", "sctp"} -> protocol
         [] type = "dgram" /\ protocol \in {"ip", "udp"} -> "udp"
         [] type = "dgram" /\ protocol \in {"udplite", "icmp"} -> protocol
         [] type = "seqpacket" /\ protocol = "sctp" -> "sctp"
         [] OTHER -> "none"
      BY <1>2 DEF Transport
    <2>2. family \in {"inet", "inet6"}
      BY <1>2 DEF Families
    <2> HIDE DEF t
    <2>3. CASE type = "raw"
      BY <2>1, <2>2, <2>3 DEF Transports, rk_sock_observed, t
    <2>4. CASE type = "stream"
      BY <2>1, <2>2, <2>4 DEF Transports, rk_sock_observed, t, Observed, Left
    <2>5. CASE type = "dgram"
      BY <2>1, <2>2, <2>5 DEF Transports, rk_sock_observed, t, Observed, Left
    <2>6. CASE type = "seqpacket"
      BY <2>1, <2>2, <2>6 DEF Transports, rk_sock_observed, t
    <2> QED BY <2>3, <2>4, <2>5, <2>6 DEF Types
  <1> QED BY <1>1, <1>2

\* What the rules allow stays while the policy does.
LEMMA AllowedStays ==
  ASSUME UNCHANGED nvars
  PROVE  /\ \A t, addr, port : Allowed(t, addr, port)' <=> Allowed(t, addr, port)
         /\ \A t, peer : Passed(t, peer)' <=> Passed(t, peer)
  <1>1. rules' = rules /\ default' = default
    BY DEF nvars
  <1>2. \A t, addr, port : Allowed(t, addr, port)' <=> Allowed(t, addr, port)
    BY <1>1 DEF Allowed
  <1> QED BY <1>2 DEF Passed

\* The sock_addr hooks let through what the rules allow.
LEMMA HookAllows ==
  ASSUME EgressInv, compiled.status = "ok", NEW t, NEW addr \in Addresses, NEW port \in Ports,
         SockAddrAllows(t, addr, port)
  PROVE  Allowed(t, addr, port)
  <1>1. NetInv /\ addr \in NetSpace
    BY DEF EgressInv, Addresses
  <1> QED BY <1>1, VerdictAgrees DEF SockAddrAllows, Allowed

\* An open socket has a compiled profile.
LEMMA SocketOfProfile ==
  ASSUME EgressInv, socket.transport # "none"
  PROVE  compiled.status = "ok"
  BY DEF EgressInv, NoSocket

\* The sockets' part of the invariant, when the policy stays.
LEMMA EgressFrame ==
  ASSUME EgressInv, UNCHANGED <<nvars, deny_raw>>, socket' \in Sockets,
         compiled.status # "ok" => socket' = NoSocket /\ packet' = NoPacket,
         deny_raw => socket'.transport \in Left \cup {"none"},
         socket'.transport = "none" => socket'.peer = << >>,
         socket'.transport \in Observed => socket'.peer = << >> \/ Passed(socket'.transport, socket'.peer),
         packet' # NoPacket /\ deny_raw => packet'.transport \in Left,
         packet' # NoPacket /\ packet'.transport \in Observed => Allowed(packet'.transport, packet'.addr, packet'.port)
  PROVE  EgressInv'
  <1>1. NetInv'
    BY StaysNet, Zenon DEF EgressInv
  <1>2. compiled' = compiled /\ deny_raw' = deny_raw
    BY DEF nvars
  <1>3. \A t, peer : Passed(t, peer) => Passed(t, peer)'
    BY AllowedStays
  <1>4. \A t, addr, port : Allowed(t, addr, port) => Allowed(t, addr, port)'
    BY AllowedStays
  <1>5. socket'.transport \in Observed => socket'.peer = << >> \/ Passed(socket.transport, socket.peer)'
    <2>1. rules' = rules /\ default' = default
      BY DEF nvars
    <2> QED BY <2>1, Zenon DEF Passed, Allowed
  <1>6. packet' # NoPacket /\ packet'.transport \in Observed => Allowed(packet.transport, packet.addr, packet.port)'
    <2>1. rules' = rules /\ default' = default
      BY DEF nvars
    <2> QED BY <2>1 DEF Allowed
  <1>7. compiled'.status # "ok" => socket' = NoSocket /\ packet' = NoPacket
    BY <1>2, Zenon
  <1>8. /\ deny_raw' => socket'.transport \in Left \cup {"none"}
        /\ packet' # NoPacket /\ deny_raw' => packet'.transport \in Left
    <2>1. deny_raw' => deny_raw
      BY <1>2
    <2> QED BY <2>1, Zenon
  <1> QED BY <1>1, <1>5, <1>6, <1>7, <1>8, Zenon DEF EgressInv

\* The policy is written while no socket is open.
LEMMA PolicyEgress ==
  ASSUME EgressInv, Policy
  PROVE  EgressInv'
  <1>1. NNext /\ UNCHANGED <<socket, packet>>
    BY DEF Policy
  <1>2. compiled.status = "none"
    BY <1>1, Zenon DEF NNext, push, Compile
  <1>3. socket = NoSocket /\ packet = NoPacket /\ socket \in Sockets
    BY <1>2 DEF EgressInv
  <1>4. NetInv'
    BY <1>1, StepNet DEF EgressInv
  <1>5. socket' = NoSocket /\ packet' = NoPacket
    BY <1>1, <1>3
  <1> QED BY <1>1, <1>3, <1>4, <1>5 DEF EgressInv, NoSocket, Observed, Left

\* A socket or a tun queue is opened.
LEMMA OpenEgress ==
  ASSUME EgressInv, NEW t \in Transports \ {"none"}, NEW family \in Families, OpenSocket(t, family),
         deny_raw => t \in Left
  PROVE  EgressInv'
  <1>1. /\ compiled.status = "ok" /\ socket' = [transport |-> t, family |-> family, peer |-> << >>]
        /\ UNCHANGED <<nvars, deny_raw>> /\ packet' = packet
    BY DEF OpenSocket
  <1>2. socket'.transport = t /\ socket'.peer = << >> /\ socket' \in Sockets
    BY <1>1 DEF Sockets
  <1>3. /\ packet' # NoPacket /\ deny_raw => packet'.transport \in Left
        /\ packet' # NoPacket /\ packet'.transport \in Observed => Allowed(packet'.transport, packet'.addr, packet'.port)
    BY <1>1 DEF EgressInv
  <1>4. deny_raw => socket'.transport \in Left \cup {"none"}
    BY <1>2
  <1> QED BY <1>1, <1>2, <1>3, <1>4, EgressFrame

\* socket().
LEMMA CreateEgress ==
  ASSUME EgressInv, NEW family \in Families, NEW type \in Types, NEW protocol \in Protocols,
         SocketCreate(family, type, protocol)
  PROVE  EgressInv'
  <1> DEFINE t == Transport(family, type, protocol)
  <1>1. /\ t # "none" /\ (rk_sock_observed(family, type, protocol) \/ ~deny_raw)
        /\ OpenSocket(t, family)
    BY DEF SocketCreate
  <1>2. t \in Transports \ {"none"} /\ (deny_raw => t \in Left)
    BY <1>1, TransportType
  <1> HIDE DEF t
  <1> QED BY <1>1, <1>2, OpenEgress

\* A tun device is opened.
LEMMA TunEgress ==
  ASSUME EgressInv, TunOpen
  PROVE  EgressInv'
  <1>1. ~deny_raw /\ OpenSocket("tun", "packet")
    BY DEF TunOpen
  <1>2. "tun" \in Transports \ {"none"} /\ "packet" \in Families
    BY DEF Transports, Families
  <1> QED BY <1>1, <1>2, OpenEgress

\* connect().
LEMMA ConnectEgress ==
  ASSUME EgressInv, NEW addr \in Addresses, NEW port \in Ports, Connect(addr, port)
  PROVE  EgressInv'
  <1>1. /\ socket.transport # "none"
        /\ socket.transport \in ConnectHooked => SockAddrAllows(socket.transport, addr, port)
        /\ packet = NoPacket
        /\ socket' = [socket EXCEPT !.peer = <<addr, port>>]
        /\ UNCHANGED <<nvars, deny_raw>> /\ packet' = packet
    BY DEF Connect
  <1>2. compiled.status = "ok"
    BY <1>1, SocketOfProfile
  <1>3. socket \in Sockets
    BY Zenon DEF EgressInv
  <1>4. socket'.transport = socket.transport /\ socket'.peer = <<addr, port>>
    BY <1>1, <1>3 DEF Sockets
  <1>5. socket' \in Sockets
    <2>1. <<addr, port>> \in {<< >>} \cup (Addresses \X Ports)
      OBVIOUS
    <2> QED BY <1>1, <1>3, <2>1, Zenon DEF Sockets
  <1>6. socket.transport \in Observed => Passed(socket.transport, <<addr, port>>)
    <2> SUFFICES ASSUME socket.transport \in Observed PROVE Allowed(socket.transport, addr, port)
      BY DEF Passed
    <2>1. SockAddrAllows(socket.transport, addr, port)
      BY <1>1 DEF Observed, ConnectHooked
    <2> QED BY <1>2, <2>1, HookAllows
  <1>7. deny_raw => socket.transport \in Left \cup {"none"}
    BY DEF EgressInv
  <1> QED BY <1>1, <1>2, <1>4, <1>5, <1>6, <1>7, EgressFrame

\* A packet leaves a socket for a destination that is allowed where the hooks see it.
LEMMA EmitEgress ==
  ASSUME EgressInv, NEW addr, NEW port, Emit(addr, port), socket.transport # "none",
         socket.transport \in Observed => Allowed(socket.transport, addr, port)
  PROVE  EgressInv'
  <1>1. /\ packet' = [transport |-> socket.transport, addr |-> addr, port |-> port]
        /\ UNCHANGED <<nvars, deny_raw>> /\ socket' = socket
    BY DEF Emit
  <1>2. compiled.status = "ok"
    BY SocketOfProfile
  <1>3. packet'.transport = socket.transport /\ packet'.addr = addr /\ packet'.port = port
    BY <1>1
  <1>4. /\ socket' \in Sockets
        /\ deny_raw => socket'.transport \in Left \cup {"none"}
        /\ socket'.transport = "none" => socket'.peer = << >>
        /\ socket'.transport \in Observed => socket'.peer = << >> \/ Passed(socket'.transport, socket'.peer)
    BY <1>1, Zenon DEF EgressInv
  <1>5. deny_raw => packet'.transport \in Left
    BY <1>1, <1>3, <1>4, Zenon
  <1>6. packet'.transport \in Observed => Allowed(packet'.transport, packet'.addr, packet'.port)
    BY <1>3
  <1> QED BY <1>1, <1>2, <1>4, <1>5, <1>6, EgressFrame, Zenon

\* send().
LEMMA SendEgress ==
  ASSUME EgressInv, Send
  PROVE  EgressInv'
  <1>1. socket.peer # << >> /\ Emit(socket.peer[1], socket.peer[2])
    BY DEF Send
  <1>2. socket.transport # "none"
    BY <1>1 DEF EgressInv
  <1>3. ASSUME socket.transport \in Observed
        PROVE  Allowed(socket.transport, socket.peer[1], socket.peer[2])
    <2>1. Passed(socket.transport, socket.peer)
      BY <1>1, <1>3 DEF EgressInv
    <2>2. PICK addr \in Addresses, port \in Ports : socket.peer = <<addr, port>> /\ Allowed(socket.transport, addr, port)
      BY <2>1 DEF Passed
    <2>3. socket.peer[1] = addr /\ socket.peer[2] = port
      BY <2>2
    <2> QED BY <2>2, <2>3
  <1> QED BY <1>1, <1>2, <1>3, EmitEgress

\* sendto().
LEMMA SendToEgress ==
  ASSUME EgressInv, NEW addr \in Addresses, NEW port \in Ports, SendTo(addr, port)
  PROVE  EgressInv'
  <1>1. /\ socket.transport \in SendsAnywhere
        /\ socket.transport \in SendHooked => SockAddrAllows(socket.transport, addr, port)
        /\ Emit(addr, port)
    BY DEF SendTo
  <1>2. socket.transport # "none"
    BY <1>1 DEF SendsAnywhere
  <1>3. socket.transport \in Observed => socket.transport \in SendHooked
    BY <1>1 DEF SendsAnywhere, SendHooked, Observed
  <1>4. socket.transport \in Observed => Allowed(socket.transport, addr, port)
    BY <1>1, <1>2, <1>3, SocketOfProfile, HookAllows
  <1> QED BY <1>1, <1>2, <1>4, EmitEgress

\* A packet is gone, or the socket is closed.
LEMMA EndEgress ==
  ASSUME EgressInv, Delivered \/ CloseSocket
  PROVE  EgressInv'
  <1>1. CASE Delivered
    <2>1. packet' = NoPacket /\ UNCHANGED <<nvars, deny_raw>> /\ socket' = socket
      BY <1>1 DEF Delivered
    <2>2. /\ socket' \in Sockets
          /\ compiled.status # "ok" => socket' = NoSocket
          /\ deny_raw => socket'.transport \in Left \cup {"none"}
          /\ socket'.transport = "none" => socket'.peer = << >>
          /\ socket'.transport \in Observed => socket'.peer = << >> \/ Passed(socket'.transport, socket'.peer)
      BY <2>1 DEF EgressInv
    <2> QED BY <2>1, <2>2, EgressFrame
  <1>2. CASE CloseSocket
    <2>1. socket' = NoSocket /\ packet = NoPacket /\ packet' = packet /\ UNCHANGED <<nvars, deny_raw>>
      BY <1>2 DEF CloseSocket
    <2>2. socket' \in Sockets /\ socket'.transport = "none" /\ socket'.peer = << >>
      BY <2>1 DEF NoSocket, Sockets, Transports
    <2>3. packet' = NoPacket /\ "none" \notin Observed
      BY <2>1 DEF Observed
    <2> QED BY <2>1, <2>2, <2>3, EgressFrame
  <1> QED BY <1>1, <1>2
-----------------------------------------------------------------------------
\* The invariant of the policy, its sockets and its packets holds in every state.
THEOREM EgressInOrder == ESpec => []EgressInv
  <1>1. EInit => EgressInv
    <2> SUFFICES ASSUME EInit PROVE EgressInv
      OBVIOUS
    <2>1. NetInv /\ socket = NoSocket /\ packet = NoPacket
      BY NetInit DEF EInit
    <2>2. NoSocket \in Sockets
      BY DEF NoSocket, Sockets, Transports
    <2> QED BY <2>1, <2>2 DEF EgressInv, NoSocket, Observed, Left
  <1>2. EgressInv /\ [ENext]_evars => EgressInv'
    <2> SUFFICES ASSUME EgressInv, [ENext]_evars PROVE EgressInv'
      OBVIOUS
    <2>1. CASE Policy
      BY <2>1, PolicyEgress
    <2>2. CASE \E family \in Families, type \in Types, protocol \in Protocols :
                 SocketCreate(family, type, protocol)
      BY <2>2, CreateEgress
    <2>3. CASE TunOpen
      BY <2>3, TunEgress
    <2>4. CASE \E addr \in Destinations(socket.family), port \in Ports :
                 Connect(addr, port) \/ SendTo(addr, port)
      <3>1. Destinations(socket.family) \subseteq Addresses
        BY DEF Destinations
      <3> QED BY <2>4, <3>1, ConnectEgress, SendToEgress
    <2>5. CASE Send
      BY <2>5, SendEgress
    <2>6. CASE Delivered \/ CloseSocket
      BY <2>6, EndEgress
    <2>7. CASE UNCHANGED evars
      <3>1. UNCHANGED <<nvars, deny_raw>> /\ socket' = socket /\ packet' = packet
        BY <2>7 DEF evars
      <3>2. /\ socket' \in Sockets
            /\ compiled.status # "ok" => socket' = NoSocket /\ packet' = NoPacket
            /\ deny_raw => socket'.transport \in Left \cup {"none"}
            /\ socket'.transport = "none" => socket'.peer = << >>
            /\ socket'.transport \in Observed => socket'.peer = << >> \/ Passed(socket'.transport, socket'.peer)
            /\ packet' # NoPacket /\ deny_raw => packet'.transport \in Left
            /\ packet' # NoPacket /\ packet'.transport \in Observed => Allowed(packet'.transport, packet'.addr, packet'.port)
        BY <3>1 DEF EgressInv
      <3> QED BY <3>1, <3>2, EgressFrame
    <2> QED BY <2>1, <2>2, <2>3, <2>4, <2>5, <2>6, <2>7 DEF ENext
  <1> QED BY <1>1, <1>2, PTL DEF ESpec

\* For every set of prefixes, ports, protocols and every number of rules, the kernel decides
\* as the reference semantics does (Compiled::lookup, rk_net_verdict against evaluate).
THEOREM KernelDecidesAsWritten == ESpec => []LookupAgrees
  <1>1. EgressInv => LookupAgrees
    BY NetLookup DEF EgressInv
  <1> QED BY <1>1, EgressInOrder, PTL

\* An IPv4 deny rule holds for the translated addresses too (push with nat64_equivalence).
THEOREM TranslatedDenied == ESpec => []DenyReachesNat64
  <1>1. EgressInv => DenyReachesNat64
    BY NetTranslates DEF EgressInv
  <1> QED BY <1>1, EgressInOrder, PTL

\* Every packet goes where the rules allow, past the hooks of net.bpf.c.
THEOREM EgressAllowed == ESpec => []EgressFollowsPolicy
  <1>1. EgressInv => EgressFollowsPolicy
    BY DEF EgressInv, EgressFollowsPolicy, Allowed, Observed, Left
  <1> QED BY <1>1, EgressInOrder, PTL
=============================================================================
