------------------------------ MODULE FileExec ------------------------------
(***************************************************************************)
(* The exec and file hooks of rk-bpf (exec.bpf.c, file.bpf.c) deciding for *)
(* one bound process tree, with the resolution of paths to identities by   *)
(* the sensor at an apply (rk-sensor/src/policy.rs).                       *)
(*                                                                         *)
(* The file tree is a map from (directory, name) to inodes.  An apply      *)
(* resolves the paths of a policy to inodes (Resolve), and makes the       *)
(* result the live generation with one flip (Flip); the tree can change in *)
(* between.  A hook and the operation it guards are one step.  A file open *)
(* for writing stays open across flips.  One thread executes files: each   *)
(* stage of an exec is checked, the exec may fail after a check, and the   *)
(* committed exec is recorded, with flips, binds and the eviction of the   *)
(* kept decision in between.                                               *)
(*                                                                         *)
(* The operations are those of governed tasks.  An inode that a live or    *)
(* pending rule names is not reused for a new file.                        *)
(***************************************************************************)
EXTENDS Naturals, Sequences, FiniteSets, FiniteSetsExt, Functions

CONSTANTS Root, Dirs, Files, Names,
          None,           \* no inode, no entry, no decision
          Texts,          \* the policies an operator may apply
          Interp,         \* [Files -> Files \cup {None}]: a script's interpreter
          MAX_DEPTH,      \* RK_FILE_MAX_DEPTH
          MaxGen,         \* bound on applied generations
          Starts          \* first trees, each with bounds: [tree, left : [ops, execs, binds]]

ASSUME FileExecAssumptions ==
  /\ None \notin [gen : Nat, rule : Nat]
  /\ \A p \in Texts : DOMAIN p.allow \subseteq Nat /\ Len(p.files) \in Nat

VARIABLES tree,      \* [Dirs \X Names -> Inodes \cup {None}]
          live,      \* the active generation's rules
          pending,   \* a resolved policy not yet flipped to, or None
          bound,     \* "no", "yes", or "unwritten": bound to a profile without entry
          fds,       \* files a governed task has open for writing
          exec,      \* the exec in progress (history: what its last check decided)
          decided,   \* rk_exec_decided[tid], or None
          event,     \* the record of the last committed exec, or None
          tainted,   \* history: inodes whose content or attributes governed tasks changed since the flip
          before,    \* history: tree and fds at the flip; written: no operation under "unwritten" since
          left       \* the operations, execs and rebinds left, from Starts

vars == <<tree, live, pending, bound, fds, exec, decided, event, tainted, before, left>>

Inodes == Dirs \cup Files

PROTECT_EXEC_MASK == {"write", "truncate", "delete", "rename", "link", "setattr"}
AllRights == PROTECT_EXEC_MASK \cup {"read", "exec", "create"}

-----------------------------------------------------------------------------
(* The file system (the kernel's VFS) *)

\* The names of an inode.
NamesOf(t, i) == {dn \in Dirs \X Names : t[dn] = i}

\* A directory has at most one name.
OneName(t) == \A i \in Dirs : \A x, y \in NamesOf(t, i) : x = y

ASSUME TreeAssumptions ==
  /\ Cardinality(Dirs) \in Nat /\ Dirs \cap Files = {} /\ None \notin Inodes
  /\ MAX_DEPTH \in Nat
  /\ \A s \in Starts : s.tree \in [Dirs \X Names -> Inodes \cup {None}] /\ OneName(s.tree)

\* The directory above directory i; the root and a removed directory have none.
ParentDir(t, i) ==
  LET at == NamesOf(t, i) IN IF at = {} THEN None ELSE (CHOOSE dn \in at : TRUE)[1]

\* The directories above directory d, d first.
ChainOf(t, d) ==
  LET up[n \in 0..Cardinality(Dirs)] ==
        [i \in Dirs |-> IF n = 0 \/ ParentDir(t, i) = None THEN <<i>>
                        ELSE <<i>> \o up[n - 1][ParentDir(t, i)]]
  IN  up[Cardinality(Dirs)][d]

Attached(t, d) == LET chain == ChainOf(t, d) IN chain[Len(chain)] = Root

\* The directories at and below directory q.
Below(t, q) == {d \in Dirs : q \in Range(ChainOf(t, d))}

\* The inode a path names, or None.
Walk(t, path) ==
  LET at[k \in 0..Len(path)] ==
        IF k = 0 THEN Root
        ELSE IF at[k - 1] \in Dirs THEN t[<<at[k - 1], path[k]>>] ELSE None
  IN  at[Len(path)]

\* The inode a new file (S = Files) or directory (S = Dirs) gets, at most one:
\* which of the free ones it is makes no difference.
FreshIn(S) ==
  LET named(r) == DOMAIN r.files \cup DOMAIN r.exec
      free == {i \in S : /\ NamesOf(tree, i) = {} /\ i \notin {Root, exec.file} \cup fds
                         /\ i \notin named(live)
                         /\ pending # None => i \notin named(pending)}
  IN  IF free = {} THEN {} ELSE {CHOOSE i \in free : TRUE}

-----------------------------------------------------------------------------
(* Resolution of a policy's paths at an apply *)

\* resolve_exec_in: the executables one allow entry stands for.
ExecTargets(t, e) ==
  IF e.dir THEN {t[<<Walk(t, e.path), n>>] : n \in Names} \cap Files
  ELSE {Walk(t, e.path)}

\* An apply fails before the kernel changes on a path that does not resolve,
\* unless it is optional (a built-in list), and on an allowed path of the wrong kind.
Resolvable(t, p) ==
  /\ \A r \in Range(p.files) : r.optional \/ Walk(t, r.path) # None
  /\ \A e \in Range(p.allow) : Walk(t, e.path) \in (IF e.dir THEN Dirs ELSE Files)

\* The first allow entry wins for a file; rule ids follow those of the file rules.
resolve_exec(t, p) ==
  LET Entries(i) == {k \in DOMAIN p.allow : i \in ExecTargets(t, p.allow[k])}
  IN  [i \in {j \in Files : Entries(j) # {}} |-> Len(p.files) + Min(Entries(i))]

resolve_files_last_mask(t, p) ==
  LET Rules(i) == {k \in DOMAIN p.files : Walk(t, p.files[k].path) = i}
      Listed(i) == p.protect /\ i \in DOMAIN resolve_exec(t, p)
  IN  [i \in {j \in Inodes : Rules(j) # {} \/ Listed(j)} |->
         [mask    |-> IF Rules(i) # {} THEN p.files[Min(Rules(i))].mask ELSE PROTECT_EXEC_MASK,
          subtree |-> i \in Dirs /\ \E k \in Rules(i) : p.files[k].subtree,
          id      |-> IF Rules(i) # {} THEN Min(Rules(i)) ELSE resolve_exec(t, p)[i]]]

\* Rules on one object merge: masks are OR-ed, the first rule id is kept.  The
\* allow list is protected when the policy says so.
resolve_files(t, p) ==
  LET Rules(i) == {k \in DOMAIN p.files : Walk(t, p.files[k].path) = i}
      Listed(i) == p.protect /\ i \in DOMAIN resolve_exec(t, p)
  IN  [i \in {j \in Inodes : Rules(j) # {} \/ Listed(j)} |->
         [mask    |-> (UNION {p.files[k].mask : k \in Rules(i)})
                        \cup (IF Listed(i) THEN PROTECT_EXEC_MASK ELSE {}),
          subtree |-> i \in Dirs /\ \E k \in Rules(i) : p.files[k].subtree,
          id      |-> IF Rules(i) # {} THEN Min(Rules(i)) ELSE resolve_exec(t, p)[i]]]

Resolved(t, p, gen) ==
  [gen |-> gen, text |-> p, exec |-> resolve_exec(t, p), files |-> resolve_files(t, p)]

-----------------------------------------------------------------------------
(* The decision path *)

\* rk_governance of a bound task: the live profile, or the fail-closed context
\* of a binding whose profile was never written (no rule matches it).
Gov ==
  IF bound = "yes"
  THEN [gen |-> live.gen, mode |-> live.text.mode, deny |-> live.text.deny,
        unlinked |-> live.text.unlinked, exec |-> live.exec, files |-> live.files]
  ELSE [gen |-> 0, mode |-> "enforce", deny |-> TRUE, unlinked |-> FALSE,
        exec |-> <<>>, files |-> <<>>]

\* stale: the heartbeat is too old.  Only ENFORCE reads it.
rk_effective_deny(g, deny, stale) == deny \/ (stale /\ g.mode = "enforce")
rk_enforced_deny(g, deny, stale)  == rk_effective_deny(g, deny, stale) /\ g.mode = "enforce"

\* A walk that takes running out of levels for the root.
rk_file_check_open(g, i, above, access) ==
  LET walked == SubSeq(above, 1, Min({Len(above), MAX_DEPTH}))
      Denies(j) == j \in DOMAIN g.files /\ g.files[j].mask \cap access # {}
  IN  \/ Denies(i)
      \/ \E j \in Range(walked) : Denies(j) /\ g.files[j].subtree

\* rk_file_check: a rule on the object itself, then the subtree rules of up to
\* MAX_DEPTH directories above it; deny if the walk does not reach the root.
rk_file_check(g, i, above, access) ==
  LET walked == SubSeq(above, 1, Min({Len(above), MAX_DEPTH}))
      Denies(j) == j \in DOMAIN g.files /\ g.files[j].mask \cap access # {}
  IN  \/ Denies(i)
      \/ \E j \in Range(walked) : Denies(j) /\ g.files[j].subtree
      \/ Len(above) >= MAX_DEPTH

\* A denied operation is no step, and a stale heartbeat only denies more of them.
Denied(i, above, access) ==
  rk_enforced_deny(Gov, rk_file_check(Gov, i, above, access), FALSE)

\* The check of the object at name n of directory d.
DeniedAt(d, n, access) == Denied(tree[<<d, n>>], ChainOf(tree, d), access)

\* rk_dir_create_check: the directory that receives a name, and those above it.
DeniedIn(d) == Denied(d, Tail(ChainOf(tree, d)), {"create"})

-----------------------------------------------------------------------------
(* File operations of a governed task *)

Op ==
  /\ bound # "no" /\ left.ops > 0
  /\ left' = [left EXCEPT !.ops = @ - 1]
  /\ before' = [before EXCEPT !.written = @ /\ bound = "yes"]
  /\ UNCHANGED <<live, pending, bound, exec, decided, event>>

Reachable(d) == d \in Dirs /\ Attached(tree, d)

\* rk_file_open with write access (an open for reading changes nothing).  A file
\* being executed cannot be opened for writing.
Open(d, n, access) ==
  LET f == tree[<<d, n>>]
  IN  /\ Op /\ Reachable(d) /\ f \in Files
      /\ f # exec.file
      /\ ~DeniedAt(d, n, access)
      /\ fds' = fds \cup {f}
      /\ tainted' = IF "truncate" \in access THEN tainted \cup {f} ELSE tainted
      /\ UNCHANGED tree

\* write(2) on an open descriptor: no hook sees it.
WriteFd(f) ==
  /\ Op
  /\ f \in fds
  /\ tainted' = tainted \cup {f}
  /\ UNCHANGED <<tree, fds>>

Close(f) ==
  /\ f \in fds
  /\ fds' = fds \ {f}
  /\ UNCHANGED <<tree, live, pending, bound, exec, decided, event, tainted, before, left>>

\* rk_setattr_check: a size change needs truncate, any other attribute setattr.
Setattr(d, n, access) ==
  LET i == tree[<<d, n>>]
  IN  /\ Op /\ Reachable(d) /\ i # None
      /\ "truncate" \in access => i \in Files /\ i # exec.file
      /\ ~DeniedAt(d, n, access)
      /\ tainted' = tainted \cup {i}
      /\ UNCHANGED <<tree, fds>>

\* rk_file_unlink and rk_file_rmdir.
Unlink(d, n) ==
  LET i == tree[<<d, n>>]
  IN  /\ Op /\ Reachable(d) /\ i # None
      /\ i \in Dirs => \A m \in Names : tree[<<i, m>>] = None
      /\ ~DeniedAt(d, n, {"delete"})
      /\ tree' = [tree EXCEPT ![<<d, n>>] = None]
      /\ UNCHANGED <<fds, tainted>>

\* rk_file_create, rk_file_mkdir, rk_file_symlink and rk_file_mknod: a new file
\* holds what the governed task puts in it.
Create(d, n, i) ==
  /\ Op /\ Reachable(d) /\ tree[<<d, n>>] = None
  /\ i \in FreshIn(Files) \cup FreshIn(Dirs)
  /\ ~DeniedIn(d)
  /\ tree' = [tree EXCEPT ![<<d, n>>] = i]
  /\ tainted' = IF i \in Files THEN tainted \cup {i} ELSE tainted
  /\ UNCHANGED fds

\* rk_file_rename: the moved object, the object it replaces, the directory that
\* receives the name, in that order.
RenameDenied(d, n, e, m) ==
  \/ DeniedAt(d, n, {"rename"})
  \/ tree[<<e, m>>] # None /\ DeniedAt(e, m, {"delete", "rename"})
  \/ DeniedIn(e)

Rename(d, n, e, m) ==
  LET i == tree[<<d, n>>]
      j == tree[<<e, m>>]
  IN  /\ Op /\ Reachable(d) /\ Reachable(e)
      /\ i # None /\ i # j
      /\ i \in Dirs => i \notin Range(ChainOf(tree, e))
      /\ j # None => /\ (i \in Dirs) = (j \in Dirs)
                     /\ j \in Dirs => \A k \in Names : tree[<<j, k>>] = None
      /\ ~RenameDenied(d, n, e, m)
      /\ tree' = [tree EXCEPT ![<<d, n>>] = None, ![<<e, m>>] = i]
      /\ UNCHANGED <<fds, tainted>>

\* RENAME_EXCHANGE: the hook runs for both directions.
Exchange(d, n, e, m) ==
  LET i == tree[<<d, n>>]
      j == tree[<<e, m>>]
  IN  /\ Op /\ Reachable(d) /\ Reachable(e)
      /\ i # None /\ j # None /\ i # j
      /\ i \notin Range(ChainOf(tree, e)) /\ j \notin Range(ChainOf(tree, d))
      /\ ~RenameDenied(d, n, e, m) /\ ~RenameDenied(e, m, d, n)
      /\ tree' = [tree EXCEPT ![<<d, n>>] = j, ![<<e, m>>] = i]
      /\ UNCHANGED <<fds, tainted>>

\* rk_file_link
Link(d, n, e, m) ==
  /\ Op /\ Reachable(d) /\ Reachable(e)
  /\ tree[<<d, n>>] \in Files /\ tree[<<e, m>>] = None
  /\ ~DeniedAt(d, n, {"link"})
  /\ ~DeniedIn(e)
  /\ tree' = [tree EXCEPT ![<<e, m>>] = tree[<<d, n>>]]
  /\ UNCHANGED <<fds, tainted>>

-----------------------------------------------------------------------------
(* An exec: rk_exec_check at every stage, then rk_exec_record *)

Idle == [pc |-> "idle", file |-> None, gov |-> FALSE, gen |-> 0, rule |-> 0,
         deny |-> FALSE, kept |-> FALSE, linked |-> FALSE]

\* execve of a file by name, or by descriptor when it has no name left.  A file
\* open for writing cannot be executed.
ExecStart(f) ==
  /\ exec.pc \in {"idle", "done"}
  /\ f \notin fds
  /\ left.execs > 0 /\ left' = [left EXCEPT !.execs = @ - 1]
  /\ exec' = [Idle EXCEPT !.pc = "check", !.file = f]
  /\ event' = None
  /\ UNCHANGED <<tree, live, pending, bound, fds, decided, tainted, before>>

\* rk_exec_check on the file of this stage.  Every stage overwrites the kept
\* decision, whatever it is.
ExecDeny(g, f) ==
  IF NamesOf(tree, f) = {} /\ ~g.unlinked THEN TRUE
  ELSE f \notin DOMAIN g.exec /\ g.deny

ExecRule(g, f) ==
  IF f \in DOMAIN g.exec /\ (NamesOf(tree, f) # {} \/ g.unlinked) THEN g.exec[f] ELSE 0

ExecCheck(stale) ==
  /\ exec.pc = "check"
  /\ \/ /\ bound = "no"
        /\ exec' = [exec EXCEPT !.pc = "checked", !.gov = FALSE]
        /\ UNCHANGED decided
     \/ /\ bound # "no"
        /\ LET deny == ExecDeny(Gov, exec.file)
               rule == ExecRule(Gov, exec.file)
           IN  /\ decided' = [gen |-> Gov.gen, rule |-> rule]
               /\ exec' = IF rk_enforced_deny(Gov, deny, stale) THEN Idle
                          ELSE [exec EXCEPT !.pc = "checked", !.gov = TRUE, !.gen = Gov.gen,
                                            !.rule = rule, !.deny = deny, !.kept = TRUE,
                                            !.linked = NamesOf(tree, exec.file) # {}]
  /\ UNCHANGED <<tree, live, pending, bound, fds, event, tainted, before, left>>

\* The script's interpreter is the next stage.
ExecInterp ==
  /\ exec.pc = "checked"
  /\ Interp[exec.file] # None /\ Interp[exec.file] \notin fds
  /\ exec' = [Idle EXCEPT !.pc = "check", !.file = Interp[exec.file]]
  /\ UNCHANGED <<tree, live, pending, bound, fds, decided, event, tainted, before, left>>

\* The exec fails after a check (a later stage, memory): the decision stays.
ExecFail ==
  /\ exec.pc = "checked"
  /\ exec' = Idle
  /\ UNCHANGED <<tree, live, pending, bound, fds, decided, event, tainted, before, left>>

Recorded_again ==
  [gen |-> Gov.gen, rule |-> IF exec.file \in DOMAIN Gov.exec THEN Gov.exec[exec.file] ELSE 0]

\* rk_exec_record: the kept decision, or a lookup of its own without one.
Recorded ==
  IF decided # None THEN decided
  ELSE [gen  |-> Gov.gen,
        rule |-> IF exec.file \in DOMAIN Gov.exec THEN Gov.exec[exec.file] ELSE 0]

ExecRecord ==
  /\ exec.pc = "checked" /\ Interp[exec.file] = None
  /\ exec' = [exec EXCEPT !.pc = "done", !.file = None]
  /\ IF bound = "no" THEN UNCHANGED <<event, decided>>
     ELSE event' = Recorded /\ decided' = None
  /\ UNCHANGED <<tree, live, pending, bound, fds, tainted, before, left>>

\* rk_exec_decided is an LRU map.
Evict ==
  /\ decided # None
  /\ decided' = None
  /\ exec' = [exec EXCEPT !.kept = FALSE]
  /\ UNCHANGED <<tree, live, pending, bound, fds, event, tainted, before, left>>

-----------------------------------------------------------------------------
(* The sensor *)

\* apply: the paths are resolved first; an apply that cannot resolve changes nothing.
Resolve(p) ==
  /\ pending = None /\ live.gen < MaxGen
  /\ Resolvable(tree, p)
  /\ pending' = Resolved(tree, p, live.gen + 1)
  /\ UNCHANGED <<tree, live, bound, fds, exec, decided, event, tainted, before, left>>

\* The new generation becomes live (SlotApply models the two slots).
Flip ==
  /\ pending # None
  /\ live' = pending /\ pending' = None
  /\ tainted' = {}
  /\ before' = [tree |-> tree, fds |-> fds, written |-> TRUE]
  /\ UNCHANGED <<tree, bound, fds, exec, decided, event, left>>

SetBinding(b) ==
  /\ bound # b
  /\ left.binds > 0 /\ left' = [left EXCEPT !.binds = @ - 1]
  /\ bound' = b
  /\ UNCHANGED <<tree, live, pending, fds, exec, decided, event, tainted, before>>

-----------------------------------------------------------------------------
Init ==
  /\ \E s \in Starts : tree = s.tree /\ left = s.left
  /\ \E p \in Texts : Resolvable(tree, p) /\ live = Resolved(tree, p, 1)
  /\ pending = None
  /\ bound = "yes"
  /\ fds = {} /\ exec = Idle /\ decided = None /\ event = None
  /\ tainted = {} /\ before = [tree |-> tree, fds |-> {}, written |-> TRUE]

FileStep ==
  \E d \in Dirs, n \in Names :
    \/ \E access \in {{"write"}, {"read", "write"}, {"write", "truncate"}} : Open(d, n, access)
    \/ \E access \in {{"truncate"}, {"setattr"}, {"truncate", "setattr"}} : Setattr(d, n, access)
    \/ Unlink(d, n)
    \/ \E i \in Inodes : Create(d, n, i)
    \/ \E e \in Dirs, m \in Names : \/ Rename(d, n, e, m)
                                   \/ Exchange(d, n, e, m)
                                   \/ Link(d, n, e, m)

Next ==
  \/ FileStep
  \/ \E f \in Files : WriteFd(f) \/ Close(f) \/ ExecStart(f)
  \/ \E stale \in BOOLEAN : ExecCheck(stale)
  \/ ExecInterp \/ ExecFail \/ ExecRecord \/ Evict
  \/ \E p \in Texts : Resolve(p)
  \/ Flip
  \/ \E b \in {"no", "yes", "unwritten"} : SetBinding(b)

Spec == Init /\ [][Next]_vars

-----------------------------------------------------------------------------
(* Properties *)

Enforcing == live.text.mode = "enforce"

\* The directories a subtree rule of the live generation denies every right in.
Frozen ==
  {q \in DOMAIN live.files \cap Dirs :
     /\ Enforcing /\ before.written
     /\ live.files[q].subtree /\ live.files[q].mask = AllRights}

\* What lies beneath a directory with a subtree rule on every access
\* (file.bpf.c) stays as the flip found it, through any sequence of creations,
\* links, renames, exchanges and removals by governed tasks anywhere, as long
\* as their binding is to a written profile: the same names for the same
\* inodes, at any depth, and no file changed that had no name outside and was
\* not already open for writing.
SubtreeUnchanged ==
  \A q \in Frozen :
    LET inside == Below(before.tree, q)
    IN  \A d \in inside, n \in Names :
          LET i == before.tree[<<d, n>>]
          IN  /\ tree[<<d, n>>] = i
              /\ i \in tainted => \/ i \in before.fds
                                  \/ ~(NamesOf(before.tree, i) \subseteq inside \X Names)

\* A file that passes the exec check of a profile in ENFORCE with default deny
\* and a protected allow list (exec.bpf.c, net.rs PROTECT_EXEC_MASK) is listed, has
\* not been changed by a governed task since the generation went live, unless it was
\* open for writing at the flip, and had a name when it was checked, unless the
\* profile allows unlinked files: one that was removed or replaced between the
\* resolution of its path and the flip is still listed, and is not executed.
ExecutesListed ==
  (exec.pc = "checked" /\ exec.gov /\ exec.gen = live.gen /\ Enforcing
     /\ live.text.deny /\ live.text.protect /\ before.written)
    => /\ exec.file \in DOMAIN live.exec
       /\ exec.file \in tainted => exec.file \in before.fds
       /\ exec.linked \/ live.text.unlinked

\* The record of a committed exec carries the generation and rule that decided
\* its last stage, whatever applies and rebinds came between the check and the
\* record (exec.bpf.c, rk_exec_decided), unless the kept decision was evicted.
RecordIsDecision ==
  (exec.pc = "done" /\ event # None /\ exec.gov /\ exec.kept)
    => event = [gen |-> exec.gen, rule |-> exec.rule]

=============================================================================
