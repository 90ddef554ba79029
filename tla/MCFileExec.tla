----------------------------- MODULE MCFileExec -----------------------------
(***************************************************************************)
(* Two small file trees.  In both /a is a directory P and /b a directory B *)
(* with the executable X.  In Shallow P holds the script F, whose          *)
(* interpreter is X; in Deep F lies three directories further down, which  *)
(* is beyond MAX_DEPTH.  The file N is unused.                             *)
(***************************************************************************)
EXTENDS FileExec

CONSTANTS P, Q, R, S, B, F, X, N

MCDirs  == {Root, P, Q, R, S, B}
MCFiles == {F, X, N}
MCNames == {"a", "b"}

TreeOf(deep) ==
  [dn \in MCDirs \X MCNames |->
     CASE dn = <<Root, "a">>       -> P
       [] dn = <<Root, "b">>       -> B
       [] dn = <<B, "a">>          -> X
       [] dn = <<P, "a">>          -> IF deep THEN Q ELSE F
       [] deep /\ dn = <<Q, "a">> -> R
       [] deep /\ dn = <<R, "a">> -> S
       [] deep /\ dn = <<S, "a">> -> F
       [] OTHER                    -> None]

MCInterp == [i \in MCFiles |-> IF i = F THEN X ELSE None]

FileRule(path, subtree, optional, mask) ==
  [path |-> path, subtree |-> subtree, optional |-> optional, mask |-> mask]

Text(mode, files, allow, deny, protect, unlinked) ==
  [mode |-> mode, files |-> files, allow |-> allow, deny |-> deny,
   protect |-> protect, unlinked |-> unlinked]

MCTexts ==
  { \* the directory /a frozen, /b/a allowed and protected, with a rule of its own
    Text("enforce", <<FileRule(<<"a">>, TRUE, FALSE, AllRights),
                      FileRule(<<"b", "a">>, FALSE, TRUE, {"read"})>>,
         <<[path |-> <<"b", "a">>, dir |-> FALSE]>>, TRUE, TRUE, FALSE),
    \* only observed
    Text("audit", <<FileRule(<<"a">>, TRUE, FALSE, AllRights)>>,
         <<>>, TRUE, TRUE, FALSE),
    \* every file of /b allowed, unlinked ones too
    Text("enforce", <<>>, <<[path |-> <<"b", "a">>, dir |-> FALSE], [path |-> <<"b">>, dir |-> TRUE]>>,
         TRUE, TRUE, TRUE) }

Start(deep, ops, execs, binds) ==
  [tree |-> TreeOf(deep), left |-> [ops |-> ops, execs |-> execs, binds |-> binds]]

MCStarts == {Start(FALSE, 3, 0, 0), Start(TRUE, 2, 0, 0),
             Start(FALSE, 2, 1, 0), Start(FALSE, 1, 2, 1), Start(FALSE, 0, 2, 2)}
=============================================================================
