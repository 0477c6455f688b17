-------------------------- MODULE MCWorkspaceStore --------------------------
(***************************************************************************)
(* Instance of WorkspaceStore: one worktree known at first, one to be      *)
(* added, three names for the two.                                         *)
(***************************************************************************)
EXTENDS WorkspaceStore, TLC

CONSTANTS main, t1, t2, n1, n2, n3, s1, s2, c1, c2

MCWorktrees == {t1, t2}
MCFirstName == t1 :> n1
MCNames == {n1, n2, n3}
MCScripts == {s1, s2}
MCClients == {c1, c2}
Symmetry == Permutations({c1, c2}) \cup Permutations({n2, n3})
=============================================================================
