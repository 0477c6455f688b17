------------------------- MODULE MCSessionRegistry -------------------------
(* Small instances of SessionRegistry for TLC. *)
EXTENDS SessionRegistry, TLC

CONSTANTS m1, m2, t1, p1, p2, p3, c1, c2

MCMains == {m1, m2}
MCOneMain == {m1}
MCWorktrees == {t1}
MCNoWorktrees == {}
MCNone == {}
MCParentOf == t1 :> m1
MCNoParents == <<>>
MCProcs == {p1, p2, p3}
MCTwoProcs == {p1, p2}
MCClients == {c1, c2}

AppOps == AllOps \ {"list"}
ConnectOps == {"connect", "add", "addWorktree"}
LiveOps == {"connect", "add", "setArgs", "list"}
DaemonOps == {"connect", "remove", "list"}

Symmetry == Permutations(MCProcs) \cup Permutations(MCClients)
TwoProcSymmetry == Permutations(MCTwoProcs) \cup Permutations(MCClients)
=============================================================================
