------------------------- MODULE MCAccountSwitching -------------------------
(***************************************************************************)
(* Instance of AccountSwitching: two workspaces.                           *)
(***************************************************************************)
EXTENDS AccountSwitching

CONSTANTS w1, w2

MCWorkspaces == {w1, w2}
=============================================================================
