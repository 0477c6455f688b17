---------------------------- MODULE MCRemoteLive ----------------------------
(***************************************************************************)
(* Instance of RemoteLive: two threads of a workspace.                     *)
(***************************************************************************)
EXTENDS RemoteLive

CONSTANTS t1, t2

MCThreads == {t1, t2}
=============================================================================
