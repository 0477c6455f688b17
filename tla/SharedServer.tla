----------------------------- MODULE SharedServer -----------------------------
(***************************************************************************)
(* What the session registry promises, without locks, tasks or crashes:    *)
(* there is at most one app-server, the workspaces that are attached to it *)
(* are attached to it together, a new server comes up only when nobody is  *)
(* attached, and changing its arguments moves everybody at once.           *)
(***************************************************************************)
CONSTANTS Workspaces, Procs, NoProc

VARIABLES server, attached

Init == server = NoProc /\ attached = {}

\* w joins the server that is there, or comes with a server of its own.
Attach(w, p) ==
    /\ attached = {} \/ server = p
    /\ server' = p
    /\ attached' = attached \cup {w}

\* Every attached workspace moves to server p.
Swap(p) ==
    /\ attached # {}
    /\ server' = p
    /\ UNCHANGED attached

\* Some workspaces leave; the last one leaves no server behind.
Detach(S) ==
    /\ attached' = attached \ S
    /\ server' = IF attached' = {} THEN NoProc ELSE server

Next ==
    \/ \E w \in Workspaces, p \in Procs : Attach(w, p)
    \/ \E p \in Procs : Swap(p)
    \/ \E S \in SUBSET Workspaces : Detach(S)

Spec == Init /\ [][Next]_<<server, attached>>
=============================================================================
