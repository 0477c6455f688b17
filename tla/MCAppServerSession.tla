------------------------- MODULE MCAppServerSession -------------------------
(* Small instances of AppServerSession for TLC. *)
EXTENDS AppServerSession, TLC

CONSTANTS a, b, t1, t2, m1

MCNone == {}
MCWorkspaces == {a, b}
MCSolo == {a}
MCShared == {b}
MCOneThread == {t1}
MCThreads == {t1, m1}
MCMemory == {m1}

\* b's root lies inside a's; m1 runs in it, t1 runs elsewhere.
MCDepth ==
    [t \in Threads |-> [w \in Workspaces |->
        IF t = t1 THEN 0 ELSE IF w = b THEN 2 ELSE 1]]

TableMethods == AllMethods
TableEvents == {"started", "item", "delta", "account"}
DrainMethods == {"start", "plain"}
=============================================================================
