------------------------- MODULE MCBackgroundPrompt -------------------------
(* Small instances of BackgroundPrompt for TLC. *)
EXTENDS BackgroundPrompt, TLC

CONSTANTS a, t1, t2, b1, b2

MCNone == {}
MCWorkspaces == {a}
MCOneThread == {t1}
MCThreads == {t1, t2}
MCOnePrompt == {b1}
MCTwoPrompts == {b1, b2}
MCDepth == [t \in Threads |-> [w \in Workspaces |-> 1]]
MCPlain == {"start"}
TurnEvents == {"delta", "completed", "failed", "background"}
=============================================================================
