---------------------------- MODULE MCAutomations ----------------------------
(* A small instance of Automations for TLC. *)
EXTENDS Automations, TLC

CONSTANT k1

MCTasks == {k1}

Calendar(ts) == [kind |-> "calendar", times |-> ts, every |-> 1]
Every(n) == [kind |-> "interval", times |-> {}, every |-> n]

MCSchedules == {Calendar({2, 4}), Every(3)}
=============================================================================
