---------------------------- MODULE RequestTable ----------------------------
(***************************************************************************)
(* What send_request_for_workspace promises its callers: a request ends    *)
(* once, either with the server's answer to that very request or with an   *)
(* error, whatever the server does and in whatever order it answers.       *)
(***************************************************************************)
CONSTANT Requests
VARIABLES state,   \* how far each request is
          served   \* requests the server has answered

Init == state = [r \in Requests |-> "idle"] /\ served = {}

Ask(r) ==
    /\ state[r] = "idle"
    /\ state' = [state EXCEPT ![r] = "open"]
    /\ UNCHANGED served

\* The server answers only what was asked, and once; the asker may have given
\* up by then.
Serve(r) ==
    /\ state[r] # "idle"
    /\ r \notin served
    /\ served' = served \cup {r}
    /\ UNCHANGED state

Return(r) ==
    /\ state[r] = "open"
    /\ r \in served
    /\ state' = [state EXCEPT ![r] = "answered"]
    /\ UNCHANGED served

\* Losing the connection makes any number of open requests fail at once.
GiveUp(R) ==
    /\ \A r \in R : state[r] = "open"
    /\ state' = [r \in Requests |-> IF r \in R THEN "gaveUp" ELSE state[r]]
    /\ UNCHANGED served

Next ==
    \/ \E r \in Requests : Ask(r) \/ Serve(r) \/ Return(r)
    \/ \E R \in SUBSET Requests : GiveUp(R)

Spec == Init /\ [][Next]_<<state, served>>
=============================================================================
