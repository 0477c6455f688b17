---------------------------- MODULE MCQueuedSend ----------------------------
(***************************************************************************)
(* Instance of QueuedSend: three plain messages, a review and a command.   *)
(***************************************************************************)
EXTENDS QueuedSend, TLC

CONSTANTS m1, m2, m3, review, command

MCMessages == {m1, m2, m3, review, command}
MCReviews == {review}
MCCommands == {command}

\* The plain messages are alike.
MessageSymmetry == Permutations({m1, m2, m3})
=============================================================================
