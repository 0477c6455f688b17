--------------------------- MODULE MCRemoteBackend ---------------------------
(* A small instance of RemoteBackend for TLC. *)
EXTENDS RemoteBackend

CONSTANTS c1, c2, u1, h1, h2

MCCalls == {c1, c2}
MCRetryable == {c1}
MCUpdates == {u1}
MCHosts == {h1, h2}
MCTokenless == {h2}
MCTrusted == {h1}
MCOpen == {h2}
=============================================================================
