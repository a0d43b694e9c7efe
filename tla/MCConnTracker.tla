--------------------------- MODULE MCConnTracker ---------------------------
(* ConnTracker for TLC: the socket addresses are interchangeable. *)
EXTENDS ConnTracker, TLC

SockSymmetry == Permutations(Sock)
=============================================================================
