--------------------------- MODULE MCSessionGate ---------------------------
(* Two pids and three process starts: a holder, a waiter that is passed or  *)
(* not, and a pid that is used again while its old ticket is still there.  *)
EXTENDS SessionGate
=============================================================================
