---------------------------- MODULE MCNvrSession ----------------------------
(* Two producers.  MCNvrSession.cfg: small waits, and a killtimeout equal  *)
(* to their sum.  MCNvrSessionKilled.cfg: the waits and the killtimeout of *)
(* the code, in half seconds.                                              *)
EXTENDS NvrSession
=============================================================================
