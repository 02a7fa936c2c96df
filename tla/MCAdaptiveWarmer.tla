-------------------------- MODULE MCAdaptiveWarmer --------------------------
(* Two streams, and the shipped API_TIMEOUT, RESTART_DELAY and poll in     *)
(* units of 0.2 s: the answer may take longer than RESTART_DELAY.          *)
EXTENDS AdaptiveWarmer
=============================================================================
