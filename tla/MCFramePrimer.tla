---------------------------- MODULE MCFramePrimer ----------------------------
(* Two cameras, the primer and one dashboard request at a time; the cache  *)
(* holds both cameras.                                                     *)
EXTENDS FramePrimer
=============================================================================
