---------------------------- MODULE MCAddonLife ----------------------------
(* One account that owns the NVR, one that shares it. *)
EXTENDS AddonLife
=============================================================================
