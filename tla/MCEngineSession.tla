--------------------------- MODULE MCEngineSession ---------------------------
(* One candidate of the NVR, before or after its offer; both modes.         *)
EXTENDS EngineSession
=============================================================================
