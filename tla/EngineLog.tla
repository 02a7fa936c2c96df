----------------------------- MODULE EngineLog ------------------------------
(***************************************************************************)
(* The two lines of the engine's log by which its supervisor tells how far *)
(* the signalling got: "NVR SDP offer received" and "DC open:              *)
(* WebrtcDataChannel" (eufy_run.py inspect_log_line).  A process begins    *)
(* with an empty log, and the channel does not open before an offer.       *)
(*                                                                         *)
(* Supervisor takes this order for granted of the engines it starts        *)
(* (CanPrint); EngineSession, the engine itself, keeps it.                 *)
(***************************************************************************)
VARIABLES
    alive,  \* the engine's process runs
    said    \* which of the two it has printed

vars == <<alive, said>>

Init == alive \in BOOLEAN /\ said = {}

Begins ==
    /\ ~alive
    /\ alive' = TRUE /\ said' = {}

OfferReceived ==
    /\ alive
    /\ said' = said \cup {"sdp"}
    /\ UNCHANGED alive

ChannelOpen ==
    /\ alive /\ "sdp" \in said
    /\ said' = said \cup {"dc"}
    /\ UNCHANGED alive

Ends ==
    /\ alive
    /\ alive' = FALSE
    /\ UNCHANGED said

Next == Begins \/ OfferReceived \/ ChannelOpen \/ Ends

Spec == Init /\ [][Next]_vars

(* The supervisor's limits follow each other: ConnectionTimeout is about an *)
(* engine with an offer, FirstFrameTimeout about one with a channel         *)
(* (eufy_run.py 326-345).                                                   *)
Ordered == "dc" \in said => "sdp" \in said
=============================================================================
