------------------------ MODULE EngineSessionProofs ------------------------
(***************************************************************************)
(* Safety of one session of the protocol engine, for any number of         *)
(* candidates: types, the exit status of a discovery, that a session whose *)
(* start is over and answered is retired before its connection goes, and   *)
(* that its log comes in the order its supervisor counts on.               *)
(***************************************************************************)
EXTENDS EngineSession, SequenceTheorems, TLAPS

(* Handing over a command, and passing one on. *)
LEMMA CmdsFacts ==
    ASSUME NEW S, NEW s \in Seq(S)
    PROVE  /\ \A c \in S : Append(s, c) \in Seq(S) /\ Len(Append(s, c)) = Len(s) + 1
           /\ s # <<>> => Tail(s) \in Seq(S) /\ Len(Tail(s)) = Len(s) - 1 /\ Head(s) \in S
           /\ Len(s) \in Nat
<1>1. \A c \in S : Append(s, c) \in Seq(S) /\ Len(Append(s, c)) = Len(s) + 1
  BY AppendProperties
<1>2. s # <<>> => Tail(s) \in Seq(S) /\ Len(Tail(s)) = Len(s) - 1 /\ Head(s) \in S
  BY HeadTailProperties
<1>3. Len(s) \in Nat
  BY LenProperties
<1> QED BY <1>1, <1>2, <1>3
-----------------------------------------------------------------------------
(* main's own state keeps its types. *)
LEMMA MainStep ==
    ASSUME MainOK, [Next]_vars
    PROVE  MainOK'
<1> USE DEF MainOK, MainStates, signal, peer, start, far, notes
<1>1. CASE Boot \/ BootFails \/ Killed \/ Reap
  BY <1>1 DEF Boot, BootFails, Killed, Reap
<1>2. CASE LoopEnds \/ Interrupt
  BY <1>2 DEF LoopEnds, Interrupt, ShutDown, CloseLive
<1>3. CASE Acknowledged \/ AckTimesOut \/ WsClosed \/ PcClose
  BY <1>3 DEF Acknowledged, AckTimesOut, WsClosed, PcClose
<1>4. CASE JoinAck \/ CallAccepted \/ Offer \/ BadOffer \/ Candidate
  BY <1>4 DEF JoinAck, CallAccepted, Offer, BadOffer, Candidate
<1>5. CASE Answer \/ AddPending \/ ConnUp \/ ConnLost \/ OnConnected \/ OnOpen
  BY <1>5 DEF Answer, AddPending, ConnUp, ConnLost, OnConnected, OnOpen
<1>6. CASE StartSequence \/ OracleTx
  BY <1>6 DEF StartSequence, OracleTx
<1>7. CASE OnControlStatus
  BY <1>7 DEF OnControlStatus
<1>8. CASE OnDevList \/ OnFrame \/ OracleDies
  BY <1>8 DEF OnDevList, OnFrame, OracleDies
<1>9. CASE FfmpegDies \/ ServerCloses \/ FfmpegWatchdog \/ DiscoverWatchdog
  BY <1>9 DEF FfmpegDies, ServerCloses, FfmpegWatchdog, DiscoverWatchdog
<1>10. CASE UNCHANGED vars
  BY <1>10 DEF vars
<1> QED
  BY <1>1, <1>2, <1>3, <1>4, <1>5, <1>6, <1>7, <1>8, <1>9, <1>10 DEF Next, Main, Environment

(* Candidates are counted once: an early one moves from pending to known. *)
CountOK == pending + known <= MaxCand

(* Two counts within a bound are each within it. *)
LEMMA Within ==
    ASSUME NEW a \in Nat, NEW b \in Nat, NEW m \in Nat, a + b <= m
    PROVE  a \in 0 .. m /\ b \in 0 .. m
OBVIOUS

(* The signalling keeps its types. *)
LEMMA SignalStep ==
    ASSUME SignalOK, CountOK, [Next]_vars
    PROVE  SignalOK' /\ CountOK'
<1> USE DEF SignalOK, CountOK
<1>0. MaxCand \in Nat /\ pending \in Nat /\ known \in Nat
  BY CandOK
<1>1. CASE Boot \/ BootFails \/ LoopEnds \/ Acknowledged \/ AckTimesOut
  BY <1>1 DEF Boot, BootFails, LoopEnds, Acknowledged, AckTimesOut, signal
<1>2. CASE WsClosed \/ PcClose \/ Reap \/ Interrupt \/ Killed
  BY <1>2 DEF WsClosed, PcClose, Reap, Interrupt, Killed, signal
<1>3. CASE JoinAck \/ CallAccepted \/ Offer \/ BadOffer \/ Answer
  BY <1>3 DEF JoinAck, CallAccepted, Offer, BadOffer, Answer
<1>4. CASE Candidate
  <2>1. /\ pending' \in Nat /\ known' \in Nat /\ pending' + known' <= MaxCand
        /\ UNCHANGED <<hs, sent, ws>>
    BY <1>0, <1>4 DEF Candidate
  <2>2. pending' \in 0 .. MaxCand /\ known' \in 0 .. MaxCand
    BY <1>0, <2>1, Within
  <2> QED BY <2>1, <2>2
<1>5. CASE AddPending
  <2>1. /\ pending' = 0 /\ known' = known + pending
        /\ hs' = "idle" /\ UNCHANGED <<sent, ws>>
    BY <1>5 DEF AddPending
  <2> QED BY <1>0, <2>1
<1>6. CASE ConnUp \/ ConnLost \/ OnConnected \/ OnOpen \/ StartSequence \/ OracleTx
  BY <1>6 DEF ConnUp, ConnLost, OnConnected, OnOpen, StartSequence, OracleTx, signal
<1>7. CASE OnControlStatus \/ OnDevList \/ OnFrame \/ OracleDies \/ FfmpegDies
  BY <1>7 DEF OnControlStatus, OnDevList, OnFrame, OracleDies, FfmpegDies, signal
<1>8. CASE ServerCloses \/ FfmpegWatchdog \/ DiscoverWatchdog \/ UNCHANGED vars
  BY <1>8 DEF ServerCloses, FfmpegWatchdog, DiscoverWatchdog, vars, signal
<1> QED
  BY <1>1, <1>2, <1>3, <1>4, <1>5, <1>6, <1>7, <1>8 DEF Next, Main, Environment

(* The peer connection, the oracle's reader and the NVR keep their types. *)
LEMMA PeerStep ==
    ASSUME PeerOK, [Next]_vars
    PROVE  PeerOK'
<1> USE DEF PeerOK, peer, far
<1>1. CASE Boot \/ BootFails \/ Killed \/ Reap \/ LoopEnds \/ Interrupt
  BY <1>1 DEF Boot, BootFails, Killed, Reap, LoopEnds, Interrupt
<1>2. CASE Acknowledged \/ AckTimesOut \/ WsClosed \/ PcClose
  BY <1>2 DEF Acknowledged, AckTimesOut, WsClosed, PcClose
<1>3. CASE JoinAck \/ CallAccepted \/ Offer \/ BadOffer \/ Candidate \/ Answer \/ AddPending
  BY <1>3 DEF JoinAck, CallAccepted, Offer, BadOffer, Candidate, Answer, AddPending
<1>4. CASE ConnUp \/ ConnLost \/ OnConnected \/ OnOpen
  BY <1>4 DEF ConnUp, ConnLost, OnConnected, OnOpen
<1>5. CASE StartSequence \/ OracleTx
  BY <1>5 DEF StartSequence, OracleTx
<1>6. CASE OnControlStatus \/ OnDevList \/ OnFrame \/ OracleDies
  BY <1>6 DEF OnControlStatus, OnDevList, OnFrame, OracleDies
<1>7. CASE FfmpegDies \/ ServerCloses \/ FfmpegWatchdog \/ DiscoverWatchdog \/ UNCHANGED vars
  BY <1>7 DEF FfmpegDies, ServerCloses, FfmpegWatchdog, DiscoverWatchdog, vars
<1> QED
  BY <1>1, <1>2, <1>3, <1>4, <1>5, <1>6, <1>7 DEF Next, Main, Environment
-----------------------------------------------------------------------------
(* Commands in the oracle: the start sequence hands over two at most, and  *)
(* the shutdown one.                                                       *)
MaxCmds == (IF seq \in {"none", "begun"} THEN 0 ELSE IF seq = "sleep" THEN 1 ELSE 2)
             + (IF main \in {"boot", "loop"} THEN 0 ELSE 1)

CmdsOK ==
    /\ main \in MainStates /\ seq \in {"none", "begun", "sleep", "sent"}
    /\ cmds \in Seq(Command) /\ Len(cmds) <= MaxCmds

(* No command is handed over twice, whichever event starts the sequence    *)
(* and whatever ends the loop.                                             *)
LEMMA CmdsStep ==
    ASSUME CmdsOK, [Next]_vars
    PROVE  CmdsOK'
<1> USE DEF CmdsOK, MaxCmds, MainStates
<1>0. /\ Len(cmds) \in Nat
      /\ \A c \in Command : Append(cmds, c) \in Seq(Command) /\ Len(Append(cmds, c)) = Len(cmds) + 1
      /\ cmds # <<>> => Tail(cmds) \in Seq(Command) /\ Len(Tail(cmds)) = Len(cmds) - 1
  BY CmdsFacts
<1>1. CASE Boot \/ BootFails \/ Killed \/ Reap
  BY <1>0, <1>1 DEF Boot, BootFails, Killed, Reap, Alive, start
<1>2. CASE LoopEnds \/ Interrupt
  <2>1. "close" \in Command
    BY DEF Command
  <2> QED BY <1>0, <1>2, <2>1 DEF LoopEnds, Interrupt, ShutDown, CloseLive, Alive
<1>3. CASE Acknowledged \/ AckTimesOut \/ WsClosed \/ PcClose
  BY <1>0, <1>3 DEF Acknowledged, AckTimesOut, WsClosed, PcClose, start
<1>4. CASE JoinAck \/ CallAccepted \/ Offer \/ BadOffer \/ Candidate \/ Answer \/ AddPending
  BY <1>0, <1>4 DEF JoinAck, CallAccepted, Offer, BadOffer, Candidate, Answer, AddPending, start
<1>5. CASE ConnUp \/ ConnLost
  BY <1>0, <1>5 DEF ConnUp, ConnLost, start
<1>6. CASE OnConnected \/ OnOpen
  BY <1>0, <1>6 DEF OnConnected, OnOpen, MaybeStart
<1>7. CASE StartSequence
  <2>1. {"list", "open", "start"} \subseteq Command
    BY DEF Command
  <2> QED BY <1>0, <1>7, <2>1 DEF StartSequence
<1>8. CASE OracleTx
  BY <1>0, <1>8 DEF OracleTx
<1>9. CASE OnControlStatus \/ OnDevList \/ OnFrame \/ OracleDies
  BY <1>0, <1>9 DEF OnControlStatus, OnDevList, OnFrame, OracleDies, start, far
<1>10. CASE FfmpegDies \/ ServerCloses \/ FfmpegWatchdog \/ DiscoverWatchdog \/ UNCHANGED vars
  BY <1>0, <1>10 DEF FfmpegDies, ServerCloses, FfmpegWatchdog, DiscoverWatchdog, vars, start
<1> QED
  BY <1>1, <1>2, <1>3, <1>4, <1>5, <1>6, <1>7, <1>8, <1>9, <1>10 DEF Next, Main, Environment

EngineInv == MainOK /\ SignalOK /\ CountOK /\ PeerOK /\ CmdsOK

(* The session is type correct: candidates and commands stay within their  *)
(* bounds whatever order callbacks and messages come in (handle, add_cand, *)
(* maybe_start, start_sequence, close_live).                               *)
THEOREM EngineTypeOK == Spec => []TypeOK
<1>1. Init => EngineInv
  <2>1. <<>> \in Seq(Command) /\ Len(<<>>) = 0
    BY EmptySeq
  <2>2. Init => MainOK
    BY DEF Init, MainOK, MainStates
  <2>3. Init => SignalOK /\ CountOK
    BY CandOK DEF Init, SignalOK, CountOK
  <2>4. Init => PeerOK
    BY DEF Init, PeerOK
  <2>5. Init => CmdsOK
    BY <2>1 DEF Init, CmdsOK, MaxCmds, MainStates
  <2> QED BY <2>2, <2>3, <2>4, <2>5 DEF EngineInv
<1>2. EngineInv /\ [Next]_vars => EngineInv'
  BY MainStep, SignalStep, PeerStep, CmdsStep DEF EngineInv
<1>3. EngineInv => TypeOK
  <2>1. CmdsOK => StartOK
    <3> SUFFICES ASSUME CmdsOK PROVE StartOK
      OBVIOUS
    <3>1. Len(cmds) \in Nat /\ MaxCmds <= 3
      BY CmdsFacts DEF CmdsOK, MaxCmds
    <3> QED BY <3>1 DEF CmdsOK, StartOK, MaxCmds
  <2> QED BY <2>1 DEF EngineInv, TypeOK
<1> QED BY <1>1, <1>2, <1>3, PTL DEF Spec
-----------------------------------------------------------------------------
(* Only a written manifest counts as success (eufy_stream.py 763-765), also *)
(* when the list of cameras arrives during the shutdown.                   *)
THEOREM EngineManifest == Spec => []ManifestOrFailure
<1>1. Init => ManifestOrFailure
  BY DEF Init, ManifestOrFailure
<1>2. ManifestOrFailure /\ [Next]_vars => ManifestOrFailure'
  <2> SUFFICES ASSUME ManifestOrFailure, [Next]_vars PROVE ManifestOrFailure'
    OBVIOUS
  <2> USE DEF ManifestOrFailure, far
  <2>1. CASE Boot \/ BootFails \/ LoopEnds \/ Acknowledged \/ AckTimesOut
    BY <2>1 DEF Boot, BootFails, LoopEnds, ShutDown, CloseLive, Acknowledged, AckTimesOut
  <2>2. CASE WsClosed \/ PcClose
    BY <2>2 DEF WsClosed, PcClose, notes
  <2>3. CASE Reap
    BY <2>3 DEF Reap, Ok
  <2>4. CASE Interrupt \/ Killed
    BY <2>4 DEF Interrupt, Killed
  <2>5. CASE JoinAck \/ CallAccepted \/ Offer \/ BadOffer \/ Candidate \/ Answer \/ AddPending
    BY <2>5 DEF JoinAck, CallAccepted, Offer, BadOffer, Candidate, Answer, AddPending, Listening, notes
  <2>6. CASE ConnUp \/ ConnLost \/ OnConnected \/ OnOpen \/ StartSequence \/ OracleTx
    BY <2>6 DEF ConnUp, ConnLost, OnConnected, OnOpen, StartSequence, OracleTx, Alive
  <2>7. CASE OnControlStatus \/ OnDevList \/ OnFrame \/ OracleDies
    BY <2>7 DEF OnControlStatus, OnDevList, OnFrame, OracleDies, Alive
  <2>8. CASE FfmpegDies \/ ServerCloses \/ FfmpegWatchdog \/ DiscoverWatchdog
    BY <2>8 DEF FfmpegDies, ServerCloses, FfmpegWatchdog, DiscoverWatchdog, Alive
  <2>9. CASE UNCHANGED vars
    BY <2>9 DEF vars, notes
  <2> QED BY <2>1, <2>2, <2>3, <2>4, <2>5, <2>6, <2>7, <2>8, <2>9 DEF Next, Main, Environment
<1> QED BY <1>1, <1>2, PTL DEF Spec
-----------------------------------------------------------------------------
Opening == {"open", "list", "start"}
Before  == {"boot", "loop"}
Later   == {"wsclose", "pcclose", "reap", "exited"}

(* Until the connection is closed, the NVR is live only behind an open     *)
(* channel; before the shutdown, no closeLive is out and none is answered. *)
OpenInv ==
    /\ main \in MainStates
    /\ nvr = "live" /\ main \in {"boot", "loop", "closing", "wsclose"} => dc = "open"
    /\ main \in Before => /\ cmds \in Seq(Opening) /\ "closed" \notin replies
                          /\ acked = FALSE /\ settled = FALSE

(* Once settled, closeLive is the only command that can still go out, so   *)
(* that the status 0 that ends the wait is its answer.                     *)
RetireInv ==
    /\ OpenInv
    /\ settled => /\ seq = "sent" /\ "started" \notin replies
                  /\ cmds = <<>> \/ cmds = <<"close">>
    /\ settled /\ main = "closing" =>
         \/ cmds = <<"close">> /\ acked = FALSE /\ "closed" \notin replies
         \/ cmds = <<>> /\ nvr # "live"
    /\ settled /\ main \in Later /\ ended # "kill" /\ ackLost = FALSE =>
         cmds = <<>> /\ nvr # "live"

(* How the loop ends: with closeLive, or without anybody to close. *)
LEMMA ShutDownRetires ==
    ASSUME RetireInv, main = "loop", ShutDown, UNCHANGED <<seq, nvr, replies, acked, dc>>
    PROVE  /\ main' \in {"closing", "wsclose"}
           /\ nvr' = "live" /\ main' \in {"boot", "loop", "closing", "wsclose"} => dc' = "open"
           /\ settled' => /\ seq' = "sent" /\ "started" \notin replies'
                          /\ cmds' = <<>> \/ cmds' = <<"close">>
           /\ settled' /\ main' = "closing" =>
                cmds' = <<"close">> /\ acked' = FALSE /\ "closed" \notin replies'
           /\ settled' /\ main' = "wsclose" => cmds' = <<>> /\ nvr' # "live"
<1>1. cmds = <<>> => Append(cmds, "close") = <<"close">>
  OBVIOUS
<1> QED BY <1>1 DEF ShutDown, CloseLive, RetireInv, OpenInv, Before

(* A command passed on by the oracle does what it says. *)
LEMMA OracleTxRetires ==
    ASSUME RetireInv, OracleTx
    PROVE  RetireInv'
<1> USE DEF RetireInv, OpenInv, Before, Later
<1>1. main \in Before =>
        cmds' \in Seq(Opening) /\ "closed" \notin replies' /\ acked' = FALSE /\ settled' = FALSE
  <2>1. main \in Before => Tail(cmds) \in Seq(Opening) /\ Head(cmds) \in Opening
    BY CmdsFacts DEF OracleTx
  <2> QED BY <2>1 DEF OracleTx, Opening, notes
<1>2. nvr' = "live" /\ main \in {"boot", "loop", "closing", "wsclose"} => dc = "open"
  BY DEF OracleTx
<1>3. CASE ~settled
  BY <1>1, <1>2, <1>3 DEF OracleTx, notes, peer
<1>4. CASE settled
  <2>1. cmds = <<"close">> /\ seq = "sent" /\ "started" \notin replies
    BY <1>4 DEF OracleTx
  <2>2. cmds' = <<>> /\ Head(cmds) = "close"
    BY <2>1 DEF OracleTx
  <2>3. nvr' # "live" \/ main # "closing"
    BY <2>2, <1>2 DEF OracleTx
  <2>4. "started" \notin replies'
    BY <2>1, <2>2 DEF OracleTx
  <2> QED BY <1>1, <1>2, <1>4, <2>1, <2>2, <2>3, <2>4 DEF OracleTx, notes, peer
<1> QED BY <1>3, <1>4

(* No step lets a settled session go unretired. *)
LEMMA RetireStep ==
    ASSUME RetireInv, [Next]_vars
    PROVE  RetireInv'
<1> USE DEF RetireInv, OpenInv, Before, Later, MainStates
<1>1. CASE Boot \/ BootFails
  BY <1>1 DEF Boot, BootFails, start, far, notes, peer
<1>2. CASE LoopEnds
  BY <1>2, ShutDownRetires DEF LoopEnds, far, peer
<1>3. CASE Acknowledged \/ AckTimesOut
  BY <1>3 DEF Acknowledged, AckTimesOut, start, far, notes, peer
<1>4. CASE WsClosed \/ PcClose \/ Reap
  BY <1>4 DEF WsClosed, PcClose, Reap, start, far, notes, peer
<1>5. CASE Interrupt
  <2>1. CASE main = "loop"
    BY <1>5, <2>1, ShutDownRetires DEF Interrupt, far, peer
  <2>2. CASE main = "closing"
    BY <1>5, <2>2 DEF Interrupt, far, peer
  <2>3. CASE main \notin {"loop", "closing"}
    BY <1>5, <2>3 DEF Interrupt, far, peer
  <2> QED BY <2>1, <2>2, <2>3
<1>6. CASE Killed
  BY <1>6 DEF Killed, start, far, peer
<1>7. CASE JoinAck \/ CallAccepted \/ Offer \/ BadOffer \/ Candidate \/ Answer \/ AddPending
  BY <1>7 DEF JoinAck, CallAccepted, Offer, BadOffer, Candidate, Answer, AddPending,
              start, far, notes, peer
<1>8. CASE ConnUp \/ ConnLost
  BY <1>8 DEF ConnUp, ConnLost, start, far, notes
<1>9. CASE OnConnected \/ OnOpen
  BY <1>9 DEF OnConnected, OnOpen, MaybeStart, far, notes
<1>10. CASE StartSequence
  <2>1. main \in Before => cmds' \in Seq(Opening)
    BY <1>10, CmdsFacts DEF StartSequence, Opening
  <2>2. settled = FALSE \/ seq = "sent"
    OBVIOUS
  <2> QED BY <1>10, <2>1, <2>2 DEF StartSequence, far, notes, peer
<1>11. CASE OracleTx
  BY <1>11, OracleTxRetires
<1>12. CASE OnControlStatus
  BY <1>12 DEF OnControlStatus, start, notes, peer
<1>13. CASE OnDevList \/ OnFrame \/ OracleDies
  BY <1>13 DEF OnDevList, OnFrame, OracleDies, start, far, notes, peer
<1>14. CASE FfmpegDies \/ ServerCloses \/ FfmpegWatchdog \/ DiscoverWatchdog \/ UNCHANGED vars
  BY <1>14 DEF FfmpegDies, ServerCloses, FfmpegWatchdog, DiscoverWatchdog, vars, start, far, notes, peer
<1> QED
  BY <1>1, <1>2, <1>3, <1>4, <1>5, <1>6, <1>7, <1>8, <1>9, <1>10, <1>11, <1>12, <1>13, <1>14
     DEF Next, Main, Environment

(* What holds of commands, answers and the NVR through the shutdown        *)
(* (close_live, on_control_status, start_sequence).                        *)
THEOREM EngineRetireInvariant == Spec => []RetireInv
<1>1. Init => RetireInv
  <2>1. <<>> \in Seq(Opening)
    BY EmptySeq
  <2> QED BY <2>1 DEF Init, RetireInv, OpenInv, Before, Later, MainStates
<1> QED BY <1>1, RetireStep, PTL DEF Spec

(* A session whose commands were out and answered when the shutdown began  *)
(* is retired by the NVR before its connection is closed (close_live;      *)
(* eufy_nvr/CHANGELOG.md 72-73 and 80-82).                                 *)
THEOREM EngineSettledRetired == Spec => []SettledRetired
<1>1. RetireInv => SettledRetired
  BY DEF RetireInv, SettledRetired, TornDown, Later
<1> QED BY <1>1, EngineRetireInvariant, PTL
-----------------------------------------------------------------------------
(* A channel needs a connection, a connection the answer, and the answer   *)
(* the offer; nothing comes from the NVR but through the channel.          *)
ReachInv ==
    /\ "answer" \in sent \/ conn = "up" \/ dc # "none" => hs # "none"
    /\ nvr # "none" \/ replies # {} => dc # "none"

(* No callback comes before what it is about. *)
LEMMA ReachStep ==
    ASSUME ReachInv, [Next]_vars
    PROVE  ReachInv'
<1> USE DEF ReachInv, signal, peer, far
<1>1. CASE Boot \/ BootFails \/ LoopEnds \/ Acknowledged \/ AckTimesOut
  BY <1>1 DEF Boot, BootFails, LoopEnds, Acknowledged, AckTimesOut
<1>2. CASE WsClosed \/ PcClose \/ Reap \/ Interrupt \/ Killed
  BY <1>2 DEF WsClosed, PcClose, Reap, Interrupt, Killed
<1>3. CASE JoinAck \/ CallAccepted \/ Offer \/ BadOffer \/ Candidate \/ Answer \/ AddPending
  BY <1>3 DEF JoinAck, CallAccepted, Offer, BadOffer, Candidate, Answer, AddPending
<1>4. CASE ConnUp \/ ConnLost
  BY <1>4 DEF ConnUp, ConnLost
<1>5. CASE OnConnected \/ OnOpen \/ StartSequence
  BY <1>5 DEF OnConnected, OnOpen, StartSequence
<1>6. CASE OracleTx
  BY <1>6 DEF OracleTx
<1>7. CASE OnControlStatus \/ OnDevList \/ OnFrame \/ OracleDies
  BY <1>7 DEF OnControlStatus, OnDevList, OnFrame, OracleDies
<1>8. CASE FfmpegDies \/ ServerCloses \/ FfmpegWatchdog \/ DiscoverWatchdog \/ UNCHANGED vars
  BY <1>8 DEF FfmpegDies, ServerCloses, FfmpegWatchdog, DiscoverWatchdog, vars
<1> QED
  BY <1>1, <1>2, <1>3, <1>4, <1>5, <1>6, <1>7, <1>8 DEF Next, Main, Environment

(* Frames, statuses, the list of cameras and the -104 reply all come after *)
(* the channel has opened, and that after an offer, whatever order the     *)
(* service's messages and aiortc's callbacks come in: what the supervisor  *)
(* takes for granted of the lines "VIDEO #" and                            *)
(* "EUFY_AUTHORIZATION_ERROR_-104" (inspect_log_line, CanPrint).           *)
THEOREM EngineReach == Spec => []ReachInv
<1>1. Init => ReachInv
  BY DEF Init, ReachInv
<1> QED BY <1>1, ReachStep, PTL DEF Spec

(* Every step adds to the log what EngineLog allows, or nothing. *)
LEMMA LogStep ==
    ASSUME ReachInv, MainOK, [Next]_vars
    PROVE  [Log!Next]_(Log!vars)
<1> USE DEF MainOK, MainStates, Alive, signal, peer, Log!vars
<1>1. CASE LoopEnds \/ Acknowledged \/ AckTimesOut \/ PcClose \/ Boot
  <2>1. main # "exited" /\ main' # "exited" /\ UNCHANGED hs
    BY <1>1 DEF LoopEnds, ShutDown, CloseLive, Acknowledged, AckTimesOut, PcClose, Boot
  <2>2. dc' # "none" <=> dc # "none"
    BY <1>1 DEF LoopEnds, Acknowledged, AckTimesOut, PcClose, Boot
  <2> QED BY <2>1, <2>2
<1>2. CASE WsClosed \/ BootFails \/ Reap \/ Killed \/ Interrupt
  <2>1. main # "exited" /\ UNCHANGED <<hs, dc>>
    BY <1>2 DEF WsClosed, BootFails, Reap, Killed, Interrupt
  <2> QED BY <2>1 DEF Log!Next, Log!Ends
<1>3. CASE Offer
  BY <1>3 DEF Offer, Listening, Log!Next, Log!OfferReceived
<1>4. CASE JoinAck \/ CallAccepted \/ BadOffer \/ Candidate
  BY <1>4 DEF JoinAck, CallAccepted, BadOffer, Candidate
<1>5. CASE Answer \/ AddPending
  BY <1>5 DEF Answer, AddPending
<1>6. CASE OnOpen
  BY <1>6 DEF OnOpen, ReachInv, Log!Next, Log!ChannelOpen
<1>7. CASE ConnUp \/ ConnLost \/ OnConnected \/ StartSequence
  BY <1>7 DEF ConnUp, ConnLost, OnConnected, StartSequence
<1>8. CASE OracleTx \/ OnControlStatus \/ OnDevList \/ OnFrame \/ OracleDies
  BY <1>8 DEF OracleTx, OnControlStatus, OnDevList, OnFrame, OracleDies
<1>9. CASE FfmpegDies \/ ServerCloses \/ FfmpegWatchdog \/ DiscoverWatchdog \/ UNCHANGED vars
  BY <1>9 DEF FfmpegDies, ServerCloses, FfmpegWatchdog, DiscoverWatchdog, vars
<1> QED
  BY <1>1, <1>2, <1>3, <1>4, <1>5, <1>6, <1>7, <1>8, <1>9 DEF Next, Main, Environment

(* The engine implements EngineLog, as its supervisor takes it to          *)
(* (SupervisorLog): handle prints the offer before it answers, and attach's*)
(* _open the channel only after that.                                      *)
THEOREM EngineLogged == Spec => LogSpec
<1>1. Init => Log!Init /\ MainOK
  BY DEF Init, MainOK, MainStates, Alive, Log!Init
<1>2. MainOK /\ [Next]_vars => MainOK'
  BY MainStep
<1>3. Spec => []MainOK
  BY <1>1, <1>2, PTL DEF Spec
<1>4. MainOK /\ ReachInv /\ [Next]_vars => [Log!Next]_(Log!vars)
  BY LogStep
<1> QED BY <1>1, <1>3, <1>4, EngineReach, PTL DEF Spec, LogSpec, Log!Spec
=============================================================================
