--------------------------- MODULE EngineSession ---------------------------
(***************************************************************************)
(* bridge/eufy_stream.py main: one live or discovery session with the NVR. *)
(*                                                                         *)
(* main waits in the signalling loop; everything else happens in callbacks *)
(* and tasks of the same event loop: the peer connection's events, the     *)
(* start sequence, what the framing oracle hands over, and two watchdogs.  *)
(* They go on while main shuts the session down, until the loop is closed. *)
(* Every action is one stretch without an await.                           *)
(*                                                                         *)
(* The NVR, the signalling service, the oracle and ffmpeg are environment. *)
(***************************************************************************)
EXTENDS Integers, Sequences

CONSTANT MaxCand    \* bound: candidates of the NVR

ASSUME CandOK == MaxCand \in Nat \ {0}

VARIABLES
    discover,   \* DISCOVER: --discover is among the arguments (never changes)
    main,       \* where main stands
    hs,         \* the offer: "none", "set" (being accepted), "sent" (answered), "idle"
    sent,       \* signalling messages sent
    ws,         \* the signalling connection: "open" or "closed"
    pending,    \* candidates that wait for the offer
    known,      \* candidates given to the peer connection
    conn,       \* the peer connection: "new", "up" or "lost"
    connected,  \* state["connected"]
    dc,         \* WebrtcDataChannel: "none", "open" or "closed"
    seq,        \* start_sequence: "none", "begun", "sleep", "sent"
    cmds,       \* commands in the framing oracle
    reader,     \* Oracle._read_stdout still reads
    nvr,        \* the NVR's view: "none", "live", or "lost" (peer gone)
    replies,    \* replies of the NVR on their way
    acked,      \* close_ack is set
    discovered, \* state["discovered"]: the manifest was written
    fatal,      \* state["fatal_reason"] is set
    ffmpeg,     \* "none", "up" or "dead"
    settled,    \* history: at the shutdown all commands were out and answered
    ackLost,    \* history: the wait for the acknowledgement was cut short
    ended,      \* history: "self", or what ended main: "interrupt", "kill"
    rc          \* exit status; 1 stands for any failure

signal == <<hs, sent, ws, pending, known>>
peer   == <<conn, connected, dc>>
start  == <<seq, cmds>>
far    == <<reader, nvr, replies, acked, discovered>>
notes  == <<settled, ackLost, ended>>
vars   == <<discover, main, signal, peer, start, far, fatal, ffmpeg, notes, rc>>

MainStates == {"boot", "loop", "closing", "wsclose", "pcclose", "reap", "exited"}
Command    == {"open", "list", "start", "close"}

MainOK ==
    /\ discover \in BOOLEAN /\ main \in MainStates /\ fatal \in BOOLEAN /\ rc \in {0, 1}
    /\ ffmpeg \in {"none", "up", "dead"}
    /\ settled \in BOOLEAN /\ ackLost \in BOOLEAN /\ ended \in {"self", "interrupt", "kill"}

SignalOK ==
    /\ hs \in {"none", "set", "sent", "idle"} /\ sent \subseteq {"join", "call", "ack", "answer"}
    /\ ws \in {"open", "closed"} /\ pending \in 0 .. MaxCand /\ known \in 0 .. MaxCand

PeerOK ==
    /\ conn \in {"new", "up", "lost"} /\ connected \in BOOLEAN /\ dc \in {"none", "open", "closed"}
    /\ reader \in BOOLEAN /\ nvr \in {"none", "live", "lost"}
    /\ replies \subseteq {"devlist", "started", "closed"}
    /\ acked \in BOOLEAN /\ discovered \in BOOLEAN

StartOK ==
    /\ seq \in {"none", "begun", "sleep", "sent"}
    /\ cmds \in Seq(Command) /\ Len(cmds) <= 3

TypeOK == MainOK /\ SignalOK /\ PeerOK /\ StartOK

Init ==
    /\ discover \in BOOLEAN /\ main = "boot" /\ rc = 0
    /\ hs = "none" /\ sent = {} /\ ws = "closed" /\ pending = 0 /\ known = 0
    /\ conn = "new" /\ connected = FALSE /\ dc = "none"
    /\ seq = "none" /\ cmds = <<>>
    /\ reader = TRUE /\ nvr = "none" /\ replies = {} /\ acked = FALSE /\ discovered = FALSE
    /\ fatal = FALSE /\ ffmpeg = "none"
    /\ settled = FALSE /\ ackLost = FALSE /\ ended = "self"

Alive == main # "exited"
-----------------------------------------------------------------------------
(* main: before, in and after the signalling loop.                         *)

(* The oracle, the sign token, ffmpeg for a live session, the websocket. *)
Boot ==
    /\ main = "boot"
    /\ main' = "loop"
    /\ ws' = "open" /\ sent' = {"join"}
    /\ ffmpeg' = IF discover THEN "none" ELSE "up"
    /\ UNCHANGED <<discover, hs, pending, known, peer, start, far, fatal, notes, rc>>

(* One of them raises: nothing here catches it. *)
BootFails ==
    /\ main = "boot"
    /\ main' = "exited" /\ rc' = 1
    /\ UNCHANGED <<discover, signal, peer, start, far, fatal, ffmpeg, notes>>

CloseLive_NotDiscovery ==  \* mutant: a discovery session is not closed (before 0.7.8)
    IF ~discover /\ seq # "none" /\ dc = "open"
      THEN main' = "closing" /\ cmds' = Append(cmds, "close")
      ELSE main' = "wsclose" /\ cmds' = cmds

(* The finally of the loop, with close_live up to its await. *)
CloseLive ==
    IF seq # "none" /\ dc = "open"
      THEN main' = "closing" /\ cmds' = Append(cmds, "close")
      ELSE main' = "wsclose" /\ cmds' = cmds

ShutDown ==
    /\ CloseLive
    /\ settled' = (seq = "sent" /\ cmds = <<>> /\ "started" \notin replies)

(* The loop ends: the connection is closed, a send on it raises, accepting
   the offer raises, or a message arrived and the discovery is done. *)
LoopEnds ==
    /\ main = "loop"
    /\ ws = "closed" \/ hs = "set" \/ (hs = "idle" /\ discover /\ discovered)
    /\ ShutDown
    /\ UNCHANGED <<discover, signal, peer, seq, far, fatal, ffmpeg, ackLost, ended, rc>>

(* The acknowledgement came in ... *)
Acknowledged ==
    /\ main = "closing" /\ acked
    /\ main' = "wsclose"
    /\ UNCHANGED <<discover, signal, peer, start, far, fatal, ffmpeg, notes, rc>>

(* ... or 1.0 s is over; the 0.15 s of a start sequence are over before. *)
AckTimesOut ==
    /\ main = "closing" /\ seq = "sent"
    /\ main' = "wsclose" /\ ackLost' = TRUE
    /\ UNCHANGED <<discover, signal, peer, start, far, fatal, ffmpeg, settled, ended, rc>>

(* async with closes the websocket; a cancelled main gets no further, and
   asyncio.run turns its cancellation into KeyboardInterrupt: status 0. *)
WsClosed ==
    /\ main = "wsclose"
    /\ ws' = "closed"
    /\ main' = IF ended = "interrupt" THEN "exited" ELSE "pcclose"
    /\ UNCHANGED <<discover, hs, sent, pending, known, peer, start, far, fatal, ffmpeg, notes, rc>>

PcClose ==
    /\ main = "pcclose"
    /\ main' = "reap"
    /\ conn' = "lost" /\ dc' = IF dc = "open" THEN "closed" ELSE dc
    /\ UNCHANGED <<discover, signal, connected, start, far, fatal, ffmpeg, notes, rc>>

Ok_Reached ==  \* mutant: reaching the end counts as a discovery
    ~fatal

(* main's return value. *)
Ok == (~discover \/ discovered) /\ ~fatal

(* The oracle and ffmpeg are terminated. *)
Reap ==
    /\ main = "reap"
    /\ main' = "exited" /\ rc' = IF Ok THEN 0 ELSE 1
    /\ ffmpeg' = IF ffmpeg = "none" THEN "none" ELSE "dead"
    /\ UNCHANGED <<discover, signal, peer, start, far, fatal, notes>>

(* SIGINT cancels main where it waits. *)
Interrupt ==
    /\ Alive /\ ended = "self"
    /\ ended' = "interrupt"
    /\ \/ main = "loop" /\ ShutDown /\ ackLost' = ackLost
       \/ /\ main = "closing" /\ main' = "wsclose" /\ ackLost' = TRUE
          /\ UNCHANGED <<cmds, settled>>
       \/ /\ main \notin {"loop", "closing"} /\ main' = "exited"
          /\ UNCHANGED <<cmds, settled, ackLost>>
    /\ UNCHANGED <<discover, signal, peer, seq, far, fatal, ffmpeg, rc>>

(* SIGTERM has no handler: the supervisor's, or the oracle's after a -104. *)
Killed ==
    /\ Alive
    /\ main' = "exited" /\ ended' = "kill" /\ rc' = 1
    /\ UNCHANGED <<discover, signal, peer, start, far, fatal, ffmpeg, settled, ackLost>>
-----------------------------------------------------------------------------
(* handle: one signalling message at a time.                               *)

Listening == main = "loop" /\ ws = "open" /\ hs \in {"none", "idle"}

JoinAck ==
    /\ Listening
    /\ sent' = sent \cup {"call"}
    /\ UNCHANGED <<discover, main, hs, ws, pending, known, peer, start, far, fatal, ffmpeg, notes, rc>>

(* Status 200 of the call; any other status is only logged. *)
CallAccepted ==
    /\ Listening /\ "call" \in sent
    /\ sent' = sent \cup {"ack"}
    /\ UNCHANGED <<discover, main, hs, ws, pending, known, peer, start, far, fatal, ffmpeg, notes, rc>>

(* The first valid offer; later ones are ignored. *)
Offer ==
    /\ Listening /\ "call" \in sent /\ hs = "none"
    /\ hs' = "set"
    /\ UNCHANGED <<discover, main, sent, ws, pending, known, peer, start, far, fatal, ffmpeg, notes, rc>>

BadOffer ==
    /\ Listening /\ "call" \in sent
    /\ fatal' = TRUE /\ ws' = "closed"
    /\ UNCHANGED <<discover, main, hs, sent, pending, known, peer, start, far, ffmpeg, notes, rc>>

(* A candidate may come before the offer it belongs to. *)
Candidate ==
    /\ Listening /\ "call" \in sent /\ pending + known < MaxCand
    /\ IF hs = "none"
         THEN pending' = pending + 1 /\ known' = known
         ELSE known' = known + 1 /\ pending' = pending
    /\ UNCHANGED <<discover, main, hs, sent, ws, peer, start, far, fatal, ffmpeg, notes, rc>>

(* Descriptions and channels are set, and the answer is sent. *)
Answer ==
    /\ main = "loop" /\ hs = "set" /\ ws = "open"
    /\ hs' = "sent" /\ sent' = sent \cup {"answer"}
    /\ UNCHANGED <<discover, main, ws, pending, known, peer, start, far, fatal, ffmpeg, notes, rc>>

AddPending_Dropped ==  \* mutant: early candidates are cleared, not added
    /\ main = "loop" /\ hs = "sent" /\ ws = "open"
    /\ hs' = "idle"
    /\ known' = known /\ pending' = 0
    /\ UNCHANGED <<discover, main, sent, ws, peer, start, far, fatal, ffmpeg, notes, rc>>

AddPending ==
    /\ main = "loop" /\ hs = "sent" /\ ws = "open"
    /\ hs' = "idle"
    /\ known' = known + pending /\ pending' = 0
    /\ UNCHANGED <<discover, main, sent, ws, peer, start, far, fatal, ffmpeg, notes, rc>>
-----------------------------------------------------------------------------
(* The peer connection and the start sequence.                             *)

MaybeStart_Either(up, open) ==  \* mutant: each of the events starts
    seq' = IF up \/ open THEN "begun" ELSE seq

(* Called by both events; the one that comes second starts. *)
MaybeStart(up, open) ==
    seq' = IF up /\ open /\ seq = "none" THEN "begun" ELSE seq

(* ICE and DTLS are done; the answer is out by then. *)
ConnUp ==
    /\ main \in {"loop", "closing", "wsclose", "pcclose"} /\ conn = "new" /\ "answer" \in sent
    /\ conn' = "up"
    /\ UNCHANGED <<discover, main, signal, connected, dc, start, far, fatal, ffmpeg, notes, rc>>

(* The handler of connectionstatechange is a task of its own: it may run
   before or after the channel opens, and reads the state when it runs. *)
OnConnected ==
    /\ Alive /\ conn = "up" /\ ~connected
    /\ connected' = TRUE
    /\ MaybeStart(TRUE, dc = "open")
    /\ UNCHANGED <<discover, main, signal, conn, dc, cmds, far, fatal, ffmpeg, notes, rc>>

OnOpen ==
    /\ Alive /\ conn = "up" /\ dc = "none"
    /\ dc' = "open"
    /\ MaybeStart(connected, TRUE)
    /\ UNCHANGED <<discover, main, signal, conn, connected, cmds, far, fatal, ffmpeg, notes, rc>>

(* Only logged. *)
ConnLost ==
    /\ Alive /\ conn = "up"
    /\ conn' = "lost" /\ dc' = IF dc = "open" THEN "closed" ELSE dc
    /\ nvr' = IF nvr = "live" THEN "lost" ELSE nvr
    /\ UNCHANGED <<discover, main, signal, connected, start, reader, replies, acked, discovered,
                   fatal, ffmpeg, notes, rc>>

(* getDeviceList, or openLive and after 0.15 s startStream. *)
StartSequence ==
    /\ Alive
    /\ \/ seq = "begun" /\ discover  /\ seq' = "sent"  /\ cmds' = Append(cmds, "list")
       \/ seq = "begun" /\ ~discover /\ seq' = "sleep" /\ cmds' = Append(cmds, "open")
       \/ seq = "sleep" /\ seq' = "sent" /\ cmds' = Append(cmds, "start")
    /\ UNCHANGED <<discover, main, signal, peer, far, fatal, ffmpeg, notes, rc>>
-----------------------------------------------------------------------------
(* The framing oracle, the NVR behind it, ffmpeg.                          *)

(* A framed command comes back from the oracle and goes out, if the channel
   is open: then the NVR acts on it.  It counts a discovery as a session; a
   start may be answered by a status, like a close. *)
OracleTx ==
    /\ Alive /\ reader /\ cmds # <<>>
    /\ cmds' = Tail(cmds)
    /\ \/ (dc # "open" \/ Head(cmds) = "open") /\ UNCHANGED <<nvr, replies>>
       \/ /\ dc = "open" /\ Head(cmds) = "start"
          /\ nvr' = "live" /\ replies' \in {replies, replies \cup {"started"}}
       \/ /\ dc = "open" /\ Head(cmds) = "list"
          /\ nvr' = "live" /\ replies' = replies \cup {"devlist"}
       \/ /\ dc = "open" /\ Head(cmds) = "close"
          /\ nvr' = "none" /\ replies' = replies \cup {"closed"}
    /\ UNCHANGED <<discover, main, signal, peer, seq, reader, acked, discovered, fatal, ffmpeg,
                   notes, rc>>

OnControlStatus_Early ==  \* mutant: a status that comes before the close counts for it
    /\ Alive /\ reader
    /\ \E a \in replies \cap {"started", "closed"} : replies' = replies \ {a}
    /\ acked' = TRUE
    /\ UNCHANGED <<discover, main, signal, peer, start, reader, nvr, discovered, fatal, ffmpeg,
                   notes, rc>>

(* A status 0 counts once closeLive is sent, whatever command it answers. *)
OnControlStatus ==
    /\ Alive /\ reader
    /\ \E a \in replies \cap {"started", "closed"} : replies' = replies \ {a}
    /\ acked' = (acked \/ main = "closing")
    /\ UNCHANGED <<discover, main, signal, peer, start, reader, nvr, discovered, fatal, ffmpeg,
                   notes, rc>>

(* handle_devlist: the manifest is written, or the reply cannot be parsed, or
   writing raises, which ends the task that reads the oracle. *)
OnDevList ==
    /\ Alive /\ reader /\ "devlist" \in replies
    /\ replies' = replies \ {"devlist"}
    /\ \/ discovered' = TRUE /\ reader' = reader
       \/ UNCHANGED <<discovered, reader>>
       \/ reader' = FALSE /\ discovered' = discovered
    /\ UNCHANGED <<discover, main, signal, peer, start, nvr, acked, fatal, ffmpeg, notes, rc>>

(* A video frame cannot be handed on. *)
OnFrame ==
    /\ Alive /\ reader /\ nvr = "live" /\ ~discover
    /\ fatal' = TRUE
    /\ UNCHANGED <<discover, main, signal, peer, start, far, ffmpeg, notes, rc>>

OracleDies ==
    /\ Alive /\ reader /\ main # "boot"
    /\ reader' = FALSE
    /\ UNCHANGED <<discover, main, signal, peer, start, nvr, replies, acked, discovered, fatal,
                   ffmpeg, notes, rc>>

FfmpegDies ==
    /\ Alive /\ ffmpeg = "up"
    /\ ffmpeg' = "dead"
    /\ UNCHANGED <<discover, main, signal, peer, start, far, fatal, notes, rc>>

ServerCloses ==
    /\ main = "loop" /\ ws = "open"
    /\ ws' = "closed"
    /\ UNCHANGED <<discover, main, hs, sent, pending, known, peer, start, far, fatal, ffmpeg, notes, rc>>

FfmpegWatchdog_FlagOnly ==  \* mutant: the reason is noted, and the loop waits on
    /\ main = "loop" /\ ffmpeg = "dead" /\ ~fatal
    /\ fatal' = TRUE
    /\ UNCHANGED <<discover, main, signal, peer, start, far, ffmpeg, notes, rc>>

(* ffmpeg_watchdog and discover_watchdog end the loop through the websocket,
   the second one when the cameras are known or its 40 s are over. *)
FfmpegWatchdog ==
    /\ main = "loop" /\ ffmpeg = "dead"
    /\ fatal' = TRUE /\ ws' = "closed"
    /\ UNCHANGED <<discover, main, hs, sent, pending, known, peer, start, far, ffmpeg, notes, rc>>

DiscoverWatchdog ==
    /\ main = "loop" /\ discover
    /\ ws' = "closed"
    /\ UNCHANGED <<discover, main, hs, sent, pending, known, peer, start, far, fatal, ffmpeg, notes, rc>>
-----------------------------------------------------------------------------
Main ==
    \/ Boot \/ BootFails \/ LoopEnds \/ Acknowledged \/ AckTimesOut \/ WsClosed \/ PcClose \/ Reap
    \/ Answer \/ AddPending

Environment ==
    \/ Interrupt \/ Killed \/ JoinAck \/ CallAccepted \/ Offer \/ BadOffer \/ Candidate
    \/ ConnUp \/ ConnLost \/ OracleTx \/ OnControlStatus \/ OnDevList \/ OnFrame
    \/ OracleDies \/ FfmpegDies \/ ServerCloses

Next ==
    \/ Main \/ OnConnected \/ OnOpen \/ StartSequence \/ FfmpegWatchdog \/ DiscoverWatchdog
    \/ Environment

Spec == Init /\ [][Next]_vars

(* The event loop runs what is ready, and every await of main but the one
   for signalling messages has a limit.  ICE comes up between two hosts that
   know a candidate.  The NVR, the oracle and the service owe nothing.      *)
FairSpec ==
    /\ Spec
    /\ WF_vars(Main) /\ WF_vars(OnConnected) /\ WF_vars(OnOpen) /\ WF_vars(StartSequence)
    /\ WF_vars(FfmpegWatchdog) /\ WF_vars(DiscoverWatchdog)
    /\ WF_vars(ConnUp /\ known > 0)
-----------------------------------------------------------------------------
(* Properties *)

(* An offer and a candidate lead to the start of the stream, whichever of  *)
(* them comes first and whichever of the two connection events comes       *)
(* first, unless the session ends or loses its peer (maybe_start, pending).*)
OfferStarts ==
    (main = "loop" /\ hs # "none" /\ pending + known > 0)
        ~> (seq = "sent" \/ main # "loop" \/ conn = "lost")

(* The session ends after a stop, when ffmpeg is gone, and in discovery in *)
(* any case: an idle websocket never keeps it (ffmpeg_watchdog 635-640,    *)
(* discover_watchdog 705-717).                                             *)
SessionEnds == (ended = "interrupt" \/ ffmpeg = "dead" \/ discover) ~> main = "exited"

(* "Only a written manifest counts as success" (eufy_stream.py 763-765):   *)
(* also when the list arrives during the shutdown.                         *)
ManifestOrFailure ==
    (main = "exited" /\ discover /\ rc = 0 /\ ended = "self") => discovered

(* What the supervisor reads in the log: the offer, and after it the       *)
(* channel's opening.                                                      *)
Log == INSTANCE EngineLog WITH
           alive <- Alive,
           said <- {l \in {"sdp", "dc"} : (l = "sdp" /\ hs # "none") \/ (l = "dc" /\ dc # "none")}

LogSpec == Log!Spec

(* main is past its shutdown, was not killed in it, and did not cut the    *)
(* wait for the acknowledgement short.                                     *)
TornDown == main \in {"pcclose", "reap", "exited"} /\ ended # "kill" /\ ~ackLost

(* A session whose commands were out and answered when the shutdown began  *)
(* is retired by the NVR before the connection is closed, a discovery like *)
(* a live one (close_live; eufy_nvr/CHANGELOG.md 72-73 and 80-82).         *)
SettledRetired == settled /\ TornDown => nvr # "live"

(* The same of every live session, also of one that starts while it is     *)
(* being shut down, or whose start is answered only then (README.md        *)
(* 253-254: waiting "for the NVR's closeLive acknowledgement before WebRTC *)
(* teardown ... prevents both ghost sessions and next-camera races").      *)
LiveRetired == ~discover /\ TornDown => nvr # "live"
=============================================================================
