----------------------------- MODULE Supervisor -----------------------------
(***************************************************************************)
(* bridge/eufy_run.py main, run_attempt, _terminate_tree, _relay_stderr    *)
(* and inspect_log_line: one producer process that runs the protocol       *)
(* engine up to MaxAttempts times, each time inside the session gate,      *)
(* watches its log for markers, and stops it after a stall.                *)
(*                                                                         *)
(* The engine runs concurrently.  Its log goes through a pipe: what it has *)
(* printed is not known to the supervisor before the relay has read it, and*)
(* the engine may be gone by then.  Time is counted in polls of the        *)
(* supervising loop (0.5 s); all limits are constants in that unit.        *)
(***************************************************************************)
EXTENDS Integers, Sequences, FiniteSets

CONSTANTS
    MaxAttempts,        \* MAX_ATTEMPTS
    SignalTimeout,      \* SIGNAL_TIMEOUT      (all four in polls)
    ConnectionTimeout,  \* CONNECTION_TIMEOUT
    FirstFrameTimeout,  \* FIRST_FRAME_TIMEOUT
    StallTimeout,       \* STALL_TIMEOUT
    PipeSize            \* bound: log lines written and not yet read

ASSUME LimitsOK ==
    {MaxAttempts, SignalTimeout, ConnectionTimeout, FirstFrameTimeout,
     StallTimeout, PipeSize} \subseteq Nat \ {0}

VARIABLES
    discovery, \* --discover is among the arguments (never changes)
    phase,     \* where main / run_attempt / _terminate_tree stands
    attempt,   \* the attempt, from 1
    stop,      \* stop_event
    gate,      \* this producer holds the session gate
    engine,    \* "none", "up", or "dead" with returncode rc
    rc,        \* 0, or 1 for any other status or signal
    group,     \* other processes of the engine's process group are alive
    signalled, \* history: the supervisor has signalled this engine's leader
    said,      \* the markers this engine has printed
    pipe,      \* those the relay has not read yet
    age,       \* polls since started_at
    idle,      \* polls since last_progress
    dark,      \* polls since last_video_at
    shown,     \* the relay has read a video marker: first_video_at is set
    reason,    \* why the attempt ended
    denied,    \* history: some engine printed the authorization marker
    result     \* main's return value, or -1 while it runs

vars == <<discovery, phase, attempt, stop, gate, engine, rc, group, signalled, said,
          pipe, age, idle, dark, shown, reason, denied, result>>

(* What inspect_log_line looks for.  "turn" is scall/turn status 100 or 200,
   "busy" status 486, "auth" EUFY_AUTHORIZATION_ERROR_-104. *)
Marker == {"turn", "busy", "sdp", "dc", "video", "auth"}

Phases == {"backoff", "acquire", "run", "int", "term", "group", "cool",
           "judge", "done"}
Reasons == <<"shutdown", "authorization", "busy", "signaling_timeout",
             "connection_timeout", "first_frame_timeout", "stream_stall">>
ReasonSet == {Reasons[i] : i \in DOMAIN Reasons} \cup {"exit"}

(* A clock stops counting at the largest limit it is compared with. *)
IdleCap == IF ConnectionTimeout > FirstFrameTimeout
             THEN ConnectionTimeout ELSE FirstFrameTimeout
Later(clock, cap) == IF clock < cap THEN clock + 1 ELSE cap

TypeOK ==
    /\ phase \in Phases
    /\ attempt \in 1 .. MaxAttempts
    /\ discovery \in BOOLEAN /\ stop \in BOOLEAN /\ gate \in BOOLEAN /\ group \in BOOLEAN
    /\ signalled \in BOOLEAN /\ shown \in BOOLEAN /\ denied \in BOOLEAN
    /\ engine \in {"none", "up", "dead"}
    /\ rc \in {0, 1}
    /\ said \in SUBSET Marker
    /\ pipe \in Seq(Marker) /\ Len(pipe) <= PipeSize
    /\ age \in 0 .. SignalTimeout
    /\ idle \in 0 .. IdleCap
    /\ dark \in 0 .. StallTimeout
    /\ reason \in ReasonSet
    /\ result \in {-1, 0, 1, 75, 78}

(* What SessionState knows: the markers printed and read. *)
Seen(m) == m \in said /\ \A i \in DOMAIN pipe : pipe[i] # m

session  == <<engine, rc, group, signalled, said, pipe, age, idle, dark, shown>>
outcome  == <<reason, denied, result>>

Init ==
    /\ phase = "acquire" /\ attempt = 1 /\ result = -1 /\ reason = "exit"
    /\ discovery \in BOOLEAN /\ stop = FALSE /\ gate = FALSE
    /\ engine = "none" /\ rc = 0 /\ group = FALSE /\ signalled = FALSE
    /\ said = {} /\ pipe = <<>> /\ shown = FALSE /\ denied = FALSE
    /\ age = 0 /\ idle = 0 /\ dark = 0

-----------------------------------------------------------------------------
(* The engine and its process group: everything it may do by itself.       *)

(* Stages of a session in the order the engine can reach them.  The statuses
   of the call and the offer are the service's, which sends them in any order,
   and each once; one that repeats a status for ever would keep idle at 0. *)
CanPrint(m) ==
    CASE m \in {"turn", "busy", "sdp"} -> m \notin said
      [] m = "dc"    -> "sdp" \in said /\ "dc" \notin said
      [] m = "auth"  -> "dc" \in said /\ "auth" \notin said
      [] m = "video" -> "dc" \in said /\ ~discovery

Say(m) ==
    /\ engine = "up" /\ CanPrint(m)
    /\ Len(pipe) < PipeSize
    /\ said' = said \cup {m}
    /\ pipe' = Append(pipe, m)
    /\ denied' = (denied \/ m = "auth")
    /\ UNCHANGED <<discovery, phase, attempt, stop, gate, engine, rc, group, signalled,
                   age, idle, dark, shown, reason, result>>

(* The engine returns, fails, or is terminated: the framing oracle does so
   10 ms after it printed the authorization marker.  Its oracle and ffmpeg
   children may outlive it. *)
EngineEnds(status, children) ==
    /\ engine = "up"
    /\ engine' = "dead"
    /\ rc' = status
    /\ group' = (group /\ children)
    /\ UNCHANGED <<discovery, phase, attempt, stop, gate, signalled, said, pipe, age, idle,
                   dark, shown, outcome>>

(* The last descendant exits after its leader. *)
GroupEnds ==
    /\ engine = "dead" /\ group
    /\ group' = FALSE
    /\ UNCHANGED <<discovery, phase, attempt, stop, gate, engine, rc, signalled, said, pipe,
                   age, idle, dark, shown, outcome>>

(* go2rtc's SIGINT, a SIGTERM: main's handlers only set the event. *)
Signal ==
    /\ ~stop /\ phase # "done"
    /\ stop' = TRUE
    /\ UNCHANGED <<discovery, phase, attempt, gate, session, outcome>>

(* _relay_stderr and inspect_log_line on the oldest unread line. *)
Relay ==
    /\ pipe # <<>> /\ phase \in {"run", "int", "term", "group"}
    /\ pipe' = Tail(pipe)
    /\ idle' = IF Head(pipe) = "auth" THEN idle ELSE 0
    /\ shown' = (shown \/ Head(pipe) = "video")
    /\ dark' = IF Head(pipe) = "video" THEN 0 ELSE dark
    /\ UNCHANGED <<discovery, phase, attempt, stop, gate, engine, rc, group, signalled,
                   said, age, outcome>>
-----------------------------------------------------------------------------
(* main: the gate, and the start of an attempt. *)

(* gate.acquire returned True; run_attempt starts a fresh engine in a
   session of its own. *)
Start ==
    /\ phase = "acquire"
    /\ phase' = "run"
    /\ gate' = TRUE
    /\ engine' = "up" /\ rc' = 0 /\ group' = TRUE /\ signalled' = FALSE
    /\ said' = {} /\ pipe' = <<>> /\ shown' = FALSE
    /\ age' = 0 /\ idle' = 0 /\ dark' = 0
    /\ reason' = "exit"
    /\ UNCHANGED <<discovery, attempt, stop, denied, result>>

(* gate.acquire returned False, or the retry delay ended early. *)
StopBeforeStart ==
    /\ phase \in {"acquire", "backoff"} /\ stop
    /\ phase' = "done"
    /\ result' = 0
    /\ UNCHANGED <<discovery, attempt, stop, gate, session, reason, denied>>

BackoffEnds ==
    /\ phase = "backoff" /\ ~stop
    /\ phase' = "acquire"
    /\ UNCHANGED <<discovery, attempt, stop, gate, session, outcome>>
-----------------------------------------------------------------------------
(* run_attempt: the supervising loop. *)

(* proc.wait() returned within the poll: the loop breaks without looking at
   what the log said. *)
SeeExit ==
    /\ phase = "run" /\ engine = "dead"
    /\ phase' = "group"
    /\ UNCHANGED <<discovery, attempt, stop, gate, session, outcome>>

Applies_NoConnectionLimit(r, a, i, d) ==  \* mutant: nothing limits ICE and DTLS
    CASE r = "shutdown"            -> stop
      [] r = "authorization"       -> Seen("auth")
      [] r = "busy"                -> Seen("busy")
      [] r = "signaling_timeout"   -> ~Seen("sdp") /\ a >= SignalTimeout
      [] r = "connection_timeout"  -> FALSE
      [] r = "first_frame_timeout" -> ~discovery /\ Seen("dc") /\ ~shown /\ i >= FirstFrameTimeout
      [] r = "stream_stall"        -> ~discovery /\ shown /\ d >= StallTimeout

Applies_StopLast(r, a, i, d) ==  \* mutant: stop is honoured only by a silent session
    CASE r = "shutdown"            -> stop /\ ~shown
      [] r = "authorization"       -> Seen("auth")
      [] r = "busy"                -> Seen("busy")
      [] r = "signaling_timeout"   -> ~Seen("sdp") /\ a >= SignalTimeout
      [] r = "connection_timeout"  -> Seen("sdp") /\ ~Seen("dc") /\ i >= ConnectionTimeout
      [] r = "first_frame_timeout" -> ~discovery /\ Seen("dc") /\ ~shown /\ i >= FirstFrameTimeout
      [] r = "stream_stall"        -> ~discovery /\ shown /\ d >= StallTimeout

(* The conditions of a poll that timed out, at the clocks it reads. *)
Applies(r, a, i, d) ==
    CASE r = "shutdown"            -> stop
      [] r = "authorization"       -> Seen("auth")
      [] r = "busy"                -> Seen("busy")
      [] r = "signaling_timeout"   -> ~Seen("sdp") /\ a >= SignalTimeout
      [] r = "connection_timeout"  -> Seen("sdp") /\ ~Seen("dc") /\ i >= ConnectionTimeout
      [] r = "first_frame_timeout" -> ~discovery /\ Seen("dc") /\ ~shown /\ i >= FirstFrameTimeout
      [] r = "stream_stall"        -> ~discovery /\ shown /\ d >= StallTimeout

(* The first condition that applies, in the order the code tests them. *)
Verdict(r, a, i, d) ==
    \E k \in DOMAIN Reasons :
        /\ r = Reasons[k]
        /\ Applies(r, a, i, d)
        /\ \A j \in 1 .. k - 1 : ~Applies(Reasons[j], a, i, d)

(* One poll without an exit.  An engine that ended just as the poll timed
   out is judged by its log all the same. *)
Poll ==
    LET a == Later(age, SignalTimeout)
        i == Later(idle, IdleCap)
        d == IF shown THEN Later(dark, StallTimeout) ELSE 0
    IN
    /\ phase = "run"
    /\ age' = a /\ idle' = i /\ dark' = d
    /\ \/ \E r \in ReasonSet :
             /\ Verdict(r, a, i, d)
             /\ reason' = r
             /\ IF engine = "up"
                  THEN phase' = "int" /\ signalled' = TRUE
                  ELSE phase' = "group" /\ signalled' = signalled
       \/ /\ \A r \in ReasonSet : ~Verdict(r, a, i, d)
          /\ phase' = IF engine = "up" THEN "run" ELSE "group"
          /\ UNCHANGED <<reason, signalled>>
    /\ UNCHANGED <<discovery, attempt, stop, gate, engine, rc, group, said, pipe, shown,
                   denied, result>>
-----------------------------------------------------------------------------
(* _terminate_tree.  Called where the loop broke and again in finally, where
   it finds nothing left to do. *)

(* The leader got SIGINT and ended within 3 s ... *)
Interrupted ==
    /\ phase \in {"int", "term"} /\ engine = "dead"
    /\ phase' = "group"
    /\ UNCHANGED <<discovery, attempt, stop, gate, session, outcome>>

(* ... or did not, and the whole group gets SIGTERM and 5 s. *)
Escalate ==
    /\ phase = "int" /\ engine = "up"
    /\ phase' = "term"
    /\ UNCHANGED <<discovery, attempt, stop, gate, session, outcome>>

TermTimesOut ==
    /\ phase = "term" /\ engine = "up"
    /\ phase' = "group"
    /\ UNCHANGED <<discovery, attempt, stop, gate, session, outcome>>

GroupGone_LeaderOnly ==  \* mutant: the leader's exit is taken for the group's
    /\ phase = "group" /\ engine = "dead"
    /\ phase' = "cool"
    /\ UNCHANGED <<discovery, attempt, stop, gate, session, outcome>>

(* The group is polled for up to 2 s; when it is gone, that is all. *)
GroupGone ==
    /\ phase = "group" /\ engine = "dead" /\ ~group
    /\ phase' = "cool"
    /\ UNCHANGED <<discovery, attempt, stop, gate, session, outcome>>

(* SIGKILL to what is left of the group; the leader is reaped. *)
KillGroup ==
    /\ phase = "group" /\ (engine = "up" \/ group)
    /\ phase' = "cool"
    /\ engine' = "dead"
    /\ rc' = IF engine = "up" THEN 1 ELSE rc
    /\ group' = FALSE
    /\ signalled' = (signalled \/ engine = "up")
    /\ UNCHANGED <<discovery, attempt, stop, gate, said, pipe, age, idle, dark, shown, outcome>>
-----------------------------------------------------------------------------
(* main, after the attempt. *)

(* SESSION_RELEASE_DELAY with the gate still held, then gate.release(). *)
Release ==
    /\ phase = "cool"
    /\ phase' = "judge"
    /\ gate' = FALSE
    /\ pipe' = <<>>
    /\ UNCHANGED <<discovery, attempt, stop, engine, rc, group, signalled, said, age, idle,
                   dark, shown, outcome>>

ReturnValue_AnyZero ==  \* mutant: a graceful exit after a timeout is success
    CASE reason = "shutdown"               -> 0
      [] reason = "authorization"          -> 78
      [] reason = "busy" /\ ~discovery     -> 75
      [] rc = 0                            -> 0
      [] OTHER -> IF attempt = MaxAttempts THEN 1 ELSE -1

ReturnValue_OneMore ==  \* mutant: the loop runs once more than MAX_ATTEMPTS
    CASE reason = "shutdown"               -> 0
      [] reason = "authorization"          -> 78
      [] reason = "busy" /\ ~discovery     -> 75
      [] reason = "exit" /\ rc = 0         -> 0
      [] OTHER -> IF attempt > MaxAttempts THEN 1 ELSE -1

(* What main returns for the ended attempt, or -1: try again. *)
ReturnValue ==
    CASE reason = "shutdown"               -> 0
      [] reason = "authorization"          -> 78
      [] reason = "busy" /\ ~discovery     -> 75
      [] reason = "exit" /\ rc = 0         -> 0
      [] OTHER -> IF attempt = MaxAttempts THEN 1 ELSE -1

Judge ==
    /\ phase = "judge"
    /\ result' = ReturnValue
    /\ IF ReturnValue = -1
         THEN phase' = "backoff" /\ attempt' = attempt + 1
         ELSE phase' = "done" /\ attempt' = attempt
    /\ UNCHANGED <<discovery, stop, gate, session, reason, denied>>
-----------------------------------------------------------------------------
EngineStep ==
    \/ \E m \in Marker : Say(m)
    \/ \E status \in {0, 1}, children \in BOOLEAN : EngineEnds(status, children)
    \/ GroupEnds

Main ==
    \/ Start \/ StopBeforeStart \/ BackoffEnds \/ SeeExit \/ Poll
    \/ Interrupted \/ Escalate \/ TermTimesOut \/ GroupGone \/ KillGroup
    \/ Release \/ Judge

Next == Main \/ Relay \/ EngineStep \/ Signal

Spec == Init /\ [][Next]_vars

(* The supervisor's event loop runs and its timers fire; the gate is granted
   in the end (SessionGate!NoStarvation).  The engine owes nothing.        *)
FairSpec == Spec /\ WF_vars(Main) /\ WF_vars(Relay)
-----------------------------------------------------------------------------
(* Properties *)

(* No process of a session outlives this producer's hold on the gate:      *)
(* whatever the leader does with its signals, the whole group is gone      *)
(* before release, so the next producer never meets a second live session  *)
(* of ours (_terminate_tree; eufy_run.py 402-410).                         *)
SessionInsideGate == (engine = "up" \/ group) => gate

(* Return code 0 means that a stop was asked for, or that the engine ended *)
(* with status 0 of its own accord: an engine that answers our SIGINT with *)
(* 0 is not a success (eufy_run.py 434-439).                               *)
SuccessIsReal == result = 0 => stop \/ (rc = 0 /\ ~signalled)

(* A session that is watched for ever shows video for ever: no silence of  *)
(* the engine, at any stage, leaves a producer hanging (issues #5, #6 in   *)
(* eufy_run.py 7-9).  Discovery has no such limit here once the data       *)
(* channel is open: the engine's own watchdog ends it.                     *)
NoSilentHang ==
    (~discovery /\ <>[](phase = "run")) => []<>(shown /\ dark = 0)

(* A stop reaches the end of the process from every state, also in the     *)
(* middle of a healthy stream (eufy_run.py 320-323, 412-413).                  *)
StopEnds == stop ~> phase = "done"

(* Without its log and clocks, the supervisor is a ProducerLife: an engine *)
(* is started with the gate held, and nothing of it is left when the gate  *)
(* is let go (run_attempt, _terminate_tree, main 394-410).                 *)
Attempting == {"run", "int", "term", "group", "cool"}

Life == INSTANCE ProducerLife WITH
            at <- IF phase \in Attempting THEN phase ELSE "out",
            engine <- IF engine = "up" THEN "up" ELSE IF group THEN "orphans" ELSE "none"

LifeSpec == Life!Spec

(* What it takes its engines to print, in which order, is an EngineLog.    *)
Log == INSTANCE EngineLog WITH alive <- engine = "up", said <- said \cap {"sdp", "dc"}

LogSpec == Log!Spec

(* CHANGELOG 0.7.1: "emit an explicit owner/admin-account diagnostic       *)
(* instead of retrying a permission failure".                              *)
DeniedNotRetried == denied => phase # "backoff"
=============================================================================
