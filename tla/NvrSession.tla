----------------------------- MODULE NvrSession -----------------------------
(***************************************************************************)
(* Several producers, the gate between them, go2rtc that starts and stops  *)
(* them, and the NVR's one live session.                                   *)
(*                                                                         *)
(* The gate is taken at its abstract word (SessionArbiter, implemented by  *)
(* SessionGate), the supervising process of each producer with the steps   *)
(* of its teardown (Supervisor has their detail), the engine as something  *)
(* that calls the NVR, may hold its session and ends in time or not.       *)
(*                                                                         *)
(* All waits are in ticks.  due[c] counts what is left of the current wait *)
(* of supervisor c; a wait that is over is acted upon before time goes on. *)
(***************************************************************************)
EXTENDS SessionArbiter, Integers, FiniteSets

CONSTANTS
    App, Nobody,    \* other owners of the NVR's session
    PollWait,       \* the polls of acquire (0.1 s) and run_attempt (0.5 s)
    IntWait,        \* _terminate_tree: 3 s after SIGINT
    TermWait,       \* _terminate_tree: 5 s after SIGTERM
    GroupWait,      \* _terminate_tree: 2 s for the process group
    ReleaseDelay,   \* SESSION_RELEASE_DELAY
    KillTimeout,    \* go2rtc's killtimeout for the supervisor
    Retire          \* how long the NVR needs to retire a closed session

ASSUME TimesOK ==
    /\ {PollWait, IntWait, TermWait, GroupWait, ReleaseDelay, KillTimeout, Retire}
          \subseteq Nat \ {0}
    /\ Retire < ReleaseDelay
    /\ {App, Nobody} \cap Client = {} /\ App # Nobody

VARIABLES
    sup,      \* sup[c]: the supervisor of c
    eng,      \* eng[c]: its engine
    due,      \* due[c]: ticks left of the wait sup[c] is in
    stopped,  \* stopped[c]: go2rtc has sent its stop signal
    killIn,   \* killIn[c]: ticks until go2rtc kills supervisor c
    owner,    \* whose live session the NVR serves
    how,      \* "live", "closing" (closeLive received) or "ghost" (peer lost)
    fade,     \* ticks left of a "closing" session
    blame     \* blame[c]: what the last status 486 of c was due to, or "none"

parts == <<sup, eng, due, stopped, killIn, owner, how, fade, blame>>
all == <<vars, parts>>

SupStates == {"gone", "gate", "run", "int", "term", "group", "cool"}
EngStates == {"none", "calling", "live", "refused"}
MaxWait   == PollWait + IntWait + TermWait + GroupWait + ReleaseDelay

SessionTypeOK ==
    /\ sup \in [Client -> SupStates]
    /\ eng \in [Client -> EngStates]
    /\ due \in [Client -> 0 .. MaxWait]
    /\ stopped \in [Client -> BOOLEAN]
    /\ killIn \in [Client -> 0 .. KillTimeout]
    /\ owner \in Client \cup {App, Nobody}
    /\ how \in {"live", "closing", "ghost"}
    /\ fade \in 0 .. Retire
    /\ blame \in [Client -> {"none", "app", "live", "closing", "ghost"}]

SessionInit ==
    /\ Init
    /\ sup = [c \in Client |-> "gone"] /\ eng = [c \in Client |-> "none"]
    /\ due = [c \in Client |-> 0]      /\ stopped = [c \in Client |-> FALSE]
    /\ killIn = [c \in Client |-> 0]   /\ blame = [c \in Client |-> "none"]
    /\ owner = Nobody /\ how = "live" /\ fade = 0

Running(c) == eng[c] # "none"

(* The supervisor goes to state s and may stay there for at most w ticks. *)
Enter(c, s, w) ==
    /\ sup' = [sup EXCEPT ![c] = s]
    /\ due' = [due EXCEPT ![c] = w]
-----------------------------------------------------------------------------
(* go2rtc: a viewer comes, a viewer goes.                                  *)

Exec(c) ==
    /\ sup[c] = "gone" /\ ~Running(c)
    /\ Enter(c, "gate", 0)
    /\ stopped' = [stopped EXCEPT ![c] = FALSE]
    /\ blame' = [blame EXCEPT ![c] = "none"]
    /\ Arrive(c)
    /\ UNCHANGED <<eng, killIn, owner, how, fade>>

(* The last consumer left: the kill signal, and killtimeout starts. *)
Stop(c) ==
    /\ sup[c] # "gone" /\ ~stopped[c]
    /\ stopped' = [stopped EXCEPT ![c] = TRUE]
    /\ killIn' = [killIn EXCEPT ![c] = KillTimeout]
    /\ due' = IF sup[c] \in {"gate", "run"} THEN [due EXCEPT ![c] = PollWait] ELSE due
    /\ UNCHANGED <<vars, sup, eng, owner, how, fade, blame>>

(* killtimeout: go2rtc kills the supervisor, and nothing but it.  The kernel
   frees the gate; the engine runs in a session of its own and stays. *)
Kill(c) ==
    /\ sup[c] # "gone" /\ stopped[c] /\ killIn[c] = 0
    /\ Enter(c, "gone", 0)
    /\ IF st[c] = "out" THEN UNCHANGED vars ELSE Leave(c)
    /\ UNCHANGED <<eng, stopped, killIn, owner, how, fade, blame>>
-----------------------------------------------------------------------------
(* The supervisor.                                                         *)

JoinQueue(c) == Enqueue(c) /\ UNCHANGED parts

Begin(c) ==
    /\ sup[c] = "gate"
    /\ Grant(c)
    /\ Enter(c, "run", IF stopped[c] THEN PollWait ELSE 0)
    /\ eng' = [eng EXCEPT ![c] = "calling"]
    /\ UNCHANGED <<stopped, killIn, owner, how, fade, blame>>

GiveUp(c) ==
    /\ sup[c] = "gate" /\ st[c] = "queued" /\ stopped[c]
    /\ Leave(c)
    /\ Enter(c, "gone", 0)
    /\ UNCHANGED <<eng, stopped, killIn, owner, how, fade, blame>>

(* A poll ends the attempt: stop_event, status 486, or one of the limits.  *)
Interrupt(c) ==
    /\ sup[c] = "run" /\ Running(c)
    /\ Enter(c, "int", IntWait)
    /\ UNCHANGED <<vars, eng, stopped, killIn, owner, how, fade, blame>>

(* The engine is gone: what is left of its group gets up to 2 s. *)
EngineSeenGone(c) ==
    /\ sup[c] \in {"run", "int", "term"} /\ ~Running(c)
    /\ Enter(c, "group", GroupWait)
    /\ UNCHANGED <<vars, eng, stopped, killIn, owner, how, fade, blame>>

Escalate_WaitsOn(c) ==  \* mutant: SIGINT is repeated, with a longer wait each time
    /\ Running(c) /\ due[c] = 0
    /\ sup[c] \in {"int", "term"} /\ Enter(c, "int", MaxWait + 1)
    /\ UNCHANGED <<vars, eng, stopped, killIn, owner, how, fade, blame>>

(* SIGTERM to the group when the 3 s are over, and after 5 s more the group
   is waited for as well. *)
Escalate(c) ==
    /\ Running(c) /\ due[c] = 0
    /\ \/ sup[c] = "int"  /\ Enter(c, "term", TermWait)
       \/ sup[c] = "term" /\ Enter(c, "group", GroupWait)
    /\ UNCHANGED <<vars, eng, stopped, killIn, owner, how, fade, blame>>

(* The live session of c loses its peer without a closeLive. *)
LosePeer(c) ==
    /\ eng' = [eng EXCEPT ![c] = "none"]
    /\ how' = IF owner = c /\ how = "live" THEN "ghost" ELSE how
    /\ UNCHANGED <<owner, fade>>

GroupDone_NoKill(c) ==  \* mutant: the group is waited for, and not killed
    /\ sup[c] = "group"
    /\ Running(c) => due[c] = 0
    /\ Enter(c, "cool", ReleaseDelay)
    /\ UNCHANGED <<vars, eng, owner, how, fade, stopped, killIn, blame>>

(* The group is empty, or gets SIGKILL after its 2 s. *)
GroupDone(c) ==
    /\ sup[c] = "group"
    /\ Running(c) => due[c] = 0
    /\ Enter(c, "cool", ReleaseDelay)
    /\ LosePeer(c)
    /\ UNCHANGED <<vars, stopped, killIn, blame>>

Release_NoGraceOnStop(c) ==  \* mutant: a stop skips the release delay (0.7.9)
    /\ sup[c] = "cool" /\ (due[c] = 0 \/ stopped[c])
    /\ Leave(c)
    /\ Enter(c, "gone", 0)
    /\ UNCHANGED <<eng, stopped, killIn, owner, how, fade, blame>>

(* After SESSION_RELEASE_DELAY the gate is released.  Whether main retries
   or returns, its next step is the queue again or the end. *)
Release(c) ==
    /\ sup[c] = "cool" /\ due[c] = 0
    /\ Leave(c)
    /\ Enter(c, "gone", 0)
    /\ UNCHANGED <<eng, stopped, killIn, owner, how, fade, blame>>
-----------------------------------------------------------------------------
(* The engine and the NVR.                                                 *)

Call(c) ==
    /\ eng[c] = "calling"
    /\ IF owner = Nobody
         THEN /\ owner' = c /\ how' = "live"
              /\ eng' = [eng EXCEPT ![c] = "live"]
              /\ blame' = blame
         ELSE /\ blame' = [blame EXCEPT ![c] = IF owner = App THEN "app" ELSE how]
              /\ eng' = [eng EXCEPT ![c] = "refused"]
              /\ UNCHANGED <<owner, how>>
    /\ UNCHANGED <<vars, sup, due, stopped, killIn, fade>>

(* The engine ends by its own code: closeLive, acknowledged or timed out.  *)
Close(c) ==
    /\ Running(c)
    /\ eng' = [eng EXCEPT ![c] = "none"]
    /\ IF owner = c /\ how = "live"
         THEN how' = "closing" /\ fade' = Retire
         ELSE UNCHANGED <<how, fade>>
    /\ UNCHANGED <<vars, sup, due, stopped, killIn, owner, blame>>

(* The engine crashes, or dies of a signal, before it could say so. *)
Crash(c) ==
    /\ Running(c)
    /\ LosePeer(c)
    /\ UNCHANGED <<vars, sup, due, stopped, killIn, blame>>

(* The NVR retires a session: a closed one in time, a ghost at some time.  *)
SessionRetired ==
    /\ owner # Nobody /\ (how # "live" \/ owner = App)
    /\ owner' = Nobody
    /\ how' = "live" /\ fade' = 0
    /\ UNCHANGED <<vars, sup, eng, due, stopped, killIn, blame>>

AppConnects ==
    /\ owner = Nobody
    /\ owner' = App
    /\ UNCHANGED <<vars, sup, eng, due, stopped, killIn, how, fade, blame>>

(* One tick.  Not past the end of a supervisor's wait, of go2rtc's patience,
   or of the NVR's teardown: those act first. *)
Waits(c) == sup[c] \in {"int", "term", "group", "cool"} \/ (sup[c] \in {"gate", "run"} /\ stopped[c])
Impatient(c) == sup[c] # "gone" /\ stopped[c]

Tick ==
    /\ \A c \in Client : (Waits(c) => due[c] > 0) /\ (Impatient(c) => killIn[c] > 0)
    /\ how = "closing" => fade > 0
    /\ \/ \E c \in Client : Waits(c) \/ Impatient(c)
       \/ how = "closing"
    /\ due' = [c \in Client |-> IF Waits(c) THEN due[c] - 1 ELSE due[c]]
    /\ killIn' = [c \in Client |-> IF Impatient(c) THEN killIn[c] - 1 ELSE killIn[c]]
    /\ fade' = IF how = "closing" THEN fade - 1 ELSE fade
    /\ UNCHANGED <<vars, sup, eng, stopped, owner, how, blame>>

SupervisorStep(c) ==
    \/ JoinQueue(c) \/ Begin(c) \/ GiveUp(c) \/ Interrupt(c) \/ EngineSeenGone(c)
    \/ Escalate(c) \/ GroupDone(c) \/ Release(c)

SessionNext ==
    \/ \E c \in Client :
          \/ Exec(c) \/ Stop(c) \/ Kill(c) \/ SupervisorStep(c)
          \/ Call(c) \/ Close(c) \/ Crash(c)
    \/ SessionRetired \/ AppConnects \/ Tick

SessionSpec == SessionInit /\ [][SessionNext]_all

(* Time passes, supervisors act, and the NVR retires in time a session that
   was closed.  Engines, ghosts and go2rtc owe nothing.                     *)
FairSessionSpec ==
    /\ SessionSpec
    /\ WF_all(Tick)
    /\ WF_all(how = "closing" /\ SessionRetired)
    /\ \A c \in Client : WF_all(SupervisorStep(c))
-----------------------------------------------------------------------------
(* Properties *)

(* Engines of two cameras never run at the same time, whoever stops whom   *)
(* and however slowly an engine obeys (DOCS.md 109, "A cross-process gate  *)
(* prevents competing cameras from opening simultaneous sessions against   *)
(* the NVR").                                                              *)
OneEngine == \A c, d \in Client : Running(c) /\ Running(d) => c = d

(* A camera is never refused because of a session that another camera of   *)
(* ours has closed or still uses: what 486 remains is the app's, or that of*)
(* an engine that died without its closeLive (DOCS.md 112-113, "so neither *)
(* a ghost owner nor a next-camera race can produce status 486"; CHANGELOG *)
(* 0.7.10).                                                                *)
NoNextCameraRace == \A c \in Client : blame[c] \notin {"live", "closing"}

HoldStates == {"run", "int", "term", "group", "cool"}  \* the gate is held

(* An engine whose supervisor go2rtc has killed. *)
Cut(c) == Running(c) /\ sup[c] \notin HoldStates

(* Each producer is a ProducerLife, as Supervisor is in detail, whenever   *)
(* go2rtc kills it.                                                        *)
Life(c) == INSTANCE ProducerLife WITH
               at <- IF sup[c] \in HoldStates THEN sup[c]
                     ELSE IF Cut(c) THEN "cut" ELSE "out",
               gate <- st[c] = "holding",
               engine <- IF Running(c) THEN "up" ELSE "none"

(* A producer that go2rtc has stopped frees the gate although its engine   *)
(* ignores every signal it can ignore (eufy_run.py 232-279): a camera that *)
(* waits is not held up by one nobody watches.                             *)
StoppedLeaves == \A c \in Client : stopped[c] ~> st[c] = "out"
=============================================================================
