-------------------------- MODULE NvrSessionProofs --------------------------
(***************************************************************************)
(* What holds of several cameras on one NVR whatever go2rtc's killtimeout  *)
(* is, for every number of cameras and every length of the waits: engines  *)
(* that run together are those whose supervisors go2rtc has killed, no     *)
(* supervisor lets the gate go before its session is retired, each producer*)
(* lives as ProducerLife says, and a kill comes only when the stages before*)
(* it have used up killtimeout.  MCNvrSessionKilled shows that the shipped *)
(* one is used up in a teardown, MCNvrSession one that is not.             *)
(***************************************************************************)
EXTENDS NvrSession, TLAPS

(* The longest time from go2rtc's stop to the end of the release: two polls *)
(* (one for the gate, one for the engine) and every stage of the teardown. *)
StopTime == 2 * PollWait + IntWait + TermWait + GroupWait + ReleaseDelay

EngineStates == {"run", "int", "term", "group"}  \* an engine may be there

(* The longest wait in a supervisor state, and what may follow it. *)
Longest(s) ==
    IF s \in {"gate", "run"} THEN PollWait
    ELSE IF s = "int"   THEN IntWait
    ELSE IF s = "term"  THEN TermWait
    ELSE IF s = "group" THEN GroupWait
    ELSE IF s = "cool"  THEN ReleaseDelay
    ELSE 0
Rest(s) ==
    IF s = "gate" THEN PollWait + IntWait + TermWait + GroupWait + ReleaseDelay
    ELSE IF s = "run"  THEN IntWait + TermWait + GroupWait + ReleaseDelay
    ELSE IF s = "int"  THEN TermWait + GroupWait + ReleaseDelay
    ELSE IF s = "term" THEN GroupWait + ReleaseDelay
    ELSE IF s = "group" THEN ReleaseDelay
    ELSE 0

Kinds ==
    /\ st \in [Client -> Standing]
    /\ sup \in [Client -> SupStates]
    /\ eng \in [Client -> EngStates]
    /\ due \in [Client -> Nat]
    /\ stopped \in [Client -> BOOLEAN]
    /\ killIn \in [Client -> Nat]
    /\ owner \in Client \cup {App, Nobody}
    /\ how \in {"live", "closing", "ghost"}
    /\ fade \in Nat

(* A supervisor that watches or stops an engine holds the gate; an engine  *)
(* is in the care of such a supervisor, or its supervisor is gone.         *)
InGate(c) ==
    /\ sup[c] \in HoldStates <=> st[c] = "holding"
    /\ sup[c] = "gone" <=> st[c] = "out"
    /\ eng[c] # "none" => sup[c] \in EngineStates \cup {"gone"}

Alone == \A c, d \in Client : st[c] = "holding" /\ st[d] = "holding" => c = d

GateInv == Kinds /\ Alone /\ \A c \in Client : InGate(c)

(* The constants as numbers. *)
LEMMA Waits_Nat ==
    /\ PollWait \in Nat /\ PollWait > 0 /\ IntWait \in Nat /\ IntWait > 0
    /\ TermWait \in Nat /\ TermWait > 0 /\ GroupWait \in Nat /\ GroupWait > 0
    /\ ReleaseDelay \in Nat /\ ReleaseDelay > 0 /\ KillTimeout \in Nat
    /\ Retire \in Nat /\ Retire < ReleaseDelay
BY TimesOK

(* Every step keeps the variables in their types. *)
LEMMA KindsKept ==
    ASSUME Kinds, [SessionNext]_all
    PROVE  Kinds'
<1> USE Waits_Nat DEF Kinds, SupStates, EngStates, Standing, Enter, parts
<1>1. ASSUME NEW c \in Client, Exec(c) \/ Stop(c) PROVE Kinds'
  <2>1. CASE Exec(c)
    BY <2>1 DEF Exec, Arrive
  <2>2. CASE Stop(c)
    BY <2>2 DEF Stop, vars
  <2> QED BY <1>1, <2>1, <2>2
<1>2. ASSUME NEW c \in Client, Kill(c) PROVE Kinds'
  BY <1>2 DEF Kill, Leave, vars
<1>3. ASSUME NEW c \in Client, JoinQueue(c) \/ Begin(c) PROVE Kinds'
  BY <1>3 DEF JoinQueue, Enqueue, Begin, Grant
<1>4. ASSUME NEW c \in Client, GiveUp(c) \/ Release(c) PROVE Kinds'
  BY <1>4 DEF GiveUp, Release, Leave
<1>5. ASSUME NEW c \in Client, Interrupt(c) \/ EngineSeenGone(c) \/ Escalate(c) PROVE Kinds'
  BY <1>5 DEF Interrupt, EngineSeenGone, Escalate, vars
<1>6. ASSUME NEW c \in Client, GroupDone(c) \/ Crash(c) PROVE Kinds'
  BY <1>6 DEF GroupDone, Crash, LosePeer, vars
<1>7. ASSUME NEW c \in Client, Call(c) PROVE Kinds'
  BY <1>7 DEF Call, vars
<1>8. ASSUME NEW c \in Client, Close(c) PROVE Kinds'
  BY <1>8 DEF Close, vars
<1>9. CASE SessionRetired \/ AppConnects
  BY <1>9 DEF SessionRetired, AppConnects, vars
<1>10. CASE Tick
  <2>1. due' \in [Client -> Nat]
    BY <1>10 DEF Tick
  <2>2. killIn' \in [Client -> Nat]
    BY <1>10 DEF Tick
  <2> QED BY <1>10, <2>1, <2>2 DEF Tick, vars
<1>11. CASE UNCHANGED all
  BY <1>11 DEF all, vars
<1> QED
  BY <1>1, <1>2, <1>3, <1>4, <1>5, <1>6, <1>7, <1>8, <1>9, <1>10, <1>11
     DEF SessionNext, SupervisorStep
-----------------------------------------------------------------------------
(* The gate stays exclusive: only Grant makes a holder, of a free gate.    *)
LEMMA AloneKept ==
    ASSUME Kinds, Alone, [SessionNext]_all
    PROVE  Alone'
<1> USE DEF Alone, Kinds
<1>1. ASSUME NEW c \in Client, Arrive(c) \/ Enqueue(c) \/ Leave(c) PROVE Alone'
  BY <1>1 DEF Arrive, Enqueue, Leave
<1>2. ASSUME NEW c \in Client, Grant(c) PROVE Alone'
  BY <1>2 DEF Grant, Holders
<1>3. CASE UNCHANGED vars
  BY <1>3 DEF vars
<1>4. ASSUME NEW c \in Client, Exec(c) \/ Stop(c) \/ Kill(c) \/ SupervisorStep(c)
                                 \/ Call(c) \/ Close(c) \/ Crash(c)
      PROVE  \/ Arrive(c) \/ Enqueue(c) \/ Leave(c) \/ Grant(c)
             \/ UNCHANGED vars
  BY <1>4 DEF Exec, Stop, Kill, SupervisorStep, JoinQueue, Begin, GiveUp, Interrupt,
              EngineSeenGone, Escalate, GroupDone, Release, Call, Close, Crash
<1>5. SessionRetired \/ AppConnects \/ Tick \/ UNCHANGED all => UNCHANGED vars
  BY DEF SessionRetired, AppConnects, Tick, all
<1> QED
  BY <1>1, <1>2, <1>3, <1>4, <1>5 DEF SessionNext

(* Every step of the supervisors, the engines and go2rtc keeps InGate.     *)
LEMMA InGateKept ==
    ASSUME GateInv, [SessionNext]_all
    PROVE  \A c \in Client : InGate(c)'
<1> USE DEF GateInv, Kinds, InGate, EngineStates, HoldStates, Running, Enter, parts
<1> SUFFICES ASSUME NEW d \in Client PROVE InGate(d)'
  OBVIOUS
<1>1. ASSUME NEW c \in Client, Exec(c) PROVE InGate(d)'
  BY <1>1 DEF Exec, Arrive
<1>2. ASSUME NEW c \in Client, Stop(c) PROVE InGate(d)'
  BY <1>2 DEF Stop, vars
<1>3. ASSUME NEW c \in Client, Kill(c) PROVE InGate(d)'
  BY <1>3 DEF Kill, Leave, vars
<1>4. ASSUME NEW c \in Client, JoinQueue(c) PROVE InGate(d)'
  BY <1>4 DEF JoinQueue, Enqueue
<1>5. ASSUME NEW c \in Client, Begin(c) PROVE InGate(d)'
  BY <1>5 DEF Begin, Grant
<1>6. ASSUME NEW c \in Client, GiveUp(c) PROVE InGate(d)'
  BY <1>6 DEF GiveUp, Leave
<1>7. ASSUME NEW c \in Client, Interrupt(c) PROVE InGate(d)'
  BY <1>7 DEF Interrupt, vars
<1>8. ASSUME NEW c \in Client, EngineSeenGone(c) PROVE InGate(d)'
  BY <1>8 DEF EngineSeenGone, vars
<1>9. ASSUME NEW c \in Client, Escalate(c) PROVE InGate(d)'
  BY <1>9 DEF Escalate, vars
<1>10. ASSUME NEW c \in Client, GroupDone(c) PROVE InGate(d)'
  BY <1>10 DEF GroupDone, LosePeer, vars
<1>11. ASSUME NEW c \in Client, Release(c) PROVE InGate(d)'
  BY <1>11 DEF Release, Leave
<1>12. ASSUME NEW c \in Client, Call(c) \/ Close(c) \/ Crash(c) PROVE InGate(d)'
  BY <1>12 DEF Call, Close, Crash, LosePeer, vars
<1>13. CASE SessionRetired \/ AppConnects \/ Tick \/ UNCHANGED all
  BY <1>13 DEF SessionRetired, AppConnects, Tick, all, vars
<1> QED
  BY <1>1, <1>2, <1>3, <1>4, <1>5, <1>6, <1>7, <1>8, <1>9, <1>10, <1>11, <1>12, <1>13
     DEF SessionNext, SupervisorStep

(* The gate has one holder, and an engine that has a supervisor is inside  *)
(* it (eufy_run.py 397-410), for any killtimeout.                          *)
THEOREM SessionGateInv == SessionSpec => []GateInv
<1>1. SessionInit => GateInv
  BY DEF SessionInit, Init, GateInv, Kinds, InGate, Alone, EngineStates, HoldStates,
         SupStates, EngStates, Standing
<1>2. GateInv /\ [SessionNext]_all => GateInv'
  BY KindsKept, AloneKept, InGateKept DEF GateInv
<1> QED BY <1>1, <1>2, PTL DEF SessionSpec

(* Of engines that run at the same time at most one has its supervisor; so *)
(* as long as go2rtc has killed none over its engine, there is one engine. *)
OneSupervised ==
    \A c, d \in Client : Running(c) /\ Running(d) => c = d \/ Cut(c) \/ Cut(d)

(* Engines of two cameras run at the same time (DOCS.md 109) only while one*)
(* of them goes on without the supervisor that go2rtc has killed over it.  *)
THEOREM SessionOneEngine ==
    SessionSpec => [](OneSupervised /\ ((\A c \in Client : ~Cut(c)) => OneEngine))
<1>1. GateInv => OneSupervised
  BY DEF GateInv, OneSupervised, InGate, Alone, Cut
<1>2. OneSupervised => ((\A c \in Client : ~Cut(c)) => OneEngine)
  BY DEF OneSupervised, OneEngine
<1> QED BY <1>1, <1>2, SessionGateInv, PTL
-----------------------------------------------------------------------------
(* The NVR's live session is that of a running engine; one that was closed *)
(* is retired before a supervisor of its owner lets the gate go, which may *)
(* be a later one than that of the engine that closed it.                  *)
RetireInv ==
    /\ owner \notin Client => how = "live"
    /\ \A c \in Client : owner = c /\ how = "live" => eng[c] = "live"
    /\ \A c \in Client :
          owner = c /\ how = "closing" =>
              fade <= Retire /\ (sup[c] = "cool" => due[c] > fade)

(* Every step of the engines and the NVR keeps the owner accounted for. *)
LEMMA RetireKept ==
    ASSUME GateInv, RetireInv, [SessionNext]_all
    PROVE  RetireInv'
<1> USE Waits_Nat, TimesOK
    DEF GateInv, Kinds, InGate, RetireInv, HoldStates, EngineStates, Running, Enter, parts
<1>1. ASSUME NEW c \in Client, Exec(c) PROVE RetireInv'
  BY <1>1 DEF Exec
<1>2. ASSUME NEW c \in Client, Stop(c) PROVE RetireInv'
  BY <1>2 DEF Stop
<1>3. ASSUME NEW c \in Client, Kill(c) PROVE RetireInv'
  BY <1>3 DEF Kill
<1>4. ASSUME NEW c \in Client, JoinQueue(c) PROVE RetireInv'
  BY <1>4 DEF JoinQueue
<1>5. ASSUME NEW c \in Client, Begin(c) PROVE RetireInv'
  BY <1>5 DEF Begin
<1>6. ASSUME NEW c \in Client, GiveUp(c) \/ Release(c) PROVE RetireInv'
  BY <1>6 DEF GiveUp, Release
<1>7. ASSUME NEW c \in Client, Interrupt(c) \/ EngineSeenGone(c) PROVE RetireInv'
  BY <1>7 DEF Interrupt, EngineSeenGone
<1>8. ASSUME NEW c \in Client, Escalate(c) PROVE RetireInv'
  BY <1>8 DEF Escalate
<1>9. ASSUME NEW c \in Client, GroupDone(c) PROVE RetireInv'
  BY <1>9 DEF GroupDone, LosePeer
<1>10. ASSUME NEW c \in Client, Crash(c) PROVE RetireInv'
  BY <1>10 DEF Crash, LosePeer
<1>11. ASSUME NEW c \in Client, Close(c) PROVE RetireInv'
  BY <1>11 DEF Close
<1>12. ASSUME NEW c \in Client, Call(c) PROVE RetireInv'
  BY <1>12 DEF Call
<1>13. CASE SessionRetired \/ AppConnects
  BY <1>13 DEF SessionRetired, AppConnects
<1>14. CASE Tick
  <2>1. ASSUME NEW d \in Client, owner = d, how = "closing"
        PROVE  /\ fade > 0 /\ fade' = fade - 1
               /\ sup[d] = "cool" => due'[d] = due[d] - 1
    BY <1>14, <2>1 DEF Tick, Waits
  <2>2. UNCHANGED <<owner, how, eng, sup>>
    BY <1>14 DEF Tick
  <2> QED BY <2>1, <2>2
<1>15. CASE UNCHANGED all
  BY <1>15 DEF all
<1> QED
  BY <1>1, <1>2, <1>3, <1>4, <1>5, <1>6, <1>7, <1>8, <1>9, <1>10, <1>11, <1>12, <1>13,
     <1>14, <1>15 DEF SessionNext, SupervisorStep

LEMMA RetireInvHolds == SessionSpec => []RetireInv
<1>1. SessionInit => RetireInv
  BY TimesOK DEF SessionInit, RetireInv
<1> QED BY <1>1, RetireKept, SessionGateInv, PTL DEF SessionSpec

(* A supervisor that lets the gate go leaves no session of its own that the*)
(* NVR still serves or retires, other than a ghost, also when the one      *)
(* before it was killed (SESSION_RELEASE_DELAY, eufy_run.py 402-410).      *)
Retires == \A c \in Client : Release(c) => owner # c \/ how = "ghost"

(* The release delay outlasts the NVR's retirement, for any killtimeout.   *)
THEOREM SessionRetires == SessionSpec => [][Retires]_all
<1>1. GateInv /\ RetireInv => Retires
  BY DEF GateInv, Kinds, InGate, EngineStates, RetireInv, Retires, Release
<1> QED BY <1>1, SessionGateInv, RetireInvHolds, PTL DEF SessionSpec

(* go2rtc kills a supervisor over an engine that still runs, or over a     *)
(* session that the NVR has not retired yet.                               *)
CutShort == \E c \in Client : Kill(c) /\ (Running(c) \/ (owner = c /\ how = "closing"))

(* Until that happens, engines and closed sessions are inside the gate.    *)
Untouched ==
    /\ \A c \in Client :
          (eng[c] # "none" \/ (owner = c /\ how = "closing")) => sup[c] \in HoldStates
    /\ \A c \in Client : owner = c /\ how = "closing" => eng[c] = "none"
    /\ blame \in [Client -> {"none", "app", "ghost"}]

(* Every step but such a kill keeps them there. *)
LEMMA UntouchedKept ==
    ASSUME GateInv, RetireInv, Untouched, [SessionNext]_all, ~CutShort
    PROVE  Untouched'
<1> USE Waits_Nat, TimesOK
    DEF GateInv, Kinds, InGate, RetireInv, Untouched, HoldStates, EngineStates, Running,
        Enter, parts
<1>1. ASSUME NEW c \in Client, Exec(c) PROVE Untouched'
  BY <1>1 DEF Exec
<1>2. ASSUME NEW c \in Client, Stop(c) PROVE Untouched'
  BY <1>2 DEF Stop
<1>3. ASSUME NEW c \in Client, Kill(c) PROVE Untouched'
  BY <1>3 DEF Kill, CutShort
<1>4. ASSUME NEW c \in Client, JoinQueue(c) PROVE Untouched'
  BY <1>4 DEF JoinQueue
<1>5. ASSUME NEW c \in Client, Begin(c) PROVE Untouched'
  BY <1>5 DEF Begin
<1>6. ASSUME NEW c \in Client, GiveUp(c) \/ Release(c) PROVE Untouched'
  BY <1>6 DEF GiveUp, Release
<1>7. ASSUME NEW c \in Client, Interrupt(c) \/ EngineSeenGone(c) PROVE Untouched'
  BY <1>7 DEF Interrupt, EngineSeenGone
<1>8. ASSUME NEW c \in Client, Escalate(c) PROVE Untouched'
  BY <1>8 DEF Escalate
<1>9. ASSUME NEW c \in Client, GroupDone(c) PROVE Untouched'
  BY <1>9 DEF GroupDone, LosePeer
<1>10. ASSUME NEW c \in Client, Crash(c) PROVE Untouched'
  BY <1>10 DEF Crash, LosePeer
<1>11. ASSUME NEW c \in Client, Close(c) PROVE Untouched'
  BY <1>11 DEF Close
<1>12. ASSUME NEW c \in Client, Call(c) PROVE Untouched'
  <2>1. CASE owner = Nobody
    BY <1>12, <2>1 DEF Call
  <2>2. CASE owner # Nobody
    <3>1. owner = App \/ how = "ghost"
      <4>1. \A d \in Client :
               owner = d /\ how # "ghost" => sup[d] \in HoldStates /\ eng[d] # "calling"
        OBVIOUS
      <4>2. eng[c] = "calling" /\ sup[c] \in HoldStates
        BY <1>12 DEF Call
      <4>3. \A d \in Client : sup[d] \in HoldStates => d = c
        BY <4>2 DEF Alone
      <4> QED BY <2>2, <4>1, <4>2, <4>3
    <3>2. blame' \in [Client -> {"none", "app", "ghost"}]
      BY <1>12, <2>2, <3>1 DEF Call
    <3> QED BY <1>12, <2>2, <3>2 DEF Call
  <2> QED BY <2>1, <2>2
<1>13. CASE SessionRetired \/ AppConnects
  BY <1>13 DEF SessionRetired, AppConnects
<1>14. CASE Tick
  BY <1>14 DEF Tick
<1>15. CASE UNCHANGED all
  BY <1>15 DEF all
<1> QED
  BY <1>1, <1>2, <1>3, <1>4, <1>5, <1>6, <1>7, <1>8, <1>9, <1>10, <1>11, <1>12, <1>13,
     <1>14, <1>15 DEF SessionNext, SupervisorStep

(* No camera is refused because of a session that another camera of ours   *)
(* still uses or has closed (DOCS.md 112-113), in every behaviour in which *)
(* go2rtc kills no supervisor over its engine or its unretired session;    *)
(* kills at any other point of a teardown do no harm.                      *)
THEOREM SessionNoRace == SessionSpec /\ [][~CutShort]_all => []NoNextCameraRace
<1>1. SessionInit => Untouched
  BY TimesOK DEF SessionInit, Untouched
<1>2. GateInv /\ RetireInv /\ Untouched /\ [SessionNext]_all /\ [~CutShort]_all => Untouched'
  <2>1. UNCHANGED all /\ Untouched => Untouched'
    BY DEF all, parts, Untouched
  <2> QED BY <2>1, UntouchedKept
<1>3. Untouched => NoNextCameraRace
  BY DEF Untouched, NoNextCameraRace
<1> QED BY <1>1, <1>2, <1>3, SessionGateInv, RetireInvHolds, PTL DEF SessionSpec
-----------------------------------------------------------------------------
(* No clock is ever set above the wait it stands for. *)
Ranges ==
    /\ \A c \in Client : due[c] <= MaxWait /\ killIn[c] <= KillTimeout
    /\ fade <= Retire
    /\ blame \in [Client -> {"none", "app", "live", "closing", "ghost"}]

(* Kinds and Ranges are the type invariant. *)
LEMMA TypeParts ==
    ASSUME Kinds, Ranges
    PROVE  SessionTypeOK
BY Waits_Nat DEF Kinds, Ranges, SessionTypeOK, MaxWait

(* Waits are entered with the code's own limits and only counted down. *)
LEMMA RangesKept ==
    ASSUME Kinds, Ranges, [SessionNext]_all
    PROVE  Ranges'
<1> USE Waits_Nat DEF Kinds, Ranges, MaxWait, Enter, parts
<1>1. ASSUME NEW c \in Client, Exec(c) PROVE Ranges'
  BY <1>1 DEF Exec
<1>2. ASSUME NEW c \in Client, Stop(c) PROVE Ranges'
  BY <1>2 DEF Stop
<1>3. ASSUME NEW c \in Client, Kill(c) PROVE Ranges'
  BY <1>3 DEF Kill
<1>4. ASSUME NEW c \in Client, JoinQueue(c) \/ Begin(c) PROVE Ranges'
  BY <1>4 DEF JoinQueue, Begin
<1>5. ASSUME NEW c \in Client, GiveUp(c) \/ Release(c) PROVE Ranges'
  BY <1>5 DEF GiveUp, Release
<1>6. ASSUME NEW c \in Client, Interrupt(c) \/ EngineSeenGone(c) \/ Escalate(c) PROVE Ranges'
  BY <1>6 DEF Interrupt, EngineSeenGone, Escalate
<1>7. ASSUME NEW c \in Client, GroupDone(c) \/ Crash(c) PROVE Ranges'
  BY <1>7 DEF GroupDone, Crash, LosePeer
<1>8. ASSUME NEW c \in Client, Call(c) PROVE Ranges'
  <2>1. blame' \in [Client -> {"none", "app", "live", "closing", "ghost"}]
    BY <1>8 DEF Call
  <2> QED BY <1>8, <2>1 DEF Call
<1>9. ASSUME NEW c \in Client, Close(c) PROVE Ranges'
  BY <1>9 DEF Close
<1>10. CASE SessionRetired \/ AppConnects
  BY <1>10 DEF SessionRetired, AppConnects
<1>11. CASE Tick
  <2>1. ASSUME NEW c \in Client
        PROVE  due'[c] <= due[c] /\ killIn'[c] <= killIn[c]
    BY <1>11 DEF Tick
  <2>2. fade' <= fade
    BY <1>11 DEF Tick
  <2>3. ASSUME NEW c \in Client
        PROVE  due'[c] \in Int /\ killIn'[c] \in Int
    BY <1>11 DEF Tick
  <2>4. fade' \in Int /\ UNCHANGED blame
    BY <1>11 DEF Tick
  <2> QED BY <2>1, <2>2, <2>3, <2>4
<1>12. CASE UNCHANGED all
  BY <1>12 DEF all
<1> QED
  BY <1>1, <1>2, <1>3, <1>4, <1>5, <1>6, <1>7, <1>8, <1>9, <1>10, <1>11, <1>12
     DEF SessionNext, SupervisorStep

(* Every wait of a supervisor, of go2rtc and of the NVR stays within its   *)
(* limit, however stages follow each other; for any killtimeout.           *)
THEOREM SessionTypes == SessionSpec => []SessionTypeOK
<1>1. SessionInit => Kinds /\ Ranges
  BY Waits_Nat DEF SessionInit, Init, Kinds, Ranges, MaxWait, SupStates, EngStates, Standing
<1>2. Kinds /\ Ranges /\ [SessionNext]_all => Kinds' /\ Ranges'
  BY KindsKept, RangesKept
<1> QED BY <1>1, <1>2, TypeParts, PTL DEF SessionSpec
-----------------------------------------------------------------------------
(* What st[c] = "holding" means to go2rtc's processes: the producers and   *)
(* their engines use the gate as SessionArbiter describes it.              *)
LEMMA GateStep ==
    ASSUME [SessionNext]_all
    PROVE  [Next]_vars
<1>1. ASSUME NEW c \in Client, Exec(c) \/ JoinQueue(c) PROVE [Next]_vars
  BY <1>1 DEF Exec, JoinQueue, Next
<1>2. ASSUME NEW c \in Client, Kill(c) \/ GiveUp(c) \/ Release(c) PROVE [Next]_vars
  BY <1>2 DEF Kill, GiveUp, Release, Next
<1>3. ASSUME NEW c \in Client, Begin(c) PROVE [Next]_vars
  BY <1>3 DEF Begin, Next
<1>4. ASSUME NEW c \in Client,
             \/ Stop(c) \/ Interrupt(c) \/ EngineSeenGone(c) \/ Escalate(c)
             \/ GroupDone(c) \/ Call(c) \/ Close(c) \/ Crash(c)
      PROVE  [Next]_vars
  BY <1>4 DEF Stop, Interrupt, EngineSeenGone, Escalate, GroupDone, Call, Close, Crash
<1>5. CASE SessionRetired \/ AppConnects \/ Tick \/ UNCHANGED all
  BY <1>5 DEF SessionRetired, AppConnects, Tick, all
<1> QED BY <1>1, <1>2, <1>3, <1>4, <1>5 DEF SessionNext, SupervisorStep

(* The composition is an arbiter with more variables: what SessionGate     *)
(* promises (GateRefinesArbiter) is all that the producers ask of it.      *)
THEOREM SessionUsesArbiter == SessionSpec => Spec
<1>1. SessionInit => Init
  BY DEF SessionInit
<1> QED BY <1>1, GateStep, PTL DEF SessionSpec, Spec

(* Every step is one of producer d's life, or none of it. *)
LEMMA LifeStep ==
    ASSUME GateInv, [SessionNext]_all, NEW d \in Client
    PROVE  [Life(d)!Next]_(Life(d)!vars)
<1> USE DEF GateInv, Kinds, InGate, EngineStates, HoldStates, Running, Cut, Enter, parts,
            Life!vars
<1>1. ASSUME NEW c \in Client, Exec(c) PROVE UNCHANGED Life(d)!vars
  BY <1>1 DEF Exec, Arrive
<1>2. ASSUME NEW c \in Client, Stop(c) \/ Call(c) PROVE UNCHANGED Life(d)!vars
  BY <1>2 DEF Stop, Call, vars
<1>3. ASSUME NEW c \in Client, Kill(c) PROVE [Life(d)!Kill]_(Life(d)!vars)
  BY <1>3 DEF Kill, Leave, vars, Life!Kill
<1>4. ASSUME NEW c \in Client, JoinQueue(c) PROVE UNCHANGED Life(d)!vars
  BY <1>4 DEF JoinQueue, Enqueue
<1>5. ASSUME NEW c \in Client, Begin(c) PROVE [Life(d)!Begin]_(Life(d)!vars)
  BY <1>5 DEF Begin, Grant, Life!Begin
<1>6. ASSUME NEW c \in Client, GiveUp(c) PROVE UNCHANGED Life(d)!vars
  BY <1>6 DEF GiveUp, Leave
<1>7. ASSUME NEW c \in Client, Interrupt(c) PROVE [Life(d)!Interrupt]_(Life(d)!vars)
  BY <1>7 DEF Interrupt, vars, Life!Interrupt
<1>8. ASSUME NEW c \in Client, EngineSeenGone(c) PROVE [Life(d)!SeenGone]_(Life(d)!vars)
  BY <1>8 DEF EngineSeenGone, vars, Life!SeenGone, Life!Teardown
<1>9. ASSUME NEW c \in Client, Escalate(c) PROVE [Life(d)!Escalate]_(Life(d)!vars)
  BY <1>9 DEF Escalate, vars, Life!Escalate
<1>10. ASSUME NEW c \in Client, GroupDone(c) PROVE [Life(d)!Reaped]_(Life(d)!vars)
  BY <1>10 DEF GroupDone, LosePeer, vars, Life!Reaped
<1>11. ASSUME NEW c \in Client, Release(c) PROVE [Life(d)!Release]_(Life(d)!vars)
  BY <1>11 DEF Release, Leave, Life!Release
<1>12. ASSUME NEW c \in Client, Close(c) \/ Crash(c)
       PROVE  [Life(d)!EngineEnds]_(Life(d)!vars)
  BY <1>12 DEF Close, Crash, LosePeer, vars, Life!EngineEnds
<1>13. CASE SessionRetired \/ AppConnects \/ Tick \/ UNCHANGED all
  BY <1>13 DEF SessionRetired, AppConnects, Tick, all, vars
<1> QED
  BY <1>1, <1>2, <1>3, <1>4, <1>5, <1>6, <1>7, <1>8, <1>9, <1>10, <1>11, <1>12, <1>13
     DEF SessionNext, SupervisorStep, Life!Next

(* Each producer of the composition lives as ProducerLife says, which its  *)
(* supervisor implements in detail (SupervisorLife), at whatever stage     *)
(* go2rtc kills it: the engine starts inside the gate, and is gone when the*)
(* gate is let go by anybody but the kernel.                               *)
THEOREM SessionProducers ==
    ASSUME NEW d \in Client
    PROVE  SessionSpec => Life(d)!Spec
<1>1. SessionInit => Life(d)!Init
  BY DEF SessionInit, Init, Life!Init, HoldStates, Running, Cut
<1>2. GateInv /\ [SessionNext]_all => [Life(d)!Next]_(Life(d)!vars)
  BY LifeStep
<1> QED BY <1>1, <1>2, SessionGateInv, PTL DEF SessionSpec, Life!Spec
-----------------------------------------------------------------------------
(* A client is granted the gate when nobody has it. *)
LEMMA HolderStep ==
    ASSUME TypeOK, OneHolder, [Next]_vars
    PROVE  TypeOK' /\ OneHolder'
<1> USE DEF TypeOK, OneHolder, Holders, Standing
<1>1. ASSUME NEW c \in Client, Arrive(c) \/ Enqueue(c) PROVE TypeOK' /\ OneHolder'
  BY <1>1 DEF Arrive, Enqueue, Queued
<1>2. ASSUME NEW c \in Client, Grant(c) \/ Leave(c) PROVE TypeOK' /\ OneHolder'
  <2>1. TypeOK'
    BY <1>2 DEF Grant, Leave, Forget
  <2>2. OneHolder'
    BY <1>2 DEF Grant, Leave
  <2> QED BY <2>1, <2>2
<1>3. CASE UNCHANGED vars
  BY <1>3 DEF vars
<1> QED BY <1>1, <1>2, <1>3 DEF Next

(* The arbiter keeps its own promise: one client at a time (eufy_run.py    *)
(* 106-113).  SessionGate, which implements it, keeps it too.              *)
THEOREM ArbiterOneHolder == Spec => []OneHolder
<1>1. Init => TypeOK /\ OneHolder
  BY DEF Init, TypeOK, OneHolder, Holders, Standing
<1> QED BY <1>1, HolderStep, PTL DEF Spec

(* In the life of a producer, an engine is there only while it has the     *)
(* gate, or after a kill.                                                  *)
LEMMA LifeInside ==
    ASSUME NEW c
    PROVE  Life(c)!Spec => []Life(c)!Inside
<1> DEFINE Inv == /\ Life(c)!Inside
                  /\ sup[c] \in HoldStates => st[c] = "holding"
<1> USE DEF Life!Inside, HoldStates, Cut
<1>1. Life(c)!Init => Inv
  BY DEF Life!Init
<1>2. Inv /\ [Life(c)!Next]_(Life(c)!vars) => Inv'
  <2> SUFFICES ASSUME Inv, [Life(c)!Next]_(Life(c)!vars) PROVE Inv'
    OBVIOUS
  <2>1. CASE Life(c)!Begin \/ Life(c)!EngineEnds
    BY <2>1 DEF Life!Begin, Life!EngineEnds
  <2>2. CASE Life(c)!Interrupt \/ Life(c)!Escalate \/ Life(c)!SeenGone
    BY <2>2 DEF Life!Interrupt, Life!Escalate, Life!SeenGone, Life!Teardown
  <2>3. CASE Life(c)!Reaped \/ Life(c)!Release \/ Life(c)!Kill
    BY <2>3 DEF Life!Reaped, Life!Release, Life!Kill
  <2>4. CASE UNCHANGED Life(c)!vars
    BY <2>4 DEF Life!vars
  <2> QED BY <2>1, <2>2, <2>3, <2>4 DEF Life!Next
<1>3. Inv => Life(c)!Inside
  OBVIOUS
<1> HIDE DEF Inv
<1> QED BY <1>1, <1>2, <1>3, PTL DEF Life!Spec

(* The two promises together keep engines apart: a producer that lives as  *)
(* ProducerLife says, behind a gate that is an arbiter, runs its engine    *)
(* only as the gate's one holder, but for an engine that go2rtc has cut off*)
(* from its supervisor.  Nothing else of go2rtc, the engines or the NVR is *)
(* needed.                                                                 *)
THEOREM PromisesSuffice ==
    ASSUME NEW c \in Client
    PROVE  Spec /\ Life(c)!Spec => [](Running(c) => Holders = {c} \/ Cut(c))
<1>1. OneHolder /\ Life(c)!Inside => (Running(c) => Holders = {c} \/ Cut(c))
  BY DEF OneHolder, Holders, Life!Inside, Cut, HoldStates
<1>2. Life(c)!Spec => []Life(c)!Inside
  BY LifeInside
<1> QED BY <1>1, <1>2, ArbiterOneHolder, PTL
-----------------------------------------------------------------------------
(* A producer that go2rtc has stopped is out of the gate within StopTime,  *)
(* whether its engine obeys, ignores its signals or dies, wherever the     *)
(* stop meets it, and whatever killtimeout is: killIn counts from the stop *)
(* on, so the difference is the time since then.                           *)
StopBounded ==
    \A c \in Client :
        stopped[c] /\ st[c] # "out" => KillTimeout - killIn[c] <= StopTime

(* What is over and what is still to come never exceed it together. *)
OnSchedule(c) ==
    /\ sup[c] = "gone" => st[c] = "out"
    /\ due[c] <= Longest(sup[c])
    /\ stopped[c] /\ sup[c] # "gone" =>
          (KillTimeout - killIn[c]) + due[c] + Rest(sup[c]) <= StopTime

ScheduleInv == Kinds /\ \A c \in Client : OnSchedule(c)

(* Every step of the supervisors, the engines and go2rtc keeps schedules.  *)
LEMMA ScheduleKept ==
    ASSUME ScheduleInv, [SessionNext]_all
    PROVE  \A c \in Client : OnSchedule(c)'
<1> USE Waits_Nat DEF ScheduleInv, Kinds, OnSchedule, Longest, Rest, StopTime, Running,
                      Enter, parts
<1> SUFFICES ASSUME NEW d \in Client PROVE OnSchedule(d)'
  OBVIOUS
<1>1. ASSUME NEW c \in Client, Exec(c) PROVE OnSchedule(d)'
  BY <1>1 DEF Exec, Arrive
<1>2. ASSUME NEW c \in Client, Stop(c) PROVE OnSchedule(d)'
  BY <1>2 DEF Stop, vars
<1>3. ASSUME NEW c \in Client, Kill(c) PROVE OnSchedule(d)'
  BY <1>3 DEF Kill, Leave, vars
<1>4. ASSUME NEW c \in Client, JoinQueue(c) PROVE OnSchedule(d)'
  BY <1>4 DEF JoinQueue, Enqueue
<1>5. ASSUME NEW c \in Client, Begin(c) PROVE OnSchedule(d)'
  BY <1>5 DEF Begin, Grant
<1>6. ASSUME NEW c \in Client, GiveUp(c) \/ Release(c) PROVE OnSchedule(d)'
  BY <1>6 DEF GiveUp, Release, Leave
<1>7. ASSUME NEW c \in Client, Interrupt(c) PROVE OnSchedule(d)'
  BY <1>7 DEF Interrupt, vars
<1>8. ASSUME NEW c \in Client, EngineSeenGone(c) PROVE OnSchedule(d)'
  BY <1>8 DEF EngineSeenGone, vars
<1>9. ASSUME NEW c \in Client, Escalate(c) PROVE OnSchedule(d)'
  BY <1>9 DEF Escalate, vars
<1>10. ASSUME NEW c \in Client, GroupDone(c) PROVE OnSchedule(d)'
  BY <1>10 DEF GroupDone, LosePeer, vars
<1>11. ASSUME NEW c \in Client, Call(c) \/ Close(c) \/ Crash(c) PROVE OnSchedule(d)'
  BY <1>11 DEF Call, Close, Crash, LosePeer, vars
<1>12. CASE SessionRetired \/ AppConnects \/ UNCHANGED all
  BY <1>12 DEF SessionRetired, AppConnects, all, vars
<1>13. CASE Tick
  <2>1. IF Waits(d) THEN due[d] > 0 /\ due'[d] = due[d] - 1 ELSE due'[d] = due[d]
    BY <1>13 DEF Tick
  <2>2. Impatient(d) => killIn[d] > 0 /\ killIn'[d] = killIn[d] - 1
    BY <1>13 DEF Tick
  <2>3. Impatient(d) => Waits(d)
    BY DEF Impatient, Waits, SupStates
  <2>4. UNCHANGED <<sup, st, stopped>>
    BY <1>13 DEF Tick, vars
  <2> QED BY <2>1, <2>2, <2>3, <2>4 DEF Impatient
<1> QED
  BY <1>1, <1>2, <1>3, <1>4, <1>5, <1>6, <1>7, <1>8, <1>9, <1>10, <1>11, <1>12, <1>13
     DEF SessionNext, SupervisorStep

(* Whatever the lengths of the waits, they are kept (_terminate_tree).     *)
LEMMA ScheduleHolds == SessionSpec => []ScheduleInv
<1>1. SessionInit => ScheduleInv
  BY Waits_Nat DEF SessionInit, Init, ScheduleInv, Kinds, OnSchedule, Longest, Rest,
     SupStates, EngStates, Standing
<1>2. ScheduleInv /\ [SessionNext]_all => ScheduleInv'
  BY KindsKept, ScheduleKept DEF ScheduleInv
<1> QED BY <1>1, <1>2, PTL DEF SessionSpec

(* A stop frees the gate in bounded time: what StoppedLeaves says without  *)
(* a bound, for every length of the waits (_terminate_tree, main).         *)
THEOREM SessionStopBounded == SessionSpec => []StopBounded
<1>1. ScheduleInv => StopBounded
  <2> SUFFICES ASSUME ScheduleInv, NEW c \in Client, stopped[c], st[c] # "out"
               PROVE  KillTimeout - killIn[c] <= StopTime
    BY DEF StopBounded
  <2>1. (KillTimeout - killIn[c]) + due[c] + Rest(sup[c]) <= StopTime
    BY DEF ScheduleInv, OnSchedule
  <2>2. due[c] \in Nat /\ Rest(sup[c]) \in Nat /\ killIn[c] \in Nat
    BY Waits_Nat DEF ScheduleInv, Kinds, Rest
  <2> QED BY <2>1, <2>2, Waits_Nat DEF StopTime
<1> QED BY <1>1, ScheduleHolds, PTL

(* go2rtc kills a supervisor only when killtimeout, what is left of its    *)
(* wait and what would still follow fit into the time of a whole stop: the *)
(* stages before the kill have used up killtimeout.                        *)
KillsLate ==
    \A c \in Client : Kill(c) => KillTimeout + due[c] + Rest(sup[c]) <= StopTime

(* So a killtimeout of StopTime or more ends a supervisor only with the    *)
(* last tick of its release delay, and a shorter one cuts off as much as it*)
(* is short of (gen_go2rtc.py 168-171, eufy_run.py 232-279).               *)
THEOREM SessionTiming == SessionSpec => [][KillsLate]_all
<1>1. ScheduleInv => KillsLate
  <2> SUFFICES ASSUME ScheduleInv, NEW c \in Client, Kill(c)
               PROVE  KillTimeout + due[c] + Rest(sup[c]) <= StopTime
    BY DEF KillsLate
  <2>1. (KillTimeout - killIn[c]) + due[c] + Rest(sup[c]) <= StopTime /\ killIn[c] = 0
    BY DEF ScheduleInv, OnSchedule, Kill
  <2> QED BY <2>1, Waits_Nat
<1> QED BY <1>1, ScheduleHolds, PTL

(* An engine that obeys SIGINT keeps its supervisor: when killtimeout is   *)
(* longer than two polls and the wait after SIGINT, as the shipped 5 s are *)
(* (polls of 0.1 and 0.5 s, 3 s after SIGINT), go2rtc kills none over an   *)
(* engine that SIGTERM has not been sent to (gen_go2rtc.py 170).           *)
THEOREM SessionSigtermFirst ==
    ASSUME KillTimeout > 2 * PollWait + IntWait
    PROVE  SessionSpec =>
             [][\A c \in Client : Kill(c) /\ Running(c) => sup[c] \notin {"gate", "run", "int"}]_all
<1> DEFINE Obeyed == \A c \in Client :
                        Kill(c) /\ Running(c) => sup[c] \notin {"gate", "run", "int"}
<1>1. ScheduleInv => Obeyed
  <2> SUFFICES ASSUME ScheduleInv, NEW c \in Client, Kill(c), sup[c] \in {"gate", "run", "int"}
               PROVE  FALSE
    OBVIOUS
  <2>1. /\ (KillTimeout - killIn[c]) + due[c] + Rest(sup[c]) <= StopTime
        /\ killIn[c] = 0 /\ due[c] \in Nat
    BY DEF ScheduleInv, OnSchedule, Kill, Kinds
  <2> QED BY <2>1, Waits_Nat DEF StopTime, Rest
<1> HIDE DEF Obeyed
<1>2. SessionSpec => [][Obeyed]_all
  BY <1>1, ScheduleHolds, PTL
<1> QED BY <1>2 DEF Obeyed
=============================================================================
