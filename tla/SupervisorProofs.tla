-------------------------- MODULE SupervisorProofs --------------------------
(***************************************************************************)
(* The producer supervisor, for any number of attempts and any limits:     *)
(* what a session leaves behind never outlives the hold on the gate, exit  *)
(* status 0 is never a disguised timeout, an engine that says nothing is   *)
(* stopped in time, however late its log is read; and the supervisor is a  *)
(* ProducerLife that runs engines with an EngineLog.                       *)
(***************************************************************************)
EXTENDS Supervisor, TLAPS

(* The gate is held from the start of an attempt to the end of its release *)
(* delay, and the teardown is over before that delay begins.               *)
TeardownInv ==
    /\ phase \in Phases
    /\ phase \in Attempting => gate
    /\ phase \notin {"run", "int", "term", "group"} => engine # "up" /\ ~group

(* No step lets the gate go before the engine and its children are gone. *)
LEMMA TeardownStep ==
    ASSUME TeardownInv, [Next]_vars
    PROVE  TeardownInv'
<1> USE DEF TeardownInv, Attempting, Phases
<1>1. CASE Start \/ StopBeforeStart \/ BackoffEnds \/ SeeExit
  BY <1>1 DEF Start, StopBeforeStart, BackoffEnds, SeeExit, session
<1>2. CASE Poll
  BY <1>2 DEF Poll
<1>3. CASE Interrupted \/ Escalate \/ TermTimesOut
  BY <1>3 DEF Interrupted, Escalate, TermTimesOut, session
<1>4. CASE GroupGone
  BY <1>4 DEF GroupGone, session
<1>5. CASE KillGroup
  BY <1>5 DEF KillGroup
<1>6. CASE Release \/ Judge
  BY <1>6 DEF Release, Judge, session
<1>7. CASE Relay
  BY <1>7 DEF Relay
<1>8. CASE EngineStep
  BY <1>8 DEF EngineStep, Say, EngineEnds, GroupEnds
<1>9. CASE Signal \/ UNCHANGED vars
  BY <1>9 DEF Signal, vars, session
<1> QED
  BY <1>1, <1>2, <1>3, <1>4, <1>5, <1>6, <1>7, <1>8, <1>9 DEF Next, Main

(* The gate spans the attempt, its teardown and its release delay          *)
(* (eufy_run.py 402-410).                                                  *)
THEOREM SupervisorTeardown == Spec => []TeardownInv
<1>1. Init => TeardownInv
  BY DEF Init, TeardownInv, Attempting, Phases
<1> QED BY <1>1, TeardownStep, PTL DEF Spec

(* No process of a session outlives this producer's hold on the gate       *)
(* (_terminate_tree; eufy_run.py 402-410).                                 *)
THEOREM SupervisorInsideGate == Spec => []SessionInsideGate
<1>1. TeardownInv => SessionInsideGate
  BY DEF TeardownInv, SessionInsideGate, Attempting
<1> QED BY <1>1, SupervisorTeardown, PTL
-----------------------------------------------------------------------------
(* An attempt that ended with reason "exit" ended by itself: the supervisor *)
(* has signalled nobody who was still there.                                *)
VerdictInv ==
    /\ TeardownInv
    /\ phase # "done" => result = -1
    /\ phase \in {"int", "term"} => reason # "exit"
    /\ phase = "run" => reason = "exit" /\ ~signalled
    /\ reason = "exit" /\ phase \in {"group", "cool", "judge"} => ~signalled
    /\ reason = "exit" /\ phase = "group" => engine # "up"
    /\ reason = "shutdown" /\ phase \in {"int", "term", "group", "cool", "judge"} => stop
    /\ SuccessIsReal

(* A verdict is never "exit", and it is "shutdown" only when a stop was    *)
(* asked for.                                                              *)
LEMMA VerdictMeans ==
    ASSUME NEW r, NEW a, NEW i, NEW d, Verdict(r, a, i, d)
    PROVE  r # "exit" /\ (r = "shutdown" => stop)
<1>1. PICK k \in DOMAIN Reasons : r = Reasons[k] /\ Applies(Reasons[k], a, i, d)
  BY DEF Verdict
<1>2. r # "exit"
  BY <1>1 DEF Reasons
<1>3. r = "shutdown" => stop
  BY <1>1 DEF Applies
<1> QED BY <1>2, <1>3

(* No step turns an attempt the supervisor ended into a success. *)
LEMMA VerdictStep ==
    ASSUME VerdictInv, [Next]_vars
    PROVE  VerdictInv'
<1> USE DEF VerdictInv, SuccessIsReal
<1>0. TeardownInv'
  BY TeardownStep
<1>1. CASE Start \/ StopBeforeStart \/ BackoffEnds \/ SeeExit
  BY <1>0, <1>1 DEF Start, StopBeforeStart, BackoffEnds, SeeExit, session, outcome
<1>2. CASE Poll
  <2>1. /\ phase = "run" /\ UNCHANGED <<stop, engine, rc, result>>
        /\ \/ /\ reason' # "exit" /\ (reason' = "shutdown" => stop)
              /\ phase' \in {"int", "group"}
           \/ /\ UNCHANGED <<reason, signalled>>
              /\ phase' = IF engine = "up" THEN "run" ELSE "group"
    BY <1>2, VerdictMeans DEF Poll
  <2> QED BY <1>0, <2>1
<1>3. CASE Interrupted \/ Escalate \/ TermTimesOut
  BY <1>0, <1>3 DEF Interrupted, Escalate, TermTimesOut, session, outcome
<1>4. CASE GroupGone
  BY <1>0, <1>4 DEF GroupGone, session, outcome
<1>5. CASE KillGroup
  <2>1. phase = "group" /\ phase' = "cool" /\ UNCHANGED <<stop, reason, result>>
    BY <1>5 DEF KillGroup, outcome
  <2>2. ~signalled /\ engine # "up" => ~signalled'
    BY <1>5, Zenon DEF KillGroup
  <2> QED BY <1>0, <2>1, <2>2
<1>6. CASE Release
  BY <1>0, <1>6 DEF Release, outcome
<1>7. CASE Judge
  <2>1. ReturnValue = 0 => reason = "shutdown" \/ (reason = "exit" /\ rc = 0)
    BY DEF ReturnValue
  <2>2. SuccessIsReal'
    BY <1>7, <2>1 DEF Judge, session
  <2> QED BY <1>0, <1>7, <2>2 DEF Judge, session
<1>8. CASE Relay
  BY <1>0, <1>8 DEF Relay, outcome
<1>9. CASE EngineStep
  BY <1>0, <1>9 DEF EngineStep, Say, EngineEnds, GroupEnds, outcome, TeardownInv
<1>10. CASE Signal \/ UNCHANGED vars
  BY <1>0, <1>10 DEF Signal, vars, session, outcome
<1> QED
  BY <1>1, <1>2, <1>3, <1>4, <1>5, <1>6, <1>7, <1>8, <1>9, <1>10 DEF Next, Main

(* Return code 0 means a stop that was asked for or an exit of the engine's *)
(* own (eufy_run.py 434-439).                                               *)
THEOREM SupervisorSuccess == Spec => []SuccessIsReal
<1>1. Init => VerdictInv
  BY DEF Init, VerdictInv, TeardownInv, Attempting, Phases, SuccessIsReal
<1>2. Spec => []VerdictInv
  BY <1>1, VerdictStep, PTL DEF Spec
<1>3. VerdictInv => SuccessIsReal
  BY DEF VerdictInv
<1> QED BY <1>2, <1>3, PTL
-----------------------------------------------------------------------------
(* The clocks and limits as numbers. *)
LEMMA Limits_Nat ==
    /\ MaxAttempts \in Nat /\ MaxAttempts > 0 /\ PipeSize \in Nat /\ PipeSize > 0
    /\ SignalTimeout \in Nat /\ StallTimeout \in Nat /\ IdleCap \in Nat
BY LimitsOK DEF IdleCap

(* An attempt's reason before any verdict. *)
LEMMA ExitReason == "exit" \in ReasonSet
BY DEF ReasonSet

(* No log line yet. *)
LEMMA EmptyPipe == <<>> \in Seq(Marker) /\ Len(<<>>) <= PipeSize
BY Limits_Nat

(* A clock stays below its cap. *)
LEMMA LaterBounded ==
    ASSUME NEW cap \in Nat, NEW clock \in 0 .. cap
    PROVE  Later(clock, cap) \in 0 .. cap
BY DEF Later

(* TypeOK in three parts: the flags, the pipe, and the rest. *)
FlagsOK == {discovery, stop, gate, group, signalled, shown, denied} \subseteq BOOLEAN
PipeOK == pipe \in Seq(Marker) /\ Len(pipe) <= PipeSize
StateOK ==
    /\ phase \in Phases
    /\ attempt \in 1 .. MaxAttempts
    /\ engine \in {"none", "up", "dead"}
    /\ rc \in {0, 1}
    /\ said \in SUBSET Marker
    /\ age \in 0 .. SignalTimeout
    /\ idle \in 0 .. IdleCap
    /\ dark \in 0 .. StallTimeout
    /\ reason \in ReasonSet
    /\ result \in {-1, 0, 1, 75, 78}

(* ... and nothing else. *)
LEMMA TypeParts == TypeOK <=> FlagsOK /\ PipeOK /\ StateOK
<1>1. FlagsOK <=> /\ discovery \in BOOLEAN /\ stop \in BOOLEAN /\ gate \in BOOLEAN
                  /\ group \in BOOLEAN /\ signalled \in BOOLEAN /\ shown \in BOOLEAN
                  /\ denied \in BOOLEAN
  BY Zenon DEF FlagsOK
<1> QED BY <1>1, Zenon DEF TypeOK, PipeOK, StateOK

(* The flags are only ever set from flags. *)
LEMMA FlagsStep ==
    ASSUME FlagsOK, [Next]_vars
    PROVE  FlagsOK'
<1> USE DEF FlagsOK, session, outcome
<1>1. CASE Start
  BY <1>1, Zenon DEF Start
<1>2. CASE StopBeforeStart \/ BackoffEnds \/ SeeExit
  BY <1>2, Zenon DEF StopBeforeStart, BackoffEnds, SeeExit
<1>3. CASE Poll
  <2>1. signalled' = TRUE \/ signalled' = signalled
    BY <1>3, Zenon DEF Poll
  <2>2. UNCHANGED <<discovery, stop, gate, group, shown, denied>>
    BY <1>3, Zenon DEF Poll
  <2> QED BY <2>1, <2>2, Zenon
<1>4. CASE Interrupted \/ Escalate \/ TermTimesOut \/ GroupGone
  BY <1>4, Zenon DEF Interrupted, Escalate, TermTimesOut, GroupGone
<1>5. CASE KillGroup
  BY <1>5, Zenon DEF KillGroup
<1>6. CASE Release \/ Judge
  BY <1>6, Zenon DEF Release, Judge
<1>7. CASE Relay
  BY <1>7, Zenon DEF Relay
<1>8. CASE EngineStep
  BY <1>8, Zenon DEF EngineStep, Say, EngineEnds, GroupEnds
<1>9. CASE Signal
  BY <1>9, Zenon DEF Signal
<1>10. CASE UNCHANGED vars
  BY <1>10, Zenon DEF vars
<1> QED
  BY <1>1, <1>2, <1>3, <1>4, <1>5, <1>6, <1>7, <1>8, <1>9, <1>10 DEF Next, Main

(* Only Say fills the pipe, and only while it has room. *)
LEMMA PipeStep ==
    ASSUME PipeOK, [Next]_vars
    PROVE  PipeOK'
<1> USE Limits_Nat, EmptyPipe DEF PipeOK, session
<1>1. CASE Start \/ Release
  BY <1>1 DEF Start, Release
<1>2. CASE Relay
  <2>1. /\ Tail(pipe) \in Seq(Marker) /\ Len(Tail(pipe)) = Len(pipe) - 1
        /\ Len(pipe) \in Nat
    BY <1>2 DEF Relay
  <2> QED BY <1>2, <2>1 DEF Relay
<1>3. ASSUME NEW m \in Marker, Say(m) PROVE PipeOK'
  <2>1. Append(pipe, m) \in Seq(Marker) /\ Len(Append(pipe, m)) = Len(pipe) + 1
    OBVIOUS
  <2> QED BY <1>3, <2>1 DEF Say
<1>4. \/ Start \/ Release \/ Relay \/ \E m \in Marker : Say(m)
      \/ UNCHANGED pipe
  BY DEF Next, Main, EngineStep, StopBeforeStart, BackoffEnds, SeeExit, Poll, Interrupted,
         Escalate, TermTimesOut, GroupGone, KillGroup, Judge, EngineEnds, GroupEnds, Signal,
         vars
<1> QED BY <1>1, <1>2, <1>3, <1>4

(* Attempts, clocks and results keep their ranges. *)
LEMMA StateStep ==
    ASSUME StateOK, [Next]_vars
    PROVE  StateOK'
<1> USE Limits_Nat, ExitReason DEF StateOK, Phases, session, outcome
<1>1. CASE Start \/ Release
  BY <1>1 DEF Start, Release
<1>2. CASE StopBeforeStart \/ BackoffEnds \/ SeeExit
  BY <1>2 DEF StopBeforeStart, BackoffEnds, SeeExit
<1>3. CASE Poll
  <2>1. age' \in 0 .. SignalTimeout /\ idle' \in 0 .. IdleCap /\ dark' \in 0 .. StallTimeout
    BY <1>3, LaterBounded DEF Poll
  <2>2. reason' \in ReasonSet /\ phase' \in Phases
    BY <1>3 DEF Poll
  <2>3. UNCHANGED <<attempt, engine, rc, said, result>>
    BY <1>3 DEF Poll
  <2> QED BY <2>1, <2>2, <2>3
<1>4. CASE Interrupted \/ Escalate \/ TermTimesOut \/ GroupGone
  BY <1>4 DEF Interrupted, Escalate, TermTimesOut, GroupGone
<1>5. CASE KillGroup
  BY <1>5 DEF KillGroup
<1>6. CASE Judge
  <2>1. ReturnValue \in {-1, 0, 1, 75, 78}
    BY DEF ReturnValue
  <2>2. ReturnValue = -1 => attempt + 1 \in 1 .. MaxAttempts
    BY DEF ReturnValue
  <2> QED BY <1>6, <2>1, <2>2 DEF Judge
<1>7. CASE Relay
  BY <1>7 DEF Relay
<1>8. CASE EngineStep
  <2>1. ASSUME NEW m \in Marker, Say(m) PROVE StateOK'
    BY <2>1 DEF Say
  <2>2. ASSUME NEW status \in {0, 1}, NEW children \in BOOLEAN, EngineEnds(status, children)
        PROVE  StateOK'
    BY <2>2 DEF EngineEnds
  <2>3. CASE GroupEnds
    BY <2>3 DEF GroupEnds
  <2> QED BY <1>8, <2>1, <2>2, <2>3 DEF EngineStep
<1>9. CASE Signal \/ UNCHANGED vars
  BY <1>9 DEF Signal, vars
<1> QED
  BY <1>1, <1>2, <1>3, <1>4, <1>5, <1>6, <1>7, <1>8, <1>9 DEF Next, Main

(* Attempts stay within MAX_ATTEMPTS, every clock within the limit it is   *)
(* compared with, and the result is one of the documented exit codes       *)
(* (eufy_run.py 412-485).                                                  *)
THEOREM SupervisorTypeOK == Spec => []TypeOK
<1>1. Init => FlagsOK
  BY Zenon DEF Init, FlagsOK
<1>2. Init => PipeOK
  BY EmptyPipe DEF Init, PipeOK
<1>3. Init => StateOK
  BY Limits_Nat, ExitReason DEF Init, StateOK, Phases
<1>4. FlagsOK /\ PipeOK /\ StateOK /\ [Next]_vars => FlagsOK' /\ PipeOK' /\ StateOK'
  BY FlagsStep, PipeStep, StateStep
<1> QED BY <1>1, <1>2, <1>3, <1>4, TypeParts, PTL DEF Spec
-----------------------------------------------------------------------------
(* Every step of the supervisor and its engine is one of the producer's    *)
(* life, or none of it.                                                    *)
LEMMA LifeStep ==
    ASSUME TeardownInv, [Next]_vars
    PROVE  [Life!Next]_(Life!vars)
<1> USE DEF TeardownInv, Attempting, session, outcome, Life!vars
<1>1. CASE Start
  BY <1>1 DEF Start, Life!Next, Life!Begin
<1>2. CASE StopBeforeStart \/ BackoffEnds \/ Judge
  BY <1>2 DEF StopBeforeStart, BackoffEnds, Judge
<1>3. CASE SeeExit \/ Interrupted
  <2>1. phase \in {"run", "int", "term"} /\ engine # "up" /\ phase' = "group"
        /\ UNCHANGED <<gate, engine, group>>
    BY <1>3 DEF SeeExit, Interrupted
  <2> QED BY <2>1 DEF Life!Next, Life!SeenGone, Life!Teardown
<1>4. CASE Poll
  <2>1. /\ phase = "run" /\ UNCHANGED <<gate, engine, group>>
        /\ phase' \in (IF engine = "up" THEN {"run", "int"} ELSE {"group"})
    BY <1>4 DEF Poll
  <2> QED BY <2>1 DEF Life!Next, Life!Interrupt, Life!SeenGone, Life!Teardown
<1>5. CASE Escalate \/ TermTimesOut
  BY <1>5 DEF Escalate, TermTimesOut, Life!Next, Life!Escalate
<1>6. CASE GroupGone
  BY <1>6 DEF GroupGone, Life!Next, Life!Reaped
<1>7. CASE KillGroup
  BY <1>7 DEF KillGroup, Life!Next, Life!Reaped
<1>8. CASE Release
  BY <1>8 DEF Release, Life!Next, Life!Release
<1>9. CASE Relay
  BY <1>9 DEF Relay
<1>10. ASSUME NEW m \in Marker, Say(m) PROVE [Life!Next]_(Life!vars)
  BY <1>10 DEF Say
<1>11. ASSUME NEW status, NEW children, EngineEnds(status, children)
       PROVE  [Life!Next]_(Life!vars)
  BY <1>11 DEF EngineEnds, Life!Next, Life!EngineEnds
<1>12. CASE GroupEnds
  BY <1>12 DEF GroupEnds, Life!Next, Life!EngineEnds
<1>13. CASE Signal \/ UNCHANGED vars
  BY <1>13 DEF Signal, vars
<1> QED
  BY <1>1, <1>2, <1>3, <1>4, <1>5, <1>6, <1>7, <1>8, <1>9, <1>10, <1>11, <1>12, <1>13
     DEF Next, Main, EngineStep

(* The supervisor implements ProducerLife (run_attempt, _terminate_tree,   *)
(* and the gate around them in main), which is all that NvrSession assumes *)
(* of the producers it composes (SessionProducers).                        *)
THEOREM SupervisorLife == Spec => LifeSpec
<1>1. Init => Life!Init
  BY DEF Init, Life!Init, Attempting
<1> QED BY <1>1, LifeStep, SupervisorTeardown, PTL DEF Spec, LifeSpec, Life!Spec

(* An engine starts with an empty log and says "dc" after "sdp" only. *)
LEMMA LogStep ==
    ASSUME TeardownInv, [Next]_vars
    PROVE  [Log!Next]_(Log!vars)
<1> USE DEF session, Log!vars
<1>1. CASE Start
  BY <1>1 DEF Start, TeardownInv, Log!Next, Log!Begins
<1>2. CASE StopBeforeStart \/ BackoffEnds \/ SeeExit
  BY <1>2 DEF StopBeforeStart, BackoffEnds, SeeExit
<1>3. CASE Poll \/ Interrupted \/ Escalate \/ TermTimesOut
  BY <1>3 DEF Poll, Interrupted, Escalate, TermTimesOut
<1>4. CASE GroupGone \/ Release \/ Judge \/ Signal \/ UNCHANGED vars
  BY <1>4 DEF GroupGone, Release, Judge, Signal, vars
<1>5. CASE KillGroup
  BY <1>5 DEF KillGroup, Log!Next, Log!Ends
<1>6. CASE Relay
  BY <1>6 DEF Relay
<1>7. ASSUME NEW m \in Marker, Say(m) PROVE [Log!Next]_(Log!vars)
  <2>1. engine = "up" /\ engine' = "up" /\ said' = said \cup {m}
    BY <1>7 DEF Say
  <2>2. m = "dc" => "sdp" \in said
    BY <1>7 DEF Say, CanPrint
  <2>3. m \notin {"sdp", "dc"} => said' \cap {"sdp", "dc"} = said \cap {"sdp", "dc"}
    BY <2>1
  <2>4. m = "sdp" => Log!OfferReceived
    BY <2>1 DEF Log!OfferReceived
  <2>5. m = "dc" => Log!ChannelOpen
    BY <2>1, <2>2 DEF Log!ChannelOpen
  <2> QED BY <2>1, <2>3, <2>4, <2>5 DEF Log!Next
<1>8. ASSUME NEW status, NEW children, EngineEnds(status, children)
      PROVE  [Log!Next]_(Log!vars)
  BY <1>8 DEF EngineEnds, Log!Next, Log!Ends
<1>9. CASE GroupEnds
  BY <1>9 DEF GroupEnds
<1> QED
  BY <1>1, <1>2, <1>3, <1>4, <1>5, <1>6, <1>7, <1>8, <1>9 DEF Next, Main, EngineStep

(* What the supervisor takes its engines to print is an EngineLog: the     *)
(* same that the engine keeps (EngineLogged).                              *)
THEOREM SupervisorLog == Spec => LogSpec
<1>1. Init => Log!Init
  BY DEF Init, Log!Init
<1> QED BY <1>1, LogStep, SupervisorTeardown, PTL DEF Spec, LogSpec, Log!Spec
-----------------------------------------------------------------------------
(* The relay reads late, but in order: what stands between the stages of   *)
(* the log is either unread as a whole or read in the engine's order.      *)
OrderInv ==
    /\ Log!Ordered
    /\ shown \/ (\E i \in DOMAIN pipe : pipe[i] = "video") => "dc" \in said
    /\ \A i \in DOMAIN pipe :
          /\ pipe[i] = "sdp" /\ "dc" \in said =>
                \E j \in DOMAIN pipe : j > i /\ pipe[j] = "dc"
          /\ pipe[i] = "dc" =>
                ~shown /\ \A j \in DOMAIN pipe : j < i => pipe[j] # "video"

(* The engine adds lines at the end of the pipe. *)
LEMMA OrderSay ==
    ASSUME PipeOK, OrderInv, NEW m \in Marker, Say(m)
    PROVE  OrderInv'
<1>1. /\ UNCHANGED shown /\ said' = said \cup {m} /\ pipe' = Append(pipe, m)
      /\ CanPrint(m)
  BY DEF Say
<1>2. /\ Len(pipe) \in Nat /\ DOMAIN pipe = 1 .. Len(pipe)
      /\ DOMAIN pipe' = 1 .. Len(pipe) + 1
      /\ pipe'[Len(pipe) + 1] = m
      /\ \A i \in DOMAIN pipe : pipe'[i] = pipe[i]
  BY <1>1 DEF PipeOK
<1>3. /\ m = "sdp" => "sdp" \notin said
      /\ m = "dc" => "sdp" \in said /\ "dc" \notin said
      /\ m = "video" => "dc" \in said
  BY <1>1 DEF CanPrint
<1>4. (Log!Ordered)' /\ (m = "sdp" => "dc" \notin said')
  BY <1>1, <1>3 DEF OrderInv, Log!Ordered
<1>5. shown' \/ (\E i \in DOMAIN pipe' : pipe'[i] = "video") => "dc" \in said'
  BY <1>1, <1>2, <1>3 DEF OrderInv
<1>6. ASSUME NEW i \in DOMAIN pipe', pipe'[i] = "sdp", "dc" \in said'
      PROVE  \E j \in DOMAIN pipe' : j > i /\ pipe'[j] = "dc"
  <2>1. i \in DOMAIN pipe /\ pipe[i] = "sdp"
    BY <1>2, <1>4, <1>6
  <2>2. CASE m = "dc"
    BY <1>2, <2>1, <2>2
  <2>3. CASE m # "dc"
    <3>1. PICK j \in DOMAIN pipe : j > i /\ pipe[j] = "dc"
      BY <1>1, <1>6, <2>1, <2>3 DEF OrderInv
    <3> QED BY <1>2, <3>1
  <2> QED BY <2>2, <2>3
<1>7. ASSUME NEW i \in DOMAIN pipe', pipe'[i] = "dc"
      PROVE  ~shown' /\ \A j \in DOMAIN pipe' : j < i => pipe'[j] # "video"
  <2>1. CASE i \in DOMAIN pipe
    BY <1>1, <1>2, <1>7, <2>1 DEF OrderInv
  <2>2. CASE i \notin DOMAIN pipe
    <3>1. m = "dc" /\ i = Len(pipe) + 1
      BY <1>2, <1>7, <2>2
    <3> QED BY <1>1, <1>2, <1>3, <3>1 DEF OrderInv
  <2> QED BY <2>1, <2>2
<1> QED BY <1>4, <1>5, <1>6, <1>7 DEF OrderInv

(* The relay takes them from its front. *)
LEMMA OrderRelay ==
    ASSUME PipeOK, OrderInv, Relay
    PROVE  OrderInv'
<1>1. /\ UNCHANGED said /\ pipe # <<>> /\ pipe' = Tail(pipe)
      /\ shown' = (shown \/ Head(pipe) = "video")
  BY DEF Relay
<1>2. /\ Len(pipe) \in Nat /\ Len(pipe) > 0 /\ DOMAIN pipe = 1 .. Len(pipe)
      /\ DOMAIN pipe' = 1 .. Len(pipe) - 1
      /\ \A i \in DOMAIN pipe' : i + 1 \in DOMAIN pipe /\ pipe'[i] = pipe[i + 1]
      /\ Head(pipe) = pipe[1]
  BY <1>1 DEF PipeOK
<1>3. (Log!Ordered)'
  BY <1>1 DEF OrderInv, Log!Ordered
<1>4. shown' \/ (\E i \in DOMAIN pipe' : pipe'[i] = "video") => "dc" \in said'
  <2>1. shown' => shown \/ (1 \in DOMAIN pipe /\ pipe[1] = "video")
    <3>1. shown' => shown \/ Head(pipe) = "video"
      BY <1>1, Zenon
    <3> QED BY <1>2, <3>1
  <2>2. ASSUME NEW i \in DOMAIN pipe', pipe'[i] = "video"
        PROVE  \E j \in DOMAIN pipe : pipe[j] = "video"
    BY <1>2, <2>2
  <2> QED BY <1>1, <2>1, <2>2 DEF OrderInv
<1>5. ASSUME NEW i \in DOMAIN pipe', pipe'[i] = "sdp", "dc" \in said'
      PROVE  \E j \in DOMAIN pipe' : j > i /\ pipe'[j] = "dc"
  <2>1. PICK j \in DOMAIN pipe : j > i + 1 /\ pipe[j] = "dc"
    BY <1>1, <1>2, <1>5 DEF OrderInv
  <2>2. j - 1 \in DOMAIN pipe' /\ j - 1 > i /\ pipe'[j - 1] = "dc"
    BY <1>2, <2>1
  <2> QED BY <2>2
<1>6. ASSUME NEW i \in DOMAIN pipe', pipe'[i] = "dc"
      PROVE  ~shown' /\ \A j \in DOMAIN pipe' : j < i => pipe'[j] # "video"
  <2>1. /\ i + 1 \in DOMAIN pipe /\ pipe[i + 1] = "dc" /\ i \in Nat /\ i > 0
        /\ 1 \in DOMAIN pipe
    BY <1>2, <1>6
  <2>2. ~shown /\ \A j \in DOMAIN pipe : j < i + 1 => pipe[j] # "video"
    BY <2>1 DEF OrderInv
  <2>3. pipe[1] # "video"
    BY <2>1, <2>2
  <2>4. ~shown'
    BY <1>1, <1>2, <2>2, <2>3
  <2>5. ASSUME NEW j \in DOMAIN pipe', j < i PROVE pipe'[j] # "video"
    BY <1>2, <2>1, <2>2, <2>5
  <2> QED BY <2>4, <2>5
<1> QED BY <1>3, <1>4, <1>5, <1>6 DEF OrderInv

(* Everything else leaves the log alone, or starts or ends it. *)
LEMMA OrderStep ==
    ASSUME PipeOK, OrderInv, [Next]_vars
    PROVE  OrderInv'
<1>1. CASE Start
  BY <1>1 DEF Start, OrderInv, Log!Ordered
<1>2. CASE Release
  BY <1>2 DEF Release, OrderInv, Log!Ordered
<1>3. ASSUME UNCHANGED <<said, pipe, shown>> PROVE OrderInv'
  BY <1>3 DEF OrderInv, Log!Ordered
<1>4. \/ Start \/ Release \/ Relay \/ \E m \in Marker : Say(m)
      \/ UNCHANGED <<said, pipe, shown>>
  BY DEF Next, Main, EngineStep, StopBeforeStart, BackoffEnds, SeeExit, Poll, Interrupted,
         Escalate, TermTimesOut, GroupGone, KillGroup, Judge, EngineEnds, GroupEnds, Signal,
         session, vars
<1> QED BY <1>1, <1>2, <1>3, <1>4, OrderSay, OrderRelay

Limits == {"signaling_timeout", "connection_timeout", "first_frame_timeout", "stream_stall"}

(* No two of the four limits can be exceeded in the same poll, whatever    *)
(* the clocks show and however late the log is read: an attempt is judged  *)
(* by the stage it has reached, and the order of the tests does not matter *)
(* (eufy_run.py 331-350).                                                  *)
LimitsApart ==
    \A r, q \in Limits, a, i, d \in Nat :
        Applies(r, a, i, d) /\ Applies(q, a, i, d) => r = q

(* A limit is exceeded at one stage only, since a later stage's line is    *)
(* never read before an earlier one's (_relay_stderr, inspect_log_line).   *)
THEOREM SupervisorStages == Spec => []LimitsApart
<1>1. Init => PipeOK /\ OrderInv
  BY EmptyPipe DEF Init, PipeOK, OrderInv, Log!Ordered
<1>2. PipeOK /\ OrderInv /\ [Next]_vars => PipeOK' /\ OrderInv'
  BY PipeStep, OrderStep
<1>3. OrderInv => LimitsApart
  <2> SUFFICES ASSUME OrderInv, NEW r \in Limits, NEW q \in Limits,
                      NEW a \in Nat, NEW i \in Nat, NEW d \in Nat,
                      Applies(r, a, i, d), Applies(q, a, i, d)
               PROVE  r = q
    BY DEF LimitsApart
  <2>1. Seen("dc") => Seen("sdp")
    BY DEF OrderInv, Seen, Log!Ordered
  <2>2. shown => Seen("dc")
    BY DEF OrderInv, Seen
  <2>3. ASSUME NEW l \in Limits, Applies(l, a, i, d)
        PROVE  /\ l = "signaling_timeout"   => ~Seen("sdp")
               /\ l = "connection_timeout"  => Seen("sdp") /\ ~Seen("dc")
               /\ l = "first_frame_timeout" => Seen("dc") /\ ~shown
               /\ l = "stream_stall"        => shown
    BY <2>3 DEF Applies
  <2> HIDE DEF Seen
  <2> QED BY <2>1, <2>2, <2>3 DEF Limits
<1> QED BY <1>1, <1>2, <1>3, PTL DEF Spec
-----------------------------------------------------------------------------
(* An attempt that is still watched has exceeded none of them: whatever    *)
(* the engine prints, and however late it is read, each stage is as silent *)
(* as its limit allows at most.  NoSilentHang in bounded form, and for     *)
(* discovery as well, up to its channel (run_attempt; issues #5, #6 in     *)
(* eufy_run.py 7-9).                                                       *)
SilenceBounded == phase = "run" => \A r \in Limits : ~Applies(r, age, idle, dark)

(* Line by line, what the limits look at. *)
Silence ==
    phase = "run" =>
        /\ ~Seen("sdp") => age < SignalTimeout
        /\ Seen("sdp") /\ ~Seen("dc") => idle < ConnectionTimeout
        /\ ~discovery /\ Seen("dc") /\ ~shown => idle < FirstFrameTimeout
        /\ ~discovery /\ shown => dark < StallTimeout

(* A poll that ends in no verdict has found no condition that applies: if  *)
(* one did, the first of them would be the verdict.                        *)
LEMMA NoVerdict ==
    ASSUME NEW a, NEW i, NEW d, \A r \in ReasonSet : ~Verdict(r, a, i, d)
    PROVE  \A r \in Limits : ~Applies(r, a, i, d)
<1> DEFINE A(k) == Applies(Reasons[k], a, i, d)
<1>1. DOMAIN Reasons = 1 .. 7
  BY DEF Reasons
<1>2. ASSUME NEW k \in 1 .. 7, \A j \in 1 .. k - 1 : ~A(j) PROVE ~A(k)
  BY <1>1, <1>2 DEF Verdict, ReasonSet
<1> HIDE DEF A
<1>3. ~A(1)
  BY <1>2
<1>4. ~A(2)
  BY <1>2, <1>3
<1>5. ~A(3)
  BY <1>2, <1>3, <1>4
<1>6. ~A(4)
  BY <1>2, <1>3, <1>4, <1>5
<1>7. ~A(5)
  BY <1>2, <1>3, <1>4, <1>5, <1>6
<1>8. ~A(6)
  BY <1>2, <1>3, <1>4, <1>5, <1>6, <1>7
<1>9. ~A(7)
  BY <1>2, <1>3, <1>4, <1>5, <1>6, <1>7, <1>8
<1> QED BY <1>6, <1>7, <1>8, <1>9 DEF A, Limits, Reasons

(* A poll goes on only below every limit. *)
LEMMA SilencePoll ==
    ASSUME StateOK, Poll
    PROVE  Silence'
<1> DEFINE a == Later(age, SignalTimeout)
           i == Later(idle, IdleCap)
           d == IF shown THEN Later(dark, StallTimeout) ELSE 0
<1>1. age' = a /\ idle' = i /\ dark' = d /\ UNCHANGED <<said, pipe, shown, discovery>>
  BY DEF Poll
<1>2. phase' = "run" => \A r \in ReasonSet : ~Verdict(r, a, i, d)
  BY DEF Poll
<1>0. a \in Int /\ i \in Int /\ d \in Int
  BY Limits_Nat DEF StateOK, Later
<1> HIDE DEF a, i, d
<1>3. phase' = "run" => \A r \in Limits : ~Applies(r, a, i, d)
  BY <1>2, NoVerdict
<1>4. /\ Applies("signaling_timeout", a, i, d) <=> ~Seen("sdp") /\ a >= SignalTimeout
      /\ Applies("connection_timeout", a, i, d)
            <=> Seen("sdp") /\ ~Seen("dc") /\ i >= ConnectionTimeout
      /\ Applies("first_frame_timeout", a, i, d)
            <=> ~discovery /\ Seen("dc") /\ ~shown /\ i >= FirstFrameTimeout
      /\ Applies("stream_stall", a, i, d) <=> ~discovery /\ shown /\ d >= StallTimeout
  BY DEF Applies
<1>5. /\ Seen("sdp")' <=> Seen("sdp")
      /\ Seen("dc")' <=> Seen("dc")
  BY <1>1 DEF Seen
<1>6. {SignalTimeout, ConnectionTimeout, FirstFrameTimeout, StallTimeout} \subseteq Nat
  BY LimitsOK
<1>7. /\ ~(a >= SignalTimeout) => a < SignalTimeout
      /\ ~(i >= ConnectionTimeout) => i < ConnectionTimeout
      /\ ~(i >= FirstFrameTimeout) => i < FirstFrameTimeout
      /\ ~(d >= StallTimeout) => d < StallTimeout
  BY <1>0, <1>6
<1> HIDE DEF Seen
<1> QED BY <1>1, <1>3, <1>4, <1>5, <1>7, Zenon DEF Silence, Limits

(* The relay reads a line: only the authorization marker leaves the clocks *)
(* alone, and it does not change the stage.                                *)
LEMMA SilenceRelay ==
    ASSUME PipeOK, Silence, Relay
    PROVE  Silence'
<1>1. /\ UNCHANGED <<phase, discovery, said, age>>
      /\ pipe # <<>> /\ pipe' = Tail(pipe)
      /\ idle' = IF Head(pipe) = "auth" THEN idle ELSE 0
      /\ dark' = IF Head(pipe) = "video" THEN 0 ELSE dark
  BY DEF Relay
<1>2. /\ shown => shown'
      /\ shown' => shown \/ Head(pipe) = "video"
  BY Zenon DEF Relay
<1>3. ASSUME NEW m PROVE /\ Seen(m) => Seen(m)'
                         /\ Seen(m)' => Seen(m) \/ Head(pipe) = m
  <2>1. /\ Len(pipe) \in Nat /\ DOMAIN pipe = 1 .. Len(pipe) /\ Len(pipe) > 0
        /\ DOMAIN pipe' = 1 .. Len(pipe) - 1
        /\ \A i \in DOMAIN pipe' : i + 1 \in DOMAIN pipe /\ pipe'[i] = pipe[i + 1]
        /\ \A i \in DOMAIN pipe : i = 1 \/ i - 1 \in DOMAIN pipe'
        /\ Head(pipe) = pipe[1]
    BY <1>1 DEF PipeOK
  <2>2. Seen(m) => Seen(m)'
    BY <1>1, <2>1 DEF Seen
  <2>3. ASSUME m \in said, \A i \in DOMAIN pipe' : pipe'[i] # m, pipe[1] # m
        PROVE  \A i \in DOMAIN pipe : pipe[i] # m
    <3> SUFFICES ASSUME NEW i \in DOMAIN pipe, i # 1 PROVE pipe[i] # m
      BY <2>3
    <3>1. i - 1 \in DOMAIN pipe' /\ (i - 1) + 1 = i
      BY <2>1
    <3>2. pipe'[i - 1] = pipe[i]
      BY <2>1, <3>1
    <3> QED BY <2>3, <3>1, <3>2
  <2> QED BY <1>1, <2>1, <2>2, <2>3 DEF Seen
<1>4. 0 < ConnectionTimeout /\ 0 < FirstFrameTimeout /\ 0 < StallTimeout
  BY LimitsOK
<1>5. /\ Head(pipe) # "auth" => idle' = 0
      /\ Head(pipe) = "auth" => /\ idle' = idle /\ Head(pipe) # "sdp" /\ Head(pipe) # "dc"
                                /\ Head(pipe) # "video"
      /\ Head(pipe) = "video" => dark' = 0
      /\ Head(pipe) # "video" => dark' = dark
  BY <1>1
<1>6. /\ Seen("sdp") => Seen("sdp")'
      /\ Seen("dc") => Seen("dc")'
      /\ Seen("sdp")' => Seen("sdp") \/ Head(pipe) = "sdp"
      /\ Seen("dc")' => Seen("dc") \/ Head(pipe) = "dc"
  BY <1>3
<1> HIDE DEF Seen
<1>7. phase' = phase /\ discovery' = discovery /\ age' = age
  BY <1>1
<1> QED BY <1>2, <1>4, <1>5, <1>6, <1>7, Zenon DEF Silence

(* Every other step starts an attempt, or leaves the clocks and what has   *)
(* been read alone.                                                        *)
LEMMA SilenceStep ==
    ASSUME PipeOK, StateOK, Silence, [Next]_vars
    PROVE  Silence'
<1>1. CASE Start
  <2>1. age' = 0 /\ ~shown' /\ said' = {} /\ 0 < SignalTimeout
    BY <1>1, LimitsOK DEF Start
  <2> QED BY <2>1 DEF Silence, Seen
<1>2. ASSUME NEW m \in Marker, Say(m) PROVE Silence'
  <2>1. /\ UNCHANGED <<phase, discovery, age, idle, dark, shown>>
        /\ said' = said \cup {m} /\ pipe' = Append(pipe, m) /\ CanPrint(m)
    BY <1>2 DEF Say
  <2>2. m \in {"sdp", "dc"} => m \notin said
    BY <2>1 DEF CanPrint
  <2>3. /\ Len(pipe) \in Nat /\ DOMAIN pipe = 1 .. Len(pipe)
        /\ DOMAIN pipe' = 1 .. Len(pipe) + 1
        /\ pipe'[Len(pipe) + 1] = m
        /\ \A i \in DOMAIN pipe : pipe'[i] = pipe[i]
    BY <2>1 DEF PipeOK
  <2>4. ASSUME NEW l \in {"sdp", "dc"} PROVE Seen(l)' <=> Seen(l)
    <3>1. CASE l = m
      BY <2>1, <2>2, <2>3, <3>1 DEF Seen
    <3>2. CASE l # m
      BY <2>1, <2>3, <3>2 DEF Seen
    <3> QED BY <3>1, <3>2
  <2> QED BY <2>1, <2>4 DEF Silence
<1>3. ASSUME UNCHANGED <<discovery, said, pipe, shown, age, idle, dark>>,
             phase' = "run" => phase = "run"
      PROVE  Silence'
  BY <1>3 DEF Silence, Seen
<1>4. CASE Release \/ Judge
  BY <1>4 DEF Release, Judge, Silence
<1>5. CASE StopBeforeStart \/ BackoffEnds \/ SeeExit \/ Interrupted \/ Escalate
           \/ TermTimesOut \/ GroupGone
  BY <1>3, <1>5 DEF StopBeforeStart, BackoffEnds, SeeExit, Interrupted, Escalate,
                    TermTimesOut, GroupGone, session
<1>6. CASE KillGroup
  BY <1>6 DEF KillGroup, Silence
<1>7. ASSUME NEW status, NEW children, EngineEnds(status, children) PROVE Silence'
  BY <1>3, <1>7 DEF EngineEnds
<1>8. CASE GroupEnds \/ Signal \/ UNCHANGED vars
  BY <1>3, <1>8 DEF GroupEnds, Signal, session, vars
<1> QED
  BY <1>1, <1>2, <1>4, <1>5, <1>6, <1>7, <1>8, SilencePoll, SilenceRelay
     DEF Next, Main, EngineStep

(* No attempt is watched past the limit of the stage it has reached.       *)
THEOREM SupervisorSilence == Spec => []SilenceBounded
<1>1. Init => PipeOK /\ StateOK /\ Silence
  BY EmptyPipe, Limits_Nat, ExitReason DEF Init, PipeOK, StateOK, Phases, Silence
<1>2. PipeOK /\ StateOK /\ Silence /\ [Next]_vars => PipeOK' /\ StateOK' /\ Silence'
  BY PipeStep, StateStep, SilenceStep
<1>3. StateOK /\ Silence => SilenceBounded
  <2> SUFFICES ASSUME StateOK, Silence, phase = "run", NEW r \in Limits,
                      Applies(r, age, idle, dark)
               PROVE  FALSE
    BY DEF SilenceBounded
  <2>1. age \in Int /\ idle \in Int /\ dark \in Int
    BY Limits_Nat DEF StateOK
  <2>2. /\ r = "signaling_timeout"   => ~Seen("sdp") /\ age >= SignalTimeout
        /\ r = "connection_timeout"  => Seen("sdp") /\ ~Seen("dc") /\ idle >= ConnectionTimeout
        /\ r = "first_frame_timeout" => /\ ~discovery /\ Seen("dc") /\ ~shown
                                        /\ idle >= FirstFrameTimeout
        /\ r = "stream_stall"        => ~discovery /\ shown /\ dark >= StallTimeout
    BY DEF Applies
  <2>3. {SignalTimeout, ConnectionTimeout, FirstFrameTimeout, StallTimeout} \subseteq Nat
    BY LimitsOK
  <2> HIDE DEF Seen
  <2> QED BY <2>1, <2>2, <2>3 DEF Silence, Limits
<1> QED BY <1>1, <1>2, <1>3, PTL DEF Spec
=============================================================================
