---------------------------- MODULE ProducerLife ----------------------------
(***************************************************************************)
(* One producer as the gate and the NVR see it: run_attempt with the stages*)
(* of _terminate_tree, inside the gate, without logs, clocks and verdicts. *)
(*                                                                         *)
(*   - an engine is only started with the gate held;                       *)
(*   - the engine is signalled first, its group waited for after it, and   *)
(*     killed in the end: nothing of it is left when the teardown is over; *)
(*   - the gate is released after that, at the end of the release delay;   *)
(*   - go2rtc may kill the producer at any stage: then the kernel frees the*)
(*     gate, and an engine that is still there stays without either.       *)
(*                                                                         *)
(* Supervisor, the detailed producer, implements this module, and so does  *)
(* each supervisor of NvrSession, where several of them meet.              *)
(***************************************************************************)
VARIABLES
    at,      \* where the producer stands; "out" stands for all of main around
             \* an attempt: the queue, the retry delay, the end; "cut" for the
             \* time in which a killed producer's engine goes on
    gate,    \* it holds the session gate
    engine   \* "none", "up", or "orphans": the leader is gone, children live

vars == <<at, gate, engine>>

Teardown == {"run", "int", "term"}  \* an engine is watched or being stopped

Init == at = "out" /\ gate = FALSE /\ engine = "none"

(* acquire has returned True, and the engine is started. *)
Begin ==
    /\ at = "out" /\ engine = "none"
    /\ at' = "run" /\ gate' = TRUE /\ engine' = "up"

(* The engine ends, and its last child after it. *)
EngineEnds ==
    /\ \/ engine = "up"      /\ engine' \in {"none", "orphans"}
       \/ engine = "orphans" /\ engine' = "none"
    /\ at' = (IF at = "cut" /\ engine' = "none" THEN "out" ELSE at)
    /\ UNCHANGED gate

Interrupt ==
    /\ at = "run" /\ engine = "up"
    /\ at' = "int"
    /\ UNCHANGED <<gate, engine>>

(* The leader does not end in time: SIGTERM, then on to the group. *)
Escalate ==
    /\ engine = "up"
    /\ \/ at = "int"  /\ at' = "term"
       \/ at = "term" /\ at' = "group"
    /\ UNCHANGED <<gate, engine>>

SeenGone ==
    /\ at \in Teardown /\ engine # "up"
    /\ at' = "group"
    /\ UNCHANGED <<gate, engine>>

(* The group is empty, or gets SIGKILL. *)
Reaped ==
    /\ at = "group"
    /\ at' = "cool" /\ engine' = "none"
    /\ UNCHANGED gate

(* SESSION_RELEASE_DELAY is over. *)
Release ==
    /\ at = "cool"
    /\ at' = "out" /\ gate' = FALSE
    /\ UNCHANGED engine

(* killtimeout: the supervisor is killed, and nothing but it. *)
Kill ==
    /\ at \notin {"out", "cut"}
    /\ at' = (IF engine = "none" THEN "out" ELSE "cut") /\ gate' = FALSE
    /\ UNCHANGED engine

Next ==
    \/ Begin \/ EngineEnds \/ Interrupt \/ Escalate \/ SeenGone \/ Reaped \/ Release
    \/ Kill

Spec == Init /\ [][Next]_vars

(* What is left of an engine is inside the gate (eufy_run.py 402-410),     *)
(* unless go2rtc has killed the producer over it.                          *)
Inside == engine # "none" => (gate /\ at \notin {"out", "cool"}) \/ at = "cut"
=============================================================================
