--------------------------- MODULE SessionArbiter ---------------------------
(***************************************************************************)
(* What the session gate of bridge/eufy_run.py promises to the producers   *)
(* that share the NVR's single live session, without its files:            *)
(*                                                                         *)
(*   - at most one client holds the session;                               *)
(*   - a client that is already queued when another one arrives is served  *)
(*     before it, unless it leaves the queue or dies;                      *)
(*   - a client may leave, or die, at any moment, wherever it stands.      *)
(*                                                                         *)
(* SessionGate (tickets, directory scans, flock) implements this module.   *)
(* NvrSession builds on it in place of the detailed gate.                  *)
(***************************************************************************)
CONSTANT Client

VARIABLES
    st,     \* st[c]: where client c stands
    ahead   \* ahead[c]: the queued clients that c must not pass

vars == <<st, ahead>>

Standing == {"out", "coming", "queued", "holding"}

Queued  == {c \in Client : st[c] = "queued"}
Holders == {c \in Client : st[c] = "holding"}

TypeOK ==
    /\ st \in [Client -> Standing]
    /\ ahead \in [Client -> SUBSET Client]

Init ==
    /\ st = [c \in Client |-> "out"]
    /\ ahead = [c \in Client |-> {}]

(* Nobody has to wait for c any more, and c waits for nobody. *)
Forget(c) == ahead' = [d \in Client |-> IF d = c THEN {} ELSE ahead[d] \ {c}]

(* c takes its place behind everyone queued at this moment ...             *)
Arrive(c) ==
    /\ st[c] = "out"
    /\ st' = [st EXCEPT ![c] = "coming"]
    /\ ahead' = [ahead EXCEPT ![c] = Queued]

(* ... and becomes visible to later arrivals a little after that.          *)
Enqueue(c) ==
    /\ st[c] = "coming"
    /\ st' = [st EXCEPT ![c] = "queued"]
    /\ UNCHANGED ahead

Grant(c) ==
    /\ st[c] = "queued"
    /\ Holders = {}
    /\ ahead[c] = {}
    /\ st' = [st EXCEPT ![c] = "holding"]
    /\ Forget(c)

(* Release by the holder, a waiter that gives up, or a death. *)
Leave(c) ==
    /\ st[c] # "out"
    /\ st' = [st EXCEPT ![c] = "out"]
    /\ Forget(c)

Next == \E c \in Client : Arrive(c) \/ Enqueue(c) \/ Grant(c) \/ Leave(c)

Spec == Init /\ [][Next]_vars

(* The NVR serves one live session: two clients never hold it at once      *)
(* (eufy_run.py 106-113, "exclusive gate for the NVR's single live         *)
(* session").                                                              *)
OneHolder == \A c, d \in Holders : c = d
=============================================================================
