------------------------ MODULE AdaptiveWarmerProofs ------------------------
(***************************************************************************)
(* For every lease length, restart delay, time limit of the API and number *)
(* of cameras: the types, the one connection, and a bound on the lease in  *)
(* every behaviour in which the API answers fast enough, however often the *)
(* connection fails.  The run that refutes LeaseIsShort has one in which   *)
(* it does not.                                                            *)
(***************************************************************************)
EXTENDS AdaptiveWarmer, TLAPS

Kinds ==
    /\ viewers \in SUBSET Stream /\ conns \in SUBSET Stream
    /\ preempt \in BOOLEAN /\ quiet \in BOOLEAN /\ stop \in BOOLEAN /\ listed \in BOOLEAN
    /\ at \in {"top", "fetch", "decide", "wait", "exit"}
    /\ seen \in [Stream -> 0 .. 3]
    /\ warm \in Stream \cup {NoStream} /\ ghost \in Stream \cup {NoStream}
    /\ idle \in 0 .. Horizon
    /\ since \in 0 .. RestartDelay

(* What holds of every behaviour. *)
WarmInv ==
    /\ Kinds
    /\ OneConnection
    /\ warm = NoStream => idle = 0

(* A poll that is shorter than RESTART_DELAY: an answer to FetchReturns in *)
(* time.                                                                   *)
QuickFetch ==
    at = "fetch" /\ at' = "decide" =>
        \E d \in 0 .. FetchLimit : d + 1 < RestartDelay /\ FetchTakes(d)

(* At elapsed time e after a decision: the lease is not over, or the       *)
(* connection was reopened by that decision, at most a poll too late.      *)
Bounded(e) ==
    \/ idle <= Lease + e
    \/ since <= e /\ idle <= Lease + RestartDelay + e

LeaseInv ==
    /\ at = "wait" => Bounded(0)
    /\ at \in {"top", "fetch"} => Bounded(1)
    /\ at = "decide" => Bounded(RestartDelay - 1)
    /\ at = "exit" => idle = 0

(* Nobody has watched for less than a lease and two restart delays.        *)
LeaseBounded == warm # NoStream => idle <= Lease + 2 * RestartDelay

(* The constants as numbers. *)
LEMMA Numbers ==
    /\ Lease \in Nat /\ RestartDelay \in Nat /\ RestartDelay >= 1
    /\ FetchLimit \in Nat /\ Horizon \in Nat
    /\ NoStream \notin Stream
BY TimesOK

(* The empty answer is an answer. *)
LEMMA NoneKind == None \in [Stream -> 0 .. 3]
BY DEF None

(* Viewers, the gate and go2rtc do not touch the lease. *)
LEMMA WorldKeeps ==
    ASSUME WarmInv,
           \/ RequestPreempt \/ GateUnlinks \/ RequestStop \/ Connect \/ Die \/ ForgetGhost
           \/ \E s \in Stream : View(s)
           \/ UNCHANGED vars
    PROVE  WarmInv' /\ UNCHANGED <<at, idle, since, warm>>
<1> USE DEF WarmInv, Kinds, OneConnection, world
<1>1. CASE RequestPreempt \/ GateUnlinks \/ RequestStop
  BY <1>1 DEF RequestPreempt, GateUnlinks, RequestStop
<1>2. CASE Connect \/ Die \/ ForgetGhost
  BY <1>2 DEF Connect, Die, ForgetGhost
<1>3. ASSUME NEW s \in Stream, View(s) PROVE WarmInv' /\ UNCHANGED <<at, idle, since, warm>>
  BY <1>3 DEF View
<1>4. CASE UNCHANGED vars
  BY <1>4 DEF vars
<1> QED BY <1>1, <1>2, <1>3, <1>4

(* After stop_warmer nothing is connected and nothing is warm. *)
LEMMA StopKeeps ==
    ASSUME WarmInv, StopWarmer
    PROVE  /\ warm' = NoStream /\ conns' = {} /\ idle' = 0
           /\ listed' \in BOOLEAN /\ ghost' \in Stream \cup {NoStream}
BY DEF WarmInv, Kinds, OneConnection, StopWarmer, Disconnect

(* After start_warmer the one connection is the one to s, just begun. *)
LEMMA StartKeeps ==
    ASSUME WarmInv, NEW s \in Stream, StartWarmer(s)
    PROVE  /\ warm' = s /\ conns' = {s} /\ since' = 0
           /\ listed' \in BOOLEAN /\ ghost' \in Stream \cup {NoStream}
BY DEF WarmInv, Kinds, OneConnection, StartWarmer, Disconnect

(* Time that passes in a poll: neither clock runs faster than d. *)
LEMMA TimePasses ==
    ASSUME WarmInv, NEW d \in Nat, Passes(d)
    PROVE  /\ idle' \in 0 .. Horizon /\ since' \in 0 .. RestartDelay
           /\ idle' <= idle + d
           /\ since' <= since + d
           /\ warm = NoStream => idle' = 0
BY Numbers DEF WarmInv, Kinds, Passes, Upto

(* Bounded, d later. *)
LEMMA BoundedLater ==
    ASSUME WarmInv, NEW d \in Nat, NEW e \in Nat, Bounded(e), Passes(d)
    PROVE  \/ idle' <= Lease + e + d
           \/ since' <= e + d /\ idle' <= Lease + RestartDelay + e + d
BY Numbers, TimePasses DEF Bounded, WarmInv, Kinds

(* A decision keeps the types, and replaces the connection it drops. *)
LEMMA DecideKeeps ==
    ASSUME WarmInv, Decide
    PROVE  WarmInv'
<1> USE Numbers DEF WarmInv, Kinds, OneConnection
<1>1. /\ at = "decide" /\ at' = "wait" /\ seen' \in [Stream -> 0 .. 3] /\ quiet' \in BOOLEAN
      /\ UNCHANGED <<viewers, preempt, stop>>
  BY NoneKind DEF Decide
<1>2. ASSUME NEW s \in Stream, Watched(s) PROVE WarmInv'
  <2>1. CASE StartWarmer(s)
    BY <1>1, <1>2, <2>1, StartKeeps DEF Watched
  <2>2. CASE ~StartWarmer(s)
    BY <1>1, <1>2, <2>2 DEF Watched
  <2> QED BY <2>1, <2>2
<1>3. CASE Unwatched
  <2>1. CASE warm # NoStream /\ MayRestart
    BY <1>1, <1>3, <2>1, StartKeeps DEF Unwatched
  <2>2. CASE ~(warm # NoStream /\ MayRestart) /\ warm # NoStream /\ idle >= Lease
    BY <1>1, <1>3, <2>2, StopKeeps DEF Unwatched
  <2>3. CASE ~(warm # NoStream /\ MayRestart) /\ ~(warm # NoStream /\ idle >= Lease)
    BY <1>1, <1>3, <2>3 DEF Unwatched
  <2> QED BY <2>1, <2>2, <2>3
<1>4. Choice \subseteq Stream
  BY DEF Choice, Active
<1> QED BY <1>2, <1>3, <1>4 DEF Decide

(* Every step of the loop keeps them. *)
LEMMA LoopKeeps ==
    ASSUME WarmInv, Loop
    PROVE  WarmInv'
<1> USE Numbers DEF WarmInv, Kinds, OneConnection, world
<1>1. CASE Finish
  BY <1>1, StopKeeps DEF Finish
<1>2. CASE ConsumePreempt
  <2>1. StopWarmer /\ at' = "wait" /\ UNCHANGED <<viewers, stop, seen, since>>
    BY <1>2 DEF ConsumePreempt
  <2>2. preempt' \in BOOLEAN /\ quiet' \in BOOLEAN
    BY <1>2 DEF ConsumePreempt
  <2> QED BY <2>1, <2>2, StopKeeps
<1>3. CASE FetchFails
  BY <1>3, StopKeeps DEF FetchFails
<1>4. CASE Fetch
  BY <1>4 DEF Fetch
<1>5. CASE FetchReturns
  <2>1. PICK d \in 0 .. FetchLimit : FetchTakes(d)
    BY <1>5 DEF FetchReturns
  <2>2. at' = "decide" /\ Passes(d) /\ UNCHANGED <<world, warm, conns, listed, ghost>>
    BY <2>1 DEF FetchTakes
  <2>3. seen' \in [Stream -> 0 .. 3]
    BY <2>1 DEF FetchTakes, Consumers, One
  <2> QED BY <2>2, <2>3, TimePasses
<1>6. CASE Wait
  <2>1. PICK d \in {0, 1} : Passes(d)
    BY <1>6 DEF Wait, One
  <2>2. at' = "top" /\ UNCHANGED <<world, seen, warm, conns, listed, ghost>>
    BY <1>6 DEF Wait
  <2> QED BY <2>1, <2>2, TimePasses
<1> QED
  BY <1>1, <1>2, <1>3, <1>4, <1>5, <1>6, DecideKeeps DEF Loop

(* The types and the one connection, whatever the API and the connections  *)
(* do (eufy_warm.py, run).                                                 *)
LEMMA WarmInvHolds == Spec => []WarmInv
<1>1. Init => WarmInv
  <2> SUFFICES ASSUME Init PROVE WarmInv
    OBVIOUS
  <2>1. preempt \in BOOLEAN /\ quiet \in BOOLEAN /\ stop \in BOOLEAN /\ listed \in BOOLEAN
    BY DEF Init
  <2>2. seen \in [Stream -> 0 .. 3]
    BY NoneKind DEF Init
  <2>3. /\ viewers \in SUBSET Stream /\ conns = {} /\ at = "top" /\ warm = NoStream
        /\ ghost = NoStream /\ idle = 0 /\ since = RestartDelay
    BY DEF Init
  <2> QED BY Numbers, <2>1, <2>2, <2>3 DEF WarmInv, Kinds, OneConnection
<1>2. WarmInv /\ [Next]_vars => WarmInv'
  BY LoopKeeps, WorldKeeps DEF Next
<1> QED BY <1>1, <1>2, PTL DEF Spec

(* The state is type correct, and a count that was corrected for our own   *)
(* connection is still a count, for any lease, delay and API time limit    *)
(* (eufy_warm.py, external_consumer_counts and run).                       *)
THEOREM WarmerTypeOK == Spec => []TypeOK
<1>1. WarmInv => TypeOK
  <2> SUFFICES ASSUME WarmInv PROVE TypeOK
    OBVIOUS
  <2>1. Counts \in [Stream -> 0 .. 3]
    BY DEF WarmInv, Kinds, Counts
  <2> QED BY <2>1 DEF WarmInv, Kinds, TypeOK
<1> QED BY <1>1, WarmInvHolds, PTL

(* The controller never keeps a connection it has forgotten (eufy_warm.py 75). *)
THEOREM WarmerOneConnection == Spec => []OneConnection
<1>1. WarmInv => OneConnection
  BY DEF WarmInv
<1> QED BY <1>1, WarmInvHolds, PTL
-----------------------------------------------------------------------------
(* A decision stops an expired lease, unless it reopens it this once: the  *)
(* next one comes before RESTART_DELAY is over.                            *)
LEMMA DecideInTime ==
    ASSUME WarmInv, LeaseInv, Decide
    PROVE  LeaseInv'
<1> USE Numbers DEF WarmInv, Kinds
<1>1. at = "decide" /\ at' = "wait" /\ Bounded(RestartDelay - 1)
  BY DEF Decide, LeaseInv
<1>2. ASSUME NEW s \in Stream, Watched(s) PROVE LeaseInv'
  BY <1>1, <1>2 DEF Watched, LeaseInv, Bounded
<1>3. CASE Unwatched
  <2>1. CASE warm # NoStream /\ MayRestart
    BY <1>1, <1>3, <2>1, StartKeeps DEF Unwatched, MayRestart, LeaseInv, Bounded
  <2>2. CASE ~(warm # NoStream /\ MayRestart) /\ warm # NoStream /\ idle >= Lease
    BY <1>1, <1>3, <2>2, StopKeeps DEF Unwatched, LeaseInv, Bounded
  <2>3. CASE ~(warm # NoStream /\ MayRestart) /\ ~(warm # NoStream /\ idle >= Lease)
    BY <1>1, <1>3, <2>3 DEF Unwatched, LeaseInv, Bounded
  <2> QED BY <2>1, <2>2, <2>3
<1>4. Choice \subseteq Stream
  BY DEF Choice, Active
<1> QED BY <1>2, <1>3, <1>4 DEF Decide

(* Every step of the loop keeps the lease bounded. *)
LEMMA LoopInTime ==
    ASSUME WarmInv, LeaseInv, Loop, QuickFetch
    PROVE  LeaseInv'
<1> USE Numbers
<1>1. CASE Finish \/ ConsumePreempt \/ FetchFails
  <2>1. StopWarmer /\ at' \in {"wait", "exit"}
    BY <1>1 DEF Finish, ConsumePreempt, FetchFails
  <2> QED BY <2>1, StopKeeps DEF LeaseInv, Bounded
<1>2. CASE Fetch
  BY <1>2 DEF Fetch, LeaseInv, Bounded
<1>3. CASE FetchReturns
  <2>1. at = "fetch" /\ at' = "decide"
    BY <1>3 DEF FetchReturns, FetchTakes
  <2>2. PICK d \in 0 .. FetchLimit : d + 1 < RestartDelay /\ FetchTakes(d)
    BY <2>1 DEF QuickFetch
  <2>3. Bounded(1) /\ Passes(d)
    BY <2>1, <2>2 DEF LeaseInv, FetchTakes
  <2>4. \/ idle' <= Lease + 1 + d
        \/ since' <= 1 + d /\ idle' <= Lease + RestartDelay + 1 + d
    BY <2>2, <2>3, BoundedLater
  <2>5. idle' \in Int /\ since' \in Int
    BY <2>2, <2>3, TimePasses
  <2>6. Bounded(RestartDelay - 1)'
    BY <2>2, <2>4, <2>5 DEF Bounded
  <2> QED BY <2>1, <2>6 DEF LeaseInv
<1>4. CASE Wait
  <2>1. PICK d \in {0, 1} : Passes(d)
    BY <1>4 DEF Wait, One
  <2>2. at' = "top" /\ Bounded(0)
    BY <1>4 DEF Wait, LeaseInv
  <2>3. \/ idle' <= Lease + d
        \/ since' <= d /\ idle' <= Lease + RestartDelay + d
    BY <2>1, <2>2, BoundedLater
  <2>4. idle' \in Int /\ since' \in Int
    BY <2>1, TimePasses
  <2>5. Bounded(1)'
    BY <2>1, <2>3, <2>4 DEF Bounded
  <2> QED BY <2>2, <2>5 DEF LeaseInv
<1> QED
  BY <1>1, <1>2, <1>3, <1>4, DecideInTime DEF Loop

(* In every behaviour in which go2rtc answers within RESTART_DELAY less    *)
(* one POLL_INTERVAL (eufy_warm.py 29, 31), a lease nobody uses is overrun *)
(* by less than two restart delays, although its connection fails and is   *)
(* reopened again and again.                                               *)
THEOREM WarmerLease == Spec /\ [][QuickFetch]_vars => []LeaseBounded
<1>1. Init => LeaseInv
  BY Numbers DEF Init, LeaseInv, Bounded
<1>2. WarmInv /\ LeaseInv /\ [Next]_vars /\ [QuickFetch]_vars => LeaseInv'
  <2> SUFFICES ASSUME WarmInv, LeaseInv, [Next]_vars, [QuickFetch]_vars PROVE LeaseInv'
    OBVIOUS
  <2>1. CASE Loop /\ ~ UNCHANGED vars
    BY <2>1, LoopInTime
  <2>2. CASE ~Loop \/ UNCHANGED vars
    BY <2>2, WorldKeeps DEF Next, LeaseInv, Bounded
  <2> QED BY <2>1, <2>2
<1>3. WarmInv /\ LeaseInv => LeaseBounded
  BY Numbers DEF WarmInv, Kinds, LeaseInv, Bounded, LeaseBounded
<1> QED BY <1>1, <1>2, <1>3, WarmInvHolds, PTL DEF Spec
=============================================================================
