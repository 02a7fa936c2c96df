--------------------------- MODULE AdaptiveWarmer ---------------------------
(***************************************************************************)
(* AdaptiveWarmer of bridge/eufy_warm.py: a controller that polls go2rtc's *)
(* list of consumers and keeps one consumer of its own on the stream that  *)
(* was viewed last, for a lease after its last viewer.                     *)
(*                                                                         *)
(* The list is a snapshot that go2rtc took before the controller acts on   *)
(* it, and it shows the controller's own connection: not yet while its     *)
(* producer starts, and for a while longer after it was closed.            *)
(*                                                                         *)
(* Time is counted in waits of POLL_INTERVAL.  A poll may take longer: the *)
(* API has up to FetchLimit for its answer, which may be more than         *)
(* RestartDelay, as it is in the code (2.0 s and 0.75 s).                  *)
(***************************************************************************)
EXTENDS Integers, FiniteSets

CONSTANTS
    Stream,         \* the eufy_* streams
    NoStream,
    Lease,          \* lease_seconds
    RestartDelay,   \* RESTART_DELAY
    FetchLimit,     \* API_TIMEOUT
    Horizon         \* bound: no lease is told apart that is older than this

ASSUME TimesOK ==
    /\ NoStream \notin Stream
    /\ {Lease, FetchLimit, Horizon} \subseteq Nat /\ Lease <= Horizon
    /\ RestartDelay \in Nat \ {0}

VARIABLES
    viewers,   \* the streams with a consumer that is neither ours nor a snapshot
    preempt,   \* the preempt file exists
    quiet,     \* the gate has no reason yet to write it again
    stop,      \* stop_event
    at,        \* the loop: "top", "fetch", "decide", "wait", "exit"
    seen,      \* seen[s]: consumers of s in the answer that is being looked at
    warm,      \* warm_stream
    conns,     \* the streams this controller has an open connection to
    listed,    \* go2rtc lists the connection to warm
    ghost,     \* a stream for which it still lists one that was closed
    idle,      \* time since last_external_at, while warm, up to Horizon
    since      \* time since last_start_attempt, up to RestartDelay

world == <<viewers, preempt, quiet, stop>>
vars  == <<world, at, seen, warm, conns, listed, ghost, idle, since>>

None == [s \in Stream |-> 0]
(* __init__ also unlinks a preempt file that is left over. *)
Init ==
    /\ viewers \in SUBSET Stream /\ preempt = FALSE /\ quiet = FALSE /\ stop = FALSE
    /\ at = "top" /\ seen = None
    /\ warm = NoStream /\ conns = {} /\ listed = FALSE /\ ghost = NoStream
    /\ idle = 0 /\ since = RestartDelay
-----------------------------------------------------------------------------
(* Viewers, the session gate, go2rtc.                                      *)

View(s) ==
    /\ viewers' = IF s \in viewers THEN viewers \ {s} ELSE viewers \cup {s}
    /\ UNCHANGED <<preempt, quiet, stop, at, seen, warm, conns, listed, ghost, idle, since>>

(* SessionGate.request_preempt, once a second: never twice within a poll. *)
RequestPreempt ==
    /\ ~preempt /\ ~quiet
    /\ preempt' = TRUE
    /\ UNCHANGED <<viewers, quiet, stop, at, seen, warm, conns, listed, ghost, idle, since>>

(* A producer that gets the gate unlinks the file. *)
GateUnlinks ==
    /\ preempt
    /\ preempt' = FALSE
    /\ UNCHANGED <<viewers, quiet, stop, at, seen, warm, conns, listed, ghost, idle, since>>

RequestStop ==
    /\ ~stop
    /\ stop' = TRUE
    /\ UNCHANGED <<viewers, preempt, quiet, at, seen, warm, conns, listed, ghost, idle, since>>

(* The producer runs, and our consumer appears in the list. *)
Connect ==
    /\ warm \in conns /\ ~listed
    /\ listed' = TRUE
    /\ UNCHANGED <<world, at, seen, warm, conns, ghost, idle, since>>

(* _consume ends: an HTTP error, or the end of the stream. *)
Die ==
    /\ warm \in conns
    /\ conns' = conns \ {warm}
    /\ listed' = FALSE
    /\ UNCHANGED <<world, at, seen, warm, ghost, idle, since>>

ForgetGhost ==
    /\ ghost # NoStream
    /\ ghost' = NoStream
    /\ UNCHANGED <<world, at, seen, warm, conns, listed, idle, since>>
-----------------------------------------------------------------------------
(* stop_warmer and start_warmer. *)

Disconnect ==
    /\ ghost' = IF listed THEN warm ELSE ghost
    /\ listed' = FALSE

StopWarmer ==
    /\ warm' = NoStream
    /\ conns' = conns \ {warm}
    /\ Disconnect
    /\ idle' = 0

StartWarmer_Both(s) ==  \* mutant: the previous connection is left open
    /\ warm' = s
    /\ conns' = conns \cup {s}
    /\ Disconnect
    /\ since' = 0

StartWarmer(s) ==
    /\ warm' = s
    /\ conns' = (conns \ {warm}) \cup {s}
    /\ Disconnect
    /\ since' = 0

Upto(bound, t) == IF t < bound THEN t ELSE bound

Passes(d) ==
    /\ idle' = IF warm = NoStream THEN 0 ELSE Upto(Horizon, idle + d)
    /\ since' = Upto(RestartDelay, since + d)
-----------------------------------------------------------------------------
(* run *)

Finish ==
    /\ at = "top" /\ stop
    /\ at' = "exit"
    /\ StopWarmer
    /\ UNCHANGED <<world, seen, since>>

(* consume_preempt_request returned True. *)
ConsumePreempt ==
    /\ at = "top" /\ ~stop /\ preempt
    /\ preempt' = FALSE /\ quiet' = TRUE
    /\ at' = "wait"
    /\ StopWarmer
    /\ UNCHANGED <<viewers, stop, seen, since>>

Fetch ==
    /\ at = "top" /\ ~stop /\ ~preempt
    /\ at' = "fetch"
    /\ UNCHANGED <<world, seen, warm, conns, listed, ghost, idle, since>>

One(b) == IF b THEN 1 ELSE 0
Consumers == [s \in Stream |->
                 One(s \in viewers) + One(s = warm /\ listed) + One(s = ghost)]

(* The answer comes after d. *)
FetchTakes(d) ==
    /\ at = "fetch"
    /\ at' = "decide"
    /\ seen' = Consumers
    /\ Passes(d)
    /\ UNCHANGED <<world, warm, conns, listed, ghost>>

FetchReturns == \E d \in 0 .. FetchLimit : FetchTakes(d)

FetchFails ==
    /\ at = "fetch"
    /\ at' = "wait"
    /\ StopWarmer
    /\ UNCHANGED <<world, seen, since>>

(* external_consumer_counts: one less for our own, if it runs by now. *)
Running == warm \in conns

Counts_Own ==  \* mutant: the controller's own connection counts as a viewer
    seen

Counts_Ours ==  \* mutant: one less even when it is not listed yet
    [s \in Stream |-> IF Running /\ s = warm THEN seen[s] - 1 ELSE seen[s]]

Counts == [s \in Stream |-> IF Running /\ s = warm /\ seen[s] > 0 THEN seen[s] - 1 ELSE seen[s]]

Active == {s \in Stream : Counts[s] > 0}

(* choose_stream: the current one, else one with the most consumers. *)
Choice_KeepCurrent ==  \* mutant: an idle lease is preferred to another viewer
    IF warm # NoStream /\ Active # {} THEN {warm} ELSE {s \in Active : \A t \in Active : Counts[t] <= Counts[s]}

Choice ==
    IF warm \in Active THEN {warm}
    ELSE {s \in Active : \A t \in Active : Counts[t] <= Counts[s]}

MayRestart == ~Running /\ since >= RestartDelay

Watched(s) ==
    /\ idle' = 0
    /\ IF s # warm \/ MayRestart
         THEN StartWarmer(s)
         ELSE UNCHANGED <<warm, conns, listed, ghost, since>>

Unwatched ==
    IF warm # NoStream /\ MayRestart
      THEN StartWarmer(warm) /\ UNCHANGED idle
      ELSE /\ IF warm # NoStream /\ idle >= Lease
                THEN StopWarmer
                ELSE UNCHANGED <<warm, conns, listed, ghost, idle>>
           /\ UNCHANGED since

Decide ==
    /\ at = "decide"
    /\ at' = "wait"
    /\ \/ \E s \in Choice : Watched(s)
       \/ Active = {} /\ Unwatched
    /\ seen' = None
    /\ quiet' = FALSE
    /\ UNCHANGED <<viewers, preempt, stop>>

(* wait(POLL_INTERVAL), which a stop ends early. *)
Wait ==
    /\ at = "wait"
    /\ at' = "top"
    /\ Passes(One(~stop))
    /\ UNCHANGED <<world, seen, warm, conns, listed, ghost>>

Loop ==
    \/ Finish \/ ConsumePreempt \/ Fetch \/ FetchReturns \/ FetchFails \/ Decide \/ Wait

Next ==
    \/ Loop \/ RequestPreempt \/ GateUnlinks \/ RequestStop \/ Connect \/ Die \/ ForgetGhost
    \/ \E s \in Stream : View(s)

(* The loop runs: every await in it has a time limit.  go2rtc notices a
   closed connection at last. *)
Spec == Init /\ [][Next]_vars /\ WF_vars(Loop) /\ WF_vars(ForgetGhost)
-----------------------------------------------------------------------------
(* Properties *)

TypeOK ==
    /\ viewers \in SUBSET Stream /\ conns \in SUBSET Stream
    /\ {preempt, quiet, stop, listed} \subseteq BOOLEAN
    /\ at \in {"top", "fetch", "decide", "wait", "exit"}
    /\ seen \in [Stream -> 0 .. 3] /\ Counts \in [Stream -> 0 .. 3]
    /\ {warm, ghost} \subseteq Stream \cup {NoStream}
    /\ idle \in 0 .. Horizon
    /\ since \in 0 .. RestartDelay

(* "Maintain at most one lightweight local MPEG-TS consumer" (eufy_warm.py *)
(* 75), and only on the stream whose lease is known: a forgotten one would *)
(* hold the NVR for ever.                                                  *)
OneConnection == conns \subseteq {warm}

(* The answer shows nobody but the viewers and our running connection:     *)
(* none who has left, none of ours that was closed or has died meanwhile.  *)
ListRight == \A s \in Stream \ viewers : seen[s] <= One(s = warm /\ Running)

Deserted == viewers = {} /\ (at = "decide" => ListRight)

(* When nobody is watching any more, the lease ends (eufy_warm.py 11-13),  *)
(* although the connection may fail and be reopened again and again.  It is*)
(* enough that, if decisions are made for ever, not all of them from some  *)
(* time on find a connection that failed and that RESTART_DELAY allows to  *)
(* reopen: the expiry comes after that branch (194-197).                   *)
LeaseEnds ==
    /\ <>[]Deserted
    /\ []<><<Decide>>_vars => []<><<Decide /\ ~MayRestart>>_vars
    => <>[](warm = NoStream)

(* Violated by the code: the lease ends, whatever the connection and the   *)
(* API do, "retaining the producer for a short lease after the viewer      *)
(* leaves" (eufy_warm.py 9-10); "retain only the last-viewed camera for    *)
(* this many seconds after it closes" (DOCS.md 39).  An answer that takes  *)
(* longer than RESTART_DELAY lets each decision reopen a failed connection *)
(* (194-195), and none looks at the lease.                                 *)
LeaseIsShort == <>[]Deserted => <>[](warm = NoStream)

(* A viewer of another camera takes the lease over (eufy_warm.py 11-13):   *)
(* also when most decisions are made on an answer that is out of date, if  *)
(* only some that is not comes again and again.                            *)
FollowsViewer ==
    \A s \in Stream :
        <>[](viewers = {s}) /\ []<><<Decide /\ ListRight>>_vars => []<>(warm = s)
=============================================================================
