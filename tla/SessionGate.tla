---------------------------- MODULE SessionGate ----------------------------
(***************************************************************************)
(* SessionGate of bridge/eufy_run.py: the gate that producer processes     *)
(* (one eufy_run.py per go2rtc exec) pass before they open the NVR's only  *)
(* live session.                                                           *)
(*                                                                         *)
(* Each waiter owns a ticket file named <monotonic ns>-<pid>-<start>-<id>  *)
(* in a queue directory that outlives processes; a waiter whose ticket is  *)
(* the oldest one of a living process tries a non-blocking flock.          *)
(* The ticket's stamp is drawn before the ticket is written, the directory *)
(* is listed before the owners are probed, and both happen before the      *)
(* flock: each of these is a step of its own here.  A process may be       *)
(* killed between any two steps, and its pid may be taken by another       *)
(* producer or by an unrelated process.                                    *)
(***************************************************************************)
EXTENDS Integers, FiniteSets

CONSTANTS
    Pid,        \* the process ids producers may get
    NoPid,      \* stands for "nobody"
    MaxClock,   \* bound: how many stamps are drawn in a behaviour
    MaxStart,   \* bound: how many processes start in a behaviour
    HintEvery   \* polls between two writes of the preempt hint (1.0 s / 0.10 s)

ASSUME ConstantsOK ==
    /\ NoPid \notin Pid
    /\ MaxClock \in Nat
    /\ MaxStart \in Nat
    /\ HintEvery \in Nat \ {0}

VARIABLES
    clock,    \* time.monotonic_ns, advanced at every draw
    procfs,   \* is /proc/<pid>/stat readable here (never changes)
    pc,       \* pc[p]: what the process with pid p is about to do
    born,     \* how many processes have started: the kernel's start times
    start,    \* start[p]: kernel start time of the process with pid p
    stop,     \* stop[p]: the stop_event of p is set
    stamp,    \* stamp[p]: the stamp of the ticket p drew last
    seen,     \* seen[p]: the tickets p's current scan listed
    polls,    \* polls[p]: polls of p until it touches the preempt hint again
    tickets,  \* the files in the queue directory
    lock,     \* the pid whose open file holds the flock, or NoPid
    hint,     \* the preempt file exists
    ahead     \* history: ahead[p] = waiters published before p drew its stamp

vars == <<clock, procfs, born, pc, start, stop, stamp, seen, polls,
          tickets, lock, hint, ahead>>

(***************************************************************************)
(* pc values: "none" (no such process), "foreign" (an unrelated process    *)
(* has the pid), "alien" (so has one of another user, which may not be     *)
(* signalled), "idle" (a producer outside acquire), "drawn" (stamp         *)
(* drawn, ticket not written), "loop" (the head of the while loop),        *)
(* "probe" (directory listed), "try" (head of the queue), "wait" (not      *)
(* served by this poll), "locked" (has the flock, ticket still there),     *)
(* "leave" (stop seen), "own" (acquire returned True).                     *)
(***************************************************************************)
InLoop   == {"loop", "probe", "try", "wait"}
Holding  == {"locked", "own"}
HasFile  == InLoop \cup {"locked", "leave"}
Producer == {"idle", "drawn"} \cup HasFile \cup {"own"}
PcValues == {"none", "foreign", "alien"} \cup Producer

Ticket == [stamp : Nat, pid : Pid, start : Nat]

(* _process_start: "0" when /proc cannot be read. *)
ProcessStart(p) == IF procfs THEN start[p] ELSE 0

(* The ticket p drew last.  The start time it carries is p's own. *)
TicketOf(p) == [stamp |-> stamp[p], pid |-> p, start |-> ProcessStart(p)]

Waiting == {p \in Pid : pc[p] \in InLoop}

TypeOK ==
    /\ clock \in Nat
    /\ procfs \in BOOLEAN
    /\ pc \in [Pid -> PcValues]
    /\ born \in Nat
    /\ start \in [Pid -> Nat]
    /\ stop \in [Pid -> BOOLEAN]
    /\ stamp \in [Pid -> Nat]
    /\ seen \in [Pid -> SUBSET Ticket]
    /\ polls \in [Pid -> 0 .. HintEvery]
    /\ tickets \in SUBSET Ticket
    /\ lock \in Pid \cup {NoPid}
    /\ hint \in BOOLEAN
    /\ ahead \in [Pid -> SUBSET Pid]

Init ==
    /\ clock = 1
    /\ procfs \in BOOLEAN
    /\ pc = [p \in Pid |-> "none"]
    /\ born = 0
    /\ start = [p \in Pid |-> 0]
    /\ stop = [p \in Pid |-> FALSE]
    /\ stamp = [p \in Pid |-> 0]
    /\ seen = [p \in Pid |-> {}]
    /\ polls = [p \in Pid |-> 0]
    /\ tickets = {}
    /\ lock = NoPid
    /\ hint = FALSE
    /\ ahead = [p \in Pid |-> {}]

(* p no longer waits: nobody is behind it, it is behind nobody. *)
Forget(p) == ahead' = [q \in Pid |-> IF q = p THEN {} ELSE ahead[q] \ {p}]
-----------------------------------------------------------------------------
(* Processes come and go. *)

(* go2rtc executes a producer, or something else, under a free pid. *)
Spawn(p, kind) ==
    /\ pc[p] = "none"
    /\ born < MaxStart
    /\ born' = born + 1
    /\ pc' = [pc EXCEPT ![p] = kind]
    /\ start' = [start EXCEPT ![p] = born + 1]
    /\ UNCHANGED <<clock, procfs, stop, stamp, seen, polls, tickets, lock, hint, ahead>>

(* The process with pid p is no more, nor is what it kept in memory. *)
Gone(p) ==
    /\ pc' = [pc EXCEPT ![p] = "none"]
    /\ start' = [start EXCEPT ![p] = 0]
    /\ stop' = [stop EXCEPT ![p] = FALSE]
    /\ stamp' = [stamp EXCEPT ![p] = 0]
    /\ seen' = [seen EXCEPT ![p] = {}]
    /\ polls' = [polls EXCEPT ![p] = 0]
    /\ UNCHANGED <<clock, procfs, born>>

(* SIGKILL or a crash: the kernel closes the descriptors, so the flock is  *)
(* freed, and the ticket file stays.                                       *)
Die(p) ==
    /\ pc[p] # "none"
    /\ Gone(p)
    /\ lock' = IF lock = p THEN NoPid ELSE lock
    /\ Forget(p)
    /\ UNCHANGED <<tickets, hint>>

(* The signal handlers main installs: SIGTERM and SIGINT set stop_event. *)
Signal(p) ==
    /\ pc[p] \in Producer
    /\ ~stop[p]
    /\ stop' = [stop EXCEPT ![p] = TRUE]
    /\ UNCHANGED <<clock, procfs, born, pc, start, stamp, seen, polls,
                   tickets, lock, hint, ahead>>

(* main returns, after a last attempt or because of stop_event. *)
Exit(p) ==
    /\ pc[p] = "idle"
    /\ Gone(p)
    /\ UNCHANGED <<tickets, lock, hint, ahead>>
-----------------------------------------------------------------------------
(* acquire *)

(* The lock file is opened and the ticket's name computed.  last_preempt_at
   starts at 0.0, so the first poll writes the hint. *)
Draw(p) ==
    /\ pc[p] = "idle"
    /\ clock < MaxClock
    /\ pc' = [pc EXCEPT ![p] = "drawn"]
    /\ stamp' = [stamp EXCEPT ![p] = clock]
    /\ clock' = clock + 1
    /\ polls' = [polls EXCEPT ![p] = 0]
    /\ ahead' = [ahead EXCEPT ![p] = Waiting]
    /\ UNCHANGED <<procfs, born, start, stop, seen, tickets, lock, hint>>

Publish(p) ==
    /\ pc[p] = "drawn"
    /\ pc' = [pc EXCEPT ![p] = "loop"]
    /\ tickets' = tickets \cup {TicketOf(p)}
    /\ UNCHANGED <<clock, procfs, born, start, stop, stamp, seen, polls,
                   lock, hint, ahead>>

(* while not stop_event.is_set(): the directory is listed. *)
List(p) ==
    /\ pc[p] = "loop"
    /\ ~stop[p]
    /\ pc' = [pc EXCEPT ![p] = "probe"]
    /\ seen' = [seen EXCEPT ![p] = tickets]
    /\ UNCHANGED <<clock, procfs, born, start, stop, stamp, polls,
                   tickets, lock, hint, ahead>>

LoopEnds(p) ==
    /\ pc[p] = "loop"
    /\ stop[p]
    /\ pc' = [pc EXCEPT ![p] = "leave"]
    /\ Forget(p)
    /\ UNCHANGED <<clock, procfs, born, start, stop, stamp, seen, polls,
                   tickets, lock, hint>>

(* _queue on one ticket: its process is gone, or its pid was reused by a
   process with another start time and both start times are known.  Of one
   that may not be signalled no start time is read (PermissionError). *)
Alive(p) == pc[p] # "none"

Stale_UnknownIsOther(t) ==  \* mutant: an unreadable start time counts as different
    ~Alive(t.pid) \/ t.start = 0 \/ ProcessStart(t.pid) # t.start

Stale_PidOnly(t) ==  \* mutant: a reused pid passes for the waiter
    ~Alive(t.pid)

Stale(t) ==
    \/ ~Alive(t.pid)
    \/ /\ pc[t.pid] # "alien" /\ t.start # 0
       /\ ProcessStart(t.pid) # 0
       /\ ProcessStart(t.pid) # t.start

(* Queue is empty, or its oldest ticket is p's. *)
AtHead_Any(p, queue) ==  \* mutant: whichever poll lands first tries the flock
    queue = {} \/ TicketOf(p) \in queue

AtHead(p, queue) ==
    \/ queue = {}
    \/ /\ TicketOf(p) \in queue
       /\ \A t \in queue : stamp[p] <= t.stamp

(* The listed tickets are probed: those of dead owners are unlinked, the
   others are the queue. *)
Probe(p) ==
    LET dead == {t \in seen[p] : Stale(t)} IN
    /\ pc[p] = "probe"
    /\ pc' = [pc EXCEPT ![p] = IF AtHead(p, seen[p] \ dead) THEN "try" ELSE "wait"]
    /\ tickets' = tickets \ dead
    /\ seen' = [seen EXCEPT ![p] = {}]
    /\ UNCHANGED <<clock, procfs, born, start, stop, stamp, polls, lock, hint, ahead>>

(* flock(LOCK_EX | LOCK_NB) *)
Flock(p) ==
    /\ pc[p] = "try"
    /\ lock = NoPid
    /\ lock' = p
    /\ pc' = [pc EXCEPT ![p] = "locked"]
    /\ Forget(p)
    /\ UNCHANGED <<clock, procfs, born, start, stop, stamp, seen, polls, tickets, hint>>

FlockBusy(p) ==
    /\ pc[p] = "try"
    /\ lock # NoPid
    /\ pc' = [pc EXCEPT ![p] = "wait"]
    /\ UNCHANGED <<clock, procfs, born, start, stop, stamp, seen, polls,
                   tickets, lock, hint, ahead>>

Poll_HintOnce(p) ==  \* mutant: only the first poll writes the hint
    /\ pc[p] = "wait"
    /\ pc' = [pc EXCEPT ![p] = "loop"]
    /\ hint' = (hint \/ polls[p] = 0)
    /\ polls' = [polls EXCEPT ![p] = HintEvery]
    /\ UNCHANGED <<clock, procfs, born, start, stop, stamp, seen,
                   tickets, lock, ahead>>

Poll_OffByOne(p) ==  \* mutant: the second is counted one poll too far
    /\ pc[p] = "wait"
    /\ pc' = [pc EXCEPT ![p] = "loop"]
    /\ IF polls[p] < 0
         THEN hint' = TRUE /\ polls' = [polls EXCEPT ![p] = HintEvery]
         ELSE hint' = hint /\ polls' = [polls EXCEPT ![p] = @ - 1]
    /\ UNCHANGED <<clock, procfs, born, start, stop, stamp, seen,
                   tickets, lock, ahead>>

(* A poll that was not served: request_preempt once per second, then a
   bounded wait that ends early when stop_event is set. *)
Poll(p) ==
    /\ pc[p] = "wait"
    /\ pc' = [pc EXCEPT ![p] = "loop"]
    /\ IF polls[p] = 0
         THEN hint' = TRUE /\ polls' = [polls EXCEPT ![p] = HintEvery]
         ELSE hint' = hint /\ polls' = [polls EXCEPT ![p] = @ - 1]
    /\ UNCHANGED <<clock, procfs, born, start, stop, stamp, seen,
                   tickets, lock, ahead>>

(* After the flock: the preempt file is unlinked, then (finally) the ticket. *)
Acquired(p) ==
    /\ pc[p] = "locked"
    /\ pc' = [pc EXCEPT ![p] = "own"]
    /\ hint' = FALSE
    /\ tickets' = tickets \ {TicketOf(p)}
    /\ UNCHANGED <<clock, procfs, born, start, stop, stamp, seen, polls, lock, ahead>>

(* finally, without the lock: the ticket is unlinked and the file closed. *)
GiveUp(p) ==
    /\ pc[p] = "leave"
    /\ Gone(p)
    /\ tickets' = tickets \ {TicketOf(p)}
    /\ UNCHANGED <<lock, hint, ahead>>

(* release, at the end of an attempt; main then retries or exits. *)
Release(p) ==
    /\ pc[p] = "own"
    /\ pc' = [pc EXCEPT ![p] = "idle"]
    /\ lock' = NoPid
    /\ UNCHANGED <<clock, procfs, born, start, stop, stamp, seen, polls,
                   tickets, hint, ahead>>

(* consume_preempt_request of eufy_warm.py. *)
WarmerReadsHint ==
    /\ hint
    /\ hint' = FALSE
    /\ UNCHANGED <<clock, procfs, born, pc, start, stop, stamp, seen, polls,
                   tickets, lock, ahead>>
-----------------------------------------------------------------------------
Step(p) ==
    \/ Publish(p) \/ List(p) \/ LoopEnds(p) \/ Probe(p)
    \/ Flock(p) \/ FlockBusy(p) \/ Poll(p) \/ Acquired(p) \/ GiveUp(p)

Environment(p) ==
    \/ \E kind \in {"idle", "foreign", "alien"} : Spawn(p, kind)
    \/ Die(p) \/ Signal(p) \/ Exit(p) \/ Draw(p)

Next ==
    \/ \E p \in Pid : Step(p) \/ Release(p) \/ Environment(p)
    \/ WarmerReadsHint

Spec == Init /\ [][Next]_vars

(* A process that can run does run: asyncio wakes every producer at the
   latest after SESSION_LOCK_POLL.  Nothing is assumed about arrivals,
   signals, deaths or the warmer, and a session may last for ever.         *)
Fairness == \A p \in Pid : WF_vars(Step(p))

FairSpec == Spec /\ Fairness
-----------------------------------------------------------------------------
(* Properties *)

(* Nobody but its owner removes the ticket of a process that waits,        *)
(* whatever scan of another process it is caught in and however often its  *)
(* pid was used before (eufy_run.py 127-150): a waiter whose ticket is     *)
(* dropped would silently lose its place.                                  *)
LiveTicketKept == \A p \in Waiting : TicketOf(p) \in tickets

(* The gate implements the arbiter: one holder, and whoever was queued     *)
(* when p drew its stamp is served before p, unless it leaves or dies      *)
(* (eufy_run.py 109-113, "serves producers in arrival order").             *)
standing ==
    [p \in Pid |->
        IF pc[p] \in Holding THEN "holding"
        ELSE IF pc[p] \in InLoop THEN "queued"
        ELSE IF pc[p] = "drawn" THEN "coming" ELSE "out"]

Arbiter == INSTANCE SessionArbiter WITH Client <- Pid, st <- standing

ArbiterSpec == Arbiter!Spec

(* Viewers leave, and the supervisor bounds its attempts. *)
SessionsEnd == \A p \in Pid : []<>(pc[p] # "own")

(* The image has one user; elsewhere another one's processes end. *)
AliensEnd == \A p \in Pid : []<>(pc[p] # "alien")

(* With /proc readable and sessions that end, tickets that crashes left    *)
(* behind never block the queue, also when another process has taken the   *)
(* pid: a waiter gets the session, gives up or dies (eufy_run.py 139-148). *)
NoStarvation ==
    SessionsEnd /\ AliensEnd =>
        \A p \in Pid :
            (procfs /\ pc[p] \in InLoop \cup {"drawn"})
                ~> pc[p] \notin InLoop \cup {"drawn"}

(* Why the gate is first come, first served: the oldest waiters are still  *)
(* in the listing p probes, and a process that probed past them has nobody *)
(* ahead.  Inductive together with TypeOK.                                 *)
GateInv ==
    /\ \A p \in Pid : pc[p] \in HasFile => TicketOf(p) \in tickets
    /\ \A p \in Pid : pc[p] \in Holding <=> lock = p
    /\ \A p \in Pid : stamp[p] < clock
    /\ \A p \in Pid : \A q \in ahead[p] :
          /\ p # q
          /\ pc[q] \in InLoop
          /\ pc[p] \in {"drawn", "loop", "probe", "wait"}
          /\ stamp[q] < stamp[p]
          /\ pc[p] = "probe" => TicketOf(q) \in seen[p]

(* While a producer waits for a session someone else owns, the preempt     *)
(* hint comes back although the warmer or another acquirer deleted it      *)
(* (eufy_run.py 187-189): else a warm camera would hold the NVR until its  *)
(* lease ends.                                                             *)
HintReasserted ==
    \A p \in Pid :
        (pc[p] \in InLoop /\ lock # NoPid)
            ~> (hint \/ pc[p] \notin InLoop \/ lock = NoPid)
=============================================================================
