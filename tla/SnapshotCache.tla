--------------------------- MODULE SnapshotCache ---------------------------
(***************************************************************************)
(* SnapshotCache of custom_components/eufy_nvr/snapshot.py: thumbnails of  *)
(* the cameras of one NVR, captured one at a time, kept for a while, and   *)
(* served stale while one refresh per camera runs in the background.       *)
(*                                                                         *)
(* Tasks of one event loop: callers of async_get, and per key at most one  *)
(* refresh task, named by its key.  A step runs from one await to the next;*)
(* the awaits are the asyncio.Lock (first come, first served), the capture *)
(* and nothing else.  Deadlines and entries are counted in ticks left.     *)
(***************************************************************************)
EXTENDS Integers, Sequences, FiniteSets

CONSTANTS
    Key,         \* cameras
    Caller,      \* tasks that call async_get
    Nobody,      \* neither a task nor a key
    Ttl,         \* ttl
    FailTtl,     \* failure_ttl
    StaleTtl,    \* stale_ttl
    Timeout,     \* timeout
    MaxEntries   \* max_entries

ASSUME LimitsOK ==
    /\ {Ttl, FailTtl, Timeout, MaxEntries} \subseteq Nat \ {0}
    /\ StaleTtl \in Nat /\ StaleTtl >= Ttl /\ StaleTtl >= FailTtl
    /\ Key \cap Caller = {} /\ Nobody \notin Key \cup Caller

VARIABLES
    cached,  \* the cached keys
    before,  \* their order: <<i, j>> when i was used less recently than j
    entry,   \* entry[k]: ticks left of fresh and stale, and whether there is an image
    age,     \* history: age[k] = ticks since the last image of k was captured
    call,    \* call[c]: what caller c does, for which key, ticks to its deadline
    job,     \* job[k]: the refresh task of k, ticks to its deadline
    queue,   \* the tasks that wait for the lock, in order
    lock,    \* the task that holds it, or Nobody
    since    \* ticks since the refresh that holds it read the clock

cacheVars == <<cached, before, entry, age, call, job, queue, lock, since>>

Task == Caller \cup Key
Entry == [fresh : 0 .. (Ttl + FailTtl), stale : 0 .. StaleTtl, image : BOOLEAN]
Empty == [fresh |-> 0, stale |-> 0, image |-> FALSE]
Idle == [at |-> "idle", key |-> Nobody, left |-> 0]
NoJob == [at |-> "none", left |-> 0]

TypeOK ==
    /\ cached \subseteq Key /\ Cardinality(cached) <= MaxEntries
    /\ before \subseteq cached \X cached
    /\ \A i, j \in cached : i # j => (<<i, j>> \in before <=> <<j, i>> \notin before)
    /\ entry \in [Key -> Entry]
    /\ age \in [Key -> 0 .. StaleTtl]
    /\ call \in [Caller -> [at : {"idle", "wait", "capture"}, key : Key \cup {Nobody},
                            left : 0 .. Timeout]]
    /\ job \in [Key -> [at : {"none", "wait", "capture", "relock"}, left : 0 .. Timeout]]
    /\ queue \in Seq(Task) /\ lock \in Task \cup {Nobody}
    /\ since \in 0 .. FailTtl

CacheInit ==
    /\ cached = {} /\ before = {} /\ entry = [k \in Key |-> Empty] /\ age = [k \in Key |-> StaleTtl]
    /\ call = [c \in Caller |-> Idle] /\ job = [k \in Key |-> NoJob]
    /\ queue = <<>> /\ lock = Nobody /\ since = 0
-----------------------------------------------------------------------------
(* The OrderedDict: the keys C remain of it, or they remain and k is used. *)

Cached(k) == k \in cached

Keep(C) == cached' = C /\ before' = before \cap (C \X C)

Use_Twice(C, k) ==  \* mutant: k keeps its old place as well
    /\ cached' = C \cup {k}
    /\ before' = (before \cap (C \X C)) \cup ((C \ {k}) \X {k})

Use(C, k) ==
    LET rest == C \ {k}
    IN cached' = C \cup {k} /\ before' = (before \cap (rest \X rest)) \cup (rest \X {k})

(* popitem(last=False), when there is one key too many with k. *)
Evicted(k) ==
    {i \in cached \ {k} :
        /\ Cardinality(cached \cup {k}) > MaxEntries
        /\ \A j \in cached \ {i, k} : <<i, j>> \in before}

(* The purge of expired entries that starts every lookup.  A refresh that
   captures keeps what it has read of its entry. *)
Unexpired == {k \in cached : entry[k].stale > 0}
Purged == [k \in Key |-> IF entry[k].stale > 0 \/ lock = k THEN entry[k] ELSE Empty]

(* _cached: a fresh result (also of a failure), a stale image, or neither. *)
IsFresh(k) == Cached(k) /\ entry[k].stale > 0 /\ entry[k].fresh > 0
IsStale(k) == Cached(k) /\ entry[k].stale > 0 /\ entry[k].fresh = 0 /\ entry[k].image
Misses(k)  == ~IsFresh(k) /\ ~IsStale(k)

(* _remember, with the eviction of the least recently used entry. *)
Remember(k, image) ==
    LET new == IF image THEN [fresh |-> Ttl, stale |-> StaleTtl, image |-> TRUE]
                        ELSE [fresh |-> FailTtl, stale |-> FailTtl, image |-> FALSE]
    IN
    /\ Use(cached \ Evicted(k), k)
    /\ entry' = [i \in Key |-> IF i = k THEN new
                               ELSE IF i \in Evicted(k) THEN Empty ELSE entry[i]]
    /\ age' = IF image THEN [age EXCEPT ![k] = 0] ELSE age

Cooldown_Forget(k, passed) ==  \* mutant: a failed refresh is remembered like any failure
    Remember(k, FALSE)

Cooldown_Renew(k, passed) ==  \* mutant: the cooldown renews the image's life
    /\ entry' = [entry EXCEPT ![k].fresh = FailTtl, ![k].stale = StaleTtl]
    /\ Use(cached, k)
    /\ UNCHANGED age

(* The entry of a failed refresh: the image and its deadline stay, and it is
   fresh again until failure_ttl after the clock was read.  Time that passed
   since then counts. *)
Cooldown(k, passed) ==
    /\ entry' = [entry EXCEPT ![k].fresh = IF passed < FailTtl THEN FailTtl - passed ELSE 0]
    /\ Use(cached, k)
    /\ UNCHANGED age

Without(s, x) ==
    IF \E n \in DOMAIN s : s[n] = x
      THEN LET n == CHOOSE m \in DOMAIN s : s[m] = x
           IN SubSeq(s, 1, n - 1) \o SubSeq(s, n + 1, Len(s))
      ELSE s

(* Task t is no longer queued and no longer holds the lock. *)
Leave(t) ==
    /\ queue' = Without(queue, t)
    /\ lock' = IF lock = t THEN Nobody ELSE lock

(* _start_refresh, on top of a change of the queue to q. *)
Refresh(k, q) ==
    IF job[k].at = "none"
      THEN /\ job' = [job EXCEPT ![k] = [at |-> "wait", left |-> Timeout]]
           /\ queue' = Append(q, k)
      ELSE queue' = q /\ UNCHANGED job
-----------------------------------------------------------------------------
(* async_get *)

AskHit(c, k) ==
    /\ call[c].at = "idle" /\ ~Misses(k)
    /\ Use(Unexpired, k) /\ entry' = Purged
    /\ IF IsStale(k) THEN Refresh(k, queue) ELSE UNCHANGED <<job, queue>>
    /\ UNCHANGED <<age, call, lock, since>>

AskMiss(c, k) ==
    /\ call[c].at = "idle" /\ Misses(k)
    /\ Keep(Unexpired) /\ entry' = Purged
    /\ call' = [call EXCEPT ![c] = [at |-> "wait", key |-> k, left |-> Timeout]]
    /\ queue' = Append(queue, c)
    /\ UNCHANGED <<age, job, lock, since>>

First(t) == lock = Nobody /\ queue # <<>> /\ Head(queue) = t

(* With the lock, the cache is looked up again: another task may have filled
   it.  (After a miss _cached has purged the key, so that the code's two
   branches for a stale image of a foreground capture are never taken.) *)
LockHit(c) ==
    LET k == call[c].key IN
    /\ call[c].at = "wait" /\ First(c) /\ ~Misses(k)
    /\ Use(Unexpired, k) /\ entry' = Purged
    /\ IF IsStale(k) THEN Refresh(k, Tail(queue)) ELSE queue' = Tail(queue) /\ UNCHANGED job
    /\ call' = [call EXCEPT ![c] = Idle]
    /\ UNCHANGED <<age, lock, since>>

LockMiss(c) ==
    /\ call[c].at = "wait" /\ First(c) /\ Misses(call[c].key)
    /\ Keep(Unexpired) /\ entry' = Purged
    /\ call' = [call EXCEPT ![c].at = "capture"]
    /\ queue' = Tail(queue) /\ lock' = c /\ since' = 0
    /\ UNCHANGED <<age, job>>

(* The capture returns an image, or it raises or returns None. *)
Captured(c, image) ==
    /\ call[c].at = "capture"
    /\ Remember(call[c].key, image)
    /\ call' = [call EXCEPT ![c] = Idle]
    /\ Leave(c)
    /\ UNCHANGED <<job, since>>

CallEnds_KeepsLock(c) ==  \* mutant: the lock is not released on the way out
    /\ call[c].at # "idle"
    /\ call' = [call EXCEPT ![c] = Idle]
    /\ queue' = Without(queue, c)
    /\ UNCHANGED <<cached, before, entry, age, job, lock, since>>

(* The deadline of the call, or a cancellation from outside. *)
CallEnds(c) ==
    /\ call[c].at # "idle"
    /\ call' = [call EXCEPT ![c] = Idle]
    /\ Leave(c)
    /\ UNCHANGED <<cached, before, entry, age, job, since>>

CallTimesOut(c) == call[c].left = 0 /\ CallEnds(c)
-----------------------------------------------------------------------------
(* _async_refresh *)

JobLocks_NoLock(k) ==  \* mutant: the refresh does not wait for the lock
    /\ job[k].at = "wait"
    /\ Cached(k) /\ entry[k].stale > 0 /\ entry[k].fresh = 0
    /\ job' = [job EXCEPT ![k].at = "capture"]
    /\ queue' = Without(queue, k) /\ lock' = lock /\ since' = 0
    /\ UNCHANGED <<cached, before, entry, age, call>>

(* It captures unless the image has expired, gone or been refreshed. *)
JobLocks(k) ==
    /\ job[k].at = "wait" /\ First(k)
    /\ queue' = Tail(queue)
    /\ IF Cached(k) /\ entry[k].stale > 0 /\ entry[k].fresh = 0
         THEN /\ job' = [job EXCEPT ![k].at = "capture"]
              /\ lock' = k /\ since' = 0
         ELSE /\ job' = [job EXCEPT ![k] = NoJob]
              /\ UNCHANGED <<lock, since>>
    /\ UNCHANGED <<cached, before, entry, age, call>>

JobCaptured(k) ==
    /\ job[k].at = "capture"
    /\ Remember(k, TRUE)
    /\ job' = [job EXCEPT ![k] = NoJob]
    /\ Leave(k) /\ since' = 0
    /\ UNCHANGED call

JobFails(k) ==
    /\ job[k].at = "capture"
    /\ Cooldown(k, since)
    /\ job' = [job EXCEPT ![k] = NoJob]
    /\ Leave(k) /\ since' = 0
    /\ UNCHANGED call

(* TimeoutError: the lock is left and waited for again, without a deadline. *)
JobTimesOut(k) ==
    /\ job[k].at \in {"wait", "capture"} /\ job[k].left = 0
    /\ job' = [job EXCEPT ![k] = [at |-> "relock", left |-> 0]]
    /\ queue' = Append(Without(queue, k), k)
    /\ lock' = IF lock = k THEN Nobody ELSE lock
    /\ since' = IF lock = k THEN 0 ELSE since
    /\ UNCHANGED <<cached, before, entry, age, call>>

JobRelocks(k) ==
    /\ job[k].at = "relock" /\ First(k)
    /\ queue' = Tail(queue)
    /\ job' = [job EXCEPT ![k] = NoJob]
    /\ IF Cached(k) /\ entry[k].stale > 0 THEN Cooldown(k, 0) ELSE UNCHANGED <<cached, before, entry, age>>
    /\ UNCHANGED <<call, lock, since>>

(* discard: the entry goes, the refresh is cancelled.  A foreground capture
   of the same key runs on. *)
Discard(k) ==
    /\ Keep(cached \ {k})
    /\ entry' = [entry EXCEPT ![k] = Empty]
    /\ job' = [job EXCEPT ![k] = NoJob]
    /\ Leave(k) /\ since' = IF lock = k THEN 0 ELSE since
    /\ UNCHANGED <<age, call>>
-----------------------------------------------------------------------------
(* A tick does not pass a deadline: that acts first. *)
Timed(a) == a.at \in {"wait", "capture"}
Sooner(a) == IF Timed(a) THEN [a EXCEPT !.left = @ - 1] ELSE a

Less(n) == IF n > 0 THEN n - 1 ELSE 0

CacheTick ==
    /\ \A c \in Caller : Timed(call[c]) => call[c].left > 0
    /\ \A k \in Key : Timed(job[k]) => job[k].left > 0
    /\ call' = [c \in Caller |-> Sooner(call[c])]
    /\ job' = [k \in Key |-> Sooner(job[k])]
    /\ entry' = [k \in Key |-> [entry[k] EXCEPT !.fresh = Less(@), !.stale = Less(@)]]
    /\ age' = [k \in Key |-> IF age[k] < StaleTtl THEN age[k] + 1 ELSE StaleTtl]
    /\ since' = IF lock \in Key /\ since < FailTtl THEN since + 1 ELSE since
    /\ UNCHANGED <<cached, before, queue, lock>>

JobStep(k) == JobLocks(k) \/ JobTimesOut(k) \/ JobRelocks(k)
JobNext(k) == JobStep(k) \/ JobCaptured(k) \/ JobFails(k)
-----------------------------------------------------------------------------
(* Properties *)

(* The NVR is never asked for two thumbnails at once: timeouts, discards   *)
(* and cancellations leave no second capture running (snapshot.py 3-4,     *)
(* 73-74, 144-145).                                                        *)
OneCapture ==
    Cardinality({c \in Caller : call[c].at = "capture"}
                \cup {k \in Key : job[k].at = "capture"}) <= 1

(* However often its refresh fails, an image that is served was captured   *)
(* less than stale_ttl ago (snapshot.py 154-166).                          *)
AgeBounded ==
    \A k \in Key : ~Misses(k) /\ entry[k].image => age[k] < StaleTtl

(* A refresh that fails, or a camera that fails, costs no camera its       *)
(* unexpired image: only discard and a full cache do (snapshot.py 66-68).  *)
FallbackKept ==
    [][\A k \in Key :
          (Cached(k) /\ entry[k].image /\ entry[k].stale > 0) =>
             IF k \in cached'
               THEN entry'[k].image
               ELSE Discard(k) \/ Cardinality(cached) = MaxEntries]_cacheVars

(* Every refresh ends, whatever the captures do: one that is left over     *)
(* would block all later ones of its camera (snapshot.py 124-125, 168-177).*)
RefreshEnds == \A k \in Key : []<>(job[k].at = "none")
=============================================================================
