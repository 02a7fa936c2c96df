------------------------- MODULE FramePrimerProofs -------------------------
(***************************************************************************)
(* The snapshot cache under its primer and its dashboards, for any cameras,*)
(* callers, deadlines and cache size, however callers, refresh tasks,      *)
(* timeouts, cancellations and removals interleave: one capture at a time, *)
(* a bounded cache in order of use, no image served past its age, and no   *)
(* image lost but to a removal or a full cache.                            *)
(***************************************************************************)
EXTENDS FramePrimer, FiniteSetTheorems, SequenceTheorems, WellFoundedInduction, TLAPS

CallState == [at : {"idle", "wait", "capture"}, key : Key \cup {Nobody}, left : 0 .. Timeout]
JobState  == [at : {"none", "wait", "capture", "relock"}, left : 0 .. Timeout]

(* What a caller does: a step of async_get, or its cancellation. *)
CallNext(c) ==
    \/ \E k \in Key : AskHit(c, k) \/ AskMiss(c, k)
    \/ LockHit(c) \/ LockMiss(c) \/ CallEnds(c)
    \/ \E image \in BOOLEAN : Captured(c, image)

(* All that ever happens to the cache. *)
CacheNext ==
    \/ \E c \in Caller : CallNext(c)
    \/ \E k \in Key : JobNext(k) \/ Discard(k)
    \/ CacheTick

(* A caller that is not idle asks for a camera; whoever captures holds the
   lock. *)
TaskInv ==
    /\ call \in [Caller -> CallState]
    /\ job \in [Key -> JobState]
    /\ \A c \in Caller : call[c].at # "idle" => call[c].key \in Key
    /\ \A c \in Caller : call[c].at = "capture" => lock = c
    /\ \A k \in Key : job[k].at = "capture" => lock = k

(* The coordinator's own variables. *)
DomainInv ==
    /\ data \subseteq Key /\ primed \subseteq Key /\ todo \subseteq Key
    /\ primer \in {"begin", "cycle", "retry", "rest"}

LockInv == TaskInv /\ DomainInv

USE DEF CallState, JobState

(* A lookup starts no capture, and no task loses or gets the lock by it. *)
LEMMA AskKeeps ==
    ASSUME TaskInv, NEW c \in Caller, NEW k \in Key, AskHit(c, k) \/ AskMiss(c, k)
    PROVE  TaskInv'
<1> USE LimitsOK DEF TaskInv
<1>1. CASE AskHit(c, k)
  <2>1. CASE IsStale(k) /\ job[k].at = "none"
    <3>1. job' = [job EXCEPT ![k] = [at |-> "wait", left |-> Timeout]] /\ UNCHANGED <<call, lock>>
      BY <1>1, <2>1 DEF AskHit, Refresh
    <3> QED BY <3>1
  <2>2. CASE ~(IsStale(k) /\ job[k].at = "none")
    <3>1. UNCHANGED <<job, call, lock>>
      BY <1>1, <2>2 DEF AskHit, Refresh
    <3> QED BY <3>1
  <2> QED BY <2>1, <2>2
<1>2. CASE AskMiss(c, k)
  <2>1. /\ call' = [call EXCEPT ![c] = [at |-> "wait", key |-> k, left |-> Timeout]]
        /\ UNCHANGED <<job, lock>>
    BY <1>2 DEF AskMiss
  <2>2. call' \in [Caller -> CallState]
    BY <2>1
  <2>3. \A d \in Caller : call'[d].at # "idle" => call'[d].key \in Key
    BY <2>1
  <2> QED BY <2>1, <2>2, <2>3
<1> QED BY <1>1, <1>2

(* A caller that gets the lock captures only if it keeps it. *)
LEMMA LockKeeps ==
    ASSUME TaskInv, NEW c \in Caller, LockHit(c) \/ LockMiss(c)
    PROVE  TaskInv'
<1> USE LimitsOK DEF TaskInv
<1>0. lock = Nobody
  BY DEF LockHit, LockMiss, First
<1>1. CASE LockHit(c)
  <2> DEFINE k == call[c].key
  <2>1. call' = [call EXCEPT ![c] = Idle] /\ UNCHANGED lock
    BY <1>1 DEF LockHit
  <2>2. job' = [job EXCEPT ![k] = [at |-> "wait", left |-> Timeout]] \/ UNCHANGED job
    BY <1>1 DEF LockHit, Refresh
  <2>3. call' \in [Caller -> CallState] /\ job' \in [Key -> JobState]
    BY <2>1, <2>2 DEF Idle
  <2>4. \A d \in Caller : call'[d].at = "capture" => lock' = d
    BY <2>1 DEF Idle
  <2>5. \A j \in Key : job'[j].at = "capture" => lock' = j
    BY <2>1, <2>2
  <2>6. \A d \in Caller : call'[d].at # "idle" => call'[d].key \in Key
    BY <2>1 DEF Idle
  <2> QED BY <2>3, <2>4, <2>5, <2>6
<1>2. CASE LockMiss(c)
  <2>1. /\ call[c].at # "idle"
        /\ call' = [call EXCEPT ![c].at = "capture"] /\ lock' = c /\ UNCHANGED job
    BY <1>2 DEF LockMiss
  <2>2. \A d \in Caller : call[d].at # "capture"
    BY <1>0
  <2>3. \A k \in Key : job[k].at # "capture"
    BY <1>0
  <2>4. call' \in [Caller -> CallState]
    BY <2>1
  <2>5. \A d \in Caller : call'[d].at # "idle" => call'[d].key \in Key
    BY <2>1
  <2> QED BY <2>1, <2>2, <2>3, <2>4, <2>5
<1> QED BY <1>1, <1>2

(* A caller that leaves, by any way, gives up its own hold and no other. *)
LEMMA CallLeaves ==
    ASSUME TaskInv, NEW c \in Caller,
           CallEnds(c) \/ \E image \in BOOLEAN : Captured(c, image)
    PROVE  TaskInv'
<1> USE LimitsOK DEF TaskInv
<1>1. /\ call' = [call EXCEPT ![c] = Idle]
      /\ lock' = IF lock = c THEN Nobody ELSE lock
      /\ UNCHANGED job
  BY DEF CallEnds, Captured, Leave
<1>2. call' \in [Caller -> CallState]
  BY <1>1 DEF Idle
<1>3. \A d \in Caller : call'[d].at = "capture" => lock' = d
  BY <1>1 DEF Idle
<1>4. \A k \in Key : job'[k].at = "capture" => lock' = k
  BY <1>1
<1>5. \A d \in Caller : call'[d].at # "idle" => call'[d].key \in Key
  BY <1>1 DEF Idle
<1> QED BY <1>1, <1>2, <1>3, <1>4, <1>5

(* The same for a refresh task, and for one that is discarded. *)
LEMMA JobKeeps ==
    ASSUME TaskInv, NEW k \in Key, JobNext(k) \/ Discard(k)
    PROVE  TaskInv'
<1> USE LimitsOK DEF TaskInv
<1>1. CASE JobLocks(k)
  <2>1. lock = Nobody
    BY <1>1 DEF JobLocks, First
  <2>2. \A c \in Caller : call[c].at # "capture"
    BY <2>1
  <2>3. \A j \in Key : job[j].at # "capture"
    BY <2>1
  <2>4. \/ job' = [job EXCEPT ![k].at = "capture"] /\ lock' = k /\ UNCHANGED call
        \/ job' = [job EXCEPT ![k] = NoJob] /\ UNCHANGED <<lock, call>>
    BY <1>1 DEF JobLocks
  <2> QED BY <2>2, <2>3, <2>4 DEF NoJob
<1>2. CASE JobCaptured(k) \/ JobFails(k) \/ Discard(k)
  <2>1. /\ job' = [job EXCEPT ![k] = NoJob]
        /\ lock' = IF lock = k THEN Nobody ELSE lock
        /\ UNCHANGED call
    BY <1>2 DEF JobCaptured, JobFails, Discard, Leave
  <2> QED BY <2>1 DEF NoJob
<1>3. CASE JobTimesOut(k)
  <2>1. /\ job' = [job EXCEPT ![k] = [at |-> "relock", left |-> 0]]
        /\ lock' = IF lock = k THEN Nobody ELSE lock
        /\ UNCHANGED call
    BY <1>3 DEF JobTimesOut
  <2> QED BY <2>1
<1>4. CASE JobRelocks(k)
  <2>1. job' = [job EXCEPT ![k] = NoJob] /\ UNCHANGED <<lock, call>>
    BY <1>4 DEF JobRelocks
  <2> QED BY <2>1 DEF NoJob
<1> QED BY <1>1, <1>2, <1>3, <1>4 DEF JobNext, JobStep

(* Time changes deadlines only. *)
LEMMA TickKeeps ==
    ASSUME TaskInv, CacheTick
    PROVE  TaskInv'
<1> USE LimitsOK DEF TaskInv
<1>1. /\ call' = [c \in Caller |-> Sooner(call[c])]
      /\ job' = [k \in Key |-> Sooner(job[k])]
      /\ UNCHANGED lock
  BY DEF CacheTick
<1>2. ASSUME NEW c \in Caller
      PROVE  /\ Sooner(call[c]) \in CallState
             /\ Sooner(call[c]).at = call[c].at /\ Sooner(call[c]).key = call[c].key
  <2>1. Timed(call[c]) => call[c].left > 0
    BY DEF CacheTick
  <2> QED BY <2>1 DEF Sooner, Timed
<1>3. ASSUME NEW k \in Key
      PROVE  Sooner(job[k]) \in JobState /\ Sooner(job[k]).at = job[k].at
  <2>1. Timed(job[k]) => job[k].left > 0
    BY DEF CacheTick
  <2> QED BY <2>1 DEF Sooner, Timed
<1> QED BY <1>1, <1>2, <1>3

(* The coordinator and the entities use the cache only through async_get   *)
(* and discard: each step of theirs is one of the cache, or none           *)
(* (coordinator.py 97-134, camera.py 124-145).                              *)
LEMMA StepOfCache ==
    ASSUME LockInv, [Next]_vars
    PROVE  [CacheNext]_cacheVars
<1> USE PrimerOK DEF LockInv, DomainInv
<1>1. CASE PrimeNext
  <2>1. PICK k \in todo : AskHit(Primer, k) \/ AskMiss(Primer, k)
    BY <1>1 DEF PrimeNext
  <2> QED BY <2>1 DEF CacheNext, CallNext
<1>2. CASE PrimeCall \/ PrimeCaptured \/ SetupTimesOut
  BY <1>2 DEF PrimeCall, PrimeCaptured, SetupTimesOut, CallTimesOut, CacheNext, CallNext
<1>3. ASSUME NEW c \in Dashboards, Dashboard(c) \/ DashboardCall(c) \/ DashboardEnds(c)
      PROVE  CacheNext
  <2>1. c \in Caller
    BY DEF Dashboards
  <2> QED
    BY <1>3, <2>1 DEF Dashboard, DashboardCall, DashboardEnds, CallTimesOut, CacheNext, CallNext
<1>4. ASSUME NEW k \in Key, DiscardFrame(k) \/ JobNext(k) PROVE CacheNext
  BY <1>4 DEF DiscardFrame, CacheNext
<1>5. CASE Update \/ BeginCycle \/ EndCycle \/ Wake \/ UNCHANGED vars
  BY <1>5 DEF Update, BeginCycle, EndCycle, Wake, vars
<1>6. CASE CacheTick
  BY <1>6 DEF CacheNext
<1>7. \/ PrimeNext \/ PrimeCall \/ PrimeCaptured \/ SetupTimesOut
      \/ \E c \in Dashboards : Dashboard(c) \/ DashboardCall(c) \/ DashboardEnds(c)
      \/ \E k \in Key : DiscardFrame(k) \/ JobNext(k)
      \/ Update \/ BeginCycle \/ EndCycle \/ Wake \/ UNCHANGED vars
      \/ CacheTick
  BY Zenon DEF Next, Urgent, JobNext
<1> QED
  BY <1>1, <1>2, <1>3, <1>4, <1>5, <1>6, <1>7

(* The calls and refreshes keep track of their holds on the lock. *)
LEMMA TaskStep ==
    ASSUME TaskInv, [CacheNext]_cacheVars
    PROVE  TaskInv'
<1>1. CASE UNCHANGED cacheVars
  BY <1>1 DEF cacheVars, TaskInv
<1> QED
  BY <1>1, AskKeeps, LockKeeps, CallLeaves, JobKeeps, TickKeeps DEF CacheNext, CallNext

(* What is primed was asked for. *)
LEMMA DomainStep ==
    ASSUME LockInv, [Next]_vars
    PROVE  DomainInv'
<1> USE PrimerOK DEF LockInv, DomainInv
<1>1. CASE PrimeNext
  BY <1>1 DEF PrimeNext, Answered, primerVars
<1>2. CASE PrimeCall \/ PrimeCaptured
  <2>1. call[Primer].key \in Key
    BY <1>2 DEF TaskInv, PrimeCall, PrimeCaptured, Captured
  <2> QED BY <1>2, <2>1 DEF PrimeCall, PrimeCaptured, Answered, primerVars
<1>3. CASE SetupTimesOut \/ Update \/ BeginCycle \/ EndCycle \/ Wake
  BY <1>3 DEF SetupTimesOut, Update, BeginCycle, EndCycle, Wake
<1>4. CASE \E k \in Key : DiscardFrame(k)
  BY <1>4 DEF DiscardFrame
<1>5. CASE UNCHANGED primerVars
  BY <1>5 DEF primerVars
<1> QED
  BY <1>1, <1>2, <1>3, <1>4, <1>5
     DEF Next, Urgent, Dashboard, DashboardCall, DashboardEnds, vars

(* The lock invariant holds of the cache, the primer and the dashboard.    *)
THEOREM PrimerLockInvariant == Spec => []LockInv
<1>1. Init => LockInv
  BY LimitsOK DEF Init, CacheInit, LockInv, TaskInv, DomainInv, Idle, NoJob
<1>2. LockInv /\ [Next]_vars => LockInv'
  BY StepOfCache, TaskStep, DomainStep DEF LockInv
<1> QED BY <1>1, <1>2, PTL DEF Spec

(* Two captures would be two holders of the lock: the NVR is never asked   *)
(* for two thumbnails at once (snapshot.py 73-74, 144-145).                *)
THEOREM PrimerOneCapture == Spec => []OneCapture
<1>1. LockInv => OneCapture
  <2> SUFFICES ASSUME LockInv PROVE OneCapture
    OBVIOUS
  <2> DEFINE busy == {c \in Caller : call[c].at = "capture"}
                     \cup {k \in Key : job[k].at = "capture"}
  <2>1. busy \subseteq {lock}
    BY DEF LockInv, TaskInv
  <2>2. busy = {} \/ busy = {lock}
    BY <2>1
  <2>3. Cardinality(busy) = 0 \/ Cardinality(busy) = 1
    BY <2>2, FS_EmptySet, FS_Singleton
  <2> QED BY <2>3 DEF OneCapture
<1> QED BY <1>1, PrimerLockInvariant, PTL
-----------------------------------------------------------------------------
(* While an image may still be served, the time it has left and its age are *)
(* stale_ttl together.                                                     *)
AgeInv ==
    /\ entry \in [Key -> Entry]
    /\ age \in [Key -> 0 .. StaleTtl]
    /\ since \in 0 .. FailTtl
    /\ \A k \in Key : entry[k].image /\ entry[k].stale > 0
                      => age[k] + entry[k].stale = StaleTtl

USE DEF Entry

(* The entry that _remember writes. *)
Remembered(image) ==
    IF image THEN [fresh |-> Ttl, stale |-> StaleTtl, image |-> TRUE]
             ELSE [fresh |-> FailTtl, stale |-> FailTtl, image |-> FALSE]

(* It is an entry, and expires later than now. *)
LEMMA RememberedOK ==
    ASSUME NEW image \in BOOLEAN
    PROVE  /\ Remembered(image) \in Entry /\ Empty \in Entry
           /\ Remembered(image).image = image /\ Empty.image = FALSE
           /\ Remembered(image).stale > 0
           /\ image => Remembered(image).stale = StaleTtl
<1>0. /\ 0 \in 0 .. (Ttl + FailTtl) /\ Ttl \in 0 .. (Ttl + FailTtl)
      /\ FailTtl \in 0 .. (Ttl + FailTtl) /\ FailTtl \in 0 .. StaleTtl
      /\ StaleTtl \in 0 .. StaleTtl /\ 0 \in 0 .. StaleTtl /\ StaleTtl > 0 /\ FailTtl > 0
  BY LimitsOK
<1>1. Empty \in Entry /\ Empty.image = FALSE
  BY <1>0 DEF Empty
<1>2. CASE image = TRUE
  BY <1>0, <1>1, <1>2 DEF Remembered
<1>3. CASE image = FALSE
  BY <1>0, <1>1, <1>3 DEF Remembered
<1> QED BY <1>2, <1>3

(* A lookup purges entries and renews none. *)
LEMMA AgePurged ==
    ASSUME AgeInv, entry' = Purged, UNCHANGED <<age, since>>
    PROVE  AgeInv'
<1>1. Empty \in Entry /\ Empty.image = FALSE
  BY RememberedOK
<1> QED BY <1>1 DEF AgeInv, Purged

(* A capture starts an image's life, or leaves a negative entry; another   *)
(* entry stays or is evicted.                                              *)
LEMMA AgeRemembered ==
    ASSUME AgeInv, NEW key, NEW image \in BOOLEAN, Remember(key, image),
           since' \in 0 .. FailTtl
    PROVE  AgeInv'
<1> USE LimitsOK DEF AgeInv
<1>1. entry' = [i \in Key |-> IF i = key THEN Remembered(image)
                              ELSE IF i \in Evicted(key) THEN Empty ELSE entry[i]]
  BY DEF Remember, Remembered
<1>2. entry' \in [Key -> Entry]
  BY <1>1, RememberedOK
<1>3. /\ age' \in [Key -> 0 .. StaleTtl]
      /\ \A j \in Key : j # key => age'[j] = age[j]
      /\ key \in Key /\ image => age'[key] = 0
  <2>1. CASE image
    <3>1. age' = [age EXCEPT ![key] = 0] /\ 0 \in 0 .. StaleTtl
      BY <2>1 DEF Remember
    <3> QED BY <3>1
  <2>2. CASE ~image
    BY <2>2 DEF Remember
  <2> QED BY <2>1, <2>2
<1>4. ASSUME NEW j \in Key, entry'[j].image, entry'[j].stale > 0
      PROVE  age'[j] + entry'[j].stale = StaleTtl
  <2>1. CASE j = key
    <3>1. entry'[j] = Remembered(image)
      BY <1>1, <2>1
    <3>2. image /\ entry'[j].stale = StaleTtl
      BY <1>4, <3>1, RememberedOK
    <3>3. age'[j] = 0
      BY <1>3, <2>1, <3>2
    <3> QED BY <3>2, <3>3
  <2>2. CASE j # key
    <3>1. entry'[j] = entry[j]
      BY <1>1, <1>4, <2>2, RememberedOK
    <3> QED BY <1>3, <1>4, <2>2, <3>1
  <2> QED BY <2>1, <2>2
<1> QED BY <1>2, <1>3, <1>4

(* A failed refresh renews the wait, not the image. *)
LEMMA CooledOK ==
    ASSUME AgeInv, NEW k \in Key, NEW passed \in Nat, Cooldown(k, passed)
    PROVE  /\ entry' \in [Key -> Entry] /\ UNCHANGED age
           /\ \A j \in Key : entry'[j].stale = entry[j].stale /\ entry'[j].image = entry[j].image
<1> USE LimitsOK DEF AgeInv
<1> DEFINE wait == IF passed < FailTtl THEN FailTtl - passed ELSE 0
<1>1. wait \in 0 .. (Ttl + FailTtl)
  OBVIOUS
<1>2. entry' = [entry EXCEPT ![k].fresh = wait] /\ age' = age
  BY DEF Cooldown
<1> HIDE DEF wait
<1>3. entry' \in [Key -> Entry]
  BY <1>1, <1>2
<1> QED BY <1>2, <1>3

(* A cooldown touches no image and no deadline of one. *)
LEMMA AgeCooled ==
    ASSUME AgeInv, NEW k \in Key, NEW passed \in Nat, Cooldown(k, passed),
           since' \in 0 .. FailTtl
    PROVE  AgeInv'
BY CooledOK DEF AgeInv

(* A tick takes from one what it adds to the other. *)
LEMMA TickOK ==
    ASSUME AgeInv, CacheTick, NEW k \in Key
    PROVE  /\ entry'[k] \in Entry
           /\ entry'[k].stale = Less(entry[k].stale)
           /\ entry'[k].image = entry[k].image
           /\ age'[k] = IF age[k] < StaleTtl THEN age[k] + 1 ELSE StaleTtl
<1> DEFINE e == entry[k]
<1>1. entry'[k] = [e EXCEPT !.fresh = Less(@), !.stale = Less(@)]
  BY DEF CacheTick
<1>2. e \in Entry
  BY DEF AgeInv
<1>3. age'[k] = IF age[k] < StaleTtl THEN age[k] + 1 ELSE StaleTtl
  BY DEF CacheTick
<1>4. Less(e.fresh) \in 0 .. (Ttl + FailTtl) /\ Less(e.stale) \in 0 .. StaleTtl
  BY <1>2, LimitsOK DEF Less
<1> HIDE DEF e
<1>5. entry'[k] = [fresh |-> Less(e.fresh), stale |-> Less(e.stale), image |-> e.image]
  BY <1>1, <1>2
<1>6. entry'[k] \in Entry
  BY <1>2, <1>4, <1>5
<1> QED BY <1>3, <1>5, <1>6 DEF e

(* A tick takes from every deadline what it adds to the age. *)
LEMMA AgeTicks ==
    ASSUME AgeInv, CacheTick
    PROVE  AgeInv'
<1> USE LimitsOK
<1>1. entry' = [k \in Key |-> entry'[k]] /\ age' = [k \in Key |-> age'[k]]
  BY DEF CacheTick
<1>2. entry' \in [Key -> Entry]
  BY <1>1, TickOK
<1>3. age' \in [Key -> 0 .. StaleTtl]
  <2>1. \A k \in Key : age'[k] \in 0 .. StaleTtl
    BY TickOK DEF AgeInv
  <2> QED BY <1>1, <2>1
<1>4. since' \in 0 .. FailTtl
  <2>1. since \in 0 .. FailTtl
    BY DEF AgeInv
  <2>2. since' = since \/ (since < FailTtl /\ since' = since + 1)
    BY DEF CacheTick
  <2> QED BY <2>1, <2>2
<1>5. ASSUME NEW k \in Key, entry'[k].image, entry'[k].stale > 0
      PROVE  age'[k] + entry'[k].stale = StaleTtl
  BY <1>5, TickOK DEF AgeInv, Less
<1> QED BY <1>2, <1>3, <1>4, <1>5 DEF AgeInv

(* Every step of the cache. *)
LEMMA AgeStep ==
    ASSUME AgeInv, [CacheNext]_cacheVars
    PROVE  AgeInv'
<1> USE LimitsOK
<1>0. 0 \in 0 .. FailTtl /\ since \in 0 .. FailTtl
  BY DEF AgeInv
<1>1. ASSUME NEW c \in Caller, CallNext(c) PROVE AgeInv'
  <2>1. CASE \E k \in Key : AskHit(c, k) \/ AskMiss(c, k)
    BY <2>1, AgePurged DEF AskHit, AskMiss
  <2>2. CASE LockHit(c)
    BY <2>2, AgePurged DEF LockHit
  <2>3. CASE LockMiss(c)
    <3>1. since' = 0 /\ entry' = Purged /\ UNCHANGED age
      BY <2>3 DEF LockMiss
    <3>2. Empty \in Entry /\ Empty.image = FALSE
      BY RememberedOK
    <3> QED BY <1>0, <3>1, <3>2 DEF AgeInv, Purged
  <2>4. CASE CallEnds(c)
    BY <2>4 DEF CallEnds, AgeInv
  <2>5. CASE \E image \in BOOLEAN : Captured(c, image)
    BY <1>0, <2>5, AgeRemembered DEF Captured
  <2> QED BY <1>1, <2>1, <2>2, <2>3, <2>4, <2>5 DEF CallNext
<1>2. ASSUME NEW k \in Key, JobNext(k) \/ Discard(k) PROVE AgeInv'
  <2>1. CASE JobLocks(k) \/ JobTimesOut(k)
    BY <1>0, <2>1 DEF JobLocks, JobTimesOut, AgeInv
  <2>2. CASE JobRelocks(k)
    <3>1. Cooldown(k, 0) \/ UNCHANGED <<entry, age>>
      BY <2>2 DEF JobRelocks
    <3>2. since' = since
      BY <2>2 DEF JobRelocks
    <3> QED BY <1>0, <3>1, <3>2, AgeCooled DEF AgeInv
  <2>3. CASE JobCaptured(k)
    BY <1>0, <2>3, AgeRemembered DEF JobCaptured
  <2>4. CASE JobFails(k)
    BY <1>0, <2>4, AgeCooled DEF JobFails
  <2>5. CASE Discard(k)
    <3>1. since' \in 0 .. FailTtl /\ age' = age /\ entry' = [entry EXCEPT ![k] = Empty]
      BY <1>0, <2>5 DEF Discard
    <3> QED BY <3>1, RememberedOK DEF AgeInv
  <2> QED BY <1>2, <2>1, <2>2, <2>3, <2>4, <2>5 DEF JobNext, JobStep
<1>3. CASE UNCHANGED cacheVars
  BY <1>3 DEF cacheVars, AgeInv
<1> QED BY <1>1, <1>2, <1>3, AgeTicks DEF CacheNext

(* The age of an image and the time it may still be served are StaleTtl    *)
(* together: whatever refreshes, failures and cooldowns come in between,   *)
(* nothing but a capture makes an image young again (snapshot.py _remember,*)
(* _async_refresh).                                                        *)
THEOREM PrimerAgeInvariant == Spec => []AgeInv
<1>1. Init => AgeInv
  <2>1. Empty \in Entry /\ Empty.image = FALSE
    BY RememberedOK
  <2>2. 0 \in 0 .. FailTtl /\ StaleTtl \in 0 .. StaleTtl
    BY LimitsOK
  <2> QED BY <2>1, <2>2 DEF Init, CacheInit, AgeInv
<1>2. LockInv /\ AgeInv /\ [Next]_vars => AgeInv'
  BY StepOfCache, AgeStep
<1> QED BY <1>1, <1>2, PrimerLockInvariant, PTL DEF Spec

(* However often its refresh fails, an image that is served was captured   *)
(* less than stale_ttl ago (snapshot.py 154-166).                          *)
THEOREM PrimerAgeBounded == Spec => []AgeBounded
<1>1. AgeInv => AgeBounded
  <2> SUFFICES ASSUME AgeInv, NEW k \in Key, ~Misses(k), entry[k].image
                PROVE  age[k] < StaleTtl
    BY DEF AgeBounded
  <2>1. entry[k].stale > 0
    BY DEF Misses, IsFresh, IsStale
  <2>2. entry[k].stale \in Nat /\ age[k] \in Nat /\ age[k] + entry[k].stale = StaleTtl
    BY <2>1 DEF AgeInv
  <2> QED BY <2>1, <2>2, LimitsOK
<1> QED BY <1>1, PrimerAgeInvariant, PTL
-----------------------------------------------------------------------------
(* The cached keys are in a strict order of use. *)
OrderInv ==
    /\ before \subseteq cached \X cached
    /\ \A i \in cached : <<i, i>> \notin before
    /\ \A i, j \in cached : i # j => (<<i, j>> \in before <=> <<j, i>> \notin before)
    /\ \A i, j, k \in cached : <<i, j>> \in before /\ <<j, k>> \in before => <<i, k>> \in before

(* There is room for them, and for what a refresh that fails writes back: it
   evicts nothing. *)
SizeInv ==
    /\ cached \subseteq Key /\ IsFiniteSet(cached)
    /\ Cardinality(cached) <= MaxEntries
    /\ \A k \in Key : job[k].at = "capture" => Cardinality(cached \cup {k}) <= MaxEntries

CacheInv == OrderInv /\ SizeInv

(* A part of a set that is small enough. *)
LEMMA Fewer ==
    ASSUME NEW S, IsFiniteSet(S), Cardinality(S) <= MaxEntries, NEW T \in SUBSET S
    PROVE  IsFiniteSet(T) /\ Cardinality(T) <= MaxEntries
BY FS_Subset, FS_CardinalityType, LimitsOK

(* Keys are dropped. *)
LEMMA KeepOK ==
    ASSUME CacheInv, NEW C \in SUBSET cached, Keep(C),
           \A j \in Key : job'[j].at = "capture" => job[j].at = "capture"
    PROVE  CacheInv'
<1>1. OrderInv'
  BY DEF CacheInv, OrderInv, Keep
<1>2. cached' = C /\ cached' \subseteq Key /\ IsFiniteSet(cached') /\ Cardinality(cached') <= MaxEntries
  BY Fewer DEF CacheInv, SizeInv, Keep
<1>3. ASSUME NEW j \in Key, job'[j].at = "capture"
      PROVE  Cardinality(cached' \cup {j}) <= MaxEntries
  <2>1. IsFiniteSet(cached \cup {j}) /\ Cardinality(cached \cup {j}) <= MaxEntries
    BY <1>3, FS_AddElement DEF CacheInv, SizeInv
  <2>2. cached' \cup {j} \in SUBSET (cached \cup {j})
    BY <1>2
  <2> QED BY <2>1, <2>2, Fewer
<1> QED BY <1>1, <1>2, <1>3 DEF CacheInv, SizeInv

(* The order of use of the keys C, of which k is the last. *)
LEMMA UseOrder ==
    ASSUME OrderInv, NEW C \in SUBSET cached, NEW k, Use(C, k)
    PROVE  OrderInv'
<1> DEFINE rest == C \ {k}
<1>1. cached' = rest \cup {k} /\ before' = (before \cap (rest \X rest)) \cup (rest \X {k})
  BY DEF Use
<1>2. /\ before' \subseteq cached' \X cached'
      /\ \A i \in cached' : <<i, i>> \notin before'
  BY <1>1 DEF OrderInv
<1>3. \A i, j \in rest : <<i, j>> \in before' <=> <<i, j>> \in before
  BY <1>1
<1>4. \A i \in rest : <<i, k>> \in before' /\ <<k, i>> \notin before'
  BY <1>1
<1>5. <<k, k>> \notin before'
  BY <1>1
<1> HIDE DEF rest
<1>6. \A i, j \in cached' : i # j => (<<i, j>> \in before' <=> <<j, i>> \notin before')
  <2> SUFFICES ASSUME NEW i \in cached', NEW j \in cached', i # j
               PROVE  <<i, j>> \in before' <=> <<j, i>> \notin before'
    OBVIOUS
  <2>1. CASE i \in rest /\ j \in rest
    BY <1>3, <2>1 DEF OrderInv, rest
  <2>2. CASE i = k \/ j = k
    BY <1>1, <1>4, <2>2
  <2> QED BY <1>1, <2>1, <2>2
<1>7. \A h, i, j \in cached' :
         <<h, i>> \in before' /\ <<i, j>> \in before' => <<h, j>> \in before'
  <2> SUFFICES ASSUME NEW h \in cached', NEW i \in cached', NEW j \in cached',
                      <<h, i>> \in before', <<i, j>> \in before'
               PROVE  <<h, j>> \in before'
    OBVIOUS
  <2>1. h \in rest /\ i \in rest
    BY <1>1, <1>4, <1>5
  <2>2. CASE j = k
    BY <1>4, <2>1, <2>2
  <2>3. CASE j \in rest
    BY <1>3, <2>1, <2>3 DEF OrderInv, rest
  <2> QED BY <1>1, <2>2, <2>3
<1> QED BY <1>2, <1>6, <1>7 DEF OrderInv

(* A key is used for which there is room. *)
LEMMA UseOK ==
    ASSUME CacheInv, NEW C \in SUBSET cached, NEW k \in Key, Use(C, k),
           Cardinality(cached \cup {k}) <= MaxEntries,
           \A j \in Key : job'[j].at = "capture" => job[j].at = "capture" /\ k \in cached
    PROVE  CacheInv'
<1>1. OrderInv'
  BY UseOrder DEF CacheInv
<1>2. cached' = C \cup {k}
  BY DEF Use
<1>3. IsFiniteSet(cached \cup {k}) /\ cached' \in SUBSET (cached \cup {k}) /\ cached' \subseteq Key
  BY <1>2, FS_AddElement DEF CacheInv, SizeInv
<1>4. IsFiniteSet(cached') /\ Cardinality(cached') <= MaxEntries
  BY <1>3, Fewer
<1>5. ASSUME NEW j \in Key, job'[j].at = "capture"
      PROVE  Cardinality(cached' \cup {j}) <= MaxEntries
  <2>1. IsFiniteSet(cached \cup {j}) /\ Cardinality(cached \cup {j}) <= MaxEntries
    BY <1>5, FS_AddElement DEF CacheInv, SizeInv
  <2>2. cached' \cup {j} \in SUBSET (cached \cup {j})
    BY <1>2, <1>5
  <2> QED BY <2>1, <2>2, Fewer
<1> QED BY <1>1, <1>3, <1>4, <1>5 DEF CacheInv, SizeInv

(* A finite, strictly ordered set that is not empty has a least used key:  *)
(* one whose set of earlier keys is minimal.                               *)
LEMMA LeastUsed ==
    ASSUME CacheInv, NEW C \in SUBSET cached, C # {}
    PROVE  \E i \in C : \A j \in C \ {i} : <<i, j>> \in before
<1> DEFINE Earlier(i) == {j \in C : <<j, i>> \in before}
           F == {Earlier(i) : i \in C}
<1>1. IsFiniteSet(C)
  BY FS_Subset DEF CacheInv, SizeInv
<1>2. F \subseteq FiniteSubsetsOf(C)
  BY <1>1, FS_FiniteSubsetsOfFinite
<1>3. F # {}
  OBVIOUS
<1>4. PICK T \in F : \A U \in F : <<U, T>> \notin StrictSubsetOrdering(C)
  BY <1>2, <1>3, FS_StrictSubsetOrderingWellFounded, WFMin
<1>5. PICK i \in C : T = Earlier(i)
  OBVIOUS
<1>6. ASSUME NEW j \in C, <<j, i>> \in before PROVE FALSE
  <2>1. Earlier(j) \subseteq Earlier(i)
    BY <1>6 DEF CacheInv, OrderInv
  <2>2. j \in Earlier(i) /\ j \notin Earlier(j)
    BY <1>6 DEF CacheInv, OrderInv
  <2>3. Earlier(j) \in F
    OBVIOUS
  <2>4. <<Earlier(j), T>> \in (SUBSET C) \X (SUBSET C)
    BY <1>5
  <2> HIDE DEF Earlier, F
  <2>5. <<Earlier(j), T>> \in StrictSubsetOrdering(C)
    BY <1>5, <2>1, <2>2, <2>4 DEF StrictSubsetOrdering
  <2> QED BY <1>4, <2>3, <2>5
<1>7. \A j \in C \ {i} : <<i, j>> \in before
  BY <1>6 DEF CacheInv, OrderInv
<1> QED BY <1>7

(* A result is stored: the least recently used entry makes room for it,    *)
(* and one is enough (snapshot.py 185-186 loops).                          *)
LEMMA RememberKeeps ==
    ASSUME CacheInv, NEW k \in Key, NEW image \in BOOLEAN, Remember(k, image),
           \A j \in Key : job'[j].at # "capture"
    PROVE  CacheInv'
<1>1. Use(cached \ Evicted(k), k) /\ cached \ Evicted(k) \in SUBSET cached
  BY DEF Remember
<1>2. CASE Cardinality(cached \cup {k}) <= MaxEntries
  BY <1>1, <1>2, UseOK
<1>3. CASE ~(Cardinality(cached \cup {k}) <= MaxEntries)
  <2>1. /\ IsFiniteSet(cached) /\ Cardinality(cached) \in Nat
        /\ Cardinality(cached) <= MaxEntries
        /\ IsFiniteSet(cached \cup {k}) /\ MaxEntries \in Nat \ {0}
        /\ Cardinality(cached \cup {k}) = IF k \in cached THEN Cardinality(cached)
                                                         ELSE Cardinality(cached) + 1
    BY FS_CardinalityType, FS_AddElement, LimitsOK DEF CacheInv, SizeInv
  <2>2. /\ k \notin cached /\ Cardinality(cached) = MaxEntries
        /\ Cardinality(cached \cup {k}) > MaxEntries
    BY <1>3, <2>1
  <2>3. cached # {}
    BY <2>1, <2>2, FS_EmptySet
  <2>4. PICK e \in cached : \A j \in cached \ {e} : <<e, j>> \in before
    BY <2>3, LeastUsed
  <2>5. e \in Evicted(k)
    BY <2>2, <2>4 DEF Evicted
  <2>6. cached' \in SUBSET ((cached \ {e}) \cup {k}) /\ cached' \subseteq Key
    BY <1>1, <2>5 DEF Use, CacheInv, SizeInv
  <2>7. IsFiniteSet(cached \ {e}) /\ Cardinality(cached \ {e}) = MaxEntries - 1
    BY <2>1, <2>2, FS_RemoveElement
  <2>8. /\ IsFiniteSet((cached \ {e}) \cup {k})
        /\ Cardinality((cached \ {e}) \cup {k}) <= MaxEntries
    BY <2>1, <2>2, <2>7, FS_AddElement
  <2>9. IsFiniteSet(cached') /\ Cardinality(cached') <= MaxEntries
    BY <2>6, <2>8, Fewer
  <2>10. OrderInv'
    BY <1>1, UseOrder DEF CacheInv
  <2> QED BY <2>6, <2>9, <2>10 DEF CacheInv, SizeInv
<1> QED BY <1>2, <1>3

(* A refresh is started only for what is cached. *)
LEMMA JobsSame ==
    ASSUME TaskInv, NEW k, NEW q, Refresh(k, q) \/ UNCHANGED job
    PROVE  \A j \in Key : job'[j].at = "capture" => job[j].at = "capture"
<1>1. job' = [job EXCEPT ![k] = [at |-> "wait", left |-> Timeout]] \/ UNCHANGED job
  BY DEF Refresh
<1> QED BY <1>1 DEF TaskInv

(* A hit uses an unexpired entry. *)
LEMMA HitKeeps ==
    ASSUME TaskInv, CacheInv, NEW k \in Key, NEW q, ~Misses(k), Use(Unexpired, k),
           Refresh(k, q) \/ UNCHANGED job
    PROVE  CacheInv'
<1>1. k \in cached /\ Unexpired \in SUBSET cached /\ cached \cup {k} = cached
  BY DEF Misses, IsFresh, IsStale, Cached, Unexpired
<1>2. Cardinality(cached \cup {k}) <= MaxEntries
  BY <1>1 DEF CacheInv, SizeInv
<1> QED BY <1>1, <1>2, JobsSame, UseOK

(* Nothing is stored, used or dropped. *)
LEMMA CacheSame ==
    ASSUME CacheInv, UNCHANGED <<cached, before>>,
           \A j \in Key : job'[j].at = "capture" => job[j].at = "capture" \/ j \in cached
    PROVE  CacheInv'
<1>1. OrderInv'
  BY DEF CacheInv, OrderInv
<1>2. \A j \in cached : cached \cup {j} = cached
  OBVIOUS
<1> QED BY <1>1, <1>2 DEF CacheInv, SizeInv

(* Callers. *)
LEMMA CacheCallStep ==
    ASSUME TaskInv, CacheInv, NEW c \in Caller, CallNext(c)
    PROVE  CacheInv'
<1>0. Unexpired \in SUBSET cached
  BY DEF Unexpired
<1>1. ASSUME NEW k \in Key, AskHit(c, k) PROVE CacheInv'
  <2>1. ~Misses(k) /\ Use(Unexpired, k) /\ (Refresh(k, queue) \/ UNCHANGED job)
    BY <1>1 DEF AskHit
  <2> QED BY <2>1, HitKeeps
<1>2. ASSUME NEW k \in Key, AskMiss(c, k) PROVE CacheInv'
  <2>1. Keep(Unexpired) /\ UNCHANGED job
    BY <1>2 DEF AskMiss
  <2> QED BY <1>0, <2>1, KeepOK
<1>3. CASE LockHit(c)
  <2> DEFINE k == call[c].key
  <2>1. k \in Key
    BY <1>3 DEF LockHit, TaskInv
  <2>2. /\ ~Misses(k) /\ Use(Unexpired, k)
        /\ Refresh(k, Tail(queue)) \/ UNCHANGED job
    BY <1>3 DEF LockHit
  <2> HIDE DEF k
  <2> QED BY <2>1, <2>2, HitKeeps
<1>4. CASE LockMiss(c)
  <2>1. Keep(Unexpired) /\ UNCHANGED job
    BY <1>4 DEF LockMiss
  <2> QED BY <1>0, <2>1, KeepOK
<1>5. CASE CallEnds(c)
  <2>1. UNCHANGED <<cached, before, job>>
    BY <1>5 DEF CallEnds
  <2> QED BY <2>1, CacheSame
<1>6. ASSUME NEW image \in BOOLEAN, Captured(c, image) PROVE CacheInv'
  <2>1. call[c].key \in Key /\ lock = c /\ Remember(call[c].key, image) /\ UNCHANGED job
    BY <1>6 DEF Captured, TaskInv
  <2>2. \A j \in Key : job'[j].at # "capture"
    BY <2>1, LimitsOK DEF TaskInv
  <2> QED BY <2>1, <2>2, RememberKeeps
<1> QED BY <1>1, <1>2, <1>3, <1>4, <1>5, <1>6 DEF CallNext

(* Refreshes. *)
LEMMA CacheJobStep ==
    ASSUME TaskInv, CacheInv, NEW k \in Key, JobNext(k) \/ Discard(k)
    PROVE  CacheInv'
<1>0. ASSUME UNCHANGED job \/ \E r \in JobState : r.at # "capture" /\ job' = [job EXCEPT ![k] = r]
      PROVE  \A j \in Key : job'[j].at = "capture" => job[j].at = "capture"
  BY <1>0 DEF TaskInv
<1>1. CASE JobLocks(k)
  <2>1. UNCHANGED <<cached, before>>
    BY <1>1 DEF JobLocks
  <2>2. \/ k \in cached /\ job' = [job EXCEPT ![k].at = "capture"]
        \/ job' = [job EXCEPT ![k] = NoJob]
    BY <1>1 DEF JobLocks, Cached
  <2>3. \A j \in Key : job'[j].at = "capture" => job[j].at = "capture" \/ j \in cached
    BY <2>2 DEF NoJob, TaskInv
  <2> QED BY <2>1, <2>3, CacheSame
<1>2. CASE JobTimesOut(k)
  <2>1. UNCHANGED <<cached, before>>
    BY <1>2 DEF JobTimesOut
  <2>2. job' = [job EXCEPT ![k] = [at |-> "relock", left |-> 0]]
    BY <1>2 DEF JobTimesOut
  <2>3. \A j \in Key : job'[j].at = "capture" => job[j].at = "capture"
    BY <2>2 DEF TaskInv
  <2> QED BY <2>1, <2>3, CacheSame
<1>3. ASSUME job' = [job EXCEPT ![k] = NoJob]
      PROVE  \A j \in Key : job'[j].at = "capture" => j # k /\ job[j].at = "capture"
  BY <1>3 DEF TaskInv, NoJob
<1>4. ASSUME job' = [job EXCEPT ![k] = NoJob], job[k].at = "capture"
      PROVE  \A j \in Key : job'[j].at # "capture"
  BY <1>3, <1>4 DEF TaskInv
<1>5. CASE JobRelocks(k)
  <2>1. job' = [job EXCEPT ![k] = NoJob]
    BY <1>5 DEF JobRelocks
  <2>2. CASE Cached(k) /\ entry[k].stale > 0
    <3>1. k \in cached /\ Use(cached, k) /\ cached \cup {k} = cached
      BY <1>5, <2>2 DEF JobRelocks, Cooldown, Cached
    <3>2. Cardinality(cached \cup {k}) <= MaxEntries /\ cached \in SUBSET cached
      BY <3>1 DEF CacheInv, SizeInv
    <3> QED BY <1>3, <2>1, <3>1, <3>2, UseOK
  <2>3. CASE ~(Cached(k) /\ entry[k].stale > 0)
    <3>1. UNCHANGED <<cached, before, entry, age>>
      BY <1>5, <2>3, Zenon DEF JobRelocks
    <3>2. UNCHANGED <<cached, before>>
      BY <3>1
    <3> QED BY <1>3, <2>1, <3>2, CacheSame
  <2> QED BY <2>2, <2>3
<1>6. CASE JobCaptured(k)
  <2>1. job' = [job EXCEPT ![k] = NoJob] /\ job[k].at = "capture" /\ Remember(k, TRUE)
    BY <1>6 DEF JobCaptured
  <2> QED BY <1>4, <2>1, RememberKeeps
<1>7. CASE JobFails(k)
  <2>1. job' = [job EXCEPT ![k] = NoJob] /\ job[k].at = "capture" /\ Use(cached, k)
    BY <1>7 DEF JobFails, Cooldown
  <2>2. Cardinality(cached \cup {k}) <= MaxEntries /\ cached \in SUBSET cached
    BY <2>1 DEF CacheInv, SizeInv
  <2> QED BY <1>4, <2>1, <2>2, UseOK
<1>8. CASE Discard(k)
  <2>1. job' = [job EXCEPT ![k] = NoJob] /\ Keep(cached \ {k}) /\ cached \ {k} \in SUBSET cached
    BY <1>8 DEF Discard
  <2> QED BY <1>3, <2>1, KeepOK
<1> QED BY <1>1, <1>2, <1>5, <1>6, <1>7, <1>8 DEF JobNext, JobStep

(* Every step keeps the cache within its bound and its keys in order. *)
LEMMA CacheStep ==
    ASSUME TaskInv, CacheInv, [CacheNext]_cacheVars
    PROVE  CacheInv'
<1>1. CASE CacheTick
  <2>1. UNCHANGED <<cached, before>> /\ job' = [j \in Key |-> Sooner(job[j])]
    BY <1>1 DEF CacheTick
  <2>2. \A j \in Key : Sooner(job[j]).at = job[j].at
    BY DEF TaskInv, Sooner
  <2> QED BY <2>1, <2>2, CacheSame
<1>2. CASE UNCHANGED cacheVars
  <2>1. UNCHANGED <<cached, before, job>>
    BY <1>2 DEF cacheVars
  <2> QED BY <2>1, CacheSame
<1> QED BY <1>1, <1>2, CacheCallStep, CacheJobStep DEF CacheNext

(* The cache holds at most max_entries cameras, in order of use: also while *)
(* a refresh is out, and after it wrote back without evicting              *)
(* (snapshot.py 154-166, 179-186).                                         *)
THEOREM PrimerCacheBounded == Spec => []CacheInv
<1>1. Init => CacheInv
  <2> SUFFICES ASSUME Init PROVE CacheInv
    OBVIOUS
  <2>1. OrderInv
    BY DEF Init, CacheInit, OrderInv
  <2>2. cached = {} /\ \A k \in Key : job[k].at # "capture"
    BY DEF Init, CacheInit, NoJob
  <2> QED BY <2>1, <2>2, FS_EmptySet, LimitsOK DEF CacheInv, SizeInv
<1>2. LockInv /\ CacheInv /\ [Next]_vars => CacheInv'
  BY StepOfCache, CacheStep DEF LockInv
<1> QED BY <1>1, <1>2, PrimerLockInvariant, PTL DEF Spec
-----------------------------------------------------------------------------
(* The tasks that wait for the lock, in the queue and by their own state. *)
Queued(s) == {s[n] : n \in 1 .. Len(s)}
Once(s) == \A m, n \in 1 .. Len(s) : s[m] = s[n] => m = n

CallsWaiting == {c \in Caller : call[c].at = "wait"}
JobsWaiting == {k \in Key : job[k].at \in {"wait", "relock"}}
Waiting == CallsWaiting \cup JobsWaiting

(* Who waits is queued, once, and nobody else is; who holds the lock
   captures. *)
QueueInv ==
    /\ queue \in Seq(Task) /\ Once(queue) /\ Queued(queue) = Waiting
    /\ lock \in Task \cup {Nobody}
    /\ lock \in Caller => call[lock].at = "capture"
    /\ lock \in Key => job[lock].at = "capture"

(* A task queues up behind the others. *)
LEMMA AppendOK ==
    ASSUME NEW s \in Seq(Task), Once(s), NEW t \in Task, t \notin Queued(s)
    PROVE  /\ Append(s, t) \in Seq(Task) /\ Once(Append(s, t))
           /\ Queued(Append(s, t)) = Queued(s) \cup {t}
<1> DEFINE q == Append(s, t)
<1>1. /\ q \in Seq(Task) /\ Len(q) = Len(s) + 1 /\ Len(s) \in Nat
      /\ \A i \in 1 .. Len(s) : q[i] = s[i]
      /\ q[Len(s) + 1] = t
  BY AppendProperties
<1> HIDE DEF q
<1>2. \A i \in 1 .. Len(q) : i \in 1 .. Len(s) \/ i = Len(s) + 1
  BY <1>1
<1>3. Once(q)
  BY <1>1, <1>2 DEF Once, Queued
<1>4. Queued(q) = Queued(s) \cup {t}
  <2>1. \A i \in 1 .. Len(q) : q[i] \in Queued(s) \cup {t}
    BY <1>1, <1>2 DEF Queued
  <2>2. \A i \in 1 .. Len(s) : i \in 1 .. Len(q)
    BY <1>1
  <2>3. Len(s) + 1 \in 1 .. Len(q)
    BY <1>1
  <2> QED BY <1>1, <2>1, <2>2, <2>3 DEF Queued
<1> QED BY <1>1, <1>3, <1>4 DEF q

(* One element of a sequence is left out. *)
LEMMA LeaveOut ==
    ASSUME NEW s \in Seq(Task), Once(s), NEW m \in 1 .. Len(s), NEW q \in Seq(Task),
           Len(q) = Len(s) - 1,
           \A i \in 1 .. Len(q) : q[i] = IF i < m THEN s[i] ELSE s[i + 1]
    PROVE  Once(q) /\ Queued(q) = Queued(s) \ {s[m]}
<1>0. Len(s) \in Nat
  OBVIOUS
<1> DEFINE at(i) == IF i < m THEN i ELSE i + 1
<1>1. \A i \in 1 .. Len(q) : at(i) \in 1 .. Len(s) /\ at(i) # m /\ q[i] = s[at(i)]
  BY <1>0
<1>2. \A i, j \in 1 .. Len(q) : at(i) = at(j) => i = j
  BY <1>0
<1>3. \A n \in 1 .. Len(s) : n # m => \E i \in 1 .. Len(q) : at(i) = n
  <2> TAKE n \in 1 .. Len(s)
  <2>1. CASE n < m
    <3>1. n \in 1 .. Len(q) /\ at(n) = n
      BY <1>0, <2>1
    <3> QED BY <3>1
  <2>2. CASE n > m
    <3>1. n - 1 \in 1 .. Len(q) /\ at(n - 1) = n
      BY <1>0, <2>2
    <3> QED BY <3>1
  <2> QED BY <2>1, <2>2
<1> HIDE DEF at
<1>4. Once(q)
  BY <1>1, <1>2 DEF Once
<1>5. Queued(q) \subseteq Queued(s) \ {s[m]}
  BY <1>1 DEF Once, Queued
<1>6. Queued(s) \ {s[m]} \subseteq Queued(q)
  <2> SUFFICES ASSUME NEW n \in 1 .. Len(s), n # m PROVE s[n] \in Queued(q)
    BY DEF Queued
  <2>1. PICK i \in 1 .. Len(q) : at(i) = n
    BY <1>3
  <2> QED BY <1>1, <2>1 DEF Queued
<1> QED BY <1>4, <1>5, <1>6

(* The first of the queue takes the lock. *)
LEMMA TailOK ==
    ASSUME NEW s \in Seq(Task), Once(s), s # <<>>
    PROVE  /\ Tail(s) \in Seq(Task) /\ Once(Tail(s)) /\ Head(s) \in Queued(s)
           /\ Queued(Tail(s)) = Queued(s) \ {Head(s)}
<1>1. /\ Tail(s) \in Seq(Task) /\ Len(Tail(s)) = Len(s) - 1
      /\ \A i \in 1 .. Len(Tail(s)) : Tail(s)[i] = s[i + 1]
  BY HeadTailProperties
<1>2. Len(s) \in Nat /\ Len(s) > 0 /\ Head(s) = s[1]
  OBVIOUS
<1>3. 1 \in 1 .. Len(s)
  BY <1>2
<1>4. \A i \in 1 .. Len(Tail(s)) : Tail(s)[i] = IF i < 1 THEN s[i] ELSE s[i + 1]
  BY <1>1
<1>5. Once(Tail(s)) /\ Queued(Tail(s)) = Queued(s) \ {s[1]}
  BY <1>1, <1>3, <1>4, LeaveOut
<1> QED BY <1>1, <1>2, <1>3, <1>5 DEF Queued

(* A task that is cancelled or runs out of time leaves its place. *)
LEMMA WithoutOK ==
    ASSUME NEW s \in Seq(Task), Once(s), NEW t
    PROVE  /\ Without(s, t) \in Seq(Task) /\ Once(Without(s, t))
           /\ Queued(Without(s, t)) = Queued(s) \ {t}
<1>0. Len(s) \in Nat /\ DOMAIN s = 1 .. Len(s)
  OBVIOUS
<1>1. CASE \E n \in DOMAIN s : s[n] = t
  <2> DEFINE m == CHOOSE n \in DOMAIN s : s[n] = t
             a == SubSeq(s, 1, m - 1)
             b == SubSeq(s, m + 1, Len(s))
  <2>1. m \in 1 .. Len(s) /\ s[m] = t
    BY <1>0, <1>1
  <2>2. Without(s, t) = a \o b
    BY <1>1 DEF Without
  <2> HIDE DEF m
  <2>3. \A i \in 1 .. m - 1 : s[i] \in Task
    BY <2>1
  <2>4. \A i \in m + 1 .. Len(s) : s[i] \in Task
    BY <2>1
  <2>5. /\ m \in Int /\ m - 1 \in Int /\ m + 1 \in Int /\ Len(s) \in Int
        /\ 1 <= m /\ m <= Len(s)
    BY <1>0, <2>1
  <2>6. /\ a \in Seq(Task) /\ Len(a) = m - 1
        /\ \A i \in 1 .. m - 1 : a[i] = s[i]
    <3>1. /\ a \in Seq(Task) /\ Len(a) = IF 1 <= m - 1 THEN (m - 1) - 1 + 1 ELSE 0
          /\ \A i \in 1 .. (m - 1) - 1 + 1 : a[i] = s[1 + i - 1]
      BY <2>3, <2>5, SubSeqProperties
    <3> QED BY <2>1, <3>1
  <2>7. /\ b \in Seq(Task) /\ Len(b) = Len(s) - m
        /\ \A i \in 1 .. Len(s) - m : b[i] = s[m + i]
    <3>1. /\ b \in Seq(Task) /\ Len(b) = IF m + 1 <= Len(s) THEN Len(s) - (m + 1) + 1 ELSE 0
          /\ \A i \in 1 .. Len(s) - (m + 1) + 1 : b[i] = s[(m + 1) + i - 1]
      BY <2>4, <2>5, SubSeqProperties
    <3> HIDE DEF b
    <3>2. Len(s) - (m + 1) + 1 = Len(s) - m
      BY <2>5
    <3>3. Len(b) = Len(s) - m
      <4> DEFINE l == Len(b)
      <4>1. l = IF m + 1 <= Len(s) THEN Len(s) - (m + 1) + 1 ELSE 0
        BY <3>1
      <4> HIDE DEF l
      <4>2. l = Len(s) - m
        BY <2>5, <4>1
      <4> QED BY <4>2 DEF l
    <3>4. ASSUME NEW i \in 1 .. Len(s) - m PROVE b[i] = s[m + i]
      <4>1. (m + 1) + i - 1 = m + i
        BY <2>5
      <4> QED BY <3>1, <3>2, <4>1
    <3> QED BY <3>1, <3>3, <3>4
  <2> HIDE DEF a, b
  <2> DEFINE q == a \o b
  <2>8. /\ q \in Seq(Task) /\ Len(q) = Len(a) + Len(b)
        /\ \A i \in 1 .. Len(a) + Len(b) : q[i] = IF i <= Len(a) THEN a[i] ELSE b[i - Len(a)]
    BY <2>6, <2>7, ConcatProperties
  <2> HIDE DEF q
  <2>9. Len(q) = Len(s) - 1
    BY <1>0, <2>1, <2>6, <2>7, <2>8
  <2>10. \A i \in 1 .. Len(q) : q[i] = IF i < m THEN s[i] ELSE s[i + 1]
    <3> TAKE i \in 1 .. Len(q)
    <3>1. CASE i < m
      BY <1>0, <2>1, <2>6, <2>7, <2>8, <3>1
    <3>2. CASE ~(i < m)
      <4>1. q[i] = b[i - (m - 1)] /\ i - (m - 1) \in 1 .. Len(s) - m
        BY <1>0, <2>1, <2>6, <2>7, <2>8, <3>2
      <4>2. m + (i - (m - 1)) = i + 1
        BY <2>5
      <4> QED BY <2>7, <3>2, <4>1, <4>2
    <3> QED BY <3>1, <3>2
  <2>11. Once(q) /\ Queued(q) = Queued(s) \ {s[m]}
    BY <2>1, <2>8, <2>9, <2>10, LeaveOut
  <2> QED BY <2>1, <2>2, <2>8, <2>11 DEF q
<1>2. CASE ~\E n \in DOMAIN s : s[n] = t
  <2>1. Without(s, t) = s
    BY <1>2 DEF Without
  <2>2. t \notin Queued(s)
    BY <1>0, <1>2 DEF Queued
  <2>3. Queued(s) \ {t} = Queued(s)
    BY <2>2
  <2> QED BY <2>1, <2>3
<1> QED BY <1>1, <1>2

(* Where callers and refreshes are when they do nothing. *)
LEMMA AtRest == Idle.at = "idle" /\ NoJob.at = "none"
BY DEF Idle, NoJob

(* One task changes what it does. *)
LEMMA CallSet ==
    ASSUME TaskInv, NEW c \in Caller, NEW v, call' = [call EXCEPT ![c] = v]
    PROVE  /\ call'[c] = v /\ \A d \in Caller \ {c} : call'[d] = call[d]
           /\ v.at = "wait" => CallsWaiting' = CallsWaiting \cup {c}
           /\ v.at # "wait" => CallsWaiting' = CallsWaiting \ {c}
<1>1. call'[c] = v /\ \A d \in Caller \ {c} : call'[d] = call[d]
  BY DEF TaskInv
<1> QED BY <1>1 DEF CallsWaiting

(* The same for the refreshes. *)
LEMMA JobSet ==
    ASSUME TaskInv, NEW k \in Key, NEW v, job' = [job EXCEPT ![k] = v]
    PROVE  /\ job'[k] = v /\ \A j \in Key \ {k} : job'[j] = job[j]
           /\ v.at \in {"wait", "relock"} => JobsWaiting' = JobsWaiting \cup {k}
           /\ v.at \notin {"wait", "relock"} => JobsWaiting' = JobsWaiting \ {k}
<1>1. job'[k] = v /\ \A j \in Key \ {k} : job'[j] = job[j]
  BY DEF TaskInv
<1> QED BY <1>1 DEF JobsWaiting

(* A refresh is started, or one is there already. *)
LEMMA RefreshQueues ==
    ASSUME TaskInv, NEW q \in Seq(Task), Once(q), NEW k \in Key, Refresh(k, q),
           job[k].at = "none" => k \notin Queued(q)
    PROVE  /\ queue' \in Seq(Task) /\ Once(queue')
           /\ \E new \in SUBSET {k} : /\ Queued(queue') = Queued(q) \cup new
                                      /\ JobsWaiting' = JobsWaiting \cup new
           /\ \A j \in Key : job[j].at = "capture" => job'[j].at = "capture"
<1>1. CASE job[k].at = "none"
  <2>1. /\ job' = [job EXCEPT ![k] = [at |-> "wait", left |-> Timeout]]
        /\ queue' = Append(q, k) /\ k \in Task
    BY <1>1 DEF Refresh, Task
  <2>2. /\ queue' \in Seq(Task) /\ Once(queue')
        /\ Queued(queue') = Queued(q) \cup {k}
    BY <1>1, <2>1, AppendOK
  <2>3. JobsWaiting' = JobsWaiting \cup {k} /\ \A j \in Key \ {k} : job'[j] = job[j]
    BY <2>1, JobSet
  <2> QED BY <1>1, <2>2, <2>3
<1>2. CASE job[k].at # "none"
  <2>1. queue' = q /\ job' = job
    BY <1>2 DEF Refresh
  <2>2. JobsWaiting' = JobsWaiting \cup {} /\ Queued(queue') = Queued(q) \cup {}
    BY <2>1 DEF JobsWaiting
  <2> QED BY <2>1, <2>2
<1> QED BY <1>1, <1>2

(* Callers. *)
LEMMA QueueCallStep ==
    ASSUME TaskInv, QueueInv, NEW c \in Caller, CallNext(c)
    PROVE  QueueInv'
<1> USE LimitsOK
<1>0. c \in Task /\ c \notin Key /\ Key \subseteq Task /\ c # Nobody /\ c \notin JobsWaiting
  BY DEF Task, JobsWaiting
<1>1. ASSUME NEW k \in Key, AskHit(c, k) PROVE QueueInv'
  <2>1. UNCHANGED <<call, lock>> /\ CallsWaiting' = CallsWaiting
    BY <1>1 DEF AskHit, CallsWaiting
  <2>2. Refresh(k, queue) \/ UNCHANGED <<job, queue>>
    BY <1>1 DEF AskHit
  <2>3. CASE UNCHANGED <<job, queue>>
    BY <2>1, <2>3 DEF QueueInv, Waiting, JobsWaiting
  <2>4. CASE Refresh(k, queue)
    <3>1. job[k].at = "none" => k \notin Queued(queue)
      BY DEF QueueInv, Waiting, CallsWaiting, JobsWaiting
    <3>2. /\ queue' \in Seq(Task) /\ Once(queue')
          /\ \E new \in SUBSET {k} : /\ Queued(queue') = Queued(queue) \cup new
                                     /\ JobsWaiting' = JobsWaiting \cup new
          /\ \A j \in Key : job[j].at = "capture" => job'[j].at = "capture"
      BY <2>4, <3>1, RefreshQueues DEF QueueInv
    <3> QED BY <2>1, <3>2 DEF QueueInv, Waiting
  <2> QED BY <2>2, <2>3, <2>4
<1>2. ASSUME NEW k \in Key, AskMiss(c, k) PROVE QueueInv'
  <2>1. /\ call' = [call EXCEPT ![c] = [at |-> "wait", key |-> k, left |-> Timeout]]
        /\ queue' = Append(queue, c) /\ UNCHANGED <<job, lock>> /\ call[c].at = "idle"
    BY <1>2 DEF AskMiss
  <2>2. c \notin Queued(queue)
    BY <1>0, <2>1 DEF QueueInv, Waiting, CallsWaiting
  <2>3. queue' \in Seq(Task) /\ Once(queue') /\ Queued(queue') = Queued(queue) \cup {c}
    BY <1>0, <2>1, <2>2, AppendOK DEF QueueInv
  <2>4. CallsWaiting' = CallsWaiting \cup {c} /\ \A d \in Caller \ {c} : call'[d] = call[d]
    BY <2>1, CallSet
  <2>5. JobsWaiting' = JobsWaiting
    BY <2>1 DEF JobsWaiting
  <2> QED BY <2>1, <2>3, <2>4, <2>5 DEF QueueInv, Waiting
<1>3. CASE LockHit(c) \/ LockMiss(c)
  <2> DEFINE q == Tail(queue)
  <2>1. lock = Nobody /\ queue # <<>> /\ Head(queue) = c /\ call[c].at = "wait"
    BY <1>3 DEF LockHit, LockMiss, First
  <2>2. q \in Seq(Task) /\ Once(q) /\ Queued(q) = Queued(queue) \ {c}
    BY <2>1, TailOK DEF QueueInv
  <2> HIDE DEF q
  <2>3. Queued(q) = (CallsWaiting \ {c}) \cup JobsWaiting
    BY <1>0, <2>2 DEF QueueInv, Waiting
  <2>4. CASE LockHit(c)
    <3> DEFINE k == call[c].key
    <3>1. k \in Key
      BY <2>1 DEF TaskInv
    <3>2. /\ call' = [call EXCEPT ![c] = Idle] /\ UNCHANGED lock
          /\ Refresh(k, q) \/ (queue' = q /\ UNCHANGED job)
      BY <2>4 DEF LockHit, q
    <3> HIDE DEF k
    <3>3. CallsWaiting' = CallsWaiting \ {c}
      BY <3>2, AtRest, CallSet
    <3>4. CASE Refresh(k, q)
      <4>1. job[k].at = "none" => k \notin Queued(q)
        BY <2>3, <3>1 DEF CallsWaiting, JobsWaiting
      <4>2. /\ queue' \in Seq(Task) /\ Once(queue')
            /\ \E new \in SUBSET {k} : /\ Queued(queue') = Queued(q) \cup new
                                       /\ JobsWaiting' = JobsWaiting \cup new
            /\ \A j \in Key : job[j].at = "capture" => job'[j].at = "capture"
        BY <2>2, <3>1, <3>4, <4>1, RefreshQueues
      <4> QED BY <2>1, <2>3, <3>2, <3>3, <4>2 DEF QueueInv, Waiting
    <3>5. CASE queue' = q /\ UNCHANGED job
      <4>1. JobsWaiting' = JobsWaiting
        BY <3>5 DEF JobsWaiting
      <4> QED BY <2>1, <2>2, <2>3, <3>2, <3>3, <3>5, <4>1 DEF QueueInv, Waiting
    <3> QED BY <3>2, <3>4, <3>5
  <2>5. CASE LockMiss(c)
    <3> DEFINE v == [call[c] EXCEPT !.at = "capture"]
    <3>1. /\ call' = [call EXCEPT ![c] = v] /\ lock' = c /\ queue' = q /\ UNCHANGED job
      BY <2>5 DEF LockMiss, q
    <3>2. v.at = "capture"
      BY DEF TaskInv
    <3> HIDE DEF v
    <3>3. CallsWaiting' = CallsWaiting \ {c} /\ call'[c].at = "capture"
      BY <3>1, <3>2, CallSet
    <3>4. JobsWaiting' = JobsWaiting
      BY <3>1 DEF JobsWaiting
    <3> QED BY <1>0, <2>2, <2>3, <3>1, <3>3, <3>4 DEF QueueInv, Waiting
  <2> QED BY <1>3, <2>4, <2>5
<1>4. CASE CallEnds(c) \/ \E image \in BOOLEAN : Captured(c, image)
  <2>1. /\ call' = [call EXCEPT ![c] = Idle] /\ UNCHANGED job
        /\ queue' = Without(queue, c) /\ lock' = IF lock = c THEN Nobody ELSE lock
    BY <1>4 DEF CallEnds, Captured, Leave
  <2>2. queue' \in Seq(Task) /\ Once(queue') /\ Queued(queue') = Queued(queue) \ {c}
    BY <2>1, WithoutOK DEF QueueInv
  <2>3. CallsWaiting' = CallsWaiting \ {c} /\ \A d \in Caller \ {c} : call'[d] = call[d]
    BY <2>1, AtRest, CallSet
  <2>4. JobsWaiting' = JobsWaiting
    BY <2>1 DEF JobsWaiting
  <2> QED BY <1>0, <2>1, <2>2, <2>3, <2>4 DEF QueueInv, Waiting
<1> QED BY <1>1, <1>2, <1>3, <1>4 DEF CallNext

(* Refreshes. *)
LEMMA QueueJobStep ==
    ASSUME TaskInv, QueueInv, NEW k \in Key, JobNext(k) \/ Discard(k)
    PROVE  QueueInv'
<1> USE LimitsOK
<1>0. k \in Task /\ k \notin Caller /\ k # Nobody /\ k \notin CallsWaiting
  BY DEF Task, CallsWaiting
<1>1. UNCHANGED call /\ CallsWaiting' = CallsWaiting
  BY DEF JobNext, JobStep, JobLocks, JobTimesOut, JobRelocks, JobCaptured, JobFails, Discard,
         CallsWaiting
<1>2. CASE JobLocks(k) \/ JobRelocks(k)
  <2>1. lock = Nobody /\ queue # <<>> /\ Head(queue) = k /\ queue' = Tail(queue)
    BY <1>2 DEF JobLocks, JobRelocks, First
  <2>2. queue' \in Seq(Task) /\ Once(queue') /\ Queued(queue') = Queued(queue) \ {k}
    BY <2>1, TailOK DEF QueueInv
  <2> DEFINE v == [job[k] EXCEPT !.at = "capture"]
  <2>3. v.at = "capture"
    BY DEF TaskInv
  <2>4. \/ job' = [job EXCEPT ![k] = v] /\ lock' = k
        \/ job' = [job EXCEPT ![k] = NoJob] /\ lock' = Nobody
    BY <1>2, <2>1 DEF JobLocks, JobRelocks
  <2> HIDE DEF v
  <2>5. CASE job' = [job EXCEPT ![k] = v] /\ lock' = k
    <3>1. JobsWaiting' = JobsWaiting \ {k} /\ job'[k].at = "capture"
      BY <2>3, <2>5, JobSet
    <3> QED BY <1>0, <1>1, <2>2, <2>5, <3>1 DEF QueueInv, Waiting
  <2>6. CASE job' = [job EXCEPT ![k] = NoJob] /\ lock' = Nobody
    <3>1. JobsWaiting' = JobsWaiting \ {k}
      BY <2>6, AtRest, JobSet
    <3> QED BY <1>0, <1>1, <2>2, <2>6, <3>1 DEF QueueInv, Waiting
  <2> QED BY <2>4, <2>5, <2>6
<1>3. CASE JobCaptured(k) \/ JobFails(k) \/ Discard(k)
  <2>1. /\ job' = [job EXCEPT ![k] = NoJob] /\ queue' = Without(queue, k)
        /\ lock' = IF lock = k THEN Nobody ELSE lock
    BY <1>3 DEF JobCaptured, JobFails, Discard, Leave
  <2>2. queue' \in Seq(Task) /\ Once(queue') /\ Queued(queue') = Queued(queue) \ {k}
    BY <2>1, WithoutOK DEF QueueInv
  <2>3. JobsWaiting' = JobsWaiting \ {k} /\ \A j \in Key \ {k} : job'[j] = job[j]
    BY <2>1, AtRest, JobSet
  <2> QED BY <1>0, <1>1, <2>1, <2>2, <2>3 DEF QueueInv, Waiting
<1>4. CASE JobTimesOut(k)
  <2> DEFINE q == Without(queue, k)
  <2>1. /\ job' = [job EXCEPT ![k] = [at |-> "relock", left |-> 0]]
        /\ queue' = Append(q, k) /\ lock' = IF lock = k THEN Nobody ELSE lock
    BY <1>4 DEF JobTimesOut
  <2>2. q \in Seq(Task) /\ Once(q) /\ Queued(q) = Queued(queue) \ {k}
    BY WithoutOK DEF QueueInv
  <2> HIDE DEF q
  <2>3. queue' \in Seq(Task) /\ Once(queue') /\ Queued(queue') = Queued(q) \cup {k}
    BY <1>0, <2>1, <2>2, AppendOK
  <2>4. JobsWaiting' = JobsWaiting \cup {k} /\ \A j \in Key \ {k} : job'[j] = job[j]
    BY <2>1, JobSet
  <2> QED BY <1>0, <1>1, <2>1, <2>2, <2>3, <2>4 DEF QueueInv, Waiting
<1> QED BY <1>2, <1>3, <1>4 DEF JobNext, JobStep

(* No step loses a waiting task or leaves the lock to nobody. *)
LEMMA QueueStep ==
    ASSUME TaskInv, QueueInv, [CacheNext]_cacheVars
    PROVE  QueueInv'
<1>1. CASE CacheTick
  <2>1. /\ UNCHANGED <<queue, lock>>
        /\ call' = [c \in Caller |-> Sooner(call[c])] /\ job' = [j \in Key |-> Sooner(job[j])]
    BY <1>1 DEF CacheTick
  <2>2. /\ \A c \in Caller : Sooner(call[c]).at = call[c].at
        /\ \A j \in Key : Sooner(job[j]).at = job[j].at
    BY DEF TaskInv, Sooner
  <2>3. /\ \A c \in Caller : call'[c].at = call[c].at
        /\ \A j \in Key : job'[j].at = job[j].at
    BY <2>1, <2>2
  <2>4. CallsWaiting' = CallsWaiting /\ JobsWaiting' = JobsWaiting
    BY <2>3 DEF CallsWaiting, JobsWaiting
  <2> QED BY <2>1, <2>3, <2>4 DEF QueueInv, Waiting
<1>2. CASE UNCHANGED cacheVars
  BY <1>2 DEF cacheVars, QueueInv, Waiting, CallsWaiting, JobsWaiting
<1> QED BY <1>1, <1>2, QueueCallStep, QueueJobStep DEF CacheNext

(* No task is lost and none is left over: whatever times out, is cancelled *)
(* or is discarded, who waits is in the queue and who holds the lock       *)
(* captures, so that the lock cannot stay taken by nobody's work           *)
(* (snapshot.py 73-74, 124-125, 144-177).                                  *)
THEOREM PrimerNoLostTask == Spec => []QueueInv
<1>1. Init => QueueInv
  <2> SUFFICES ASSUME Init PROVE QueueInv
    OBVIOUS
  <2>1. /\ queue = <<>> /\ lock = Nobody
        /\ \A c \in Caller : call[c].at # "wait"
        /\ \A k \in Key : job[k].at \notin {"wait", "relock"}
    BY DEF Init, CacheInit, Idle, NoJob
  <2>2. Waiting = {}
    BY <2>1 DEF Waiting, CallsWaiting, JobsWaiting
  <2>3. queue \in Seq(Task) /\ Once(queue) /\ Queued(queue) = {}
    BY <2>1 DEF Once, Queued
  <2> QED BY <2>1, <2>2, <2>3, LimitsOK DEF QueueInv
<1>2. LockInv /\ QueueInv /\ [Next]_vars => QueueInv'
  BY StepOfCache, QueueStep DEF LockInv
<1> QED BY <1>1, <1>2, PrimerLockInvariant, PTL DEF Spec

(* The types of everything: the lock, age, cache and queue invariants      *)
(* together.                                                               *)
THEOREM PrimerTypeCorrect == Spec => []PrimerTypeOK
<1> DEFINE Setup == setup \in BOOLEAN
<1>1. Init => Setup
  BY DEF Init
<1>2. Setup /\ [Next]_vars => Setup'
  BY Zenon DEF Next, Urgent, PrimeNext, PrimeCall, PrimeCaptured, Answered, SetupTimesOut,
     Dashboard, DashboardCall, DashboardEnds, Update, BeginCycle, EndCycle, Wake,
     DiscardFrame, primerVars, vars
<1>3. LockInv /\ AgeInv /\ CacheInv /\ QueueInv /\ Setup => PrimerTypeOK
  BY DEF LockInv, TaskInv, DomainInv, AgeInv, CacheInv, OrderInv, SizeInv, QueueInv,
     PrimerTypeOK, TypeOK
<1> QED
  BY <1>1, <1>2, <1>3, PrimerLockInvariant, PrimerAgeInvariant, PrimerCacheBounded,
     PrimerNoLostTask, PTL DEF Spec
-----------------------------------------------------------------------------
(* A camera's image is there, and not expired. *)
Held(k) == Cached(k) /\ entry[k].image /\ entry[k].stale > 0

(* The step evicts k: the cache was full. *)
PushedOut(k) == k \notin cached' /\ \E j \in Key : Cardinality(cached \cup {j}) > MaxEntries

(* A caller captures only what is not held. *)
CaptureInv == \A c \in Caller : call[c].at = "capture" => ~Held(call[c].key)

(* _find returns an image exactly for the keys that hold one. *)
LEMMA HeldIsFound ==
    ASSUME AgeInv, NEW k \in Key
    PROVE  Held(k) <=> ~Misses(k) /\ entry[k].image
<1>1. entry[k].fresh \in Nat
  BY LimitsOK DEF AgeInv
<1> QED BY <1>1 DEF Held, Misses, IsFresh, IsStale

(* A lookup drops what has expired, and nothing else. *)
LEMMA LookupHolds ==
    ASSUME AgeInv, entry' = Purged, NEW k \in Key,
           Keep(Unexpired) \/ \E j \in Key : ~Misses(j) /\ Use(Unexpired, j)
    PROVE  Held(k)' <=> Held(k)
<1>1. \A j \in Key : ~Misses(j) => j \in Unexpired
  BY DEF Misses, IsFresh, IsStale, Cached, Unexpired
<1>2. cached' = Unexpired
  BY <1>1 DEF Keep, Use
<1>3. entry'[k] = IF entry[k].stale > 0 \/ lock = k THEN entry[k] ELSE Empty
  BY DEF Purged
<1>4. Empty.image = FALSE
  BY RememberedOK
<1> QED BY <1>2, <1>3, <1>4 DEF Held, Cached, Unexpired

(* A result that is stored is held if it is an image, and costs another    *)
(* camera its image only in a full cache.                                  *)
LEMMA RememberHolds ==
    ASSUME AgeInv, NEW j \in Key, NEW image \in BOOLEAN, Remember(j, image), NEW k \in Key
    PROVE  /\ image => Held(j)'
           /\ k # j => age'[k] = age[k]
           /\ ~image => age'[k] = age[k]
           /\ k # j /\ Held(k) => Held(k)' \/ PushedOut(k)
<1>1. entry' = [i \in Key |-> IF i = j THEN Remembered(image)
                              ELSE IF i \in Evicted(j) THEN Empty ELSE entry[i]]
  BY DEF Remember, Remembered
<1>2. cached' = (cached \ Evicted(j)) \cup {j}
  BY DEF Remember, Use
<1>3. image => Held(j)'
  <2>1. entry'[j] = Remembered(image) /\ j \in cached'
    BY <1>1, <1>2
  <2> QED BY <2>1, RememberedOK DEF Held, Cached
<1>4. /\ k # j => age'[k] = age[k]
      /\ ~image => age'[k] = age[k]
  BY DEF Remember, AgeInv
<1>5. ASSUME k # j, Held(k) PROVE Held(k)' \/ PushedOut(k)
  <2>1. CASE k \in Evicted(j)
    BY <1>2, <1>5, <2>1 DEF PushedOut, Evicted
  <2>2. CASE k \notin Evicted(j)
    BY <1>1, <1>2, <1>5, <2>2 DEF Held, Cached
  <2> QED BY <2>1, <2>2
<1> QED BY <1>3, <1>4, <1>5

(* A cooldown takes no image away ... *)
LEMMA CooldownHolds ==
    ASSUME AgeInv, NEW j \in Key, NEW passed \in Nat, Cooldown(j, passed), NEW k \in Key
    PROVE  UNCHANGED age /\ (Held(k) => Held(k)')
<1>1. UNCHANGED age /\ entry'[k].stale = entry[k].stale /\ entry'[k].image = entry[k].image
  BY CooledOK
<1>2. cached' = cached \cup {j}
  BY DEF Cooldown, Use
<1> QED BY <1>1, <1>2 DEF Held, Cached

(* What callers do to an image. *)
LEMMA CallHolds ==
    ASSUME TaskInv, AgeInv, CaptureInv, NEW c \in Caller, CallNext(c), NEW k \in Key
    PROVE  /\ Held(k) => Held(k)' \/ PushedOut(k)
           /\ age'[k] = age[k] \/ Held(k)'
<1>1. CASE \E j \in Key : AskHit(c, j) \/ AskMiss(c, j)
  BY <1>1, LookupHolds DEF AskHit, AskMiss
<1>2. CASE LockHit(c) \/ LockMiss(c)
  <2>1. call[c].key \in Key
    BY <1>2 DEF TaskInv, LockHit, LockMiss
  <2> QED BY <1>2, <2>1, LookupHolds DEF LockHit, LockMiss
<1>3. CASE CallEnds(c)
  BY <1>3 DEF CallEnds, Held, Cached
<1>4. ASSUME NEW image \in BOOLEAN, Captured(c, image)
      PROVE  (Held(k) => Held(k)' \/ PushedOut(k)) /\ (age'[k] = age[k] \/ Held(k)')
  <2> DEFINE j == call[c].key
  <2>1. j \in Key /\ ~Held(j) /\ Remember(j, image)
    BY <1>4 DEF Captured, TaskInv, CaptureInv
  <2> HIDE DEF j
  <2> QED BY <2>1, RememberHolds
<1> QED BY <1>1, <1>2, <1>3, <1>4 DEF CallNext

(* What refreshes do to it. *)
LEMMA JobHolds ==
    ASSUME TaskInv, AgeInv, NEW j \in Key, JobNext(j), NEW k \in Key
    PROVE  /\ Held(k) => Held(k)' \/ PushedOut(k)
           /\ age'[k] = age[k] \/ Held(k)'
<1>0. 0 \in Nat /\ since \in Nat
  BY LimitsOK DEF AgeInv
<1>1. CASE JobLocks(j) \/ JobTimesOut(j)
  BY <1>1 DEF JobLocks, JobTimesOut, Held, Cached
<1>2. CASE JobRelocks(j)
  <2>1. Cooldown(j, 0) \/ UNCHANGED <<cached, before, entry, age>>
    BY <1>2 DEF JobRelocks
  <2>2. CASE Cooldown(j, 0)
    BY <1>0, <2>2, CooldownHolds
  <2>3. CASE UNCHANGED <<cached, before, entry, age>>
    BY <2>3 DEF Held, Cached
  <2> QED BY <2>1, <2>2, <2>3
<1>3. CASE JobCaptured(j)
  <2>1. Remember(j, TRUE)
    BY <1>3 DEF JobCaptured
  <2> QED BY <2>1, RememberHolds
<1>4. CASE JobFails(j)
  <2>1. Cooldown(j, since)
    BY <1>4 DEF JobFails
  <2> QED BY <1>0, <2>1, CooldownHolds
<1> QED BY <1>1, <1>2, <1>3, <1>4 DEF JobNext, JobStep

(* Another camera's removal, and time. *)
LEMMA DiscardHolds ==
    ASSUME AgeInv, NEW j \in Key, Discard(j), NEW k \in Key, k # j
    PROVE  age'[k] = age[k] /\ (Held(k) => Held(k)')
BY DEF Discard, Keep, Held, Cached, AgeInv

(* ... and time only one that is too old. *)
LEMMA TickHolds ==
    ASSUME AgeInv, CacheTick, NEW k \in Key
    PROVE  /\ k \in cached' <=> k \in cached
           /\ entry'[k].image = entry[k].image
           /\ Held(k) => (age'[k] < StaleTtl => Held(k)')
           /\ age'[k] < StaleTtl => age[k] < StaleTtl
<1>1. /\ entry'[k].stale = Less(entry[k].stale) /\ entry'[k].image = entry[k].image
      /\ age'[k] = IF age[k] < StaleTtl THEN age[k] + 1 ELSE StaleTtl
  BY TickOK
<1>2. UNCHANGED cached
  BY DEF CacheTick
<1>3. age[k] \in 0 .. StaleTtl /\ entry[k].stale \in 0 .. StaleTtl /\ StaleTtl \in Nat
  BY LimitsOK DEF AgeInv
<1>4. ASSUME Held(k), age'[k] < StaleTtl PROVE Held(k)'
  <2>1. age[k] + entry[k].stale = StaleTtl
    BY <1>4 DEF AgeInv, Held
  <2>2. entry[k].stale > 1
    BY <1>1, <1>3, <1>4, <2>1
  <2>3. entry'[k].stale > 0
    BY <1>1, <1>3, <2>2 DEF Less
  <2> QED BY <1>1, <1>2, <1>4, <2>3 DEF Held, Cached
<1> QED BY <1>1, <1>2, <1>3, <1>4

(* Nothing becomes held but by a capture. *)
LEMMA OnlyCaptured ==
    ASSUME TaskInv, AgeInv, NEW c \in Caller, CallNext(c),
           ~\E image \in BOOLEAN : Captured(c, image), NEW k \in Key
    PROVE  Held(k)' => Held(k)
<1>1. CASE \E j \in Key : AskHit(c, j) \/ AskMiss(c, j)
  BY <1>1, LookupHolds DEF AskHit, AskMiss
<1>2. CASE LockHit(c) \/ LockMiss(c)
  <2>1. call[c].key \in Key
    BY <1>2 DEF TaskInv, LockHit, LockMiss
  <2> QED BY <1>2, <2>1, LookupHolds DEF LockHit, LockMiss
<1>3. CASE CallEnds(c)
  BY <1>3 DEF CallEnds, Held, Cached
<1> QED BY <1>1, <1>2, <1>3 DEF CallNext

(* While a caller captures, it is the one that holds the lock: nobody else *)
(* fetches the image it is after.                                          *)
LEMMA CaptureStep ==
    ASSUME TaskInv, AgeInv, CaptureInv, [CacheNext]_cacheVars
    PROVE  CaptureInv'
<1> USE LimitsOK
<1>1. ASSUME NEW c \in Caller, CallNext(c) PROVE CaptureInv'
  <2>1. CASE \E k \in Key : AskHit(c, k) \/ AskMiss(c, k)
    <3>1. UNCHANGED call \/ \E k \in Key :
             call' = [call EXCEPT ![c] = [at |-> "wait", key |-> k, left |-> Timeout]]
      BY <2>1 DEF AskHit, AskMiss
    <3>2. \A d \in Caller : call'[d].at = "capture" => call'[d] = call[d]
      BY <3>1 DEF TaskInv
    <3>3. \A k \in Key : Held(k)' => Held(k)
      BY <2>1, LookupHolds DEF AskHit, AskMiss
    <3>4. \A d \in Caller : call[d].at = "capture" => call[d].key \in Key
      BY DEF TaskInv
    <3> QED BY <3>2, <3>3, <3>4 DEF CaptureInv
  <2>2. CASE LockHit(c) \/ LockMiss(c)
    <3>0. PICK k \in Key : k = call[c].key
      BY <2>2 DEF TaskInv, LockHit, LockMiss
    <3>1. lock = Nobody
      BY <2>2 DEF LockHit, LockMiss, First
    <3>2. \A d \in Caller : call[d].at # "capture"
      BY <3>1 DEF TaskInv
    <3>3. \/ LockHit(c) /\ call' = [call EXCEPT ![c] = Idle]
          \/ LockMiss(c) /\ call' = [call EXCEPT ![c].at = "capture"]
      BY <2>2 DEF LockHit, LockMiss
    <3>4. \A d \in Caller : call'[d].at = "capture" => LockMiss(c) /\ call'[d].key = k
      BY <3>0, <3>2, <3>3, AtRest DEF TaskInv
    <3>5. ASSUME LockMiss(c) PROVE ~Held(k)'
      <4>1. Misses(k) /\ Keep(Unexpired) /\ entry' = Purged
        BY <3>0, <3>5 DEF LockMiss
      <4> QED BY <4>1, HeldIsFound, LookupHolds
    <3> QED BY <3>4, <3>5 DEF CaptureInv
  <2>3. CASE CallEnds(c)
    <3>1. call' = [call EXCEPT ![c] = Idle] /\ UNCHANGED <<cached, entry>>
      BY <2>3 DEF CallEnds
    <3>2. \A d \in Caller : call'[d].at = "capture" => call'[d] = call[d]
      BY <3>1, AtRest DEF TaskInv
    <3> QED BY <3>1, <3>2 DEF CaptureInv, Held, Cached
  <2>4. CASE \E image \in BOOLEAN : Captured(c, image)
    <3>1. call[c].at = "capture" /\ call' = [call EXCEPT ![c] = Idle]
      BY <2>4 DEF Captured
    <3>2. \A d \in Caller : call'[d].at # "capture"
      BY <3>1, AtRest DEF TaskInv
    <3> QED BY <3>2 DEF CaptureInv
  <2> QED BY <1>1, <2>1, <2>2, <2>3, <2>4 DEF CallNext
<1>2. ASSUME NEW k \in Key, JobNext(k) \/ Discard(k) PROVE CaptureInv'
  <2>0. UNCHANGED call
    BY <1>2 DEF JobNext, JobStep, JobLocks, JobTimesOut, JobRelocks, JobCaptured, JobFails, Discard
  <2>1. CASE JobCaptured(k) \/ JobFails(k) \/ JobRelocks(k)
    <3>1. lock \notin Caller
      BY <2>1 DEF TaskInv, JobCaptured, JobFails, JobRelocks, First
    <3> QED BY <2>0, <3>1 DEF TaskInv, CaptureInv
  <2>2. CASE JobLocks(k) \/ JobTimesOut(k)
    <3>1. UNCHANGED <<cached, entry>>
      BY <2>2 DEF JobLocks, JobTimesOut
    <3> QED BY <2>0, <3>1 DEF CaptureInv, Held, Cached
  <2>3. CASE Discard(k)
    <3>1. cached' = cached \ {k} /\ entry' = [entry EXCEPT ![k] = Empty]
      BY <2>3 DEF Discard, Keep
    <3>2. \A j \in cached' : entry'[j] = entry[j]
      BY <3>1 DEF AgeInv
    <3> QED BY <2>0, <3>1, <3>2 DEF CaptureInv, Held, Cached
  <2> QED BY <1>2, <2>1, <2>2, <2>3 DEF JobNext, JobStep
<1>3. CASE CacheTick
  <2>1. call' = [d \in Caller |-> Sooner(call[d])] /\ UNCHANGED cached
    BY <1>3 DEF CacheTick
  <2>2. \A d \in Caller : call'[d].at = call[d].at /\ call'[d].key = call[d].key
    BY <2>1 DEF TaskInv, Sooner
  <2>3. \A k \in Key : Held(k)' => Held(k)
    BY <1>3, <2>1, TickOK DEF AgeInv, Held, Cached, Less
  <2>4. \A d \in Caller : call[d].at = "capture" => call[d].key \in Key
    BY DEF TaskInv
  <2> QED BY <2>2, <2>3, <2>4 DEF CaptureInv
<1>4. CASE UNCHANGED cacheVars
  BY <1>4 DEF cacheVars, CaptureInv, Held, Cached
<1> QED BY <1>1, <1>2, <1>3, <1>4 DEF CacheNext

(* Nobody captures in the foreground what is there to be served.           *)
THEOREM PrimerCapturesMissing == Spec => []CaptureInv
<1>1. Init => CaptureInv
  BY AtRest DEF Init, CacheInit, CaptureInv
<1>2. LockInv /\ AgeInv /\ CaptureInv /\ [Next]_vars => CaptureInv'
  BY StepOfCache, CaptureStep DEF LockInv
<1> QED BY <1>1, <1>2, PrimerLockInvariant, PrimerAgeInvariant, PTL DEF Spec

(* A refresh that fails, or a camera that fails, costs no camera its       *)
(* unexpired image: only discard and a full cache do (snapshot.py 66-68).  *)
THEOREM PrimerFallbackKept == Spec => FallbackKept
<1> DEFINE Kept == \A k \in Key :
              (Cached(k) /\ entry[k].image /\ entry[k].stale > 0) =>
                 IF k \in cached'
                   THEN entry'[k].image
                   ELSE Discard(k) \/ Cardinality(cached) = MaxEntries
<1>1. LockInv /\ AgeInv /\ CacheInv /\ CaptureInv /\ [Next]_vars => [Kept]_cacheVars
  <2> SUFFICES ASSUME LockInv, AgeInv, CacheInv, CaptureInv, [CacheNext]_cacheVars,
                      NEW k \in Key, Held(k), ~UNCHANGED cacheVars
               PROVE  IF k \in cached'
                        THEN entry'[k].image
                        ELSE Discard(k) \/ Cardinality(cached) = MaxEntries
    BY StepOfCache DEF Held
  <2>1. ASSUME Held(k)'
        PROVE  k \in cached' /\ entry'[k].image
    BY <2>1 DEF Held, Cached
  <2>2. ASSUME PushedOut(k)
        PROVE  k \notin cached' /\ Cardinality(cached) = MaxEntries
    <3>1. PICK j \in Key : Cardinality(cached \cup {j}) > MaxEntries
      BY <2>2 DEF PushedOut
    <3>2. /\ Cardinality(cached) \in Nat /\ MaxEntries \in Nat
          /\ Cardinality(cached) <= MaxEntries
          /\ Cardinality(cached \cup {j}) \in {Cardinality(cached), Cardinality(cached) + 1}
      BY FS_CardinalityType, FS_AddElement, LimitsOK DEF CacheInv, SizeInv
    <3> QED BY <2>2, <3>1, <3>2 DEF PushedOut
  <2>3. ASSUME NEW c \in Caller, CallNext(c) PROVE Held(k)' \/ PushedOut(k)
    BY <2>3, CallHolds DEF LockInv
  <2>4. ASSUME NEW j \in Key, JobNext(j) PROVE Held(k)' \/ PushedOut(k)
    BY <2>4, JobHolds DEF LockInv
  <2>5. ASSUME NEW j \in Key, Discard(j)
        PROVE  (Discard(k) /\ k \notin cached') \/ Held(k)'
    <3>1. CASE j = k
      BY <2>5, <3>1 DEF Discard, Keep
    <3>2. CASE j # k
      BY <2>5, <3>2, DiscardHolds
    <3> QED BY <3>1, <3>2
  <2>6. ASSUME CacheTick PROVE k \in cached' /\ entry'[k].image
    BY <2>6, TickHolds DEF Held, Cached
  <2>7. \/ Held(k)' \/ PushedOut(k) \/ (Discard(k) /\ k \notin cached')
        \/ (k \in cached' /\ entry'[k].image)
    BY <2>3, <2>4, <2>5, <2>6 DEF CacheNext
  <2> QED BY <2>1, <2>2, <2>7
<1> QED
  BY <1>1, PrimerLockInvariant, PrimerAgeInvariant, PrimerCacheBounded,
     PrimerCapturesMissing, PTL DEF Spec, FallbackKept

(* Cameras that all fit in the cache. *)
Room == IsFiniteSet(Key) /\ Cardinality(Key) <= MaxEntries

PrimedInv == \A k \in primed : age[k] < StaleTtl => Held(k)

(* No step takes the image of a camera that the primer has seeded. *)
LEMMA PrimedStep ==
    ASSUME Room, LockInv, AgeInv, CacheInv, CaptureInv, PrimedInv, [Next]_vars
    PROVE  PrimedInv'
<1> USE PrimerOK
<1>0. primed \subseteq Key /\ TaskInv
  BY DEF LockInv, DomainInv
<1>1. ASSUME NEW k \in Key, PushedOut(k) PROVE FALSE
  <2>1. PICK j \in Key : Cardinality(cached \cup {j}) > MaxEntries
    BY <1>1 DEF PushedOut
  <2>2. cached \cup {j} \in SUBSET Key
    BY DEF CacheInv, SizeInv
  <2>3. Cardinality(cached \cup {j}) <= MaxEntries
    BY <2>2, Fewer DEF Room
  <2>4. Cardinality(cached \cup {j}) \in Nat
    BY <2>2, FS_Subset, FS_CardinalityType DEF Room
  <2> QED BY <2>1, <2>3, <2>4, LimitsOK
<1>2. ASSUME (\E c \in Caller : CallNext(c)) \/ (\E j \in Key : JobNext(j)), NEW k \in Key
      PROVE  (Held(k) => Held(k)') /\ (age'[k] = age[k] \/ Held(k)')
  BY <1>0, <1>1, <1>2, CallHolds, JobHolds
<1>3. ASSUME (\E c \in Caller : CallNext(c)) \/ (\E j \in Key : JobNext(j)), primed' \subseteq primed
      PROVE  PrimedInv'
  <2>1. \A k \in Key : (Held(k) => Held(k)') /\ (age'[k] = age[k] \/ Held(k)')
    BY <1>2, <1>3
  <2> QED BY <1>0, <1>3, <2>1 DEF PrimedInv
<1>4. ASSUME CallNext(Primer), NEW k \in Key, Held(k)', primed' \subseteq primed \cup {k}
      PROVE  PrimedInv'
  <2>1. \A j \in Key : (Held(j) => Held(j)') /\ (age'[j] = age[j] \/ Held(j)')
    BY <1>2, <1>4
  <2> QED BY <1>0, <1>4, <2>1 DEF PrimedInv
<1>5. ASSUME CallNext(Primer), NEW k \in Key, ~Misses(k), Answered(k, entry[k].image)
      PROVE  PrimedInv'
  <2>1. CASE entry[k].image
    <3>1. Held(k)
      BY <1>5, <2>1, HeldIsFound
    <3>2. Held(k)'
      BY <1>2, <1>5, <3>1
    <3>3. primed' \subseteq primed \cup {k}
      BY <1>5, <2>1 DEF Answered
    <3> QED BY <1>4, <1>5, <3>2, <3>3
  <2>2. CASE ~entry[k].image
    <3>1. primed' \subseteq primed
      BY <1>5, <2>2 DEF Answered
    <3> QED BY <1>3, <1>5, <3>1
  <2> QED BY <2>1, <2>2
<1>6. CASE PrimeNext
  <2>1. PICK k \in todo : \/ AskHit(Primer, k) /\ Answered(k, entry[k].image)
                          \/ AskMiss(Primer, k) /\ UNCHANGED primerVars
    BY <1>6 DEF PrimeNext
  <2>2. k \in Key /\ CallNext(Primer)
    BY <2>1 DEF LockInv, DomainInv, CallNext
  <2>3. CASE AskHit(Primer, k) /\ Answered(k, entry[k].image)
    BY <1>5, <2>2, <2>3 DEF AskHit
  <2>4. CASE AskMiss(Primer, k) /\ UNCHANGED primerVars
    BY <1>3, <2>2, <2>4 DEF primerVars
  <2> QED BY <2>1, <2>3, <2>4
<1>7. CASE PrimeCall
  <2> DEFINE k == call[Primer].key
  <2>1. k \in Key /\ CallNext(Primer)
    BY <1>7, <1>0 DEF PrimeCall, TaskInv, CallNext, CallTimesOut
  <2>2. \/ LockHit(Primer) /\ ~Misses(k) /\ Answered(k, entry[k].image)
        \/ UNCHANGED primerVars
        \/ Answered(k, FALSE)
    BY <1>7 DEF PrimeCall, LockHit
  <2> HIDE DEF k
  <2>3. CASE UNCHANGED primerVars \/ Answered(k, FALSE)
    BY <1>3, <2>1, <2>3 DEF primerVars, Answered
  <2> QED BY <1>5, <2>1, <2>2, <2>3
<1>8. CASE PrimeCaptured
  <2>0. PICK k \in Key : k = call[Primer].key
    BY <1>8, <1>0 DEF PrimeCaptured, Captured, TaskInv
  <2>1. PICK image \in BOOLEAN : Captured(Primer, image) /\ Answered(k, image)
    BY <1>8, <2>0 DEF PrimeCaptured
  <2>2. CallNext(Primer) /\ Remember(k, image)
    BY <2>0, <2>1 DEF Captured, CallNext
  <2>3. CASE image
    <3>1. Held(k)'
      BY <2>2, <2>3, RememberHolds
    <3>2. primed' \subseteq primed \cup {k}
      BY <2>1, <2>3 DEF Answered
    <3> QED BY <1>4, <2>2, <3>1, <3>2
  <2>4. CASE ~image
    <3>1. primed' \subseteq primed
      BY <2>1, <2>4 DEF Answered
    <3> QED BY <1>3, <2>2, <3>1
  <2> QED BY <2>3, <2>4
<1>9. CASE SetupTimesOut
  BY <1>3, <1>9 DEF SetupTimesOut, CallNext
<1>10. ASSUME NEW c \in Dashboards, Dashboard(c) \/ DashboardCall(c) \/ DashboardEnds(c)
       PROVE  PrimedInv'
  <2>1. c \in Caller /\ CallNext(c)
    BY <1>10 DEF Dashboards, Dashboard, DashboardCall, DashboardEnds, CallTimesOut, CallNext,
                 LockInv, DomainInv
  <2>2. UNCHANGED primerVars
    BY <1>10 DEF Dashboard, DashboardCall, DashboardEnds
  <2> QED BY <1>3, <2>1, <2>2 DEF primerVars
<1>11. ASSUME NEW j \in Key, JobNext(j), UNCHANGED primerVars PROVE PrimedInv'
  BY <1>3, <1>11 DEF primerVars
<1>12. ASSUME NEW j \in Key, DiscardFrame(j) PROVE PrimedInv'
  <2>1. Discard(j) /\ primed' = primed \ {j}
    BY <1>12 DEF DiscardFrame
  <2>2. \A k \in Key : k # j => age'[k] = age[k] /\ (Held(k) => Held(k)')
    BY <2>1, DiscardHolds
  <2> QED BY <1>0, <2>1, <2>2 DEF PrimedInv
<1>13. CASE CacheTick /\ UNCHANGED primerVars
  BY <1>0, <1>13, TickHolds DEF PrimedInv, primerVars
<1>14. CASE Update \/ BeginCycle \/ EndCycle \/ Wake \/ UNCHANGED vars
  <2>1. UNCHANGED cacheVars /\ primed' \subseteq primed
    BY <1>14 DEF Update, BeginCycle, EndCycle, Wake, vars, primerVars
  <2> QED BY <2>1 DEF PrimedInv, cacheVars, Held, Cached
<1>15. \/ PrimeNext \/ PrimeCall \/ PrimeCaptured \/ SetupTimesOut
       \/ \E c \in Dashboards : Dashboard(c) \/ DashboardCall(c) \/ DashboardEnds(c)
       \/ \E k \in Key : DiscardFrame(k) \/ (JobNext(k) /\ UNCHANGED primerVars)
       \/ CacheTick /\ UNCHANGED primerVars
       \/ Update \/ BeginCycle \/ EndCycle \/ Wake \/ UNCHANGED vars
  BY Zenon DEF Next, Urgent, JobNext
<1> QED
  BY <1>6, <1>7, <1>8, <1>9, <1>10, <1>11, <1>12, <1>13, <1>14, <1>15

(* A camera that counts as primed has its fallback image in the cache until*)
(* the image expires, in every NVR whose cameras all fit in the cache; a   *)
(* fifth camera does not, because max_entries stays at its default of 4    *)
(* (coordinator.py 63-67, 118-134; snapshot.py 23, 185-186).               *)
THEOREM PrimerSeedsStay == Room => (Spec => []PrimedHasFallback)
<1> SUFFICES ASSUME Room PROVE Spec => []PrimedHasFallback
  OBVIOUS
<1>1. Init => PrimedInv
  BY DEF Init, PrimedInv
<1>2. LockInv /\ AgeInv /\ CacheInv /\ CaptureInv /\ PrimedInv /\ [Next]_vars => PrimedInv'
  BY PrimedStep
<1>3. PrimedInv => PrimedHasFallback
  BY DEF PrimedInv, PrimedHasFallback, Held
<1> QED
  BY <1>1, <1>2, <1>3, PrimerLockInvariant, PrimerAgeInvariant, PrimerCacheBounded,
     PrimerCapturesMissing, PTL DEF Spec
=============================================================================
