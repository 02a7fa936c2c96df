# Eufy NVR for Home Assistant: TLA+ models and proofs

The repository streams cameras of an eufy NVR into Home Assistant. The NVR has
**one** hardware live session; almost everything that is hard in this code comes
from that: several producer processes, a warmer, a thumbnail cache and the
eufy app all want it. These modules model the parts that decide who uses it and
what happens when a process, a message or a camera is late, dead or gone.

## 1. The system

| Component | State | Operations | Talks to |
|---|---|---|---|
| Session gate (`bridge/eufy_run.py`, `SessionGate`) | ticket files, a lock file (flock), the preempt file | `acquire`, `_queue`, `release`, `request_preempt` | other producers (files), warmer (preempt file) |
| Producer supervisor (`eufy_run.py`) | `SessionState`, attempt, `stop_event` | `main`, `run_attempt`, `_terminate_tree`, `_relay_stderr` | engine (signals, log pipe), gate, go2rtc (signals, exit code) |
| Protocol engine (`eufy_stream.py`, `sctp_oracle.js`) | peer connection, data channels, started/close flags | signalling, live start, heartbeat, `close_live`, discovery | cloud, NVR, oracle and ffmpeg children |
| Generator (`gen_go2rtc.py`) | `stream_names.json`, `go2rtc.yaml` | `generate`, `assign_names`, `atomic_write` | discovery (`cameras.json`), go2rtc |
| Adaptive warmer (`eufy_warm.py`) | current stream, its connection, two clocks | `run`, `start_warmer`, `stop_warmer`, `consume_preempt_request` | go2rtc's HTTP API, preempt file |
| Add-on entry point (`run.sh`) | `/data`: cameras.json, go2rtc.yaml; backoff | start, discovery with fallbacks, restart loop, background tasks | all of the above |
| Login (`auth_login.py`, `eufy_cloud.login`) | `auth.json`, the option `verification_code` | cache check, login, verification, replacement | eufy's service, entry point |
| Snapshot cache (`custom_components/eufy_nvr/snapshot.py`) | entries, one lock, refresh tasks | `async_get`, `_async_refresh`, `discard` | go2rtc (captures) |
| Coordinator, primer, cameras (`coordinator.py`, `__init__.py`, `camera.py`) | stream list, `_primed_streams` | poll, prime cycle, thumbnail requests | Home Assistant, snapshot cache |
| Config flow (`config_flow.py`, probe of `go2rtc_api.py`) | config entries, open dialogs | user, reconfigure and reauth forms | Home Assistant, go2rtc |
| Diagnostics, constants, texts | none | reads | Home Assistant |

What is hard, and what makes each part correct (`PROJECT.json` lists every
hazard with its line):

* **Gate.** Independent processes, non-atomic steps (stamp, ticket, listing,
  probing, flock), crashes at any of them, reused pids. Correct: one holder,
  arrival order, no living waiter's ticket is lost, no dead one's blocks.
* **Supervisor.** An engine that hangs, ends or leaves children at any stage
  and a log that is read late. Correct: nothing of a session outlives the hold
  on the gate, exit codes are true, no stage hangs, a stop ends it.
* **Engine.** One event loop in which callbacks, a start sequence and watchdogs go
  on while `main` shuts down. Correct: a session is retired before its connection
  goes, an offer leads to a start, nothing keeps the process, only a manifest is a
  successful discovery.
* **Generator.** Colliding titles, cameras that come and go, crashes. Correct:
  a name belongs to one camera key, for ever.
* **Add-on start and login.** Every step may fail, the container may be killed at
  any of them, and what is left in `/data` is what the next start falls back to;
  a timer logs in next to it. Correct: never another account's token, a
  configuration that is made from the list in `/data`, a code that is used once, and
  cameras that come up although a discovery fails. A login that fails does keep
  working cameras down (section 3).
* **Config flow.** Dialogs that are validated at the same time while entries
  change under them. Correct: one entry for each bridge, with credentials that
  its host has accepted.
* **Warmer.** Decisions on a list that is older than its own state, from an API
  that may take longer than the delays it is compared with. Correct: one
  connection, a lease that ends while its connection stays up, and that follows
  the viewer.
* **Cache and primer.** Tasks of an event loop, cancellations, timeouts that
  race answers, a bound of four images. Correct: one capture at a time, no image
  served past its age, a failure costs no fallback.

## 2. The modules

```
SessionArbiter  <--implements--  SessionGate        (proofs: SessionGateProofs)
      ^
      | extends, implements
NvrSession      several producers, go2rtc, the NVR  (proofs: NvrSessionProofs)
      | implements, once for each producer
      v
ProducerLife    one producer from outside
      ^
      | implements
Supervisor      one producer in detail              (proofs: SupervisorProofs)
      | implements: its view of the engine
      v
EngineLog       the engine from outside
      ^
      | implements
EngineSession   the engine a producer starts        (proofs: EngineSessionProofs)

StreamRegistry                                      (proofs: StreamRegistryProofs)
AdaptiveWarmer                                      (proofs: AdaptiveWarmerProofs)
SnapshotCache  <--extends--  FramePrimer            (proofs: FramePrimerProofs)
CloudLogin  <--extends--  AddonLife                 (proofs: SetupProofs)
ConfigFlow                                          (proofs: SetupProofs)
```

* **SessionArbiter** is what the gate promises, without files: a client
  arrives behind everyone queued (`Arrive`), becomes visible (`Enqueue`), is
  granted the session when nobody holds it and nobody is ahead (`Grant`), and
  may leave or die anywhere (`Leave`).
* **SessionGate** has one action for each step of `acquire` that another process
  can come between: `Draw` (stamp), `Publish` (ticket written), `List` (glob),
  `Probe` (`kill(pid, 0)`, `/proc` start time, unlink of stale tickets),
  `Flock`/`FlockBusy`, `Poll` (preempt hint, wait), `Acquired` (unlink hint and
  ticket), `GiveUp`, `Release`. `Die`, `Spawn` and `Exit` are the kernel's.
  The probing of all listed tickets is one step: the tickets do not change
  owner, and a ticket whose owner dies between two probes is only removed one
  scan later. `ahead` is a history variable for arrival order.
* **Supervisor** has the phases of `main`, `run_attempt` and `_terminate_tree`
  (`phase`), the engine, its process group, and the pipe of log markers between
  them. `Poll` is one turn of the supervising loop; `Verdict` keeps the order in
  which the code tests its conditions. Clocks count polls of 0.5 s.
* **ProducerLife** is a producer as its surroundings see it: an engine that is
  started with the gate held, the stages of its teardown, and the release after
  the delay. go2rtc may kill it at any stage (`Kill`): the kernel frees its gate, and
  while its engine goes on it is `cut`. No logs, no clocks, no verdicts.
  `Supervisor` maps its `phase`, gate and engine on it, `NvrSession` each of its
  supervisors. What follows from this module and the arbiter alone
  (`PromisesSuffice`) holds of both.
* **EngineLog** is the part of the engine's log that the supervisor's limits
  depend on: the channel's line never comes before the offer's.
* **NvrSession** composes several supervisors with the arbiter, go2rtc's stop
  and kill, the NVR's session (`live`, `closing`, or a `ghost` whose peer died
  without closeLive) and the eufy app. Time is explicit: waits are counted in
  ticks and `Tick` does not pass the end of one.
* **EngineSession** is the process a supervisor starts. `main` says where
  `eufy_stream.py`'s `main` waits; each action is a stretch without an await of
  `main`, of `handle`, of a callback of aiortc or of the oracle's reader, of
  `start_sequence` or of a watchdog. Commands pass through the oracle in order
  (`cmds`) and reach the NVR only through an open channel; the NVR answers or does
  not. `Supervisor` and `NvrSession` see this process from outside, as one that
  may end at any time or never, and prints what it likes but for an order of
  lines (`CanPrint`): this module implements `EngineLog`, the channel after the
  offer, and `EngineReach` shows that frames and answers of the NVR need the
  channel. That each status of the call comes once is the service's (see Fairness).
* **StreamRegistry** has the generator's steps from reading the manifest to the
  two atomic writes, with `Abort` (an error or a crash) possible between any of
  them. Names are sequences of tokens, so that a title can equal another
  camera's suffixed name. An invalid manifest raises before anything is written:
  `Read` is not enabled for it.
* **SnapshotCache** has one action per stretch between two awaits. The lock is a
  first-come queue, as `asyncio.Lock` is; `call` and `job` are the foreground
  calls and the background refreshes; deadlines and entries count ticks. The
  `OrderedDict` is the set `cached` with the relation `before` on it, from the
  least to the most recently used: moving a key to the end and evicting the first
  one are then operations on sets that can be reasoned about for any size.
  **FramePrimer** adds the coordinator's data, the primer's cycles, setup's
  bounded first cycle, and dashboard requests.
* **AdaptiveWarmer** has one action per branch of `run`, and go2rtc's list as
  what it is for the controller: a snapshot taken before it acts (`seen`), in
  which its own connection may be missing (`listed`) or linger (`ghost`). Time is
  counted in waits of `POLL_INTERVAL`; an answer takes anything up to `FetchLimit`
  (`API_TIMEOUT`), which may be more than `RestartDelay` (`RESTART_DELAY`).
* **CloudLogin** is one run of `auth_login.py`: `lg` says where it stands, from
  the request to `/passport/login` (`Post`) over a challenge (`RequestCode`,
  `VerifyCode`; `NotSent` for a code that is not six digits, or a challenge without
  the token to answer it with) and the station (`NoStation`) to the new `auth.json`
  (`WriteAuth`). Of a token only the account it is bound to and whether the
  service still takes it are kept. **AddonLife** adds `run.sh`: `pc` is the line
  it has reached, `cameras` and `config` are the files of `/data`, and
  everything else starts anew with `Boot`. Discovery and the generator are seen
  from outside, as `EngineSession` and `StreamRegistry` show them: 0 only with a
  new list, or a failure that may come after the list was written. `Install` and
  `Copied` are apart because install(1) removes the old file before it writes the
  new one. The login timer runs next to the script.
* **ConfigFlow** has the dialogs (`flow`), which are suspended only while a probe
  is out (`cand`), and the entries they write. The code between two awaits is one
  step: the answer, the checks for duplicates and the write. A host that was typed
  (`Typed`) and its normalized form are told apart.

The `MC*` modules instantiate these for TLC. Two of them explore two modules in one
run, each by itself: `MCRegistryFlow` (`StreamRegistry` and `ConfigFlow`, which keep
names and entries apart) and `MCAddonWarmer` (`AddonLife` and `AdaptiveWarmer`, the
script and a program it starts). The two share no variable. `part` is chosen at the
start and says which of them moves; the other stays in one initial state. So every
behaviour of either module is explored, no behaviour mixes them, and each property is
checked where its module moves.

## 3. The runs

| Run | Bounds | Checks |
|---|---|---|
| `gate` | 2 pids, 3 process starts, 3 tickets (`MaxClock = 4` stamps) | `LiveTicketKept`, `ArbiterSpec` (refinement), `NoStarvation`, `HintReasserted` |
| `supervisor` | 2 attempts, limits of 2-3 polls, 2 unread log lines | `SessionInsideGate`, `SuccessIsReal`, `NoSilentHang`, `StopEnds` |
| `supervisor_denied` | the same | `DeniedNotRetried`: **violated** |
| `nvr_session` | 2 producers, waits of 1-2 ticks, killtimeout as long as the teardown | `OneEngine`, `NoNextCameraRace`, `StoppedLeaves` |
| `nvr_session_killed` | the code's waits in half seconds, `killtimeout=5` | `OneEngine`: **violated** |
| `engine` | one candidate of the NVR, live and discovery | `ManifestOrFailure`, `SettledRetired`, `OfferStarts`, `SessionEnds` |
| `engine_ghost` | the same | `LiveRetired`: **violated** |
| `frame_primer` | 2 cameras, primer and one dashboard, ttl 1, stale 3, room for both | `OneCapture`, `AgeBounded`, `PrimedHasFallback`, `FallbackKept`, `RefreshEnds` |
| `registry_flow`, registry | 2 channels, 2 serials or none, 3 titles, all manifests of 1-2 cameras | `NamesUnique`, `ConfigBacked`, `NamesStable` |
| `registry_flow`, flow | 2 dialogs, 2 entries, 2 hosts of which one is the fallback, 2 credentials | `EndpointsUnique`, `ProbedTogether` |
| `addon_warmer`, addon | an account that owns the NVR and one that shares it, any number of starts | `ServesOwnAccount`, `ConfigFollowsDiscovery`, `CodeSentOnce`, `ComesUp` |
| `addon_warmer`, warmer | 2 streams; poll 0.2 s, restart delay 0.8 s, answers of 0-2 s, lease 1 s | `OneConnection`, `LeaseEnds`, `FollowsViewer` |
| `addon_outage` | as `addon_warmer` | `OutageSurvived`: **violated** |
| `warmer_lease` | as `addon_warmer` | `LeaseIsShort`: **violated** |

Each passing run also checks a type invariant: for each module it explores, but for
`ConfigFlow`, where it is proved.

Why the bounds are enough. *Gate:* two pids and three starts give a holder, a
waiter and one that overtakes, a pid that is reused by a producer and by a
foreign process, of the same user or another, while its old ticket is still there;
the proofs hold for any number. *Supervisor:* the second attempt is both a retry and the last one; the
pipe holds two lines so that markers are read late and out of step with the
engine's death; limits differ so that clocks are told apart. *NvrSession:* a
next-camera race takes two. *Engine:* one
candidate may come before or after the offer, and it is all that is needed to
connect; a session has three commands at most. *Registry:* one title is what a collision makes of
another, so three-way collisions happen over several generations with two
cameras each; `MaxSuffix = 4` leaves a free suffix in every generation of two
cameras. *FramePrimer:* two cameras compete for one lock. *Add-on:* starts are
not counted, so what is left in `/data` is what any number of them, killed
anywhere, may leave; a list of cameras has two revisions, so that an old and a
new one are told apart. *ConfigFlow:* a race for a bridge takes two dialogs, and
entries that were there before are of any early version. *Warmer:* the time limits
are the code's in units of 0.2 s (0.75 s is rounded up); the lease of 1 s is run out
by one slow answer or by several quick polls. Every clock stops at the largest value
it is compared with.

### What the violated runs show

1. **A permission failure is retried** (`supervisor_denied`). The oracle prints
   its marker and terminates the engine 10 ms later; `run_attempt` sees the exit
   first and returns `exit`, and `main` does not look at
   `authorization_rejection`. CHANGELOG 0.7.1 says it is not retried.
2. **go2rtc kills a supervisor in its teardown** (`nvr_session_killed`).
   `killtimeout=5` is shorter than the 0.5 + 3 + 5 + 2 s the teardown may take;
   the gate falls with the supervisor, the engine does not. DOCS.md says that
   the gate prevents two sessions. With a `killtimeout` that covers the teardown
   (`nvr_session`) it does.
3. **A session can start while it is being shut down** (`engine_ghost`).
   `close_live` runs once, when the loop ends; `maybe_start` does not look at
   `shutting_down`, the start sequence is not cancelled, and a late status 0 of
   `startStream` counts as the answer to `closeLive`. README.md 252-254 says that
   ghost sessions are prevented. `SettledRetired`, which is proved, says when they
   are: when the start was over and answered as the shutdown began.

4. **A lease need not end** (`warmer_lease`). Without a viewer, a decision that finds
   its connection failed and `RESTART_DELAY` over reopens it, and does not look at
   the lease. With answers slower than 0.55 s (`API_TIMEOUT` is 2 s) and a
   connection that fails each time, that is every decision. `eufy_warm.py` 9-10 and
   DOCS.md 39 promise a short lease. `LeaseEnds` says when it ends, and
   `WarmerLease` bounds it for quick answers.
5. **A login outage ends a start** (`addon_outage`). The check of a token fails also
   when it gets no answer; the login that follows fails as well, and `run.sh` 55-61
   ends, with a live token and a working configuration in `/data`. CHANGELOG 0.6.0
   says that "a transient login or discovery outage can reuse the last working local
   configuration", DOCS.md 101 that a login comes "only after the cached token is
   rejected". `ComesUp` is what holds: the discovery's outage is survived.

A sixth one is an exception in a property that passes. DOCS.md 105 says that
generated state is "written atomically", but `run.sh` copies `go2rtc.yaml` to `/data`
with install(1), in place. `ConfigFollowsDiscovery` shows that this is repaired by the
next generation, and excepts the start in which the generator or install fails
(`nogen`): that one may serve a partial file.

Three smaller things were met while modelling; the modules allow them, and the
properties say what holds in spite of them. With more cameras than the cache has
entries (`max_entries` stays at 4) a newly primed camera evicts the fallback of
another one: the run of `PrimedHasFallback` has room for all. A slow failed
refresh leaves no cooldown, since the clock is read before the capture is awaited.
A reauthentication may store credentials that another host has accepted, when
the fallback answered or the entry moved during the probe: `mixed` in
`ProbedTogether`.

### Fairness

* Gate: every producer that can step does (`WF` of `Step(p)`: asyncio wakes it
  at the latest after `SESSION_LOCK_POLL`). A session may last for ever:
  `NoStarvation` states its premise, that sessions end, itself (the supervisor's
  `NoSilentHang` and `StopEnds` support it), and `HintReasserted` is about the
  sessions that do not. Arrivals, signals, deaths and the warmer owe nothing.
* Supervisor: its event loop runs and its relay reads. The engine owes nothing, but
  the service is taken to send each status of a call once, before or after the
  offer: one that repeated a status for ever would keep `last_progress` young, and
  no limit would end the attempt.
* EngineSession: the event loop runs what is ready, `main` goes on where its
  awaits have a limit, and a peer connection whose two sides know a candidate
  comes up; if it does not, it is `lost`, which `OfferStarts` allows. Messages of
  the service, the NVR, the oracle and ffmpeg owe nothing.
* NvrSession: time passes, supervisors act when due, the NVR retires a session
  that was *closed*. Ghosts, engines, go2rtc and the app owe nothing.
* Cache and primer: the event loop runs what is ready and time passes. A capture
  owes nothing; its deadline ends it.
* AddonLife: the script goes on by itself (`WF(Script)`): each of its commands has
  a limit of time, and it waits for nobody. The timer, the service, the user and
  the Supervisor of Home Assistant owe nothing.
* ConfigFlow states no liveness: a dialog waits for a user.
* Warmer: its loop runs, since every await in it has a limit, and go2rtc at last
  forgets a closed connection. The premises of its two properties are part of them:
  `FollowsViewer` assumes that go2rtc goes on answering, and with a right list again
  and again; `LeaseEnds` that its list is right at last, and that, if decisions go on
  for ever, not all from some time on find a failed connection they may reopen. The
  shipped time limits do not give the latter: see `warmer_lease`.

Next to this, the gate's `NoStarvation` assumes that no process of another user, which
the probe may not signal, keeps a dead waiter's pid for ever (`AliensEnd`); the
add-on's image has one user.

`CHECK_DEADLOCK FALSE` is used where the system really stops: producers exit
(`gate`, whose bound on starts then leaves nothing to do, `supervisor` and
`engine`).

## 4. The proofs

Checked by TLAPS for every value of the constants, under each module's named
assumptions on its constants:

* **SessionGateProofs.** `GateTypeOK`; `GateInvariant`; from them
  `GateLiveTicketKept` and `GateRefinesArbiter` (the gate implements the arbiter:
  initial states, and each step is a step of the arbiter or a stutter). The
  refinement is not inductive alone: that a process at the head of *its listing*
  may pass nobody needs `GateInv`. Whoever is `ahead` of `p` has an older stamp
  and still waits, its ticket exists as long as it waits, and when `p` has listed
  the directory, that ticket is in the listing. So `AtHead(p)` implies that nobody
  is ahead, and `Flock` is a `Grant`. Tickets of living waiters survive every
  `Probe` because the start time on a ticket is its owner's own.
* **StreamRegistryProofs.** `RegistryTypeOK`; `RegistryInvariant` (`GenInv`: while
  a generation is under way the names in memory extend the registry, injectively,
  streams carry the name of their key, and the cameras left have other keys);
  from it `RegistryNamesUnique`, `RegistryConfigBacked`, and `RegistryNamesStable`
  as an action property.

* **SupervisorProofs.** `SupervisorInsideGate` from `TeardownInv`: from `Start` to
  the end of the release delay the gate is held, and outside `run`, `int`, `term`
  and `group` no engine and no child is left. `SupervisorSuccess` from `VerdictInv`:
  an attempt whose reason is `exit` has signalled nobody, since every verdict
  changes the reason before the first signal (`VerdictMeans`). `SupervisorTypeOK`
  from a part for the flags, one for the pipe and one for the rest.
  `SupervisorLife` and `SupervisorLog` are the refinements of `ProducerLife` and
  `EngineLog`: both steps need `TeardownInv`, for an engine may only begin where
  the last one is gone. `SupervisorStages`: no two of the four limits can
  apply in one poll (`LimitsApart`), so the order in which `run_attempt` tests them
  does not matter. That needs `OrderInv` on the unread pipe: the offer's line
  is never left behind by the channel's, nor that by the first frame's.
  `SupervisorSilence` (`SilenceBounded`): while the attempt is supervised, none of
  the four limits has been reached when a poll is over. It is the bounded, safety
  form of `NoSilentHang`.
* **EngineSessionProofs.** `EngineTypeOK`, which needs to count candidates and
  commands; `EngineManifest`; and `EngineSettledRetired` from `RetireInv`. That
  the NVR is not live at the end is not inductive: it needs that before the
  shutdown no closeLive is out and none is answered (`OpenInv`), so that once the
  session is settled closeLive is the only command left, and the status 0 that
  ends the wait is its answer. `EngineReach` (`ReachInv`): no callback comes before
  what it is about; answers of the NVR need a channel, and an answer, a connection
  or a channel needs an offer. From it `EngineLogged`, the refinement of `EngineLog`.
* **NvrSessionProofs.** Nothing here assumes that go2rtc is patient: all theorems
  but `SessionSigtermFirst` hold for every `KillTimeout`. `SessionGateInv` is the
  invariant the others rest on: one holder, and an engine that has a supervisor is
  inside the gate. `SessionOneEngine`: two engines that both have a supervisor
  (`OneSupervised`) never run at once, so there is `OneEngine` whenever go2rtc has cut
  none off from its supervisor. `SessionRetires`, an action property: a supervisor
  gives the gate up only when its session has been retired or is a ghost; `RetireInv`
  keeps a closed session's remaining time below the release delay of its owner.
  `SessionNoRace` is `NoNextCameraRace` in the behaviours without a `CutShort`, a kill
  that hits a running engine or a session that is being closed.

  When kills come is a theorem of its own. `ScheduleInv` keeps, for each stopped
  supervisor, the time that has passed with the time it may still need (`Rest`) within
  `StopTime`: two polls, the three stages of the teardown and the release delay. From
  it `SessionStopBounded`, the bounded form of `StoppedLeaves`; `SessionTiming`
  (`KillsLate`): what a kill cuts off is at most what `KillTimeout` is shorter than
  `StopTime`; and `SessionSigtermFirst`: with `KillTimeout` above two polls and the
  wait after SIGINT, which the shipped 5 s are, no engine is left behind that has not
  been sent SIGTERM. The run `nvr_session` has a `KillTimeout` as long as `StopTime`,
  and there `OneEngine` and `NoNextCameraRace` are checked without a premise;
  `nvr_session_killed` has the configured one.

  `SessionTypes`; `SessionUsesArbiter`: the producers with all their clocks only make
  steps of `SessionArbiter`, so what is proved of the gate applies to them;
  `SessionProducers`: each of them is a `ProducerLife`, kills included.
  `ArbiterOneHolder` is the arbiter's own promise, and `PromisesSuffice` puts the two
  abstract modules together without looking into either implementation: given the
  arbiter's promise and that a producer keeps to `ProducerLife`, whenever its engine
  or a child of it runs, it is the only holder of the session, or has been killed
  over it.
* **FramePrimerProofs.** For any cameras, callers, deadlines and cache size.
  `PrimerOneCapture` from `LockInv` (`PrimerLockInvariant`): the lock's holder is the
  one call or job that is between acquire and release, through every timeout,
  cancellation and removal. `PrimerNoLostTask` (`QueueInv`): who waits is in the
  lock's queue, once, nobody else is, and a holder captures: the lock is never taken
  by a task that has gone. `PrimerAgeBounded` from `AgeInv`: the age of an image
  and the time it may still be served are `StaleTtl` together; a tick takes from one
  what it adds to the other, and only a capture, which sets the age to 0, renews the
  other. `PrimerCacheBounded` (`CacheInv`): `before` is a strict order of the
  `cached` keys, so there is one least used key to evict, one eviction makes room
  for one result, and a failed refresh that writes its entry back evicts nothing.
  `PrimerTypeCorrect` from these four. `PrimerCapturesMissing` (`CaptureInv`): who
  captures in the foreground does so for a camera without an image to serve; from it
  `PrimerFallbackKept`, as an action property: a failure drops no image that may
  still be served, only a removal or a full cache does. `PrimerSeedsStay` is
  `PrimedHasFallback` under `Room`, that all cameras fit in the cache. With the
  code's `max_entries` that is four cameras; with five it is false (section 3).
* **AdaptiveWarmerProofs.** `WarmerTypeOK` and `WarmerOneConnection` from `WarmInv`,
  for any time limits. `WarmerLease` is the bounded form of the lease, for the
  behaviours in which every answer comes within `RESTART_DELAY` less a poll
  (`QuickFetch`, which the code's `API_TIMEOUT` does not enforce): nobody has been
  unwatched for more than the lease and two restart delays, however often the
  connection fails. A decision that reopens it skips the expiry, and only because the
  next one comes before `RESTART_DELAY` is over does that one not do so again
  (`LeaseInv`). `Horizon` may be any number, so that it does not cut this bound off.

* **SetupProofs**, add-on. `AddonTypeCorrect`, `OwnAccount`, `ServedListIsDiscovered`
  and `OneCode` from `AddonInv` (`AddonInvHolds`), over every number of starts and
  crashes. `TokenInv`: from the discovery on, `auth.json` belongs to the account of
  this start. `ListInv`: what is installed was made
  from the list in `/data`. `CodeInv`: nothing has been sent while the one login
  that may send a code has not. All need `StageInv`: the login timer runs only once
  go2rtc has been started, when the script's own login is over, so the two
  never log in at once.
* **SetupProofs**, config flow. `UniqueEndpoints` and `ProbedPairs` from `Inv`. Both
  need `DialogOK`: a dialog whose probe is out holds credentials, and only a
  reconfiguration, whose entry it is, leaves an entry out of the search for
  duplicates. `TypeCorrect` is the type invariant.

Only model-checked: liveness under fairness, which is outside this prover's reach
(`NoStarvation`, `HintReasserted`, `NoSilentHang`, `StopEnds`, `StoppedLeaves`,
`RefreshEnds`, `LeaseEnds`, `FollowsViewer`, `OfferStarts`, `SessionEnds`,
`ComesUp`). For three of them a bound that no step exceeds is proved instead:
`SilenceBounded`, `StopBounded`, and, for quick answers, `LeaseBounded`. Every
invariant and every action property of the passing runs is the statement of a
theorem; `OneEngine` and `NoNextCameraRace` with the premises given above.

Stated by theorems only: the refinements of `ProducerLife` and `EngineLog`,
`SessionUsesArbiter`, `PromisesSuffice`, `OneSupervised`, `Retires`, `KillsLate`,
`LimitsApart`, `SilenceBounded`, `StopBounded`, `LeaseBounded` and the invariants `CacheInv`, `QueueInv` and `CaptureInv`. The run
`frame_primer` has room for both its cameras and evicts nothing; evictions are covered
by the proofs, for every `MaxEntries`.

## 5. What is not modelled

* In `run.sh`: the check of the options and the exit codes; in the
  login: how a captcha is fetched and shown, the key exchange and its signatures;
  in the config flow: error texts and the form's schema.
* In the engine: heartbeats, statistics, debug files, and the frame limit of a run
  without `--rtsp`, which go2rtc never makes.
* Cryptography, encodings, REST parsing, ffmpeg arguments, the oracle's framing:
  data without control state that a property here tells apart.
* Windows branches (no flock there), image build, CI, translations.
* The text of `go2rtc.yaml` and of log messages, except the markers the
  supervisor looks for.

## 6. Plan

Order by how much of the system's correctness rests on it:

1. done: arbiter, gate, supervisor, several sessions, engine, registry, warmer,
   cache and primer, each with proofs.
2. done: `CloudLogin` and `AddonLife` (the start, the fallbacks, the login next to
   running producers), `ConfigFlow`, both with proofs.
3. done: what one module assumes of another as a module of its own that the other
   implements: `ProducerLife` and `EngineLog`.
4. Bounded safety forms of more of the liveness properties, as `SilenceBounded` and
   `StopBounded` are (the lease of the warmer has one, `LeaseBounded`): the deadline
   of a refresh, the time a waiter spends behind a session that ends.
5. What the registry and the add-on owe each other: a discovery that fails after it
   wrote its list, seen from both sides.
