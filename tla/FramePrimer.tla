----------------------------- MODULE FramePrimer -----------------------------
(***************************************************************************)
(* EufyNvrCoordinator of custom_components/eufy_nvr/coordinator.py, with   *)
(* its SnapshotCache, the primer task that seeds one fallback image per    *)
(* camera, the setup that runs the first cycle (__init__.py), and the      *)
(* camera entities (camera.py) whose images the dashboard asks for.        *)
(***************************************************************************)
EXTENDS SnapshotCache

CONSTANT Primer   \* the caller that is the primer; the others are dashboard requests

ASSUME PrimerOK == Primer \in Caller

VARIABLES
    data,     \* the streams of the last successful poll of go2rtc
    primed,   \* _primed_streams
    todo,     \* the streams this cycle has still to ask for
    primer,   \* "begin", "cycle", "retry" or "rest"
    setup     \* the cycle of async_setup_entry has not ended

primerVars == <<data, primed, todo, primer, setup>>
vars == <<cacheVars, primerVars>>

PrimerTypeOK ==
    /\ TypeOK
    /\ {data, primed, todo} \subseteq SUBSET Key
    /\ primer \in {"begin", "cycle", "retry", "rest"}
    /\ setup \in BOOLEAN

Init ==
    /\ CacheInit
    /\ data \in SUBSET Key /\ primed = {} /\ todo = {}
    /\ primer = "begin" /\ setup = TRUE

(* _async_update_data.  A failed poll leaves data as it was. *)
Update ==
    /\ data' \in (SUBSET Key) \ {data}
    /\ UNCHANGED <<cacheVars, primed, todo, primer, setup>>

(* async_prime_frames: the streams without a seed, one after the other. *)
BeginCycle ==
    /\ primer = "begin"
    /\ primer' = "cycle"
    /\ primed' = primed \cap data
    /\ todo' = data \ primed
    /\ UNCHANGED <<cacheVars, data, setup>>

(* The answer for k is in; nothing awaits between it and primed. *)
Answered(k, image) ==
    /\ todo' = todo \ {k}
    /\ primed' = IF image THEN primed \cup {k} ELSE primed
    /\ UNCHANGED <<data, primer, setup>>

PrimeNext ==
    /\ primer = "cycle"
    /\ \E k \in todo :
          \/ AskHit(Primer, k) /\ Answered(k, entry[k].image)
          \/ AskMiss(Primer, k) /\ UNCHANGED primerVars

PrimeCall ==
    LET k == call[Primer].key IN
    /\ call[Primer].at # "idle"
    /\ \/ LockHit(Primer) /\ Answered(k, entry[k].image)
       \/ LockMiss(Primer) /\ UNCHANGED primerVars
       \/ CallTimesOut(Primer) /\ Answered(k, FALSE)

PrimeCaptured == \E image \in BOOLEAN :
    /\ Captured(Primer, image)
    /\ Answered(call[Primer].key, image)

(* The end of a cycle: async_prime_frames_forever compares numbers. *)
EndCycle ==
    /\ primer = "cycle" /\ todo = {} /\ call[Primer].at = "idle"
    /\ primer' = IF setup THEN "begin"
                 ELSE IF Cardinality(primed) < Cardinality(data) THEN "retry" ELSE "rest"
    /\ setup' = FALSE
    /\ UNCHANGED <<cacheVars, data, primed, todo>>

(* FRAME_SETUP_PRIME_TIMEOUT: the first cycle is cancelled. *)
SetupTimesOut ==
    /\ setup /\ primer = "cycle" /\ call[Primer].at # "idle"
    /\ CallEnds(Primer)
    /\ primer' = "begin" /\ todo' = {} /\ setup' = FALSE
    /\ UNCHANGED <<data, primed>>

(* After the retry delay the missing ones, after the interval all of them. *)
Wake ==
    /\ primer \in {"retry", "rest"}
    /\ primed' = IF primer = "rest" THEN {} ELSE primed
    /\ primer' = "begin"
    /\ UNCHANGED <<cacheVars, data, todo, setup>>

(* async_camera_image of an available camera, once entities exist. *)
Dashboard(c) ==
    /\ ~setup
    /\ \E k \in data : AskHit(c, k) \/ AskMiss(c, k)
    /\ UNCHANGED primerVars

DashboardCall(c) ==
    /\ LockHit(c) \/ LockMiss(c) \/ CallTimesOut(c)
    /\ UNCHANGED primerVars

DashboardEnds(c) ==
    /\ CallEnds(c) \/ \E image \in BOOLEAN : Captured(c, image)
    /\ UNCHANGED primerVars

DiscardFrame_KeepsPrimed(k) ==  \* mutant: the primer is not told
    /\ ~setup
    /\ Discard(k)
    /\ UNCHANGED primerVars

(* async_will_remove_from_hass: discard_frame. *)
DiscardFrame(k) ==
    /\ ~setup
    /\ Discard(k)
    /\ primed' = primed \ {k}
    /\ UNCHANGED <<data, todo, primer, setup>>

Dashboards == Caller \ {Primer}

Urgent ==
    \/ PrimeNext \/ PrimeCall
    \/ \E c \in Dashboards : DashboardCall(c)
    \/ (\E k \in Key : JobStep(k)) /\ UNCHANGED primerVars

Next ==
    \/ Urgent
    \/ Update \/ BeginCycle \/ PrimeCaptured \/ EndCycle \/ SetupTimesOut \/ Wake
    \/ \E c \in Dashboards : Dashboard(c) \/ DashboardEnds(c)
    \/ \E k \in Key : DiscardFrame(k)
    \/ (\E k \in Key : JobCaptured(k) \/ JobFails(k)) /\ UNCHANGED primerVars
    \/ CacheTick /\ UNCHANGED primerVars

(* The event loop runs what is ready, and time passes.  Captures owe
   nothing: their deadlines end them. *)
Spec ==
    /\ Init /\ [][Next]_vars
    /\ WF_vars(CacheTick /\ UNCHANGED primerVars)
    /\ WF_vars(PrimeCall)
    /\ \A c \in Dashboards : WF_vars(DashboardCall(c))
    /\ \A k \in Key : WF_vars(JobStep(k) /\ UNCHANGED primerVars)
-----------------------------------------------------------------------------
(* Properties *)

(* A camera that counts as primed has its fallback image in the cache until*)
(* the image expires (coordinator.py 118-134; CHANGELOG 0.7.12, "Prime     *)
(* every camera's bounded fallback image").                                *)
PrimedHasFallback ==
    \A k \in primed : age[k] < StaleTtl => Cached(k) /\ entry[k].image
=============================================================================
