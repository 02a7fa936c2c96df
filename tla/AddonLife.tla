------------------------------ MODULE AddonLife ------------------------------
(***************************************************************************)
(* eufy_nvr/run.sh: the life of the add-on's container, over starts, stops *)
(* and crashes.  A start checks the cached login or logs in, discovers the *)
(* cameras (two supervised attempts), generates go2rtc.yaml, installs it   *)
(* in /data, and then keeps go2rtc running; a failed discovery falls back  *)
(* to what earlier starts left in /data.  A timer renews the login.        *)
(*                                                                         *)
(* Discovery is what Supervisor and EngineSession say of it: 0 only with a *)
(* new cameras.json.  The generator is StreamRegistry's, and may fail.     *)
(***************************************************************************)
EXTENDS CloudLogin

CONSTANTS
    Denied  \* accounts that share the NVR: it answers them with -104

ASSUME EnvironmentOK == Denied \subseteq Account

(* What discovery found: the cameras of an account's NVR, before or after one
   change of them. *)
List == [of : Account, rev : 1 .. 2]
Nothing == [of |-> NoAccount, rev |-> 0]
Partial == [of |-> NoAccount, rev |-> 1]  \* a file that install is writing

VARIABLES
    pc,        \* what run.sh does
    try,       \* the discovery attempt; 3 is the fallback
    acct,      \* the account of this start
    cameras,   \* /data/cameras.json
    made,      \* go2rtc.yaml of this start's generator
    config,    \* /data/go2rtc.yaml
    denied,    \* the NVR has answered -104 in this start
    nogen,     \* the generator, or install, has failed, last, in this start
    timer,     \* the login timer: "none", "sleep" or "login"
    backoff    \* seconds before go2rtc is started again

files == <<cameras, config>>
startVars == <<acct, made, denied, nogen>>
addonVars == <<loginVars, files, startVars, pc, try, timer, backoff>>

AddonTypeOK ==
    /\ LoginTypeOK
    /\ pc \in {"off", "failed", "check", "login", "discover", "generate", "install",
               "copy", "start", "serve", "backoff"}
    /\ try \in 1 .. 3
    /\ acct \in Account
    /\ {cameras, made} \subseteq List \cup {Nothing}
    /\ config \in List \cup {Nothing, Partial}
    /\ {denied, nogen} \subseteq BOOLEAN
    /\ timer \in {"none", "sleep", "login"}
    /\ backoff \in 2 .. 60

AddonInit ==
    /\ LoginInit
    /\ pc = "off" /\ try = 1
    /\ acct \in Account
    /\ cameras = Nothing /\ made = Nothing /\ config = Nothing
    /\ denied = FALSE /\ nogen = FALSE
    /\ timer = "none" /\ backoff = 2
-----------------------------------------------------------------------------
(* The container starts, with the options as they are now. *)
Boot(a) ==
    /\ pc \in {"off", "failed"}
    /\ pc' = "check" /\ try' = 1
    /\ acct' = a
    /\ made' = Nothing
    /\ denied' = FALSE /\ nogen' = FALSE
    /\ backoff' = 2 /\ sent' = 0
    /\ UNCHANGED <<auth, live, lg, code, mail, files, timer>>

(* The container ends: all processes die with it, at any point.  A signal is
   handled by term once discovery is over, which does not wait for go2rtc. *)
Down(how) ==
    /\ pc' = how
    /\ lg' = "idle" /\ timer' = "none"
    /\ UNCHANGED <<auth, live, code, mail, sent, files, startVars, try, backoff>>

Kill == pc \notin {"off", "failed"} /\ Down("off")

(* --check-cache-live at the start. *)
Check ==
    /\ pc = "check"
    /\ \/ CacheIsLive(acct) /\ pc' = "discover" /\ lg' = lg
       \/ pc' = "login" /\ lg' = "post"
    /\ UNCHANGED <<auth, live, code, mail, sent, files, startVars, try, timer, backoff>>

Given_Kept == code  \* mutant: the code is not unset after the first login

(* verification_code is exported, and unset after the first login. *)
Given == IF pc = "login" THEN code ELSE "none"

LoggingIn ==
    /\ Login(acct, Given)
    /\ UNCHANGED <<files, startVars, pc, try, timer, backoff>>

LoggedIn ==
    /\ pc = "login" /\ lg = "ok"
    /\ pc' = "discover" /\ lg' = "idle"
    /\ UNCHANGED <<auth, live, code, mail, sent, files, startVars, try, timer, backoff>>

LoginFails == pc = "login" /\ lg = "failed" /\ Down("failed")

(* The timer: the same check, and a login if it fails. *)
TimerFires ==
    /\ timer = "sleep"
    /\ timer' = "login" /\ lg' = "post"
    /\ UNCHANGED <<auth, live, code, mail, sent, files, startVars, pc, try, backoff>>

TimerRests ==
    /\ timer = "login" /\ lg \in {"ok", "failed"}
    /\ timer' = "sleep" /\ lg' = "idle"
    /\ UNCHANGED <<auth, live, code, mail, sent, files, startVars, pc, try, backoff>>
-----------------------------------------------------------------------------
(* The next attempt, or the fallback: the list of an earlier discovery. *)
Again(t) ==
    /\ try' = t + 1
    /\ pc' = (IF t = 1 THEN "discover" ELSE "generate")

(* eufy_run.py --discover: ended with 0, and cameras.json is there. *)
Discovered ==
    /\ pc = "discover" /\ acct \notin Denied /\ live
    /\ \E l \in List : l.of = acct /\ cameras' = l
    /\ pc' = "generate"
    /\ UNCHANGED <<loginVars, config, acct, made, denied, nogen, try, timer, backoff>>

(* ... failed, with or without a new cameras.json (the session may fail after
   the list was written). *)
NotDiscovered ==
    /\ pc = "discover"
    /\ \/ UNCHANGED cameras
       \/ acct \notin Denied /\ live /\ \E l \in List : l.of = acct /\ cameras' = l
    /\ Again(try)
    /\ UNCHANGED <<loginVars, config, startVars, timer, backoff>>

(* ... failed with the marker of -104 in its log: fatal.  bash does not wait
   for the tee that writes the log.  After the relayed marker the supervisor
   still holds the gate for SESSION_RELEASE_DELAY (1 s), and what it prints
   itself comes last; that the tee is no later than that is assumed here. *)
Rejected ==
    /\ pc = "discover" /\ acct \in Denied /\ live
    /\ denied' = TRUE
    /\ pc' = "failed"
    /\ UNCHANGED <<loginVars, files, acct, made, nogen, try, timer, backoff>>

Usable_FreshOnly == cameras # Nothing /\ try < 3  \* mutant: no fallback to an old list

(* [ -s cameras.json ]: a list of this or of an earlier start. *)
Usable == cameras # Nothing

(* gen_go2rtc.py.  In the fallback it needs a cameras.json; without one, or if
   it fails, a go2rtc.yaml of an earlier start is used as it is. *)
Generated ==
    /\ pc = "generate" /\ Usable
    /\ made' = cameras
    /\ nogen' = FALSE
    /\ pc' = "install"
    /\ UNCHANGED <<loginVars, files, acct, denied, try, timer, backoff>>

NotGenerated ==
    /\ pc = "generate"
    /\ IF try < 3 THEN Again(try)
       ELSE /\ pc' = (IF config # Nothing THEN "start" ELSE "failed")
            /\ try' = try
    /\ nogen' = (nogen \/ Usable)
    /\ UNCHANGED <<loginVars, files, acct, made, denied, timer, backoff>>

Install_OnlyFirst ==  \* mutant: an existing configuration is kept
    /\ pc = "install"
    /\ config' = (IF config = Nothing THEN Partial ELSE config)
    /\ pc' = (IF config = Nothing THEN "copy" ELSE "start")
    /\ UNCHANGED <<loginVars, cameras, startVars, try, timer, backoff>>

(* install(1) removes the old file, creates the new one and copies. *)
Install ==
    /\ pc = "install"
    /\ config' = Partial
    /\ pc' = "copy"
    /\ UNCHANGED <<loginVars, cameras, startVars, try, timer, backoff>>

Copied ==
    /\ pc = "copy"
    /\ config' = made
    /\ pc' = "start"
    /\ UNCHANGED <<loginVars, cameras, startVars, try, timer, backoff>>

(* It fails: errexit is off in discover_and_generate (it is the condition of
   an if), so that only the fallback's install ends the start. *)
NotCopied ==
    /\ pc = "copy"
    /\ pc' = (IF try < 3 THEN "start" ELSE "failed")
    /\ nogen' = TRUE
    /\ UNCHANGED <<loginVars, files, acct, made, denied, try, timer, backoff>>
-----------------------------------------------------------------------------
(* go2rtc is started; the first time with the background tasks. *)
Serve ==
    /\ pc = "start"
    /\ pc' = "serve"
    /\ timer' = (IF timer = "none" THEN "sleep" ELSE timer)
    /\ UNCHANGED <<loginVars, files, startVars, try, backoff>>

Doubled_NoCap(b) == 2 * b  \* mutant: no limit of 60 s

Doubled(b) == IF 2 * b > 60 THEN 60 ELSE 2 * b

(* go2rtc crashes, after less or more than 60 s; backoff is what the next
   crash will wait. *)
Crash ==
    /\ pc = "serve"
    /\ pc' = "backoff"
    /\ \E b \in {2, backoff} : backoff' = Doubled(b)
    /\ UNCHANGED <<loginVars, files, startVars, try, timer>>

BackedOff ==
    /\ pc = "backoff"
    /\ pc' = "start"
    /\ UNCHANGED <<loginVars, files, startVars, try, timer, backoff>>

(* go2rtc ends with 0 or 143: the script ends. *)
CleanExit == pc = "serve" /\ Down("off")

ServiceOrUser ==
    /\ Expire \/ EditCode
    /\ UNCHANGED <<files, startVars, pc, try, timer, backoff>>

Script ==
    \/ Check \/ (pc = "login" /\ LoggingIn) \/ LoggedIn \/ LoginFails
    \/ Discovered \/ NotDiscovered \/ Rejected \/ Generated \/ NotGenerated
    \/ Install \/ Copied \/ NotCopied \/ Serve \/ BackedOff

AddonNext ==
    \/ Script
    \/ \E a \in Account : Boot(a)
    \/ Kill \/ Crash \/ CleanExit \/ ServiceOrUser
    \/ TimerFires \/ (timer = "login" /\ LoggingIn) \/ TimerRests

AddonSpec == AddonInit /\ [][AddonNext]_addonVars /\ WF_addonVars(Script)
-----------------------------------------------------------------------------
(* Properties *)

(* go2rtc, and with it the producers, runs only with an auth.json of the   *)
(* account of this start, whatever earlier starts, under other accounts,   *)
(* left in /data, and whoever logs in next to it (run.sh 52-67, 175-192;   *)
(* auth_login.py 46-62; CHANGELOG 0.7.2, "instead of feeding a previous    *)
(* user's token to the NVR").                                              *)
ServesOwnAccount == pc = "serve" => auth = acct

(* What go2rtc serves is generated from the list in cameras.json, although *)
(* attempts may fail after they wrote the list and earlier starts may have *)
(* died in the middle of install; only when the generator or install fails,*)
(* the file in /data is taken as it is, also a partial one (run.sh 106-137).*)
ConfigFollowsDiscovery ==
    pc \in {"serve", "backoff"} => config = cameras \/ nogen

(* A verification code is sent at most once by each start: neither the     *)
(* timer nor a retry repeats it, which would lock the account (run.sh      *)
(* 68-69, auth_login.py 164).                                              *)
CodeSentOnce == sent <= 1

(* Once a list of cameras is in /data, every start ends with go2rtc        *)
(* running, however discovery fails and wherever earlier starts were       *)
(* killed, and so does every crash of go2rtc; unless it is stopped, its    *)
(* login fails, the NVR rejects the account, or the generator fails        *)
(* (run.sh 52-61, 126-149, 209-237).  So of the "transient login or        *)
(* discovery outage" of CHANGELOG 0.6.0 it is the discovery's that a start *)
(* survives; of the login's, see OutageSurvived.                           *)
ComesUp ==
    (pc \notin {"off", "failed"} /\ cameras # Nothing)
        ~> \/ pc \in {"serve", "off"} \/ denied \/ nogen
           \/ pc = "login" /\ lg = "failed"

(* Violated by the code: a start with a good token and a good configuration*)
(* in /data does not fail, unless the NVR rejects it or the generator does *)
(* (CHANGELOG 0.6.0, "A transient login or discovery outage can reuse the  *)
(* last working local configuration").  A check of the token that gets no  *)
(* answer leads to a login, and a login that fails ends the start          *)
(* (run.sh 53-61).                                                         *)
OutageSurvived ==
    (pc = "failed" /\ CacheIsLive(acct) /\ cameras # Nothing /\ config = cameras)
        => denied \/ nogen
=============================================================================
