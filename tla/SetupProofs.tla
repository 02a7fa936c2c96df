---------------------------- MODULE SetupProofs ----------------------------
(***************************************************************************)
(* The two places where what a user has entered becomes what is run: the   *)
(* add-on's start, over its stops, crashes and failures, for any accounts; *)
(* and the dialogs of the integration, for any number of them.             *)
(***************************************************************************)
EXTENDS AddonLife, ConfigFlow, TLAPS

(* The type invariant, in two parts. *)
Flags == {live, mail, denied, nogen} \subseteq BOOLEAN

Ranges ==
    /\ auth \in Account \cup {NoAccount}
    /\ lg \in {"idle", "post", "challenge", "token", "ok", "failed"}
    /\ code \in {"none", "fresh", "old"}
    /\ sent \in Nat
    /\ pc \in {"off", "failed", "check", "login", "discover", "generate", "install",
               "copy", "start", "serve", "backoff"}
    /\ try \in 1 .. 3
    /\ acct \in Account
    /\ {cameras, made} \subseteq List \cup {Nothing}
    /\ config \in List \cup {Nothing, Partial}
    /\ timer \in {"none", "sleep", "login"}
    /\ backoff \in 2 .. 60

(* The third attempt does not discover.  The login timer is started with
   go2rtc; run.sh's own login is over by then, and nobody else logs in. *)
StageInv ==
    /\ pc \in {"check", "login", "discover"} => try < 3
    /\ pc \notin {"start", "serve", "backoff"} => timer = "none"
    /\ pc = "login" \/ timer = "login" \/ lg = "idle"

(* From the login on, auth.json belongs to the account of this start. *)
TokenInv ==
    /\ pc \in {"discover", "generate", "install", "copy", "start", "serve", "backoff"}
       => auth = acct
    /\ pc = "login" /\ lg = "ok" => auth = acct

(* No code has been sent when the one that can be sent is still to be sent. *)
CodeInv ==
    /\ sent <= 1
    /\ pc = "check" => sent = 0
    /\ pc = "login" /\ lg \in {"post", "challenge"} => sent = 0

(* What is made in this start is made from the list in /data, and that list
   outlives every configuration. *)
ListInv ==
    /\ config # Nothing => cameras # Nothing
    /\ pc \in {"install", "copy"} => made = cameras /\ cameras # Nothing
    /\ pc \in {"start", "serve", "backoff"} => config = cameras \/ nogen

AddonInv == Flags /\ Ranges /\ StageInv /\ TokenInv /\ CodeInv /\ ListInv

(* A step of a login, in whichever of the two places. *)
LEMMA LoginStep ==
    ASSUME AddonInv, LoggingIn
    PROVE  /\ Flags' /\ Ranges'
           /\ lg # "idle"
           /\ auth' = auth \/ auth' = acct
           /\ lg' = "ok" => auth' = acct
           /\ sent' = sent \/ (lg = "challenge" /\ pc = "login" /\ sent' = sent + 1)
           /\ lg' \in {"post", "challenge"} => lg = "post" /\ sent' = sent
<1>1. /\ UNCHANGED <<cameras, config, acct, made, denied, nogen>>
      /\ UNCHANGED <<pc, try, timer, backoff>>
  BY DEF LoggingIn, files, startVars
<1>2. Flags'
  BY <1>1, Zenon DEF AddonInv, Flags, LoggingIn, Login, Post, NotSent, RequestCode, VerifyCode, NoStation,
                     WriteAuth
<1>3. Ranges'
  BY <1>1 DEF AddonInv, Ranges, LoggingIn, Login, Post, NotSent, RequestCode, VerifyCode, NoStation,
              WriteAuth
<1>4. /\ lg # "idle"
      /\ auth' = auth \/ auth' = acct
      /\ lg' = "ok" => auth' = acct
      /\ sent' = sent \/ (lg = "challenge" /\ pc = "login" /\ sent' = sent + 1)
      /\ lg' \in {"post", "challenge"} => lg = "post" /\ sent' = sent
  BY DEF LoggingIn, Login, Post, NotSent, RequestCode, VerifyCode, Given, NoStation, WriteAuth
<1> QED BY <1>2, <1>3, <1>4

(* Every step of a login, of the start or of the timer. *)
LEMMA LoginKeeps ==
    ASSUME AddonInv, pc = "login" \/ timer = "login", LoggingIn
    PROVE  AddonInv'
<1>1. /\ UNCHANGED <<cameras, config, acct, made, denied, nogen>>
      /\ UNCHANGED <<pc, try, timer, backoff>>
  BY DEF LoggingIn, files, startVars
<1>2. StageInv' /\ TokenInv'
  BY <1>1, LoginStep DEF AddonInv, StageInv, TokenInv
<1>3. CodeInv'
  BY <1>1, LoginStep DEF AddonInv, CodeInv, Ranges
<1>4. ListInv'
  BY <1>1 DEF AddonInv, ListInv
<1> QED BY <1>2, <1>3, <1>4, LoginStep DEF AddonInv

(* A start, and the end of one at any point. *)
LEMMA BootKeeps ==
    ASSUME AddonInv, NEW a \in Account, Boot(a)
    PROVE  AddonInv'
<1> USE DEF Boot, files
<1>1. Flags'
  BY Zenon DEF AddonInv, Flags, loginVars
<1>2. Ranges'
  BY DEF AddonInv, Ranges, StageInv, loginVars
<1>3. StageInv' /\ TokenInv'
  BY DEF AddonInv, StageInv, TokenInv, loginVars
<1>4. CodeInv'
  BY DEF AddonInv, CodeInv, StageInv, loginVars
<1>5. ListInv'
  BY DEF AddonInv, ListInv, loginVars
<1> QED BY <1>1, <1>2, <1>3, <1>4, <1>5 DEF AddonInv

(* The container goes down: the files of /data stay. *)
LEMMA DownKeeps ==
    ASSUME AddonInv, NEW how \in {"off", "failed"}, Down(how)
    PROVE  AddonInv'
<1> USE DEF Down, files, startVars
<1>1. Flags'
  BY Zenon DEF AddonInv, Flags, loginVars
<1>2. Ranges'
  BY DEF AddonInv, Ranges, StageInv, loginVars
<1>3. StageInv' /\ TokenInv'
  BY DEF AddonInv, StageInv, TokenInv, loginVars
<1>4. CodeInv'
  BY DEF AddonInv, CodeInv, StageInv, loginVars
<1>5. ListInv'
  BY DEF AddonInv, ListInv, loginVars
<1> QED BY <1>1, <1>2, <1>3, <1>4, <1>5 DEF AddonInv

(* Authentication, and the timer's. *)
LEMMA CheckKeeps ==
    ASSUME AddonInv, Check \/ LoggedIn \/ TimerFires \/ TimerRests
    PROVE  AddonInv'
<1> USE DEF Check, CacheIsLive, CacheMatches, LoggedIn, TimerFires, TimerRests, files, startVars
<1>1. Flags'
  BY Zenon DEF AddonInv, Flags, loginVars
<1>2. Ranges'
  BY DEF AddonInv, Ranges, StageInv, loginVars
<1>3. StageInv' /\ TokenInv'
  BY DEF AddonInv, StageInv, TokenInv, loginVars
<1>4. CodeInv'
  BY DEF AddonInv, CodeInv, StageInv, loginVars
<1>5. ListInv'
  BY DEF AddonInv, ListInv, loginVars
<1> QED BY <1>1, <1>2, <1>3, <1>4, <1>5 DEF AddonInv

(* A list is written only by a discovery, and it is this account's. *)
LEMMA DiscoveryKeeps ==
    ASSUME AddonInv, Discovered \/ NotDiscovered \/ Rejected
    PROVE  AddonInv'
<1>1. /\ pc = "discover"
      /\ UNCHANGED <<loginVars, config, acct, made, nogen, timer, backoff>>
  BY DEF Discovered, NotDiscovered, Rejected, startVars, files
<1>2. cameras' = cameras \/ (cameras' \in List /\ cameras'.of = acct)
  BY Zenon DEF Discovered, NotDiscovered, Rejected, files
<1>3. denied' = denied \/ (denied' = TRUE /\ pc' = "failed")
  BY Zenon DEF Discovered, NotDiscovered, Rejected, startVars
<1>4. /\ pc' \in {"discover", "generate", "failed"}
      /\ try' \in 1 .. 3
      /\ pc' = "discover" => try' < 3
  BY DEF Discovered, NotDiscovered, Rejected, Again, AddonInv, StageInv, Ranges
<1>5. Flags'
  BY <1>1, <1>3, Zenon DEF AddonInv, Flags, loginVars
<1>6. Ranges'
  BY <1>1, <1>2, <1>4 DEF AddonInv, Ranges, loginVars
<1>7. cameras # Nothing => cameras' # Nothing
  BY <1>2, AccountOK DEF List, Nothing
<1>8. StageInv' /\ TokenInv'
  BY <1>1, <1>3, <1>4 DEF AddonInv, StageInv, TokenInv, loginVars
<1>9. CodeInv'
  BY <1>1, <1>4 DEF AddonInv, CodeInv, loginVars
<1>10. ListInv'
  BY <1>1, <1>4, <1>7 DEF AddonInv, ListInv
<1> QED BY <1>5, <1>6, <1>8, <1>9, <1>10 DEF AddonInv

(* What is installed is made from the list, or the failure is noted. *)
LEMMA ConfigKeeps ==
    ASSUME AddonInv, Generated \/ NotGenerated \/ Install \/ Copied \/ NotCopied
    PROVE  AddonInv'
<1> USE DEF Generated, NotGenerated, Usable, Again, Install, Copied, NotCopied, files, startVars
<1>1. Flags'
  BY Zenon DEF AddonInv, Flags, loginVars
<1>2. Ranges'
  BY DEF AddonInv, Ranges, StageInv, loginVars
<1>3. StageInv' /\ TokenInv'
  BY DEF AddonInv, StageInv, TokenInv, loginVars
<1>4. CodeInv'
  BY DEF AddonInv, CodeInv, StageInv, loginVars
<1>5. ListInv'
  <2>1. CASE NotGenerated
    <3>1. /\ UNCHANGED <<cameras, config, acct>>
          /\ pc' \in {"discover", "generate", "start", "failed"}
          /\ pc' = "start" => config # Nothing
      BY <2>1
    <3>2. nogen' \/ cameras = Nothing
      BY <2>1, Zenon
    <3>3. pc' = "start" => nogen'
      BY <3>1, <3>2 DEF AddonInv, ListInv
    <3> QED BY <3>1, <3>3 DEF AddonInv, ListInv
  <2>2. CASE Generated \/ Install \/ Copied \/ NotCopied
    BY <2>2 DEF AddonInv, ListInv, loginVars
  <2> QED BY <2>1, <2>2
<1> QED BY <1>1, <1>2, <1>3, <1>4, <1>5 DEF AddonInv

(* go2rtc, the service and the user. *)
LEMMA ServeKeeps ==
    ASSUME AddonInv, Serve \/ Crash \/ BackedOff \/ ServiceOrUser
    PROVE  AddonInv'
<1> USE DEF Serve, Crash, Doubled, BackedOff, ServiceOrUser, Expire, EditCode, files, startVars
<1>1. Flags'
  BY Zenon DEF AddonInv, Flags, loginVars
<1>2. Ranges'
  BY DEF AddonInv, Ranges, StageInv, loginVars
<1>3. StageInv' /\ TokenInv'
  BY DEF AddonInv, StageInv, TokenInv, loginVars
<1>4. CodeInv'
  BY DEF AddonInv, CodeInv, StageInv, loginVars
<1>5. ListInv'
  BY DEF AddonInv, ListInv, loginVars
<1> QED BY <1>1, <1>2, <1>3, <1>4, <1>5 DEF AddonInv

(* Every step of the script, the timer, the user and the service. *)
LEMMA AddonNextInv == AddonInv /\ [AddonNext]_addonVars => AddonInv'
<1> SUFFICES ASSUME AddonInv, [AddonNext]_addonVars PROVE AddonInv'
  OBVIOUS
<1>1. CASE UNCHANGED addonVars
  BY <1>1 DEF addonVars, loginVars, files, startVars, AddonInv, Flags, Ranges,
              StageInv, TokenInv, CodeInv, ListInv
<1>2. CASE Kill \/ LoginFails \/ CleanExit
  BY <1>2, DownKeeps DEF Kill, LoginFails, CleanExit
<1>3. CASE (pc = "login" /\ LoggingIn) \/ (timer = "login" /\ LoggingIn)
  BY <1>3, LoginKeeps
<1> QED
  BY <1>1, <1>2, <1>3, BootKeeps, CheckKeeps, DiscoveryKeeps, ConfigKeeps, ServeKeeps, Zenon
     DEF AddonNext, Script

(* From the check of auth.json on, everything a start works with is its    *)
(* own account's; a code is sent at most once for each start, and only the *)
(* stages of run.sh after the discovery have a list of their own (run.sh,  *)
(* auth_login.py).                                                         *)
THEOREM AddonInvHolds == AddonSpec => []AddonInv
<1>1. AddonInit => AddonInv
  <2> SUFFICES ASSUME AddonInit PROVE AddonInv
    OBVIOUS
  <2> USE DEF AddonInit, LoginInit
  <2>1. Flags
    BY Zenon DEF Flags
  <2>2. Ranges
    BY DEF Ranges
  <2>3. StageInv /\ TokenInv /\ CodeInv /\ ListInv
    BY DEF StageInv, TokenInv, CodeInv, ListInv
  <2> QED BY <2>1, <2>2, <2>3 DEF AddonInv
<1> QED BY <1>1, AddonNextInv, PTL DEF AddonSpec

(* The types, for any accounts, over any number of starts. *)
THEOREM AddonTypeCorrect == AddonSpec => []AddonTypeOK
<1>1. AddonInv => AddonTypeOK
  BY Zenon DEF AddonInv, Flags, Ranges, AddonTypeOK, LoginTypeOK
<1> QED BY <1>1, AddonInvHolds, PTL

(* Whatever auth.json earlier starts have left, and whenever the timer logs *)
(* in: go2rtc runs with the token of this start's account (run.sh 52-67,   *)
(* 175-192).                                                               *)
THEOREM OwnAccount == AddonSpec => []ServesOwnAccount
<1>1. AddonInv => ServesOwnAccount
  BY DEF AddonInv, TokenInv, ServesOwnAccount
<1> QED BY <1>1, AddonInvHolds, PTL

(* Over kills in the middle of install and attempts that fail late: what   *)
(* is served was generated from the list in /data, unless the generator or *)
(* install has failed in this start (run.sh 106-137).                      *)
THEOREM ServedListIsDiscovered == AddonSpec => []ConfigFollowsDiscovery
<1>1. AddonInv => ConfigFollowsDiscovery
  BY DEF AddonInv, ListInv, ConfigFollowsDiscovery
<1> QED BY <1>1, AddonInvHolds, PTL

(* However often the login is renewed or retried, a start sends one code   *)
(* at most (run.sh 68-69, auth_login.py 164).                              *)
THEOREM OneCode == AddonSpec => []CodeSentOnce
<1>1. AddonInv => CodeSentOnce
  BY DEF AddonInv, CodeInv, CodeSentOnce
<1> QED BY <1>1, AddonInvHolds, PTL
-----------------------------------------------------------------------------
FlowState ==
    [kind : {"none", "user", "reconfigure", "reauth"}, entry : EntryId \cup {NoId},
     typed : Host \cup {NoHost}, cand : Host \cup {NoHost}, cred : Cred \cup {NoCred}]

(* A probe has credentials: what it adds to probed is a pair; a user's dialog
   excludes no entry from the search for its host. *)
DialogOK ==
    \A f \in Flow :
        /\ flow[f].cand # NoHost => flow[f].cred \in Cred
        /\ flow[f].kind = "user" => flow[f].entry = NoId

FlowInv == FlowTypeOK /\ DialogOK /\ EndpointsUnique /\ ProbedTogether

(* A form that has just been opened has nothing in it. *)
LEMMA FormOK ==
    ASSUME NEW kind \in {"none", "user", "reconfigure", "reauth"},
           NEW e \in EntryId \cup {NoId}
    PROVE  /\ Form(kind, e) \in FlowState /\ Form(kind, e).cand = NoHost
           /\ Form(kind, e).kind = kind /\ Form(kind, e).entry = e
BY DEF Form, FlowState

(* Entries that an earlier version wrote. *)
LEMMA InitInv == FlowInit => FlowInv
<1> SUFFICES ASSUME FlowInit PROVE FlowInv
  OBVIOUS
<1> USE HostsOK, NamesOK
<1>1. entries \in [EntryId -> Data] /\ mixed \subseteq EntryId
  BY DEF FlowInit
<1>2. flow \in [Flow -> FlowState] /\ DialogOK
  BY FormOK DEF FlowInit, NoFlow, DialogOK
<1>3. \A e \in EntryId : entries[e].cred # NoCred => e \in Configured
  BY DEF Configured, NoEntry
<1>4. \A e \in EntryId : entries[e].cred # NoCred =>
        entries[e].at.host \in Host /\ entries[e].cred \in Cred
  BY <1>1, <1>3 DEF FlowInit, Data, Typed
<1>5. probed \subseteq Host \X Cred
  BY <1>4 DEF FlowInit
<1>6. EndpointsUnique
  BY DEF FlowInit, EndpointsUnique, normalize_host
<1>7. ProbedTogether
  BY <1>1 DEF FlowInit, ProbedTogether, normalize_host, Configured
<1> QED BY <1>1, <1>2, <1>5, <1>6, <1>7 DEF FlowInv, FlowTypeOK, FlowState

(* A step that only moves dialogs. *)
LEMMA DialogKeeps ==
    ASSUME FlowInv, UNCHANGED <<entries, probed, mixed>>,
           flow' \in [Flow -> FlowState],
           DialogOK'
    PROVE  FlowInv'
BY DEF FlowInv, FlowTypeOK, FlowState, DialogOK, EndpointsUnique, ProbedTogether,
       Configured, normalize_host

(* The answered dialog: its pair is one of the probed pairs from now on. *)
LEMMA AnsweredKeeps ==
    ASSUME FlowInv, NEW f \in Flow, Answered(f)
    PROVE  /\ flow[f].cand \in Host /\ flow[f].cred \in Cred
           /\ flow' \in [Flow -> FlowState] /\ DialogOK'
           /\ probed' \subseteq Host \X Cred /\ probed \subseteq probed'
           /\ <<flow[f].cand, flow[f].cred>> \in probed'
<1>1. flow \in [Flow -> FlowState]
  BY DEF FlowInv, FlowTypeOK, FlowState
<1>2. flow[f].cand \in Host /\ flow[f].cred \in Cred
  BY <1>1 DEF FlowInv, DialogOK, Answered, FlowState
<1>3. NoFlow \in FlowState /\ NoFlow.cand = NoHost /\ NoFlow.kind = "none"
  BY FormOK DEF NoFlow
<1>4. flow' = [flow EXCEPT ![f] = NoFlow]
  BY DEF Answered
<1>5. flow' \in [Flow -> FlowState] /\ DialogOK'
  BY <1>1, <1>3, <1>4 DEF FlowInv, DialogOK
<1> QED BY <1>2, <1>5 DEF FlowInv, FlowTypeOK, Answered

(* Storing what a dialog has found, in a free host. *)
LEMMA WrittenKeeps ==
    ASSUME FlowInv, NEW f \in Flow, NEW e \in EntryId, Answered(f),
           flow[f].entry = e \/ flow[f].entry = NoId, Free(f),
           entries' = [entries EXCEPT ![e] = Written(f)], mixed' = mixed \ {e}
    PROVE  FlowInv'
<1>1. /\ flow[f].cand \in Host /\ flow[f].cred \in Cred
      /\ flow' \in [Flow -> FlowState] /\ DialogOK'
      /\ probed' \subseteq Host \X Cred /\ probed \subseteq probed'
      /\ <<flow[f].cand, flow[f].cred>> \in probed'
  BY AnsweredKeeps
<1>2. /\ Written(f) \in Data
      /\ normalize_host(Written(f).at) = flow[f].cand
      /\ Written(f).cred = flow[f].cred
  BY <1>1 DEF Written, Resolved, Plain, Data, Typed, normalize_host
<1>3. entries \in [EntryId -> Data]
  BY DEF FlowInv, FlowTypeOK
<1>4. entries' \in [EntryId -> Data]
  BY <1>2, <1>3
<1>5. /\ entries'[e] = Written(f)
      /\ \A d \in EntryId \ {e} : entries'[d] = entries[d]
  BY <1>3
<1>6. \A d \in Configured \ {e} : normalize_host(entries[d].at) # flow[f].cand
  BY NamesOK DEF Free, InUse, Configured
<1>7. \A d \in EntryId \ {e} : d \in Configured' => d \in Configured
  BY <1>5 DEF Configured
<1>8. EndpointsUnique'
  BY <1>2, <1>5, <1>6, <1>7 DEF FlowInv, EndpointsUnique, normalize_host, Configured
<1>9. ProbedTogether'
  BY <1>1, <1>2, <1>5, <1>7 DEF FlowInv, ProbedTogether, normalize_host, Configured
<1> QED BY <1>1, <1>4, <1>8, <1>9 DEF FlowInv, FlowTypeOK, FlowState

(* New credentials for the host an entry has, or the entry is mixed. *)
LEMMA ReauthKeeps ==
    ASSUME FlowInv, NEW f \in Flow, Reauth(f)
    PROVE  FlowInv'
<1> DEFINE e == flow[f].entry
<1>0. Answered(f) /\ e \in Configured /\ e \in EntryId
  BY DEF Reauth, Configured
<1>1. /\ flow[f].cand \in Host /\ flow[f].cred \in Cred
      /\ flow' \in [Flow -> FlowState] /\ DialogOK'
      /\ probed' \subseteq Host \X Cred /\ probed \subseteq probed'
      /\ <<flow[f].cand, flow[f].cred>> \in probed'
  BY <1>0, AnsweredKeeps
<1>2. entries \in [EntryId -> Data] /\ mixed \subseteq EntryId
  BY DEF FlowInv, FlowTypeOK
<1>3. entries' = [entries EXCEPT ![e].cred = flow[f].cred]
  BY DEF Reauth
<1>4. entries' \in [EntryId -> Data]
  BY <1>0, <1>1, <1>2, <1>3 DEF Data
<1>5. /\ entries'[e].at = entries[e].at /\ entries'[e].cred = flow[f].cred
      /\ \A d \in EntryId \ {e} : entries'[d] = entries[d]
  BY <1>0, <1>2, <1>3 DEF Data
<1>6. \A d \in EntryId : d \in Configured' => d \in Configured
  BY <1>0, <1>5 DEF Configured
<1>7. EndpointsUnique'
  <2>1. \A d \in EntryId : entries'[d].at = entries[d].at
    BY <1>5
  <2> QED BY <1>6, <2>1 DEF FlowInv, EndpointsUnique, normalize_host, Configured
<1>8. /\ e \in mixed' <=> normalize_host(entries[e].at) # flow[f].cand
      /\ mixed' \subseteq EntryId
      /\ \A d \in EntryId \ {e} : d \in mixed' <=> d \in mixed
  BY <1>0, <1>2 DEF Reauth, normalize_host
<1>9. ProbedTogether'
  BY <1>0, <1>1, <1>5, <1>6, <1>8 DEF FlowInv, ProbedTogether, normalize_host, Configured
<1> QED BY <1>1, <1>4, <1>7, <1>8, <1>9 DEF FlowInv, FlowTypeOK, FlowState

(* Every step of the dialogs and the entries. *)
LEMMA NextInv == FlowInv /\ [FlowNext]_flowVars => FlowInv'
<1> SUFFICES ASSUME FlowInv, [FlowNext]_flowVars PROVE FlowInv'
  OBVIOUS
<1> USE HostsOK
<1>0. flow \in [Flow -> FlowState] /\ DialogOK
  BY DEF FlowInv, FlowTypeOK, FlowState
<1>1. ASSUME NEW f \in Flow, NEW kind \in {"user", "reconfigure", "reauth"},
             NEW e \in EntryId \cup {NoId}, Open(f, kind, e)
      PROVE  FlowInv'
  <2>1. flow' = [flow EXCEPT ![f] = Form(kind, e)] /\ UNCHANGED <<entries, probed, mixed>>
    BY <1>1 DEF Open
  <2>2. /\ Form(kind, e) \in FlowState /\ Form(kind, e).cand = NoHost
        /\ Form(kind, e).kind = kind /\ Form(kind, e).entry = e
    BY FormOK
  <2>3. kind = "user" => e = NoId
    BY <1>1 DEF Open
  <2>4. DialogOK' /\ flow' \in [Flow -> FlowState]
    BY <1>0, <2>1, <2>2, <2>3 DEF DialogOK
  <2> QED BY <2>1, <2>4, DialogKeeps
<1>2. ASSUME NEW f \in Flow, Close(f) PROVE FlowInv'
  <2>1. NoFlow \in FlowState /\ NoFlow.cand = NoHost /\ NoFlow.kind = "none"
    BY FormOK DEF NoFlow
  <2> QED BY <1>0, <1>2, <2>1, DialogKeeps DEF DialogOK, Close
<1>3. ASSUME NEW f \in Flow, NEW h \in Host, NEW c \in Cred, Submit(f, h, c)
      PROVE  FlowInv'
  <2> DEFINE r == [flow[f] EXCEPT !.typed = h, !.cand = h, !.cred = c]
  <2>1. flow' = [flow EXCEPT ![f] = r] /\ UNCHANGED <<entries, probed, mixed>>
    BY <1>3 DEF Submit
  <2>2. /\ r \in FlowState /\ r.cred = c
        /\ r.kind = flow[f].kind /\ r.entry = flow[f].entry
    BY <1>0 DEF FlowState
  <2> HIDE DEF r
  <2> QED BY <1>0, <2>1, <2>2, DialogKeeps DEF DialogOK
<1>4. ASSUME NEW f \in Flow, Unanswered(f) PROVE FlowInv'
  <2>1. UNCHANGED <<entries, probed, mixed>>
    BY <1>4 DEF Unanswered
  <2>2. CASE flow[f].cand = Default /\ Fallback # NoHost
    <3> DEFINE r == [flow[f] EXCEPT !.cand = Fallback]
    <3>1. flow' = [flow EXCEPT ![f] = r]
      BY <1>4, <2>2 DEF Unanswered
    <3>2. /\ r \in FlowState /\ r.cred = flow[f].cred
          /\ r.kind = flow[f].kind /\ r.entry = flow[f].entry
      BY <1>0 DEF FlowState
    <3>3. flow[f].cred \in Cred
      BY <1>0, <2>2 DEF DialogOK
    <3> HIDE DEF r
    <3> QED BY <1>0, <2>1, <3>1, <3>2, <3>3, DialogKeeps DEF DialogOK
  <2>3. CASE ~(flow[f].cand = Default /\ Fallback # NoHost)
    <3>1. flow' = [flow EXCEPT ![f] = Form(flow[f].kind, flow[f].entry)]
      BY <1>4, <2>3 DEF Unanswered
    <3>2. flow[f].kind \in {"none", "user", "reconfigure", "reauth"}
          /\ flow[f].entry \in EntryId \cup {NoId}
      BY <1>0 DEF FlowState
    <3>3. /\ Form(flow[f].kind, flow[f].entry) \in FlowState
          /\ Form(flow[f].kind, flow[f].entry).cand = NoHost
          /\ Form(flow[f].kind, flow[f].entry).kind = flow[f].kind
          /\ Form(flow[f].kind, flow[f].entry).entry = flow[f].entry
      BY <3>2, FormOK
    <3> QED BY <1>0, <2>1, <3>1, <3>3, DialogKeeps DEF DialogOK
  <2> QED BY <2>2, <2>3
<1>5. ASSUME NEW f \in Flow, NEW e \in EntryId, Create(f, e) PROVE FlowInv'
  <2>1. flow[f].entry = NoId
    BY <1>0, <1>5 DEF DialogOK, Create
  <2> QED BY <1>5, <2>1, WrittenKeeps DEF Create
<1>6. ASSUME NEW f \in Flow, Reconfigure(f) PROVE FlowInv'
  <2>1. flow[f].entry \in EntryId
    BY <1>6 DEF Reconfigure, Configured
  <2> QED BY <1>6, <2>1, WrittenKeeps DEF Reconfigure
<1>7. ASSUME NEW f \in Flow, AbortFlow(f) PROVE FlowInv'
  <2>1. /\ flow' \in [Flow -> FlowState] /\ DialogOK'
        /\ probed' \subseteq Host \X Cred /\ probed \subseteq probed'
    BY <1>7, AnsweredKeeps DEF AbortFlow
  <2>2. UNCHANGED <<entries, mixed>>
    BY <1>7 DEF AbortFlow
  <2> QED
    BY <2>1, <2>2 DEF FlowInv, FlowTypeOK, FlowState, EndpointsUnique, ProbedTogether,
                      Configured, normalize_host
<1>8. ASSUME NEW e \in EntryId, Remove(e) PROVE FlowInv'
  <2>1. entries' = [entries EXCEPT ![e] = NoEntry] /\ UNCHANGED <<flow, probed, mixed>>
    BY <1>8 DEF Remove
  <2>2. NoEntry \in Data
    BY DEF NoEntry, Data, Typed, Plain
  <2>3. entries \in [EntryId -> Data]
    BY DEF FlowInv, FlowTypeOK
  <2>4. e \notin Configured' /\ \A d \in EntryId \ {e} : entries'[d] = entries[d]
    BY <2>1, <2>3 DEF Configured
  <2>5. EndpointsUnique' /\ ProbedTogether'
    BY <2>1, <2>4 DEF FlowInv, EndpointsUnique, ProbedTogether, normalize_host, Configured
  <2>6. entries' \in [EntryId -> Data]
    BY <2>1, <2>2, <2>3
  <2> QED BY <2>1, <2>5, <2>6 DEF FlowInv, FlowTypeOK, DialogOK
<1>9. CASE UNCHANGED flowVars
  BY <1>0, <1>9, DialogKeeps DEF flowVars, DialogOK
<1> QED
  BY <1>1, <1>2, <1>3, <1>4, <1>5, <1>6, <1>7, <1>8, <1>9, ReauthKeeps DEF FlowNext

(* Each dialog and each entry is as DialogOK and the two properties say,   *)
(* whichever dialogs are validated at the same time (config_flow.py).      *)
THEOREM InvHolds == FlowSpec => []FlowInv
<1>1. FlowInit => FlowInv
  BY InitInv
<1>2. FlowInv /\ [FlowNext]_flowVars => FlowInv'
  BY NextInv
<1> QED BY <1>1, <1>2, PTL DEF FlowSpec

(* The types, for any number of dialogs and entries. *)
THEOREM TypeCorrect == FlowSpec => []FlowTypeOK
BY InvHolds, PTL DEF FlowInv

(* Two entries never lead to one bridge: the host is looked for among the  *)
(* entries after the await, in the step that writes the entry              *)
(* (config_flow.py 129-143).                                               *)
THEOREM UniqueEndpoints == FlowSpec => []EndpointsUnique
BY InvHolds, PTL DEF FlowInv

(* What a dialog stores has answered a probe as a pair                     *)
(* (config_flow.py 207-235, 258-280).                                      *)
THEOREM ProbedPairs == FlowSpec => []ProbedTogether
BY InvHolds, PTL DEF FlowInv
=============================================================================
