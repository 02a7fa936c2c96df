----------------------------- MODULE CloudLogin -----------------------------
(***************************************************************************)
(* One run of bridge/auth_login.py with eufy_cloud.login: is the cached    *)
(* session usable, and if not, log in to eufy's passport service, find the *)
(* station, and replace auth.json.  run.sh runs it at each start and from a*)
(* timer, never twice at a time.                                           *)
(*                                                                         *)
(* An account is an e-mail with its region and country (the fingerprint).  *)
(* A verification code in the options is "fresh" while it is the last one  *)
(* mailed and was not used.  Key exchange, encryption and signatures of a  *)
(* request are part of whether it fails.  The service and the mailbox are  *)
(* external.                                                               *)
(***************************************************************************)
EXTENDS Integers

CONSTANTS
    Account,    \* e-mail, region and country
    NoAccount   \* no auth.json

ASSUME AccountOK == NoAccount \notin Account

VARIABLES
    auth,   \* auth.json: the account its token is bound to
    live,   \* the service accepts the token of auth.json
    lg,     \* where the login stands
    code,   \* the option verification_code: "none", "fresh" or "old"
    mail,   \* a code newer than the option is in the mailbox
    sent    \* codes sent to the service since the add-on started

loginVars == <<auth, live, lg, code, mail, sent>>

LoginTypeOK ==
    /\ auth \in Account \cup {NoAccount}
    /\ live \in BOOLEAN
    /\ lg \in {"idle", "post", "challenge", "token", "ok", "failed"}
    /\ code \in {"none", "fresh", "old"}
    /\ mail \in BOOLEAN
    /\ sent \in Nat

LoginInit ==
    /\ auth = NoAccount /\ live = FALSE
    /\ lg = "idle"
    /\ code = "none" /\ mail = FALSE
    /\ sent = 0

CacheMatches_Any(a) == auth # NoAccount  \* mutant: the fingerprint is not compared

(* cache_matches: a complete cache of this very account. *)
CacheMatches(a) == auth = a

(* cache_is_live: ws/sign accepts the token.  A question that is not answered
   in 15 s counts as "no", also when the token is good. *)
CacheIsLive(a) == CacheMatches(a) /\ live

(* /passport/login: a token, a challenge, or a refusal (wrong password, login
   limit, captcha, no answer).  A captcha is fetched and shown when no answer
   was given; with one, the run just fails. *)
Post ==
    /\ lg = "post"
    /\ lg' \in {"token", "challenge", "failed"}
    /\ UNCHANGED <<auth, live, code, mail, sent>>

(* fa_info.step 26052 without a code: the push service is asked to mail one,
   which outdates an earlier one, and the run ends. *)
RequestCode(given) ==
    /\ lg = "challenge" /\ given = "none"
    /\ lg' = "failed"
    /\ \/ mail' = TRUE /\ code' = (IF code = "none" THEN "none" ELSE "old")
       \/ UNCHANGED <<mail, code>>
    /\ UNCHANGED <<auth, live, sent>>

(* The challenge has no provisional token, or the code is not six digits: the
   run ends without a request. *)
NotSent ==
    /\ lg = "challenge"
    /\ lg' = "failed"
    /\ UNCHANGED <<auth, live, code, mail, sent>>

(* The login repeated with the code and the challenge's token.  The service
   takes a code once; it may also reject a fresh one, for its age. *)
VerifyCode(given) ==
    /\ lg = "challenge" /\ given # "none"
    /\ sent' = sent + 1
    /\ code' = (IF code = "none" THEN "none" ELSE "old")
    /\ lg' \in {"failed"} \cup (IF given = "fresh" THEN {"token"} ELSE {})
    /\ UNCHANGED <<auth, live, mail>>

(* station_sn from the option or from the station list; without one the run
   ends, and with it the token. *)
NoStation ==
    /\ lg = "token"
    /\ lg' = "failed"
    /\ UNCHANGED <<auth, live, code, mail, sent>>

(* auth.json is replaced as a whole, by a file of the same directory. *)
WriteAuth(a) ==
    /\ lg = "token"
    /\ auth' = a /\ live' = TRUE
    /\ lg' = "ok"
    /\ UNCHANGED <<code, mail, sent>>

Login(a, given) ==
    \/ Post \/ NotSent \/ RequestCode(given) \/ VerifyCode(given)
    \/ NoStation \/ WriteAuth(a)

(* The token ends, after about a day, or is revoked. *)
Expire ==
    /\ live
    /\ live' = FALSE
    /\ UNCHANGED <<auth, lg, code, mail, sent>>

(* The user copies the mailed code into the options, or removes it. *)
EditCode ==
    /\ \/ mail /\ mail' = FALSE /\ code' = "fresh"
       \/ code # "none" /\ code' = "none" /\ UNCHANGED mail
    /\ UNCHANGED <<auth, live, lg, sent>>
=============================================================================
