---------------------------- MODULE MCAddonWarmer ----------------------------
(* run.sh and the warmer it starts, each by itself: part says which is     *)
(* explored and is chosen once; the other one stays as it is, and they     *)
(* share no variable.                                                      *)
(*                                                                         *)
(* "addon": one account that owns the NVR, one that shares it.  "warmer":  *)
(* two streams, and the shipped API_TIMEOUT, RESTART_DELAY and polls in    *)
(* units of 0.2 s.                                                         *)
EXTENDS AddonLife, AdaptiveWarmer

VARIABLE part

EitherInit ==
    /\ part \in {"addon", "warmer"}
    /\ AddonInit /\ Init
    /\ part = "warmer" => acct = CHOOSE a \in Account : TRUE
    /\ part = "addon" => viewers = {}

EitherNext ==
    /\ \/ part = "addon" /\ AddonNext /\ UNCHANGED vars
       \/ part = "warmer" /\ Next /\ UNCHANGED addonVars
    /\ UNCHANGED part

(* The fairness of the one that is explored. *)
EitherSpec ==
    /\ EitherInit /\ [][EitherNext]_<<vars, addonVars, part>>
    /\ WF_addonVars(part = "addon" /\ Script)
    /\ WF_vars(part = "warmer" /\ Loop)
    /\ WF_vars(part = "warmer" /\ ForgetGhost)
=============================================================================
