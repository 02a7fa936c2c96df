--------------------------- MODULE MCRegistryFlow ---------------------------
(* The two registers of names, each by itself: part says which is explored *)
(* and is chosen once; the other one stays as it is, and they share no     *)
(* variable.                                                               *)
(*                                                                         *)
(* "registry": two channels, the second possibly offline, two serials, and *)
(* two titles of which the second is what a collision makes of the first;  *)
(* one camera without a title.  Manifests of up to two cameras, the invalid*)
(* ones too.  "flow": dialogs that race for two entries and two hosts.     *)
EXTENDS StreamRegistry, ConfigFlow, TLC

VARIABLE part

MCChannel == {1, 2}
MCTitle == {<<>>, <<-1>>, <<-1, 2>>}
CollidingTitle == {<<-1>>, <<-1, 2>>}
MCCamera == [channel : {1}, sn : Serial \cup {NoSerial}, title : CollidingTitle, online : {TRUE}]
            \cup [channel : {2}, sn : Serial \cup {NoSerial}, title : CollidingTitle, online : BOOLEAN]
            \cup [channel : {1}, sn : {NoSerial}, title : {<<>>}, online : {TRUE}]
MCManifests == {{a, b} : a, b \in MCCamera}
MCDisabled == {}

Symmetry ==
    Permutations(Serial) \cup Permutations(Cred) \cup Permutations(Flow) \cup Permutations(EntryId)

EitherInit ==
    /\ part \in {"registry", "flow"}
    /\ Init /\ FlowInit
    /\ part = "registry" => Configured = {}

EitherNext ==
    /\ \/ part = "registry" /\ Next /\ UNCHANGED flowVars
       \/ part = "flow" /\ FlowNext /\ UNCHANGED vars
    /\ UNCHANGED part

EitherSpec == EitherInit /\ [][EitherNext]_<<vars, flowVars, part>>
=============================================================================
