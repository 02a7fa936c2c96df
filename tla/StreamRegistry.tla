--------------------------- MODULE StreamRegistry ---------------------------
(***************************************************************************)
(* bridge/gen_go2rtc.py: the go2rtc configuration and the persistent       *)
(* registry of stream names, generated from the discovered cameras of one  *)
(* NVR each time the add-on starts.                                        *)
(*                                                                         *)
(* Home Assistant knows a camera by its stream name, so the name belongs   *)
(* to the camera's key (its serial, or its channel when it has none) for   *)
(* ever, also when the camera is renamed, goes away and comes back, and    *)
(* when the add-on dies between the two files.                             *)
(*                                                                         *)
(* A name is a sequence of tokens (the pieces of eufy_... between the      *)
(* underscores): numbers below 0 are words, 0..255 stand for ch0..ch255,   *)
(* larger ones for the counters 2, 3, ...  A camera's title can contain    *)
(* all of them, so a plain title can collide with a suffixed one.          *)
(***************************************************************************)
EXTENDS Integers, Sequences, FiniteSets

CONSTANTS
    Channel,     \* channel numbers
    Serial,      \* camera serials
    NoSerial,    \* a camera that reports none
    Title,       \* camera titles, as token sequences; <<>> is null or symbols only
    Manifests,   \* what discovery may leave in cameras.json: sets of cameras
    Disabled,    \* EUFY_DISABLED_CHANNELS
    MaxSuffix    \* bound: how many candidates the collision loop tries

Camera == [channel : Channel, sn : Serial \cup {NoSerial}, title : Title,
           online : BOOLEAN]

ASSUME RegistryConstants ==
    /\ Channel \subseteq 0 .. 255
    /\ NoSerial \notin Serial
    /\ Title \subseteq Seq(Int)
    /\ Manifests \subseteq SUBSET Camera
    /\ Disabled \subseteq Channel
    /\ MaxSuffix \in Nat

(* camera_key: ["serial", sn], or ["channel", channel] without a serial. *)
NoChannel == -1
Key == [sn : Serial \cup {NoSerial}, channel : Channel \cup {NoChannel}]

CameraKey(cam) ==
    IF cam.sn # NoSerial THEN [sn |-> cam.sn, channel |-> NoChannel]
                         ELSE [sn |-> NoSerial, channel |-> cam.channel]

NoName == <<>>
Name   == Seq(Int) \ {NoName}

Slug_Raw(cam) == cam.title  \* mutant: a title without letters gives no name

(* slug: a title without letters or digits becomes ch<c>. *)
Slug(cam) == IF cam.title = <<>> THEN <<cam.channel>> ELSE cam.title

(* The n-th candidate: eufy_<slug>, eufy_<slug>_ch<c>, eufy_<slug>_ch<c>_<n>. *)
Candidate(cam, n) ==
    CASE n = 0 -> Slug(cam)
      [] n = 1 -> Slug(cam) \o <<cam.channel>>
      [] OTHER -> Slug(cam) \o <<cam.channel, 255 + n>>

(* validate_manifest: channels are unique, and so are serials. *)
Valid_Channels(m) ==  \* mutant: duplicate serials pass
    \A a, b \in m : a # b => a.channel # b.channel

Valid(m) ==
    \A a, b \in m : a # b =>
        /\ a.channel # b.channel
        /\ a.sn = NoSerial \/ a.sn # b.sn

VARIABLES
    registry,  \* stream_names.json: the name of each key, or NoName
    config,    \* go2rtc.yaml: its streams, as [key, name, channel]
    pc,        \* the generator: "idle", "assign", "render", "registry", "config"
    todo,      \* cameras still to be named
    names,     \* the registry in memory
    streams    \* the streams in memory

vars == <<registry, config, pc, todo, names, streams>>

Stream == [key : Key, name : Name, channel : Channel]

TypeOK ==
    /\ registry \in [Key -> Name \cup {NoName}]
    /\ config \in SUBSET Stream
    /\ pc \in {"idle", "assign", "render", "registry", "config"}
    /\ todo \in SUBSET Camera
    /\ names \in [Key -> Name \cup {NoName}]
    /\ streams \in SUBSET Stream

Init ==
    /\ registry = [k \in Key |-> NoName]
    /\ config = {}
    /\ pc = "idle"
    /\ todo = {} /\ streams = {}
    /\ names = [k \in Key |-> NoName]

Used == {names[k] : k \in Key} \ {NoName}
-----------------------------------------------------------------------------
(* generate reads the manifest of the last discovery and the registry.  An
   invalid manifest raises: nothing is written. *)
Read(m) ==
    /\ pc = "idle" /\ Valid(m)
    /\ pc' = "assign"
    /\ todo' = m
    /\ names' = registry
    /\ streams' = {}
    /\ UNCHANGED <<registry, config>>

(* assign_names on the camera with the lowest channel: a known key keeps its
   name, a new one gets its first free candidate.  Disabled and offline
   cameras are named and left out of the streams. *)
First(cam) == cam \in todo /\ \A other \in todo : cam.channel <= other.channel

Fresh_Shadow(cam, name) ==  \* mutant: the suffixed candidate is not compared
    \E n \in 0 .. 1 :
        /\ name = Candidate(cam, n)
        /\ n = 0 => name \notin Used
        /\ n = 1 => Candidate(cam, 0) \in Used

Fresh(cam, name) ==
    \E n \in 0 .. MaxSuffix :
        /\ name = Candidate(cam, n)
        /\ name \notin Used
        /\ \A j \in 0 .. n - 1 : Candidate(cam, j) \in Used

Assign(cam, name) ==
    LET key == CameraKey(cam) IN
    /\ pc = "assign" /\ First(cam)
    /\ IF names[key] # NoName THEN name = names[key] ELSE Fresh(cam, name)
    /\ names' = [names EXCEPT ![key] = name]
    /\ todo' = todo \ {cam}
    /\ streams' = IF cam.online /\ cam.channel \notin Disabled
                    THEN streams \cup {[key |-> key, name |-> name, channel |-> cam.channel]}
                    ELSE streams
    /\ UNCHANGED <<registry, config, pc>>

AssignOne == \E cam \in todo :
    \/ Assign(cam, names[CameraKey(cam)])
    \/ \E n \in 0 .. MaxSuffix : Assign(cam, Candidate(cam, n))

AllNamed ==
    /\ pc = "assign" /\ todo = {}
    /\ pc' = "render"
    /\ UNCHANGED <<registry, config, todo, names, streams>>

(* render_config may refuse the ports or the credentials.  Nothing has been
   written by then; the same happens when the process dies anywhere. *)
Rendered ==
    /\ pc = "render"
    /\ pc' = "registry"
    /\ UNCHANGED <<registry, config, todo, names, streams>>

Abort ==
    /\ pc # "idle"
    /\ pc' = "idle"
    /\ todo' = {} /\ streams' = {}
    /\ names' = [k \in Key |-> NoName]
    /\ UNCHANGED <<registry, config>>

(* atomic_write, twice: the registry, then the configuration. *)
WriteRegistry_ConfigFirst ==  \* mutant: the configuration is written first
    /\ pc = "registry"
    /\ config' = streams
    /\ pc' = "config"
    /\ UNCHANGED <<registry, todo, names, streams>>

WriteRegistry_CurrentOnly ==  \* mutant: cameras that are away are forgotten
    /\ pc = "registry"
    /\ registry' = [k \in Key |-> IF \E s \in streams : s.key = k THEN names[k] ELSE NoName]
    /\ pc' = "config"
    /\ UNCHANGED <<config, todo, names, streams>>

WriteRegistry ==
    /\ pc = "registry"
    /\ registry' = names
    /\ pc' = "config"
    /\ UNCHANGED <<config, todo, names, streams>>

WriteConfig ==
    /\ pc = "config"
    /\ config' = streams
    /\ pc' = "idle"
    /\ todo' = {} /\ streams' = {}
    /\ names' = [k \in Key |-> NoName]
    /\ UNCHANGED registry

Next ==
    \/ \E m \in Manifests : Read(m)
    \/ AssignOne \/ AllNamed \/ Rendered \/ WriteRegistry \/ WriteConfig \/ Abort

Spec == Init /\ [][Next]_vars
-----------------------------------------------------------------------------
(* Properties *)

(* No two cameras ever share a stream name, however their titles collide   *)
(* with each other's suffixes (gen_go2rtc.py 112-121), neither in the      *)
(* registry nor in the configuration go2rtc loads.                         *)
NamesUnique ==
    /\ \A k, l \in Key : registry[k] # NoName /\ registry[k] = registry[l] => k = l
    /\ \A s, t \in config : s.name = t.name => s = t

(* A stream that go2rtc may serve is in the registry under the same key,   *)
(* also after a crash between the two writes: else its name could go to    *)
(* another camera (gen_go2rtc.py 239-240).                                 *)
ConfigBacked == \A s \in config : registry[s.key] = s.name

(* A name, once recorded, stays with its key: renames, absences, failures  *)
(* and crashes do not move it (gen_go2rtc.py 106-111).                     *)
NamesStable ==
    [][\A k \in Key : registry[k] # NoName => registry'[k] = registry[k]]_vars

(* What memory holds while a generation is under way.                      *)
GenInv ==
    /\ NamesUnique /\ ConfigBacked
    /\ pc # "idle" =>
         /\ \A k \in Key : registry[k] # NoName => names[k] = registry[k]
         /\ \A k, l \in Key : names[k] # NoName /\ names[k] = names[l] => k = l
         /\ \A s \in streams : names[s.key] = s.name
         /\ \A s, t \in streams : s.name = t.name => s = t
         /\ \A cam \in todo, s \in streams : CameraKey(cam) # s.key
         /\ Valid(todo)
    /\ pc = "config" => registry = names
=============================================================================
