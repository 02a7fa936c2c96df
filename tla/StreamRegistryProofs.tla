------------------------ MODULE StreamRegistryProofs ------------------------
(***************************************************************************)
(* Stream names are unique, recorded before they are served, and stay with *)
(* their camera key, for any set of channels, serials, titles and          *)
(* manifests.                                                              *)
(***************************************************************************)
EXTENDS StreamRegistry, TLAPS

(* Every candidate is a name: it has at least the tokens of the slug.      *)
LEMMA CandidateIsName ==
    ASSUME NEW cam \in Camera, NEW n \in Nat
    PROVE  Candidate(cam, n) \in Name
<1>1. cam.channel \in Int /\ cam.title \in Seq(Int)
  <2>1. cam.channel \in Channel /\ cam.title \in Title
    BY DEF Camera
  <2>2. Channel \subseteq 0 .. 255 /\ (\A c \in 0 .. 255 : c \in Int)
    BY RegistryConstants
  <2>3. Title \subseteq Seq(Int)
    BY RegistryConstants
  <2> QED
    BY <2>1, <2>2, <2>3
<1>2. Slug(cam) \in Seq(Int) /\ Slug(cam) # <<>>
  BY <1>1 DEF Slug
<1>3. Slug(cam) \o <<cam.channel>> \in Name
  BY <1>1, <1>2 DEF Name, NoName
<1>4. Slug(cam) \o <<cam.channel, 255 + n>> \in Name
  BY <1>1, <1>2 DEF Name, NoName
<1> QED
  BY <1>2, <1>3, <1>4 DEF Candidate, Name, NoName

(* The keys of the cameras in a valid manifest are keys, and different.    *)
LEMMA KeysDiffer ==
    ASSUME NEW a \in Camera, NEW b \in Camera, Valid({a, b}), a # b
    PROVE  CameraKey(a) # CameraKey(b)
<1> QED
  BY RegistryConstants DEF Valid, CameraKey, Camera

(* Every camera of a manifest has a key. *)
LEMMA KeyOfCamera ==
    ASSUME NEW cam \in Camera
    PROVE  CameraKey(cam) \in Key
<1> QED
  BY RegistryConstants DEF CameraKey, Camera, Key, NoChannel

(* Every step keeps the variables of StreamRegistry in their types.        *)
THEOREM RegistryTypeOK == Spec => []TypeOK
<1> USE RegistryConstants DEF TypeOK
<1>1. Init => TypeOK
  BY DEF Init
<1>2. TypeOK /\ [Next]_vars => TypeOK'
  <2> SUFFICES ASSUME TypeOK, [Next]_vars PROVE TypeOK'
    OBVIOUS
  <2>1. ASSUME NEW m \in Manifests, Read(m) PROVE TypeOK'
    BY <2>1 DEF Read
  <2>2. ASSUME NEW cam \in todo, NEW name, name \in Name \cup {NoName}, Assign(cam, name),
               name # NoName
        PROVE TypeOK'
    <3>1. cam \in Camera /\ CameraKey(cam) \in Key /\ cam.channel \in Channel
      BY KeyOfCamera DEF Camera
    <3>2. names' \in [Key -> Name \cup {NoName}]
      BY <2>2, <3>1 DEF Assign
    <3>3. [key |-> CameraKey(cam), name |-> name, channel |-> cam.channel] \in Stream
      BY <2>2, <3>1 DEF Stream
    <3>4. streams' \in SUBSET Stream
      BY <2>2, <3>3 DEF Assign
    <3> QED
      BY <2>2, <3>2, <3>4 DEF Assign
  <2>3. CASE AllNamed \/ Rendered
    BY <2>3 DEF AllNamed, Rendered
  <2>4. CASE Abort \/ WriteConfig
    BY <2>4 DEF Abort, WriteConfig
  <2>5. CASE WriteRegistry
    BY <2>5 DEF WriteRegistry
  <2>6. CASE UNCHANGED vars
    BY <2>6 DEF vars
  <2>7. ASSUME AssignOne
        PROVE  \E cam \in todo, name \in Name : Assign(cam, name)
    <3>1. PICK cam \in todo :
             \/ Assign(cam, names[CameraKey(cam)])
             \/ \E n \in 0 .. MaxSuffix : Assign(cam, Candidate(cam, n))
      BY <2>7 DEF AssignOne
    <3>2. CameraKey(cam) \in Key
      BY KeyOfCamera
    <3>3. \A n \in 0 .. MaxSuffix : Candidate(cam, n) \in Name
      BY CandidateIsName
    <3>4. \A n \in 0 .. MaxSuffix : Candidate(cam, n) # NoName
      BY <3>3 DEF Name
    <3>5. ASSUME Assign(cam, names[CameraKey(cam)])
          PROVE  names[CameraKey(cam)] \in Name
      BY <3>2, <3>4, <3>5 DEF Assign, Fresh
    <3> QED
      BY <3>1, <3>3, <3>5
  <2>8. \A name \in Name : name # NoName
    BY DEF Name
  <2> QED
    BY <2>1, <2>2, <2>3, <2>4, <2>5, <2>6, <2>7, <2>8 DEF Next
<1> QED
  BY <1>1, <1>2, PTL DEF Spec

(* Registry, memory and configuration agree at every step.                 *)
THEOREM RegistryInvariant == Spec => [](TypeOK /\ GenInv)
<1> USE DEF GenInv, NamesUnique, ConfigBacked, Stream
<1>1. Init => GenInv
  BY DEF Init
<1>2. TypeOK /\ TypeOK' /\ GenInv /\ [Next]_vars => GenInv'
  <2> SUFFICES ASSUME TypeOK, TypeOK', GenInv, [Next]_vars PROVE GenInv'
    OBVIOUS
  <2> USE DEF TypeOK
  <2>1. ASSUME NEW m \in Manifests, Read(m) PROVE GenInv'
    BY <2>1 DEF Read
  <2>2. ASSUME NEW cam \in todo, NEW name, Assign(cam, name) PROVE GenInv'
    <3> DEFINE key == CameraKey(cam)
               stream == [key |-> key, name |-> name, channel |-> cam.channel]
    <3>1. key \in Key /\ cam \in Camera
      BY KeyOfCamera
    <3>2. names' = [names EXCEPT ![key] = name]
      BY <2>2 DEF Assign
    <3>3. name # NoName
      BY <2>2, <3>1, RegistryConstants, CandidateIsName DEF Assign, Fresh, Name
    <3>4. names[key] = NoName => \A k \in Key : names[k] # name
      BY <2>2, <3>3 DEF Assign, Fresh, Used
    <3>5. names[key] # NoName => name = names[key]
      BY <2>2 DEF Assign
    <3>6. \A k, l \in Key : names'[k] # NoName /\ names'[k] = names'[l] => k = l
      BY <2>2, <3>1, <3>2, <3>4, <3>5 DEF Assign
    <3>7. \A k \in Key : registry'[k] # NoName => names'[k] = registry'[k]
      BY <2>2, <3>1, <3>2, <3>5 DEF Assign
    <3>8. \A s \in streams : s.key # key /\ s.name # name /\ names'[s.key] = s.name
      BY <2>2, <3>1, <3>2, <3>4, <3>5 DEF Assign, Name
    <3>9. streams' = streams \/ streams' = streams \cup {stream}
      BY <2>2 DEF Assign
    <3>10. names'[stream.key] = stream.name
      BY <3>1, <3>2
    <3>11. \A s \in streams' : names'[s.key] = s.name
      BY <3>8, <3>9, <3>10
    <3>12. \A s, t \in streams' : s.name = t.name => s = t
      <4>1. \A s, t \in streams : s.name = t.name => s = t
        BY <2>2 DEF Assign
      <4>2. stream.name = name
        OBVIOUS
      <4>3. \A s \in streams : s.name # name
        BY <3>8
      <4> HIDE DEF stream
      <4> QED
        BY <3>9, <4>1, <4>2, <4>3
    <3>13. \A other \in todo' : other \in todo /\ other # cam
      BY <2>2 DEF Assign
    <3>14. \A other \in todo' : CameraKey(other) # key
      <4> SUFFICES ASSUME NEW other \in todo' PROVE CameraKey(other) # key
        OBVIOUS
      <4>1. Valid({cam, other}) /\ other \in Camera /\ other # cam
        BY <2>2, <3>13 DEF Valid, Assign
      <4> QED
        BY <3>1, <4>1, KeysDiffer
    <3>15. \A other \in todo', s \in streams' : CameraKey(other) # s.key
      BY <2>2, <3>9, <3>13, <3>14 DEF Assign
    <3>16. Valid(todo')
      BY <2>2, <3>13 DEF Assign, Valid
    <3>17. pc' = "assign" /\ UNCHANGED <<registry, config>>
      BY <2>2 DEF Assign
    <3> QED
      BY <3>6, <3>7, <3>11, <3>12, <3>15, <3>16, <3>17
  <2>3. CASE AllNamed \/ Rendered
    BY <2>3 DEF AllNamed, Rendered
  <2>4. CASE Abort
    BY <2>4 DEF Abort
  <2>5. CASE WriteRegistry
    BY <2>5 DEF WriteRegistry, Name
  <2>6. CASE WriteConfig
    BY <2>6 DEF WriteConfig
  <2>7. CASE UNCHANGED vars
    BY <2>7 DEF vars
  <2> QED
    BY <2>1, <2>2, <2>3, <2>4, <2>5, <2>6, <2>7 DEF Next, AssignOne
<1> QED
  BY <1>1, <1>2, RegistryTypeOK, PTL DEF Spec

(* No two cameras ever share a stream name.                                *)
THEOREM RegistryNamesUnique == Spec => []NamesUnique
<1>1. GenInv => NamesUnique
  BY DEF GenInv
<1> QED
  BY <1>1, RegistryInvariant, PTL

(* Every stream that go2rtc may serve is on record.                        *)
THEOREM RegistryConfigBacked == Spec => []ConfigBacked
<1>1. GenInv => ConfigBacked
  BY DEF GenInv
<1> QED
  BY <1>1, RegistryInvariant, PTL

(* A recorded name never moves.                                            *)
THEOREM RegistryNamesStable == Spec => NamesStable
<1>1. TypeOK /\ GenInv /\ [Next]_vars =>
        [\A k \in Key : registry[k] # NoName => registry'[k] = registry[k]]_vars
  <2> SUFFICES ASSUME TypeOK, GenInv, [Next]_vars, NEW k \in Key,
                      registry[k] # NoName
               PROVE  registry'[k] = registry[k]
    OBVIOUS
  <2>1. CASE WriteRegistry
    BY <2>1 DEF WriteRegistry, GenInv
  <2>2. CASE ~WriteRegistry
    BY <2>2 DEF Next, Read, AssignOne, Assign, AllNamed, Rendered, Abort, WriteConfig, vars
  <2> QED
    BY <2>1, <2>2
<1> QED
  BY <1>1, RegistryInvariant, PTL DEF Spec, NamesStable
=============================================================================
