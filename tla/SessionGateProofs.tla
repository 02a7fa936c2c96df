------------------------- MODULE SessionGateProofs -------------------------
(***************************************************************************)
(* The session gate is first come, first served and exclusive, for every   *)
(* number of processes, starts and draws: SessionGate implements           *)
(* SessionArbiter.                                                         *)
(***************************************************************************)
EXTENDS SessionGate, TLAPS

(* Every step keeps the variables of SessionGate in their types. *)
THEOREM GateTypeOK == Spec => []TypeOK
<1> USE ConstantsOK DEF TypeOK, PcValues, Producer, HasFile, InLoop, Holding, Ticket
<1>1. Init => TypeOK
  <2> SUFFICES ASSUME Init PROVE TypeOK
    OBVIOUS
  <2>1. pc \in [Pid -> PcValues]
    BY DEF Init
  <2>2. polls \in [Pid -> 0 .. HintEvery]
    BY DEF Init
  <2>3. seen \in [Pid -> SUBSET Ticket] /\ tickets \in SUBSET Ticket
    BY DEF Init
  <2>4. ahead \in [Pid -> SUBSET Pid]
    BY DEF Init
  <2> QED
    BY <2>1, <2>2, <2>3, <2>4 DEF Init
<1>2. TypeOK /\ [Next]_vars => TypeOK'
  <2> SUFFICES ASSUME TypeOK, [Next]_vars PROVE TypeOK'
    OBVIOUS
  <2>1. ASSUME NEW p \in Pid, NEW kind \in {"idle", "foreign", "alien"}, Spawn(p, kind)
        PROVE TypeOK'
    BY <2>1 DEF Spawn
  <2>2. ASSUME NEW p \in Pid, Die(p) PROVE TypeOK'
    <3>1. ahead' \in [Pid -> SUBSET Pid]
      BY <2>2 DEF Die, Forget
    <3>2. polls' \in [Pid -> 0 .. HintEvery] /\ pc' \in [Pid -> PcValues]
      BY <2>2 DEF Die, Gone
    <3>3. seen' \in [Pid -> SUBSET Ticket]
      BY <2>2 DEF Die, Gone
    <3> QED
      BY <2>2, <3>1, <3>2, <3>3 DEF Die, Gone
  <2>3. ASSUME NEW p \in Pid, Signal(p) \/ Exit(p) PROVE TypeOK'
    <3>1. CASE Signal(p)
      BY <3>1 DEF Signal
    <3>2. CASE Exit(p)
      BY <3>2 DEF Exit, Gone
    <3> QED
      BY <2>3, <3>1, <3>2
  <2>4. ASSUME NEW p \in Pid, Draw(p) PROVE TypeOK'
    BY <2>4 DEF Draw, Waiting
  <2>5. ASSUME NEW p \in Pid, Publish(p) PROVE TypeOK'
    BY <2>5 DEF Publish, TicketOf, ProcessStart
  <2>6. ASSUME NEW p \in Pid, List(p) PROVE TypeOK'
    BY <2>6 DEF List
  <2>7. ASSUME NEW p \in Pid, LoopEnds(p) PROVE TypeOK'
    BY <2>7 DEF LoopEnds, Forget
  <2>8. ASSUME NEW p \in Pid, Probe(p) PROVE TypeOK'
    BY <2>8 DEF Probe
  <2>9. ASSUME NEW p \in Pid, Flock(p) PROVE TypeOK'
    BY <2>9 DEF Flock, Forget
  <2>10. ASSUME NEW p \in Pid, FlockBusy(p) \/ Release(p) PROVE TypeOK'
    BY <2>10 DEF FlockBusy, Release
  <2>11. ASSUME NEW p \in Pid, Poll(p) PROVE TypeOK'
    <3>1. polls' \in [Pid -> 0 .. HintEvery]
      BY <2>11 DEF Poll
    <3>2. pc' \in [Pid -> PcValues] /\ hint' \in BOOLEAN
      BY <2>11 DEF Poll
    <3> QED
      BY <2>11, <3>1, <3>2 DEF Poll
  <2>12. ASSUME NEW p \in Pid, Acquired(p) PROVE TypeOK'
    BY <2>12 DEF Acquired
  <2>13. ASSUME NEW p \in Pid, GiveUp(p) PROVE TypeOK'
    BY <2>13 DEF GiveUp, Gone
  <2>14. CASE WarmerReadsHint
    BY <2>14 DEF WarmerReadsHint
  <2>15. CASE UNCHANGED vars
    BY <2>15 DEF vars
  <2> QED
    BY <2>1, <2>2, <2>3, <2>4, <2>5, <2>6, <2>7, <2>8, <2>9, <2>10, <2>11,
       <2>12, <2>13, <2>14, <2>15 DEF Next, Step, Environment
<1> QED
  BY <1>1, <1>2, PTL DEF Spec

(* The tickets of living waiters stay, the flock's owner is the process    *)
(* that believes to own it, and nobody who is still ahead of p is missing  *)
(* from the listing p decides on.                                          *)
THEOREM GateInvariant == Spec => [](TypeOK /\ GateInv)
<1> USE ConstantsOK DEF GateInv, HasFile, InLoop, Holding
<1>1. Init => GateInv
  BY DEF Init
<1>2. TypeOK /\ TypeOK' /\ GateInv /\ [Next]_vars => GateInv'
  <2> SUFFICES ASSUME TypeOK, TypeOK', GateInv, [Next]_vars PROVE GateInv'
    OBVIOUS
  <2> USE DEF TypeOK
  <2>1. ASSUME NEW p \in Pid, NEW kind \in {"idle", "foreign", "alien"}, Spawn(p, kind)
        PROVE GateInv'
    BY <2>1 DEF Spawn, TicketOf, ProcessStart
  <2>2. ASSUME NEW p \in Pid, Die(p) PROVE GateInv'
    BY <2>2 DEF Die, Gone, Forget, TicketOf, ProcessStart
  <2>3. ASSUME NEW p \in Pid, Signal(p) \/ Exit(p) PROVE GateInv'
    <3>1. CASE Signal(p)
      BY <3>1 DEF Signal, TicketOf, ProcessStart
    <3>2. CASE Exit(p)
      <4>1. pc' = [pc EXCEPT ![p] = "none"] /\ pc[p] = "idle"
        BY <3>2 DEF Exit, Gone
      <4>2. \A q \in Pid : q # p => TicketOf(q)' = TicketOf(q)
        BY <3>2 DEF Exit, Gone, TicketOf, ProcessStart
      <4>3. \A q \in Pid : stamp'[q] < clock'
        BY <3>2 DEF Exit, Gone
      <4>4. \A q, r \in Pid : q \in ahead[r] => q # p /\ r # p
        BY <4>1
      <4>5. \A r \in Pid : \A q \in ahead'[r] :
               /\ r # q
               /\ pc'[q] \in InLoop
               /\ pc'[r] \in {"drawn", "loop", "probe", "wait"}
               /\ stamp'[q] < stamp'[r]
               /\ pc'[r] = "probe" => TicketOf(q)' \in seen'[r]
        BY <3>2, <4>1, <4>2, <4>4 DEF Exit, Gone
      <4>6. \A q \in Pid : pc'[q] \in HasFile => TicketOf(q)' \in tickets'
        BY <3>2, <4>1, <4>2 DEF Exit
      <4>7. \A q \in Pid : pc'[q] \in Holding <=> lock' = q
        BY <3>2, <4>1 DEF Exit
      <4> HIDE DEF TypeOK
      <4> QED
        BY <4>3, <4>5, <4>6, <4>7
    <3> QED
      BY <2>3, <3>1, <3>2
  <2>4. ASSUME NEW p \in Pid, Draw(p) PROVE GateInv'
    <3>1. \A q \in Pid : pc'[q] \in HasFile => pc[q] \in HasFile /\ q # p
      BY <2>4 DEF Draw
    <3>2. \A q \in Pid : q # p => TicketOf(q)' = TicketOf(q)
      BY <2>4 DEF Draw, TicketOf, ProcessStart
    <3>3. \A q \in Pid : pc'[q] \in HasFile => TicketOf(q)' \in tickets'
      BY <2>4, <3>1, <3>2 DEF Draw
    <3>4. \A q \in Pid : stamp'[q] < clock' /\ (pc'[q] \in Holding <=> lock' = q)
      BY <2>4 DEF Draw
    <3>5. \A q \in ahead'[p] : p # q /\ pc'[q] \in InLoop /\ stamp'[q] < stamp'[p]
      BY <2>4 DEF Draw, Waiting
    <3>6. \A r \in Pid : r # p => \A q \in ahead'[r] : q # p /\ q \in ahead[r]
      BY <2>4 DEF Draw
    <3>7. \A r \in Pid : r # p => \A q \in ahead'[r] :
             /\ r # q
             /\ pc'[q] \in InLoop
             /\ pc'[r] \in {"drawn", "loop", "probe", "wait"}
             /\ stamp'[q] < stamp'[r]
             /\ pc'[r] = "probe" => TicketOf(q)' \in seen'[r]
      BY <2>4, <3>2, <3>6 DEF Draw
    <3>8. pc'[p] = "drawn"
      BY <2>4 DEF Draw
    <3> HIDE DEF TypeOK
    <3> QED
      BY <3>3, <3>4, <3>5, <3>7, <3>8
  <2>5. ASSUME NEW p \in Pid, Publish(p) PROVE GateInv'
    BY <2>5 DEF Publish, TicketOf, ProcessStart
  <2>6. ASSUME NEW p \in Pid, List(p) PROVE GateInv'
    BY <2>6 DEF List, TicketOf, ProcessStart
  <2>7. ASSUME NEW p \in Pid, LoopEnds(p) PROVE GateInv'
    BY <2>7 DEF LoopEnds, Forget, TicketOf, ProcessStart
  <2>8. ASSUME NEW p \in Pid, Probe(p) PROVE GateInv'
    BY <2>8 DEF Probe, TicketOf, ProcessStart, Stale, Alive, AtHead
  <2>9. ASSUME NEW p \in Pid, Flock(p) PROVE GateInv'
    BY <2>9 DEF Flock, Forget, TicketOf, ProcessStart
  <2>10. ASSUME NEW p \in Pid, FlockBusy(p) \/ Release(p) PROVE GateInv'
    BY <2>10 DEF FlockBusy, Release, TicketOf, ProcessStart
  <2>11. ASSUME NEW p \in Pid, Poll(p) PROVE GateInv'
    BY <2>11 DEF Poll, TicketOf, ProcessStart
  <2>12. ASSUME NEW p \in Pid, Acquired(p) PROVE GateInv'
    BY <2>12 DEF Acquired, TicketOf, ProcessStart
  <2>13. ASSUME NEW p \in Pid, GiveUp(p) PROVE GateInv'
    BY <2>13 DEF GiveUp, Gone, TicketOf, ProcessStart
  <2>14. CASE WarmerReadsHint
    BY <2>14 DEF WarmerReadsHint, TicketOf, ProcessStart
  <2>15. CASE UNCHANGED vars
    BY <2>15 DEF vars, TicketOf, ProcessStart
  <2> QED
    BY <2>1, <2>2, <2>3, <2>4, <2>5, <2>6, <2>7, <2>8, <2>9, <2>10, <2>11,
       <2>12, <2>13, <2>14, <2>15 DEF Next, Step, Environment
<1> QED
  BY <1>1, <1>2, GateTypeOK, PTL DEF Spec

(* Nobody but its owner removes the ticket of a waiting process.           *)
THEOREM GateLiveTicketKept == Spec => []LiveTicketKept
<1>1. GateInv => LiveTicketKept
  BY DEF GateInv, LiveTicketKept, Waiting, HasFile
<1> QED
  BY <1>1, GateInvariant, PTL

(* The gate implements the arbiter: one holder, arrival order.             *)
THEOREM GateRefinesArbiter == Spec => ArbiterSpec
<1> USE ConstantsOK DEF standing, InLoop, Holding
<1>1. Init => Arbiter!Init
  BY DEF Init, Arbiter!Init
<1>2. TypeOK /\ TypeOK' /\ GateInv /\ [Next]_vars => [Arbiter!Next]_(Arbiter!vars)
  <2> SUFFICES ASSUME TypeOK, TypeOK', GateInv, [Next]_vars
               PROVE  [Arbiter!Next]_(Arbiter!vars)
    OBVIOUS
  <2> USE DEF TypeOK, GateInv
  <2>1. ASSUME NEW p \in Pid, NEW kind \in {"idle", "foreign", "alien"}, Spawn(p, kind)
        PROVE UNCHANGED Arbiter!vars
    BY <2>1 DEF Spawn, Arbiter!vars
  <2>2. ASSUME NEW p \in Pid, Die(p)
        PROVE UNCHANGED Arbiter!vars \/ Arbiter!Leave(p)
    <3>1. ahead' = [q \in Pid |-> IF q = p THEN {} ELSE ahead[q] \ {p}]
      BY <2>2 DEF Die, Forget
    <3>2. standing' = [standing EXCEPT ![p] = "out"]
      BY <2>2 DEF Die, Gone
    <3>3. CASE standing[p] = "out"
      <4>1. ahead' = ahead
        BY <3>1, <3>3
      <4>2. standing' = standing
        BY <2>2, <3>3 DEF Die, Gone
      <4> QED
        BY <4>1, <4>2 DEF Arbiter!vars
    <3>4. CASE standing[p] # "out"
      <4> HIDE DEF standing, TypeOK, GateInv
      <4> QED
        BY <3>1, <3>2, <3>4 DEF Arbiter!Leave, Arbiter!Forget
    <3> QED
      BY <3>3, <3>4
  <2>3. ASSUME NEW p \in Pid, Signal(p) \/ Exit(p) PROVE UNCHANGED Arbiter!vars
    BY <2>3 DEF Signal, Exit, Gone, Arbiter!vars
  <2>4. ASSUME NEW p \in Pid, Draw(p) PROVE Arbiter!Arrive(p)
    <3>1. standing[p] = "out" /\ standing' = [standing EXCEPT ![p] = "coming"]
      BY <2>4 DEF Draw
    <3>2. Waiting = {q \in Pid : standing[q] = "queued"}
      BY DEF Waiting
    <3>3. ahead' = [ahead EXCEPT ![p] = Waiting]
      BY <2>4 DEF Draw
    <3> HIDE DEF standing, TypeOK, GateInv
    <3> QED
      BY <3>1, <3>2, <3>3 DEF Arbiter!Arrive, Arbiter!Queued
  <2>5. ASSUME NEW p \in Pid, Publish(p) PROVE Arbiter!Enqueue(p)
    BY <2>5 DEF Publish, Arbiter!Enqueue
  <2>6. ASSUME NEW p \in Pid, List(p) PROVE UNCHANGED Arbiter!vars
    BY <2>6 DEF List, Arbiter!vars
  <2>7. ASSUME NEW p \in Pid, LoopEnds(p) PROVE Arbiter!Leave(p)
    BY <2>7 DEF LoopEnds, Forget, Arbiter!Leave, Arbiter!Forget
  <2>8. ASSUME NEW p \in Pid, Probe(p) PROVE UNCHANGED Arbiter!vars
    BY <2>8 DEF Probe, Arbiter!vars
  <2>9. ASSUME NEW p \in Pid, Flock(p) PROVE Arbiter!Grant(p)
    <3>1. standing[p] = "queued" /\ standing' = [standing EXCEPT ![p] = "holding"]
      BY <2>9 DEF Flock
    <3>2. {q \in Pid : standing[q] = "holding"} = {}
      BY <2>9 DEF Flock
    <3>3. ahead[p] = {}
      BY <2>9 DEF Flock
    <3>4. ahead' = [q \in Pid |-> IF q = p THEN {} ELSE ahead[q] \ {p}]
      BY <2>9 DEF Flock, Forget
    <3> HIDE DEF standing, TypeOK, GateInv
    <3> QED
      BY <3>1, <3>2, <3>3, <3>4 DEF Arbiter!Grant, Arbiter!Forget, Arbiter!Holders
  <2>10. ASSUME NEW p \in Pid, FlockBusy(p) PROVE UNCHANGED Arbiter!vars
    BY <2>10 DEF FlockBusy, Arbiter!vars
  <2>11. ASSUME NEW p \in Pid, Release(p) PROVE Arbiter!Leave(p)
    <3>1. standing[p] # "out" /\ standing' = [standing EXCEPT ![p] = "out"]
      BY <2>11 DEF Release
    <3>2. ahead' = [q \in Pid |-> IF q = p THEN {} ELSE ahead[q] \ {p}]
      <4>1. \A q \in Pid : ahead[q] \ {p} = ahead[q]
        BY <2>11 DEF Release
      <4>2. ahead[p] = {} /\ ahead' = ahead
        BY <2>11 DEF Release
      <4> QED
        BY <4>1, <4>2
    <3> HIDE DEF standing, TypeOK, GateInv
    <3> QED
      BY <3>1, <3>2 DEF Arbiter!Leave, Arbiter!Forget
  <2>12. ASSUME NEW p \in Pid, Poll(p) \/ Acquired(p) PROVE UNCHANGED Arbiter!vars
    BY <2>12 DEF Poll, Acquired, Arbiter!vars
  <2>13. ASSUME NEW p \in Pid, GiveUp(p) PROVE UNCHANGED Arbiter!vars
    BY <2>13 DEF GiveUp, Gone, Arbiter!vars
  <2>14. CASE WarmerReadsHint
    BY <2>14 DEF WarmerReadsHint, Arbiter!vars
  <2>15. CASE UNCHANGED vars
    BY <2>15 DEF vars, Arbiter!vars
  <2> QED
    BY <2>1, <2>2, <2>3, <2>4, <2>5, <2>6, <2>7, <2>8, <2>9, <2>10, <2>11,
       <2>12, <2>13, <2>14, <2>15 DEF Next, Step, Environment, Arbiter!Next
<1> QED
  BY <1>1, <1>2, GateInvariant, PTL DEF Spec, ArbiterSpec, Arbiter!Spec
=============================================================================
