-------------------------- MODULE BusAndLinkProofs --------------------------
(***************************************************************************)
(* The bus of the target, and the interface that turns the packets of the  *)
(* host link into accesses of it.                                          *)
(***************************************************************************)
EXTENDS RegisteredBus, HostBusInterface, FiniteSetTheorems, TLAPS

(***************************************************************************)
(* For any number of masters and slaves: no access on the registered bus   *)
(* is lost, repeated or answered to the wrong master.                      *)
(***************************************************************************)

\* The arbiters choose one of the candidates: a nonempty set S of numbers has a
\* least one, because the intervals 0 .. i for i in S have a smallest one.
LEMMA LowestIn ==
  ASSUME NEW S, S \subseteq Nat, S # {}
  PROVE  Lowest(S) \in S
<1> DEFINE T == {0 .. i : i \in S}
<1>1. \A i \in Nat : 0 .. i \in FiniteSubsetsOf(Nat)
  BY FS_Interval DEF FiniteSubsetsOf
<1>2. T \subseteq FiniteSubsetsOf(Nat) /\ T # {}
  BY <1>1
<1>3. PICK u \in T : \A v \in T : ~ (<<v, u>> \in StrictSubsetOrdering(Nat))
  BY <1>2, FS_StrictSubsetOrderingWellFounded, WFMin
<1>4. PICK x \in S : u = 0 .. x
  BY <1>3
<1>5. ASSUME NEW y \in S, y < x
      PROVE  FALSE
  <2>1. 0 .. y \subseteq 0 .. x /\ 0 .. y # 0 .. x
    BY <1>5
  <2>2. <<0 .. y, 0 .. x>> \in StrictSubsetOrdering(Nat)
    BY <2>1 DEF StrictSubsetOrdering
  <2> QED BY <1>3, <1>4, <2>2
<1>6. \A y \in S : x <= y
  BY <1>5
<1> QED BY <1>6 DEF Lowest

\* What the events of an edge presuppose: when the slave takes a request the bus
\* holds that request and its decode, an unmapped access is one, and a response
\* taken from a slave is owed to a master.
LEMMA Events ==
  ASSUME BusInv
  PROVE  /\ Issue.valid => Issue.slave = pending.target
         /\ areq # NoSlave => /\ areq \in Slave /\ pending.valid
                              /\ pending.target = areq /\ owner[areq] = NoMaster
         /\ UnmappedAccept => pending.valid /\ pending.target = NoSlave /\ ~resp.valid
         /\ SlaveRespAccept => /\ rsel \in Slave /\ owner[rsel] \in Master
                               /\ ~resp.valid /\ ~UnmappedAccept
         /\ MasterReqAccept => selected \in Master /\ ~pending.valid
<1> USE DEF BusInv, BusTypeOK
<1>1. Issue.valid => Issue.slave = pending.target
  BY DEF Issue, DecodeLoad, StagesAgree
<1>2. areq # NoSlave => /\ areq \in Slave /\ pending.valid
                       /\ pending.target = areq /\ owner[areq] = NoMaster
  BY DEF StagesAgree
<1>3. UnmappedAccept => pending.valid /\ pending.target = NoSlave /\ ~resp.valid
  BY <1>1 DEF UnmappedAccept
<1>4. SlaveRespAccept => /\ rsel \in Slave /\ owner[rsel] \in Master
                        /\ ~resp.valid /\ ~UnmappedAccept
  BY DEF SlaveRespAccept, StagesAgree
<1>5. MasterReqAccept => selected \in Master /\ ~pending.valid
  BY DEF MasterReqAccept, Requesting
<1> QED BY <1>1, <1>2, <1>3, <1>4, <1>5

\* What an edge does to a master: it starts an access, is granted the pending
\* register, has its access taken by the slave, receives its response, or nothing.
MasterCases(in, m) ==
  \/ /\ master[m].st = "idle"
     /\ \E t \in Slave \cup {NoSlave} :
          master'[m] = [st |-> "request", target |-> t, done |-> 0]
  \/ /\ MasterReqAccept /\ m = selected /\ master[m].st = "request"
     /\ master'[m] = [st |-> "wait", target |-> master[m].target, done |-> 0]
  \/ /\ SlaveReqAccept(in.ready) /\ m = pending.master
     /\ master[m] = [st |-> "wait", target |-> areq, done |-> 0]
     /\ master'[m] = [st |-> "wait", target |-> areq, done |-> 1]
  \/ /\ resp.valid /\ in.taken /\ m = resp.master /\ master'[m] = Idle
     /\ ~(SlaveReqAccept(in.ready) /\ m = pending.master)
  \/ /\ master'[m] = master[m]
     /\ ~(MasterReqAccept /\ m = selected)
     /\ ~(SlaveReqAccept(in.ready) /\ m = pending.master)
     /\ ~(resp.valid /\ in.taken /\ m = resp.master)

LEMMA MasterStep ==
  ASSUME BusInv, NEW in \in Inputs, BusEdge(in), NEW m \in Master
  PROVE  MasterCases(in, m)
<1> USE BusAssumption, Events DEF MasterCases
<1>0. master[m] \in [st : {"idle", "request", "wait"}, target : Slave \cup {NoSlave}, done : 0 .. 1]
  BY DEF BusInv, BusTypeOK
<1>1. CASE in.start[m] # NoMaster
  <2>1. master[m].st = "idle" /\ in.start[m] \in 0 .. NUM_SLAVES
    BY <1>1 DEF Inputs, Starts
  <2>2. in.start[m] - 1 \in Slave \cup {NoSlave}
    BY <2>1 DEF Slave, NoSlave
  <2>3. master'[m] = [st |-> "request", target |-> in.start[m] - 1, done |-> 0]
    BY <1>1 DEF BusEdge, MasterNext
  <2> QED BY <2>1, <2>2, <2>3
<1>2. CASE in.start[m] = NoMaster /\ MasterReqAccept /\ m = selected
  <2>1. master[m].st = "request" /\ master[m].done = 0
    BY <1>2 DEF BusInv, StagesAgree, MasterReqAccept, Requesting
  <2>2. master'[m] = [master[m] EXCEPT !.st = "wait"]
    BY <1>2 DEF BusEdge, MasterNext
  <2>3. master'[m] = [st |-> "wait", target |-> master[m].target, done |-> 0]
    BY <2>1, <2>2, <1>0
  <2> QED BY <1>2, <2>1, <2>3
<1>3. CASE /\ in.start[m] = NoMaster /\ ~(MasterReqAccept /\ m = selected)
           /\ SlaveReqAccept(in.ready) /\ m = pending.master
  <2>1. master[m] = [st |-> "wait", target |-> areq, done |-> 0]
    BY <1>3 DEF BusInv, StagesAgree, SlaveReqAccept
  <2>2. master'[m] = [master[m] EXCEPT !.done = @ + 1]
    BY <1>3 DEF BusEdge, MasterNext
  <2>3. master'[m] = [st |-> "wait", target |-> areq, done |-> 1]
    BY <2>1, <2>2, <1>0
  <2> QED BY <1>3, <2>1, <2>3
<1>4. CASE /\ in.start[m] = NoMaster /\ ~(MasterReqAccept /\ m = selected)
           /\ ~(SlaveReqAccept(in.ready) /\ m = pending.master)
  <2>1. master'[m] = IF resp.valid /\ in.taken /\ m = resp.master THEN Idle ELSE master[m]
    BY <1>4 DEF BusEdge, MasterNext
  <2> QED BY <1>4, <2>1
<1> QED BY <1>1, <1>2, <1>3, <1>4

\* What an edge does to a slave: it takes the request, answers, has its answer
\* taken, or nothing; the bus remembers whose access it is working on.
SlaveCases(in, s) ==
  \/ /\ SlaveReqAccept(in.ready) /\ s = areq
     /\ owner[s] = NoMaster /\ owner'[s] = pending.master
     /\ slave'[s] = [st |-> "busy", data |-> pending.master]
  \/ /\ SlaveRespAccept /\ s = rsel
     /\ owner'[s] = NoMaster /\ slave'[s] = Free
     /\ ~(SlaveReqAccept(in.ready) /\ s = areq)
  \/ /\ owner'[s] = owner[s] /\ owner[s] # NoMaster
     /\ slave'[s] = [st |-> "answer", data |-> slave[s].data]
     /\ ~(SlaveReqAccept(in.ready) /\ s = areq)
     /\ ~(SlaveRespAccept /\ s = rsel)
  \/ /\ owner'[s] = owner[s] /\ slave'[s] = slave[s]
     /\ ~(SlaveReqAccept(in.ready) /\ s = areq)
     /\ ~(SlaveRespAccept /\ s = rsel)

LEMMA SlaveStep ==
  ASSUME BusInv, NEW in \in Inputs, BusEdge(in), NEW s \in Slave
  PROVE  SlaveCases(in, s)
<1> USE BusAssumption, Events DEF SlaveCases
<1>0. /\ slave[s] \in [st : {"idle", "busy", "answer"}, data : Master \cup {NoMaster}]
      /\ s \in in.answered => slave[s].st = "busy" /\ owner[s] # NoMaster
  BY DEF BusInv, BusTypeOK, OwnerAgrees, Inputs
<1>1. CASE SlaveReqAccept(in.ready) /\ s = areq
  <2>1. owner[s] = NoMaster
    BY <1>1 DEF SlaveReqAccept
  <2>2. owner'[s] = pending.master /\ slave'[s] = [st |-> "busy", data |-> pending.master]
    BY <1>1 DEF BusEdge, OwnerNext, SlaveNext
  <2> QED BY <1>1, <2>1, <2>2
<1>2. CASE SlaveRespAccept /\ s = rsel /\ ~(SlaveReqAccept(in.ready) /\ s = areq)
  <2>1. s \notin in.answered
    BY <1>0, <1>2 DEF SlaveRespAccept
  <2> QED BY <1>2, <2>1 DEF BusEdge, OwnerNext, SlaveNext
<1>3. CASE ~(SlaveRespAccept /\ s = rsel) /\ ~(SlaveReqAccept(in.ready) /\ s = areq)
  <2>1. owner'[s] = owner[s]
    BY <1>3 DEF BusEdge, OwnerNext
  <2>2. slave'[s] = IF s \in in.answered THEN [slave[s] EXCEPT !.st = "answer"] ELSE slave[s]
    BY <1>3 DEF BusEdge, SlaveNext
  <2>3. [slave[s] EXCEPT !.st = "answer"] = [st |-> "answer", data |-> slave[s].data]
    BY <1>0
  <2> QED BY <1>0, <1>3, <2>1, <2>2, <2>3
<1> QED BY <1>1, <1>2, <1>3

\* Every register keeps its type; in particular no slave executes an access twice
\* (done stays below 2).
LEMMA TypeStep ==
  ASSUME BusInv, NEW in \in Inputs, BusEdge(in)
  PROVE  BusTypeOK'
<1>8. ASSUME NEW m \in Master
      PROVE  master'[m] \in [st : {"idle", "request", "wait"},
                             target : Slave \cup {NoSlave}, done : 0 .. 1]
  <2>1. /\ master[m] \in [st : {"idle", "request", "wait"},
                           target : Slave \cup {NoSlave}, done : 0 .. 1]
        /\ areq \in Slave \cup {NoSlave}
    BY DEF BusInv, BusTypeOK
  <2>2. Idle \in [st : {"idle", "request", "wait"},
                  target : Slave \cup {NoSlave}, done : 0 .. 1]
    BY DEF Idle
  <2>3. MasterCases(in, m)
    BY MasterStep
  <2>4. CASE \E t \in Slave \cup {NoSlave} :
               master'[m] = [st |-> "request", target |-> t, done |-> 0]
    BY <2>4
  <2>5. CASE master'[m] = Idle \/ master'[m] = master[m]
    BY <2>1, <2>2, <2>5
  <2>6. CASE \E n \in 0 .. 1 :
               master'[m] = [st |-> "wait", target |-> areq, done |-> n]
    BY <2>1, <2>6
  <2>7. CASE master'[m] = [st |-> "wait", target |-> master[m].target, done |-> 0]
    BY <2>1, <2>7
  <2> QED BY <2>3, <2>4, <2>5, <2>6, <2>7 DEF MasterCases
<1>9. ASSUME NEW s \in Slave
      PROVE  slave'[s] \in [st : {"idle", "busy", "answer"}, data : Master \cup {NoMaster}]
  <2>1. /\ slave[s] \in [st : {"idle", "busy", "answer"}, data : Master \cup {NoMaster}]
        /\ pending.master \in Master \cup {NoMaster}
    BY DEF BusInv, BusTypeOK
  <2>2. Free \in [st : {"idle", "busy", "answer"}, data : Master \cup {NoMaster}]
    BY DEF Free
  <2>3. SlaveCases(in, s)
    BY SlaveStep
  <2> QED BY <2>1, <2>2, <2>3 DEF SlaveCases
<1> USE BusAssumption, Events DEF BusInv, BusEdge
<1> USE DEF Master, Slave, NoMaster, NoSlave
<1>1. selected' \in Master \cup {NoMaster}
  <2>1. Requesting \subseteq Nat /\ Requesting \subseteq Master
    BY DEF Requesting
  <2> QED BY <2>1, LowestIn DEF SelectedNext, MasterSelectLoad, BusTypeOK
<1>2. pending' \in [valid : BOOLEAN, master : Master \cup {NoMaster},
                    target : Slave \cup {NoSlave}]
  BY DEF PendingNext, BusTypeOK, NoRequest, MasterReqAccept
<1>3. decoded' \in [valid : BOOLEAN, slave : Slave \cup {NoSlave}]
  BY DEF DecodedNext, BusTypeOK, NoDecode
<1>4. areq' \in Slave \cup {NoSlave}
  BY DEF AreqNext, BusTypeOK, SlaveReqLoad
<1>5. owner' \in [Slave -> Master \cup {NoMaster}]
  BY DEF OwnerNext, BusTypeOK
<1>6. rsel' \in Slave \cup {NoSlave}
  <2>1. Responding \subseteq Nat /\ Responding \subseteq Slave
    BY DEF Responding
  <2> QED BY <2>1, LowestIn DEF RselNext, RespSelectLoad, BusTypeOK
<1>7. resp' \in [valid : BOOLEAN, master : Master \cup {NoMaster},
                 data : Master \cup {NoMaster}]
  BY DEF RespNext, BusTypeOK, NoResponse
<1>10. master' \in [Master -> [st : {"idle", "request", "wait"},
                               target : Slave \cup {NoSlave}, done : 0 .. 1]]
  BY <1>8 DEF MasterNext
<1>11. slave' \in [Slave -> [st : {"idle", "busy", "answer"},
                             data : Master \cup {NoMaster}]]
  BY <1>9 DEF SlaveNext
<1> QED BY <1>1, <1>2, <1>3, <1>4, <1>5, <1>6, <1>7, <1>10, <1>11 DEF BusTypeOK

\* The stages keep agreeing on the request they hold.
LEMMA StagesStep ==
  ASSUME BusInv, NEW in \in Inputs, BusEdge(in)
  PROVE  StagesAgree'
<1>0. ASSUME NEW m \in Master, master'[m].st = "request"
      PROVE  master'[m].done = 0
  <2>1. /\ Idle.st = "idle"
        /\ master[m].st = "request" => master[m].done = 0
    BY DEF Idle, BusInv, StagesAgree
  <2>2. MasterCases(in, m)
    BY MasterStep
  <2>3. CASE \E t \in Slave \cup {NoSlave} :
               master'[m] = [st |-> "request", target |-> t, done |-> 0]
    BY <2>3
  <2>4. CASE master'[m] = Idle \/ master'[m] = master[m]
    BY <1>0, <2>1, <2>4
  <2>5. CASE \E t \in Slave \cup {NoSlave}, n \in 0 .. 1 :
               master'[m] = [st |-> "wait", target |-> t, done |-> n]
    BY <1>0, <2>5
  <2>6. /\ areq \in Slave \cup {NoSlave}
        /\ master[m].target \in Slave \cup {NoSlave}
    BY DEF BusInv, BusTypeOK
  <2> QED BY <2>2, <2>3, <2>4, <2>5, <2>6 DEF MasterCases
<1>5. ASSUME NEW s \in Slave, owner[s] # NoMaster, slave[s].st = "answer",
             ~(SlaveRespAccept /\ s = rsel)
      PROVE  owner'[s] # NoMaster /\ slave'[s].st = "answer"
  <2>1. SlaveReqAccept(in.ready) => owner[areq] = NoMaster
    BY Events DEF SlaveReqAccept
  <2>2. SlaveCases(in, s)
    BY SlaveStep
  <2> QED BY <1>5, <2>1, <2>2 DEF SlaveCases
<1> USE BusAssumption, Events DEF BusInv, NoMaster, NoSlave
<1>1. ASSUME pending'.valid
      PROVE  /\ pending'.master \in Master
             /\ master'[pending'.master] =
                  [st |-> "wait", target |-> pending'.target, done |-> 0]
  <2>1. CASE MasterReqAccept
    <3>1. pending' = [valid |-> TRUE, master |-> selected, target |-> master[selected].target]
      BY <2>1 DEF BusEdge, PendingNext
    <3>2. selected \in Master /\ master[selected].st = "request" /\ ~pending.valid
      BY <2>1 DEF MasterReqAccept, Requesting
    <3>3. master'[selected] = [st |-> "wait", target |-> master[selected].target, done |-> 0]
      <4>1. MasterCases(in, selected)
        BY <3>2, MasterStep
      <4> QED BY <2>1, <3>2, <4>1 DEF MasterCases, SlaveReqAccept, ResponseRouted
    <3> QED BY <3>1, <3>2, <3>3
  <2>2. CASE ~MasterReqAccept
    <3>1. pending' = pending /\ ~SlaveReqAccept(in.ready) /\ pending.valid
      BY <1>1, <2>2 DEF BusEdge, PendingNext, NoRequest
    <3>2. /\ pending.master \in Master
          /\ master[pending.master] = [st |-> "wait", target |-> pending.target, done |-> 0]
      BY <3>1 DEF StagesAgree
    <3>3. ~(resp.valid /\ resp.master = pending.master)
      BY <3>1, <3>2 DEF OnePlace, InPending, InResp
    <3>4. master'[pending.master] = master[pending.master]
      <4>1. MasterCases(in, pending.master)
        BY <3>2, MasterStep
      <4> QED BY <2>2, <3>1, <3>2, <3>3, <4>1 DEF MasterCases
    <3> QED BY <3>1, <3>2, <3>4
  <2> QED BY <2>1, <2>2
<1>2. decoded'.valid => pending'.valid /\ decoded'.slave = pending'.target
  BY DEF BusEdge, PendingNext, DecodedNext, DecodeLoad, BusTypeOK, StagesAgree, NoDecode
<1>3. areq' # NoSlave => /\ decoded'.valid /\ areq' = pending'.target
                        /\ owner'[areq'] = NoMaster
  <2>1. CASE SlaveReqLoad
    <3>1. /\ areq = NoSlave /\ pending.valid /\ Issue.valid
          /\ pending.target # NoSlave /\ owner[pending.target] = NoMaster
          /\ areq' = pending.target
      BY <2>1 DEF SlaveReqLoad, BusEdge, AreqNext
    <3>2. ~MasterReqAccept /\ ~SlaveReqAccept(in.ready) /\ ~UnmappedAccept
      BY <3>1 DEF SlaveReqAccept
    <3>3. pending' = pending
      BY <3>2 DEF BusEdge, PendingNext
    <3>4. decoded'.valid
      BY <3>1, <3>2 DEF BusEdge, DecodedNext, Issue
    <3>5. pending.target \in Slave
      BY <3>1 DEF BusTypeOK
    <3>6. owner'[pending.target] = NoMaster
      BY <3>1, <3>2, <3>5 DEF BusEdge, OwnerNext
    <3>7. decoded'.slave = pending'.target
      BY <1>2, <3>4
    <3> QED BY <3>1, <3>3, <3>4, <3>6
  <2>2. CASE ~SlaveReqLoad /\ areq' # NoSlave
    <3>1. areq' = areq /\ areq # NoSlave /\ ~SlaveReqAccept(in.ready)
      BY <2>2 DEF BusEdge, AreqNext
    <3>2. /\ areq \in Slave /\ pending.valid /\ pending.target = areq
          /\ owner[areq] = NoMaster /\ decoded.valid
      BY <3>1 DEF StagesAgree
    <3>3. ~MasterReqAccept /\ ~UnmappedAccept
      BY <3>1, <3>2
    <3>4. pending' = pending /\ decoded' = decoded
      BY <3>1, <3>2, <3>3 DEF BusEdge, PendingNext, DecodedNext, DecodeLoad
    <3>5. owner'[areq] = NoMaster
      <4>1. SlaveCases(in, areq)
        BY <3>2, SlaveStep
      <4> QED BY <3>1, <3>2, <4>1 DEF SlaveCases
    <3> QED BY <3>1, <3>2, <3>4, <3>5
  <2> QED BY <2>1, <2>2
<1>4. ASSUME rsel' # NoSlave
      PROVE  owner'[rsel'] # NoMaster /\ slave'[rsel'].st = "answer"
  <2>1. Responding \subseteq Nat /\ Responding \subseteq Slave
    BY DEF Responding, Slave
  <2>2. CASE RespSelectLoad
    <3>1. rsel' \in Responding /\ rsel = NoSlave
      BY <2>1, <2>2, LowestIn DEF BusEdge, RselNext, RespSelectLoad
    <3>2. rsel' \in Slave /\ owner[rsel'] # NoMaster /\ slave[rsel'].st = "answer"
      BY <2>1, <3>1 DEF Responding
    <3>3. ~SlaveRespAccept
      BY <3>1 DEF SlaveRespAccept
    <3> QED BY <3>2, <3>3, <1>5
  <2>3. CASE ~RespSelectLoad
    <3>1. rsel' = rsel /\ ~SlaveRespAccept
      BY <1>4, <2>3 DEF BusEdge, RselNext
    <3>2. rsel \in Slave /\ owner[rsel] # NoMaster /\ slave[rsel].st = "answer"
      BY <1>4, <3>1 DEF StagesAgree, BusTypeOK
    <3> QED BY <3>1, <3>2, <1>5
  <2> QED BY <2>2, <2>3
<1> QED BY <1>0, <1>1, <1>2, <1>3, <1>4 DEF StagesAgree

\* A master keeps waiting while its access is in the pending register, with a
\* slave or in the response register, unless it takes the response.
LEMMA Undisturbed ==
  ASSUME BusInv, NEW in \in Inputs, BusEdge(in), NEW m \in Master
  PROVE  /\ InPending(m) /\ ~SlaveReqAccept(in.ready) => master'[m] = master[m]
         /\ InSlave(m) => master'[m] = master[m]
         /\ InResp(m) /\ ~in.taken => master'[m] = master[m]
         /\ master[m].st = "request" /\ ~(MasterReqAccept /\ m = selected)
              => master'[m] = master[m]
<1>1. MasterCases(in, m)
  BY MasterStep
<1>2. SlaveReqAccept(in.ready) => pending.valid
  BY Events DEF SlaveReqAccept
<1>3. /\ InPending(m) => master[m].st = "wait"
      /\ InSlave(m) => master[m].st = "wait"
      /\ InResp(m) => master[m].st = "wait"
      /\ resp.valid => master[resp.master].st = "wait"
  <2>1. InPending(m) => master[m].st = "wait"
    BY DEF BusInv, StagesAgree, InPending
  <2>2. ASSUME NEW s \in Slave, owner[s] = m
        PROVE  master[m].st = "wait"
    <3>1. m # NoMaster
      BY BusAssumption DEF Master, NoMaster
    <3>2. owner[s] # NoMaster => master[owner[s]] = [st |-> "wait", target |-> s, done |-> 1]
      BY DEF BusInv, OwnerAgrees
    <3> QED BY <2>2, <3>1, <3>2
  <2>3. InSlave(m) => master[m].st = "wait"
    BY <2>2 DEF InSlave
  <2>4. resp.valid => master[resp.master].st = "wait"
    BY DEF BusInv, ResponseRouted
  <2>5. InResp(m) => resp.valid /\ resp.master = m
    BY DEF InResp
  <2> QED BY <2>1, <2>3, <2>4, <2>5
<1>4. /\ ~(InPending(m) /\ InSlave(m))
      /\ ~(InPending(m) /\ InResp(m))
      /\ ~(InSlave(m) /\ InResp(m))
  BY DEF BusInv, OnePlace
<1> QED BY <1>1, <1>2, <1>3, <1>4 DEF MasterCases, InPending, InResp

\* The grant stays with a master that asks.
LEMMA GrantStep ==
  ASSUME BusInv, NEW in \in Inputs, BusEdge(in)
  PROVE  GrantLive'
<1> SUFFICES ASSUME selected' # NoMaster
             PROVE  selected' \in Master /\ master'[selected'].st = "request"
  BY DEF GrantLive, Requesting
<1>1. selected' \in Requesting /\ ~(MasterReqAccept /\ selected' = selected)
  <2>1. Requesting \subseteq Nat
    BY BusAssumption DEF Requesting, Master
  <2>2. CASE MasterSelectLoad
    BY <2>1, <2>2, LowestIn DEF BusEdge, SelectedNext, MasterSelectLoad, MasterReqAccept
  <2>3. CASE ~MasterSelectLoad
    BY <2>3 DEF BusEdge, SelectedNext, BusInv, GrantLive
  <2> QED BY <2>2, <2>3
<1> QED BY <1>1, Undisturbed DEF Requesting

\* What the bus remembers of a slave stays what the slave is doing.
LEMMA OwnerStep ==
  ASSUME BusInv, NEW in \in Inputs, BusEdge(in)
  PROVE  OwnerAgrees'
<1> SUFFICES ASSUME NEW s \in Slave
             PROVE  /\ owner'[s] = slave'[s].data
                    /\ (owner'[s] # NoMaster) = (slave'[s].st # "idle")
                    /\ owner'[s] # NoMaster =>
                         master'[owner'[s]] = [st |-> "wait", target |-> s, done |-> 1]
  BY DEF OwnerAgrees
<1>1. /\ owner[s] = slave[s].data
      /\ (owner[s] # NoMaster) = (slave[s].st # "idle")
      /\ owner[s] \in Master \cup {NoMaster}
  BY DEF BusInv, OwnerAgrees, BusTypeOK
<1>2. owner[s] # NoMaster =>
        master'[owner[s]] = [st |-> "wait", target |-> s, done |-> 1]
  <2> HAVE owner[s] # NoMaster
  <2>1. owner[s] \in Master /\ InSlave(owner[s])
    BY <1>1 DEF InSlave
  <2>2. master[owner[s]] = [st |-> "wait", target |-> s, done |-> 1]
    BY DEF BusInv, OwnerAgrees
  <2> QED BY <2>1, <2>2, Undisturbed
<1>3. SlaveReqAccept(in.ready) /\ s = areq =>
        /\ pending.master \in Master
        /\ master'[pending.master] = [st |-> "wait", target |-> s, done |-> 1]
  <2> HAVE SlaveReqAccept(in.ready) /\ s = areq
  <2>1. pending.valid /\ pending.target = s
    BY Events DEF SlaveReqAccept
  <2>2. pending.master \in Master /\ master[pending.master].st = "wait"
    BY <2>1 DEF BusInv, StagesAgree
  <2>3. MasterCases(in, pending.master)
    BY <2>2, MasterStep
  <2> QED BY <2>2, <2>3 DEF MasterCases
<1>4. NoMaster \notin Master
  BY DEF Master, NoMaster
<1>5. SlaveCases(in, s)
  BY SlaveStep
<1>6. CASE SlaveReqAccept(in.ready) /\ s = areq
  <2>1. owner'[s] = pending.master /\ slave'[s] = [st |-> "busy", data |-> pending.master]
    BY <1>5, <1>6 DEF SlaveCases
  <2> QED BY <1>3, <1>4, <1>6, <2>1
<1>7. CASE owner'[s] = NoMaster /\ slave'[s] = Free
  BY <1>7 DEF Free
<1>8. CASE /\ owner'[s] = owner[s] /\ owner[s] # NoMaster
           /\ slave'[s] = [st |-> "answer", data |-> slave[s].data]
  BY <1>1, <1>2, <1>8
<1>9. CASE owner'[s] = owner[s] /\ slave'[s] = slave[s]
  BY <1>1, <1>2, <1>9
<1> QED BY <1>5, <1>6, <1>7, <1>8, <1>9 DEF SlaveCases

\* A response reaches the master it is owed to, with its own word.
LEMMA ResponseStep ==
  ASSUME BusInv, NEW in \in Inputs, BusEdge(in)
  PROVE  ResponseRouted'
<1> SUFFICES ASSUME resp'.valid
             PROVE  LET m == resp'.master
                    IN  /\ m \in Master /\ master'[m].st = "wait"
                        /\ IF master'[m].target = NoSlave
                           THEN resp'.data = NoMaster /\ master'[m].done = 0
                           ELSE resp'.data = m /\ master'[m].done = 1
  BY DEF ResponseRouted
<1>1. CASE SlaveRespAccept
  <2>1. /\ resp' = [valid |-> TRUE, master |-> owner[rsel], data |-> slave[rsel].data]
        /\ rsel \in Slave /\ owner[rsel] \in Master /\ NoMaster \notin Master
        /\ NoSlave \notin Slave
    BY <1>1, Events DEF BusEdge, RespNext, Master, Slave, NoMaster, NoSlave
  <2>2. /\ slave[rsel].data = owner[rsel] /\ InSlave(owner[rsel])
        /\ master[owner[rsel]] = [st |-> "wait", target |-> rsel, done |-> 1]
    BY <2>1 DEF BusInv, OwnerAgrees, InSlave
  <2>3. master'[owner[rsel]] = master[owner[rsel]]
    BY <2>1, <2>2, Undisturbed
  <2> QED BY <2>1, <2>2, <2>3
<1>2. CASE UnmappedAccept /\ ~SlaveRespAccept
  <2>1. resp' = [valid |-> TRUE, master |-> pending.master, data |-> NoMaster]
    BY <1>2 DEF BusEdge, RespNext
  <2>2. pending.valid /\ pending.target = NoSlave /\ ~SlaveReqAccept(in.ready)
    BY <1>2, Events DEF SlaveReqAccept
  <2>3. /\ pending.master \in Master /\ InPending(pending.master)
        /\ master[pending.master] = [st |-> "wait", target |-> NoSlave, done |-> 0]
    BY <2>2 DEF BusInv, StagesAgree, InPending
  <2>4. master'[pending.master] = master[pending.master]
    BY <2>2, <2>3, Undisturbed
  <2> QED BY <2>1, <2>3, <2>4
<1>3. CASE ~UnmappedAccept /\ ~SlaveRespAccept
  <2>1. resp' = resp /\ resp.valid /\ ~in.taken
    BY <1>3 DEF BusEdge, RespNext, NoResponse, Inputs, BusChoice
  <2>2. /\ resp.master \in Master /\ InResp(resp.master)
        /\ master[resp.master].st = "wait"
        /\ IF master[resp.master].target = NoSlave
           THEN resp.data = NoMaster /\ master[resp.master].done = 0
           ELSE resp.data = resp.master /\ master[resp.master].done = 1
    BY <2>1 DEF BusInv, ResponseRouted, InResp
  <2>3. master'[resp.master] = master[resp.master]
    BY <2>1, <2>2, Undisturbed
  <2> QED BY <2>1, <2>2, <2>3
<1> QED BY <1>1, <1>2, <1>3

\* Where the access of a master is after an edge.
LEMMA Places ==
  ASSUME BusInv, NEW in \in Inputs, BusEdge(in), NEW m \in Master
  PROVE  /\ InPending(m)' <=> \/ MasterReqAccept /\ m = selected
                              \/ /\ InPending(m)
                                 /\ ~SlaveReqAccept(in.ready) /\ ~UnmappedAccept
         /\ InSlave(m)' <=> \/ SlaveReqAccept(in.ready) /\ m = pending.master
                            \/ InSlave(m) /\ ~(SlaveRespAccept /\ owner[rsel] = m)
         /\ InResp(m)' <=> \/ SlaveRespAccept /\ m = owner[rsel]
                           \/ UnmappedAccept /\ m = pending.master
                           \/ InResp(m) /\ ~in.taken
<1>1. InPending(m)' <=> \/ MasterReqAccept /\ m = selected
                        \/ /\ InPending(m)
                           /\ ~SlaveReqAccept(in.ready) /\ ~UnmappedAccept
  <2>1. CASE MasterReqAccept
    <3>1. pending'.valid /\ pending'.master = selected
      BY <2>1 DEF BusEdge, PendingNext
    <3> QED BY <2>1, <3>1, Events DEF InPending
  <2>2. CASE ~MasterReqAccept
    BY <2>2 DEF BusEdge, PendingNext, NoRequest, InPending
  <2> QED BY <2>1, <2>2
<1>2. InSlave(m)' <=> \/ SlaveReqAccept(in.ready) /\ m = pending.master
                      \/ InSlave(m) /\ ~(SlaveRespAccept /\ owner[rsel] = m)
  <2>1. ASSUME NEW s \in Slave
        PROVE  owner'[s] = m <=> \/ SlaveReqAccept(in.ready) /\ s = areq /\ m = pending.master
                                 \/ owner[s] = m /\ ~(SlaveRespAccept /\ s = rsel)
    <3>1. SlaveCases(in, s)
      BY SlaveStep
    <3>2. m # NoMaster
      BY DEF Master, NoMaster
    <3>3. SlaveReqAccept(in.ready) /\ s = areq => owner[s] = NoMaster
      BY Events DEF SlaveReqAccept
    <3> QED BY <3>1, <3>2, <3>3 DEF SlaveCases
  <2>2. SlaveReqAccept(in.ready) => areq \in Slave
    BY Events DEF SlaveReqAccept
  <2>3. SlaveRespAccept => rsel \in Slave
    BY Events
  <2>4. ASSUME NEW s \in Slave, NEW t \in Slave, owner[s] = m, owner[t] = m
        PROVE  s = t
    <3>1. m # NoMaster
      BY BusAssumption DEF Master, NoMaster
    <3>2. ASSUME NEW u \in Slave, owner[u] = m
          PROVE  master[m].target = u
      <4>1. owner[u] # NoMaster => master[owner[u]] = [st |-> "wait", target |-> u, done |-> 1]
        BY DEF BusInv, OwnerAgrees
      <4> QED BY <3>1, <3>2, <4>1
    <3> QED BY <2>4, <3>2
  <2>5. InSlave(m)' <=> \E s \in Slave : owner'[s] = m
    BY DEF InSlave
  <2>6. SlaveRespAccept /\ owner[rsel] = m =>
          \A s \in Slave : owner[s] = m => s = rsel
    BY <2>3, <2>4
  <2>7. CASE SlaveReqAccept(in.ready) /\ m = pending.master
    BY <2>1, <2>2, <2>5, <2>7
  <2>8. CASE ~(SlaveReqAccept(in.ready) /\ m = pending.master)
    <3>1. \A s \in Slave : owner'[s] = m <=> owner[s] = m /\ ~(SlaveRespAccept /\ s = rsel)
      BY <2>1, <2>8
    <3> QED BY <2>3, <2>5, <2>6, <2>8, <3>1 DEF InSlave
  <2> QED BY <2>7, <2>8
<1>3. InResp(m)' <=> \/ SlaveRespAccept /\ m = owner[rsel]
                     \/ UnmappedAccept /\ m = pending.master
                     \/ InResp(m) /\ ~in.taken
  <2>1. CASE SlaveRespAccept
    <3>1. resp'.valid /\ resp'.master = owner[rsel]
      BY <2>1 DEF BusEdge, RespNext
    <3> QED BY <2>1, <3>1, Events DEF InResp
  <2>2. CASE UnmappedAccept /\ ~SlaveRespAccept
    <3>1. resp'.valid /\ resp'.master = pending.master
      BY <2>2 DEF BusEdge, RespNext
    <3> QED BY <2>2, <3>1, Events DEF InResp
  <2>3. CASE ~UnmappedAccept /\ ~SlaveRespAccept
    BY <2>3 DEF BusEdge, RespNext, NoResponse, InResp
  <2> QED BY <2>1, <2>2, <2>3
<1> QED BY <1>1, <1>2, <1>3

\* No access is lost or doubled: it moves from place to place.
LEMMA OnePlaceStep ==
  ASSUME BusInv, NEW in \in Inputs, BusEdge(in)
  PROVE  OnePlace'
<1> SUFFICES ASSUME NEW m \in Master
             PROVE  /\ (master'[m].st = "wait") <=>
                          (InPending(m)' \/ InSlave(m)' \/ InResp(m)')
                    /\ ~(InPending(m)' /\ InSlave(m)')
                    /\ ~(InPending(m)' /\ InResp(m)')
                    /\ ~(InSlave(m)' /\ InResp(m)')
  BY DEF OnePlace, InPending, InSlave, InResp
<1>1. /\ (master[m].st = "wait") <=> (InPending(m) \/ InSlave(m) \/ InResp(m))
      /\ ~(InPending(m) /\ InSlave(m))
      /\ ~(InPending(m) /\ InResp(m))
      /\ ~(InSlave(m) /\ InResp(m))
  BY DEF BusInv, OnePlace
<1>2. /\ SlaveReqAccept(in.ready) => pending.valid /\ ~UnmappedAccept
      /\ UnmappedAccept => pending.valid /\ ~SlaveRespAccept
      /\ SlaveRespAccept => rsel \in Slave
      /\ MasterReqAccept => ~pending.valid
  BY Events DEF SlaveReqAccept, NoSlave, Slave
<1>3. /\ SlaveRespAccept /\ m = owner[rsel] => InSlave(m)
      /\ pending.valid /\ m = pending.master => InPending(m)
      /\ resp.valid /\ m = resp.master <=> InResp(m)
      /\ in.taken => resp.valid
  BY <1>2 DEF InSlave, InPending, InResp, Inputs, BusChoice
<1>4. InPending(m) => m = pending.master /\ pending.valid
  BY DEF InPending
<1>5. MasterCases(in, m)
  BY MasterStep
<1>6. Idle.st # "wait"
  BY DEF Idle
<1>7. /\ InPending(m)' <=> \/ MasterReqAccept /\ m = selected
                           \/ /\ InPending(m)
                              /\ ~SlaveReqAccept(in.ready) /\ ~UnmappedAccept
      /\ InSlave(m)' <=> \/ SlaveReqAccept(in.ready) /\ m = pending.master
                         \/ InSlave(m) /\ ~(SlaveRespAccept /\ owner[rsel] = m)
      /\ InResp(m)' <=> \/ SlaveRespAccept /\ m = owner[rsel]
                        \/ UnmappedAccept /\ m = pending.master
                        \/ InResp(m) /\ ~in.taken
  BY Places
<1>9. MasterReqAccept /\ m = selected => master[m].st = "request"
  BY DEF MasterReqAccept, Requesting
<1>8. (master'[m].st = "wait") <=>
        (\/ MasterReqAccept /\ m = selected
         \/ master[m].st = "wait" /\ ~(InResp(m) /\ in.taken))
  <2>1. master'[m] = [st |-> "wait", target |-> master[m].target, done |-> 0]
          => master'[m].st = "wait"
    OBVIOUS
  <2>2. \A n \in 0 .. 1 : master'[m] = [st |-> "wait", target |-> areq, done |-> n]
          => master'[m].st = "wait"
    OBVIOUS
  <2>3. (\E t \in Slave \cup {NoSlave} :
           master'[m] = [st |-> "request", target |-> t, done |-> 0])
          => master'[m].st = "request"
    OBVIOUS
  <2>4. master[m] = [st |-> "wait", target |-> areq, done |-> 0] => master[m].st = "wait"
    OBVIOUS
  <2> QED BY <1>1, <1>2, <1>3, <1>4, <1>5, <1>6, <1>9, <2>1, <2>2, <2>3, <2>4
          DEF MasterCases
<1> QED BY <1>1, <1>2, <1>3, <1>4, <1>7, <1>8, <1>9

\* What the bus is relied on for, for any number of masters and slaves: a response
\* goes to the master that waits for it and carries the word of its access, no
\* access is lost or served twice, and the grant cannot block the bus.
THEOREM BusSafe == BusSpec => []BusInv
<1>1. BusInit => BusInv
  BY BusAssumption
  DEF BusInit, BusInv, BusTypeOK, ResponseRouted, OwnerAgrees, StagesAgree, OnePlace,
      GrantLive, InPending, InSlave, InResp, NoRequest, NoDecode, NoResponse,
      Idle, Free, Master, Slave, NoMaster, NoSlave
<1>2. BusInv /\ [BusClock]_bus_vars => BusInv'
  <2>1. ASSUME BusInv, NEW in \in Inputs, BusEdge(in)
        PROVE  BusInv'
    BY <2>1, TypeStep, StagesStep, GrantStep, OwnerStep, ResponseStep, OnePlaceStep
    DEF BusInv
  <2>2. CASE UNCHANGED bus_vars
    BY <2>2 DEF BusInv, BusTypeOK, ResponseRouted, OwnerAgrees, StagesAgree, OnePlace,
                GrantLive, InPending, InSlave, InResp, Requesting, bus_vars
  <2> QED BY <2>1, <2>2 DEF BusClock
<1> QED BY <1>1, <1>2, PTL DEF BusSpec

\* The response routing that the run checks on its instance.
THEOREM BusResponseRouted == BusSpec => []ResponseRouted
<1>1. BusInv => ResponseRouted
  BY DEF BusInv
<1> QED BY <1>1, BusSafe, PTL

\* The uniqueness of every access that the run checks on its instance.
THEOREM BusOnePlace == BusSpec => []OnePlace
<1>1. BusInv => OnePlace
  BY DEF BusInv
<1> QED BY <1>1, BusSafe, PTL

(***************************************************************************)
(* Bursts of the host and accesses of the CPU share one transmitter and    *)
(* one receiver and do not disturb each other: for every address width,    *)
(* every length of burst, whatever words travel, and however the two       *)
(* directions interleave.                                                  *)
(***************************************************************************)

\* The parameters: sizes, words and requests that fit the registers.
Parameters == SizesAssumption /\ RequestAssumption

InWrite == {"WRITE_A", "WRITE_D", "WRITE_WAIT", "WRITE_RESP"}
InRead == {"READ_A", "READ_D", "READ_TX"}

\* curr is the address of access k, next that of the one after it.
Addressed(k) == /\ host.curr = BurstAddr(link.meta, k)
                /\ host.next = BurstAddr(link.meta, k + 1)

(***************************************************************************)
(* The engine: how far its counters are in the request of the host.        *)
(***************************************************************************)
Engine ==
  /\ bus <=> host.state \in {"WRITE_D", "READ_D"}
  /\ host.state # "IDLE" => /\ link.active /\ link.sending # "last"
                            /\ host.meta = link.meta
                            /\ link.meta.we <=> host.state \in InWrite
  /\ host.state \in {"WRITE_A", "WRITE_D", "WRITE_WAIT", "READ_A", "READ_D"} =>
       /\ link.done <= link.meta.len
       /\ host.beats = link.meta.len + 1 - link.done
       /\ Addressed(link.done)
  /\ host.state = "READ_TX" =>
       /\ link.done >= 1 /\ link.done <= link.meta.len + 1
       /\ host.beats = link.meta.len + 2 - link.done
       /\ Addressed(link.done - 1)
  /\ host.state = "WRITE_WAIT" => link.done >= 1
  /\ host.state = "WRITE_RESP" => link.done = link.meta.len + 1
  /\ host.state \in {"WRITE_A", "WRITE_D"} => host.wdata = link.wdata[link.done + 1]

\* What has come of the request: nothing before the engine takes it, then the
\* words read, as many as there were accesses, and the beats of the response.
Progressed ==
  /\ link.sending = "last" => link.active
  /\ link.active /\ link.sending # "last" /\ host.state = "IDLE" =>
       link.done = 0 /\ link.acked = 0 /\ link.rdata = << >>
  /\ host.state \in InWrite => link.acked = 0 /\ link.rdata = << >>
  /\ host.state \in InRead =>
       /\ Len(link.rdata) = link.done
       /\ link.acked = IF host.state = "READ_TX" THEN link.done - 1 ELSE link.done
       /\ host.first <=> link.acked = 0
  /\ link.active /\ link.meta.we => Len(link.wdata) = link.meta.len + 1

(***************************************************************************)
(* The transmitter: whose beat it sends and how many it expects.           *)
(***************************************************************************)
Transmits ==
  /\ tx.state = "SEND" <=> link.sending # "none"
  /\ link.sending \in {"last", "ask"} /\ tx.payload => tx.beats = 1
  /\ link.sending = "beat" =>
       host.state \in InRead /\ ~host.first /\ tx.payload /\ tx.beats = host.beats + 1
  /\ tx.state = "WAIT_BEAT" =>
       host.state \in InRead /\ ~host.first /\ tx.payload /\ tx.beats = host.beats
  /\ host.state \in InRead /\ ~host.first => link.sending = "beat" \/ tx.state = "WAIT_BEAT"

ReadBeat == [start |-> host.first, last |-> LastBeat, req |-> FALSE,
             meta |-> host.meta, data |-> link.rdata[link.done]]

\* The staged beat is the response that the engine waits to see off.
Staged ==
  /\ slice.valid => \/ host.state = "READ_TX" /\ slice.beat = ReadBeat
                    \/ host.state = "WRITE_RESP" /\ slice.beat = WriteResponse
  /\ host.state = "READ_TX" => slice.valid

(***************************************************************************)
(* The receiver: what is still to be taken from it is the rest of the      *)
(* host's request, with the answer to the CPU somewhere in it.             *)
(***************************************************************************)
Coming == IF rx.valid THEN <<rx.beat>> \o rx.coming ELSE rx.coming

\* Beat i of a request with metadata m and words w, and their number.
RequestBeat(m, w, i) == [start |-> i = 1, last |-> IF m.we THEN i = m.len + 1 ELSE TRUE, req |-> TRUE,
                         meta |-> m, data |-> IF m.we THEN w[i] ELSE 0]
BeatsOf(m) == IF m.we THEN m.len + 1 ELSE 1

\* How many of them the engine has taken.
Taken == CASE host.state = "IDLE" -> IF link.sending = "last" THEN BeatsOf(link.meta) ELSE 0
           [] host.state \in {"WRITE_A", "WRITE_D"} -> link.done + 1
           [] host.state = "WRITE_WAIT" -> link.done
           [] OTHER -> BeatsOf(link.meta)

Left == IF link.active THEN BeatsOf(link.meta) - Taken ELSE 0

\* s is what is left of a request after its first t beats, n in number, with an
\* answer x at a (nowhere if a is 0).
Mix(s, a, m, w, t, n, x) ==
  /\ a \in 0 .. Len(s)
  /\ Len(s) = IF a = 0 THEN n ELSE n + 1
  /\ \A i \in 1 .. Len(s) :
       IF i = a THEN ~s[i].req /\ s[i].data = x
       ELSE s[i] = RequestBeat(m, w, t + (IF a # 0 /\ a < i THEN i - 1 ELSE i))

\* The CPU waits for an answer that has been sent.
Answering == cpu.wait_resp /\ ~link.owed /\ link.sending # "ask"

Receives ==
  \E a \in 0 .. Len(Coming) :
    /\ Mix(Coming, a, link.meta, link.wdata, Taken, Left, link.answer)
    /\ a # 0 <=> Answering

(***************************************************************************)
(* The CPU's access is in one place.                                       *)
(***************************************************************************)
Asks ==
  /\ ~(cpu.req_pending /\ cpu.wait_resp)
  /\ ~(cpu.req_pending /\ cpu.resp_valid)
  /\ ~(cpu.wait_resp /\ cpu.resp_valid)
  /\ cpu.resp_valid => cpu.resp_data = link.answer
  /\ link.owed => cpu.wait_resp /\ link.sending # "ask"
  /\ link.sending = "ask" => cpu.wait_resp

IInv == TypeOK /\ Engine /\ Progressed /\ Transmits /\ Staged /\ Receives /\ Asks

(***************************************************************************)
(* Addresses                                                               *)
(***************************************************************************)
\* Steps of a counter modulo ADDR_MOD add up (next_addr of host_bus_interface.sv).
LEMMA ModAdd ==
  ASSUME NEW M \in Nat, M > 0, NEW x \in Nat, NEW s \in Nat
  PROVE  ((x % M) + s) % M = (x + s) % M
<1>1. PICK q \in Nat : q = x \div M
  OBVIOUS
<1>2. x = M * q + (x % M) /\ x % M \in 0 .. M - 1
  BY <1>1
<1>3. PICK r \in 0 .. M - 1 : r = x % M
  BY <1>2
<1>4. PICK y \in Nat : y = r + s
  BY <1>3
<1>5. x + s = M * q + y
  BY <1>2, <1>3, <1>4
<1>6. PICK p \in Nat : p = y \div M
  BY <1>4
<1>7. PICK z \in 0 .. M - 1 : z = y % M
  BY <1>4
<1>8. y = M * p + z
  BY <1>6, <1>7
<1>9. x + s = M * (q + p) + z
  BY <1>5, <1>8
<1>10. \A k \in Nat : (M * k + z) % M = z
  OBVIOUS
<1>11. PICK n \in Nat : n = q + p
  OBVIOUS
<1>12. x + s = M * n + z
  BY <1>9, <1>11
<1>13. (M * n + z) % M = z
  BY <1>10, <1>11
<1>14. (x + s) % M = z
  BY <1>12, <1>13, Zenon
<1>15. ((x % M) + s) = y
  BY <1>3, <1>4
<1> QED BY <1>7, <1>14, <1>15, Zenon

\* The address of a burst's next access, from the last one's.
AddrAfter(m, a) == IF AddrFixed(m) THEN a ELSE (a + Stride(m.size)) % ADDR_MOD

\* The increments of host_bus_interface.sv (389-433) reach the addresses of the burst.
LEMMA Addresses ==
  ASSUME Parameters, NEW m \in Meta
  PROVE  /\ BurstAddr(m, 0) = m.addr
         /\ \A k \in Nat : /\ BurstAddr(m, k) \in 0 .. ADDR_MOD - 1
                           /\ AddrAfter(m, BurstAddr(m, k)) = BurstAddr(m, k + 1)
<1>1. /\ ADDR_MOD \in Nat /\ ADDR_MOD > 0
      /\ m.addr \in 0 .. ADDR_MOD - 1
      /\ AddrFixed(m) \in BOOLEAN
  BY DEF Parameters, SizesAssumption, Meta, AddrFixed
<1>2. PICK st \in {1, 2, 4} : st = Stride(m.size)
  BY DEF Stride
<1>3. PICK M \in Nat : M = ADDR_MOD /\ M > 0
  BY <1>1
<1>4. PICK b \in 0 .. M - 1 : b = m.addr
  BY <1>1, <1>3
<1>5. \A k \in Nat : BurstAddr(m, k) = IF AddrFixed(m) THEN b ELSE (b + k * st) % M
  BY <1>2, <1>3, <1>4 DEF BurstAddr
<1>6. b % M = b
  BY <1>3, <1>4
<1>7. ASSUME NEW k \in Nat
      PROVE  /\ BurstAddr(m, k) \in 0 .. ADDR_MOD - 1
             /\ AddrAfter(m, BurstAddr(m, k)) = BurstAddr(m, k + 1)
  <2>1. PICK x \in Nat : x = b + k * st
    BY <1>2, <1>4
  <2>2. x + st = b + (k + 1) * st
    BY <1>2, <1>4, <2>1
  <2>3. x % M \in 0 .. M - 1
    BY <1>3, <2>1
  <2>4. ((x % M) + st) % M = (x + st) % M
    <3>1. M \in Nat /\ M > 0 /\ x \in Nat /\ st \in Nat
      BY <1>2, <1>3, <2>1
    <3> QED BY <3>1, ModAdd, Zenon
  <2>5. BurstAddr(m, k) = IF AddrFixed(m) THEN b ELSE x % M
    BY <1>5, <2>1, Zenon
  <2>6. k + 1 \in Nat
    OBVIOUS
  <2>7. BurstAddr(m, k + 1) = IF AddrFixed(m) THEN b ELSE (x + st) % M
    BY <1>5, <2>2, <2>6, Zenon
  <2>8. AddrAfter(m, BurstAddr(m, k)) = IF AddrFixed(m) THEN b ELSE ((x % M) + st) % M
    BY <1>2, <1>3, <2>5, Zenon DEF AddrAfter
  <2> QED BY <1>1, <1>3, <1>4, <2>3, <2>4, <2>5, <2>7, <2>8, Zenon
<1>8. BurstAddr(m, 0) = m.addr
  <2>1. PICK z \in Nat : z = 0
    OBVIOUS
  <2>2. b + z * st = b
    BY <1>2, <1>4, <2>1
  <2> QED BY <1>4, <1>5, <1>6, <2>1, <2>2, Zenon
<1> QED BY <1>7, <1>8

(***************************************************************************)
(* What waits at the receiver                                              *)
(***************************************************************************)
\* The request at the head is taken: the next beat of the burst.
LEMMA MixTake ==
  ASSUME Parameters, NEW s \in Seq(Beat), s # << >>, NEW a, NEW m, NEW w, NEW t \in Nat, NEW n \in Nat, NEW x,
         Mix(s, a, m, w, t, n, x), s[1].req
  PROVE  /\ a # 1 /\ n > 0 /\ s[1] = RequestBeat(m, w, t + 1)
         /\ Mix(Tail(s), IF a = 0 THEN 0 ELSE a - 1, m, w, t + 1, n - 1, x)
<1>1. Len(s) \in Nat /\ Len(s) >= 1 /\ a \in 0 .. Len(s) /\ Len(s) = IF a = 0 THEN n ELSE n + 1
  BY DEF Mix
<1>2. \A i \in 1 .. Len(s) :
       IF i = a THEN ~s[i].req /\ s[i].data = x
       ELSE s[i] = RequestBeat(m, w, t + (IF a # 0 /\ a < i THEN i - 1 ELSE i))
  BY DEF Mix
<1>3. a # 1 /\ n > 0
  BY <1>1, <1>2
<1>4. s[1] = RequestBeat(m, w, t + 1)
  BY <1>1, <1>2, <1>3
<1>5. Len(Tail(s)) = Len(s) - 1 /\ \A i \in 1 .. Len(s) - 1 : Tail(s)[i] = s[i + 1]
  BY <1>1
<1> DEFINE b == IF a = 0 THEN 0 ELSE a - 1
<1>6. b \in 0 .. Len(s) - 1 /\ Len(s) - 1 = IF b = 0 THEN n - 1 ELSE n - 1 + 1
  BY <1>1, <1>3
<1>7. ASSUME NEW i \in 1 .. Len(s) - 1
      PROVE  IF i = b THEN ~Tail(s)[i].req /\ Tail(s)[i].data = x
             ELSE Tail(s)[i] = RequestBeat(m, w, t + 1 + (IF b # 0 /\ b < i THEN i - 1 ELSE i))
  <2> PICK j : j = i + 1
    OBVIOUS
  <2>1. j \in 1 .. Len(s) /\ Tail(s)[i] = s[j]
    BY <1>1, <1>5
  <2>2. i = b <=> j = a
    BY <1>1, <1>3
  <2>3. t + 1 + (IF b # 0 /\ b < i THEN i - 1 ELSE i) = t + (IF a # 0 /\ a < j THEN j - 1 ELSE j)
    BY <1>1, <1>3
  <2> QED BY <1>2, <2>1, <2>2, <2>3, Zenon
<1> QED BY <1>3, <1>4, <1>5, <1>6, <1>7 DEF Mix

\* The answer at the head is taken, and no other is left.
LEMMA MixAnswer ==
  ASSUME Parameters, NEW s \in Seq(Beat), s # << >>, NEW a, NEW m, NEW w, NEW t \in Nat, NEW n \in Nat, NEW x,
         Mix(s, a, m, w, t, n, x), ~s[1].req
  PROVE  a = 1 /\ s[1].data = x /\ Mix(Tail(s), 0, m, w, t, n, x)
<1>1. Len(s) \in Nat /\ Len(s) >= 1 /\ a \in 0 .. Len(s) /\ Len(s) = IF a = 0 THEN n ELSE n + 1
  BY DEF Mix
<1>2. \A i \in 1 .. Len(s) :
       IF i = a THEN ~s[i].req /\ s[i].data = x
       ELSE s[i] = RequestBeat(m, w, t + (IF a # 0 /\ a < i THEN i - 1 ELSE i))
  BY DEF Mix
<1>3. a = 1 /\ s[1].data = x
  <2>1. \A k : RequestBeat(m, w, k).req = TRUE
    BY DEF RequestBeat
  <2> QED BY <1>1, <1>2, <2>1
<1>4. Len(Tail(s)) = Len(s) - 1 /\ \A i \in 1 .. Len(s) - 1 : Tail(s)[i] = s[i + 1]
  BY <1>1
<1>5. ASSUME NEW i \in 1 .. Len(s) - 1
      PROVE  i # 0 /\ Tail(s)[i] = RequestBeat(m, w, t + i)
  <2> PICK j : j = i + 1
    OBVIOUS
  <2>1. j \in 1 .. Len(s) /\ j # a /\ Tail(s)[i] = s[j]
    BY <1>1, <1>3, <1>4
  <2>2. t + (IF a # 0 /\ a < j THEN j - 1 ELSE j) = t + i
    BY <1>1, <1>3
  <2>3. i # 0
    BY <1>1
  <2> QED BY <1>2, <2>1, <2>2, <2>3, Zenon
<1> QED BY <1>1, <1>3, <1>4, <1>5 DEF Mix

\* An answer arrives behind what waits.
LEMMA MixAppend ==
  ASSUME Parameters, NEW s \in Seq(Beat), NEW m, NEW w, NEW t \in Nat, NEW n \in Nat, NEW x,
         Mix(s, 0, m, w, t, n, x), NEW b \in Beat, ~b.req
  PROVE  Mix(Append(s, b), Len(s) + 1, m, w, t, n, b.data)
<1>1. /\ Len(s) = n
      /\ \A i \in 1 .. Len(s) : s[i] = RequestBeat(m, w, t + i)
  BY DEF Mix
<1>2. /\ Len(Append(s, b)) = n + 1 /\ Append(s, b)[n + 1] = b
      /\ \A i \in 1 .. n : Append(s, b)[i] = s[i]
  BY <1>1
<1>3. ASSUME NEW i \in 1 .. n + 1
      PROVE  IF i = n + 1 THEN ~Append(s, b)[i].req /\ Append(s, b)[i].data = b.data
             ELSE Append(s, b)[i] = RequestBeat(m, w, t + (IF n + 1 # 0 /\ n + 1 < i THEN i - 1 ELSE i))
  <2>1. i # n + 1 => i \in 1 .. n /\ ~(n + 1 < i)
    OBVIOUS
  <2> QED BY <1>1, <1>2, <2>1
<1> QED BY <1>1, <1>2, <1>3 DEF Mix

\* A request arrives behind an answer that may wait.
LEMMA MixRequest ==
  ASSUME Parameters, NEW s \in Seq(Beat), NEW a, NEW m, NEW w, NEW t \in Nat, NEW x, Mix(s, a, m, w, t, 0, x),
         NEW r \in Meta, NEW v, NEW q \in Seq(Beat), Len(q) = BeatsOf(r),
         \A i \in 1 .. Len(q) : q[i] = RequestBeat(r, v, i)
  PROVE  Mix(s \o q, a, r, v, 0, BeatsOf(r), x)
<1>1. BeatsOf(r) \in Nat
  BY DEF BeatsOf, Meta
<1>2. a \in 0 .. 1 /\ Len(s) = a
  BY DEF Mix
<1>3. a = 1 => ~s[1].req /\ s[1].data = x
  BY <1>2 DEF Mix
<1>4. /\ Len(s \o q) = a + BeatsOf(r)
      /\ a = 1 => (s \o q)[1] = s[1]
      /\ \A i \in 1 .. a + BeatsOf(r) : i > a => (s \o q)[i] = q[i - a]
  BY <1>1, <1>2
<1>5. ASSUME NEW i \in 1 .. a + BeatsOf(r)
      PROVE  IF i = a THEN ~(s \o q)[i].req /\ (s \o q)[i].data = x
             ELSE (s \o q)[i] = RequestBeat(r, v, 0 + (IF a # 0 /\ a < i THEN i - 1 ELSE i))
  <2>1. CASE i = a
    BY <1>2, <1>3, <1>4, <2>1
  <2>2. CASE i # a
    <3>1. i > a /\ i - a \in 1 .. Len(q)
      BY <1>1, <1>2, <2>2
    <3>2. 0 + (IF a # 0 /\ a < i THEN i - 1 ELSE i) = i - a
      BY <1>2, <3>1
    <3>3. (s \o q)[i] = RequestBeat(r, v, i - a)
      BY <1>4, <3>1
    <3> QED BY <2>2, <3>2, <3>3, Zenon
  <2> QED BY <2>1, <2>2
<1> QED BY <1>1, <1>2, <1>4, <1>5 DEF Mix

(***************************************************************************)
(* The registers                                                           *)
(***************************************************************************)
CpuType == [req_pending : BOOLEAN, wait_resp : BOOLEAN, resp_valid : BOOLEAN,
            cap : CpuRequest, cap_data : Data, resp_data : Data]
HostType == [state : HostState, meta : Meta, curr : 0 .. ADDR_MOD - 1,
             next : 0 .. ADDR_MOD - 1, beats : 0 .. MAX_LEN, wdata : Data, first : BOOLEAN]
SliceType == [valid : BOOLEAN, beat : Beat]
RxType == [valid : BOOLEAN, beat : Beat, coming : Seq(Beat)]
TxType == [state : {"IDLE", "SEND", "WAIT_BEAT"}, payload : BOOLEAN, beats : 0 .. MAX_LEN]
LinkType == [active : BOOLEAN, meta : Meta, wdata : Seq(Data), rdata : Seq(Data), done : Nat,
             acked : Nat, ask : Meta, sending : {"none", "beat", "last", "ask"}, owed : BOOLEAN,
             answer : Data]

\* A clock edge with inputs that the registers and the neighbours allow.
EdgeIs(a, dr, ha, hd, rd, dn, ar) ==
  /\ a = << >> \/ (a \in CpuRequest \X CpuWords /\ MemAReady)
  /\ dr \in BOOLEAN /\ ha \in BOOLEAN /\ hd \in BOOLEAN /\ dn \in BOOLEAN /\ ar \in BOOLEAN
  /\ hd => bus
  /\ rd \in Data
  /\ dn => tx.state = "SEND"
  /\ Clock(a, dr, ha, hd, rd, dn, ar)

\* The word that a read may return is one of the words that there are.
LEMMA EdgeInputs ==
  ASSUME Parameters, IInv, Edge
  PROVE  \E a, dr, ha, hd, rd, dn, ar : EdgeIs(a, dr, ha, hd, rd, dn, ar)
<1>1. PICK a \in Offers, d_ready \in Choice(cpu.resp_valid),
           ha_ready \in Choice(host.state \in {"WRITE_A", "READ_A"}),
           hd_valid \in Choice(bus), rdata \in ReadWords,
           done \in Choice(tx.state = "SEND"),
           arrive \in Choice(~rx.valid /\ rx.coming # << >>) :
             Clock(a, d_ready, ha_ready, hd_valid, rdata, done, arrive)
  BY DEF Edge
<1>2. /\ d_ready \in BOOLEAN /\ ha_ready \in BOOLEAN /\ hd_valid \in BOOLEAN
      /\ done \in BOOLEAN /\ arrive \in BOOLEAN
      /\ hd_valid => bus
      /\ done => tx.state = "SEND"
  BY DEF Choice
<1>3. a = << >> \/ (a \in CpuRequest \X CpuWords /\ MemAReady)
  BY DEF Offers
<1>4. rdata \in Data
  <2>1. CASE host.state = "READ_D"
    <3>1. link.done \in Nat /\ link.done <= link.meta.len
      BY <2>1 DEF IInv, Engine, TypeOK
    <3>2. link.meta.len \in 0 .. MAX_LEN - 1 /\ MAX_LEN \in Nat
      BY DEF IInv, TypeOK, Meta, Parameters, SizesAssumption
    <3>3. link.done \in 0 .. MAX_LEN - 1
      BY <3>1, <3>2
    <3> QED BY <2>1, <3>3 DEF ReadWords, Parameters, SizesAssumption
  <2>2. CASE host.state # "READ_D"
    BY <2>2 DEF ReadWords, Parameters, SizesAssumption
  <2> QED BY <2>1, <2>2
<1>5. EdgeIs(a, d_ready, ha_ready, hd_valid, rdata, done, arrive)
  BY <1>1, <1>2, <1>3, <1>4, Zenon DEF EdgeIs
<1> QED BY <1>5

\* The receiver's queue, whether its head is held or not.
LEMMA ComingIs ==
  ASSUME rx \in RxType
  PROVE  /\ Coming \in Seq(Beat)
         /\ rx.valid => Coming # << >> /\ Coming[1] = rx.beat /\ Tail(Coming) = rx.coming
BY DEF RxType, Coming

\* An edge of host_bus_rx: the head arrives or is taken.
LEMMA RxFacts ==
  ASSUME rx \in RxType, NEW ar \in BOOLEAN, rx' = RxNext(ar)
  PROVE  /\ rx' \in RxType
         /\ Coming' = IF RxReady THEN Tail(Coming) ELSE Coming
<1>1. /\ rx.valid \in BOOLEAN /\ rx.beat \in Beat /\ rx.coming \in Seq(Beat)
      /\ rx = [valid |-> rx.valid, beat |-> rx.beat, coming |-> rx.coming]
  BY DEF RxType
<1>2. RxReady => rx.valid
  BY DEF RxReady, AcceptCpuResp, AcceptHostStart, AcceptPayload
<1>3. CASE rx.valid
  <2>1. rx' = [rx EXCEPT !.valid = ~RxReady]
    BY <1>3 DEF RxNext
  <2>2. PICK left \in BOOLEAN : left = ~RxReady
    BY DEF RxReady, AcceptCpuResp, AcceptHostStart, AcceptPayload
  <2>3. rx' = [valid |-> left, beat |-> rx.beat, coming |-> rx.coming]
    BY <1>1, <2>1, <2>2
  <2>4. rx'.valid = left /\ rx'.beat = rx.beat /\ rx'.coming = rx.coming
    BY <2>3
  <2>5. rx' \in RxType
    <3>1. [valid |-> left, beat |-> rx.beat, coming |-> rx.coming] \in RxType
      BY <1>1, <2>2, Zenon DEF RxType
    <3> QED BY <2>3, <3>1
  <2> QED BY <1>3, <2>2, <2>4, <2>5, ComingIs DEF Coming
<1>4. CASE ~rx.valid /\ ar /\ rx.coming # << >>
  <2>1. rx' = [valid |-> TRUE, beat |-> Head(rx.coming), coming |-> Tail(rx.coming)]
    BY <1>4 DEF RxNext
  <2>2. Head(rx.coming) \in Beat /\ Tail(rx.coming) \in Seq(Beat)
    BY <1>1, <1>4
  <2>3. <<Head(rx.coming)>> \o Tail(rx.coming) = rx.coming
    BY <1>1, <1>4
  <2>4. rx' \in RxType
    <3>1. TRUE \in BOOLEAN
      OBVIOUS
    <3>2. [valid |-> TRUE, beat |-> Head(rx.coming), coming |-> Tail(rx.coming)] \in RxType
      BY <2>2, <3>1, Zenon DEF RxType
    <3> QED BY <2>1, <3>2
  <2>5. rx'.valid = TRUE /\ rx'.beat = Head(rx.coming) /\ rx'.coming = Tail(rx.coming)
    BY <2>1
  <2> QED BY <1>2, <1>4, <2>3, <2>4, <2>5 DEF Coming
<1>5. CASE ~rx.valid /\ ~(ar /\ rx.coming # << >>)
  <2>1. rx' = rx
    BY <1>5 DEF RxNext
  <2> QED BY <1>2, <1>5, <2>1 DEF Coming
<1> QED BY <1>3, <1>4, <1>5

\* The engine has not taken more beats than the request has.
LEMMA TakenFacts ==
  ASSUME Parameters, IInv
  PROVE  /\ BeatsOf(link.meta) \in Nat /\ BeatsOf(link.meta) >= 1
         /\ Taken \in Nat /\ Left \in Nat
<1>1. /\ link.meta \in Meta /\ link.done \in Nat
      /\ BeatsOf(link.meta) \in Nat /\ BeatsOf(link.meta) >= 1
  BY DEF IInv, TypeOK, BeatsOf, Meta
<1>2. CASE host.state = "IDLE" \/ host.state \notin {"IDLE", "WRITE_A", "WRITE_D", "WRITE_WAIT"}
  BY <1>1, <1>2 DEF Taken, Left
<1>3. CASE host.state \in {"WRITE_A", "WRITE_D", "WRITE_WAIT"}
  <2>1. link.meta.we /\ link.done <= link.meta.len
    BY <1>3 DEF IInv, Engine, InWrite
  <2> QED BY <1>1, <1>3, <2>1 DEF Taken, Left, BeatsOf, Meta
<1> QED BY <1>1, <1>2, <1>3

\* What the engine and the CPU take from the receiver is what they wait for.
LEMMA Received ==
  ASSUME Parameters, IInv
  PROVE  /\ AcceptHostStart => /\ link.active /\ link.sending # "last"
                               /\ rx.beat = RequestBeat(link.meta, link.wdata, 1)
         /\ AcceptPayload => rx.beat = RequestBeat(link.meta, link.wdata, link.done + 1)
         /\ AcceptCpuResp => rx.beat.data = link.answer /\ Answering
<1>1. /\ link.meta \in Meta /\ link.done \in Nat /\ rx \in RxType
      /\ BeatsOf(link.meta) \in Nat /\ BeatsOf(link.meta) >= 1
  <2>1. link.meta \in Meta /\ link.done \in Nat /\ rx \in RxType
    <3>1. link \in LinkType /\ rx \in RxType
      BY DEF IInv, TypeOK, LinkType, RxType
    <3> QED BY <3>1 DEF LinkType
  <2>2. BeatsOf(link.meta) \in Nat /\ BeatsOf(link.meta) >= 1
    BY <2>1 DEF BeatsOf, Meta
  <2> QED BY <2>1, <2>2
<1>2. Taken \in Nat /\ Left \in Nat
  BY TakenFacts
<1>3. PICK a : /\ Mix(Coming, a, link.meta, link.wdata, Taken, Left, link.answer)
               /\ a # 0 <=> Answering
  BY DEF IInv, Receives
<1>4. /\ Coming \in Seq(Beat)
      /\ rx.valid => Coming # << >> /\ Coming[1] = rx.beat
  BY <1>1, ComingIs
<1>5. ASSUME rx.valid, rx.beat.req
      PROVE  Left > 0 /\ rx.beat = RequestBeat(link.meta, link.wdata, Taken + 1)
  BY <1>2, <1>3, <1>4, <1>5, MixTake
<1>6. ASSUME rx.valid, ~rx.beat.req
      PROVE  rx.beat.data = link.answer /\ a = 1
  <2>1. Coming # << >> /\ ~Coming[1].req /\ Coming[1] = rx.beat
    BY <1>4, <1>6
  <2>2. a = 1 /\ Coming[1].data = link.answer
    BY <1>2, <1>3, <1>4, <2>1, MixAnswer
  <2> QED BY <2>1, <2>2
<1>7. ASSUME AcceptHostStart
      PROVE  /\ link.active /\ link.sending # "last"
             /\ rx.beat = RequestBeat(link.meta, link.wdata, 1)
  <2>1. host.state = "IDLE" /\ rx.valid /\ rx.beat.req
    BY <1>7 DEF AcceptHostStart
  <2>2. Left > 0 /\ rx.beat = RequestBeat(link.meta, link.wdata, Taken + 1)
    BY <1>5, <2>1
  <2>3. link.active /\ link.sending # "last" /\ Taken = 0
    BY <1>1, <2>1, <2>2 DEF Left, Taken
  <2> QED BY <2>2, <2>3
<1>8. ASSUME AcceptPayload
      PROVE  rx.beat = RequestBeat(link.meta, link.wdata, link.done + 1)
  <2>1. host.state = "WRITE_WAIT" /\ rx.valid /\ rx.beat.req
    BY <1>8 DEF AcceptPayload
  <2>2. Taken = link.done
    BY <2>1 DEF Taken
  <2> QED BY <1>5, <2>1, <2>2
<1>9. ASSUME AcceptCpuResp
      PROVE  rx.beat.data = link.answer /\ Answering
  BY <1>3, <1>6, <1>9 DEF AcceptCpuResp
<1> QED BY <1>7, <1>8, <1>9

(***************************************************************************)
(* What is sent                                                            *)
(***************************************************************************)
\* A word of a read, the response to a write, or the CPU's request.
SendsRead == TxFire /\ host.state = "READ_TX"
SendsAck == TxFire /\ host.state = "WRITE_RESP"
SendsAsk == TxFire /\ host.state \notin {"READ_TX", "WRITE_RESP"}

\* Which of them the transmitter takes is decided by the engine's state alone
\* (the arbitration at host_bus_interface.sv:282).
LEMMA Sends ==
  ASSUME Parameters, IInv
  PROVE  /\ TxFire => tx.state # "SEND"
         /\ SendsRead => TxPkt = ReadBeat /\ (host.first <=> tx.state = "IDLE")
         /\ SendsAck => TxPkt = WriteResponse /\ tx.state = "IDLE"
         /\ SendsAsk => /\ TxPkt = CpuPacket /\ tx.state = "IDLE" /\ cpu.req_pending /\ ~slice.valid
         /\ host.state \in {"READ_TX", "WRITE_RESP"} => (TxFire <=> TxPktReady)
         /\ TxPktValid /\ host.state = "READ_TX" => TxPkt = ReadBeat
         /\ TxPktValid /\ host.state = "WRITE_RESP" => TxPkt = WriteResponse
         /\ TxPktValid /\ host.state \notin {"READ_TX", "WRITE_RESP"} => TxPkt = CpuPacket
         /\ host.state \in {"READ_TX", "WRITE_RESP"} => TxPktValid
<1>1. Staged /\ TypeOK
  BY DEF IInv
<1>2. /\ host.state = "READ_TX" => TxPktValid /\ TxPkt = ReadBeat
      /\ host.state = "WRITE_RESP" => TxPktValid /\ TxPkt = WriteResponse
      /\ host.state \notin {"READ_TX", "WRITE_RESP"} => TxPkt = CpuPacket /\ ~slice.valid
  BY <1>1 DEF Staged, TxPktValid, TxPkt, TxIssueValid, TxIssue
<1>3. WriteResponse.start /\ CpuPacket.start /\ ReadBeat.start = host.first
  BY DEF WriteResponse, CpuPacket, ReadBeat
<1>4. host.first \in BOOLEAN
  BY <1>1 DEF TypeOK
<1>5. TxFire => \/ tx.state = "IDLE" /\ TxPkt.start
                \/ tx.state = "WAIT_BEAT" /\ ~TxPkt.start
  BY DEF TxFire, TxPktReady
<1>6. SendsAsk => cpu.req_pending
  BY <1>2 DEF SendsAsk, TxFire, TxPktValid, TxIssueValid
<1> QED BY <1>2, <1>3, <1>4, <1>5, <1>6 DEF SendsRead, SendsAck, SendsAsk, TxFire

\* The three kinds of packet in the transmitter (host_bus_tx.sv:76-212).
LEMMA TxFacts ==
  ASSUME Parameters, IInv, NEW dn \in BOOLEAN, tx' = TxNext(dn)
  PROVE  /\ tx' \in TxType
         /\ SendsRead => /\ tx'.state = "SEND" /\ tx'.payload
                         /\ tx'.beats = IF host.first THEN link.meta.len + 1 ELSE tx.beats
         /\ SendsAck => tx'.state = "SEND" /\ ~tx'.payload
         /\ SendsAsk => tx'.state = "SEND" /\ tx'.beats = 1
         /\ ~TxFire /\ ~(tx.state = "SEND" /\ dn) => tx' = tx
         /\ ~TxFire /\ tx.state = "SEND" /\ dn =>
              /\ tx'.payload = tx.payload
              /\ tx'.state = IF tx.payload /\ tx.beats # 1 THEN "WAIT_BEAT" ELSE "IDLE"
              /\ tx'.beats = IF tx.payload THEN tx.beats - 1 ELSE tx.beats
<1>1. /\ tx.state \in {"IDLE", "SEND", "WAIT_BEAT"} /\ tx.payload \in BOOLEAN /\ tx.beats \in 0 .. MAX_LEN
      /\ tx = [state |-> tx.state, payload |-> tx.payload, beats |-> tx.beats]
      /\ MAX_LEN \in Nat /\ MAX_LEN > 0
      /\ link.meta.len \in 0 .. MAX_LEN - 1 /\ link.meta.we \in BOOLEAN
      /\ cpu.cap.len = 0 /\ cpu.cap.we \in BOOLEAN
      /\ host.first \in BOOLEAN /\ host.beats \in 0 .. MAX_LEN
  <2>1. TypeOK
    BY DEF IInv
  <2>2. tx \in TxType
    BY <2>1 DEF TypeOK, TxType
  <2>3. /\ tx.state \in {"IDLE", "SEND", "WAIT_BEAT"} /\ tx.payload \in BOOLEAN /\ tx.beats \in 0 .. MAX_LEN
        /\ tx = [state |-> tx.state, payload |-> tx.payload, beats |-> tx.beats]
    BY <2>2 DEF TxType
  <2>4. MAX_LEN \in Nat /\ MAX_LEN > 0
    BY DEF Parameters, SizesAssumption
  <2>5. link.meta \in Meta /\ cpu.cap \in CpuRequest /\ cpu.cap \in Meta /\ cpu.cap.len = 0
    BY <2>1 DEF TypeOK, Parameters, RequestAssumption
  <2>6. link.meta.len \in 0 .. MAX_LEN - 1 /\ link.meta.we \in BOOLEAN /\ cpu.cap.we \in BOOLEAN
    BY <2>5 DEF Meta
  <2>7. host.first \in BOOLEAN /\ host.beats \in 0 .. MAX_LEN
    BY <2>1 DEF TypeOK
  <2> QED BY <2>3, <2>4, <2>5, <2>6, <2>7
<1>2. \A st \in {"IDLE", "SEND", "WAIT_BEAT"}, pl \in BOOLEAN, n \in 0 .. MAX_LEN :
         [state |-> st, payload |-> pl, beats |-> n] \in TxType
  BY Zenon DEF TxType
<1>3. CASE SendsRead
  <2>1. TxPkt = ReadBeat /\ TxFire /\ host.state = "READ_TX"
    BY <1>3, Sends DEF SendsRead
  <2>2. ReadBeat.start = host.first /\ ReadBeat.req = FALSE /\ ReadBeat.meta = link.meta /\ link.meta.we = FALSE
    BY <2>1, <1>1 DEF ReadBeat, IInv, Engine, InWrite
  <2>3. ~host.first => tx.payload
    BY <2>1 DEF IInv, Transmits, InRead
  <2>4. PICK pl \in BOOLEAN : pl = TRUE
    OBVIOUS
  <2>5. PICK n \in 0 .. MAX_LEN : n = IF host.first THEN link.meta.len + 1 ELSE tx.beats
    BY <1>1
  <2>6. tx' = [state |-> "SEND", payload |-> pl, beats |-> n]
    BY <1>1, <2>1, <2>2, <2>3, <2>4, <2>5 DEF TxNext, HasPayload
  <2>7. tx' \in TxType
    BY <1>2, <2>6
  <2> QED BY <1>3, <2>1, <2>4, <2>5, <2>6, <2>7 DEF SendsRead, SendsAck, SendsAsk
<1>4. CASE SendsAck
  <2>1. TxPkt = WriteResponse /\ TxFire /\ host.state = "WRITE_RESP"
    BY <1>4, Sends DEF SendsAck
  <2>2. /\ WriteResponse.start = TRUE /\ WriteResponse.req = FALSE /\ WriteResponse.meta = link.meta
        /\ link.meta.we = TRUE
    BY <2>1, <1>1 DEF WriteResponse, IInv, Engine, InWrite
  <2>3. PICK pl \in BOOLEAN : pl = FALSE
    OBVIOUS
  <2>4. PICK n \in 0 .. MAX_LEN : n = link.meta.len + 1
    BY <1>1
  <2>5. tx' = [state |-> "SEND", payload |-> pl, beats |-> n]
    BY <2>1, <2>2, <2>3, <2>4 DEF TxNext, HasPayload
  <2>6. tx' \in TxType
    BY <1>2, <2>5
  <2> QED BY <1>4, <2>1, <2>3, <2>5, <2>6 DEF SendsRead, SendsAck, SendsAsk
<1>5. CASE SendsAsk
  <2>1. TxPkt = CpuPacket /\ TxFire /\ host.state \notin {"READ_TX", "WRITE_RESP"}
    BY <1>5, Sends DEF SendsAsk
  <2>2. CpuPacket.start = TRUE /\ CpuPacket.req = TRUE /\ CpuPacket.meta = cpu.cap
    BY DEF CpuPacket
  <2>3. PICK pl \in BOOLEAN : pl = HasPayload(TxPkt.req, TxPkt.meta.we)
    BY DEF HasPayload
  <2>4. PICK n \in 0 .. MAX_LEN : n = 1
    BY <1>1
  <2>5. tx' = [state |-> "SEND", payload |-> pl, beats |-> n]
    BY <1>1, <2>1, <2>2, <2>3, <2>4 DEF TxNext
  <2>6. tx' \in TxType
    BY <1>2, <2>5
  <2> QED BY <1>5, <2>1, <2>4, <2>5, <2>6 DEF SendsRead, SendsAck, SendsAsk
<1>6. CASE ~TxFire /\ tx.state = "SEND" /\ dn
  <2>1. tx' = [tx EXCEPT !.state = IF tx.payload /\ tx.beats # 1 THEN "WAIT_BEAT" ELSE "IDLE",
                         !.beats = IF tx.payload THEN @ - 1 ELSE @]
    BY <1>6 DEF TxNext
  <2>2. tx.payload => tx.beats >= 1
    <3>1. link.sending \in {"beat", "last", "ask"} /\ Transmits
      BY <1>6 DEF IInv, TypeOK, Transmits
    <3> QED BY <1>1, <3>1 DEF Transmits
  <2>3. PICK st \in {"IDLE", "SEND", "WAIT_BEAT"} :
          st = IF tx.payload /\ tx.beats # 1 THEN "WAIT_BEAT" ELSE "IDLE"
    OBVIOUS
  <2>4. PICK n \in 0 .. MAX_LEN : n = IF tx.payload THEN tx.beats - 1 ELSE tx.beats
    BY <1>1, <2>2
  <2>5. tx' = [state |-> st, payload |-> tx.payload, beats |-> n]
    BY <1>1, <2>1, <2>3, <2>4
  <2>6. tx' \in TxType
    BY <1>1, <1>2, <2>5
  <2>7. tx'.state = st /\ tx'.payload = tx.payload /\ tx'.beats = n
    BY <2>5
  <2> QED BY <1>6, <2>3, <2>4, <2>6, <2>7 DEF SendsRead, SendsAck, SendsAsk
<1>7. CASE ~TxFire /\ ~(tx.state = "SEND" /\ dn)
  <2>1. tx' = tx
    BY <1>7 DEF TxNext
  <2>2. tx \in TxType
    BY <1>1, <1>2
  <2> QED BY <1>7, <2>1, <2>2 DEF SendsRead, SendsAck, SendsAsk
<1> QED BY <1>3, <1>4, <1>5, <1>6, <1>7 DEF SendsRead, SendsAck, SendsAsk

\* The host's books at a clock edge.
LEMMA LinkFacts ==
  ASSUME Parameters, IInv, NEW hd \in BOOLEAN, NEW rd \in Data, NEW dn \in BOOLEAN,
         dn => tx.state = "SEND", link' = LinkNext(hd, rd, dn)
  PROVE  /\ link' \in LinkType
         /\ link'.meta = link.meta /\ link'.wdata = link.wdata /\ link'.answer = link.answer
         /\ link'.done = IF HostDFire(hd) THEN link.done + 1 ELSE link.done
         /\ link'.rdata = IF HostDFire(hd) /\ ~host.meta.we THEN Append(link.rdata, rd) ELSE link.rdata
         /\ link'.acked = IF SendsRead \/ SendsAck THEN link.acked + 1 ELSE link.acked
         /\ link'.sending = IF SendsAsk THEN "ask" ELSE IF SendsAck THEN "last"
                            ELSE IF SendsRead THEN (IF LastBeat THEN "last" ELSE "beat")
                            ELSE IF dn THEN "none" ELSE link.sending
         /\ link'.active <=> link.active /\ ~(dn /\ link.sending = "last")
         /\ link'.owed <=> link.owed \/ (dn /\ link.sending = "ask")
<1>1. TypeOK
  BY DEF IInv
<1>2. link \in LinkType
  BY <1>1 DEF TypeOK, LinkType
<1>3. /\ link.active \in BOOLEAN /\ link.meta \in Meta /\ link.wdata \in Seq(Data) /\ link.rdata \in Seq(Data)
      /\ link.done \in Nat /\ link.acked \in Nat /\ link.ask \in Meta
      /\ link.sending \in {"none", "beat", "last", "ask"} /\ link.owed \in BOOLEAN /\ link.answer \in Data
      /\ link = [active |-> link.active, meta |-> link.meta, wdata |-> link.wdata, rdata |-> link.rdata,
                 done |-> link.done, acked |-> link.acked, ask |-> link.ask, sending |-> link.sending,
                 owed |-> link.owed, answer |-> link.answer]
  BY <1>2 DEF LinkType
<1>4. /\ TxFire /\ TxPkt.req <=> SendsAsk
      /\ TxFire /\ ~TxPkt.req <=> SendsRead \/ SendsAck
      /\ SendsAck => TxPkt.last
      /\ SendsRead => (TxPkt.last <=> LastBeat)
      /\ SendsAsk => TxPkt.meta \in Meta
      /\ SendsAsk => ~SendsAck /\ ~SendsRead
      /\ SendsAck => ~SendsRead
  <2>1. cpu.cap \in Meta
    BY <1>1 DEF TypeOK, Parameters, RequestAssumption
  <2>2. /\ WriteResponse.last = TRUE /\ WriteResponse.req = FALSE
        /\ CpuPacket.req = TRUE /\ CpuPacket.meta = cpu.cap
        /\ ReadBeat.req = FALSE /\ ReadBeat.last = LastBeat
    BY DEF WriteResponse, CpuPacket, ReadBeat
  <2>3. /\ SendsRead => TxPkt = ReadBeat
        /\ SendsAck => TxPkt = WriteResponse
        /\ SendsAsk => TxPkt = CpuPacket
    BY Sends
  <2> QED BY <2>1, <2>2, <2>3 DEF SendsRead, SendsAck, SendsAsk
<1>5. TxFire => tx.state # "SEND"
  BY Sends
<1> DEFINE access == HostDFire(hd)
           done == IF access THEN link.done + 1 ELSE link.done
           rdata == IF access /\ ~host.meta.we THEN Append(link.rdata, rd) ELSE link.rdata
           acked == IF SendsRead \/ SendsAck THEN link.acked + 1 ELSE link.acked
           ask == IF SendsAsk THEN TxPkt.meta ELSE link.ask
           sending == IF SendsAsk THEN "ask" ELSE IF SendsAck THEN "last"
                      ELSE IF SendsRead THEN (IF LastBeat THEN "last" ELSE "beat")
                      ELSE IF dn THEN "none" ELSE link.sending
           active == link.active /\ ~(dn /\ link.sending = "last")
           owed == link.owed \/ (dn /\ link.sending = "ask")
<1>6. link' = [link EXCEPT !.done = done, !.rdata = rdata, !.acked = acked, !.ask = ask,
                           !.sending = sending, !.active = active, !.owed = owed]
  <2>1. (tx.state = "SEND" /\ dn) = dn
    OBVIOUS
  <2>2. (IF TxFire /\ TxPkt.req THEN "ask"
         ELSE IF TxFire /\ ~TxPkt.req THEN (IF TxPkt.last THEN "last" ELSE "beat")
         ELSE IF tx.state = "SEND" /\ dn THEN "none" ELSE link.sending) = sending
    BY <1>4
  <2>3. (IF TxFire /\ ~TxPkt.req THEN link.acked + 1 ELSE link.acked) = acked
    BY <1>4
  <2>4. (IF TxFire /\ TxPkt.req THEN TxPkt.meta ELSE link.ask) = ask
    BY <1>4
  <2>5. link' = [link EXCEPT !.done = done, !.rdata = rdata,
                   !.acked = IF TxFire /\ ~TxPkt.req THEN link.acked + 1 ELSE link.acked,
                   !.ask = IF TxFire /\ TxPkt.req THEN TxPkt.meta ELSE link.ask,
                   !.sending = IF TxFire /\ TxPkt.req THEN "ask"
                               ELSE IF TxFire /\ ~TxPkt.req THEN (IF TxPkt.last THEN "last" ELSE "beat")
                               ELSE IF tx.state = "SEND" /\ dn THEN "none" ELSE link.sending,
                   !.active = link.active /\ ~((tx.state = "SEND" /\ dn) /\ link.sending = "last"),
                   !.owed = link.owed \/ ((tx.state = "SEND" /\ dn) /\ link.sending = "ask")]
    BY <1>3 DEF LinkNext
  <2> HIDE DEF done, rdata, acked, ask, sending
  <2> QED BY <2>1, <2>2, <2>3, <2>4, <2>5, Zenon
<1>7. /\ done \in Nat /\ rdata \in Seq(Data) /\ acked \in Nat /\ ask \in Meta
      /\ sending \in {"none", "beat", "last", "ask"} /\ active \in BOOLEAN /\ owed \in BOOLEAN
  BY <1>3, <1>4
<1>8. access = HostDFire(hd) /\ (active <=> link.active /\ ~(dn /\ link.sending = "last"))
      /\ (owed <=> link.owed \/ (dn /\ link.sending = "ask"))
  OBVIOUS
<1> HIDE DEF done, rdata, acked, ask, sending, active, owed
<1>9. link' = [active |-> active, meta |-> link.meta, wdata |-> link.wdata, rdata |-> rdata,
               done |-> done, acked |-> acked, ask |-> ask, sending |-> sending,
               owed |-> owed, answer |-> link.answer]
  BY <1>3, <1>6, ZenonT(60)
<1>10. [active |-> active, meta |-> link.meta, wdata |-> link.wdata, rdata |-> rdata,
               done |-> done, acked |-> acked, ask |-> ask, sending |-> sending,
               owed |-> owed, answer |-> link.answer] \in LinkType
  BY <1>3, <1>7, Zenon DEF LinkType
<1>11. /\ link' \in LinkType
       /\ link'.meta = link.meta /\ link'.wdata = link.wdata /\ link'.answer = link.answer
       /\ link'.done = done /\ link'.rdata = rdata /\ link'.acked = acked /\ link'.sending = sending
       /\ link'.active = active /\ link'.owed = owed
  BY <1>9, <1>10
<1> QED BY <1>8, <1>11 DEF done, rdata, acked, sending

\* The CPU's side at a clock edge (host_bus_interface.sv:361-386).
LEMMA CpuFacts ==
  ASSUME Parameters, IInv, NEW a, a = << >> \/ (a \in CpuRequest \X CpuWords /\ MemAReady),
         NEW dr \in BOOLEAN, cpu' = CpuNext(a, dr)
  PROVE  /\ cpu' \in CpuType
         /\ cpu'.req_pending <=> ~SendsAsk /\ (a # << >> \/ cpu.req_pending)
         /\ cpu'.wait_resp <=> ~AcceptCpuResp /\ (SendsAsk \/ cpu.wait_resp)
         /\ cpu'.resp_valid <=> AcceptCpuResp \/ (cpu.resp_valid /\ ~dr)
         /\ cpu'.resp_data = IF AcceptCpuResp THEN rx.beat.data ELSE cpu.resp_data
         /\ a # << >> => ~cpu.req_pending /\ ~cpu.wait_resp /\ ~cpu.resp_valid
<1>1. TypeOK
  BY DEF IInv
<1>2. /\ cpu.req_pending \in BOOLEAN /\ cpu.wait_resp \in BOOLEAN /\ cpu.resp_valid \in BOOLEAN
      /\ cpu.cap \in CpuRequest /\ cpu.cap_data \in Data /\ cpu.resp_data \in Data
      /\ rx.beat.data \in Data
  BY <1>1 DEF TypeOK, Beat
<1>3. cpu.req_pending /\ TxFire /\ TxPkt.req <=> SendsAsk
  <2>1. WriteResponse.req = FALSE /\ CpuPacket.req = TRUE /\ ReadBeat.req = FALSE
    BY DEF WriteResponse, CpuPacket, ReadBeat
  <2>2. /\ SendsRead => TxPkt = ReadBeat
        /\ SendsAck => TxPkt = WriteResponse
        /\ SendsAsk => TxPkt = CpuPacket /\ cpu.req_pending
    BY Sends
  <2> QED BY <2>1, <2>2 DEF SendsRead, SendsAck, SendsAsk
<1>4. a # << >> => ~cpu.req_pending /\ ~cpu.wait_resp /\ ~cpu.resp_valid
  BY DEF MemAReady
<1> DEFINE capture == a # << >> /\ MemAReady
           open == ~SendsAsk /\ (capture \/ cpu.req_pending)
           wait == ~AcceptCpuResp /\ (SendsAsk \/ cpu.wait_resp)
           valid == AcceptCpuResp \/ (cpu.resp_valid /\ ~dr)
           cap == IF capture THEN a[1] ELSE cpu.cap
           word == IF capture THEN a[2] ELSE cpu.cap_data
           reply == IF AcceptCpuResp THEN rx.beat.data ELSE cpu.resp_data
<1>5. cpu' = [req_pending |-> open, wait_resp |-> wait, resp_valid |-> valid,
              cap |-> cap, cap_data |-> word, resp_data |-> reply]
  <2>1. (cpu.req_pending /\ TxFire /\ TxPkt.req) = SendsAsk
    BY <1>3 DEF SendsAsk
  <2> QED BY <2>1, Zenon DEF CpuNext
<1>6. /\ open \in BOOLEAN /\ wait \in BOOLEAN /\ valid \in BOOLEAN
      /\ cap \in CpuRequest /\ word \in Data /\ reply \in Data
  BY <1>2 DEF Parameters, SizesAssumption
<1>7. /\ open <=> ~SendsAsk /\ (a # << >> \/ cpu.req_pending)
      /\ wait <=> ~AcceptCpuResp /\ (SendsAsk \/ cpu.wait_resp)
      /\ valid <=> AcceptCpuResp \/ (cpu.resp_valid /\ ~dr)
  OBVIOUS
<1> HIDE DEF open, wait, valid, cap, word, reply
<1>8. [req_pending |-> open, wait_resp |-> wait, resp_valid |-> valid,
       cap |-> cap, cap_data |-> word, resp_data |-> reply] \in CpuType
  BY <1>6, Zenon DEF CpuType
<1>9. /\ cpu' \in CpuType /\ cpu'.req_pending = open /\ cpu'.wait_resp = wait
      /\ cpu'.resp_valid = valid /\ cpu'.resp_data = reply
  BY <1>5, <1>8
<1> QED BY <1>4, <1>7, <1>9 DEF reply

\* The staging register at a clock edge (host_bus_interface.sv:435-465): only a
\* write response that finds the transmitter busy, or the word of a read.
LEMMA SliceFacts ==
  ASSUME Parameters, IInv, NEW hd \in BOOLEAN, NEW rd \in Data, slice' = SliceNext(hd, rd)
  PROVE  /\ slice' \in SliceType
         /\ host.state = "READ_D" /\ hd =>
              slice'.valid /\ slice'.beat = [start |-> host.first, last |-> LastBeat, req |-> FALSE,
                                             meta |-> host.meta, data |-> rd]
         /\ host.state = "READ_TX" =>
              slice'.beat = slice.beat /\ (slice'.valid <=> ~TxFire)
         /\ host.state = "WRITE_RESP" =>
              (slice'.valid => ~TxFire /\ slice'.beat = WriteResponse)
         /\ ~(host.state = "READ_D" /\ hd) /\ host.state \notin {"READ_TX", "WRITE_RESP"} => ~slice'.valid
<1>1. TypeOK /\ Staged
  BY DEF IInv
<1>2. slice \in SliceType
  BY <1>1 DEF TypeOK, SliceType
<1>3. /\ slice.valid \in BOOLEAN /\ slice.beat \in Beat
      /\ slice = [valid |-> slice.valid, beat |-> slice.beat]
  BY <1>2 DEF SliceType
<1>4. /\ host.meta \in Meta /\ host.first \in BOOLEAN /\ 0 \in Data
      /\ LastBeat \in BOOLEAN /\ TRUE \in BOOLEAN /\ FALSE \in BOOLEAN /\ TxPktReady \in BOOLEAN
  BY <1>1 DEF TypeOK, LastBeat, TxPktReady, Parameters, SizesAssumption
<1>5. \A v \in BOOLEAN, b \in Beat : [valid |-> v, beat |-> b] \in SliceType
  BY Zenon DEF SliceType
<1>6. CASE host.state = "READ_D" /\ hd
  <2>1. [start |-> host.first, last |-> LastBeat, req |-> FALSE, meta |-> host.meta, data |-> rd] \in Beat
    BY <1>4, Zenon DEF Beat
  <2>2. slice' = [valid |-> TRUE,
                  beat |-> [start |-> host.first, last |-> LastBeat, req |-> FALSE,
                            meta |-> host.meta, data |-> rd]]
    BY <1>6, Zenon DEF SliceNext
  <2>3. slice' \in SliceType
    BY <1>4, <1>5, <2>1, <2>2, Zenon
  <2>4. host.state = "READ_D"
    BY <1>6
  <2>5. slice'.valid /\ slice'.beat = [start |-> host.first, last |-> LastBeat, req |-> FALSE,
                                       meta |-> host.meta, data |-> rd]
    <3>1. PICK b : b = [start |-> host.first, last |-> LastBeat, req |-> FALSE,
                        meta |-> host.meta, data |-> rd]
      OBVIOUS
    <3>2. slice' = [valid |-> TRUE, beat |-> b]
      BY <2>2, <3>1, Zenon
    <3>3. slice'.valid /\ slice'.beat = b
      BY <3>2
    <3> QED BY <3>1, <3>3, Zenon
  <2> QED BY <1>6, <2>3, <2>4, <2>5
<1>7. CASE ~(host.state = "READ_D" /\ hd) /\ StageCapture
  <2>1. host.state = "WRITE_RESP" /\ TxIssue = WriteResponse /\ ~TxPktReady /\ ~TxFire
    <3>1. TxIssueValid /\ ~TxPktReady /\ ~TxIssue.req
      BY <1>7 DEF StageCapture
    <3>2. CpuPacket.req
      BY DEF CpuPacket
    <3> QED BY <3>1, <3>2 DEF TxIssue, TxFire
  <2>2. WriteResponse \in Beat
    BY <1>4, Zenon DEF Beat, WriteResponse
  <2>3. slice' = [valid |-> TRUE, beat |-> WriteResponse]
    BY <1>7, <2>1, Zenon DEF SliceNext
  <2>4. slice' \in SliceType
    BY <1>4, <1>5, <2>2, <2>3, Zenon
  <2>5. slice'.beat = WriteResponse
    BY <2>3
  <2> QED BY <2>1, <2>4, <2>5
<1>8. CASE ~(host.state = "READ_D" /\ hd) /\ ~StageCapture
  <2>1. PICK v \in BOOLEAN : v = (slice.valid /\ ~TxPktReady)
    BY <1>3, <1>4
  <2>2. slice' = [slice EXCEPT !.valid = v]
    BY <1>8, <2>1, Zenon DEF SliceNext
  <2>3. slice' = [valid |-> v, beat |-> slice.beat]
    BY <1>3, <2>2
  <2>4. slice' \in SliceType
    BY <1>3, <1>5, <2>1, <2>3, Zenon
  <2>5. slice'.valid = v /\ slice'.beat = slice.beat
    BY <2>3
  <2>6. host.state \in {"READ_TX", "WRITE_RESP"} => (TxFire <=> TxPktReady)
    BY Sends
  <2>7. /\ host.state = "READ_TX" => slice.valid
        /\ host.state = "WRITE_RESP" /\ slice.valid => slice.beat = WriteResponse
        /\ host.state \notin {"READ_TX", "WRITE_RESP"} => ~slice.valid
    BY <1>1 DEF Staged
  <2> QED BY <1>8, <2>1, <2>4, <2>5, <2>6, <2>7
<1> QED BY <1>6, <1>7, <1>8

(***************************************************************************)
(* The engine's registers after a clock edge                               *)
(***************************************************************************)
HostIs(st, m, c, n, b, w, fst) ==
  /\ host'.state = st /\ host'.meta = m /\ host'.curr = c /\ host'.next = n
  /\ host'.beats = b /\ host'.wdata = w /\ host'.first = fst

\* Only the state changes.
HostGoes(st) == HostIs(st, host.meta, host.curr, host.next, host.beats, host.wdata, host.first)

\* What the registers hold.
LEMMA HostTypes ==
  ASSUME Parameters, IInv
  PROVE  /\ host.state \in HostState /\ host.meta \in Meta /\ host.curr \in 0 .. ADDR_MOD - 1
         /\ host.next \in 0 .. ADDR_MOD - 1 /\ host.beats \in 0 .. MAX_LEN /\ host.wdata \in Data
         /\ host.first \in BOOLEAN
         /\ host = [state |-> host.state, meta |-> host.meta, curr |-> host.curr, next |-> host.next,
                    beats |-> host.beats, wdata |-> host.wdata, first |-> host.first]
         /\ link.meta \in Meta /\ link.meta.len \in 0 .. MAX_LEN - 1 /\ link.meta.we \in BOOLEAN
         /\ MAX_LEN \in Nat /\ link.done \in Nat /\ link.acked \in Nat
<1>1. host \in HostType
  BY DEF IInv, TypeOK, HostType
<1>2. link.meta \in Meta /\ link.done \in Nat /\ link.acked \in Nat
  BY DEF IInv, TypeOK
<1> QED BY <1>1, <1>2 DEF HostType, Meta, Parameters, SizesAssumption

\* The engine goes to another state and keeps the other registers.
LEMMA Goes ==
  ASSUME Parameters, IInv, NEW st \in HostState, host' = [host EXCEPT !.state = st]
  PROVE  host' \in HostType /\ HostGoes(st)
<1>1. host' = [state |-> st, meta |-> host.meta, curr |-> host.curr, next |-> host.next,
               beats |-> host.beats, wdata |-> host.wdata, first |-> host.first]
  BY HostTypes
<1>2. /\ host.state \in HostState /\ host.meta \in Meta /\ host.curr \in 0 .. ADDR_MOD - 1
      /\ host.next \in 0 .. ADDR_MOD - 1 /\ host.beats \in 0 .. MAX_LEN /\ host.wdata \in Data
      /\ host.first \in BOOLEAN
  BY HostTypes
<1>3. [state |-> st, meta |-> host.meta, curr |-> host.curr, next |-> host.next,
       beats |-> host.beats, wdata |-> host.wdata, first |-> host.first] \in HostType
  BY <1>2, Zenon DEF HostType
<1> QED BY <1>1, <1>3 DEF HostGoes, HostIs

\* The registers are ready for the access after access k.
LEMMA Advances ==
  ASSUME Parameters, IInv, NEW st \in HostState, NEW k \in Nat, Addressed(k), host.meta = link.meta,
         host.beats >= 1
  PROVE  /\ NextBeat(st) = [state |-> st, meta |-> host.meta, curr |-> BurstAddr(link.meta, k + 1),
                            next |-> BurstAddr(link.meta, k + 2), beats |-> host.beats - 1,
                            wdata |-> host.wdata, first |-> host.first]
         /\ BurstAddr(link.meta, k + 1) \in 0 .. ADDR_MOD - 1
         /\ BurstAddr(link.meta, k + 2) \in 0 .. ADDR_MOD - 1
         /\ host.beats - 1 \in 0 .. MAX_LEN
<1>1. \A j \in Nat : /\ BurstAddr(link.meta, j) \in 0 .. ADDR_MOD - 1
                     /\ AddrAfter(link.meta, BurstAddr(link.meta, j)) = BurstAddr(link.meta, j + 1)
  BY HostTypes, Addresses
<1> DEFINE A(j) == BurstAddr(link.meta, j)
<1>2. PICK l \in Nat : l = k + 1
  OBVIOUS
<1>3. l + 1 = k + 2
  BY <1>2
<1>4. /\ A(k) \in 0 .. ADDR_MOD - 1 /\ A(l) \in 0 .. ADDR_MOD - 1 /\ A(l + 1) \in 0 .. ADDR_MOD - 1
      /\ AddrAfter(link.meta, A(k)) = A(l) /\ AddrAfter(link.meta, A(l)) = A(l + 1)
  BY <1>1, <1>2
<1>5. host.curr = A(k) /\ host.next = A(l)
  BY <1>2 DEF Addressed
<1> HIDE DEF A
<1>6. /\ (IF AddrFixed(host.meta) THEN host.curr ELSE host.next) = A(l)
      /\ (IF AddrFixed(host.meta) THEN host.next
          ELSE (host.next + Stride(host.meta.size)) % ADDR_MOD) = A(l + 1)
  BY <1>4, <1>5 DEF AddrAfter
<1>7. NextBeat(st) = [state |-> st, meta |-> host.meta, curr |-> A(l), next |-> A(l + 1),
                      beats |-> host.beats - 1, wdata |-> host.wdata, first |-> host.first]
  <2>1. NextBeat(st) = [host EXCEPT !.beats = host.beats - 1, !.curr = A(l), !.next = A(l + 1), !.state = st]
    BY <1>6, HostTypes, Zenon DEF NextBeat
  <2> QED BY <2>1, HostTypes
<1>8. host.beats - 1 \in 0 .. MAX_LEN
  BY HostTypes
<1> QED BY <1>2, <1>3, <1>4, <1>7, <1>8 DEF A

\* A request is taken, its first word with it if it writes (host_bus_interface.sv:389).
LEMMA HostTakes ==
  ASSUME Parameters, IInv, AcceptHostStart, NEW ha \in BOOLEAN, NEW hd \in BOOLEAN, host' = HostNext(ha, hd)
  PROVE  /\ host' \in HostType
         /\ link.active /\ link.sending # "last"
         /\ HostIs(IF link.meta.we THEN "WRITE_A" ELSE "READ_A", link.meta,
                   BurstAddr(link.meta, 0), BurstAddr(link.meta, 1), link.meta.len + 1,
                   IF link.meta.we THEN link.wdata[1] ELSE host.wdata,
                   IF link.meta.we THEN host.first ELSE TRUE)
<1>1. host.state = "IDLE" /\ rx.beat \in Beat
  BY DEF AcceptHostStart, IInv, TypeOK
<1>2. link.active /\ link.sending # "last" /\ rx.beat = RequestBeat(link.meta, link.wdata, 1)
  BY Received
<1>3. /\ rx.beat.meta = link.meta /\ rx.beat.data \in Data
      /\ link.meta.we => rx.beat.data = link.wdata[1]
  BY <1>1, <1>2 DEF RequestBeat, Beat
<1>4. /\ BurstAddr(link.meta, 0) = link.meta.addr /\ link.meta.addr \in 0 .. ADDR_MOD - 1
      /\ AddrAfter(link.meta, link.meta.addr) = BurstAddr(link.meta, 1)
      /\ BurstAddr(link.meta, 1) \in 0 .. ADDR_MOD - 1
  <2>1. /\ BurstAddr(link.meta, 0) = link.meta.addr
        /\ BurstAddr(link.meta, 0) \in 0 .. ADDR_MOD - 1 /\ BurstAddr(link.meta, 1) \in 0 .. ADDR_MOD - 1
        /\ AddrAfter(link.meta, BurstAddr(link.meta, 0)) = BurstAddr(link.meta, 0 + 1)
    BY HostTypes, Addresses
  <2>2. 0 + 1 = 1
    OBVIOUS
  <2> QED BY <2>1, <2>2, Zenon
<1> DEFINE st == IF link.meta.we THEN "WRITE_A" ELSE "READ_A"
           w == IF link.meta.we THEN link.wdata[1] ELSE host.wdata
           fst == IF link.meta.we THEN host.first ELSE TRUE
           n == link.meta.len + 1
<1>5. st \in HostState /\ w \in Data /\ fst \in BOOLEAN /\ n \in 0 .. MAX_LEN
  <2>1. st \in HostState
    BY DEF HostState
  <2>2. host.wdata \in Data /\ host.first \in BOOLEAN
    BY HostTypes
  <2>3. w \in Data
    BY <1>3, <2>2
  <2>4. fst \in BOOLEAN
    BY <2>2
  <2>5. n \in 0 .. MAX_LEN
    BY HostTypes
  <2> QED BY <2>1, <2>3, <2>4, <2>5, Zenon
<1>6. host' = [host EXCEPT !.meta = link.meta, !.curr = BurstAddr(link.meta, 0),
                           !.next = BurstAddr(link.meta, 1), !.beats = n, !.wdata = w, !.first = fst,
                           !.state = st]
  <2>1. host' = StartRequest
    BY <1>1 DEF HostNext
  <2> QED BY <1>3, <1>4, <2>1 DEF StartRequest, AddrAfter
<1> HIDE DEF st, w, fst, n
<1>7. host' = [state |-> st, meta |-> link.meta, curr |-> BurstAddr(link.meta, 0),
               next |-> BurstAddr(link.meta, 1), beats |-> n, wdata |-> w, first |-> fst]
  BY <1>6, HostTypes
<1>8. [state |-> st, meta |-> link.meta, curr |-> BurstAddr(link.meta, 0),
       next |-> BurstAddr(link.meta, 1), beats |-> n, wdata |-> w, first |-> fst] \in HostType
  <2>1. link.meta \in Meta /\ BurstAddr(link.meta, 0) \in 0 .. ADDR_MOD - 1
    BY <1>4, HostTypes
  <2> QED BY <1>4, <1>5, <2>1, Zenon DEF HostType
<1>9. HostIs(st, link.meta, BurstAddr(link.meta, 0), BurstAddr(link.meta, 1), n, w, fst)
  BY <1>7 DEF HostIs
<1> QED BY <1>2, <1>7, <1>8, <1>9, Zenon DEF st, w, fst, n

\* The engine writes (host_bus_interface.sv:395-415).
LEMMA HostWrites ==
  ASSUME Parameters, IInv, host.state \in InWrite, NEW ha \in BOOLEAN, NEW hd \in BOOLEAN,
         host' = HostNext(ha, hd)
  PROVE  /\ host' \in HostType
         /\ host.state = "WRITE_A" => HostGoes(IF ha THEN "WRITE_D" ELSE "WRITE_A")
         /\ host.state = "WRITE_D" =>
              /\ ~hd => HostGoes("WRITE_D")
              /\ hd /\ LastBeat => HostGoes("WRITE_RESP")
              /\ hd /\ ~LastBeat => HostIs("WRITE_WAIT", host.meta, BurstAddr(link.meta, link.done + 1),
                                           BurstAddr(link.meta, link.done + 2), host.beats - 1,
                                           host.wdata, host.first)
         /\ host.state = "WRITE_WAIT" =>
              /\ ~AcceptPayload => HostGoes("WRITE_WAIT")
              /\ AcceptPayload => HostIs("WRITE_A", host.meta, host.curr, host.next, host.beats,
                                         link.wdata[link.done + 1], host.first)
         /\ host.state = "WRITE_RESP" => HostGoes(IF TxFire THEN "IDLE" ELSE "WRITE_RESP")
<1>1. /\ HostState = {"IDLE", "WRITE_A", "WRITE_D", "WRITE_WAIT", "WRITE_RESP", "READ_A", "READ_D", "READ_TX"}
      /\ host = [host EXCEPT !.state = host.state]
  BY HostTypes DEF HostState
<1>2. CASE host.state = "WRITE_A"
  <2>1. host' = [host EXCEPT !.state = IF ha THEN "WRITE_D" ELSE "WRITE_A"]
    BY <1>1, <1>2 DEF HostNext
  <2>2. (IF ha THEN "WRITE_D" ELSE "WRITE_A") \in HostState
    BY <1>1
  <2>3. host' \in HostType /\ HostGoes(IF ha THEN "WRITE_D" ELSE "WRITE_A")
    BY <2>1, <2>2, Goes
  <2> QED BY <1>2, <2>3
<1>3. CASE host.state = "WRITE_D" /\ (~hd \/ LastBeat)
  <2>1. host' = [host EXCEPT !.state = IF hd THEN "WRITE_RESP" ELSE "WRITE_D"]
    BY <1>1, <1>3 DEF HostNext
  <2>2. (IF hd THEN "WRITE_RESP" ELSE "WRITE_D") \in HostState
    BY <1>1
  <2>3. host' \in HostType /\ HostGoes(IF hd THEN "WRITE_RESP" ELSE "WRITE_D")
    BY <2>1, <2>2, Goes
  <2> QED BY <1>3, <2>3
<1>4. CASE host.state = "WRITE_D" /\ hd /\ ~LastBeat
  <2>1. Addressed(link.done) /\ host.meta = link.meta /\ host.beats >= 1 /\ link.done \in Nat
    BY <1>4, HostTypes DEF IInv, Engine
  <2>2. "WRITE_WAIT" \in HostState
    BY <1>1
  <2>3. host' = NextBeat("WRITE_WAIT")
    BY <1>4, Zenon DEF HostNext
  <2> DEFINE c == BurstAddr(link.meta, link.done + 1)
             n == BurstAddr(link.meta, link.done + 2)
  <2>4. /\ NextBeat("WRITE_WAIT") = [state |-> "WRITE_WAIT", meta |-> host.meta, curr |-> c, next |-> n,
                                     beats |-> host.beats - 1, wdata |-> host.wdata, first |-> host.first]
        /\ c \in 0 .. ADDR_MOD - 1 /\ n \in 0 .. ADDR_MOD - 1 /\ host.beats - 1 \in 0 .. MAX_LEN
    BY <2>1, <2>2, Advances
  <2> HIDE DEF c, n
  <2>5. [state |-> "WRITE_WAIT", meta |-> host.meta, curr |-> c, next |-> n,
         beats |-> host.beats - 1, wdata |-> host.wdata, first |-> host.first] \in HostType
    <3>1. host.meta \in Meta /\ host.wdata \in Data /\ host.first \in BOOLEAN
      BY HostTypes
    <3> QED BY <2>2, <2>4, <3>1, Zenon DEF HostType
  <2>6. HostIs("WRITE_WAIT", host.meta, c, n, host.beats - 1, host.wdata, host.first)
    BY <2>3, <2>4 DEF HostIs
  <2>7. host' \in HostType
    BY <2>3, <2>4, <2>5, Zenon
  <2> QED BY <1>4, <2>6, <2>7 DEF c, n
<1>5. CASE host.state = "WRITE_WAIT" /\ AcceptPayload
  <2>1. rx.beat = RequestBeat(link.meta, link.wdata, link.done + 1) /\ rx.beat \in Beat /\ link.meta.we
    BY <1>5, Received DEF IInv, Engine, InWrite, TypeOK
  <2>2. rx.beat.data = link.wdata[link.done + 1] /\ rx.beat.data \in Data
    BY <2>1 DEF RequestBeat, Beat
  <2>3. PICK w \in Data : w = rx.beat.data
    BY <2>2
  <2>4. host' = [host EXCEPT !.wdata = w, !.state = "WRITE_A"]
    BY <1>5, <2>3, Zenon DEF HostNext
  <2>5. host' = [state |-> "WRITE_A", meta |-> host.meta, curr |-> host.curr, next |-> host.next,
                 beats |-> host.beats, wdata |-> w, first |-> host.first]
    BY <2>4, HostTypes
  <2>6. [state |-> "WRITE_A", meta |-> host.meta, curr |-> host.curr, next |-> host.next,
         beats |-> host.beats, wdata |-> w, first |-> host.first] \in HostType
    <3>1. /\ "WRITE_A" \in HostState /\ host.meta \in Meta /\ host.curr \in 0 .. ADDR_MOD - 1
          /\ host.next \in 0 .. ADDR_MOD - 1 /\ host.beats \in 0 .. MAX_LEN /\ host.first \in BOOLEAN
      BY <1>1, HostTypes
    <3> QED BY <2>3, <3>1, Zenon DEF HostType
  <2>7. HostIs("WRITE_A", host.meta, host.curr, host.next, host.beats, w, host.first)
    BY <2>5 DEF HostIs
  <2>8. host' \in HostType
    BY <2>5, <2>6, Zenon
  <2>9. w = link.wdata[link.done + 1]
    BY <2>2, <2>3, Zenon
  <2> QED BY <1>5, <2>7, <2>8, <2>9
<1>6. CASE host.state = "WRITE_WAIT" /\ ~AcceptPayload
  <2>1. host' = [host EXCEPT !.state = "WRITE_WAIT"]
    BY <1>1, <1>6 DEF HostNext
  <2>2. host' \in HostType /\ HostGoes("WRITE_WAIT")
    BY <1>1, <2>1, Goes
  <2> QED BY <1>6, <2>2
<1>7. CASE host.state = "WRITE_RESP"
  <2>1. host' = [host EXCEPT !.state = IF TxFire THEN "IDLE" ELSE "WRITE_RESP"]
    BY <1>1, <1>7 DEF HostNext
  <2>2. (IF TxFire THEN "IDLE" ELSE "WRITE_RESP") \in HostState
    BY <1>1
  <2>3. host' \in HostType /\ HostGoes(IF TxFire THEN "IDLE" ELSE "WRITE_RESP")
    BY <2>1, <2>2, Goes
  <2> QED BY <1>7, <2>3
<1> QED BY <1>2, <1>3, <1>4, <1>5, <1>6, <1>7 DEF InWrite

\* The engine reads (host_bus_interface.sv:418-433).
LEMMA HostReads ==
  ASSUME Parameters, IInv, host.state \in InRead, NEW ha \in BOOLEAN, NEW hd \in BOOLEAN,
         host' = HostNext(ha, hd)
  PROVE  /\ host' \in HostType
         /\ host.state = "READ_A" => HostGoes(IF ha THEN "READ_D" ELSE "READ_A")
         /\ host.state = "READ_D" => HostGoes(IF hd THEN "READ_TX" ELSE "READ_D")
         /\ host.state = "READ_TX" =>
              /\ ~TxFire => HostGoes("READ_TX")
              /\ TxFire /\ LastBeat => HostIs("IDLE", host.meta, host.curr, host.next, host.beats,
                                              host.wdata, FALSE)
              /\ TxFire /\ ~LastBeat => HostIs("READ_A", host.meta, BurstAddr(link.meta, link.done),
                                               BurstAddr(link.meta, link.done + 1), host.beats - 1,
                                               host.wdata, FALSE)
<1>1. /\ HostState = {"IDLE", "WRITE_A", "WRITE_D", "WRITE_WAIT", "WRITE_RESP", "READ_A", "READ_D", "READ_TX"}
      /\ host = [host EXCEPT !.state = host.state]
      /\ FALSE \in BOOLEAN
  BY HostTypes DEF HostState
<1>2. CASE host.state = "READ_A"
  <2>1. host' = [host EXCEPT !.state = IF ha THEN "READ_D" ELSE "READ_A"]
    BY <1>1, <1>2 DEF HostNext
  <2>2. (IF ha THEN "READ_D" ELSE "READ_A") \in HostState
    BY <1>1
  <2>3. host' \in HostType /\ HostGoes(IF ha THEN "READ_D" ELSE "READ_A")
    BY <2>1, <2>2, Goes
  <2> QED BY <1>2, <2>3
<1>3. CASE host.state = "READ_D"
  <2>1. host' = [host EXCEPT !.state = IF hd THEN "READ_TX" ELSE "READ_D"]
    BY <1>1, <1>3 DEF HostNext
  <2>2. (IF hd THEN "READ_TX" ELSE "READ_D") \in HostState
    BY <1>1
  <2>3. host' \in HostType /\ HostGoes(IF hd THEN "READ_TX" ELSE "READ_D")
    BY <2>1, <2>2, Goes
  <2> QED BY <1>3, <2>3
<1>4. CASE host.state = "READ_TX" /\ ~TxFire
  <2>1. host' = [host EXCEPT !.state = "READ_TX"]
    BY <1>1, <1>4 DEF HostNext
  <2>2. host' \in HostType /\ HostGoes("READ_TX")
    BY <1>1, <2>1, Goes
  <2> QED BY <1>4, <2>2
<1>5. CASE host.state = "READ_TX" /\ TxFire /\ LastBeat
  <2>1. host' = [host EXCEPT !.first = FALSE, !.state = "IDLE"]
    BY <1>5 DEF HostNext
  <2>2. host' = [state |-> "IDLE", meta |-> host.meta, curr |-> host.curr, next |-> host.next,
                 beats |-> host.beats, wdata |-> host.wdata, first |-> FALSE]
    BY <2>1, HostTypes
  <2>3. [state |-> "IDLE", meta |-> host.meta, curr |-> host.curr, next |-> host.next,
         beats |-> host.beats, wdata |-> host.wdata, first |-> FALSE] \in HostType
    <3>1. /\ "IDLE" \in HostState /\ host.meta \in Meta /\ host.curr \in 0 .. ADDR_MOD - 1
          /\ host.next \in 0 .. ADDR_MOD - 1 /\ host.beats \in 0 .. MAX_LEN /\ host.wdata \in Data
      BY <1>1, HostTypes
    <3> QED BY <1>1, <3>1, Zenon DEF HostType
  <2>4. HostIs("IDLE", host.meta, host.curr, host.next, host.beats, host.wdata, FALSE)
    BY <2>2 DEF HostIs
  <2>5. host' \in HostType
    BY <2>2, <2>3, Zenon
  <2> QED BY <1>5, <2>4, <2>5
<1>6. CASE host.state = "READ_TX" /\ TxFire /\ ~LastBeat
  <2>1. /\ Addressed(link.done - 1) /\ host.meta = link.meta /\ link.done >= 1
        /\ host.beats = link.meta.len + 2 - link.done /\ link.done <= link.meta.len + 1
    BY <1>6 DEF IInv, Engine
  <2>2. PICK k \in Nat : k = link.done - 1
    BY <2>1, HostTypes
  <2>3. host.beats >= 1 /\ k + 1 = link.done /\ k + 2 = link.done + 1
    BY <2>1, <2>2, HostTypes
  <2>4. NextBeat("READ_A") = [state |-> "READ_A", meta |-> host.meta,
                              curr |-> BurstAddr(link.meta, k + 1), next |-> BurstAddr(link.meta, k + 2),
                              beats |-> host.beats - 1, wdata |-> host.wdata, first |-> host.first]
        /\ BurstAddr(link.meta, k + 1) \in 0 .. ADDR_MOD - 1
        /\ BurstAddr(link.meta, k + 2) \in 0 .. ADDR_MOD - 1
        /\ host.beats - 1 \in 0 .. MAX_LEN
    BY <1>1, <2>1, <2>2, <2>3, Advances
  <2> DEFINE c == BurstAddr(link.meta, link.done)
             n == BurstAddr(link.meta, link.done + 1)
  <2>5. /\ NextBeat("READ_A") = [state |-> "READ_A", meta |-> host.meta, curr |-> c, next |-> n,
                                 beats |-> host.beats - 1, wdata |-> host.wdata, first |-> host.first]
        /\ c \in 0 .. ADDR_MOD - 1 /\ n \in 0 .. ADDR_MOD - 1 /\ host.beats - 1 \in 0 .. MAX_LEN
    BY <2>3, <2>4, Zenon
  <2>6. host' = [NextBeat("READ_A") EXCEPT !.first = FALSE]
    BY <1>6 DEF HostNext
  <2> HIDE DEF c, n
  <2>7. host' = [state |-> "READ_A", meta |-> host.meta, curr |-> c, next |-> n,
                 beats |-> host.beats - 1, wdata |-> host.wdata, first |-> FALSE]
    <3>1. PICK fst : fst = FALSE
      OBVIOUS
    <3>2. PICK b : b = host.beats - 1
      OBVIOUS
    <3>3. PICK r : r = [state |-> "READ_A", meta |-> host.meta, curr |-> c, next |-> n,
                        beats |-> b, wdata |-> host.wdata, first |-> host.first]
      OBVIOUS
    <3>4. [r EXCEPT !.first = fst] = [state |-> "READ_A", meta |-> host.meta, curr |-> c, next |-> n,
                        beats |-> b, wdata |-> host.wdata, first |-> fst]
      BY <3>3
    <3> QED BY <2>5, <2>6, <3>1, <3>2, <3>3, <3>4, Zenon
  <2>8. [state |-> "READ_A", meta |-> host.meta, curr |-> c, next |-> n,
         beats |-> host.beats - 1, wdata |-> host.wdata, first |-> FALSE] \in HostType
    <3>1. "READ_A" \in HostState /\ host.meta \in Meta /\ host.wdata \in Data
      BY <1>1, HostTypes
    <3> QED BY <1>1, <2>5, <3>1, Zenon DEF HostType
  <2>9. HostIs("READ_A", host.meta, c, n, host.beats - 1, host.wdata, FALSE)
    BY <2>7 DEF HostIs
  <2>10. host' \in HostType
    BY <2>7, <2>8, Zenon
  <2> QED BY <1>6, <2>9, <2>10 DEF c, n
<1> QED BY <1>2, <1>3, <1>4, <1>5, <1>6 DEF InRead

\* No request, no change.
LEMMA HostWaits ==
  ASSUME Parameters, IInv, host.state = "IDLE", ~AcceptHostStart, NEW ha \in BOOLEAN, NEW hd \in BOOLEAN,
         host' = HostNext(ha, hd)
  PROVE  host' \in HostType /\ HostGoes("IDLE")
<1>1. host' = [host EXCEPT !.state = "IDLE"]
  BY HostTypes DEF HostNext
<1>2. "IDLE" \in HostState
  BY DEF HostState
<1> QED BY <1>1, <1>2, Goes

(***************************************************************************)
(* A clock edge preserves the invariant                                    *)
(***************************************************************************)
\* What the host knows after an edge, in the terms that the invariant needs.
LEMMA LinkAfter ==
  ASSUME Parameters, IInv, NEW a, NEW dr, NEW ha, NEW hd, NEW rd, NEW dn, NEW ar,
         EdgeIs(a, dr, ha, hd, rd, dn, ar)
  PROVE  /\ ha \in BOOLEAN /\ hd \in BOOLEAN /\ dn \in BOOLEAN /\ ar \in BOOLEAN /\ rd \in Data
         /\ hd => host.state \in {"WRITE_D", "READ_D"}
         /\ dn => tx.state = "SEND" /\ ~TxFire
         /\ host' = HostNext(ha, hd)
         /\ link' \in LinkType
         /\ link'.meta = link.meta /\ link'.wdata = link.wdata /\ link'.answer = link.answer
         /\ link'.done = IF hd THEN link.done + 1 ELSE link.done
         /\ link'.rdata = IF hd /\ host.state = "READ_D" THEN Append(link.rdata, rd) ELSE link.rdata
         /\ link'.acked = IF SendsRead \/ SendsAck THEN link.acked + 1 ELSE link.acked
         /\ link'.sending = IF SendsAsk THEN "ask" ELSE IF SendsAck THEN "last"
                            ELSE IF SendsRead THEN (IF LastBeat THEN "last" ELSE "beat")
                            ELSE IF dn THEN "none" ELSE link.sending
         /\ link'.active <=> link.active /\ ~(dn /\ link.sending = "last")
         /\ link'.owed <=> link.owed \/ (dn /\ link.sending = "ask")
         /\ bus' <=> \/ host.state \in {"WRITE_A", "READ_A"} /\ ha
                     \/ host.state \in {"WRITE_D", "READ_D"} /\ ~hd
<1>1. /\ ha \in BOOLEAN /\ hd \in BOOLEAN /\ dn \in BOOLEAN /\ ar \in BOOLEAN /\ rd \in Data
      /\ hd => bus
      /\ dn => tx.state = "SEND"
      /\ host' = HostNext(ha, hd) /\ link' = LinkNext(hd, rd, dn) /\ bus' = BusNext(ha, hd)
  BY DEF EdgeIs, Clock
<1>2. bus <=> host.state \in {"WRITE_D", "READ_D"}
  BY DEF IInv, Engine
<1>3. TxFire => tx.state # "SEND"
  BY Sends
<1>4. HostDFire(hd) <=> hd
  BY <1>1, <1>2 DEF HostDFire
<1>5. /\ host.state = "READ_D" => ~host.meta.we
      /\ host.state = "WRITE_D" => host.meta.we
  <2>1. host.state \in {"READ_D", "WRITE_D"} =>
           host.meta = link.meta /\ (link.meta.we <=> host.state \in InWrite)
    BY DEF IInv, Engine
  <2> QED BY <2>1 DEF InWrite
<1>6. /\ link' \in LinkType
      /\ link'.meta = link.meta /\ link'.wdata = link.wdata /\ link'.answer = link.answer
      /\ link'.done = IF HostDFire(hd) THEN link.done + 1 ELSE link.done
      /\ link'.rdata = IF HostDFire(hd) /\ ~host.meta.we THEN Append(link.rdata, rd) ELSE link.rdata
      /\ link'.acked = IF SendsRead \/ SendsAck THEN link.acked + 1 ELSE link.acked
      /\ link'.sending = IF SendsAsk THEN "ask" ELSE IF SendsAck THEN "last"
                         ELSE IF SendsRead THEN (IF LastBeat THEN "last" ELSE "beat")
                         ELSE IF dn THEN "none" ELSE link.sending
      /\ link'.active <=> link.active /\ ~(dn /\ link.sending = "last")
      /\ link'.owed <=> link.owed \/ (dn /\ link.sending = "ask")
  BY <1>1, LinkFacts
<1>7. /\ link'.done = IF hd THEN link.done + 1 ELSE link.done
      /\ link'.rdata = IF hd /\ host.state = "READ_D" THEN Append(link.rdata, rd) ELSE link.rdata
  BY <1>1, <1>2, <1>4, <1>5, <1>6
<1>8. bus' <=> \/ host.state \in {"WRITE_A", "READ_A"} /\ ha
               \/ host.state \in {"WRITE_D", "READ_D"} /\ ~hd
  BY <1>1, <1>2 DEF BusNext, HostAFire, HostDFire
<1> QED BY <1>1, <1>2, <1>3, <1>6, <1>7, <1>8

\* The engine's counters follow the request (host_bus_interface.sv:389-433).
LEMMA EngineStep ==
  ASSUME Parameters, IInv, NEW a, NEW dr, NEW ha, NEW hd, NEW rd, NEW dn, NEW ar,
         EdgeIs(a, dr, ha, hd, rd, dn, ar)
  PROVE  Engine'
<1>1. /\ ha \in BOOLEAN /\ hd \in BOOLEAN /\ dn \in BOOLEAN
      /\ hd => host.state \in {"WRITE_D", "READ_D"}
      /\ dn => ~TxFire
      /\ host' = HostNext(ha, hd)
      /\ link'.meta = link.meta /\ link'.wdata = link.wdata
      /\ link'.done = IF hd THEN link.done + 1 ELSE link.done
      /\ link'.sending = IF SendsAsk THEN "ask" ELSE IF SendsAck THEN "last"
                         ELSE IF SendsRead THEN (IF LastBeat THEN "last" ELSE "beat")
                         ELSE IF dn THEN "none" ELSE link.sending
      /\ link'.active <=> link.active /\ ~(dn /\ link.sending = "last")
      /\ bus' <=> \/ host.state \in {"WRITE_A", "READ_A"} /\ ha
                  \/ host.state \in {"WRITE_D", "READ_D"} /\ ~hd
  BY LinkAfter
<1>2. /\ link.done \in Nat /\ link.meta.len \in Nat /\ link.meta.we \in BOOLEAN /\ host.beats \in Nat
      /\ host.state \in HostState
  BY HostTypes
<1>3. Engine /\ Progressed
  BY DEF IInv
<1>4. CASE host.state = "IDLE" /\ ~AcceptHostStart
  <2>1. host'.state = "IDLE"
    BY <1>1, <1>4, HostWaits DEF HostGoes, HostIs
  <2> QED BY <1>1, <1>4, <2>1 DEF Engine
<1>5. CASE AcceptHostStart
  <2>1. /\ link.active /\ link.sending # "last"
        /\ HostIs(IF link.meta.we THEN "WRITE_A" ELSE "READ_A", link.meta,
                  BurstAddr(link.meta, 0), BurstAddr(link.meta, 1), link.meta.len + 1,
                  IF link.meta.we THEN link.wdata[1] ELSE host.wdata,
                  IF link.meta.we THEN host.first ELSE TRUE)
    BY <1>1, <1>5, HostTakes
  <2>2. host.state = "IDLE" /\ link.done = 0 /\ ~SendsAck /\ ~SendsRead /\ ~hd
    BY <1>1, <1>3, <1>5, <2>1 DEF AcceptHostStart, Progressed, SendsAck, SendsRead
  <2>3. link'.active /\ link'.sending # "last" /\ link'.done = 0 /\ ~bus'
    BY <1>1, <2>1, <2>2
  <2>4. /\ host'.state = IF link.meta.we THEN "WRITE_A" ELSE "READ_A"
        /\ host'.meta = link.meta /\ host'.curr = BurstAddr(link.meta, 0)
        /\ host'.next = BurstAddr(link.meta, 1) /\ host'.beats = link.meta.len + 1
        /\ link.meta.we => host'.wdata = link.wdata[1]
    BY <2>1 DEF HostIs
  <2>5. Addressed(link.done)' /\ (link.meta.we => host'.wdata = link'.wdata[link'.done + 1])
    BY <1>1, <2>3, <2>4 DEF Addressed
  <2> QED BY <1>1, <1>2, <2>3, <2>4, <2>5 DEF Engine, InWrite
<1>6. CASE host.state \in InWrite
  <2>1. /\ link.active /\ link.sending # "last" /\ host.meta = link.meta /\ link.meta.we
        /\ ~SendsRead
    BY <1>3, <1>6 DEF Engine, InWrite, SendsRead
  <2>2. link'.active /\ (link'.sending = "last" => SendsAck)
    BY <1>1, <2>1
  <2>3. CASE host.state = "WRITE_A"
    <3>1. HostGoes(IF ha THEN "WRITE_D" ELSE "WRITE_A")
      BY <1>1, <1>6, <2>3, HostWrites
    <3>2. ~SendsAck /\ link'.done = link.done /\ (bus' <=> ha)
      BY <1>1, <2>3 DEF SendsAck
    <3>3. Addressed(link.done)'
      BY <1>1, <1>3, <2>3, <3>1, <3>2 DEF Engine, Addressed, HostGoes, HostIs
    <3> QED BY <1>1, <1>2, <1>3, <2>1, <2>2, <2>3, <3>1, <3>2, <3>3 DEF Engine, InWrite, HostGoes, HostIs
  <2>4. CASE host.state = "WRITE_D" /\ ~hd
    <3>1. HostGoes("WRITE_D")
      BY <1>1, <1>6, <2>4, HostWrites
    <3>2. ~SendsAck /\ link'.done = link.done /\ bus'
      BY <1>1, <2>4 DEF SendsAck
    <3>3. Addressed(link.done)'
      BY <1>1, <1>3, <2>4, <3>1, <3>2 DEF Engine, Addressed, HostGoes, HostIs
    <3> QED BY <1>1, <1>2, <1>3, <2>1, <2>2, <2>4, <3>1, <3>2, <3>3 DEF Engine, InWrite, HostGoes, HostIs
  <2>5. CASE host.state = "WRITE_D" /\ hd /\ LastBeat
    <3>1. HostGoes("WRITE_RESP")
      BY <1>1, <1>6, <2>5, HostWrites
    <3>2. ~SendsAck /\ link'.done = link.done + 1 /\ ~bus'
      BY <1>1, <2>5 DEF SendsAck
    <3>3. link.done + 1 = link.meta.len + 1
      BY <1>2, <1>3, <2>5 DEF Engine, LastBeat
    <3> QED BY <1>1, <1>2, <2>1, <2>2, <2>5, <3>1, <3>2, <3>3 DEF Engine, InWrite, HostGoes, HostIs
  <2>6. CASE host.state = "WRITE_D" /\ hd /\ ~LastBeat
    <3>1. HostIs("WRITE_WAIT", host.meta, BurstAddr(link.meta, link.done + 1),
                 BurstAddr(link.meta, link.done + 2), host.beats - 1, host.wdata, host.first)
      BY <1>1, <1>6, <2>6, HostWrites
    <3>2. ~SendsAck /\ link'.done = link.done + 1 /\ ~bus'
      BY <1>1, <2>6 DEF SendsAck
    <3>3. /\ host.beats = link.meta.len + 1 - link.done /\ link.done <= link.meta.len /\ host.beats # 1
      BY <1>2, <1>3, <2>6 DEF Engine, LastBeat
    <3>4. Addressed(link.done)'
      <4>1. PICK k \in Nat : k = link.done + 1
        BY <1>2
      <4>2. k + 1 = link.done + 2
        BY <1>2, <4>1
      <4>3. host'.curr = BurstAddr(link.meta, k) /\ host'.next = BurstAddr(link.meta, k + 1) /\ link'.done = k
        BY <3>1, <3>2, <4>1, <4>2 DEF HostIs
      <4> QED BY <1>1, <4>3 DEF Addressed
    <3>5. /\ link'.done >= 1 /\ link'.done <= link'.meta.len
          /\ host'.beats = link'.meta.len + 1 - link'.done
      <4>1. PICK k \in Nat, n \in Nat, b \in Nat : k = link.done + 1 /\ n = link.meta.len /\ b = host.beats - 1
        BY <1>2, <3>3
      <4>2. k >= 1 /\ k <= n /\ b = n + 1 - k
        BY <1>2, <3>3, <4>1
      <4>3. link'.done = k /\ link'.meta.len = n /\ host'.beats = b
        BY <1>1, <3>1, <3>2, <4>1 DEF HostIs
      <4> QED BY <4>2, <4>3
    <3> QED BY <1>1, <2>1, <2>2, <2>6, <3>1, <3>2, <3>4, <3>5 DEF Engine, InWrite, HostIs
  <2>7. CASE host.state = "WRITE_WAIT" /\ AcceptPayload
    <3>1. HostIs("WRITE_A", host.meta, host.curr, host.next, host.beats, link.wdata[link.done + 1], host.first)
      BY <1>1, <1>6, <2>7, HostWrites
    <3>2. ~SendsAck /\ link'.done = link.done /\ ~bus'
      BY <1>1, <2>7 DEF SendsAck
    <3>3. Addressed(link.done)'
      BY <1>1, <1>3, <2>7, <3>1, <3>2 DEF Engine, Addressed, HostIs
    <3> QED BY <1>1, <1>2, <1>3, <2>1, <2>2, <2>7, <3>1, <3>2, <3>3 DEF Engine, InWrite, HostIs
  <2>8. CASE host.state = "WRITE_WAIT" /\ ~AcceptPayload
    <3>1. HostGoes("WRITE_WAIT")
      BY <1>1, <1>6, <2>8, HostWrites
    <3>2. ~SendsAck /\ link'.done = link.done /\ ~bus'
      BY <1>1, <2>8 DEF SendsAck
    <3>3. Addressed(link.done)'
      BY <1>1, <1>3, <2>8, <3>1, <3>2 DEF Engine, Addressed, HostGoes, HostIs
    <3> QED BY <1>1, <1>2, <1>3, <2>1, <2>2, <2>8, <3>1, <3>2, <3>3 DEF Engine, InWrite, HostGoes, HostIs
  <2>9. CASE host.state = "WRITE_RESP"
    <3>1. HostGoes(IF TxFire THEN "IDLE" ELSE "WRITE_RESP")
      BY <1>1, <1>6, <2>9, HostWrites
    <3>2. link'.done = link.done /\ ~bus' /\ (TxFire <=> SendsAck)
      BY <1>1, <2>9 DEF SendsAck
    <3> QED BY <1>1, <1>2, <1>3, <2>1, <2>2, <2>9, <3>1, <3>2 DEF Engine, InWrite, HostGoes, HostIs
  <2> QED BY <1>6, <2>3, <2>4, <2>5, <2>6, <2>7, <2>8, <2>9 DEF InWrite
<1>7. CASE host.state \in InRead
  <2>1. /\ link.active /\ link.sending # "last" /\ host.meta = link.meta /\ ~link.meta.we
        /\ ~SendsAck
    BY <1>3, <1>7 DEF Engine, InRead, InWrite, SendsAck
  <2>2. link'.active /\ (link'.sending = "last" => SendsRead /\ LastBeat)
    BY <1>1, <2>1
  <2>3. CASE host.state = "READ_A"
    <3>1. HostGoes(IF ha THEN "READ_D" ELSE "READ_A")
      BY <1>1, <1>7, <2>3, HostReads
    <3>2. ~SendsRead /\ link'.done = link.done /\ (bus' <=> ha)
      BY <1>1, <2>3 DEF SendsRead
    <3>3. Addressed(link.done)'
      BY <1>1, <1>3, <2>3, <3>1, <3>2 DEF Engine, Addressed, HostGoes, HostIs
    <3> QED BY <1>1, <1>2, <1>3, <2>1, <2>2, <2>3, <3>1, <3>2, <3>3 DEF Engine, InWrite, HostGoes, HostIs
  <2>4. CASE host.state = "READ_D" /\ ~hd
    <3>1. HostGoes("READ_D")
      BY <1>1, <1>7, <2>4, HostReads
    <3>2. ~SendsRead /\ link'.done = link.done /\ bus'
      BY <1>1, <2>4 DEF SendsRead
    <3>3. Addressed(link.done)'
      BY <1>1, <1>3, <2>4, <3>1, <3>2 DEF Engine, Addressed, HostGoes, HostIs
    <3> QED BY <1>1, <1>2, <1>3, <2>1, <2>2, <2>4, <3>1, <3>2, <3>3 DEF Engine, InWrite, HostGoes, HostIs
  <2>5. CASE host.state = "READ_D" /\ hd
    <3>1. HostGoes("READ_TX")
      BY <1>1, <1>7, <2>5, HostReads
    <3>2. ~SendsRead /\ link'.done = link.done + 1 /\ ~bus'
      BY <1>1, <2>5 DEF SendsRead
    <3>3. /\ link.done <= link.meta.len /\ host.beats = link.meta.len + 1 - link.done
          /\ Addressed(link.done)
      BY <1>3, <2>5 DEF Engine
    <3>4. PICK k \in Nat : k = link.done
      BY <1>2
    <3>5. link'.done - 1 = k /\ link'.done = k + 1
      BY <3>2, <3>4
    <3>6. Addressed(link.done - 1)'
      BY <1>1, <3>1, <3>3, <3>4, <3>5 DEF Addressed, HostGoes, HostIs
    <3>7. /\ link'.done >= 1 /\ link'.done <= link'.meta.len + 1
          /\ host'.beats = link'.meta.len + 2 - link'.done
      <4>1. PICK n \in Nat, b \in Nat : n = link.meta.len /\ b = host.beats
        BY <1>2
      <4>2. k <= n /\ b = n + 1 - k
        BY <3>3, <3>4, <4>1
      <4>3. link'.meta.len = n /\ host'.beats = b
        BY <1>1, <3>1, <4>1 DEF HostGoes, HostIs
      <4> QED BY <3>5, <4>2, <4>3
    <3> QED BY <1>1, <2>1, <2>2, <2>5, <3>1, <3>2, <3>6, <3>7 DEF Engine, InWrite, HostGoes, HostIs
  <2>6. CASE host.state = "READ_TX" /\ ~TxFire
    <3>1. HostGoes("READ_TX")
      BY <1>1, <1>7, <2>6, HostReads
    <3>2. ~SendsRead /\ link'.done = link.done /\ ~bus'
      BY <1>1, <2>6 DEF SendsRead
    <3>3. Addressed(link.done - 1)'
      BY <1>1, <1>3, <2>6, <3>1, <3>2 DEF Engine, Addressed, HostGoes, HostIs
    <3> QED BY <1>1, <1>2, <1>3, <2>1, <2>2, <2>6, <3>1, <3>2, <3>3 DEF Engine, InWrite, HostGoes, HostIs
  <2>7. CASE host.state = "READ_TX" /\ TxFire /\ LastBeat
    <3>1. HostIs("IDLE", host.meta, host.curr, host.next, host.beats, host.wdata, FALSE)
      BY <1>1, <1>7, <2>7, HostReads
    <3>2. ~bus'
      BY <1>1, <2>7
    <3> QED BY <1>1, <3>1, <3>2 DEF Engine, HostIs
  <2>8. CASE host.state = "READ_TX" /\ TxFire /\ ~LastBeat
    <3>1. HostIs("READ_A", host.meta, BurstAddr(link.meta, link.done),
                 BurstAddr(link.meta, link.done + 1), host.beats - 1, host.wdata, FALSE)
      BY <1>1, <1>7, <2>8, HostReads
    <3>2. SendsRead /\ link'.done = link.done /\ ~bus' /\ link'.sending = "beat"
      BY <1>1, <2>1, <2>8 DEF SendsRead, SendsAsk
    <3>3. /\ host.beats = link.meta.len + 2 - link.done /\ link.done <= link.meta.len + 1 /\ host.beats # 1
      BY <1>2, <1>3, <2>8 DEF Engine, LastBeat
    <3>4. Addressed(link.done)'
      BY <1>1, <3>1, <3>2 DEF Addressed, HostIs
    <3>5. link'.done <= link'.meta.len /\ host'.beats = link'.meta.len + 1 - link'.done
      <4>1. PICK k \in Nat, n \in Nat, b \in Nat : k = link.done /\ n = link.meta.len /\ b = host.beats - 1
        BY <1>2, <3>3
      <4>2. k <= n /\ b = n + 1 - k
        BY <1>2, <3>3, <4>1
      <4>3. link'.done = k /\ link'.meta.len = n /\ host'.beats = b
        BY <1>1, <3>1, <3>2, <4>1 DEF HostIs
      <4> QED BY <4>2, <4>3
    <3> QED BY <1>1, <2>1, <2>2, <3>1, <3>2, <3>4, <3>5 DEF Engine, InWrite, HostIs
  <2> QED BY <1>7, <2>3, <2>4, <2>5, <2>6, <2>7, <2>8 DEF InRead
<1> QED BY <1>2, <1>4, <1>5, <1>6, <1>7 DEF HostState, InWrite, InRead

\* The engine's states and what moves it from one to the other.
LEMMA EngineMoves ==
  ASSUME Parameters, IInv, NEW a, NEW dr, NEW ha, NEW hd, NEW rd, NEW dn, NEW ar,
         EdgeIs(a, dr, ha, hd, rd, dn, ar)
  PROVE  /\ host' \in HostType
         /\ host.state = "IDLE" /\ ~AcceptHostStart => host'.state = "IDLE"
         /\ AcceptHostStart => /\ host.state = "IDLE" /\ link.active /\ link.sending # "last"
                               /\ link.meta.we => host'.state = "WRITE_A"
                               /\ ~link.meta.we => host'.state = "READ_A" /\ host'.first
                               /\ host'.meta = link.meta
         /\ host.state = "WRITE_A" => host'.state \in {"WRITE_A", "WRITE_D"}
         /\ host.state = "WRITE_D" => host'.state = IF ~hd THEN "WRITE_D"
                                                    ELSE IF LastBeat THEN "WRITE_RESP" ELSE "WRITE_WAIT"
         /\ host.state = "WRITE_WAIT" => host'.state = IF AcceptPayload THEN "WRITE_A" ELSE "WRITE_WAIT"
         /\ host.state = "WRITE_RESP" => host'.state = IF SendsAck THEN "IDLE" ELSE "WRITE_RESP"
         /\ host.state = "READ_A" => host'.state \in {"READ_A", "READ_D"}
         /\ host.state = "READ_D" => host'.state = IF hd THEN "READ_TX" ELSE "READ_D"
         /\ host.state = "READ_TX" => host'.state = IF ~SendsRead THEN "READ_TX"
                                                    ELSE IF LastBeat THEN "IDLE" ELSE "READ_A"
         /\ host.state # "IDLE" => host'.meta = host.meta
         /\ host.state \in InRead =>
              /\ host'.first <=> host.first /\ ~SendsRead
              /\ host'.beats = IF SendsRead /\ ~LastBeat THEN host.beats - 1 ELSE host.beats
<1>1. ha \in BOOLEAN /\ hd \in BOOLEAN /\ host' = HostNext(ha, hd)
  BY LinkAfter
<1>2. /\ host.state \in HostState /\ link.meta.we \in BOOLEAN /\ host.first \in BOOLEAN
  BY HostTypes
<1>3. CASE host.state = "IDLE" /\ ~AcceptHostStart
  <2>1. host' \in HostType /\ HostGoes("IDLE")
    BY <1>1, <1>3, HostWaits
  <2> QED BY <1>3, <2>1 DEF HostGoes, HostIs, InRead
<1>4. CASE AcceptHostStart
  <2>1. /\ host' \in HostType
        /\ link.active /\ link.sending # "last"
        /\ HostIs(IF link.meta.we THEN "WRITE_A" ELSE "READ_A", link.meta,
                  BurstAddr(link.meta, 0), BurstAddr(link.meta, 1), link.meta.len + 1,
                  IF link.meta.we THEN link.wdata[1] ELSE host.wdata,
                  IF link.meta.we THEN host.first ELSE TRUE)
    BY <1>1, <1>4, HostTakes
  <2>2. host.state = "IDLE"
    BY <1>4 DEF AcceptHostStart
  <2>3. /\ host'.state = IF link.meta.we THEN "WRITE_A" ELSE "READ_A"
        /\ host'.first = IF link.meta.we THEN host.first ELSE TRUE
        /\ host'.meta = link.meta
    BY <2>1, Zenon DEF HostIs
  <2> QED BY <2>1, <2>2, <2>3, <1>4 DEF InRead
<1>5. CASE host.state \in InWrite
  <2>1. /\ host' \in HostType
        /\ host.state = "WRITE_A" => HostGoes(IF ha THEN "WRITE_D" ELSE "WRITE_A")
        /\ host.state = "WRITE_D" =>
             /\ ~hd => HostGoes("WRITE_D")
             /\ hd /\ LastBeat => HostGoes("WRITE_RESP")
             /\ hd /\ ~LastBeat => HostIs("WRITE_WAIT", host.meta, BurstAddr(link.meta, link.done + 1),
                                          BurstAddr(link.meta, link.done + 2), host.beats - 1,
                                          host.wdata, host.first)
        /\ host.state = "WRITE_WAIT" =>
             /\ ~AcceptPayload => HostGoes("WRITE_WAIT")
             /\ AcceptPayload => HostIs("WRITE_A", host.meta, host.curr, host.next, host.beats,
                                        link.wdata[link.done + 1], host.first)
        /\ host.state = "WRITE_RESP" => HostGoes(IF TxFire THEN "IDLE" ELSE "WRITE_RESP")
    BY <1>1, <1>5, HostWrites
  <2>2. ~AcceptHostStart /\ host.state \notin InRead /\ host.state # "IDLE"
    BY <1>5 DEF AcceptHostStart, InWrite, InRead
  <2>3. host.state = "WRITE_RESP" => (SendsAck <=> TxFire)
    BY DEF SendsAck
  <2> QED BY <2>1, <2>2, <2>3, <1>5 DEF HostGoes, HostIs, InWrite
<1>6. CASE host.state \in InRead
  <2>1. /\ host' \in HostType
        /\ host.state = "READ_A" => HostGoes(IF ha THEN "READ_D" ELSE "READ_A")
        /\ host.state = "READ_D" => HostGoes(IF hd THEN "READ_TX" ELSE "READ_D")
        /\ host.state = "READ_TX" =>
             /\ ~TxFire => HostGoes("READ_TX")
             /\ TxFire /\ LastBeat => HostIs("IDLE", host.meta, host.curr, host.next, host.beats,
                                             host.wdata, FALSE)
             /\ TxFire /\ ~LastBeat => HostIs("READ_A", host.meta, BurstAddr(link.meta, link.done),
                                              BurstAddr(link.meta, link.done + 1), host.beats - 1,
                                              host.wdata, FALSE)
    BY <1>1, <1>6, HostReads
  <2>2. ~AcceptHostStart /\ host.state \notin InWrite /\ host.state # "IDLE"
    BY <1>6 DEF AcceptHostStart, InWrite, InRead
  <2>3. SendsRead <=> host.state = "READ_TX" /\ TxFire
    BY DEF SendsRead
  <2> QED BY <2>1, <2>2, <2>3, <1>2, <1>6 DEF HostGoes, HostIs, InRead
<1> QED BY <1>2, <1>3, <1>4, <1>5, <1>6 DEF HostState, InWrite, InRead

\* What the host has got so far keeps up with the engine (host_bus_interface.sv:418-433).
LEMMA ProgressedStep ==
  ASSUME Parameters, IInv, NEW a, NEW dr, NEW ha, NEW hd, NEW rd, NEW dn, NEW ar,
         EdgeIs(a, dr, ha, hd, rd, dn, ar)
  PROVE  Progressed'
<1>1. /\ hd \in BOOLEAN /\ dn \in BOOLEAN /\ rd \in Data
      /\ hd => host.state \in {"WRITE_D", "READ_D"}
      /\ dn => tx.state = "SEND" /\ ~TxFire
      /\ link'.meta = link.meta /\ link'.wdata = link.wdata
      /\ link'.done = IF hd THEN link.done + 1 ELSE link.done
      /\ link'.rdata = IF hd /\ host.state = "READ_D" THEN Append(link.rdata, rd) ELSE link.rdata
      /\ link'.acked = IF SendsRead \/ SendsAck THEN link.acked + 1 ELSE link.acked
      /\ link'.sending = IF SendsAsk THEN "ask" ELSE IF SendsAck THEN "last"
                         ELSE IF SendsRead THEN (IF LastBeat THEN "last" ELSE "beat")
                         ELSE IF dn THEN "none" ELSE link.sending
      /\ link'.active <=> link.active /\ ~(dn /\ link.sending = "last")
  BY LinkAfter
<1>2. /\ link.done \in Nat /\ link.acked \in Nat /\ link.meta.len \in Nat /\ link.rdata \in Seq(Data)
      /\ host.state \in HostState /\ link.meta.we \in BOOLEAN /\ host.first \in BOOLEAN
      /\ Len(link.rdata) \in Nat
  BY HostTypes DEF IInv, TypeOK
<1>3. Engine /\ Progressed /\ Transmits
  BY DEF IInv
<1>4. /\ SendsRead => host.state = "READ_TX" /\ TxFire
      /\ SendsAck => host.state = "WRITE_RESP" /\ TxFire
      /\ SendsAsk => host.state \notin {"READ_TX", "WRITE_RESP"} /\ TxFire
      /\ TxFire => tx.state # "SEND"
  BY Sends DEF SendsRead, SendsAck, SendsAsk
<1>5. host.state # "IDLE" => link.active /\ link.sending # "last" /\ (link.meta.we <=> host.state \in InWrite)
  BY <1>3 DEF Engine
<1>6. tx.state = "SEND" <=> link.sending # "none"
  BY <1>3 DEF Transmits
<1>7. link'.sending = "last" => link'.active
  BY <1>1, <1>3, <1>4, <1>5 DEF Progressed
<1>8. ASSUME link'.active, link'.sending # "last", host'.state = "IDLE"
      PROVE  link'.done = 0 /\ link'.acked = 0 /\ link'.rdata = << >>
  <2>1. host.state = "IDLE"
    BY <1>1, <1>2, <1>4, <1>8, EngineMoves DEF HostState
  <2>2. link.active /\ link.sending # "last" /\ ~hd /\ ~SendsRead /\ ~SendsAck
    BY <1>1, <1>4, <1>6, <1>8, <2>1
  <2> QED BY <1>1, <1>3, <2>1, <2>2 DEF Progressed
<1>9. ASSUME host'.state \in InWrite
      PROVE  link'.acked = 0 /\ link'.rdata = << >>
  <2>1. \/ AcceptHostStart /\ host.state = "IDLE" /\ link.active /\ link.sending # "last"
        \/ host.state \in InWrite /\ ~SendsAck
    BY <1>2, <1>4, <1>9, EngineMoves DEF HostState, InWrite
  <2>2. link.acked = 0 /\ link.rdata = << >>
    BY <1>3, <2>1 DEF Progressed
  <2>3. host.state # "READ_D" /\ ~SendsRead /\ ~SendsAck
    BY <1>4, <2>1 DEF InWrite
  <2> QED BY <1>1, <2>2, <2>3
<1>10. ASSUME host'.state \in InRead
       PROVE  /\ Len(link'.rdata) = link'.done
              /\ link'.acked = IF host'.state = "READ_TX" THEN link'.done - 1 ELSE link'.done
              /\ host'.first <=> link'.acked = 0
  <2>1. CASE host.state = "IDLE"
    <3>1. AcceptHostStart
      BY <1>10, <2>1, EngineMoves DEF InRead
    <3>2. link.active /\ link.sending # "last" /\ host'.state \in {"WRITE_A", "READ_A"} /\ host'.first
      BY <1>2, <1>10, <3>1, EngineMoves DEF InRead
    <3>3. link.done = 0 /\ link.acked = 0 /\ link.rdata = << >>
      BY <1>3, <2>1, <3>2 DEF Progressed
    <3>4. link'.done = 0 /\ link'.acked = 0 /\ link'.rdata = << >>
      BY <1>1, <1>4, <2>1, <3>3
    <3> QED BY <3>2, <3>4
  <2>2. CASE host.state \in {"READ_A", "READ_D"} /\ ~hd
    <3>1. host'.state \in {"READ_A", "READ_D"} /\ ~SendsRead /\ ~SendsAck /\ (host'.first <=> host.first)
      BY <1>4, <2>2, EngineMoves DEF InRead
    <3>2. link'.done = link.done /\ link'.acked = link.acked /\ link'.rdata = link.rdata
      BY <1>1, <2>2, <3>1
    <3> QED BY <1>3, <2>2, <3>1, <3>2 DEF Progressed, InRead
  <2>3. CASE hd
    <3>1. host.state = "READ_D"
      BY <1>1, <1>10, <2>3, EngineMoves DEF InRead
    <3>2. host'.state = "READ_TX" /\ ~SendsRead /\ ~SendsAck /\ (host'.first <=> host.first)
      BY <1>4, <2>3, <3>1, EngineMoves DEF InRead
    <3>3. Len(link.rdata) = link.done /\ link.acked = link.done /\ (host.first <=> link.acked = 0)
      BY <1>3, <3>1 DEF Progressed, InRead
    <3>4. PICK k \in Nat : k = link.done
      BY <1>2
    <3>5. link'.done = k + 1 /\ link'.acked = k /\ Len(link'.rdata) = k + 1
      BY <1>1, <1>2, <2>3, <3>1, <3>2, <3>3, <3>4
    <3> QED BY <3>2, <3>3, <3>4, <3>5
  <2>4. CASE host.state = "READ_TX"
    <3>1. Len(link.rdata) = link.done /\ link.acked = link.done - 1 /\ (host.first <=> link.acked = 0)
      BY <1>3, <2>4 DEF Progressed, InRead
    <3>2. PICK k \in Nat : k = link.acked
      BY <1>2
    <3>3. link'.done = k + 1 /\ Len(link'.rdata) = k + 1 /\ link'.acked = IF SendsRead THEN k + 1 ELSE k
      BY <1>1, <1>2, <1>4, <2>4, <3>1, <3>2
    <3>4. /\ ~SendsRead => host'.state = "READ_TX" /\ (host'.first <=> host.first)
          /\ SendsRead => host'.state # "READ_TX" /\ ~host'.first
      BY <2>4, EngineMoves DEF InRead
    <3> QED BY <3>1, <3>2, <3>3, <3>4
  <2>5. host.state \notin InWrite
    BY <1>10, EngineMoves DEF InWrite, InRead
  <2> QED BY <1>2, <2>1, <2>2, <2>3, <2>4, <2>5 DEF HostState, InWrite
<1>11. link'.active /\ link'.meta.we => Len(link'.wdata) = link'.meta.len + 1
  BY <1>1, <1>3 DEF Progressed
<1> QED BY <1>7, <1>8, <1>9, <1>10, <1>11 DEF Progressed, InWrite, InRead

\* How many beats of a read the engine and the transmitter still expect when the
\* engine offers one (the counters of host_bus_interface.sv and host_bus_tx.sv).
LEMMA ReadBeats ==
  ASSUME Parameters, IInv, SendsRead
  PROVE  /\ host.beats \in Nat /\ host.beats >= 1
         /\ host.first => host.beats = link.meta.len + 1
         /\ ~host.first => host.beats = tx.beats
<1>1. host.state = "READ_TX" /\ TxFire /\ tx.state # "SEND"
  BY Sends DEF SendsRead
<1>2. /\ link.done >= 1 /\ link.done <= link.meta.len + 1
      /\ host.beats = link.meta.len + 2 - link.done
  BY <1>1 DEF IInv, Engine
<1>3. link.acked = link.done - 1 /\ (host.first <=> link.acked = 0)
  BY <1>1 DEF IInv, Progressed, InRead
<1>4. link.done \in Nat /\ link.meta.len \in Nat /\ host.beats \in Nat
  BY HostTypes
<1>5. ~host.first => tx.state = "WAIT_BEAT" /\ tx.beats = host.beats
  BY <1>1 DEF IInv, Transmits, InRead
<1> QED BY <1>2, <1>3, <1>4, <1>5

\* The transmitter's counter and the engine's stay in step (host_bus_tx.sv:76-212).
LEMMA TransmitsStep ==
  ASSUME Parameters, IInv, NEW a, NEW dr, NEW ha, NEW hd, NEW rd, NEW dn, NEW ar,
         EdgeIs(a, dr, ha, hd, rd, dn, ar)
  PROVE  Transmits'
<1>1. /\ dn \in BOOLEAN
      /\ dn => tx.state = "SEND" /\ ~TxFire
      /\ link'.meta = link.meta
      /\ link'.sending = IF SendsAsk THEN "ask" ELSE IF SendsAck THEN "last"
                         ELSE IF SendsRead THEN (IF LastBeat THEN "last" ELSE "beat")
                         ELSE IF dn THEN "none" ELSE link.sending
  BY LinkAfter
<1>2. tx' = TxNext(dn)
  BY DEF EdgeIs, Clock
<1>3. /\ SendsRead => /\ tx'.state = "SEND" /\ tx'.payload
                      /\ tx'.beats = IF host.first THEN link.meta.len + 1 ELSE tx.beats
      /\ SendsAck => tx'.state = "SEND" /\ ~tx'.payload
      /\ SendsAsk => tx'.state = "SEND" /\ tx'.beats = 1
      /\ ~TxFire /\ ~(tx.state = "SEND" /\ dn) => tx' = tx
      /\ ~TxFire /\ tx.state = "SEND" /\ dn =>
           /\ tx'.payload = tx.payload
           /\ tx'.state = IF tx.payload /\ tx.beats # 1 THEN "WAIT_BEAT" ELSE "IDLE"
           /\ tx'.beats = IF tx.payload THEN tx.beats - 1 ELSE tx.beats
  BY <1>1, <1>2, TxFacts
<1>4. Transmits
  BY DEF IInv
<1>5. /\ host.state \in HostState /\ host.beats \in Nat /\ host.first \in BOOLEAN /\ link.meta.len \in Nat
      /\ tx.beats \in Nat /\ tx.state \in {"IDLE", "SEND", "WAIT_BEAT"}
      /\ link.sending \in {"none", "beat", "last", "ask"}
  BY HostTypes DEF IInv, TypeOK
<1>6. /\ TxFire <=> SendsRead \/ SendsAck \/ SendsAsk
      /\ SendsRead => host.state = "READ_TX" /\ TxFire
      /\ SendsAck => host.state = "WRITE_RESP" /\ TxFire
      /\ SendsAsk => host.state \notin {"READ_TX", "WRITE_RESP"} /\ TxFire
      /\ TxFire => tx.state # "SEND"
      /\ SendsAsk \/ SendsAck => tx.state = "IDLE"
  BY Sends DEF SendsRead, SendsAck, SendsAsk
<1>7. host.state \in InRead =>
        /\ host'.first <=> host.first /\ ~SendsRead
        /\ host'.beats = IF SendsRead /\ ~LastBeat THEN host.beats - 1 ELSE host.beats
        /\ ~SendsRead => host'.state \in InRead
        /\ SendsRead /\ ~LastBeat => host'.state \in InRead
        /\ SendsRead /\ LastBeat => host'.state \notin InRead
  BY <1>6, EngineMoves DEF InRead
<1>8. host.state \notin InRead => (host'.state \in InRead => host'.first)
  BY <1>5, EngineMoves DEF HostState, InRead
<1>9. CASE SendsRead
  <2>1. /\ host.state = "READ_TX" /\ host.state \in InRead /\ ~SendsAck /\ ~SendsAsk
        /\ ~host'.first
    BY <1>6, <1>7, <1>9 DEF InRead
  <2>2. PICK b \in Nat : b = tx'.beats
    BY <1>3, <1>5, <1>9
  <2>3. b = host.beats /\ host.beats >= 1
    BY <1>3, <1>9, <2>2, ReadBeats
  <2>4. LastBeat => b = 1
    BY <2>3 DEF LastBeat
  <2>5. ~LastBeat => b = host'.beats + 1
    BY <1>5, <1>7, <1>9, <2>1, <2>3
  <2>6. tx'.state = "SEND" /\ tx'.payload
        /\ link'.sending = IF LastBeat THEN "last" ELSE "beat"
    BY <1>1, <1>3, <1>9, <2>1
  <2> QED BY <1>7, <1>9, <2>1, <2>2, <2>4, <2>5, <2>6 DEF Transmits, InRead
<1>10. CASE SendsAck \/ SendsAsk
  <2>1. host'.state \in InRead => host'.first
    <3>1. host.state \in InRead => host.first
      BY <1>4, <1>6, <1>10 DEF Transmits
    <3>2. ~SendsRead
      BY <1>6, <1>10
    <3> QED BY <1>7, <1>8, <3>1, <3>2
  <2> QED BY <1>1, <1>3, <1>6, <1>10, <2>1 DEF Transmits, InRead
<1>11. CASE ~TxFire /\ dn
  <2>1. /\ ~SendsRead /\ ~SendsAck /\ ~SendsAsk /\ tx.state = "SEND" /\ link'.sending = "none"
        /\ tx'.payload = tx.payload
        /\ tx'.state = IF tx.payload /\ tx.beats # 1 THEN "WAIT_BEAT" ELSE "IDLE"
        /\ tx'.beats = IF tx.payload THEN tx.beats - 1 ELSE tx.beats
    BY <1>1, <1>3, <1>6, <1>11
  <2>2. CASE link.sending = "beat"
    <3>1. host.state \in InRead /\ ~host.first /\ tx.payload /\ tx.beats = host.beats + 1
      BY <1>4, <2>2 DEF Transmits
    <3>2. host.beats >= 1
      BY <1>5, <3>1, HostTypes DEF IInv, Engine, InRead
    <3>3. /\ host'.state \in InRead /\ ~host'.first /\ host'.beats = host.beats
          /\ tx'.payload /\ tx'.state = "WAIT_BEAT" /\ tx'.beats = host.beats
      BY <1>5, <1>7, <2>1, <3>1, <3>2
    <3> QED BY <2>1, <3>3 DEF Transmits, InRead
  <2>3. CASE link.sending # "beat"
    <3>1. tx'.state = "IDLE"
      BY <1>4, <1>5, <2>1, <2>3 DEF Transmits
    <3>2. host.state \in InRead => host.first
      BY <1>4, <2>1, <2>3 DEF Transmits
    <3>3. host'.state \in InRead => host'.first
      BY <1>7, <1>8, <2>1, <3>2
    <3> QED BY <2>1, <3>1, <3>3 DEF Transmits, InRead
  <2> QED BY <2>2, <2>3
<1>12. CASE ~TxFire /\ ~dn
  <2>1. tx' = tx /\ link'.sending = link.sending /\ ~SendsRead
    BY <1>1, <1>3, <1>6, <1>12
  <2>2. /\ host.state \in InRead =>
             host'.state \in InRead /\ (host'.first <=> host.first) /\ host'.beats = host.beats
        /\ host.state \notin InRead /\ host'.state \in InRead => host'.first
    BY <1>7, <1>8, <2>1
  <2> QED BY <1>4, <2>1, <2>2 DEF Transmits, InRead
<1> QED BY <1>6, <1>9, <1>10, <1>11, <1>12

\* The staging register holds what the engine waits to see off (host_bus_interface.sv:435-465).
LEMMA StagedStep ==
  ASSUME Parameters, IInv, NEW a, NEW dr, NEW ha, NEW hd, NEW rd, NEW dn, NEW ar,
         EdgeIs(a, dr, ha, hd, rd, dn, ar)
  PROVE  Staged'
<1>1. /\ hd \in BOOLEAN /\ rd \in Data
      /\ hd => host.state \in {"WRITE_D", "READ_D"}
      /\ link'.done = IF hd THEN link.done + 1 ELSE link.done
      /\ link'.rdata = IF hd /\ host.state = "READ_D" THEN Append(link.rdata, rd) ELSE link.rdata
  BY LinkAfter
<1>2. slice' = SliceNext(hd, rd)
  BY DEF EdgeIs, Clock
<1>3. /\ host.state = "READ_D" /\ hd =>
           slice'.valid /\ slice'.beat = [start |-> host.first, last |-> LastBeat, req |-> FALSE,
                                          meta |-> host.meta, data |-> rd]
      /\ host.state = "READ_TX" => slice'.beat = slice.beat /\ (slice'.valid <=> ~TxFire)
      /\ host.state = "WRITE_RESP" => (slice'.valid => ~TxFire /\ slice'.beat = WriteResponse)
      /\ ~(host.state = "READ_D" /\ hd) /\ host.state \notin {"READ_TX", "WRITE_RESP"} => ~slice'.valid
  BY <1>1, <1>2, SliceFacts
<1>4. Staged /\ Progressed
  BY DEF IInv
<1>5. /\ link.done \in Nat /\ link.rdata \in Seq(Data) /\ host.state \in HostState
      /\ host.first \in BOOLEAN
  BY HostTypes DEF IInv, TypeOK
<1>6. CASE host.state = "READ_D" /\ hd
  <2>1. /\ host'.state = "READ_TX" /\ host'.meta = host.meta /\ (host'.first <=> host.first)
        /\ host'.beats = host.beats /\ host' \in HostType
    BY <1>6, EngineMoves DEF InRead, SendsRead
  <2>2. host'.first = host.first
    BY <1>5, <2>1 DEF HostType
  <2>3. Len(link.rdata) = link.done
    BY <1>4, <1>6 DEF Progressed, InRead
  <2>4. PICK k \in Nat : k = link.done + 1
    BY <1>5
  <2>5. link'.done = k /\ link'.rdata[k] = rd
    BY <1>1, <1>5, <1>6, <2>3, <2>4
  <2>6. ReadBeat' = [start |-> host.first, last |-> LastBeat, req |-> FALSE,
                     meta |-> host.meta, data |-> rd]
    <3>1. ReadBeat' = [start |-> host'.first, last |-> LastBeat', req |-> FALSE,
                       meta |-> host'.meta, data |-> link'.rdata[link'.done]]
      BY Zenon DEF ReadBeat
    <3>2. LastBeat' = LastBeat
      BY <2>1 DEF LastBeat
    <3> QED BY <2>1, <2>2, <2>5, <3>1, <3>2, Zenon
  <2>7. slice'.valid /\ slice'.beat = ReadBeat'
    BY <1>3, <1>6, <2>6, Zenon
  <2> QED BY <2>1, <2>7 DEF Staged
<1>7. CASE host.state = "READ_TX" /\ TxFire
  <2>1. host'.state # "READ_TX" /\ ~slice'.valid
    BY <1>3, <1>7, EngineMoves DEF SendsRead
  <2> QED BY <2>1 DEF Staged
<1>8. CASE host.state = "READ_TX" /\ ~TxFire
  <2>1. /\ host'.state = "READ_TX" /\ host'.meta = host.meta /\ (host'.first <=> host.first)
        /\ host'.beats = host.beats /\ host' \in HostType
    BY <1>8, EngineMoves DEF InRead, SendsRead
  <2>2. host'.first = host.first
    BY <1>5, <2>1 DEF HostType
  <2>3. slice'.valid /\ slice'.beat = slice.beat /\ slice.beat = ReadBeat
    BY <1>3, <1>4, <1>8 DEF Staged
  <2>4. link'.done = link.done /\ link'.rdata = link.rdata
    BY <1>1, <1>8
  <2>5. ReadBeat' = ReadBeat
    <3>1. ReadBeat' = [start |-> host'.first, last |-> LastBeat', req |-> FALSE,
                       meta |-> host'.meta, data |-> link'.rdata[link'.done]]
      BY Zenon DEF ReadBeat
    <3>2. LastBeat' = LastBeat
      BY <2>1 DEF LastBeat
    <3> QED BY <2>1, <2>2, <2>4, <3>1, <3>2, Zenon DEF ReadBeat
  <2> QED BY <2>1, <2>3, <2>5 DEF Staged
<1>9. CASE host.state = "WRITE_RESP"
  <2>1. host'.meta = host.meta /\ (host'.state = IF SendsAck THEN "IDLE" ELSE "WRITE_RESP")
        /\ (SendsAck <=> TxFire)
    BY <1>9, EngineMoves DEF SendsAck
  <2>2. WriteResponse' = WriteResponse
    BY <2>1, Zenon DEF WriteResponse
  <2> QED BY <1>3, <1>9, <2>1, <2>2 DEF Staged
<1>10. CASE ~(host.state = "READ_D" /\ hd) /\ host.state \notin {"READ_TX", "WRITE_RESP"}
  <2>1. host'.state # "READ_TX"
    BY <1>5, <1>10, EngineMoves DEF HostState
  <2> QED BY <1>3, <1>10, <2>1 DEF Staged
<1> QED BY <1>6, <1>7, <1>8, <1>9, <1>10

\* The CPU's access moves on (host_bus_interface.sv:361-386).
LEMMA AsksStep ==
  ASSUME Parameters, IInv, NEW a, NEW dr, NEW ha, NEW hd, NEW rd, NEW dn, NEW ar,
         EdgeIs(a, dr, ha, hd, rd, dn, ar)
  PROVE  Asks'
<1>1. /\ dn \in BOOLEAN
      /\ dn => tx.state = "SEND" /\ ~TxFire
      /\ link'.answer = link.answer
      /\ link'.sending = IF SendsAsk THEN "ask" ELSE IF SendsAck THEN "last"
                         ELSE IF SendsRead THEN (IF LastBeat THEN "last" ELSE "beat")
                         ELSE IF dn THEN "none" ELSE link.sending
      /\ link'.owed <=> link.owed \/ (dn /\ link.sending = "ask")
  BY LinkAfter
<1>2. /\ a = << >> \/ (a \in CpuRequest \X CpuWords /\ MemAReady)
      /\ dr \in BOOLEAN /\ cpu' = CpuNext(a, dr)
  BY DEF EdgeIs, Clock
<1>3. /\ cpu'.req_pending <=> ~SendsAsk /\ (a # << >> \/ cpu.req_pending)
      /\ cpu'.wait_resp <=> ~AcceptCpuResp /\ (SendsAsk \/ cpu.wait_resp)
      /\ cpu'.resp_valid <=> AcceptCpuResp \/ (cpu.resp_valid /\ ~dr)
      /\ cpu'.resp_data = IF AcceptCpuResp THEN rx.beat.data ELSE cpu.resp_data
      /\ a # << >> => ~cpu.req_pending /\ ~cpu.wait_resp /\ ~cpu.resp_valid
  BY <1>2, CpuFacts
<1>4. Asks /\ Transmits
  BY DEF IInv
<1>5. AcceptCpuResp => rx.beat.data = link.answer /\ Answering /\ cpu.wait_resp
  BY Received DEF AcceptCpuResp
<1>6. /\ SendsAsk => cpu.req_pending /\ TxFire
      /\ SendsRead \/ SendsAck => TxFire
      /\ TxFire => tx.state # "SEND"
  BY Sends DEF SendsRead, SendsAck, SendsAsk
<1>7. AcceptCpuResp => ~link.owed /\ link.sending # "ask"
  BY <1>5 DEF Answering
<1>8. link'.sending = "ask" => SendsAsk \/ (link.sending = "ask" /\ ~dn)
  BY <1>1
<1> QED BY <1>1, <1>3, <1>4, <1>5, <1>6, <1>7, <1>8 DEF Asks

\* A request of which nothing is left does not matter any more.
LEMMA MixEmpty ==
  ASSUME NEW s, NEW a, NEW m, NEW w, NEW t, NEW x, Mix(s, a, m, w, t, 0, x), NEW r, NEW v, NEW u
  PROVE  Mix(s, a, r, v, u, 0, x)
<1>1. /\ a \in 0 .. Len(s) /\ Len(s) = IF a = 0 THEN 0 ELSE 0 + 1
      /\ \A i \in 1 .. Len(s) : i = a /\ ~s[i].req /\ s[i].data = x
  BY DEF Mix
<1> QED BY <1>1 DEF Mix

\* One beat of the request is taken, or what is left of it stays.
LEMMA TakenStep ==
  ASSUME Parameters, IInv, NEW a, NEW dr, NEW ha, NEW hd, NEW rd, NEW dn, NEW ar,
         EdgeIs(a, dr, ha, hd, rd, dn, ar)
  PROVE  /\ AcceptHostStart \/ AcceptPayload => Taken' = Taken + 1 /\ Left' = Left - 1
         /\ ~AcceptHostStart /\ ~AcceptPayload => Left' = Left /\ (Left # 0 => Taken' = Taken)
<1>1. /\ hd \in BOOLEAN /\ dn \in BOOLEAN
      /\ hd => host.state \in {"WRITE_D", "READ_D"}
      /\ dn => tx.state = "SEND" /\ ~TxFire
      /\ link'.meta = link.meta
      /\ link'.done = IF hd THEN link.done + 1 ELSE link.done
      /\ link'.sending = IF SendsAsk THEN "ask" ELSE IF SendsAck THEN "last"
                         ELSE IF SendsRead THEN (IF LastBeat THEN "last" ELSE "beat")
                         ELSE IF dn THEN "none" ELSE link.sending
      /\ link'.active <=> link.active /\ ~(dn /\ link.sending = "last")
  BY LinkAfter
<1>2. /\ host.state \in HostState /\ link.done \in Nat /\ link.meta.len \in Nat /\ link.meta.we \in BOOLEAN
      /\ host.beats \in Nat
  BY HostTypes
<1>3. PICK n \in Nat : n = BeatsOf(link.meta) /\ n = IF link.meta.we THEN link.meta.len + 1 ELSE 1
  BY TakenFacts DEF BeatsOf
<1>4. BeatsOf(link'.meta) = n
  BY <1>1, <1>3
<1>5. /\ Taken = CASE host.state = "IDLE" -> IF link.sending = "last" THEN n ELSE 0
                   [] host.state \in {"WRITE_A", "WRITE_D"} -> link.done + 1
                   [] host.state = "WRITE_WAIT" -> link.done
                   [] OTHER -> n
      /\ Left = IF link.active THEN n - Taken ELSE 0
  BY <1>3, Zenon DEF Taken, Left
<1>6. /\ Taken' = CASE host'.state = "IDLE" -> IF link'.sending = "last" THEN n ELSE 0
                    [] host'.state \in {"WRITE_A", "WRITE_D"} -> link'.done + 1
                    [] host'.state = "WRITE_WAIT" -> link'.done
                    [] OTHER -> n
      /\ Left' = IF link'.active THEN n - Taken' ELSE 0
  BY <1>4, Zenon DEF Taken, Left
<1>7. Engine /\ Progressed /\ Transmits
  BY DEF IInv
<1>8. /\ SendsRead => host.state = "READ_TX" /\ TxFire
      /\ SendsAck => host.state = "WRITE_RESP" /\ TxFire
      /\ SendsAsk => host.state \notin {"READ_TX", "WRITE_RESP"} /\ TxFire
      /\ TxFire => tx.state # "SEND"
      /\ tx.state = "SEND" <=> link.sending # "none"
  BY <1>7, Sends DEF SendsRead, SendsAck, SendsAsk, Transmits
<1>9. host.state # "IDLE" => /\ link.active /\ link.sending # "last" /\ link'.active
                             /\ link.meta.we <=> host.state \in InWrite
  BY <1>1, <1>7 DEF Engine
<1>10. CASE host.state = "IDLE" /\ ~AcceptHostStart
  <2>1. host'.state = "IDLE" /\ ~AcceptPayload
    BY <1>10, EngineMoves DEF AcceptPayload
  <2>2. link.sending # "last" => link'.sending # "last" /\ (link'.active <=> link.active)
    BY <1>1, <1>8, <1>10
  <2>3. link.sending = "last" => (link'.sending = "last" /\ link'.active) \/ ~link'.active
    BY <1>1, <1>7, <1>8, <1>10 DEF Progressed
  <2> QED BY <1>5, <1>6, <1>10, <2>1, <2>2, <2>3
<1>11. CASE AcceptHostStart
  <2>1. /\ host.state = "IDLE" /\ link.active /\ link.sending # "last"
        /\ link.meta.we => host'.state = "WRITE_A"
        /\ ~link.meta.we => host'.state = "READ_A"
    BY <1>11, EngineMoves
  <2>2. link.done = 0 /\ ~hd /\ link'.active
    BY <1>1, <1>7, <2>1 DEF Progressed
  <2>3. Taken = 0 /\ Left = n
    BY <1>5, <2>1
  <2>4. link'.done = 0
    BY <1>1, <2>2
  <2>5. Taken' = 1
    BY <1>2, <1>3, <1>6, <2>1, <2>4
  <2>6. Left' = n - 1
    BY <1>6, <2>2, <2>5
  <2> QED BY <1>11, <2>3, <2>5, <2>6
<1>12. CASE host.state \in InWrite
  <2>1. ~AcceptHostStart
    BY <1>12 DEF AcceptHostStart, InWrite
  <2>2. CASE host.state = "WRITE_A"
    BY <1>1, <1>5, <1>6, <1>9, <2>1, <2>2, EngineMoves DEF AcceptPayload
  <2>3. CASE host.state = "WRITE_D"
    <3>1. hd /\ LastBeat => link.done + 1 = n
      BY <1>2, <1>3, <1>7, <1>9, <1>12, <2>3 DEF Engine, LastBeat
    <3>2. Taken = link.done + 1 /\ ~AcceptPayload
      BY <1>5, <2>3 DEF AcceptPayload
    <3>3. Taken' = link.done + 1
      BY <1>1, <1>6, <2>3, <3>1, EngineMoves
    <3> QED BY <1>5, <1>6, <1>9, <2>1, <2>3, <3>2, <3>3
  <2>4. CASE host.state = "WRITE_WAIT"
    <3>1. Taken = link.done /\ link'.done = link.done
      BY <1>1, <1>5, <2>4
    <3>2. Taken' = IF AcceptPayload THEN link.done + 1 ELSE link.done
      BY <1>6, <2>4, <3>1, EngineMoves
    <3>3. PICK k \in Nat : k = Taken'
      BY <1>2, <3>2
    <3>4. Left' = n - k /\ Left = n - link.done
      BY <1>5, <1>6, <1>9, <2>4, <3>1, <3>3
    <3> QED BY <1>2, <2>1, <3>1, <3>2, <3>3, <3>4
  <2>5. CASE host.state = "WRITE_RESP"
    <3>1. SendsAck => link'.sending = "last"
      BY <1>1, <1>8
    <3>2. Taken = n /\ Taken' = n /\ ~AcceptPayload
      BY <1>5, <1>6, <2>5, <3>1, EngineMoves DEF AcceptPayload
    <3> QED BY <1>5, <1>6, <1>9, <2>1, <2>5, <3>2
  <2> QED BY <1>12, <2>2, <2>3, <2>4, <2>5 DEF InWrite
<1>13. CASE host.state \in InRead
  <2>1. ~AcceptHostStart /\ ~AcceptPayload
    BY <1>13 DEF AcceptHostStart, AcceptPayload, InRead
  <2>2. SendsRead /\ LastBeat => link'.sending = "last"
    BY <1>1, <1>8
  <2>3. /\ Taken = n
        /\ host'.state \in InRead \/ (host'.state = "IDLE" /\ SendsRead /\ LastBeat)
    BY <1>5, <1>13, EngineMoves DEF InRead
  <2>4. Taken' = n
    BY <1>6, <2>2, <2>3 DEF InRead
  <2> QED BY <1>5, <1>6, <1>9, <1>13, <2>1, <2>3, <2>4 DEF InRead
<1> QED BY <1>2, <1>10, <1>11, <1>12, <1>13 DEF HostState, InWrite, InRead

\* A mixture, with an answer in it or not, is what waits at the receiver.
LEMMA ReceivesIf ==
  ASSUME NEW s, NEW b, s = Coming', Mix(s, b, link'.meta, link'.wdata, Taken', Left', link'.answer),
         b # 0 <=> Answering'
  PROVE  Receives'
<1>1. b \in 0 .. Len(s)
  BY DEF Mix
<1>2. \E x \in 0 .. Len(s) :
        /\ Mix(s, x, link'.meta, link'.wdata, Taken', Left', link'.answer)
        /\ x # 0 <=> Answering'
  BY <1>1
<1> QED BY <1>2 DEF Receives

\* What waits at the receiver is taken in order (host_bus_interface.sv:331-358).
LEMMA ReceivesStep ==
  ASSUME Parameters, IInv, NEW a, NEW dr, NEW ha, NEW hd, NEW rd, NEW dn, NEW ar,
         EdgeIs(a, dr, ha, hd, rd, dn, ar)
  PROVE  Receives'
<1>1. /\ dn \in BOOLEAN /\ ar \in BOOLEAN
      /\ dn => tx.state = "SEND" /\ ~TxFire
      /\ link'.meta = link.meta /\ link'.wdata = link.wdata /\ link'.answer = link.answer
      /\ link'.sending = IF SendsAsk THEN "ask" ELSE IF SendsAck THEN "last"
                         ELSE IF SendsRead THEN (IF LastBeat THEN "last" ELSE "beat")
                         ELSE IF dn THEN "none" ELSE link.sending
      /\ link'.owed <=> link.owed \/ (dn /\ link.sending = "ask")
  BY LinkAfter
<1>2. /\ a = << >> \/ (a \in CpuRequest \X CpuWords /\ MemAReady)
      /\ dr \in BOOLEAN /\ cpu' = CpuNext(a, dr) /\ rx' = RxNext(ar)
  BY DEF EdgeIs, Clock
<1>3. cpu'.wait_resp <=> ~AcceptCpuResp /\ (SendsAsk \/ cpu.wait_resp)
  BY <1>2, CpuFacts
<1>4. rx \in RxType
  BY DEF IInv, TypeOK, RxType
<1>5. Coming' = IF RxReady THEN Tail(Coming) ELSE Coming
  BY <1>1, <1>2, <1>4, RxFacts
<1>6. PICK b : /\ Mix(Coming, b, link.meta, link.wdata, Taken, Left, link.answer)
               /\ b # 0 <=> Answering
  BY DEF IInv, Receives
<1>7. Taken \in Nat /\ Left \in Nat
  BY TakenFacts
<1>8. /\ AcceptHostStart \/ AcceptPayload => Taken' = Taken + 1 /\ Left' = Left - 1
      /\ ~AcceptHostStart /\ ~AcceptPayload => Left' = Left /\ (Left # 0 => Taken' = Taken)
  BY TakenStep
<1>9. Coming \in Seq(Beat) /\ (rx.valid => Coming # << >> /\ Coming[1] = rx.beat)
  BY <1>4, ComingIs
<1>10. Answering' <=> Answering /\ ~AcceptCpuResp
  <2>1. /\ Asks /\ Transmits
    BY DEF IInv
  <2>2. /\ SendsAsk => cpu.req_pending /\ TxFire
        /\ SendsRead \/ SendsAck => TxFire
        /\ TxFire => tx.state # "SEND"
    BY Sends DEF SendsRead, SendsAck, SendsAsk
  <2>3. SendsAsk => ~Answering /\ link'.sending = "ask"
    BY <1>1, <2>1, <2>2 DEF Asks, Answering
  <2>4. ~SendsAsk => (link'.sending # "ask" /\ ~link'.owed <=> link.sending # "ask" /\ ~link.owed)
    BY <1>1, <2>1, <2>2 DEF Transmits
  <2> QED BY <1>3, <2>3, <2>4 DEF Answering
<1>11. CASE AcceptCpuResp
  <2>1. rx.valid /\ ~rx.beat.req /\ RxReady /\ ~AcceptHostStart /\ ~AcceptPayload
    BY <1>11 DEF AcceptCpuResp, RxReady, AcceptHostStart, AcceptPayload
  <2>2. Mix(Tail(Coming), 0, link.meta, link.wdata, Taken, Left, link.answer)
    BY <1>6, <1>7, <1>9, <2>1, MixAnswer
  <2>3. Mix(Tail(Coming), 0, link.meta, link.wdata, Taken', Left', link.answer)
    <3>1. CASE Left # 0
      BY <1>8, <2>1, <2>2, <3>1, Zenon
    <3>2. CASE Left = 0
      BY <1>8, <2>1, <2>2, <3>2, MixEmpty, Zenon
    <3> QED BY <3>1, <3>2
  <2>4. /\ Mix(Tail(Coming), 0, link'.meta, link'.wdata, Taken', Left', link'.answer)
        /\ Tail(Coming) = Coming'
    BY <1>1, <1>5, <2>1, <2>3, Zenon
  <2>5. 0 # 0 <=> Answering'
    BY <1>10, <1>11
  <2> QED BY <2>4, <2>5, ReceivesIf, Zenon
<1>12. CASE AcceptHostStart \/ AcceptPayload
  <2>1. rx.valid /\ rx.beat.req /\ RxReady /\ ~AcceptCpuResp
    BY <1>12 DEF AcceptCpuResp, RxReady, AcceptHostStart, AcceptPayload
  <2> DEFINE c == IF b = 0 THEN 0 ELSE b - 1
  <2>2. /\ b # 1
        /\ Mix(Tail(Coming), c, link.meta, link.wdata, Taken + 1, Left - 1, link.answer)
    BY <1>6, <1>7, <1>9, <2>1, MixTake
  <2>3. /\ Mix(Tail(Coming), c, link'.meta, link'.wdata, Taken', Left', link'.answer)
        /\ Tail(Coming) = Coming'
    BY <1>1, <1>5, <1>8, <1>12, <2>1, <2>2, Zenon
  <2>4. c # 0 <=> Answering'
    <3>1. b \in 0 .. Len(Coming) /\ Len(Coming) \in Nat
      BY <1>6, <1>9 DEF Mix
    <3> QED BY <1>6, <1>10, <2>1, <2>2, <3>1
  <2> HIDE DEF c
  <2> QED BY <2>3, <2>4, ReceivesIf, Zenon
<1>13. CASE ~RxReady
  <2>1. ~AcceptHostStart /\ ~AcceptPayload /\ ~AcceptCpuResp
    BY <1>13 DEF RxReady
  <2>2. Mix(Coming, b, link.meta, link.wdata, Taken', Left', link.answer)
    <3>1. CASE Left # 0
      BY <1>6, <1>8, <2>1, <3>1, Zenon
    <3>2. CASE Left = 0
      BY <1>6, <1>8, <2>1, <3>2, MixEmpty, Zenon
    <3> QED BY <3>1, <3>2
  <2>3. /\ Mix(Coming, b, link'.meta, link'.wdata, Taken', Left', link'.answer)
        /\ Coming = Coming'
    BY <1>1, <1>5, <1>13, <2>2, Zenon
  <2>4. b # 0 <=> Answering'
    BY <1>6, <1>10, <2>1
  <2> QED BY <2>3, <2>4, ReceivesIf, Zenon
<1> QED BY <1>11, <1>12, <1>13 DEF RxReady

\* The registers keep their widths.
LEMMA TypesStep ==
  ASSUME Parameters, IInv, NEW a, NEW dr, NEW ha, NEW hd, NEW rd, NEW dn, NEW ar,
         EdgeIs(a, dr, ha, hd, rd, dn, ar)
  PROVE  TypeOK'
<1>1. /\ hd \in BOOLEAN /\ dn \in BOOLEAN /\ ar \in BOOLEAN /\ rd \in Data
      /\ link' \in LinkType
  BY LinkAfter
<1>2. /\ a = << >> \/ (a \in CpuRequest \X CpuWords /\ MemAReady)
      /\ dr \in BOOLEAN /\ cpu' = CpuNext(a, dr) /\ rx' = RxNext(ar)
      /\ tx' = TxNext(dn) /\ slice' = SliceNext(hd, rd) /\ bus' = BusNext(ha, hd)
  BY DEF EdgeIs, Clock
<1>3. cpu' \in CpuType
  BY <1>2, CpuFacts
<1>4. host' \in HostType
  BY EngineMoves
<1>5. slice' \in SliceType
  BY <1>1, <1>2, SliceFacts
<1>6. rx' \in RxType
  <2>1. rx \in RxType
    BY DEF IInv, TypeOK, RxType
  <2> QED BY <1>1, <1>2, <2>1, RxFacts
<1>7. tx' \in TxType
  BY <1>1, <1>2, TxFacts
<1>8. bus' \in BOOLEAN
  BY <1>2 DEF BusNext
<1> QED BY <1>1, <1>3, <1>4, <1>5, <1>6, <1>7, <1>8
        DEF TypeOK, CpuType, HostType, SliceType, RxType, TxType, LinkType

\* Whatever the inputs of a clock edge are.
LEMMA EdgeStep ==
  ASSUME Parameters, IInv, Edge
  PROVE  IInv'
<1>1. PICK a, dr, ha, hd, rd, dn, ar : EdgeIs(a, dr, ha, hd, rd, dn, ar)
  BY EdgeInputs
<1>2. TypeOK' /\ Engine' /\ Progressed' /\ Transmits' /\ Staged' /\ Receives' /\ Asks'
  BY <1>1, TypesStep, EngineStep, ProgressedStep, TransmitsStep, StagedStep, ReceivesStep, AsksStep
<1> QED BY <1>2 DEF IInv

(***************************************************************************)
(* The host and a reset preserve the invariant                             *)
(***************************************************************************)
\* The packet of a request, beat by beat.
LEMMA Packet ==
  ASSUME Parameters, NEW m \in HostRequest, NEW w \in Payloads(m)
  PROVE  /\ m \in Meta
         /\ RequestBeats(m, w) \in Seq(Beat) /\ Len(RequestBeats(m, w)) = BeatsOf(m)
         /\ \A i \in 1 .. Len(RequestBeats(m, w)) : RequestBeats(m, w)[i] = RequestBeat(m, w, i)
         /\ w \in Seq(Data) /\ (m.we => Len(w) = m.len + 1)
<1>1. m \in Meta /\ 0 \in Data
  BY DEF Parameters, RequestAssumption, SizesAssumption
<1>2. m.we \in BOOLEAN /\ m.len \in Nat
  BY <1>1 DEF Meta, Parameters, SizesAssumption
<1>3. PICK n \in Nat : n = m.len + 1
  BY <1>2
<1>4. CASE m.we
  <2>1. w \in [1 .. n -> Data]
    BY <1>3, <1>4 DEF Payloads
  <2>2. RequestBeats(m, w) = [k \in 1 .. n |-> [start |-> k = 1, last |-> k = n, req |-> TRUE,
                                               meta |-> m, data |-> w[k]]]
    BY <1>3, <1>4, Zenon DEF RequestBeats
  <2>3. \A k \in 1 .. n : [start |-> k = 1, last |-> k = n, req |-> TRUE, meta |-> m, data |-> w[k]] \in Beat
    <3>1. TAKE k \in 1 .. n
    <3>2. w[k] \in Data /\ (k = 1) \in BOOLEAN /\ (k = n) \in BOOLEAN /\ TRUE \in BOOLEAN
      BY <2>1
    <3> QED BY <1>1, <3>2, Zenon DEF Beat
  <2>4. RequestBeats(m, w) \in [1 .. n -> Beat]
    BY <2>2, <2>3, ZenonT(60)
  <2>5. RequestBeats(m, w) \in Seq(Beat) /\ Len(RequestBeats(m, w)) = n
    BY <2>4
  <2>6. \A i \in 1 .. n : RequestBeats(m, w)[i] = RequestBeat(m, w, i)
    <3>1. TAKE i \in 1 .. n
    <3>2. RequestBeats(m, w)[i] = [start |-> i = 1, last |-> i = n, req |-> TRUE, meta |-> m, data |-> w[i]]
      BY <2>2, Zenon
    <3>3. RequestBeat(m, w, i) = [start |-> i = 1, last |-> i = n, req |-> TRUE, meta |-> m, data |-> w[i]]
      BY <1>3, <1>4, Zenon DEF RequestBeat
    <3> QED BY <3>2, <3>3, Zenon
  <2>7. BeatsOf(m) = n
    BY <1>3, <1>4 DEF BeatsOf
  <2>8. w \in Seq(Data) /\ Len(w) = n
    BY <2>1
  <2> QED BY <1>1, <1>3, <2>5, <2>6, <2>7, <2>8
<1>5. CASE ~m.we
  <2>1. w = << >>
    BY <1>5 DEF Payloads
  <2>2. PICK b : b = [start |-> TRUE, last |-> TRUE, req |-> TRUE, meta |-> m, data |-> 0]
    OBVIOUS
  <2>3. RequestBeats(m, w) = <<b>>
    BY <1>5, <2>2, Zenon DEF RequestBeats
  <2>4. b \in Beat
    <3>1. TRUE \in BOOLEAN
      OBVIOUS
    <3> QED BY <1>1, <2>2, <3>1, Zenon DEF Beat
  <2>5. RequestBeat(m, w, 1) = b
    <3>1. (1 = 1) = TRUE
      OBVIOUS
    <3> QED BY <1>5, <2>2, <3>1, Zenon DEF RequestBeat
  <2>6. BeatsOf(m) = 1
    BY <1>5 DEF BeatsOf
  <2>7. w \in Seq(Data)
    BY <2>1
  <2>8. \A i \in 1 .. Len(RequestBeats(m, w)) : RequestBeats(m, w)[i] = RequestBeat(m, w, i)
    <3>1. \A i \in 1 .. Len(RequestBeats(m, w)) : i = 1 /\ RequestBeats(m, w)[1] = b
      BY <2>3
    <3> QED BY <2>5, <3>1, Zenon
  <2>9. RequestBeats(m, w) \in Seq(Beat) /\ Len(RequestBeats(m, w)) = 1
    BY <2>3, <2>4
  <2> QED BY <1>1, <1>5, <2>6, <2>7, <2>8, <2>9, Zenon
<1> QED BY <1>2, <1>4, <1>5

\* What the host knows, field by field.
LEMMA LinkTypes ==
  ASSUME IInv
  PROVE  /\ link.active \in BOOLEAN /\ link.meta \in Meta /\ link.wdata \in Seq(Data)
         /\ link.rdata \in Seq(Data) /\ link.done \in Nat /\ link.acked \in Nat /\ link.ask \in Meta
         /\ link.sending \in {"none", "beat", "last", "ask"} /\ link.owed \in BOOLEAN
         /\ link.answer \in Data
         /\ link = [active |-> link.active, meta |-> link.meta, wdata |-> link.wdata, rdata |-> link.rdata,
                    done |-> link.done, acked |-> link.acked, ask |-> link.ask, sending |-> link.sending,
                    owed |-> link.owed, answer |-> link.answer]
<1>1. link \in LinkType
  BY DEF IInv, TypeOK, LinkType
<1> QED BY <1>1 DEF LinkType

\* More arrives behind what waits.
LEMMA Arrives ==
  ASSUME IInv, NEW q \in Seq(Beat), rx' = [rx EXCEPT !.coming = rx.coming \o q]
  PROVE  rx' \in RxType /\ Coming' = Coming \o q
<1>1. rx \in RxType
  BY DEF IInv, TypeOK, RxType
<1>2. /\ rx.valid \in BOOLEAN /\ rx.beat \in Beat /\ rx.coming \in Seq(Beat)
      /\ rx = [valid |-> rx.valid, beat |-> rx.beat, coming |-> rx.coming]
  BY <1>1 DEF RxType
<1>3. PICK s \in Seq(Beat) : s = rx.coming \o q
  <2>1. rx.coming \o q \in Seq(Beat)
    BY <1>2
  <2> QED BY <2>1, Zenon
<1>4. rx' = [valid |-> rx.valid, beat |-> rx.beat, coming |-> s]
  BY <1>2, <1>3
<1>5. [valid |-> rx.valid, beat |-> rx.beat, coming |-> s] \in RxType
  BY <1>2, <1>3, Zenon DEF RxType
<1>6. rx'.valid = rx.valid /\ rx'.beat = rx.beat /\ rx'.coming = s
  BY <1>4
<1>7. <<rx.beat>> \o (rx.coming \o q) = (<<rx.beat>> \o rx.coming) \o q
  BY <1>2
<1> QED BY <1>3, <1>4, <1>5, <1>6, <1>7, Zenon DEF Coming

\* A request of the host.
LEMMA SendStep ==
  ASSUME Parameters, IInv, NEW m \in HostRequest, NEW w \in Payloads(m), HostSend(m, w)
  PROVE  IInv'
<1>1. ~link.active /\ UNCHANGED <<cpu, host, slice, tx, bus>>
  BY DEF HostSend
<1>2. host.state = "IDLE" /\ link.sending # "last"
  BY <1>1 DEF IInv, Engine, Progressed
<1>3. PICK q : q = RequestBeats(m, w)
  OBVIOUS
<1>4. /\ m \in Meta /\ q \in Seq(Beat) /\ Len(q) = BeatsOf(m)
      /\ \A i \in 1 .. Len(q) : q[i] = RequestBeat(m, w, i)
      /\ w \in Seq(Data) /\ (m.we => Len(w) = m.len + 1)
  BY <1>3, Packet
<1>5. rx' \in RxType /\ Coming' = Coming \o q
  <2>1. rx' = [rx EXCEPT !.coming = rx.coming \o q]
    BY <1>3, Zenon DEF HostSend
  <2> QED BY <1>4, <2>1, Arrives
<1>6. /\ link' \in LinkType
      /\ link'.active /\ link'.meta = m /\ link'.wdata = w /\ link'.rdata = << >> /\ link'.done = 0
      /\ link'.acked = 0 /\ link'.sending = link.sending /\ link'.owed = link.owed
      /\ link'.answer = link.answer
  <2>1. link' = [active |-> TRUE, meta |-> m, wdata |-> w, rdata |-> << >>, done |-> 0, acked |-> 0,
                 ask |-> link.ask, sending |-> link.sending, owed |-> link.owed, answer |-> link.answer]
    BY LinkTypes DEF HostSend
  <2>2. TRUE \in BOOLEAN /\ << >> \in Seq(Data) /\ 0 \in Nat
    OBVIOUS
  <2>3. [active |-> TRUE, meta |-> m, wdata |-> w, rdata |-> << >>, done |-> 0, acked |-> 0,
         ask |-> link.ask, sending |-> link.sending, owed |-> link.owed, answer |-> link.answer] \in LinkType
    BY <1>4, <2>2, LinkTypes, Zenon DEF LinkType
  <2> QED BY <2>1, <2>3
<1>7. TypeOK'
  BY <1>1, <1>5, <1>6 DEF IInv, TypeOK, RxType, LinkType
<1>8. Engine'
  BY <1>1, <1>2 DEF IInv, Engine
<1>9. Progressed'
  BY <1>1, <1>2, <1>4, <1>6 DEF Progressed, InWrite, InRead
<1>10. Transmits'
  BY <1>1, <1>2, <1>6 DEF IInv, Transmits, InRead
<1>11. Staged'
  BY <1>1, <1>2 DEF IInv, Staged
<1>12. Asks'
  BY <1>1, <1>6 DEF IInv, Asks
<1>13. Receives'
  <2>1. PICK b : /\ Mix(Coming, b, link.meta, link.wdata, Taken, Left, link.answer)
                 /\ b # 0 <=> Answering
    BY DEF IInv, Receives
  <2>2. Left = 0 /\ Taken \in Nat
    BY <1>1, TakenFacts DEF Left
  <2>3. Coming \in Seq(Beat)
    BY ComingIs DEF IInv, TypeOK, RxType
  <2>4. Mix(Coming \o q, b, m, w, 0, BeatsOf(m), link.answer)
    BY <1>4, <2>1, <2>2, <2>3, MixRequest
  <2>5. Taken' = 0 /\ Left' = BeatsOf(m)
    <3>1. host'.state = "IDLE" /\ link'.sending # "last"
      BY <1>1, <1>2, <1>6
    <3>2. Taken' = 0
      BY <3>1 DEF Taken
    <3>3. PICK n \in Nat : n = BeatsOf(m)
      BY <1>4
    <3>4. BeatsOf(link'.meta) = n
      BY <1>6, <3>3
    <3>5. Left' = IF link'.active THEN n - 0 ELSE 0
      BY <3>2, <3>4, Zenon DEF Left
    <3> QED BY <1>6, <3>2, <3>3, <3>5
  <2>6. Answering' <=> Answering
    BY <1>1, <1>6 DEF Answering
  <2>7. Mix(Coming \o q, b, link'.meta, link'.wdata, Taken', Left', link'.answer)
    BY <1>6, <2>4, <2>5, Zenon
  <2>8. b # 0 <=> Answering'
    BY <2>1, <2>6
  <2> QED BY <1>5, <2>7, <2>8, ReceivesIf, Zenon
<1> QED BY <1>7, <1>8, <1>9, <1>10, <1>11, <1>12, <1>13 DEF IInv

\* The answer to the CPU's request.
LEMMA AnswerStep ==
  ASSUME Parameters, IInv, NEW word \in CpuWords, HostAnswer(word)
  PROVE  IInv'
<1>1. link.owed /\ UNCHANGED <<cpu, host, slice, tx, bus>>
  BY DEF HostAnswer
<1>2. PICK x \in Data : x = IF link.ask.we THEN 0 ELSE word
  BY DEF Parameters, SizesAssumption
<1>3. PICK b : b = [start |-> TRUE, last |-> TRUE, req |-> FALSE, meta |-> link.ask, data |-> x]
  OBVIOUS
<1>4. b \in Beat
  <2>1. TRUE \in BOOLEAN /\ FALSE \in BOOLEAN
    OBVIOUS
  <2> QED BY <1>2, <1>3, <2>1, LinkTypes, Zenon DEF Beat
<1>5. b.req = FALSE /\ b.data = x
  BY <1>3
<1>6. /\ rx' = [rx EXCEPT !.coming = Append(rx.coming, b)]
      /\ link' = [link EXCEPT !.owed = FALSE, !.answer = x]
  BY <1>2, <1>3, Zenon DEF HostAnswer
<1>7. rx.coming \in Seq(Beat)
  BY DEF IInv, TypeOK
<1>8. Coming \in Seq(Beat)
  BY ComingIs DEF IInv, TypeOK, RxType
<1>9. rx' \in RxType /\ Coming' = Append(Coming, b)
  <2>1. PICK q \in Seq(Beat) : q = <<b>>
    <3>1. <<b>> \in Seq(Beat)
      BY <1>4
    <3> QED BY <3>1, Zenon
  <2>2. Append(rx.coming, b) = rx.coming \o q /\ Append(Coming, b) = Coming \o q
    BY <1>4, <1>7, <1>8, <2>1
  <2>3. rx' = [rx EXCEPT !.coming = rx.coming \o q]
    BY <1>6, <2>2, Zenon
  <2> QED BY <2>2, <2>3, Arrives
<1>10. /\ link' \in LinkType
       /\ link'.active = link.active /\ link'.meta = link.meta /\ link'.wdata = link.wdata
       /\ link'.rdata = link.rdata /\ link'.done = link.done /\ link'.acked = link.acked
       /\ link'.sending = link.sending /\ ~link'.owed /\ link'.answer = x
  <2>1. link' = [active |-> link.active, meta |-> link.meta, wdata |-> link.wdata, rdata |-> link.rdata,
                 done |-> link.done, acked |-> link.acked, ask |-> link.ask, sending |-> link.sending,
                 owed |-> FALSE, answer |-> x]
    BY <1>6, LinkTypes
  <2>2. FALSE \in BOOLEAN
    OBVIOUS
  <2>3. [active |-> link.active, meta |-> link.meta, wdata |-> link.wdata, rdata |-> link.rdata,
         done |-> link.done, acked |-> link.acked, ask |-> link.ask, sending |-> link.sending,
         owed |-> FALSE, answer |-> x] \in LinkType
    BY <1>2, <2>2, LinkTypes, Zenon DEF LinkType
  <2> QED BY <2>1, <2>3
<1>11. cpu.wait_resp /\ link.sending # "ask" /\ ~cpu.resp_valid
  BY <1>1 DEF IInv, Asks
<1>12. TypeOK'
  BY <1>1, <1>9, <1>10 DEF IInv, TypeOK, RxType, LinkType
<1>13. Engine'
  BY <1>1, <1>10 DEF IInv, Engine, Addressed
<1>14. Progressed'
  BY <1>1, <1>10 DEF IInv, Progressed, InWrite, InRead
<1>15. Transmits'
  BY <1>1, <1>10 DEF IInv, Transmits, InRead
<1>16. Staged'
  <2>1. ReadBeat' = ReadBeat
    BY <1>1, <1>10, Zenon DEF ReadBeat, LastBeat
  <2>2. WriteResponse' = WriteResponse
    BY <1>1, Zenon DEF WriteResponse
  <2> QED BY <1>1, <2>1, <2>2 DEF IInv, Staged
<1>17. Asks'
  BY <1>1, <1>10, <1>11 DEF IInv, Asks
<1>18. Receives'
  <2>1. PICK c : /\ Mix(Coming, c, link.meta, link.wdata, Taken, Left, link.answer)
                 /\ c # 0 <=> Answering
    BY DEF IInv, Receives
  <2>2. c = 0
    BY <1>1, <2>1 DEF Answering
  <2>3. Taken \in Nat /\ Left \in Nat
    BY TakenFacts
  <2>4. Mix(Append(Coming, b), Len(Coming) + 1, link.meta, link.wdata, Taken, Left, x)
    BY <1>4, <1>5, <1>8, <2>1, <2>2, <2>3, MixAppend
  <2>5. Taken' = Taken /\ Left' = Left
    <3>1. Taken' = Taken
      BY <1>1, <1>10, Zenon DEF Taken
    <3> QED BY <1>10, <3>1, Zenon DEF Left
  <2>6. Answering' /\ Len(Coming) + 1 # 0
    BY <1>1, <1>8, <1>10, <1>11 DEF Answering
  <2>7. PICK e : e = Len(Coming) + 1
    OBVIOUS
  <2>8. Mix(Append(Coming, b), e, link'.meta, link'.wdata, Taken', Left', link'.answer)
    BY <1>10, <2>4, <2>5, <2>7, Zenon
  <2>9. e # 0 <=> Answering'
    BY <2>6, <2>7
  <2> QED BY <1>9, <2>8, <2>9, ReceivesIf, Zenon
<1> QED BY <1>12, <1>13, <1>14, <1>15, <1>16, <1>17, <1>18 DEF IInv

\* A reset (host_bus_interface.sv:297).
LEMMA ResetStep ==
  ASSUME Parameters, IInv, Reset
  PROVE  IInv'
<1>1. cpu' \in CpuType /\ ~cpu'.req_pending /\ ~cpu'.wait_resp /\ ~cpu'.resp_valid
  <2>1. cpu \in CpuType
    BY DEF IInv, TypeOK, CpuType
  <2>2. cpu' = [req_pending |-> FALSE, wait_resp |-> FALSE, resp_valid |-> FALSE, cap |-> cpu.cap,
                cap_data |-> cpu.cap_data, resp_data |-> cpu.resp_data]
    BY <2>1 DEF Reset, CpuType
  <2>3. [req_pending |-> FALSE, wait_resp |-> FALSE, resp_valid |-> FALSE, cap |-> cpu.cap,
         cap_data |-> cpu.cap_data, resp_data |-> cpu.resp_data] \in CpuType
    <3>1. FALSE \in BOOLEAN /\ cpu.cap \in CpuRequest /\ cpu.cap_data \in Data /\ cpu.resp_data \in Data
      BY <2>1 DEF CpuType
    <3> QED BY <3>1, Zenon DEF CpuType
  <2> QED BY <2>2, <2>3
<1>2. host' \in HostType /\ host'.state = "IDLE"
  <2>1. host' = [state |-> "IDLE", meta |-> host.meta, curr |-> host.curr, next |-> host.next, beats |-> 0,
                 wdata |-> host.wdata, first |-> FALSE]
    BY HostTypes DEF Reset
  <2>2. [state |-> "IDLE", meta |-> host.meta, curr |-> host.curr, next |-> host.next, beats |-> 0,
         wdata |-> host.wdata, first |-> FALSE] \in HostType
    <3>1. /\ "IDLE" \in HostState /\ FALSE \in BOOLEAN /\ host.meta \in Meta
          /\ host.curr \in 0 .. ADDR_MOD - 1 /\ host.next \in 0 .. ADDR_MOD - 1 /\ host.wdata \in Data
      BY HostTypes DEF HostState
    <3>2. 0 \in 0 .. MAX_LEN
      BY HostTypes
    <3> QED BY <3>1, <3>2, Zenon DEF HostType
  <2> QED BY <2>1, <2>2
<1>3. slice' \in SliceType /\ ~slice'.valid
  <2>1. slice \in SliceType
    BY DEF IInv, TypeOK, SliceType
  <2>2. slice' = [valid |-> FALSE, beat |-> slice.beat]
    BY <2>1 DEF Reset, SliceType
  <2>3. [valid |-> FALSE, beat |-> slice.beat] \in SliceType
    <3>1. FALSE \in BOOLEAN /\ slice.beat \in Beat
      BY <2>1 DEF SliceType
    <3> QED BY <3>1, Zenon DEF SliceType
  <2> QED BY <2>2, <2>3
<1>4. rx' \in RxType /\ Coming' = << >>
  <2>1. rx \in RxType
    BY DEF IInv, TypeOK, RxType
  <2>2. rx' = [valid |-> FALSE, beat |-> rx.beat, coming |-> << >>]
    BY <2>1 DEF Reset, RxType
  <2>3. [valid |-> FALSE, beat |-> rx.beat, coming |-> << >>] \in RxType
    <3>1. FALSE \in BOOLEAN /\ rx.beat \in Beat /\ << >> \in Seq(Beat)
      BY <2>1 DEF RxType
    <3> QED BY <3>1, Zenon DEF RxType
  <2> QED BY <2>2, <2>3 DEF Coming
<1>5. tx' \in TxType /\ tx'.state = "IDLE" /\ ~tx'.payload
  <2>1. tx' = [state |-> "IDLE", payload |-> FALSE, beats |-> 0]
    BY DEF Reset
  <2>2. [state |-> "IDLE", payload |-> FALSE, beats |-> 0] \in TxType
    <3>1. "IDLE" \in {"IDLE", "SEND", "WAIT_BEAT"} /\ FALSE \in BOOLEAN /\ 0 \in 0 .. MAX_LEN
      BY HostTypes
    <3> QED BY <3>1, Zenon DEF TxType
  <2> QED BY <2>1, <2>2
<1>6. ~bus' /\ bus' \in BOOLEAN
  BY DEF Reset
<1>7. link' \in LinkType /\ ~link'.active /\ link'.sending = "none" /\ ~link'.owed
  <2>1. link' = [active |-> FALSE, meta |-> link.meta, wdata |-> link.wdata, rdata |-> link.rdata,
                 done |-> link.done, acked |-> link.acked, ask |-> link.ask, sending |-> "none",
                 owed |-> FALSE, answer |-> link.answer]
    BY LinkTypes DEF Reset
  <2>2. [active |-> FALSE, meta |-> link.meta, wdata |-> link.wdata, rdata |-> link.rdata,
         done |-> link.done, acked |-> link.acked, ask |-> link.ask, sending |-> "none",
         owed |-> FALSE, answer |-> link.answer] \in LinkType
    <3>1. FALSE \in BOOLEAN /\ "none" \in {"none", "beat", "last", "ask"}
      OBVIOUS
    <3> QED BY <3>1, LinkTypes, Zenon DEF LinkType
  <2> QED BY <2>1, <2>2
<1>8. TypeOK'
  BY <1>1, <1>2, <1>3, <1>4, <1>5, <1>6, <1>7
     DEF TypeOK, CpuType, HostType, SliceType, RxType, TxType, LinkType
<1>9. Engine' /\ Progressed' /\ Transmits' /\ Staged' /\ Asks'
  BY <1>1, <1>2, <1>3, <1>5, <1>6, <1>7 DEF Engine, Progressed, Transmits, Staged, Asks, InWrite, InRead
<1>10. Receives'
  <2>1. ~Answering' /\ Left' = 0
    BY <1>1, <1>7 DEF Answering, Left
  <2>2. Mix(<< >>, 0, link'.meta, link'.wdata, Taken', 0, link'.answer)
    BY DEF Mix
  <2>3. 0 # 0 <=> Answering'
    BY <2>1
  <2>4. Mix(<< >>, 0, link'.meta, link'.wdata, Taken', Left', link'.answer)
    BY <2>1, <2>2, Zenon
  <2> QED BY <1>4, <2>3, <2>4, ReceivesIf, Zenon
<1> QED BY <1>8, <1>9, <1>10 DEF IInv

\* Power-on.
LEMMA Powered ==
  ASSUME Parameters, Init
  PROVE  IInv
<1>1. PICK m \in CpuRequest, n \in HostRequest, x \in CpuWords, b \in BOOLEAN :
        LET any == [start |-> b, last |-> b, req |-> ~b, meta |-> n, data |-> x]
        IN  /\ cpu = [req_pending |-> FALSE, wait_resp |-> FALSE,
                      resp_valid |-> FALSE, cap |-> m, cap_data |-> x, resp_data |-> x]
            /\ host = [state |-> "IDLE", meta |-> n, curr |-> n.addr,
                       next |-> n.addr, beats |-> 0, wdata |-> x, first |-> FALSE]
            /\ slice = [valid |-> FALSE, beat |-> any]
            /\ rx = [valid |-> FALSE, beat |-> any, coming |-> << >>]
            /\ link = [active |-> FALSE, meta |-> n, wdata |-> << >>,
                       rdata |-> << >>, done |-> 0, acked |-> 0, ask |-> m,
                       sending |-> "none", owed |-> FALSE, answer |-> x]
  BY DEF Init
<1>2. /\ m \in Meta /\ n \in Meta /\ x \in Data /\ n.addr \in 0 .. ADDR_MOD - 1
      /\ 0 \in 0 .. MAX_LEN /\ (~b) \in BOOLEAN /\ FALSE \in BOOLEAN
      /\ << >> \in Seq(Data) /\ << >> \in Seq(Beat) /\ 0 \in Nat
      /\ "IDLE" \in HostState /\ "IDLE" \in {"IDLE", "SEND", "WAIT_BEAT"}
      /\ "none" \in {"none", "beat", "last", "ask"}
  BY DEF Parameters, SizesAssumption, RequestAssumption, Meta, HostState
<1>3. PICK y \in Beat : y = [start |-> b, last |-> b, req |-> ~b, meta |-> n, data |-> x]
  <2>1. [start |-> b, last |-> b, req |-> ~b, meta |-> n, data |-> x] \in Beat
    BY <1>2, Zenon DEF Beat
  <2> QED BY <2>1, Zenon
<1>4. /\ cpu = [req_pending |-> FALSE, wait_resp |-> FALSE,
                resp_valid |-> FALSE, cap |-> m, cap_data |-> x, resp_data |-> x]
      /\ host = [state |-> "IDLE", meta |-> n, curr |-> n.addr,
                 next |-> n.addr, beats |-> 0, wdata |-> x, first |-> FALSE]
      /\ slice = [valid |-> FALSE, beat |-> y]
      /\ rx = [valid |-> FALSE, beat |-> y, coming |-> << >>]
      /\ link = [active |-> FALSE, meta |-> n, wdata |-> << >>,
                 rdata |-> << >>, done |-> 0, acked |-> 0, ask |-> m,
                 sending |-> "none", owed |-> FALSE, answer |-> x]
      /\ tx = [state |-> "IDLE", payload |-> FALSE, beats |-> 0]
      /\ bus = FALSE
  BY <1>1, <1>3, Zenon DEF Init
<1>5. /\ cpu \in CpuType /\ host \in HostType /\ slice \in SliceType /\ rx \in RxType
      /\ tx \in TxType /\ link \in LinkType /\ bus \in BOOLEAN
  <2>1. cpu \in CpuType
    BY <1>2, <1>4, Zenon DEF CpuType
  <2>2. host \in HostType
    BY <1>2, <1>4, Zenon DEF HostType
  <2>3. slice \in SliceType /\ rx \in RxType
    BY <1>2, <1>4, Zenon DEF SliceType, RxType
  <2>4. tx \in TxType
    BY <1>2, <1>4, Zenon DEF TxType
  <2>5. link \in LinkType
    BY <1>2, <1>4, Zenon DEF LinkType
  <2> QED BY <1>2, <1>4, <2>1, <2>2, <2>3, <2>4, <2>5, Zenon
<1>6. TypeOK
  BY <1>5, Zenon DEF TypeOK, CpuType, HostType, SliceType, RxType, TxType, LinkType
<1>7. /\ ~cpu.req_pending /\ ~cpu.wait_resp /\ ~cpu.resp_valid /\ host.state = "IDLE" /\ ~slice.valid
      /\ tx.state = "IDLE" /\ ~bus /\ ~link.active /\ link.sending = "none" /\ ~link.owed
      /\ Coming = << >>
  BY <1>4 DEF Coming
<1>8. Engine /\ Progressed /\ Transmits /\ Staged /\ Asks
  BY <1>7 DEF Engine, Progressed, Transmits, Staged, Asks, InWrite, InRead
<1>9. Receives
  <2>1. ~Answering /\ Left = 0
    BY <1>7 DEF Answering, Left
  <2>2. Mix(<< >>, 0, link.meta, link.wdata, Taken, 0, link.answer) /\ 0 \in 0 .. Len(<< >>)
    BY DEF Mix
  <2>3. 0 # 0 <=> Answering
    BY <2>1
  <2> QED BY <1>7, <2>1, <2>2, <2>3, Zenon DEF Receives
<1> QED BY <1>6, <1>8, <1>9 DEF IInv

\* Nothing happens.
LEMMA Rests ==
  ASSUME IInv, UNCHANGED vars
  PROVE  IInv'
<1>1. UNCHANGED <<cpu, host, slice, rx, tx, bus, link>>
  BY DEF vars
<1>2. TypeOK' /\ Engine' /\ Progressed' /\ Transmits' /\ Asks'
  <2>1. TypeOK'
    BY <1>1 DEF IInv, TypeOK
  <2>2. Engine'
    BY <1>1 DEF IInv, Engine, Addressed
  <2>3. Progressed'
    BY <1>1 DEF IInv, Progressed, InWrite, InRead
  <2>4. Transmits'
    BY <1>1 DEF IInv, Transmits, InRead
  <2>5. Asks'
    BY <1>1 DEF IInv, Asks
  <2> QED BY <2>1, <2>2, <2>3, <2>4, <2>5
<1>3. ReadBeat' = ReadBeat /\ WriteResponse' = WriteResponse
  BY <1>1, Zenon DEF ReadBeat, LastBeat, WriteResponse
<1>4. Staged'
  BY <1>1, <1>3, Zenon DEF IInv, Staged
<1>5. Coming' = Coming /\ Taken' = Taken
  BY <1>1, Zenon DEF Coming, Taken
<1>6. Left' = Left
  BY <1>1, <1>5, Zenon DEF Left
<1>7. Answering' <=> Answering
  BY <1>1 DEF Answering
<1>8. Receives'
  <2>1. PICK b : /\ Mix(Coming, b, link.meta, link.wdata, Taken, Left, link.answer)
                 /\ b # 0 <=> Answering
    BY DEF IInv, Receives
  <2>2. Mix(Coming, b, link'.meta, link'.wdata, Taken', Left', link'.answer)
    BY <1>1, <1>5, <1>6, <2>1, Zenon
  <2>3. b # 0 <=> Answering'
    BY <1>7, <2>1
  <2> QED BY <1>5, <2>2, <2>3, ReceivesIf, Zenon
<1> QED BY <1>2, <1>4, <1>8 DEF IInv

\* Every step of the link preserves the invariant.
LEMMA IInvStep ==
  ASSUME Parameters, IInv, [Next]_vars
  PROVE  IInv'
<1>1. CASE Edge
  BY <1>1, EdgeStep
<1>2. CASE \E m \in HostRequest : \E words \in Payloads(m) : HostSend(m, words)
  BY <1>2, SendStep
<1>3. CASE \E word \in CpuWords : HostAnswer(word)
  BY <1>3, AnswerStep
<1>4. CASE Reset
  BY <1>4, ResetStep
<1>5. CASE UNCHANGED vars
  BY <1>5, Rests
<1> QED BY <1>1, <1>2, <1>3, <1>4, <1>5 DEF Next

(***************************************************************************)
(* What the invariant means                                                *)
(***************************************************************************)
\* The engine, its staging register and the transmitter agree.
LEMMA Agree ==
  ASSUME Parameters, IInv
  PROVE  LinkInv
<1>1. TypeOK
  BY DEF IInv
<1>2. SliceOwned
  BY DEF IInv, Staged, SliceOwned, ReadBeat, WriteResponse
<1>3. FramesAgree
  BY DEF IInv, Transmits, FramesAgree, InRead
<1>4. CpuOneAnswer
  BY DEF IInv, Asks, CpuOneAnswer
<1> QED BY <1>1, <1>2, <1>3, <1>4 DEF LinkInv

\* Each beat of a burst goes to its address.
LEMMA Accesses ==
  ASSUME Parameters, IInv
  PROVE  BurstAccess
BY DEF IInv, Engine, Addressed, BurstAccess, InWrite

\* The response that is offered is the next beat of it.
LEMMA Responds ==
  ASSUME Parameters, IInv
  PROVE  ResponseStream
<1> SUFFICES ASSUME TxPktValid, ~TxPkt.req
             PROVE  /\ link.active
                    /\ link.meta.we => link.done = link.meta.len + 1
                    /\ link.acked <= link.meta.len
                    /\ TxPkt = [start |-> link.acked = 0,
                                last  |-> link.meta.we \/ link.acked = link.meta.len,
                                req   |-> FALSE,
                                meta  |-> link.meta,
                                data  |-> IF link.meta.we THEN 0 ELSE link.rdata[link.acked + 1]]
  BY DEF ResponseStream
<1>1. Engine /\ Progressed
  BY DEF IInv
<1>2. /\ link.done \in Nat /\ link.acked \in Nat /\ link.meta.len \in Nat /\ link.meta.we \in BOOLEAN
      /\ host.first \in BOOLEAN
  BY HostTypes
<1>3. host.state \in {"READ_TX", "WRITE_RESP"}
  BY Sends DEF CpuPacket
<1>4. link.active /\ host.meta = link.meta /\ (link.meta.we <=> host.state = "WRITE_RESP")
  BY <1>1, <1>3 DEF Engine, InWrite
<1> DEFINE start == link.acked = 0
           last == link.meta.we \/ link.acked = link.meta.len
           data == IF link.meta.we THEN 0 ELSE link.rdata[link.acked + 1]
<1>5. CASE host.state = "WRITE_RESP"
  <2>1. link.done = link.meta.len + 1 /\ link.acked = 0
    BY <1>1, <1>5 DEF Engine, Progressed, InWrite
  <2>2. TxPkt = [start |-> TRUE, last |-> TRUE, req |-> FALSE, meta |-> link.meta, data |-> 0]
    BY <1>4, <1>5, Sends, Zenon DEF WriteResponse
  <2>3. start = TRUE /\ last = TRUE /\ data = 0
    BY <1>4, <1>5, <2>1
  <2>4. TxPkt = [start |-> start, last |-> last, req |-> FALSE, meta |-> link.meta, data |-> data]
    BY <2>2, <2>3, Zenon
  <2> QED BY <1>2, <1>4, <2>1, <2>4
<1>6. CASE host.state = "READ_TX"
  <2>1. /\ link.done >= 1 /\ link.done <= link.meta.len + 1
        /\ host.beats = link.meta.len + 2 - link.done
        /\ link.acked = link.done - 1 /\ (host.first <=> link.acked = 0)
    BY <1>1, <1>6 DEF Engine, Progressed, InRead
  <2>2. TxPkt = [start |-> host.first, last |-> LastBeat, req |-> FALSE, meta |-> link.meta,
                 data |-> link.rdata[link.done]]
    BY <1>4, <1>6, Sends, Zenon DEF ReadBeat
  <2>3. start = host.first
    BY <1>2, <2>1
  <2>4. last = LastBeat
    BY <1>2, <1>4, <1>6, <2>1 DEF LastBeat
  <2>5. data = link.rdata[link.done]
    BY <1>2, <1>4, <1>6, <2>1
  <2>6. TxPkt = [start |-> start, last |-> last, req |-> FALSE, meta |-> link.meta, data |-> data]
    BY <2>2, <2>3, <2>4, <2>5, Zenon
  <2>7. link.acked <= link.meta.len
    BY <1>2, <2>1
  <2> QED BY <1>4, <1>6, <2>6, <2>7
<1> QED BY <1>3, <1>5, <1>6

\* The invariant holds in every reachable state.
LEMMA Invariance ==
  ASSUME Parameters
  PROVE  Spec => []IInv
<1>1. Init => IInv
  BY Powered
<1>2. IInv /\ [Next]_vars => IInv'
  BY IInvStep
<1> QED BY <1>1, <1>2, PTL DEF Spec

\* For every width of addresses and length of bursts: no staged beat is overwritten, no
\* packet is cut short and none runs into the next, and the CPU gets the word that the
\* host sent for it (host_bus_interface.sv:194, 331).
THEOREM LinkSafe ==
  ASSUME Parameters
  PROVE  Spec => []LinkInv
<1>1. IInv => LinkInv
  BY Agree
<1> QED BY <1>1, Invariance, PTL

\* Every access of a burst goes to its own address, wrapping at the top of the address
\* space, with its own word (host_bus_interface.sv:389-433).
THEOREM BurstsInPlace ==
  ASSUME Parameters
  PROVE  Spec => []BurstAccess
<1>1. IInv => BurstAccess
  BY Accesses
<1> QED BY <1>1, Invariance, PTL

\* The response to the host has every word once and in order, and a write is acknowledged
\* only after its last word (host_bus_interface.sv:435-465).
THEOREM ResponsesInOrder ==
  ASSUME Parameters
  PROVE  Spec => []ResponseStream
<1>1. IInv => ResponseStream
  BY Responds
<1> QED BY <1>1, Invariance, PTL

=============================================================================
