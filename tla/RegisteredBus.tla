--------------------------- MODULE RegisteredBus ---------------------------
(***************************************************************************)
(* rtl/common/memory/registered_bus.sv: the bus between the masters (host  *)
(* interface, APF bridge, CPU) and the slaves (system controller, SRAM,    *)
(* peripherals).  Every stage is registered: a master is selected, its     *)
(* request is taken into one pending register, decoded, offered to the     *)
(* slave, and the response is selected, copied and offered to the master.  *)
(*                                                                         *)
(* Masters and slaves are numbered, as in the source, and the lower number *)
(* wins.  Decode stands for the comparison of the top address nibbles: a   *)
(* request names the slave it addresses, or NoSlave where nothing is       *)
(* mapped.  Data words are the master whose access they belong to.         *)
(*                                                                         *)
(* The masters and slaves around the bus do what the protocol asks: a      *)
(* master holds one request until it is taken and has one outstanding; a   *)
(* slave answers an access it took, after any number of cycles.            *)
(***************************************************************************)
EXTENDS Integers

CONSTANTS NUM_MASTERS, NUM_SLAVES

ASSUME BusAssumption == /\ NUM_MASTERS \in Nat \ {0}
                        /\ NUM_SLAVES \in Nat \ {0}

Master == 0 .. NUM_MASTERS - 1
Slave  == 0 .. NUM_SLAVES - 1

NoMaster == -1
NoSlave  == -1

VARIABLES
  selected,   \* selected_master: the master granted the pending register
  pending,    \* pending_req: its master and its target
  decoded,    \* decoded_req: valid, and the slave found
  areq,       \* slave_mem_a_valid: the slave being offered the request
  owner,      \* slave_response_pending and slave_response_master_idx
  rsel,       \* selected_resp_slave
  resp,       \* master_mem_d_valid, its master and the word it carries
  master,     \* what each master is doing
  slave       \* what each slave is doing

bus_vars == <<selected, pending, decoded, areq, owner, rsel, resp, master, slave>>

(***************************************************************************)
(* Arbitration and decoding                                                *)
(***************************************************************************)
Lowest(S) == CHOOSE i \in S : \A j \in S : i <= j

\* The masters with a request, at their ports.
Requesting == {m \in Master : master[m].st = "request"}

\* The slaves with a response at their ports that the bus is waiting for.
Responding == {s \in Slave : owner[s] # NoMaster /\ slave[s].st = "answer"}

MasterSelectLoad == selected = NoMaster /\ ~pending.valid /\ Requesting # {}

MasterReqAccept == /\ selected # NoMaster /\ ~pending.valid
                   /\ selected \in Requesting

DecodeLoad == pending.valid /\ ~decoded.valid /\ areq = NoSlave

\* What is issued: the decode of an earlier cycle, or that of this one.
Issue == IF decoded.valid THEN decoded
         ELSE [valid |-> DecodeLoad, slave |-> pending.target]

SlaveReqLoad == /\ pending.valid /\ Issue.valid /\ Issue.slave # NoSlave
                /\ areq = NoSlave
                /\ owner[Issue.slave] = NoMaster

\* The response register is overwritten by the answer to an unmapped access.
UnmappedAccept_Busy == pending.valid /\ Issue.valid /\ Issue.slave = NoSlave

UnmappedAccept == /\ pending.valid /\ Issue.valid /\ Issue.slave = NoSlave
                  /\ ~resp.valid

RespSelectLoad == rsel = NoSlave /\ ~resp.valid /\ Responding # {}

SlaveRespAccept == /\ rsel # NoSlave /\ ~resp.valid /\ ~UnmappedAccept
                   /\ slave[rsel].st = "answer"

(***************************************************************************)
(* The registers.  ready: the slave takes the request offered to it;       *)
(* taken: the master takes the response offered to it.                     *)
(***************************************************************************)
NoRequest  == [valid |-> FALSE, master |-> NoMaster, target |-> NoSlave]
NoDecode   == [valid |-> FALSE, slave |-> NoSlave]
NoResponse == [valid |-> FALSE, master |-> NoMaster, data |-> NoMaster]

SlaveReqAccept(ready) == areq # NoSlave /\ ready

\* The grant is not given back with the request.
SelectedNext_Kept == IF MasterSelectLoad THEN Lowest(Requesting) ELSE selected

SelectedNext == IF MasterSelectLoad THEN Lowest(Requesting)
                ELSE IF MasterReqAccept THEN NoMaster ELSE selected

\* The request register is not emptied when the slave takes the request.
PendingNext_Kept(ready) ==
  IF MasterReqAccept
  THEN [valid |-> TRUE, master |-> selected, target |-> master[selected].target]
  ELSE IF UnmappedAccept THEN NoRequest ELSE pending

PendingNext(ready) ==
  IF MasterReqAccept
  THEN [valid |-> TRUE, master |-> selected, target |-> master[selected].target]
  ELSE IF SlaveReqAccept(ready) \/ UnmappedAccept THEN NoRequest ELSE pending

\* The decode of a request outlives the request.
DecodedNext_Stale(ready) ==
  IF DecodeLoad THEN [valid |-> TRUE, slave |-> pending.target] ELSE decoded

DecodedNext(ready) ==
  IF SlaveReqAccept(ready) \/ UnmappedAccept THEN NoDecode
  ELSE IF DecodeLoad THEN [valid |-> TRUE, slave |-> pending.target] ELSE decoded

AreqNext(ready) == IF SlaveReqLoad THEN Issue.slave
                   ELSE IF SlaveReqAccept(ready) THEN NoSlave ELSE areq

\* The owner is read from the grant, which has moved on.
OwnerNext_Grant(ready) ==
  [s \in Slave |-> IF SlaveReqAccept(ready) /\ s = areq THEN selected
                   ELSE IF SlaveRespAccept /\ s = rsel THEN NoMaster ELSE owner[s]]

OwnerNext(ready) ==
  [s \in Slave |-> IF SlaveReqAccept(ready) /\ s = areq THEN pending.master
                   ELSE IF SlaveRespAccept /\ s = rsel THEN NoMaster ELSE owner[s]]

RselNext == IF RespSelectLoad THEN Lowest(Responding)
            ELSE IF SlaveRespAccept THEN NoSlave ELSE rsel

RespNext(taken) ==
  IF SlaveRespAccept
  THEN [valid |-> TRUE, master |-> owner[rsel], data |-> slave[rsel].data]
  ELSE IF UnmappedAccept
  THEN [valid |-> TRUE, master |-> pending.master, data |-> NoMaster]
  ELSE IF resp.valid /\ taken THEN NoResponse ELSE resp

(***************************************************************************)
(* The ports.  start: the requests that masters raise at this edge;        *)
(* answered: the slaves whose answer appears.  done counts how often a     *)
(* slave has executed the access of a master.                              *)
(***************************************************************************)
Idle == [st |-> "idle", target |-> NoSlave, done |-> 0]

MasterNext(start, ready, taken) ==
  [m \in Master |->
     IF start[m] # NoMaster
     THEN [st |-> "request", target |-> start[m] - 1, done |-> 0]
     ELSE IF MasterReqAccept /\ m = selected THEN [master[m] EXCEPT !.st = "wait"]
     ELSE IF SlaveReqAccept(ready) /\ m = pending.master
     THEN [master[m] EXCEPT !.done = @ + 1]
     ELSE IF resp.valid /\ taken /\ m = resp.master THEN Idle ELSE master[m]]

Free == [st |-> "idle", data |-> NoMaster]

SlaveNext(ready, answered) ==
  [s \in Slave |->
     IF SlaveReqAccept(ready) /\ s = areq THEN [st |-> "busy", data |-> pending.master]
     ELSE IF s \in answered THEN [slave[s] EXCEPT !.st = "answer"]
     ELSE IF SlaveRespAccept /\ s = rsel THEN Free ELSE slave[s]]

\* What a master may start: nothing (NoMaster), or an access to a slave or to
\* an unmapped address, numbered from 0 so that the choices are one set.
Starts(m) == IF master[m].st = "idle" THEN {NoMaster} \cup 0 .. NUM_SLAVES
             ELSE {NoMaster}

\* The master takes its response when it is offered it, or later.
BusChoice(asked) == IF asked THEN BOOLEAN ELSE {FALSE}

Inputs == [start    : {f \in [Master -> -1 .. NUM_SLAVES] :
                         \A m \in Master : f[m] \in Starts(m)},
           ready    : BusChoice(areq # NoSlave),
           taken    : BusChoice(resp.valid),
           answered : SUBSET {s \in Slave : slave[s].st = "busy"}]

BusInit == /\ selected = NoMaster /\ pending = NoRequest /\ decoded = NoDecode
        /\ areq = NoSlave /\ owner = [s \in Slave |-> NoMaster]
        /\ rsel = NoSlave /\ resp = NoResponse
        /\ master = [m \in Master |-> Idle] /\ slave = [s \in Slave |-> Free]

BusEdge(in) ==
  /\ selected' = SelectedNext
  /\ pending'  = PendingNext(in.ready)
  /\ decoded'  = DecodedNext(in.ready)
  /\ areq'     = AreqNext(in.ready)
  /\ owner'    = OwnerNext(in.ready)
  /\ rsel'     = RselNext
  /\ resp'     = RespNext(in.taken)
  /\ master'   = MasterNext(in.start, in.ready, in.taken)
  /\ slave'    = SlaveNext(in.ready, in.answered)

BusClock == \E in \in Inputs : BusEdge(in)

BusSpec == BusInit /\ [][BusClock]_bus_vars

\* Slaves accept and answer, masters take their responses; nobody has to ask.
Prompt == [start |-> [m \in Master |-> NoMaster],
           ready |-> (areq # NoSlave),
           taken |-> resp.valid,
           answered |-> {s \in Slave : slave[s].st = "busy"}]

BusFairness == WF_bus_vars(Prompt \in Inputs /\ BusEdge(Prompt))

BusFairSpec == BusSpec /\ BusFairness

(***************************************************************************)
(* Properties                                                              *)
(***************************************************************************)
BusTypeOK ==
  /\ selected \in Master \cup {NoMaster}
  /\ pending \in [valid : BOOLEAN, master : Master \cup {NoMaster},
                  target : Slave \cup {NoSlave}]
  /\ decoded \in [valid : BOOLEAN, slave : Slave \cup {NoSlave}]
  /\ areq \in Slave \cup {NoSlave}
  /\ owner \in [Slave -> Master \cup {NoMaster}]
  /\ rsel \in Slave \cup {NoSlave}
  /\ resp \in [valid : BOOLEAN, master : Master \cup {NoMaster},
               data : Master \cup {NoMaster}]
  /\ master \in [Master -> [st : {"idle", "request", "wait"},
                            target : Slave \cup {NoSlave}, done : 0 .. 1]]
  /\ slave \in [Slave -> [st : {"idle", "busy", "answer"},
                          data : Master \cup {NoMaster}]]

\* A response goes to a master that is waiting for it, and carries the word that
\* its own access produced, never that of another master; an access to nothing
\* is answered with zero and reaches no slave.
ResponseRouted ==
  resp.valid =>
    /\ resp.master \in Master
    /\ master[resp.master].st = "wait"
    /\ IF master[resp.master].target = NoSlave
       THEN resp.data = NoMaster /\ master[resp.master].done = 0
       ELSE resp.data = resp.master /\ master[resp.master].done = 1

\* The bus remembers, for each slave, exactly the master whose access the slave
\* is executing: the stages ahead of it cannot disturb what it owes.
OwnerAgrees ==
  \A s \in Slave :
    /\ owner[s] = slave[s].data
    /\ (owner[s] # NoMaster) = (slave[s].st # "idle")
    /\ owner[s] # NoMaster =>
         master[owner[s]] = [st |-> "wait", target |-> s, done |-> 1]

\* The stages agree about the request they hold: the decode is that of the
\* pending request, a slave is only offered it while it owes nothing, and the
\* response selected is there.
StagesAgree ==
  /\ \A m \in Master : master[m].st = "request" => master[m].done = 0
  /\ pending.valid =>
       /\ pending.master \in Master
       /\ master[pending.master] = [st |-> "wait", target |-> pending.target, done |-> 0]
  /\ decoded.valid => pending.valid /\ decoded.slave = pending.target
  /\ areq # NoSlave => /\ decoded.valid /\ areq = pending.target
                       /\ owner[areq] = NoMaster
  /\ rsel # NoSlave => owner[rsel] # NoMaster /\ slave[rsel].st = "answer"

InPending(m) == pending.valid /\ pending.master = m
InSlave(m)   == \E s \in Slave : owner[s] = m
InResp(m)    == resp.valid /\ resp.master = m

\* A request is never lost and never served twice: a waiting master is in the
\* pending register, with one slave, or in the response register, and nowhere
\* twice.
OnePlace ==
  \A m \in Master :
    /\ (master[m].st = "wait") = (InPending(m) \/ InSlave(m) \/ InResp(m))
    /\ ~(InPending(m) /\ InSlave(m))
    /\ ~(InPending(m) /\ InResp(m))
    /\ ~(InSlave(m) /\ InResp(m))

\* The grant is held by a master that still asks, so it cannot block the bus.
GrantLive == selected # NoMaster => selected \in Requesting

\* The inductive invariant of the bus (registered_bus.sv:192-306): the grant,
\* the request, its decode, the slaves and the response agree on whose access is
\* where, and no access is in two of them.
BusInv == /\ BusTypeOK /\ ResponseRouted /\ OwnerAgrees
          /\ StagesAgree /\ OnePlace /\ GrantLive

\* Two masters are both served although priority is fixed: while one waits for
\* its answer the other has the bus.  Of three, as in the Pocket build, two that
\* never rest can keep the answer of the third from leaving its slave.
Served == \A m, k \in Master :
            \/ m = k \/ []<>(master[k].st # "idle")
            \/ (master[m].st = "request") ~> (master[m].st = "idle")
=============================================================================
