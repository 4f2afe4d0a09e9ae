---------------------------- MODULE BusCdcBridge ----------------------------
(***************************************************************************)
(* rtl/common/primitives/bus_cdc_bridge.sv: a request crosses from the     *)
(* system clock to the clock of a peripheral and its response crosses      *)
(* back, each through a cdc_handshake and a register on either side.       *)
(*                                                                         *)
(* As in the peripherals that use it (sdram, gfx2d, audiosys), the system  *)
(* side is reset by rst and the peripheral side by rst sent through a      *)
(* synchronizer of its own, so the two sides leave and enter reset at      *)
(* different times.  The system side is a slave of registered_bus, which   *)
(* has one request under way per slave; the peripheral holds one request.  *)
(* A response carries the request that it answers.                         *)
(***************************************************************************)
EXTENDS Naturals, Sequences

CONSTANTS Requests,        \* what is asked
          BRIDGE_STAGES,   \* SYNC_STAGES of the two handshakes
          RESET_EDGES      \* edges of the peripheral's clock that a reset lasts, at least

VARIABLES sys,      \* registers clocked by sys_clk
          per,      \* registers clocked by periph_clk
          aSrc, aDst, dSrc, dDst,  \* the registers of the two handshakes
          rst,      \* rst, its synchronizer, and periph_clk edges since it rose
          waiting,  \* the request the bus has under way, or Nothing
          serving   \* the request the peripheral holds, or Nothing

bridge_vars == <<sys, per, aSrc, aDst, dSrc, dDst, rst, waiting, serving>>

\* u_addr_channel_cdc and u_data_channel_cdc.  Only their register functions
\* are used, so what is taken does not matter.
A == INSTANCE CdcHandshake
       WITH Data <- Requests, SYNC_STAGES <- BRIDGE_STAGES,
            src <- aSrc, dst <- aDst, taken <- aDst.data
D == INSTANCE CdcHandshake
       WITH Data <- Requests, SYNC_STAGES <- BRIDGE_STAGES,
            src <- dSrc, dst <- dDst, taken <- dDst.data

Nothing == "nothing"

PeriphRst == ~rst.sync[BRIDGE_STAGES]

(***************************************************************************)
(* System side.  v and q are what the bus offers, ready whether it takes a *)
(* response.                                                               *)
(***************************************************************************)
SysReset(s) == [s EXCEPT !.aValid = FALSE, !.aReady = TRUE, !.dValid = FALSE]

SysANext(s, v, q) ==
  LET enqueue == v /\ s.aReady
      dequeue == s.aValid /\ aSrc.ready
  IN  [s EXCEPT !.aValid = enqueue \/ (s.aValid /\ ~dequeue),
                !.aReady = ~(enqueue \/ (s.aValid /\ ~dequeue)),
                !.aData  = IF enqueue THEN q ELSE s.aData]

DDstReady(ready) == ~sys.dValid \/ ready

SysDNext(s, ready) ==
  IF dDst.valid /\ DDstReady(ready)
  THEN [s EXCEPT !.dValid = TRUE, !.dData = dDst.data]
  ELSE [s EXCEPT !.dValid = s.dValid /\ ~ready]

(***************************************************************************)
(* Peripheral side.  accept and answer are what the peripheral does.       *)
(***************************************************************************)
PerReset(p) == [p EXCEPT !.aValid = FALSE, !.dValid = FALSE, !.dReady = TRUE]

ADstReady(accept) == ~per.aValid \/ accept

PerANext(p, accept) ==
  IF aDst.valid /\ ADstReady(accept)
  THEN [p EXCEPT !.aValid = TRUE, !.aData = aDst.data]
  ELSE [p EXCEPT !.aValid = p.aValid /\ ~accept]

\* Wrong variant: a response is taken for sent once the handshake is ready,
\* whether or not it was offered yet.
PerDNext_Early(p, answer, q) ==
  LET enqueue == answer /\ p.dReady
      left    == (enqueue \/ p.dValid) /\ ~dSrc.ready
  IN  [p EXCEPT !.dValid = left, !.dReady = ~left, !.dData = IF enqueue THEN q ELSE p.dData]

PerDNext(p, answer, q) ==
  LET enqueue == answer /\ p.dReady
      dequeue == p.dValid /\ dSrc.ready
      left    == enqueue \/ (p.dValid /\ ~dequeue)
  IN  [p EXCEPT !.dValid = left, !.dReady = ~left, !.dData = IF enqueue THEN q ELSE p.dData]

(***************************************************************************)
(* The reset: rst is a register of the system clock; ff_sync of !rst has   *)
(* no reset of its own.  reset_controller holds rst for RESET_CYCLES.      *)
(***************************************************************************)
\* The synchronizers have two registers at least, as the bridge insists, and a
\* reset outlasts them by an edge, so that it reaches the peripheral side.
LongReset == /\ BRIDGE_STAGES \in Nat /\ BRIDGE_STAGES >= 2
             /\ RESET_EDGES \in Nat /\ RESET_EDGES > BRIDGE_STAGES
             /\ Nothing \notin Requests

\* Wrong variant: the peripheral side is not reset.
SyncNext_None == [i \in 1 .. BRIDGE_STAGES |-> TRUE]

SyncNext == A!Shift(rst.sync, ~rst.sys)

\* Wrong variant: the reset lasts one edge more than it is set to.
MayRelease_Late == rst.edges > RESET_EDGES

MayRelease == rst.edges >= RESET_EDGES

(***************************************************************************)
(* Edges of the two clocks                                                 *)
(***************************************************************************)
SysEdge(v, q, ready) ==
  IF rst.sys
  THEN /\ sys' = SysReset(sys)
       /\ aSrc' = A!SrcReset(aSrc.data_hold)
       /\ dDst' = D!DstReset(dDst.data)
       /\ waiting' = Nothing
  ELSE /\ sys' = SysANext(SysDNext(sys, ready), v, q)
       /\ aSrc' = A!SrcNext(aSrc, aDst, sys.aValid, sys.aData)
       /\ dDst' = D!DstNext(dDst, dSrc, DDstReady(ready))
       /\ waiting' = IF v /\ sys.aReady THEN q
                     ELSE IF sys.dValid /\ ready THEN Nothing ELSE waiting

PerEdge(accept, answer) ==
  IF PeriphRst
  THEN /\ per' = PerReset(per)
       /\ aDst' = A!DstReset(aDst.data)
       /\ dSrc' = D!SrcReset(dSrc.data_hold)
       /\ serving' = Nothing
  ELSE /\ per' = PerDNext(PerANext(per, accept), answer, serving)
       /\ aDst' = A!DstNext(aDst, aSrc, ADstReady(accept))
       /\ dSrc' = D!SrcNext(dSrc, dDst, per.dValid, per.dData)
       /\ serving' = IF accept THEN per.aData
                     ELSE IF answer /\ per.dReady THEN Nothing ELSE serving

(***************************************************************************)
(* What the two neighbours may do at an edge                               *)
(***************************************************************************)
Offers == IF waiting = Nothing THEN BOOLEAN ELSE {FALSE}
Accepts == IF per.aValid /\ ~PeriphRst /\ serving = Nothing THEN BOOLEAN ELSE {FALSE}
Answers == IF serving # Nothing THEN BOOLEAN ELSE {FALSE}

RstSys == \E level \in IF rst.sys /\ ~MayRelease THEN {TRUE} ELSE BOOLEAN :
            rst' = [rst EXCEPT !.sys = level, !.edges = IF rst.sys THEN @ ELSE 0]

RstPer == rst' = [rst EXCEPT !.sync = SyncNext,
                             !.edges = IF rst.sys /\ ~MayRelease THEN @ + 1 ELSE @]

SysStep == /\ \E v \in Offers, q \in Requests, ready \in BOOLEAN : SysEdge(v, q, ready)
           /\ RstSys
           /\ UNCHANGED <<per, aDst, dSrc, serving>>

PerStep == /\ \E accept \in Accepts, answer \in Answers : PerEdge(accept, answer)
           /\ RstPer
           /\ UNCHANGED <<sys, aSrc, dDst, waiting>>

\* The two clocks tick together, as they do in the simulator.
BothEdges ==
  /\ \E v \in Offers, q \in Requests, ready \in BOOLEAN : SysEdge(v, q, ready)
  /\ \E accept \in Accepts, answer \in Answers : PerEdge(accept, answer)
  /\ \E level \in IF rst.sys /\ ~MayRelease THEN {TRUE} ELSE BOOLEAN :
       rst' = [sys   |-> level, sync |-> SyncNext,
               edges |-> IF ~rst.sys THEN 0 ELSE IF MayRelease THEN rst.edges ELSE rst.edges + 1]

BridgeInit == \E q \in Requests :
  /\ sys = [aValid |-> FALSE, aReady |-> TRUE, aData |-> q, dValid |-> FALSE, dData |-> q]
  /\ per = [aValid |-> FALSE, aData |-> q, dValid |-> FALSE, dReady |-> TRUE, dData |-> q]
  /\ aSrc = A!SrcReset(q) /\ aDst = A!DstReset(q)
  /\ dSrc = D!SrcReset(q) /\ dDst = D!DstReset(q)
  /\ rst = [sys |-> FALSE, sync |-> [i \in 1 .. BRIDGE_STAGES |-> TRUE], edges |-> 0]
  /\ waiting = Nothing /\ serving = Nothing

BridgeNext == SysStep \/ PerStep \/ BothEdges

(***************************************************************************)
(* Both clocks run and a reset ends; nothing makes a reset begin.  A       *)
(* peripheral accepts and answers in the end, the bus takes a response in  *)
(* the end.                                                                *)
(***************************************************************************)
Works == /\ (per.aValid /\ ~PeriphRst /\ serving = Nothing) => serving' # Nothing
         /\ serving # Nothing => serving' = Nothing

BridgeFairness ==
  /\ WF_bridge_vars(SysStep /\ ~rst'.sys) /\ WF_bridge_vars(PerStep)
  /\ SF_bridge_vars(PerStep /\ Works)
  /\ SF_bridge_vars(SysStep /\ ~rst'.sys /\ (sys.dValid => waiting' = Nothing))

BridgeSpec == BridgeInit /\ [][BridgeNext]_bridge_vars
BridgeFairSpec == BridgeSpec /\ BridgeFairness

(***************************************************************************)
(* Properties                                                              *)
(***************************************************************************)
AnyReq == Requests \cup {Nothing}

\* Every register of the bridge holds a value of its width.
BridgeTypeOK ==
  /\ sys \in [aValid : BOOLEAN, aReady : BOOLEAN, aData : Requests, dValid : BOOLEAN, dData : Requests]
  /\ per \in [aValid : BOOLEAN, aData : Requests, dValid : BOOLEAN, dReady : BOOLEAN, dData : Requests]
  /\ aSrc \in A!SrcState /\ aDst \in A!DstState
  /\ dSrc \in D!SrcState /\ dDst \in D!DstState
  /\ rst \in [sys : BOOLEAN, sync : [1 .. BRIDGE_STAGES -> BOOLEAN], edges : 0 .. RESET_EDGES]
  /\ waiting \in AnyReq /\ serving \in AnyReq

\* The bus gets a response only when it waits for one, and the one to its
\* request: a reset leaves no old response behind in either direction.
ResponseAnswers == sys.dValid /\ ~rst.sys => sys.dData = waiting

\* Out of reset, the peripheral works only for the request the bus has under way.
ServesCurrent == serving # Nothing /\ ~rst.sys => serving = waiting

Count(b) == IF b THEN 1 ELSE 0

\* The request under way is in one place: a register, a handshake, the
\* peripheral, or on its way back; nothing else is under way.
OnePlace ==
  ~rst.sys /\ ~PeriphRst =>
    Count(sys.aValid) + Len(A!InFlight) + Count(per.aValid) + Count(serving # Nothing)
      + Count(per.dValid) + Len(D!InFlight) + Count(sys.dValid) = Count(waiting # Nothing)

\* The registers of both sides of the bridge agree on where the request is, and
\* no request and no response from before a reset is taken for one of after it
\* (bus_cdc_bridge.sv:90-140).
BridgeInv == BridgeTypeOK /\ OnePlace /\ ResponseAnswers /\ ServesCurrent

\* A request is answered, unless a reset takes it away.
Served == waiting # Nothing ~> waiting = Nothing
=============================================================================
